------------------------- MODULE CatalogPublishProofs -------------------------
(***************************************************************************)
(* Proofs about the publishing of the catalog, for any keys, currencies,   *)
(* revisions, modes and requests.  The invariants build on one another:    *)
(*                                                                         *)
(*   TypeInv      what the tables and the accounts hold and what a request *)
(*                carries at each step                                     *)
(*   LeaseHeld    a request that executes holds the open attempt of its    *)
(*                mode and alone writes to the account (OneWriter)         *)
(*   EvidenceInv  the log of an attempt says what its request has done     *)
(*                (LogIsEvidence, PublishedMeansExecuted, WriteAhead)      *)
(*   AimInv       an archive is aimed at the Price that the plan captured, *)
(*                which its key has left or is to leave (ArchivesSpare)    *)
(*   SaleInv      every revision sells the same keys (NeverOffSale)        *)
(*   PairInv      a replacement's create still finds the Price that its    *)
(*                archive names under the key                              *)
(*   OrphanInv    an active Price without its key is named by an archive in *)
(*                the log, or its archive was never recorded, and then it  *)
(*                is owed or has failed (OrphansAreExplained)              *)
(*   ConvergeInv  what is left of a plan brings the account into parity    *)
(*                (SuccessMeansParity)                                     *)
(*   AccountInv   a key that is not on its way is accounted for by the log *)
(*                (LogNamesFailures)                                       *)
(***************************************************************************)
EXTENDS CatalogPublish, PublishPlanProofs, SequenceTheorems

\* What a request carries at each of its steps.
RequestsWellFormed ==
    \A p \in Publishers :
        /\ pc[p] # "idle" => job[p].rev \in Revisions /\ job[p].mode \in Modes
        /\ \A call \in job[p].todo : WellFormed(call)
        /\ pc[p] \in {"calling", "replied"} => job[p].call \in Calls /\ WellFormed(job[p].call)
        /\ pc[p] = "replied" => job[p].reply \in {"succeeded", "failed"}

TypeInv == TypeOK /\ RequestsWellFormed

\* A request that executes holds an open attempt of its mode; no two share
\* one; a mode has no other.
LeaseHeld ==
    /\ \A p \in Publishers :
          pc[p] \in Executing =>
              /\ job[p].attempt \in DOMAIN attempts
              /\ attempts[job[p].attempt].outcome = "open"
              /\ attempts[job[p].attempt].mode = job[p].mode
    /\ \A p, q \in Publishers :
          /\ pc[p] \in Executing /\ pc[q] \in Executing
          /\ job[p].attempt = job[q].attempt
          => p = q
    /\ \A a, b \in DOMAIN attempts :
          /\ attempts[a].outcome = "open" /\ attempts[b].outcome = "open"
          /\ attempts[a].mode = attempts[b].mode
          => a = b

--------------------------------------------------------------------------------
(* Lemmas about the helpers.                                               *)

\* Replacing an element of a sequence by another of its kind.
LEMMA ReplaceInSeq ==
    ASSUME NEW S, NEW s \in Seq(S), NEW i, NEW v, i \in DOMAIN s => v \in S
    PROVE  /\ [s EXCEPT ![i] = v] \in Seq(S)
           /\ DOMAIN [s EXCEPT ![i] = v] = DOMAIN s
<1>1. s \in [1..Len(s) -> S]
  OBVIOUS
<1>2. [s EXCEPT ![i] = v] \in [1..Len(s) -> S]
  BY <1>1
<1> QED
  BY <1>2, <1>1, Len(s) \in Nat

\* listPrices of a mode, seen by the comparator.
LEMMA ObservedShape ==
    ASSUME TypeOK, NEW m \in Modes
    PROVE  Observed(m) \in Observations
<1>1. stripe[m] \in Seq(Prices)
  BY DEF TypeOK
<1>2. ASSUME NEW i \in DOMAIN stripe[m] PROVE View(m, i) \in PriceViews
  <2>1. i \in Nat /\ stripe[m][i] \in Prices
    BY <1>1
  <2> QED
    BY <2>1 DEF View, PriceViews, Prices
<1>3. ASSUME NEW k \in Keys, Holders(m, k) # {}
      PROVE  (CHOOSE i \in Holders(m, k) : TRUE) \in DOMAIN stripe[m]
  BY <1>3 DEF Holders
<1> QED
  BY <1>2, <1>3 DEF Observed, Observations

LEMMA UnwrittenShape == Unwritten \in [Keys -> Coverages]
  BY DEF Unwritten, Uncovered, Coverages

LEMMA NoJobShape == NoJob \in Jobs
  BY UnwrittenShape DEF NoJob, Jobs, Fingerprints

LEMMA BreachesAreRules ==
    ASSUME NEW r, NEW m
    PROVE  Breaches(r, m) \in SUBSET Rules
  BY DEF Breaches, RequiresConfirmation, Rules

\* What an accepted call does to an account keeps it an account.
LEMMA StripeAfterShape ==
    ASSUME TypeOK, NEW m \in Modes, NEW call \in Calls, WellFormed(call), Accepts(m, call)
    PROVE  StripeAfter(stripe[m], call) \in Seq(Prices)
<1> DEFINE prices == stripe[m]
<1>0. prices \in Seq(Prices)
  BY DEF TypeOK
<1>1. CASE call.kind = "create_product"
  BY <1>0, <1>1 DEF StripeAfter
<1>2. CASE call.kind # "create_product" /\ call.verb = "create"
  <2>1. [key |-> call.key, currency |-> call.currency, coverage |-> call.coverage,
         active |-> TRUE] \in Prices
    BY <1>2 DEF Prices, Calls, WellFormed
  <2>2. [i \in DOMAIN prices |->
           IF prices[i].key = call.key THEN [prices[i] EXCEPT !.key = None] ELSE prices[i]]
              \in Seq(Prices)
    <3>1. \A i \in DOMAIN prices : prices[i] \in Prices
      BY <1>0
    <3>2. \A price \in Prices : [price EXCEPT !.key = None] \in Prices
      BY DEF Prices
    <3>3. DOMAIN prices = 1..Len(prices) /\ Len(prices) \in Nat
      BY <1>0
    <3> QED
      BY <3>1, <3>2, <3>3
  <2>3. StripeAfter(prices, call) = WithNewPrice(prices, call)
    BY <1>2 DEF StripeAfter
  <2> QED
    BY <2>1, <2>2, <2>3 DEF WithNewPrice
<1>3. CASE call.kind # "create_product" /\ call.verb # "create"
  <2>1. StripeAfter(prices, call) =
           [prices EXCEPT ![call.price] = UpdatedPrice(prices[call.price], call)]
    BY <1>3 DEF StripeAfter
  <2>2. ASSUME call.price \in DOMAIN prices
        PROVE  UpdatedPrice(prices[call.price], call) \in Prices
    <3>1. prices[call.price] \in Prices
      BY <1>0, <2>2
    <3>2. CASE call.verb = "archive"
      BY <3>1, <3>2 DEF UpdatedPrice, Prices
    <3>3. CASE call.verb = "update"
      <4>1. /\ call.kind \in {"add_currency_option", "update_tax_behavior"}
            /\ call.currency \in Currencies
            /\ call.coverage[call.currency] \in Cells
        BY <3>3 DEF WellFormed
      <4>2. prices[call.price].coverage \in Coverages
        BY <3>1 DEF Prices
      <4>3. UpdatedCell(prices[call.price].coverage[call.currency], call) \in Cells
        <5>1. CASE call.kind = "add_currency_option"
          BY <4>1, <5>1 DEF UpdatedCell, Cells, TaxBehaviors
        <5>2. CASE call.kind = "update_tax_behavior"
          <6>1. prices[call.price].coverage[call.currency] \in Cells
            BY <4>1, <4>2, <5>2 DEF Accepts, Coverages
          <6> QED
            BY <4>1, <5>2, <6>1 DEF UpdatedCell, Cells
        <5> QED
          BY <4>1, <5>1, <5>2
      <4>4. [prices[call.price].coverage EXCEPT
                ![call.currency] = UpdatedCell(prices[call.price].coverage[call.currency], call)]
              \in Coverages
        BY <4>1, <4>2, <4>3 DEF Coverages
      <4> QED
        BY <3>1, <3>3, <4>4 DEF UpdatedPrice, Prices
    <3> QED
      BY <3>2, <3>3, <1>3 DEF Calls
  <2> QED
    BY <1>0, <2>1, <2>2, ReplaceInSeq
<1> QED
  BY <1>1, <1>2, <1>3

--------------------------------------------------------------------------------
(* Type correctness.                                                       *)

LEMMA InitTypeInv == Init => TypeInv
<1> SUFFICES ASSUME Init PROVE TypeInv
  OBVIOUS
<1> USE PublishAssumption DEF Init
<1>1. rows \in [Revisions -> [Keys -> Coverages]]
  BY UnwrittenShape
<1>2. live \in [Modes -> Revisions] /\ published \in SUBSET (Modes \X Revisions)
  OBVIOUS
<1>3. products \in [Modes -> [Plans -> Nat]]
  OBVIOUS
<1>4. stripe \in [Modes -> Seq(Prices)]
  OBVIOUS
<1>5. revs \in [Revisions -> {"unborn", "exists", "discarded"}]
      /\ basedOn \in [Revisions -> Revisions \cup {None}]
  OBVIOUS
<1>6. attempts \in Seq(Attempts) /\ pc \in [Publishers -> PcValues]
      /\ job \in [Publishers -> Jobs] /\ editor \in Edits \cup {None}
  BY NoJobShape DEF PcValues
<1>7. RequestsWellFormed
  BY DEF RequestsWellFormed, NoJob
<1> QED
  BY <1>1, <1>2, <1>3, <1>4, <1>5, <1>6, <1>7 DEF TypeInv, TypeOK

\* The steps that touch neither the requests nor the operation log.
LEMMA DraftTypeInv == TypeInv /\ (Draft \/ Dashboard) => TypeInv'
<1> SUFFICES ASSUME TypeInv, Draft \/ Dashboard PROVE TypeInv'
  OBVIOUS
<1> USE DEF TypeInv, database, account
<1>1. ASSUME NEW m \in Modes, NEW r \in Revisions, CreateDraftFrom(m, r) PROVE TypeInv'
  BY <1>1 DEF CreateDraftFrom, TypeOK, RequestsWellFormed
<1>2. ASSUME NEW r \in Revisions, DiscardDraft(r) PROVE TypeInv'
  BY <1>2, UnwrittenShape DEF DiscardDraft, TypeOK, RequestsWellFormed
<1>3. ASSUME NEW edit \in Edits, EditCheck(edit) PROVE TypeInv'
  BY <1>3 DEF EditCheck, TypeOK, RequestsWellFormed
<1>4. ASSUME EditWrite PROVE TypeInv'
  <2> DEFINE row == rows[editor.rev][editor.key]
             tax == IF row[editor.currency] = None THEN "unspecified"
                    ELSE row[editor.currency].tax
             cell == [amount |-> editor.amount, tax |-> tax]
  <2>1. editor \in Edits
    BY <1>4 DEF EditWrite, TypeOK
  <2>2. /\ editor.rev \in Revisions /\ editor.key \in Keys
        /\ editor.currency \in Currencies /\ editor.amount \in Nat
    BY <2>1, PublishAssumption DEF Edits
  <2>3. row \in Coverages
    BY <2>2 DEF TypeOK
  <2>4. cell \in Cells
    BY <2>2, <2>3 DEF Coverages, Cells, TaxBehaviors
  <2>5. rows' \in [Revisions -> [Keys -> Coverages]]
    <3>1. CASE UNCHANGED rows
      BY <3>1 DEF TypeOK
    <3>2. CASE rows' = [rows EXCEPT ![editor.rev][editor.key][editor.currency] = cell]
      <4>1. [row EXCEPT ![editor.currency] = cell] \in Coverages
        BY <2>2, <2>3, <2>4 DEF Coverages
      <4> QED
        BY <2>2, <3>2, <4>1 DEF TypeOK
    <3> QED
      BY <1>4, <3>1, <3>2 DEF EditWrite
  <2> QED
    BY <1>4, <2>5 DEF EditWrite, TypeOK, RequestsWellFormed
<1>5. ASSUME NEW m \in Modes, NEW i \in DOMAIN stripe[m], DashboardArchive(m, i) PROVE TypeInv'
  <2>1. stripe[m] \in Seq(Prices) /\ stripe[m][i] \in Prices
    BY DEF TypeOK
  <2>2. [stripe[m][i] EXCEPT !.active = FALSE] \in Prices
    BY <2>1 DEF Prices
  <2>3. [stripe[m] EXCEPT ![i].active = FALSE] \in Seq(Prices)
    BY <2>1, <2>2, ReplaceInSeq
  <2>4. stripe' \in [Modes -> Seq(Prices)]
    BY <1>5, <2>3 DEF DashboardArchive, TypeOK
  <2> QED
    BY <1>5, <2>4 DEF DashboardArchive, TypeOK, RequestsWellFormed
<1>6. ASSUME NEW m \in Modes, NEW k \in Keys, NEW c \in Currencies,
             NEW coverage \in DashboardCoverages, DashboardCreate(m, k, c, coverage)
      PROVE  TypeInv'
  <2>1. [key |-> k, currency |-> c, coverage |-> coverage, active |-> TRUE] \in Prices
    BY PublishAssumption DEF Prices
  <2>2. stripe' \in [Modes -> Seq(Prices)]
    BY <1>6, <2>1 DEF DashboardCreate, TypeOK
  <2> QED
    BY <1>6, <2>2 DEF DashboardCreate, TypeOK, RequestsWellFormed
<1> QED
  BY <1>1, <1>2, <1>3, <1>4, <1>5, <1>6 DEF Draft, Dashboard

\* A request that goes on to a new step with a well-formed job, while the
\* tables and the accounts keep their types, keeps the invariant.
LEMMA RequestStep ==
    ASSUME TypeInv, NEW p \in Publishers,
           NEW step \in PcValues, NEW next \in Jobs,
           pc' = [pc EXCEPT ![p] = step], job' = [job EXCEPT ![p] = next],
           step # "idle" => next.rev \in Revisions /\ next.mode \in Modes,
           \A call \in next.todo : WellFormed(call),
           step \in {"calling", "replied"} => next.call \in Calls /\ WellFormed(next.call),
           step = "replied" => next.reply \in {"succeeded", "failed"}
    PROVE  /\ pc' \in [Publishers -> PcValues]
           /\ job' \in [Publishers -> Jobs]
           /\ RequestsWellFormed'
<1>1. pc \in [Publishers -> PcValues] /\ job \in [Publishers -> Jobs]
  BY DEF TypeInv, TypeOK
<1>2. \A q \in Publishers : /\ pc'[q] = IF q = p THEN step ELSE pc[q]
                            /\ job'[q] = IF q = p THEN next ELSE job[q]
  BY <1>1
<1> QED
  BY <1>1, <1>2 DEF TypeInv, RequestsWellFormed

\* A request that ends.
LEMMA RequestEnds ==
    ASSUME TypeInv, NEW p \in Publishers,
           pc' = [pc EXCEPT ![p] = "idle"], job' = [job EXCEPT ![p] = NoJob]
    PROVE  /\ pc' \in [Publishers -> PcValues]
           /\ job' \in [Publishers -> Jobs]
           /\ RequestsWellFormed'
<1>1. \A call \in NoJob.todo : WellFormed(call)
  BY DEF NoJob
<1> QED
  BY <1>1, NoJobShape, RequestStep DEF PcValues

LEMMA SubmitTypeInv ==
    ASSUME TypeInv, NEW p \in Publishers, Submit(p)
    PROVE  TypeInv'
<1> USE DEF TypeInv, database, account
<1>0. job[p] \in Jobs /\ pc[p] \in PcValues
  BY DEF TypeOK
<1>1. ASSUME NEW r \in Revisions, NEW m \in Modes, Review(p, r, m) PROVE TypeInv'
  <2> DEFINE next == [NoJob EXCEPT !.rev = r, !.mode = m, !.ack = Breaches(r, m)]
  <2>1. next \in Jobs /\ next.rev = r /\ next.mode = m /\ next.todo = {}
    BY NoJobShape, BreachesAreRules DEF Jobs, NoJob
  <2>2. pc' = [pc EXCEPT ![p] = "reviewed"] /\ job' = [job EXCEPT ![p] = next]
    BY <1>1 DEF Review
  <2> HIDE DEF next
  <2>3. /\ pc' \in [Publishers -> PcValues]
        /\ job' \in [Publishers -> Jobs]
        /\ RequestsWellFormed'
    BY <2>1, <2>2, RequestStep DEF PcValues
  <2> QED
    BY <1>1, <2>3 DEF Review, TypeOK
<1>2. ASSUME Confirm(p) PROVE TypeInv'
  <2> DEFINE next == [job[p] EXCEPT !.confirmed = Fingerprint(Observed(job[p].mode))]
  <2>1. job[p].mode \in Modes /\ job[p].rev \in Revisions
    BY <1>2 DEF Confirm, RequestsWellFormed
  <2>2. Fingerprint(Observed(job[p].mode)) \in Fingerprints
    BY <2>1, ObservedShape, FingerprintShape DEF Fingerprints
  <2>3. /\ next \in Jobs /\ next.rev = job[p].rev /\ next.mode = job[p].mode
        /\ next.todo = job[p].todo
    BY <1>0, <2>2 DEF Jobs
  <2>4. pc' = [pc EXCEPT ![p] = "confirmed"] /\ job' = [job EXCEPT ![p] = next]
    BY <1>2 DEF Confirm
  <2> HIDE DEF next
  <2>5. \A call \in next.todo : WellFormed(call)
    BY <2>3 DEF RequestsWellFormed
  <2>6. /\ pc' \in [Publishers -> PcValues]
        /\ job' \in [Publishers -> Jobs]
        /\ RequestsWellFormed'
    BY <2>1, <2>3, <2>4, <2>5, RequestStep DEF PcValues
  <2> QED
    BY <1>2, <2>6 DEF Confirm, TypeOK
<1>3. ASSUME Refuse(p) PROVE TypeInv'
  BY <1>3, RequestEnds DEF Refuse, TypeOK
<1>4. ASSUME StartPublishAttempt(p) PROVE TypeInv'
  <2> DEFINE next == [job[p] EXCEPT !.attempt = Len(attempts) + 1]
             new == [rev |-> job[p].rev, mode |-> job[p].mode,
                     fingerprint |-> job[p].confirmed, outcome |-> "open", log |-> <<>>]
  <2>1. job[p].mode \in Modes /\ job[p].rev \in Revisions
    BY <1>4 DEF StartPublishAttempt, RequestsWellFormed
  <2>2. new \in Attempts
    BY <1>0, <2>1 DEF Attempts, Jobs
  <2>3. attempts' \in Seq(Attempts)
    BY <1>4, <2>2 DEF StartPublishAttempt, TypeOK
  <2>4. Len(attempts) + 1 \in Nat
    BY DEF TypeOK
  <2>5. /\ next \in Jobs /\ next.rev = job[p].rev /\ next.mode = job[p].mode
        /\ next.todo = job[p].todo
    BY <1>0, <2>4 DEF Jobs
  <2>6. pc' = [pc EXCEPT ![p] = "open"] /\ job' = [job EXCEPT ![p] = next]
    BY <1>4 DEF StartPublishAttempt
  <2> HIDE DEF next
  <2>7. \A call \in next.todo : WellFormed(call)
    BY <2>5 DEF RequestsWellFormed
  <2>8. /\ pc' \in [Publishers -> PcValues]
        /\ job' \in [Publishers -> Jobs]
        /\ RequestsWellFormed'
    BY <2>1, <2>5, <2>6, <2>7, RequestStep DEF PcValues, Executing
  <2> QED
    BY <1>4, <2>3, <2>8 DEF StartPublishAttempt, TypeOK
<1>5. ASSUME StartRefused(p) PROVE TypeInv'
  BY <1>5, RequestEnds DEF StartRefused, TypeOK
<1> QED
  BY <1>1, <1>2, <1>3, <1>4, <1>5 DEF Submit

\* An attempt that is closed.
LEMMA AttemptCloses ==
    ASSUME TypeInv, NEW a, NEW outcome \in {"open", "succeeded", "failed", "aborted"}
    PROVE  [attempts EXCEPT ![a].outcome = outcome] \in Seq(Attempts)
<1>1. attempts \in Seq(Attempts)
  BY DEF TypeInv, TypeOK
<1>2. a \in DOMAIN attempts => attempts[a] \in Attempts
  BY <1>1
<1>3. a \in DOMAIN attempts => [attempts[a] EXCEPT !.outcome = outcome] \in Attempts
  BY <1>2 DEF Attempts
<1> QED
  BY <1>1, <1>3, ReplaceInSeq

\* An attempt whose log grows.
LEMMA AttemptLogs ==
    ASSUME TypeInv, NEW a, NEW row \in LogRows
    PROVE  [attempts EXCEPT ![a].log = Append(@, row)] \in Seq(Attempts)
<1>1. attempts \in Seq(Attempts)
  BY DEF TypeInv, TypeOK
<1>2. a \in DOMAIN attempts => attempts[a] \in Attempts
  BY <1>1
<1>3. a \in DOMAIN attempts => [attempts[a] EXCEPT !.log = Append(@, row)] \in Attempts
  BY <1>2 DEF Attempts
<1> QED
  BY <1>1, <1>3, ReplaceInSeq

\* An attempt whose log learns a reply.
LEMMA AttemptLearns ==
    ASSUME TypeInv, NEW a, NEW n, NEW reply \in {"pending", "succeeded", "failed"}
    PROVE  [attempts EXCEPT ![a].log[n].status = reply] \in Seq(Attempts)
<1>1. attempts \in Seq(Attempts)
  BY DEF TypeInv, TypeOK
<1>2. ASSUME a \in DOMAIN attempts
      PROVE  [attempts[a] EXCEPT !.log[n].status = reply] \in Attempts
  <2>0. attempts[a] \in Attempts
    BY <1>1, <1>2
  <2>1. attempts[a].log \in Seq(LogRows)
    BY <2>0 DEF Attempts
  <2>2. n \in DOMAIN attempts[a].log => attempts[a].log[n] \in LogRows
    BY <2>1
  <2>3. n \in DOMAIN attempts[a].log => [attempts[a].log[n] EXCEPT !.status = reply] \in LogRows
    BY <2>2 DEF LogRows
  <2>4. [attempts[a].log EXCEPT ![n].status = reply] \in Seq(LogRows)
    BY <2>1, <2>3, ReplaceInSeq
  <2> QED
    BY <2>0, <2>4 DEF Attempts
<1> QED
  BY <1>1, <1>2, ReplaceInSeq

LEMMA ProductsAfterShape ==
    ASSUME NEW counts \in [Plans -> Nat], NEW call \in Calls
    PROVE  ProductsAfter(counts, call) \in [Plans -> Nat]
BY PlanAssumption DEF ProductsAfter, Calls

LEMMA LogRowShape ==
    ASSUME NEW call \in Calls
    PROVE  LogRow(call) \in LogRows
BY DEF LogRow, Row, LogRows, Calls

LEMMA ExecuteTypeInv ==
    ASSUME TypeInv, NEW p \in Publishers, Execute(p)
    PROVE  TypeInv'
<1> USE DEF TypeInv, database, account
<1> DEFINE m == job[p].mode
<1>0. /\ job[p] \in Jobs /\ pc[p] \in PcValues
      /\ \A call \in job[p].todo : call \in Calls /\ WellFormed(call)
  BY DEF TypeOK, RequestsWellFormed, Jobs
<1>1. ASSUME pc[p] # "idle"
      PROVE  /\ job[p].rev \in Revisions /\ m \in Modes
             /\ Observed(m) \in Observations
             /\ rows[job[p].rev] \in [Keys -> Coverages]
  BY <1>1, ObservedShape DEF TypeOK, RequestsWellFormed
<1>2. CASE Reobserve(p)
  <2> DEFINE todo == BuildPublishPlan(rows[job[p].rev], Observed(m))
             next == [job[p] EXCEPT !.goal = rows[job[p].rev], !.todo = todo]
  <2>1. \A call \in todo : call \in Calls /\ WellFormed(call)
    BY <1>1, <1>2, PlanShape DEF Reobserve
  <2> HIDE DEF todo
  <2>2. /\ next \in Jobs /\ next.rev = job[p].rev /\ next.mode = m /\ next.todo = todo
    BY <1>0, <1>1, <1>2, <2>1 DEF Jobs, Reobserve
  <2>3. pc' = [pc EXCEPT ![p] = "running"] /\ job' = [job EXCEPT ![p] = next]
    BY <1>2 DEF Reobserve, todo
  <2> HIDE DEF next
  <2>4. /\ pc' \in [Publishers -> PcValues] /\ job' \in [Publishers -> Jobs]
        /\ RequestsWellFormed'
    BY <1>1, <1>2, <2>1, <2>2, <2>3, RequestStep DEF Reobserve, PcValues, Executing
  <2> QED
    BY <1>2, <2>4 DEF Reobserve, TypeOK
<1>3. CASE ReobserveMoved(p)
  <2>1. job' = [job EXCEPT ![p] = job[p]]
    BY <1>3 DEF ReobserveMoved, TypeOK
  <2>2. /\ pc' \in [Publishers -> PcValues] /\ job' \in [Publishers -> Jobs]
        /\ RequestsWellFormed'
    BY <1>0, <1>1, <1>3, <2>1, RequestStep DEF ReobserveMoved, PcValues, Executing
  <2> QED
    BY <1>3, <2>2 DEF ReobserveMoved, TypeOK
<1>4. CASE FinishAborted(p)
  <2>1. attempts' \in Seq(Attempts)
    BY <1>4, AttemptCloses DEF FinishAborted
  <2> QED
    BY <1>4, <2>1, RequestEnds DEF FinishAborted, TypeOK
<1>5. CASE RecordOperation(p)
  <2>1. PICK call \in NextCalls(job[p].todo) :
           /\ attempts' = [attempts EXCEPT ![job[p].attempt].log = Append(@, LogRow(call))]
           /\ job' = [job EXCEPT ![p].call = call, ![p].todo = @ \ {call}]
    BY <1>5 DEF RecordOperation
  <2>2. call \in Calls /\ WellFormed(call)
    BY <1>0 DEF NextCalls
  <2>3. attempts' \in Seq(Attempts)
    BY <2>1, <2>2, LogRowShape, AttemptLogs
  <2> DEFINE next == [job[p] EXCEPT !.call = call, !.todo = @ \ {call}]
  <2>4. /\ next \in Jobs /\ next.rev = job[p].rev /\ next.mode = m
        /\ next.todo \subseteq job[p].todo /\ next.call = call
    BY <1>0, <2>2 DEF Jobs
  <2>5. pc' = [pc EXCEPT ![p] = "calling"] /\ job' = [job EXCEPT ![p] = next]
    BY <1>5, <2>1 DEF RecordOperation
  <2> HIDE DEF next
  <2>6. /\ pc' \in [Publishers -> PcValues] /\ job' \in [Publishers -> Jobs]
        /\ RequestsWellFormed'
    BY <1>0, <1>1, <1>5, <2>2, <2>4, <2>5, RequestStep DEF RecordOperation, PcValues, Executing
  <2> QED
    BY <1>5, <2>3, <2>6 DEF RecordOperation, TypeOK
<1>6. CASE OperationSkipped(p)
  <2>1. PICK call \in NextCalls(job[p].todo) :
           job' = [job EXCEPT ![p].failed = TRUE,
                              ![p].todo = @ \ ({call} \cup FollowUp(@, call))]
    BY <1>6 DEF OperationSkipped
  <2> DEFINE todo == job[p].todo \ ({call} \cup FollowUp(job[p].todo, call))
             next == [job[p] EXCEPT !.failed = TRUE, !.todo = todo]
  <2>2. todo \subseteq job[p].todo
    OBVIOUS
  <2> HIDE DEF todo
  <2>3. /\ next \in Jobs /\ next.rev = job[p].rev /\ next.mode = m /\ next.todo = todo
    BY <1>0, <2>2 DEF Jobs
  <2>4. pc' = [pc EXCEPT ![p] = "running"] /\ job' = [job EXCEPT ![p] = next]
    BY <1>6, <2>1 DEF OperationSkipped, TypeOK, todo
  <2> HIDE DEF next
  <2>5. /\ pc' \in [Publishers -> PcValues] /\ job' \in [Publishers -> Jobs]
        /\ RequestsWellFormed'
    BY <1>0, <1>1, <1>6, <2>2, <2>3, <2>4, RequestStep
       DEF OperationSkipped, PcValues, Executing
  <2> QED
    BY <1>6, <2>5 DEF OperationSkipped, TypeOK
<1>7. ASSUME NEW reply \in {"succeeded", "failed"}, StripeReplies(p, reply)
      PROVE  /\ pc' \in [Publishers -> PcValues] /\ job' \in [Publishers -> Jobs]
             /\ RequestsWellFormed'
  <2> DEFINE next == [job[p] EXCEPT !.reply = reply]
  <2>1. /\ next \in Jobs /\ next.rev = job[p].rev /\ next.mode = m
        /\ next.todo = job[p].todo /\ next.call = job[p].call /\ next.reply = reply
    BY <1>0 DEF Jobs
  <2>2. pc' = [pc EXCEPT ![p] = "replied"] /\ job' = [job EXCEPT ![p] = next]
    BY <1>7 DEF StripeReplies
  <2>3. job[p].call \in Calls /\ WellFormed(job[p].call)
    BY <1>7 DEF StripeReplies, RequestsWellFormed
  <2> HIDE DEF next
  <2>4. next.rev \in Revisions /\ next.mode \in Modes
    BY <1>1, <1>7, <2>1 DEF StripeReplies
  <2>5. \A call \in next.todo : WellFormed(call)
    BY <1>0, <2>1
  <2>6. next.call \in Calls /\ WellFormed(next.call)
    BY <2>1, <2>3
  <2>7. "replied" \in PcValues
    BY DEF PcValues, Executing
  <2> QED
    BY <2>1, <2>2, <2>4, <2>5, <2>6, <2>7, RequestStep
<1>8. ASSUME NEW reply \in {"succeeded", "failed"}, StripeReplies(p, reply), StripeApplies(p)
      PROVE  TypeInv'
  <2>1. job[p].call \in Calls /\ WellFormed(job[p].call) /\ m \in Modes
    BY <1>1, <1>8 DEF StripeReplies, RequestsWellFormed
  <2>2. StripeAfter(stripe[m], job[p].call) \in Seq(Prices)
    BY <1>8, <2>1, StripeAfterShape DEF StripeApplies
  <2>3. ProductsAfter(products[m], job[p].call) \in [Plans -> Nat]
    BY <2>1, ProductsAfterShape DEF TypeOK
  <2>4. stripe' \in [Modes -> Seq(Prices)] /\ products' \in [Modes -> [Plans -> Nat]]
    BY <1>8, <2>1, <2>2, <2>3 DEF StripeApplies, TypeOK
  <2> QED
    BY <1>7, <1>8, <2>4 DEF StripeReplies, TypeOK
<1>9. CASE StripeAnswers(p) \/ StripeReplyLost(p)
  BY <1>8, <1>9 DEF StripeAnswers, StripeReplyLost
<1>10. CASE StripeRefuses(p)
  BY <1>7, <1>10 DEF StripeRefuses, StripeReplies, TypeOK
<1>11. CASE CompleteOperation(p)
  <2> DEFINE lost == job[p].reply = "failed"
             todo == IF lost THEN job[p].todo \ FollowUp(job[p].todo, job[p].call)
                     ELSE job[p].todo
             next == [job[p] EXCEPT !.failed = @ \/ lost, !.todo = todo,
                                    !.call = None, !.reply = "none"]
  <2>1. todo \subseteq job[p].todo
    OBVIOUS
  <2>2. attempts' \in Seq(Attempts)
    BY <1>11, AttemptLearns DEF CompleteOperation, RequestsWellFormed
  <2>3. pc' = [pc EXCEPT ![p] = "running"] /\ job' = [job EXCEPT ![p] = next]
    BY <1>11 DEF CompleteOperation, TypeOK
  <2>4. (job[p].failed \/ lost) \in BOOLEAN
    OBVIOUS
  <2> HIDE DEF todo
  <2>5. /\ next \in Jobs /\ next.rev = job[p].rev /\ next.mode = m /\ next.todo = todo
    BY <1>0, <2>1, <2>4 DEF Jobs
  <2> HIDE DEF next
  <2>6. /\ pc' \in [Publishers -> PcValues] /\ job' \in [Publishers -> Jobs]
        /\ RequestsWellFormed'
    BY <1>0, <1>1, <1>11, <2>1, <2>3, <2>5, RequestStep
       DEF CompleteOperation, PcValues, Executing
  <2> QED
    BY <1>11, <2>2, <2>6 DEF CompleteOperation, TypeOK
<1>12. CASE FinishPublish(p)
  <2>1. attempts' \in Seq(Attempts)
    BY <1>12, AttemptCloses DEF FinishPublish, Outcome
  <2>2. CASE Promotes(p)
    <3>1. pc' = [pc EXCEPT ![p] = "promoting"] /\ job' = [job EXCEPT ![p] = job[p]]
      BY <1>12, <2>2 DEF FinishPublish, TypeOK
    <3>2. /\ pc' \in [Publishers -> PcValues] /\ job' \in [Publishers -> Jobs]
          /\ RequestsWellFormed'
      BY <1>0, <1>1, <1>12, <3>1, RequestStep DEF FinishPublish, PcValues, Executing
    <3> QED
      BY <1>12, <2>1, <3>2 DEF FinishPublish, TypeOK
  <2>3. CASE ~Promotes(p)
    <3>1. pc' = [pc EXCEPT ![p] = "idle"] /\ job' = [job EXCEPT ![p] = NoJob]
      BY <1>12, <2>3 DEF FinishPublish
    <3> QED
      BY <1>12, <2>1, <3>1, RequestEnds DEF FinishPublish, TypeOK
  <2> QED
    BY <2>2, <2>3
<1>13. CASE PromotePublication(p)
  <2>1. live' \in [Modes -> Revisions] /\ published' \in SUBSET (Modes \X Revisions)
    BY <1>1, <1>13 DEF PromotePublication, TypeOK
  <2> QED
    BY <1>13, <2>1, RequestEnds DEF PromotePublication, TypeOK
<1> QED
  BY <1>2, <1>3, <1>4, <1>5, <1>6, <1>9, <1>10, <1>11, <1>12, <1>13 DEF Execute

LEMMA StopTypeInv ==
    ASSUME TypeInv, NEW p \in Publishers, CompletionFails(p) \/ Crash(p)
    PROVE  TypeInv'
<1> USE DEF TypeInv, database, account
<1>1. CASE CompletionFails(p)
  BY <1>1, RequestEnds DEF CompletionFails, TypeOK
<1>2. CASE Crash(p)
  BY <1>2, RequestEnds DEF Crash, TypeOK
<1> QED
  BY <1>1, <1>2

LEMMA NextTypeInv == TypeInv /\ [Next]_vars => TypeInv'
<1> SUFFICES ASSUME TypeInv, [Next]_vars PROVE TypeInv'
  OBVIOUS
<1>1. ASSUME NEW p \in Publishers, Submit(p) \/ Execute(p) \/ CompletionFails(p) \/ Crash(p)
      PROVE  TypeInv'
  BY <1>1, SubmitTypeInv, ExecuteTypeInv, StopTypeInv
<1>2. CASE Draft \/ Dashboard
  BY <1>2, DraftTypeInv
<1>3. CASE UNCHANGED vars
  BY <1>3 DEF vars, database, account, TypeInv, TypeOK, RequestsWellFormed
<1> QED
  BY <1>1, <1>2, <1>3 DEF Next

\* In every reachable state the tables of publish-repo.ts, the Stripe accounts
\* and the requests of actions.ts and publish-executor.ts hold values of their
\* kinds, and a request carries what its next step reads.
THEOREM TypeInvariant == Spec => []TypeInv
<1>1. Init => TypeInv
  BY InitTypeInv
<1>2. TypeInv /\ [Next]_vars => TypeInv'
  BY NextTypeInv
<1> QED
  BY <1>1, <1>2, PTL DEF Spec

\* The same, for the invariant the runs check.
THEOREM TypeCorrect == Spec => []TypeOK
<1>1. TypeInv => TypeOK
  BY DEF TypeInv
<1> QED
  BY <1>1, TypeInvariant, PTL

--------------------------------------------------------------------------------
(* The lease.                                                              *)

LEMMA InitLease == Init => LeaseHeld
  BY DEF Init, LeaseHeld, Executing

\* A step that moves one request and neither opens nor closes an attempt,
\* the request executing after it only if it executed before.
LEMMA LeaseKept ==
    ASSUME TypeInv, LeaseHeld, NEW p \in Publishers,
           DOMAIN attempts' = DOMAIN attempts,
           \A a \in DOMAIN attempts : /\ attempts'[a].mode = attempts[a].mode
                                      /\ attempts'[a].outcome = attempts[a].outcome,
           NEW step, NEW next,
           pc' = [pc EXCEPT ![p] = step], job' = [job EXCEPT ![p] = next],
           step \in Executing => /\ pc[p] \in Executing
                                 /\ next.attempt = job[p].attempt
                                 /\ next.mode = job[p].mode
    PROVE  LeaseHeld'
<1>1. pc \in [Publishers -> PcValues] /\ job \in [Publishers -> Jobs]
  BY DEF TypeInv, TypeOK
<1>2. \A q \in Publishers : /\ pc'[q] = IF q = p THEN step ELSE pc[q]
                            /\ job'[q] = IF q = p THEN next ELSE job[q]
  BY <1>1
<1>3. \A q \in Publishers : pc'[q] \in Executing =>
         /\ pc[q] \in Executing
         /\ job'[q].attempt = job[q].attempt /\ job'[q].mode = job[q].mode
  BY <1>2
<1> QED
  BY <1>3 DEF LeaseHeld

\* A request that closes its attempt and no longer executes.
LEMMA LeaseReleased ==
    ASSUME TypeInv, LeaseHeld, NEW p \in Publishers, pc[p] \in Executing,
           NEW outcome, outcome # "open",
           attempts' = [attempts EXCEPT ![job[p].attempt].outcome = outcome],
           NEW step, step \notin Executing, pc' = [pc EXCEPT ![p] = step],
           NEW next, job' = [job EXCEPT ![p] = next]
    PROVE  LeaseHeld'
<1>1. /\ pc \in [Publishers -> PcValues] /\ job \in [Publishers -> Jobs]
      /\ attempts \in Seq(Attempts)
  BY DEF TypeInv, TypeOK
<1> DEFINE own == job[p].attempt
<1>2. \A q \in Publishers :
         pc'[q] \in Executing => q # p /\ pc'[q] = pc[q] /\ job'[q] = job[q]
  BY <1>1
<1>3. own \in DOMAIN attempts
  BY DEF LeaseHeld
<1>4. /\ DOMAIN attempts' = DOMAIN attempts
      /\ attempts'[own].outcome = outcome
      /\ \A a \in DOMAIN attempts : /\ attempts'[a].mode = attempts[a].mode
                                    /\ a # own => attempts'[a] = attempts[a]
  <2>1. \A a \in DOMAIN attempts : attempts[a] \in Attempts
    BY <1>1
  <2>2. attempts'[own] = [attempts[own] EXCEPT !.outcome = outcome]
    BY <1>1, <1>3
  <2>3. attempts'[own].outcome = outcome /\ attempts'[own].mode = attempts[own].mode
    BY <2>1, <2>2, <1>3 DEF Attempts
  <2>4. /\ DOMAIN attempts' = DOMAIN attempts
        /\ \A a \in DOMAIN attempts : a # own => attempts'[a] = attempts[a]
    BY <1>1
  <2> QED
    BY <2>3, <2>4
<1>5. \A q \in Publishers : pc'[q] \in Executing => job[q].attempt # own
  BY <1>2 DEF LeaseHeld
<1> HIDE DEF own
<1> QED
  BY <1>2, <1>4, <1>5 DEF LeaseHeld

\* Writing to the log of an attempt changes neither its mode nor its outcome.
LEMMA LogWritten ==
    ASSUME TypeInv, NEW own, NEW log, attempts' = [attempts EXCEPT ![own].log = log]
    PROVE  /\ DOMAIN attempts' = DOMAIN attempts
           /\ \A a \in DOMAIN attempts : /\ attempts'[a].mode = attempts[a].mode
                                         /\ attempts'[a].outcome = attempts[a].outcome
<1>1. attempts \in Seq(Attempts)
  BY DEF TypeInv, TypeOK
<1>2. \A a \in DOMAIN attempts : attempts[a] \in Attempts
  BY <1>1
<1>3. \A a \in DOMAIN attempts :
         attempts'[a] = IF a = own THEN [attempts[own] EXCEPT !.log = log] ELSE attempts[a]
  BY <1>1
<1>4. own \in DOMAIN attempts =>
         /\ [attempts[own] EXCEPT !.log = log].mode = attempts[own].mode
         /\ [attempts[own] EXCEPT !.log = log].outcome = attempts[own].outcome
  BY <1>2 DEF Attempts
<1> QED
  BY <1>1, <1>3, <1>4

\* A request that ends without touching an attempt.
LEMMA LeaseAbandoned ==
    ASSUME TypeInv, LeaseHeld, NEW p \in Publishers,
           pc' = [pc EXCEPT ![p] = "idle"], job' = [job EXCEPT ![p] = NoJob],
           UNCHANGED attempts
    PROVE  LeaseHeld'
<1>1. "idle" \notin Executing
  BY DEF Executing
<1> QED
  BY <1>1, LeaseKept

\* startPublishAttempt: the mode had no open attempt.
LEMMA LeaseTaken ==
    ASSUME TypeInv, LeaseHeld, NEW p \in Publishers, StartPublishAttempt(p)
    PROVE  LeaseHeld'
<1> DEFINE own == Len(attempts) + 1
           m == job[p].mode
<1>0. /\ pc \in [Publishers -> PcValues] /\ job \in [Publishers -> Jobs]
      /\ attempts \in Seq(Attempts) /\ job[p] \in Jobs
  BY DEF TypeInv, TypeOK
<1>1. /\ DOMAIN attempts' = DOMAIN attempts \cup {own}
      /\ own \notin DOMAIN attempts
      /\ attempts'[own].outcome = "open" /\ attempts'[own].mode = m
      /\ \A a \in DOMAIN attempts : attempts'[a] = attempts[a]
  BY <1>0 DEF StartPublishAttempt
<1>2. [job[p] EXCEPT !.attempt = own].attempt = own
      /\ [job[p] EXCEPT !.attempt = own].mode = m
  BY <1>0 DEF Jobs
<1>3. \A q \in Publishers :
         /\ q = p => pc'[q] = "open" /\ job'[q].attempt = own /\ job'[q].mode = m
         /\ q # p => pc'[q] = pc[q] /\ job'[q] = job[q]
  BY <1>0, <1>2 DEF StartPublishAttempt
<1>4. \A a \in DOMAIN attempts : ~(attempts[a].mode = m /\ attempts[a].outcome = "open")
  BY DEF StartPublishAttempt, Startable, OpenAttempts
<1> HIDE DEF own, m
<1> QED
  BY <1>1, <1>3, <1>4 DEF LeaseHeld

LEMMA SubmitLease ==
    ASSUME TypeInv, LeaseHeld, NEW p \in Publishers, Submit(p)
    PROVE  LeaseHeld'
<1>1. ASSUME NEW r \in Revisions, NEW m \in Modes, Review(p, r, m) PROVE LeaseHeld'
  BY <1>1, LeaseKept DEF Review, Executing
<1>2. CASE Confirm(p)
  <2>1. job' = [job EXCEPT ![p] = [job[p] EXCEPT
                              !.confirmed = Fingerprint(Observed(job[p].mode))]]
    BY <1>2 DEF Confirm
  <2> QED
    BY <1>2, <2>1, LeaseKept DEF Confirm, Executing
<1>3. CASE Refuse(p)
  BY <1>3, LeaseAbandoned DEF Refuse
<1>4. CASE StartRefused(p)
  BY <1>4, LeaseAbandoned DEF StartRefused
<1> QED
  BY <1>1, <1>2, <1>3, <1>4, LeaseTaken DEF Submit

LEMMA ExecuteLease ==
    ASSUME TypeInv, LeaseHeld, NEW p \in Publishers, Execute(p)
    PROVE  LeaseHeld'
<1>0. /\ pc \in [Publishers -> PcValues] /\ job \in [Publishers -> Jobs] /\ job[p] \in Jobs
      /\ attempts \in Seq(Attempts)
  BY DEF TypeInv, TypeOK
<1>1. CASE Reobserve(p)
  <2> DEFINE next == [job[p] EXCEPT
                        !.goal = rows[job[p].rev],
                        !.todo = BuildPublishPlan(rows[job[p].rev], Observed(job[p].mode))]
  <2>1. next.attempt = job[p].attempt /\ next.mode = job[p].mode
    BY <1>0 DEF Jobs
  <2>2. job' = [job EXCEPT ![p] = next]
    BY <1>1 DEF Reobserve
  <2> HIDE DEF next
  <2> QED
    BY <1>1, <2>1, <2>2, LeaseKept DEF Reobserve, Executing
<1>2. CASE ReobserveMoved(p)
  <2>1. job' = [job EXCEPT ![p] = job[p]]
    BY <1>0, <1>2 DEF ReobserveMoved
  <2> QED
    BY <1>2, <2>1, LeaseKept DEF ReobserveMoved, Executing
<1>3. CASE FinishAborted(p)
  BY <1>3, LeaseReleased DEF FinishAborted, Executing
<1>4. CASE RecordOperation(p)
  <2>1. PICK call \in NextCalls(job[p].todo) :
           /\ attempts' = [attempts EXCEPT ![job[p].attempt].log = Append(@, LogRow(call))]
           /\ job' = [job EXCEPT ![p].call = call, ![p].todo = @ \ {call}]
    BY <1>4 DEF RecordOperation
  <2> DEFINE next == [job[p] EXCEPT !.call = call, !.todo = @ \ {call}]
  <2>2. next.attempt = job[p].attempt /\ next.mode = job[p].mode
    BY <1>0 DEF Jobs
  <2>3. job' = [job EXCEPT ![p] = next]
    BY <2>1
  <2> HIDE DEF next
  <2>4. /\ DOMAIN attempts' = DOMAIN attempts
        /\ \A a \in DOMAIN attempts : /\ attempts'[a].mode = attempts[a].mode
                                      /\ attempts'[a].outcome = attempts[a].outcome
    BY <2>1, LogWritten
  <2> QED
    BY <1>4, <2>2, <2>3, <2>4, LeaseKept DEF RecordOperation, Executing
<1>5. CASE OperationSkipped(p)
  <2>1. PICK call \in NextCalls(job[p].todo) :
           job' = [job EXCEPT ![p].failed = TRUE,
                              ![p].todo = @ \ ({call} \cup FollowUp(@, call))]
    BY <1>5 DEF OperationSkipped
  <2> DEFINE next == [job[p] EXCEPT !.failed = TRUE,
                                    !.todo = @ \ ({call} \cup FollowUp(@, call))]
  <2>2. next.attempt = job[p].attempt /\ next.mode = job[p].mode
    BY <1>0 DEF Jobs
  <2>3. job' = [job EXCEPT ![p] = next] /\ pc' = [pc EXCEPT ![p] = pc[p]]
    BY <1>0, <1>5, <2>1 DEF OperationSkipped
  <2> HIDE DEF next
  <2> QED
    BY <1>5, <2>2, <2>3, LeaseKept DEF OperationSkipped
<1>6. ASSUME NEW reply, StripeReplies(p, reply) PROVE LeaseHeld'
  <2> DEFINE next == [job[p] EXCEPT !.reply = reply]
  <2>1. next.attempt = job[p].attempt /\ next.mode = job[p].mode
    BY <1>0 DEF Jobs
  <2>2. job' = [job EXCEPT ![p] = next]
    BY <1>6 DEF StripeReplies
  <2> HIDE DEF next
  <2> QED
    BY <1>6, <2>1, <2>2, LeaseKept DEF StripeReplies, Executing
<1>7. CASE StripeAnswers(p) \/ StripeReplyLost(p) \/ StripeRefuses(p)
  BY <1>6, <1>7 DEF StripeAnswers, StripeReplyLost, StripeRefuses
<1>8. CASE CompleteOperation(p)
  <2> DEFINE lost == job[p].reply = "failed"
             next == [job[p] EXCEPT !.failed = @ \/ lost,
                                    !.todo = IF lost THEN @ \ FollowUp(@, job[p].call) ELSE @,
                                    !.call = None, !.reply = "none"]
             log == [AttemptOf(p).log EXCEPT ![Len(AttemptOf(p).log)].status = job[p].reply]
  <2>1. next.attempt = job[p].attempt /\ next.mode = job[p].mode
    BY <1>0 DEF Jobs
  <2>2. job' = [job EXCEPT ![p] = next]
    BY <1>8 DEF CompleteOperation
  <2>3. attempts' = [attempts EXCEPT ![job[p].attempt].log = log]
    BY <1>8 DEF CompleteOperation, AttemptOf
  <2> HIDE DEF next, log
  <2>4. /\ DOMAIN attempts' = DOMAIN attempts
        /\ \A a \in DOMAIN attempts : /\ attempts'[a].mode = attempts[a].mode
                                      /\ attempts'[a].outcome = attempts[a].outcome
    BY <2>3, LogWritten
  <2> QED
    BY <1>8, <2>1, <2>2, <2>4, LeaseKept DEF CompleteOperation, Executing
<1>9. CASE FinishPublish(p)
  <2>1. Outcome(p) # "open"
    BY DEF Outcome
  <2>2. CASE Promotes(p)
    <3>1. job' = [job EXCEPT ![p] = job[p]] /\ pc' = [pc EXCEPT ![p] = "promoting"]
      BY <1>0, <1>9, <2>2 DEF FinishPublish
    <3> QED
      BY <1>9, <2>1, <3>1, LeaseReleased DEF FinishPublish, Executing
  <2>3. CASE ~Promotes(p)
    <3>1. job' = [job EXCEPT ![p] = NoJob] /\ pc' = [pc EXCEPT ![p] = "idle"]
      BY <1>9, <2>3 DEF FinishPublish
    <3> QED
      BY <1>9, <2>1, <3>1, LeaseReleased DEF FinishPublish, Executing
  <2> QED
    BY <2>2, <2>3
<1>10. CASE PromotePublication(p)
  BY <1>10, LeaseAbandoned DEF PromotePublication
<1> QED
  BY <1>1, <1>2, <1>3, <1>4, <1>5, <1>7, <1>8, <1>9, <1>10 DEF Execute

LEMMA NextLease == TypeInv /\ LeaseHeld /\ [Next]_vars => LeaseHeld'
<1> SUFFICES ASSUME TypeInv, LeaseHeld, [Next]_vars PROVE LeaseHeld'
  OBVIOUS
<1>1. ASSUME NEW p \in Publishers, CompletionFails(p) \/ Crash(p) PROVE LeaseHeld'
  BY <1>1, LeaseAbandoned DEF CompletionFails, Crash
<1>2. CASE UNCHANGED <<attempts, pc, job>>
  BY <1>2 DEF LeaseHeld
<1>3. CASE Draft \/ Dashboard \/ UNCHANGED vars
  BY <1>2, <1>3 DEF Draft, CreateDraftFrom, DiscardDraft, EditCheck, EditWrite,
                    Dashboard, DashboardArchive, DashboardCreate, vars
<1> QED
  BY <1>1, <1>3, SubmitLease, ExecuteLease DEF Next

\* The lease makes a request the only writer of its mode.
LEMMA LeaseMeansOneWriter == TypeInv /\ LeaseHeld => OneWriterPerMode
<1> SUFFICES ASSUME TypeInv, LeaseHeld PROVE OneWriterPerMode
  OBVIOUS
<1>1. ASSUME NEW p \in Publishers, NEW q \in Publishers,
             pc[p] \in Executing, pc[q] \in Executing, job[p].mode = job[q].mode
      PROVE  p = q
  BY <1>1 DEF LeaseHeld
<1>2. ASSUME NEW p \in Publishers, pc[p] \in Executing
      PROVE  OpenAttempts(job[p].mode) = {job[p].attempt}
  BY <1>2 DEF LeaseHeld, OpenAttempts
<1> QED
  BY <1>1, <1>2 DEF OneWriterPerMode

\* startPublishAttempt's advisory lock and open-attempt check (publish-repo.ts)
\* hold for any number of requests, modes, revisions and keys: whatever is
\* refused, lost or crashes, no two requests of one mode are ever between
\* startPublishAttempt and finishPublishAttempt together.
THEOREM OneWriter == Spec => []OneWriterPerMode
<1>1. Init => LeaseHeld
  BY InitLease
<1>2. TypeInv /\ LeaseHeld /\ [Next]_vars => LeaseHeld'
  BY NextLease
<1>3. TypeInv /\ LeaseHeld => OneWriterPerMode
  BY LeaseMeansOneWriter
<1> QED
  BY <1>1, <1>2, <1>3, TypeInvariant, PTL DEF Spec

--------------------------------------------------------------------------------
(* The operation log.                                                      *)

\* The rows up to the n-th have learnt their outcome, and a call that failed
\* has made the request a failed one.
Settled(log, n, failed) ==
    \A i \in DOMAIN log : i <= n =>
        /\ log[i].status # "pending"
        /\ log[i].status = "failed" => failed

\* What a request can tell of its attempt: the log says what it has done so
\* far, and the last row what it is about to do.
RequestEvidence(p) ==
    LET a == job[p].attempt
        log == attempts[a].log
    IN  /\ pc[p] \in Executing => attempts[a].rev = job[p].rev
        /\ pc[p] \in {"open", "aborting"} => log = <<>>
        /\ pc[p] = "running" => Settled(log, Len(log), job[p].failed)
        /\ pc[p] \in {"calling", "replied"} =>
              /\ log # <<>>
              /\ log[Len(log)] = LogRow(job[p].call)
              /\ Settled(log, Len(log) - 1, job[p].failed)
        /\ pc[p] = "promoting" =>
              /\ a \in DOMAIN attempts
              /\ attempts[a].mode = job[p].mode /\ attempts[a].rev = job[p].rev
              /\ attempts[a].outcome = "succeeded"

\* LogMatchesOutcome, of one attempt.
ClosedAsLogged(attempt) ==
    /\ attempt.outcome \in {"succeeded", "failed"} =>
          \A n \in DOMAIN attempt.log : attempt.log[n].status # "pending"
    /\ attempt.outcome = "succeeded" =>
          \A n \in DOMAIN attempt.log : attempt.log[n].status # "failed"
    /\ attempt.outcome = "aborted" => attempt.log = <<>>

Evidence ==
    /\ \A p \in Publishers : RequestEvidence(p)
    /\ \A a \in DOMAIN attempts : ClosedAsLogged(attempts[a])
    /\ PublishedWereExecuted

EvidenceInv == TypeInv /\ LeaseHeld /\ Evidence

LEMMA InitEvidence == Init => Evidence
<1> SUFFICES ASSUME Init PROVE Evidence
  OBVIOUS
<1>1. \A p \in Publishers : RequestEvidence(p)
  BY DEF Init, RequestEvidence, Executing
<1>2. \A a \in DOMAIN attempts : ClosedAsLogged(attempts[a])
  BY DEF Init
<1>3. PublishedWereExecuted
  BY DEF Init, PublishedWereExecuted
<1> QED
  BY <1>1, <1>2, <1>3 DEF Evidence

\* A step of one request that writes to no attempt.
LEMMA EvidenceSame ==
    ASSUME EvidenceInv, NEW p \in Publishers, UNCHANGED <<attempts, published>>,
           NEW step, NEW next, pc' = [pc EXCEPT ![p] = step], job' = [job EXCEPT ![p] = next],
           RequestEvidence(p)'
    PROVE  Evidence'
<1> USE DEF EvidenceInv, Evidence
<1>1. pc \in [Publishers -> PcValues] /\ job \in [Publishers -> Jobs]
  BY DEF TypeInv, TypeOK
<1>2. ASSUME NEW q \in Publishers, q # p PROVE RequestEvidence(q)'
  <2>1. pc'[q] = pc[q] /\ job'[q] = job[q] /\ RequestEvidence(q)
    BY <1>1, <1>2
  <2> QED
    BY <2>1 DEF RequestEvidence
<1>3. PublishedWereExecuted'
  BY DEF PublishedWereExecuted
<1> QED
  BY <1>2, <1>3

\* A request that stops leaves its attempt as it is.
LEMMA EvidenceLeft ==
    ASSUME EvidenceInv, NEW p \in Publishers, UNCHANGED <<attempts, published>>,
           pc' = [pc EXCEPT ![p] = "idle"], job' = [job EXCEPT ![p] = NoJob]
    PROVE  Evidence'
<1>1. pc'[p] = "idle"
  BY DEF EvidenceInv, TypeInv, TypeOK
<1>2. RequestEvidence(p)'
  BY <1>1 DEF RequestEvidence, Executing
<1> QED
  BY <1>2, EvidenceSame

\* A step of a request that executes, and writes to the attempt it holds.
LEMMA EvidenceWritten ==
    ASSUME EvidenceInv, NEW p \in Publishers, pc[p] \in Executing, UNCHANGED published,
           NEW own, own = job[p].attempt, NEW attempt,
           attempts' = [attempts EXCEPT ![own] = attempt],
           attempt.mode = attempts[own].mode, attempt.rev = attempts[own].rev,
           ClosedAsLogged(attempt),
           NEW step, NEW next, pc' = [pc EXCEPT ![p] = step], job' = [job EXCEPT ![p] = next],
           RequestEvidence(p)'
    PROVE  Evidence'
<1> USE DEF EvidenceInv, Evidence
<1>1. /\ pc \in [Publishers -> PcValues] /\ job \in [Publishers -> Jobs]
      /\ attempts \in Seq(Attempts)
  BY DEF TypeInv, TypeOK
<1>2. own \in DOMAIN attempts /\ attempts[own].outcome = "open"
  BY DEF LeaseHeld
<1>3. /\ DOMAIN attempts' = DOMAIN attempts /\ attempts'[own] = attempt
      /\ \A a \in DOMAIN attempts : a # own => attempts'[a] = attempts[a]
  BY <1>1, <1>2
<1>4. ASSUME NEW q \in Publishers, q # p PROVE RequestEvidence(q)'
  <2>1. pc'[q] = pc[q] /\ job'[q] = job[q] /\ RequestEvidence(q)
    BY <1>1, <1>4
  <2>2. CASE pc[q] \in Executing
    <3>1. job[q].attempt \in DOMAIN attempts /\ job[q].attempt # own
      BY <1>4, <2>2 DEF LeaseHeld
    <3>2. attempts'[job[q].attempt] = attempts[job[q].attempt]
      BY <1>3, <3>1
    <3> QED
      BY <1>3, <2>1, <3>2 DEF RequestEvidence
  <2>3. CASE pc[q] = "promoting"
    <3>1. job[q].attempt \in DOMAIN attempts /\ job[q].attempt # own
      BY <1>2, <2>1, <2>3 DEF RequestEvidence
    <3>2. attempts'[job[q].attempt] = attempts[job[q].attempt]
      BY <1>3, <3>1
    <3> QED
      BY <1>3, <2>1, <2>3, <3>2 DEF RequestEvidence
  <2>4. CASE pc[q] \notin Executing /\ pc[q] # "promoting"
    BY <2>1, <2>4 DEF RequestEvidence, Executing
  <2> QED
    BY <2>2, <2>3, <2>4
<1>5. \A a \in DOMAIN attempts' : ClosedAsLogged(attempts'[a])
  BY <1>3
<1>6. PublishedWereExecuted'
  <2> SUFFICES ASSUME NEW m \in Modes, NEW r \in Revisions, <<m, r>> \in published, r # Baseline
               PROVE  \E a \in DOMAIN attempts' : /\ attempts'[a].mode = m /\ attempts'[a].rev = r
                                                  /\ attempts'[a].outcome = "succeeded"
    BY DEF PublishedWereExecuted
  <2>1. PICK a \in DOMAIN attempts : /\ attempts[a].mode = m /\ attempts[a].rev = r
                                     /\ attempts[a].outcome = "succeeded"
    BY DEF PublishedWereExecuted
  <2>2. a # own
    BY <1>2, <2>1
  <2> QED
    BY <1>3, <2>1, <2>2
<1>7. \A a \in DOMAIN attempts : ClosedAsLogged(attempts'[a])
  BY <1>3, <1>5
<1> QED
  BY <1>3, <1>4, <1>6, <1>7

LEMMA StartEvidence ==
    ASSUME EvidenceInv, NEW p \in Publishers, StartPublishAttempt(p)
    PROVE  Evidence'
<1> USE DEF EvidenceInv, Evidence
<1> DEFINE own == Len(attempts) + 1
           new == [rev |-> job[p].rev, mode |-> job[p].mode,
                   fingerprint |-> job[p].confirmed, outcome |-> "open", log |-> <<>>]
<1>1. /\ pc \in [Publishers -> PcValues] /\ job \in [Publishers -> Jobs]
      /\ attempts \in Seq(Attempts) /\ job[p] \in Jobs
  BY DEF TypeInv, TypeOK
<1>2. /\ DOMAIN attempts' = DOMAIN attempts \cup {own} /\ own \notin DOMAIN attempts
      /\ attempts'[own] = new
      /\ \A a \in DOMAIN attempts : attempts'[a] = attempts[a]
  BY <1>1 DEF StartPublishAttempt
<1>3. /\ pc'[p] = "open" /\ job'[p].attempt = own /\ job'[p].rev = job[p].rev
      /\ \A q \in Publishers \ {p} : pc'[q] = pc[q] /\ job'[q] = job[q]
  <2>1. job'[p] = [job[p] EXCEPT !.attempt = own]
    BY <1>1 DEF StartPublishAttempt
  <2> QED
    BY <1>1, <2>1 DEF StartPublishAttempt, Jobs
<1> HIDE DEF own
<1>4. RequestEvidence(p)'
  BY <1>2, <1>3 DEF RequestEvidence
<1>5. ASSUME NEW q \in Publishers, q # p PROVE RequestEvidence(q)'
  <2>1. pc'[q] = pc[q] /\ job'[q] = job[q] /\ RequestEvidence(q)
    BY <1>3, <1>5
  <2>2. pc[q] \in Executing \cup {"promoting"} => job[q].attempt \in DOMAIN attempts
    BY <2>1 DEF LeaseHeld, RequestEvidence
  <2>3. CASE pc[q] \in Executing \cup {"promoting"}
    <3>1. attempts'[job[q].attempt] = attempts[job[q].attempt]
      BY <1>2, <2>2, <2>3
    <3> QED
      BY <1>2, <2>1, <2>2, <2>3, <3>1 DEF RequestEvidence
  <2>4. CASE pc[q] \notin Executing \cup {"promoting"}
    BY <2>1, <2>4 DEF RequestEvidence, Executing
  <2> QED
    BY <2>3, <2>4
<1>6. \A a \in DOMAIN attempts' : ClosedAsLogged(attempts'[a])
  BY <1>2 DEF ClosedAsLogged
<1>7. PublishedWereExecuted'
  <2> SUFFICES ASSUME NEW m \in Modes, NEW r \in Revisions, <<m, r>> \in published, r # Baseline
               PROVE  \E a \in DOMAIN attempts' : /\ attempts'[a].mode = m /\ attempts'[a].rev = r
                                                  /\ attempts'[a].outcome = "succeeded"
    BY DEF PublishedWereExecuted, StartPublishAttempt, database
  <2>1. PICK a \in DOMAIN attempts : /\ attempts[a].mode = m /\ attempts[a].rev = r
                                     /\ attempts[a].outcome = "succeeded"
    BY DEF PublishedWereExecuted
  <2> QED
    BY <1>2, <2>1
<1>8. \A q \in Publishers : RequestEvidence(q)'
  BY <1>4, <1>5
<1> QED
  BY <1>6, <1>7, <1>8

LEMMA SubmitEvidence ==
    ASSUME EvidenceInv, NEW p \in Publishers, Submit(p)
    PROVE  Evidence'
<1>0. pc \in [Publishers -> PcValues] /\ job \in [Publishers -> Jobs]
  BY DEF EvidenceInv, TypeInv, TypeOK
<1>1. ASSUME NEW r \in Revisions, NEW m \in Modes, Review(p, r, m) PROVE Evidence'
  <2>1. RequestEvidence(p)'
    BY <1>0, <1>1 DEF Review, RequestEvidence, Executing
  <2> QED
    BY <1>1, <2>1, EvidenceSame DEF Review, database
<1>2. CASE Confirm(p)
  <2> DEFINE next == [job[p] EXCEPT !.confirmed = Fingerprint(Observed(job[p].mode))]
  <2>1. job' = [job EXCEPT ![p] = next]
    BY <1>2 DEF Confirm
  <2>2. RequestEvidence(p)'
    BY <1>0, <1>2 DEF Confirm, RequestEvidence, Executing
  <2> HIDE DEF next
  <2> QED
    BY <1>2, <2>1, <2>2, EvidenceSame DEF Confirm, database
<1>3. CASE Refuse(p)
  BY <1>3, EvidenceLeft DEF Refuse, database
<1>4. CASE StartRefused(p)
  BY <1>4, EvidenceLeft DEF StartRefused, database
<1> QED
  BY <1>1, <1>2, <1>3, <1>4, StartEvidence DEF Submit

\* recordOperation: what was known of the log stays known, and the new last
\* row is the call about to be made.
LEMMA RecordEvidence ==
    ASSUME EvidenceInv, NEW p \in Publishers, RecordOperation(p)
    PROVE  Evidence'
<1> USE DEF EvidenceInv
<1> DEFINE own == job[p].attempt
           log == attempts[own].log
<1>1. /\ pc \in [Publishers -> PcValues] /\ job \in [Publishers -> Jobs]
      /\ attempts \in Seq(Attempts) /\ job[p] \in Jobs /\ pc[p] \in Executing
      /\ pc[p] = "running"
  BY DEF TypeInv, TypeOK, RecordOperation, Executing
<1>2. own \in DOMAIN attempts /\ attempts[own].outcome = "open" /\ attempts[own] \in Attempts
  BY <1>1 DEF LeaseHeld
<1>3. /\ attempts[own].rev = job[p].rev /\ Settled(log, Len(log), job[p].failed)
  BY <1>1 DEF Evidence, RequestEvidence
<1>4. PICK call \in NextCalls(job[p].todo) :
         /\ attempts' = [attempts EXCEPT ![own].log = Append(log, LogRow(call))]
         /\ job' = [job EXCEPT ![p].call = call, ![p].todo = @ \ {call}]
  BY DEF RecordOperation
<1>5. log \in Seq(LogRows)
  BY <1>2 DEF Attempts
<1> DEFINE more == Append(log, LogRow(call))
           attempt == [attempts[own] EXCEPT !.log = more]
           next == [job[p] EXCEPT !.call = call, !.todo = @ \ {call}]
<1>6. /\ more # <<>> /\ more[Len(more)] = LogRow(call) /\ Len(more) = Len(log) + 1
      /\ DOMAIN log = 1..Len(log) /\ Len(log) \in Nat
      /\ DOMAIN more = 1..Len(log) + 1
      /\ \A i \in 1..Len(log) : more[i] = log[i]
  <2>1. call \in Calls
    BY <1>1, <1>4 DEF NextCalls, Jobs
  <2>2. LogRow(call) \in LogRows
    BY <2>1, LogRowShape
  <2> DEFINE row == LogRow(call)
  <2>3. row \in LogRows
    BY <2>2
  <2> HIDE DEF row, own, log
  <2>4. /\ Append(log, row) # <<>> /\ Len(Append(log, row)) = Len(log) + 1
        /\ Append(log, row)[Len(log) + 1] = row
        /\ DOMAIN log = 1..Len(log) /\ Len(log) \in Nat
        /\ DOMAIN Append(log, row) = 1..Len(log) + 1
        /\ \A i \in 1..Len(log) : Append(log, row)[i] = log[i]
    BY <1>5, <2>3
  <2> QED
    BY <2>4 DEF row
<1>7. attempt.log = more /\ attempt.mode = attempts[own].mode /\ attempt.rev = attempts[own].rev
      /\ attempt.outcome = "open"
  BY <1>2 DEF Attempts
<1>8. next.attempt = own /\ next.rev = job[p].rev /\ next.call = call /\ next.failed = job[p].failed
  BY <1>1 DEF Jobs
<1>9. attempts' = [attempts EXCEPT ![own] = attempt] /\ job' = [job EXCEPT ![p] = next]
      /\ pc' = [pc EXCEPT ![p] = "calling"] /\ UNCHANGED published
  BY <1>4 DEF RecordOperation, database
<1>10. Settled(more, Len(more) - 1, job[p].failed)
  BY <1>3, <1>6 DEF Settled
<1> HIDE DEF more, attempt, next
<1>11. attempts'[own] = attempt /\ job'[p] = next /\ pc'[p] = "calling"
  BY <1>1, <1>2, <1>9
<1>12. RequestEvidence(p)'
  BY <1>3, <1>6, <1>7, <1>8, <1>10, <1>11 DEF RequestEvidence
<1>13. ClosedAsLogged(attempt)
  BY <1>7 DEF ClosedAsLogged
<1> HIDE DEF own
<1> QED
  BY <1>1, <1>7, <1>9, <1>12, <1>13, EvidenceWritten DEF own

\* Replacing the last element of a sequence.
LEMMA ReplaceLast ==
    ASSUME NEW S, NEW s \in Seq(S), s # <<>>, NEW v \in S, NEW t, t = [s EXCEPT ![Len(s)] = v]
    PROVE  /\ DOMAIN s = 1..Len(s) /\ Len(s) \in Nat \ {0} /\ s[Len(s)] \in S
           /\ DOMAIN t = 1..Len(s) /\ Len(t) = Len(s) /\ t[Len(s)] = v
           /\ \A i \in 1..Len(s) - 1 : t[i] = s[i]
<1> DEFINE n == Len(s)
<1>1. DOMAIN s = 1..n /\ n \in Nat \ {0} /\ s \in [1..n -> S]
  OBVIOUS
<1>2. t = [s EXCEPT ![n] = v]
  OBVIOUS
<1> HIDE DEF n
<1>3. t \in [1..n -> S] /\ t[n] = v /\ \A i \in 1..n - 1 : t[i] = s[i]
  <2>1. n \in 1..n /\ \A i \in 1..n - 1 : i \in 1..n /\ i # n
    BY <1>1
  <2> QED
    BY <1>1, <1>2, <2>1, Zenon
<1>4. t \in Seq(S) /\ Len(t) = n
  <2>1. DOMAIN t = 1..n /\ t \in [1..n -> S]
    BY <1>3
  <2> QED
    BY <1>1, <2>1
<1> QED
  BY <1>1, <1>3, <1>4 DEF n

\* completeOperation: the last row learns what Stripe said.
LEMMA CompleteEvidence ==
    ASSUME EvidenceInv, NEW p \in Publishers, CompleteOperation(p)
    PROVE  Evidence'
<1> USE DEF EvidenceInv
<1> DEFINE own == job[p].attempt
           log == attempts[own].log
           lost == job[p].reply = "failed"
           next == [job[p] EXCEPT !.failed = @ \/ lost,
                                  !.todo = IF lost THEN @ \ FollowUp(@, job[p].call) ELSE @,
                                  !.call = None, !.reply = "none"]
           learnt == [log EXCEPT ![Len(log)].status = job[p].reply]
           attempt == [attempts[own] EXCEPT !.log = learnt]
<1>1. /\ pc \in [Publishers -> PcValues] /\ job \in [Publishers -> Jobs]
      /\ attempts \in Seq(Attempts) /\ job[p] \in Jobs /\ pc[p] \in Executing
      /\ pc[p] = "replied" /\ job[p].reply \in {"succeeded", "failed"}
  BY DEF TypeInv, TypeOK, CompleteOperation, Executing, RequestsWellFormed
<1>2. own \in DOMAIN attempts /\ attempts[own].outcome = "open" /\ attempts[own] \in Attempts
  BY <1>1 DEF LeaseHeld
<1>3. /\ attempts[own].rev = job[p].rev /\ log # <<>>
      /\ Settled(log, Len(log) - 1, job[p].failed)
  BY <1>1 DEF Evidence, RequestEvidence
<1>4. log \in Seq(LogRows)
  BY <1>2 DEF Attempts
<1>5. /\ DOMAIN log = 1..Len(log) /\ Len(log) \in Nat \ {0} /\ log[Len(log)] \in LogRows
      /\ DOMAIN learnt = 1..Len(log) /\ Len(learnt) = Len(log)
      /\ learnt[Len(log)] = [log[Len(log)] EXCEPT !.status = job[p].reply]
      /\ \A i \in 1..Len(log) - 1 : learnt[i] = log[i]
  <2> DEFINE row == [log[Len(log)] EXCEPT !.status = job[p].reply]
  <2>1. Len(log) \in DOMAIN log /\ log[Len(log)] \in LogRows
    BY <1>3, <1>4
  <2>2. row \in LogRows
    BY <1>1, <2>1 DEF LogRows
  <2>3. learnt = [log EXCEPT ![Len(log)] = row]
    BY <2>1
  <2> HIDE DEF row, learnt, log
  <2>4. /\ DOMAIN log = 1..Len(log) /\ Len(log) \in Nat \ {0} /\ log[Len(log)] \in LogRows
        /\ DOMAIN learnt = 1..Len(log) /\ Len(learnt) = Len(log) /\ learnt[Len(log)] = row
        /\ \A i \in 1..Len(log) - 1 : learnt[i] = log[i]
    BY <1>3, <1>4, <2>2, <2>3, ReplaceLast
  <2> QED
    BY <2>4 DEF row
<1>7. learnt[Len(log)].status = job[p].reply
  <2> HIDE DEF log, learnt
  <2> QED
    BY <1>5 DEF LogRows
<1>8. /\ next.attempt = own /\ next.rev = job[p].rev
      /\ next.failed = (job[p].failed \/ lost)
  BY <1>1 DEF Jobs
<1>9. attempt.log = learnt /\ attempt.mode = attempts[own].mode /\ attempt.rev = attempts[own].rev
      /\ attempt.outcome = "open"
  BY <1>2 DEF Attempts
<1>10. attempts' = [attempts EXCEPT ![own] = attempt] /\ job' = [job EXCEPT ![p] = next]
       /\ pc' = [pc EXCEPT ![p] = "running"] /\ UNCHANGED published
  BY DEF CompleteOperation, AttemptOf, database
<1>11. Settled(learnt, Len(learnt), next.failed)
  <2> SUFFICES ASSUME NEW i \in DOMAIN learnt
               PROVE  /\ learnt[i].status # "pending"
                      /\ learnt[i].status = "failed" => next.failed
    BY DEF Settled
  <2>1. CASE i = Len(log)
    BY <1>1, <1>7, <1>8, <2>1
  <2>2. CASE i # Len(log)
    <3>1. i \in 1..Len(log) - 1 /\ i \in DOMAIN log /\ i <= Len(log) - 1
      BY <1>5, <2>2
    <3> QED
      BY <1>3, <1>5, <1>8, <3>1 DEF Settled
  <2> QED
    BY <2>1, <2>2
<1> HIDE DEF learnt, attempt, next
<1>12. attempts'[own] = attempt /\ job'[p] = next /\ pc'[p] = "running"
  BY <1>1, <1>2, <1>10
<1>13. RequestEvidence(p)'
  BY <1>3, <1>8, <1>9, <1>11, <1>12 DEF RequestEvidence
<1>14. ClosedAsLogged(attempt)
  BY <1>9 DEF ClosedAsLogged
<1> HIDE DEF own
<1> QED
  BY <1>1, <1>9, <1>10, <1>13, <1>14, EvidenceWritten DEF own

\* An attempt that closes: what its request knows of the log is what the
\* outcome says.
LEMMA FinishEvidence ==
    ASSUME EvidenceInv, NEW p \in Publishers, FinishPublish(p) \/ FinishAborted(p)
    PROVE  Evidence'
<1> USE DEF EvidenceInv
<1> DEFINE own == job[p].attempt
           log == attempts[own].log
           outcome == IF pc[p] = "aborting" THEN "aborted" ELSE Outcome(p)
           attempt == [attempts[own] EXCEPT !.outcome = outcome]
           step == IF pc[p] = "running" /\ Promotes(p) THEN "promoting" ELSE "idle"
           next == IF pc[p] = "running" /\ Promotes(p) THEN job[p] ELSE NoJob
<1>1. /\ pc \in [Publishers -> PcValues] /\ job \in [Publishers -> Jobs]
      /\ attempts \in Seq(Attempts) /\ job[p] \in Jobs /\ pc[p] \in Executing
      /\ pc[p] \in {"running", "aborting"}
  BY DEF TypeInv, TypeOK, FinishPublish, FinishAborted, Executing
<1>2. /\ own \in DOMAIN attempts /\ attempts[own].outcome = "open" /\ attempts[own] \in Attempts
      /\ attempts[own].mode = job[p].mode
  BY <1>1 DEF LeaseHeld
<1>3. /\ attempts[own].rev = job[p].rev
      /\ pc[p] = "aborting" => log = <<>>
      /\ pc[p] = "running" => Settled(log, Len(log), job[p].failed)
  BY <1>1 DEF Evidence, RequestEvidence
<1>4. log \in Seq(LogRows)
  BY <1>2 DEF Attempts
<1>5. /\ attempt.log = log /\ attempt.mode = attempts[own].mode /\ attempt.rev = attempts[own].rev
      /\ attempt.outcome = outcome
  BY <1>2 DEF Attempts
<1>6. /\ attempts' = [attempts EXCEPT ![own] = attempt] /\ pc' = [pc EXCEPT ![p] = step]
      /\ job' = [job EXCEPT ![p] = next] /\ UNCHANGED published
  BY <1>1 DEF FinishPublish, FinishAborted, database
<1>7. ClosedAsLogged(attempt)
  <2>1. CASE pc[p] = "aborting"
    BY <1>3, <1>5, <2>1 DEF ClosedAsLogged
  <2>2. CASE pc[p] = "running"
    <3>1. \A n \in DOMAIN log : n <= Len(log)
      BY <1>4
    <3> QED
      BY <1>3, <1>5, <2>2, <3>1 DEF ClosedAsLogged, Settled, Outcome
  <2> QED
    BY <1>1, <2>1, <2>2
<1> HIDE DEF attempt, log
<1>8. /\ attempts'[own] = attempt /\ pc'[p] = step /\ job'[p] = next
      /\ DOMAIN attempts' = DOMAIN attempts
  BY <1>1, <1>2, <1>6
<1>9. RequestEvidence(p)'
  <2>1. CASE step = "promoting"
    BY <1>2, <1>3, <1>5, <1>8, <2>1 DEF RequestEvidence, Outcome, Promotes, Executing
  <2>2. CASE step = "idle"
    BY <1>8, <2>2 DEF RequestEvidence, Executing
  <2> QED
    BY <2>1, <2>2
<1> HIDE DEF own, step, next
<1> QED
  BY <1>1, <1>5, <1>6, <1>7, <1>9, EvidenceWritten DEF own

\* promotePublication publishes what the attempt it remembers has executed.
LEMMA PromoteEvidence ==
    ASSUME EvidenceInv, NEW p \in Publishers, PromotePublication(p)
    PROVE  Evidence'
<1> USE DEF EvidenceInv, Evidence
<1>1. pc \in [Publishers -> PcValues] /\ job \in [Publishers -> Jobs]
  BY DEF TypeInv, TypeOK
<1>2. /\ job[p].attempt \in DOMAIN attempts
      /\ attempts[job[p].attempt].mode = job[p].mode /\ attempts[job[p].attempt].rev = job[p].rev
      /\ attempts[job[p].attempt].outcome = "succeeded"
  BY DEF RequestEvidence, PromotePublication
<1>3. UNCHANGED attempts /\ published' = published \cup {<<job[p].mode, job[p].rev>>}
  BY DEF PromotePublication
<1>4. ASSUME NEW q \in Publishers PROVE RequestEvidence(q)'
  <2>1. CASE q = p
    BY <1>1, <2>1 DEF PromotePublication, RequestEvidence, Executing
  <2>2. CASE q # p
    <3>1. pc'[q] = pc[q] /\ job'[q] = job[q] /\ RequestEvidence(q)
      BY <1>1, <2>2 DEF PromotePublication
    <3> QED
      BY <1>3, <3>1 DEF RequestEvidence
  <2> QED
    BY <2>1, <2>2
<1>5. PublishedWereExecuted'
  BY <1>2, <1>3 DEF PublishedWereExecuted
<1> QED
  BY <1>3, <1>4, <1>5

LEMMA ExecuteEvidence ==
    ASSUME EvidenceInv, NEW p \in Publishers, Execute(p)
    PROVE  Evidence'
<1>0. /\ pc \in [Publishers -> PcValues] /\ job \in [Publishers -> Jobs]
      /\ job[p] \in Jobs /\ RequestEvidence(p)
  BY DEF EvidenceInv, TypeInv, TypeOK, Evidence
<1>1. CASE Reobserve(p)
  <2> DEFINE next == [job[p] EXCEPT
                        !.goal = rows[job[p].rev],
                        !.todo = BuildPublishPlan(rows[job[p].rev], Observed(job[p].mode))]
  <2>1. next.attempt = job[p].attempt /\ next.rev = job[p].rev
    BY <1>0 DEF Jobs
  <2>2. /\ job' = [job EXCEPT ![p] = next] /\ pc' = [pc EXCEPT ![p] = "running"]
        /\ pc[p] = "open" /\ UNCHANGED <<attempts, published>>
    BY <1>1 DEF Reobserve, database
  <2> HIDE DEF next
  <2>3. job'[p] = next /\ pc'[p] = "running"
    BY <1>0, <2>2
  <2>4. attempts[job[p].attempt].rev = job[p].rev /\ attempts[job[p].attempt].log = <<>>
    BY <1>0, <2>2 DEF RequestEvidence, Executing
  <2>5. RequestEvidence(p)'
    BY <2>1, <2>2, <2>3, <2>4 DEF RequestEvidence, Settled
  <2> QED
    BY <2>2, <2>5, EvidenceSame
<1>2. CASE ReobserveMoved(p)
  <2>1. /\ job' = [job EXCEPT ![p] = job[p]] /\ pc' = [pc EXCEPT ![p] = "aborting"]
        /\ pc[p] = "open" /\ UNCHANGED <<attempts, published>> /\ job'[p] = job[p]
        /\ pc'[p] = "aborting"
    BY <1>0, <1>2 DEF ReobserveMoved, database
  <2>2. RequestEvidence(p)'
    BY <1>0, <2>1 DEF RequestEvidence, Executing
  <2> QED
    BY <2>1, <2>2, EvidenceSame
<1>3. CASE OperationSkipped(p)
  <2>1. PICK call \in NextCalls(job[p].todo) :
           job' = [job EXCEPT ![p].failed = TRUE,
                              ![p].todo = @ \ ({call} \cup FollowUp(@, call))]
    BY <1>3 DEF OperationSkipped
  <2> DEFINE next == [job[p] EXCEPT !.failed = TRUE,
                                    !.todo = @ \ ({call} \cup FollowUp(@, call))]
  <2>2. next.attempt = job[p].attempt /\ next.rev = job[p].rev /\ next.failed
    BY <1>0 DEF Jobs
  <2>3. /\ job' = [job EXCEPT ![p] = next] /\ pc' = [pc EXCEPT ![p] = pc[p]]
        /\ pc[p] = "running" /\ UNCHANGED <<attempts, published>>
    BY <1>0, <1>3, <2>1 DEF OperationSkipped, database
  <2> HIDE DEF next
  <2>4. job'[p] = next /\ pc'[p] = "running"
    BY <1>0, <2>3
  <2>5. RequestEvidence(p)'
    BY <1>0, <2>2, <2>3, <2>4 DEF RequestEvidence, Settled, Executing
  <2> QED
    BY <2>3, <2>5, EvidenceSame
<1>4. ASSUME NEW reply, StripeReplies(p, reply) PROVE Evidence'
  <2> DEFINE next == [job[p] EXCEPT !.reply = reply]
  <2>1. /\ next.attempt = job[p].attempt /\ next.rev = job[p].rev
        /\ next.call = job[p].call /\ next.failed = job[p].failed
    BY <1>0 DEF Jobs
  <2>2. /\ job' = [job EXCEPT ![p] = next] /\ pc' = [pc EXCEPT ![p] = "replied"]
        /\ pc[p] = "calling" /\ UNCHANGED <<attempts, published>>
    BY <1>4 DEF StripeReplies, database
  <2> HIDE DEF next
  <2>3. job'[p] = next /\ pc'[p] = "replied"
    BY <1>0, <2>2
  <2>4. RequestEvidence(p)'
    BY <1>0, <2>1, <2>2, <2>3 DEF RequestEvidence, Executing
  <2> QED
    BY <2>2, <2>4, EvidenceSame
<1>5. CASE StripeAnswers(p) \/ StripeReplyLost(p) \/ StripeRefuses(p)
  BY <1>4, <1>5 DEF StripeAnswers, StripeReplyLost, StripeRefuses
<1> QED
  BY <1>1, <1>2, <1>3, <1>5, RecordEvidence, CompleteEvidence, FinishEvidence, PromoteEvidence
     DEF Execute

LEMMA NextEvidence == EvidenceInv /\ [Next]_vars => EvidenceInv'
<1> SUFFICES ASSUME EvidenceInv, [Next]_vars PROVE Evidence'
  BY NextTypeInv, NextLease DEF EvidenceInv
<1>2. ASSUME NEW p \in Publishers, CompletionFails(p) \/ Crash(p) PROVE Evidence'
  BY <1>2, EvidenceLeft DEF CompletionFails, Crash, database
<1>3. CASE UNCHANGED <<attempts, published, pc, job>>
  BY <1>3 DEF EvidenceInv, Evidence, RequestEvidence, PublishedWereExecuted
<1>4. CASE Draft \/ Dashboard \/ UNCHANGED vars
  BY <1>3, <1>4 DEF Draft, CreateDraftFrom, DiscardDraft, EditCheck, EditWrite,
                    Dashboard, DashboardArchive, DashboardCreate, vars, database
<1> QED
  BY <1>2, <1>4, SubmitEvidence, ExecuteEvidence DEF Next

THEOREM EvidenceInvariant == Spec => []EvidenceInv
<1>1. Init => EvidenceInv
  BY InitTypeInv, InitLease, InitEvidence DEF EvidenceInv
<1> QED
  BY <1>1, NextEvidence, PTL DEF Spec

\* publish_operations is evidence of every attempt, whatever crashed or was
\* lost: a closed attempt (finishPublishAttempt, publish-repo.ts) has no row
\* whose outcome is unknown, "succeeded" means that every call did, and an
\* aborted attempt made none.
THEOREM LogIsEvidence == Spec => []LogMatchesOutcome
<1>1. EvidenceInv => LogMatchesOutcome
  BY DEF EvidenceInv, Evidence, ClosedAsLogged, LogMatchesOutcome
<1> QED
  BY <1>1, EvidenceInvariant, PTL

\* promotePublication never publishes what was not executed: the catalog says
\* that a mode sells a revision only if some attempt to publish it there
\* succeeded.
THEOREM PublishedMeansExecuted == Spec => []PublishedWereExecuted
<1>1. EvidenceInv => PublishedWereExecuted
  BY DEF EvidenceInv, Evidence
<1> QED
  BY <1>1, EvidenceInvariant, PTL

--------------------------------------------------------------------------------
(* What happens to Stripe.                                                 *)

\* The last row of the log of a request that calls Stripe says what the call
\* does to the Prices of its account.
LEMMA CallIsExplained ==
    ASSUME TypeOK, NEW p \in Publishers, NEW m \in Modes, m = job[p].mode,
           job[p].call \in Calls,
           stripe' = [stripe EXCEPT ![m] = StripeAfter(stripe[m], job[p].call)]
    PROVE  Explains(m, LogRow(job[p].call))
<1> DEFINE call == job[p].call
           before == stripe[m]
<1>1. before \in Seq(Prices) /\ stripe \in [Modes -> Seq(Prices)]
  BY DEF TypeOK
<1>2. stripe'[m] = StripeAfter(before, call)
  BY <1>1
<1>3. /\ LogRow(call).kind = call.kind /\ LogRow(call).verb = call.verb
      /\ LogRow(call).key = call.key /\ LogRow(call).price = call.price
  BY DEF LogRow, Row
<1>4. call \in Calls
  OBVIOUS
<1> HIDE DEF call
<1>5. CASE call.kind = "create_product"
  BY <1>2, <1>3, <1>5 DEF Explains, StripeAfter, call
<1>6. CASE call.kind # "create_product" /\ call.verb = "create"
  <2> DEFINE renamed == [i \in DOMAIN before |->
                IF before[i].key = call.key THEN [before[i] EXCEPT !.key = None] ELSE before[i]]
             new == [key |-> call.key, currency |-> call.currency,
                     coverage |-> call.coverage, active |-> TRUE]
  <2>1. stripe'[m] = Append(renamed, new)
    BY <1>2, <1>6 DEF StripeAfter, WithNewPrice
  <2>2. DOMAIN before = 1..Len(before) /\ Len(before) \in Nat
    BY <1>1
  <2>3. \A i \in DOMAIN before : renamed[i] # before[i] => before[i].key = call.key
    OBVIOUS
  <2>4. renamed \in Seq(Prices) /\ Len(renamed) = Len(before)
    <3>1. \A i \in DOMAIN before : before[i] \in Prices
      BY <1>1
    <3>2. \A price \in Prices : [price EXCEPT !.key = None] \in Prices
      BY DEF Prices
    <3>3. renamed \in [1..Len(before) -> Prices]
      BY <2>2, <3>1, <3>2
    <3> HIDE DEF renamed
    <3> QED
      BY <2>2, <3>3
  <2>5. new.key = call.key /\ new.active
    OBVIOUS
  <2> HIDE DEF renamed, new, before
  <2>6. /\ Len(stripe'[m]) = Len(before) + 1
        /\ stripe'[m][Len(before) + 1] = new
        /\ \A i \in 1..Len(before) : stripe'[m][i] = renamed[i]
    BY <2>1, <2>2, <2>4
  <2> QED
    BY <1>3, <1>6, <2>2, <2>3, <2>5, <2>6 DEF Explains, before, call
<1>7. CASE call.kind # "create_product" /\ call.verb = "archive"
  BY <1>2, <1>3, <1>7 DEF Explains, StripeAfter, UpdatedPrice, call
<1>8. CASE call.kind # "create_product" /\ call.verb = "update"
  <2>1. stripe'[m] = [before EXCEPT ![call.price] = UpdatedPrice(before[call.price], call)]
    BY <1>2, <1>8 DEF StripeAfter
  <2>2. /\ Len(stripe'[m]) = Len(before)
        /\ \A i \in DOMAIN before : stripe'[m][i] # before[i] => i = call.price
    BY <1>1, <2>1
  <2> QED
    BY <1>3, <1>8, <2>2 DEF Explains, call
<1> QED
  BY <1>4, <1>5, <1>6, <1>7, <1>8 DEF Calls, call

\* The step that changes an account is a Stripe call of the request whose
\* attempt is open there.
LEMMA ChangeIsExplained ==
    ASSUME EvidenceInv, [Next]_vars, "dashboard" \notin Events, NEW m \in Modes,
           <<stripe[m], products[m]>> # <<stripe[m], products[m]>>'
    PROVE  \E a \in OpenAttempts(m) :
              /\ attempts[a].log # <<>>
              /\ attempts[a].log[Len(attempts[a].log)].status = "pending"
              /\ Explains(m, attempts[a].log[Len(attempts[a].log)])
<1> USE DEF EvidenceInv
<1>1. PICK p \in Publishers : pc[p] = "calling" /\ StripeApplies(p)
  <2>1. CASE Draft \/ Dashboard \/ UNCHANGED vars
    BY <2>1 DEF Draft, CreateDraftFrom, DiscardDraft, EditCheck, EditWrite,
                Dashboard, DashboardArchive, DashboardCreate, vars, account
  <2>2. ASSUME NEW p \in Publishers, Submit(p) \/ CompletionFails(p) \/ Crash(p) PROVE FALSE
    BY <2>2 DEF Submit, Review, Confirm, Refuse, StartPublishAttempt, StartRefused,
                CompletionFails, Crash, account
  <2>3. ASSUME NEW p \in Publishers, Execute(p) PROVE pc[p] = "calling" /\ StripeApplies(p)
    BY <2>3 DEF Execute, Reobserve, ReobserveMoved, FinishAborted, RecordOperation,
                OperationSkipped, StripeAnswers, StripeReplyLost, StripeRefuses, StripeReplies,
                CompleteOperation, FinishPublish, PromotePublication, account
  <2> QED
    BY <2>1, <2>2, <2>3 DEF Next
<1> DEFINE own == job[p].attempt
           call == job[p].call
<1>2. stripe \in [Modes -> Seq(Prices)] /\ products \in [Modes -> [Plans -> Nat]]
  BY DEF TypeInv, TypeOK
<1>3. job[p].mode = m
  BY <1>1, <1>2 DEF StripeApplies
<1>4. own \in OpenAttempts(m)
  BY <1>1, <1>3 DEF LeaseHeld, OpenAttempts, Executing
<1>5. attempts[own].log # <<>> /\ attempts[own].log[Len(attempts[own].log)] = LogRow(call)
  BY <1>1 DEF Evidence, RequestEvidence
<1>6. LogRow(call).status = "pending"
  BY DEF LogRow, Row
<1>7. call \in Calls
  BY <1>1 DEF TypeInv, RequestsWellFormed
<1>8. Explains(m, LogRow(call))
  BY <1>1, <1>3, <1>7, CallIsExplained DEF StripeApplies, TypeInv
<1> HIDE DEF own
<1> QED
  BY <1>4, <1>5, <1>6, <1>8

\* Write-ahead, for any number of requests and calls (publish-executor.ts):
\* while only the executor writes to Stripe, an account changes only as the
\* pending last row of an open attempt for it says, so a crash or a lost reply
\* never leaves a change that publish_operations does not explain.
THEOREM WriteAhead ==
    ASSUME "dashboard" \notin Events
    PROVE  Spec => WriteAheadExplains
<1>1. EvidenceInv /\ [Next]_vars =>
         [\A m \in Modes :
             <<stripe[m], products[m]>> # <<stripe[m], products[m]>>' =>
                 \E a \in OpenAttempts(m) :
                     /\ attempts[a].log # <<>>
                     /\ attempts[a].log[Len(attempts[a].log)].status = "pending"
                     /\ Explains(m, attempts[a].log[Len(attempts[a].log)])]_vars
  BY ChangeIsExplained
<1> QED
  BY <1>1, EvidenceInvariant, PTL DEF Spec, WriteAheadExplains

--------------------------------------------------------------------------------
(* What an archive hits.                                                   *)

Busy == {"running", "calling", "replied"}

\* The create of a replacement of the key.
Replaces(call, k) == call.kind = "replace_price" /\ call.verb = "create" /\ call.key = k

\* An archive names a Price that still carries its key, or no key any more;
\* what is archived for good is a key the draft does not sell.
Aimed(p, a) ==
    LET prices == stripe[job[p].mode]
    IN  /\ a.price \in DOMAIN prices
        /\ prices[a.price].key \in {a.key, None}
        /\ a.kind = "archive_price" => a.key \notin CatalogKeys(job[p].goal)

Stripped(p, a) == stripe[job[p].mode][a.price].key = None

\* The old Price of a replacement loses its key before its archive is called:
\* until then the create is still to be made, is being made, or has failed and
\* takes the archive with it.
RequestAimed(p) ==
    pc[p] \in Busy =>
        /\ \A a \in job[p].todo : a.verb = "archive" =>
              /\ Aimed(p, a)
              /\ a.kind = "replace_price" =>
                    \/ Stripped(p, a)
                    \/ \E c \in job[p].todo : Replaces(c, a.key)
                    \/ /\ pc[p] \in {"calling", "replied"} /\ Replaces(job[p].call, a.key)
                       /\ pc[p] = "replied" => job[p].reply = "failed"
        /\ pc[p] \in {"calling", "replied"} /\ job[p].call.verb = "archive" =>
              /\ Aimed(p, job[p].call)
              /\ job[p].call.kind = "replace_price" => Stripped(p, job[p].call)

ArchivesAimed == \A p \in Publishers : RequestAimed(p)

AimInv == TypeInv /\ ArchivesAimed

\* A Price never leaves its account, and only ever loses its key.
KeysFade ==
    \A m \in Modes : /\ DOMAIN stripe[m] \subseteq DOMAIN stripe'[m]
                     /\ \A i \in DOMAIN stripe[m] : stripe'[m][i].key \in {stripe[m][i].key, None}

\* What a call does to the Prices that were there.
LEMMA StripeAfterKeeps ==
    ASSUME NEW prices \in Seq(Prices), NEW call \in Calls
    PROVE  LET after == StripeAfter(prices, call)
           IN  /\ DOMAIN prices \subseteq DOMAIN after
               /\ \A i \in DOMAIN prices :
                     /\ after[i].key \in {prices[i].key, None}
                     /\ call.kind # "create_product" /\ call.verb = "create" =>
                           /\ after[i].key # call.key
                           /\ prices[i].key # call.key => after[i] = prices[i]
                     /\ call.kind = "create_product" \/ call.verb # "create" =>
                           after[i].key = prices[i].key
                     /\ prices[i].active /\ ~after[i].active => call.verb = "archive" /\ i = call.price
                     /\ after[i].active => prices[i].active
               /\ call.kind # "create_product" /\ call.verb = "create" =>
                     /\ Len(after) = Len(prices) + 1
                     /\ after[Len(after)] = [key |-> call.key, currency |-> call.currency,
                                             coverage |-> call.coverage, active |-> TRUE]
               /\ call.kind = "create_product" \/ call.verb # "create" => Len(after) = Len(prices)
<1> DEFINE after == StripeAfter(prices, call)
<1>0. /\ DOMAIN prices = 1..Len(prices) /\ Len(prices) \in Nat
      /\ \A i \in DOMAIN prices : prices[i] \in Prices
      /\ call.key \in Keys /\ call.key # None
  BY NoneAssumption DEF Calls
<1>1. CASE call.kind = "create_product"
  BY <1>1 DEF StripeAfter
<1>2. CASE call.kind # "create_product" /\ call.verb = "create"
  <2> DEFINE renamed == [i \in DOMAIN prices |->
                IF prices[i].key = call.key THEN [prices[i] EXCEPT !.key = None] ELSE prices[i]]
             new == [key |-> call.key, currency |-> call.currency,
                     coverage |-> call.coverage, active |-> TRUE]
  <2>1. after = Append(renamed, new)
    BY <1>2 DEF StripeAfter, WithNewPrice
  <2>2. \A price \in Prices : LET other == [price EXCEPT !.key = None]
                              IN  other \in Prices /\ other.key = None /\ other.active = price.active
    BY DEF Prices
  <2>3. ASSUME NEW i \in DOMAIN prices
        PROVE  /\ renamed[i] \in Prices
               /\ renamed[i].key \in {prices[i].key, None} /\ renamed[i].key # call.key
               /\ renamed[i].active = prices[i].active
               /\ prices[i].key # call.key => renamed[i] = prices[i]
    BY <1>0, <2>2
  <2>4. renamed \in [1..Len(prices) -> Prices]
    BY <1>0, <2>3
  <2> HIDE DEF renamed, new
  <2>5. renamed \in Seq(Prices) /\ Len(renamed) = Len(prices)
    BY <1>0, <2>4
  <2>6. /\ Len(after) = Len(prices) + 1 /\ DOMAIN after = 1..Len(prices) + 1
        /\ after[Len(prices) + 1] = new
        /\ \A i \in 1..Len(prices) : after[i] = renamed[i]
    BY <1>0, <2>1, <2>5
  <2> HIDE DEF after
  <2>7. DOMAIN prices \subseteq DOMAIN after /\ \A i \in DOMAIN prices : after[i] = renamed[i]
    BY <1>0, <2>6
  <2> QED
    BY <1>2, <2>3, <2>6, <2>7 DEF after, new
<1>3. CASE call.kind # "create_product" /\ call.verb # "create"
  <2> DEFINE one == UpdatedPrice(prices[call.price], call)
  <2>1. after = [prices EXCEPT ![call.price] = one]
    BY <1>3 DEF StripeAfter
  <2>2. ASSUME call.price \in DOMAIN prices
        PROVE  /\ one.key = prices[call.price].key
               /\ call.verb # "archive" => one.active = prices[call.price].active
               /\ one.active => prices[call.price].active
    BY <1>0, <2>2 DEF UpdatedPrice, Prices
  <2> HIDE DEF one
  <2>3. /\ DOMAIN after = DOMAIN prices /\ Len(after) = Len(prices)
        /\ \A i \in DOMAIN prices : after[i] = IF i = call.price THEN one ELSE prices[i]
    BY <2>1
  <2> HIDE DEF after
  <2> QED
    BY <1>3, <2>2, <2>3 DEF after
<1> QED
  BY <1>1, <1>2, <1>3

\* The Price at an index the account already had: after a create, and after
\* any other call.
LEMMA CreateRenames ==
    ASSUME NEW prices \in Seq(Prices), NEW call \in Calls, NEW i \in DOMAIN prices,
           call.kind # "create_product", call.verb = "create"
    PROVE  StripeAfter(prices, call)[i] =
              IF prices[i].key = call.key THEN [prices[i] EXCEPT !.key = None] ELSE prices[i]
<1> DEFINE renamed == [j \in DOMAIN prices |->
              IF prices[j].key = call.key THEN [prices[j] EXCEPT !.key = None] ELSE prices[j]]
           new == [key |-> call.key, currency |-> call.currency,
                   coverage |-> call.coverage, active |-> TRUE]
<1>1. StripeAfter(prices, call) = Append(renamed, new)
  BY DEF StripeAfter, WithNewPrice
<1>2. /\ Len(prices) \in Nat /\ i \in 1..Len(prices)
      /\ renamed \in [1..Len(prices) -> {renamed[j] : j \in DOMAIN prices}]
  OBVIOUS
<1>3. renamed \in Seq({renamed[j] : j \in DOMAIN prices}) /\ Len(renamed) = Len(prices)
  BY <1>2
<1>4. renamed[i] = IF prices[i].key = call.key THEN [prices[i] EXCEPT !.key = None] ELSE prices[i]
  OBVIOUS
<1> HIDE DEF renamed, new
<1>5. Append(renamed, new)[i] = renamed[i]
  BY <1>2, <1>3
<1> QED
  BY <1>1, <1>4, <1>5

LEMMA OthersTouchOne ==
    ASSUME NEW prices \in Seq(Prices), NEW call \in Calls, NEW i \in DOMAIN prices,
           call.kind # "create_product", call.verb # "create"
    PROVE  StripeAfter(prices, call)[i] =
              IF i = call.price THEN UpdatedPrice(prices[i], call) ELSE prices[i]
  BY DEF StripeAfter

LEMMA CreateStrips ==
    ASSUME NEW prices \in Seq(Prices), NEW call \in Calls, NEW i \in DOMAIN prices,
           call.kind # "create_product", call.verb = "create"
    PROVE  /\ StripeAfter(prices, call)[i].key # call.key
           /\ prices[i].key # call.key => StripeAfter(prices, call)[i] = prices[i]
           /\ prices[i].key = call.key => StripeAfter(prices, call)[i].key = None
<1>1. prices[i] \in Prices /\ call.key # None
  BY NoneAssumption DEF Calls
<1>2. StripeAfter(prices, call)[i] =
         IF prices[i].key = call.key THEN [prices[i] EXCEPT !.key = None] ELSE prices[i]
  BY CreateRenames
<1> QED
  BY <1>1, <1>2 DEF Prices

LEMMA CreateAdds ==
    ASSUME NEW prices \in Seq(Prices), NEW call \in Calls,
           call.kind # "create_product", call.verb = "create"
    PROVE  LET after == StripeAfter(prices, call)
           IN  /\ Len(after) = Len(prices) + 1 /\ DOMAIN after = 1..Len(after)
               /\ after[Len(after)] = [key |-> call.key, currency |-> call.currency,
                                       coverage |-> call.coverage, active |-> TRUE]
<1> DEFINE renamed == [j \in DOMAIN prices |->
              IF prices[j].key = call.key THEN [prices[j] EXCEPT !.key = None] ELSE prices[j]]
           new == [key |-> call.key, currency |-> call.currency,
                   coverage |-> call.coverage, active |-> TRUE]
<1>1. StripeAfter(prices, call) = Append(renamed, new)
  BY DEF StripeAfter, WithNewPrice
<1>2. Len(prices) \in Nat /\ renamed \in [1..Len(prices) -> {renamed[j] : j \in DOMAIN prices}]
  OBVIOUS
<1>3. renamed \in Seq({renamed[j] : j \in DOMAIN prices}) /\ Len(renamed) = Len(prices)
  BY <1>2
<1> HIDE DEF renamed
<1> QED
  BY <1>1, <1>2, <1>3

LEMMA OnlyCreatesStrip ==
    ASSUME NEW prices \in Seq(Prices), NEW call \in Calls, NEW i \in DOMAIN prices,
           StripeAfter(prices, call)[i].key # prices[i].key
    PROVE  call.kind # "create_product" /\ call.verb = "create" /\ prices[i].key = call.key
<1>0. prices[i] \in Prices
  OBVIOUS
<1>1. CASE call.kind = "create_product"
  BY <1>1 DEF StripeAfter
<1>2. CASE call.kind # "create_product" /\ call.verb = "create"
  BY <1>2, CreateStrips
<1>3. CASE call.kind # "create_product" /\ call.verb # "create"
  <2>1. StripeAfter(prices, call)[i] =
           IF i = call.price THEN UpdatedPrice(prices[i], call) ELSE prices[i]
    BY <1>3, OthersTouchOne
  <2> QED
    BY <1>0, <1>3, <2>1 DEF UpdatedPrice, Prices
<1> QED
  BY <1>1, <1>2, <1>3

LEMMA OnlyArchivesArchive ==
    ASSUME NEW prices \in Seq(Prices), NEW call \in Calls, NEW i \in DOMAIN prices,
           prices[i].active, ~StripeAfter(prices, call)[i].active
    PROVE  call.verb = "archive" /\ i = call.price
<1>0. prices[i] \in Prices
  OBVIOUS
<1>1. CASE call.kind = "create_product"
  BY <1>1 DEF StripeAfter
<1>2. CASE call.kind # "create_product" /\ call.verb = "create"
  <2>1. StripeAfter(prices, call)[i] =
           IF prices[i].key = call.key THEN [prices[i] EXCEPT !.key = None] ELSE prices[i]
    BY <1>2, CreateRenames
  <2> QED
    BY <1>0, <2>1 DEF Prices
<1>3. CASE call.kind # "create_product" /\ call.verb # "create"
  <2>1. StripeAfter(prices, call)[i] =
           IF i = call.price THEN UpdatedPrice(prices[i], call) ELSE prices[i]
    BY <1>3, OthersTouchOne
  <2> QED
    BY <1>0, <1>3, <2>1 DEF UpdatedPrice, Prices
<1> QED
  BY <1>1, <1>2, <1>3

LEMMA NoneWakes ==
    ASSUME NEW prices \in Seq(Prices), NEW call \in Calls, NEW i \in DOMAIN prices,
           StripeAfter(prices, call)[i].active
    PROVE  prices[i].active
<1>0. prices[i] \in Prices
  OBVIOUS
<1>1. CASE call.kind = "create_product"
  BY <1>1 DEF StripeAfter
<1>2. CASE call.kind # "create_product" /\ call.verb = "create"
  <2>1. StripeAfter(prices, call)[i] =
           IF prices[i].key = call.key THEN [prices[i] EXCEPT !.key = None] ELSE prices[i]
    BY <1>2, CreateRenames
  <2> QED
    BY <1>0, <2>1 DEF Prices
<1>3. CASE call.kind # "create_product" /\ call.verb # "create"
  <2>1. StripeAfter(prices, call)[i] =
           IF i = call.price THEN UpdatedPrice(prices[i], call) ELSE prices[i]
    BY <1>3, OthersTouchOne
  <2> QED
    BY <1>0, <1>3, <2>1 DEF UpdatedPrice, Prices
<1> QED
  BY <1>1, <1>2, <1>3

\* The account of a step: a call of Stripe, or the Dashboard, or nothing.
LEMMA AccountSteps ==
    ASSUME TypeInv, [Next]_vars
    PROVE  \/ UNCHANGED stripe
           \/ \E p \in Publishers : /\ pc[p] = "calling" /\ pc' = [pc EXCEPT ![p] = "replied"]
                                   /\ StripeApplies(p)
           \/ Dashboard
<1>1. CASE Draft \/ Dashboard \/ UNCHANGED vars
  BY <1>1 DEF Draft, CreateDraftFrom, DiscardDraft, EditCheck, EditWrite, vars, account
<1>2. ASSUME NEW p \in Publishers, Submit(p) \/ CompletionFails(p) \/ Crash(p)
      PROVE  UNCHANGED stripe
  BY <1>2 DEF Submit, Review, Confirm, Refuse, StartPublishAttempt, StartRefused,
              CompletionFails, Crash, account
<1>3. ASSUME NEW p \in Publishers, Execute(p)
      PROVE  \/ UNCHANGED stripe
             \/ pc[p] = "calling" /\ pc' = [pc EXCEPT ![p] = "replied"] /\ StripeApplies(p)
  BY <1>3 DEF Execute, Reobserve, ReobserveMoved, FinishAborted, RecordOperation,
              OperationSkipped, StripeAnswers, StripeReplyLost, StripeRefuses, StripeReplies,
              CompleteOperation, FinishPublish, PromotePublication, account
<1> QED
  BY <1>1, <1>2, <1>3 DEF Next

LEMMA AppliedPrices ==
    ASSUME TypeInv, NEW p \in Publishers, pc[p] = "calling", StripeApplies(p)
    PROVE  /\ job[p].mode \in Modes /\ job[p].call \in Calls
           /\ stripe[job[p].mode] \in Seq(Prices)
           /\ stripe'[job[p].mode] = StripeAfter(stripe[job[p].mode], job[p].call)
           /\ \A m \in Modes : m # job[p].mode => stripe'[m] = stripe[m]
  BY DEF TypeInv, TypeOK, RequestsWellFormed, StripeApplies

LEMMA KeysOnlyFade == TypeInv /\ [Next]_vars => KeysFade
<1> SUFFICES ASSUME TypeInv, [Next]_vars PROVE KeysFade
  OBVIOUS
<1>1. \A m \in Modes : stripe[m] \in Seq(Prices)
  BY DEF TypeInv, TypeOK
<1>2. CASE UNCHANGED stripe
  BY <1>2 DEF KeysFade
<1>3. ASSUME NEW p \in Publishers, pc[p] = "calling", StripeApplies(p) PROVE KeysFade
  <2>1. ASSUME NEW m \in Modes
        PROVE  /\ DOMAIN stripe[m] \subseteq DOMAIN stripe'[m]
               /\ \A i \in DOMAIN stripe[m] : stripe'[m][i].key \in {stripe[m][i].key, None}
    <3>1. CASE m = job[p].mode
      <4>1. /\ job[p].call \in Calls /\ stripe[m] \in Seq(Prices)
            /\ stripe'[m] = StripeAfter(stripe[m], job[p].call)
        BY <1>3, <3>1, AppliedPrices
      <4>2. \A prices \in Seq(Prices), call \in Calls :
               /\ DOMAIN prices \subseteq DOMAIN StripeAfter(prices, call)
               /\ \A i \in DOMAIN prices :
                     StripeAfter(prices, call)[i].key \in {prices[i].key, None}
        BY StripeAfterKeeps
      <4> QED
        BY <4>1, <4>2
    <3>2. CASE m # job[p].mode
      BY <1>3, <3>2, AppliedPrices
    <3> QED
      BY <3>1, <3>2
  <2> QED
    BY <2>1 DEF KeysFade
<1>4. ASSUME NEW n \in Modes, NEW i \in DOMAIN stripe[n], DashboardArchive(n, i) PROVE KeysFade
  <2>1. stripe' = [stripe EXCEPT ![n] = [stripe[n] EXCEPT ![i] = [stripe[n][i] EXCEPT !.active = FALSE]]]
    BY <1>4 DEF DashboardArchive
  <2>2. stripe[n][i] \in Prices
    BY <1>1
  <2>3. [stripe[n][i] EXCEPT !.active = FALSE].key = stripe[n][i].key
    BY <2>2 DEF Prices
  <2> QED
    BY <1>1, <2>1, <2>3 DEF KeysFade, TypeInv, TypeOK
<1>5. ASSUME NEW n \in Modes, NEW k \in Keys, NEW c \in Currencies, NEW coverage \in DashboardCoverages,
             DashboardCreate(n, k, c, coverage)
      PROVE  KeysFade
  <2> DEFINE new == [key |-> k, currency |-> c, coverage |-> coverage, active |-> TRUE]
  <2>1. stripe' = [stripe EXCEPT ![n] = Append(stripe[n], new)]
    BY <1>5 DEF DashboardCreate
  <2>2. /\ DOMAIN stripe[n] \subseteq DOMAIN Append(stripe[n], new)
        /\ \A i \in DOMAIN stripe[n] : Append(stripe[n], new)[i] = stripe[n][i]
    BY <1>1
  <2> HIDE DEF new
  <2> QED
    BY <2>1, <2>2 DEF KeysFade, TypeInv, TypeOK
<1> QED
  BY <1>2, <1>3, <1>4, <1>5, AccountSteps DEF Dashboard

\* An archive stays aimed while the request that holds it stands still.
LEMMA AimKept ==
    ASSUME TypeInv, KeysFade, NEW p \in Publishers, pc[p] \in Busy,
           job'[p].mode = job[p].mode, job'[p].goal = job[p].goal,
           NEW a, Aimed(p, a)
    PROVE  Aimed(p, a)' /\ (Stripped(p, a) => Stripped(p, a)')
<1>1. job[p].mode \in Modes
  BY DEF TypeInv, RequestsWellFormed, Busy
<1> QED
  BY <1>1 DEF Aimed, Stripped, KeysFade

LEMMA InitAimed == Init => ArchivesAimed
  BY DEF Init, ArchivesAimed, RequestAimed, Busy

\* The other requests' archives.
LEMMA OthersAimed ==
    ASSUME TypeInv, KeysFade, NEW p \in Publishers, RequestAimed(p),
           pc'[p] = pc[p], job'[p] = job[p]
    PROVE  RequestAimed(p)'
<1> SUFFICES ASSUME pc[p] \in Busy PROVE RequestAimed(p)'
  BY DEF RequestAimed
<1>1. ASSUME NEW a \in job[p].todo, a.verb = "archive"
      PROVE  /\ Aimed(p, a)'
             /\ a.kind = "replace_price" =>
                   \/ Stripped(p, a)'
                   \/ \E c \in job[p].todo : Replaces(c, a.key)
                   \/ /\ pc[p] \in {"calling", "replied"} /\ Replaces(job[p].call, a.key)
                      /\ pc[p] = "replied" => job[p].reply = "failed"
  BY <1>1, AimKept DEF RequestAimed
<1>2. ASSUME pc[p] \in {"calling", "replied"}, job[p].call.verb = "archive"
      PROVE  /\ Aimed(p, job[p].call)'
             /\ job[p].call.kind = "replace_price" => Stripped(p, job[p].call)'
  BY <1>2, AimKept DEF RequestAimed
<1>3. RequestAimed(p)'
  BY <1>1, <1>2 DEF RequestAimed
<1> QED
  BY <1>3

\* The archives of a plan are aimed when it is built: each names the Price that
\* carries its key.
LEMMA ReobserveAims ==
    ASSUME AimInv, NEW p \in Publishers, Reobserve(p)
    PROVE  RequestAimed(p)'
<1> DEFINE m == job[p].mode
           draft == rows[job[p].rev]
           plan == BuildPublishPlan(draft, Observed(m))
           next == [job[p] EXCEPT !.goal = draft, !.todo = plan]
<1>1. /\ pc \in [Publishers -> PcValues] /\ job \in [Publishers -> Jobs] /\ job[p] \in Jobs
      /\ m \in Modes /\ draft \in [Keys -> Coverages] /\ Observed(m) \in Observations
      /\ stripe[m] \in Seq(Prices)
  BY ObservedShape DEF AimInv, TypeInv, TypeOK, RequestsWellFormed, Reobserve
<1>2. job' = [job EXCEPT ![p] = next] /\ pc'[p] = "running" /\ UNCHANGED stripe
  BY <1>1 DEF Reobserve, account
<1>3. next.goal = draft /\ next.todo = plan /\ next.mode = m
  BY <1>1 DEF Jobs
<1> HIDE DEF next
<1>4. job'[p] = next
  BY <1>1, <1>2
<1>5. ASSUME NEW k \in StripeKeys(Observed(m))
      PROVE  Observed(m)[k].id \in Holders(m, k)
  <2>1. k \in Keys /\ Observed(m)[k] # None
    BY DEF StripeKeys
  <2>2. Holders(m, k) # {} /\ Observed(m)[k] = View(m, CHOOSE i \in Holders(m, k) : TRUE)
    BY <2>1 DEF Observed
  <2> QED
    BY <2>2 DEF View
<1> HIDE DEF m, draft
<1>6. ASSUME NEW a \in plan, a.verb = "archive"
      PROVE  /\ a.price \in Holders(m, a.key)
             /\ a.kind = "archive_price" => a.key \notin CatalogKeys(draft)
             /\ a.kind = "replace_price" => \E c \in plan : Replaces(c, a.key)
  <2>1. /\ \/ a.kind = "archive_price" /\ a.key \in MissingInCatalog(draft, Observed(m))
           \/ a.kind = "replace_price" /\ a.key \in ReplacedKeys(draft, Observed(m))
        /\ a.price = Observed(m)[a.key].id /\ a.key \in Keys
    BY <1>1, <1>6, PlanMeaning
  <2>2. a.key \in StripeKeys(Observed(m))
    BY <2>1 DEF MissingInCatalog, ReplacedKeys, Matched
  <2>3. a.kind = "archive_price" => a.key \notin CatalogKeys(draft)
    BY <2>1 DEF MissingInCatalog
  <2>4. ASSUME a.kind = "replace_price" PROVE \E c \in plan : Replaces(c, a.key)
    <3>1. Create("replace_price", a.key, Observed(m)[a.key].currency,
                 StripeReady(draft[a.key], Observed(m)[a.key].currency)) \in plan
      BY <2>1, <2>4 DEF BuildPublishPlan
    <3> QED
      BY <3>1 DEF Create, Replaces
  <2> QED
    BY <1>5, <2>1, <2>2, <2>3, <2>4
<1> HIDE DEF plan
<1>7. ASSUME NEW a \in plan, a.verb = "archive"
      PROVE  Aimed(p, a)'
  <2>1. a.price \in DOMAIN stripe[m] /\ stripe[m][a.price].key = a.key
    BY <1>6, <1>7 DEF Holders
  <2> QED
    BY <1>2, <1>3, <1>4, <1>6, <1>7, <2>1 DEF Aimed
<1> QED
  BY <1>2, <1>3, <1>4, <1>6, <1>7 DEF RequestAimed

\* An archive is recorded only when the create it follows is no longer to be
\* made, so its Price has lost its key.
LEMMA RecordAims ==
    ASSUME AimInv, NEW p \in Publishers, RecordOperation(p)
    PROVE  RequestAimed(p)'
<1>1. /\ pc \in [Publishers -> PcValues] /\ job \in [Publishers -> Jobs] /\ job[p] \in Jobs
      /\ pc[p] = "running" /\ RequestAimed(p)
  BY DEF AimInv, TypeInv, TypeOK, ArchivesAimed, RecordOperation
<1>2. PICK call \in NextCalls(job[p].todo) :
         job' = [job EXCEPT ![p].call = call, ![p].todo = @ \ {call}]
  BY DEF RecordOperation
<1> DEFINE next == [job[p] EXCEPT !.call = call, !.todo = @ \ {call}]
<1>3. /\ next.call = call /\ next.todo = job[p].todo \ {call}
      /\ next.mode = job[p].mode /\ next.goal = job[p].goal
  BY <1>1 DEF Jobs
<1>4. job' = [job EXCEPT ![p] = next] /\ pc'[p] = "calling" /\ UNCHANGED stripe
  BY <1>1, <1>2 DEF RecordOperation, account
<1> HIDE DEF next
<1>5. job'[p] = next
  BY <1>1, <1>4
<1>6. call \in job[p].todo /\ \A other \in job[p].todo : ~Precedes(other, call)
  BY DEF NextCalls
<1>7. ASSUME NEW a \in job[p].todo, a.verb = "archive"
      PROVE  Aimed(p, a)' /\ (Stripped(p, a) => Stripped(p, a)')
  BY <1>1, <1>3, <1>4, <1>5, <1>7 DEF RequestAimed, Aimed, Stripped, Busy
<1>8. ASSUME call.verb = "archive", call.kind = "replace_price" PROVE Stripped(p, call)
  <2>1. ASSUME NEW c \in job[p].todo, Replaces(c, call.key) PROVE FALSE
    <3>1. Precedes(c, call)
      BY <1>8, <2>1 DEF Replaces, Precedes, Stage
    <3> QED
      BY <1>6, <3>1
  <2> QED
    BY <1>1, <1>6, <1>8, <2>1 DEF RequestAimed, Busy
<1>9. ASSUME NEW a \in next.todo, a.verb = "archive", a.kind = "replace_price"
      PROVE  \/ Stripped(p, a)'
             \/ \E c \in next.todo : Replaces(c, a.key)
             \/ Replaces(next.call, a.key)
  <2>1. Stripped(p, a) \/ \E c \in job[p].todo : Replaces(c, a.key)
    BY <1>1, <1>3, <1>9 DEF RequestAimed, Busy
  <2> QED
    BY <1>3, <1>7, <1>9, <2>1
<1> QED
  BY <1>3, <1>4, <1>5, <1>6, <1>7, <1>8, <1>9 DEF RequestAimed

\* What leaves the plan with a create that failed.
LEMMA DroppedTogether ==
    ASSUME NEW todo, NEW call, NEW a \in todo \ FollowUp(todo, call), a.kind = "replace_price",
           NEW c \in todo, Replaces(c, a.key), c \in FollowUp(todo, call) \/ c = call
    PROVE  FALSE
  BY DEF FollowUp, Replaces

LEMMA SkipAims ==
    ASSUME AimInv, NEW p \in Publishers, OperationSkipped(p)
    PROVE  RequestAimed(p)'
<1>1. /\ pc \in [Publishers -> PcValues] /\ job \in [Publishers -> Jobs] /\ job[p] \in Jobs
      /\ pc[p] = "running" /\ RequestAimed(p)
  BY DEF AimInv, TypeInv, TypeOK, ArchivesAimed, OperationSkipped
<1>2. PICK call \in NextCalls(job[p].todo) :
         job' = [job EXCEPT ![p].failed = TRUE,
                            ![p].todo = @ \ ({call} \cup FollowUp(@, call))]
  BY DEF OperationSkipped
<1> DEFINE left == job[p].todo \ ({call} \cup FollowUp(job[p].todo, call))
           next == [job[p] EXCEPT !.failed = TRUE,
                                  !.todo = @ \ ({call} \cup FollowUp(@, call))]
<1>3. next.todo = left /\ next.mode = job[p].mode /\ next.goal = job[p].goal
  BY <1>1 DEF Jobs
<1>4. job' = [job EXCEPT ![p] = next] /\ pc'[p] = "running" /\ UNCHANGED stripe
  BY <1>1, <1>2 DEF OperationSkipped, account
<1> HIDE DEF next
<1>5. job'[p] = next
  BY <1>1, <1>4
<1>6. ASSUME NEW a \in left, a.verb = "archive"
      PROVE  /\ Aimed(p, a)'
             /\ a.kind = "replace_price" => Stripped(p, a)' \/ \E c \in left : Replaces(c, a.key)
  <2>1. Aimed(p, a)' /\ (Stripped(p, a) => Stripped(p, a)')
    BY <1>1, <1>3, <1>4, <1>5, <1>6 DEF RequestAimed, Aimed, Stripped, Busy
  <2>2. a.kind = "replace_price" => Stripped(p, a) \/ \E c \in job[p].todo : Replaces(c, a.key)
    BY <1>1, <1>6 DEF RequestAimed, Busy
  <2>3. ASSUME a.kind = "replace_price", NEW c \in job[p].todo, Replaces(c, a.key) PROVE c \in left
    BY <1>6, <2>3, DroppedTogether
  <2> QED
    BY <2>1, <2>2, <2>3
<1> QED
  BY <1>3, <1>4, <1>5, <1>6 DEF RequestAimed

\* Once the create of a replacement has landed, the Price it replaces carries
\* no key.
LEMMA ReplyAims ==
    ASSUME AimInv, KeysFade, NEW p \in Publishers, NEW reply, StripeReplies(p, reply),
           reply \in {"succeeded", "failed"}, reply = "succeeded" => StripeApplies(p)
    PROVE  RequestAimed(p)'
<1>1. /\ pc \in [Publishers -> PcValues] /\ job \in [Publishers -> Jobs] /\ job[p] \in Jobs
      /\ pc[p] = "calling" /\ RequestAimed(p) /\ TypeInv
  BY DEF AimInv, TypeInv, TypeOK, ArchivesAimed, StripeReplies
<1> DEFINE next == [job[p] EXCEPT !.reply = reply]
<1>3. /\ next.todo = job[p].todo /\ next.mode = job[p].mode /\ next.goal = job[p].goal
      /\ next.call = job[p].call /\ next.reply = reply
  BY <1>1 DEF Jobs
<1>4. job' = [job EXCEPT ![p] = next] /\ pc'[p] = "replied"
  BY <1>1 DEF StripeReplies
<1> HIDE DEF next
<1>5. job'[p] = next
  BY <1>1, <1>4
<1>6. ASSUME NEW a, Aimed(p, a) PROVE Aimed(p, a)' /\ (Stripped(p, a) => Stripped(p, a)')
  BY <1>1, <1>3, <1>5, <1>6, AimKept DEF Busy
<1>7. ASSUME NEW a, Aimed(p, a), Replaces(job[p].call, a.key), reply = "succeeded"
      PROVE  Stripped(p, a)'
  <2>1. /\ stripe[job[p].mode] \in Seq(Prices) /\ job[p].call \in Calls
        /\ stripe'[job[p].mode] = StripeAfter(stripe[job[p].mode], job[p].call)
    BY <1>1, <1>7, AppliedPrices
  <2>2. StripeAfter(stripe[job[p].mode], job[p].call)[a.price].key # a.key
    <3>1. /\ a.price \in DOMAIN stripe[job[p].mode] /\ job[p].call.key = a.key
          /\ job[p].call.kind # "create_product" /\ job[p].call.verb = "create"
      BY <1>7 DEF Aimed, Replaces
    <3> QED
      BY <2>1, <3>1, CreateStrips
  <2> QED
    BY <1>3, <1>5, <1>6, <1>7, <2>1, <2>2 DEF Aimed, Stripped
<1>8. ASSUME NEW a \in job[p].todo, a.verb = "archive"
      PROVE  /\ Aimed(p, a)'
             /\ a.kind = "replace_price" =>
                   \/ Stripped(p, a)'
                   \/ \E c \in job[p].todo : Replaces(c, a.key)
                   \/ Replaces(job[p].call, a.key) /\ reply = "failed"
  BY <1>1, <1>6, <1>7, <1>8 DEF RequestAimed, Busy
<1>9. PICK call : call = job[p].call
  OBVIOUS
<1>10. ASSUME call.verb = "archive"
       PROVE  Aimed(p, call)' /\ (call.kind = "replace_price" => Stripped(p, call)')
  BY <1>1, <1>6, <1>9, <1>10 DEF RequestAimed, Busy
<1> QED
  BY <1>3, <1>4, <1>5, <1>8, <1>9, <1>10 DEF RequestAimed

LEMMA CompleteAims ==
    ASSUME AimInv, NEW p \in Publishers, CompleteOperation(p)
    PROVE  RequestAimed(p)'
<1>1. /\ pc \in [Publishers -> PcValues] /\ job \in [Publishers -> Jobs] /\ job[p] \in Jobs
      /\ pc[p] = "replied" /\ RequestAimed(p) /\ job[p].reply \in {"succeeded", "failed"}
  BY DEF AimInv, TypeInv, TypeOK, RequestsWellFormed, ArchivesAimed, CompleteOperation
<1> DEFINE lost == job[p].reply = "failed"
           left == IF lost THEN job[p].todo \ FollowUp(job[p].todo, job[p].call) ELSE job[p].todo
           next == [job[p] EXCEPT !.failed = @ \/ lost,
                                  !.todo = IF lost THEN @ \ FollowUp(@, job[p].call) ELSE @,
                                  !.call = None, !.reply = "none"]
<1>3. next.todo = left /\ next.mode = job[p].mode /\ next.goal = job[p].goal
  BY <1>1 DEF Jobs
<1>4. job' = [job EXCEPT ![p] = next] /\ pc'[p] = "running" /\ UNCHANGED stripe
  BY <1>1 DEF CompleteOperation, account
<1> HIDE DEF next
<1>5. job'[p] = next
  BY <1>1, <1>4
<1>6. ASSUME NEW a \in left, a.verb = "archive"
      PROVE  /\ Aimed(p, a)'
             /\ a.kind = "replace_price" => Stripped(p, a)' \/ \E c \in left : Replaces(c, a.key)
  <2>1. Aimed(p, a)' /\ (Stripped(p, a) => Stripped(p, a)')
    BY <1>1, <1>3, <1>4, <1>5, <1>6 DEF RequestAimed, Aimed, Stripped, Busy
  <2>2. a.kind = "replace_price" =>
            \/ Stripped(p, a) \/ \E c \in job[p].todo : Replaces(c, a.key)
            \/ lost /\ Replaces(job[p].call, a.key)
    BY <1>1, <1>6 DEF RequestAimed, Busy
  <2>3. ASSUME a.kind = "replace_price", lost, Replaces(job[p].call, a.key) PROVE FALSE
    BY <1>6, <2>3 DEF FollowUp, Replaces
  <2>4. ASSUME a.kind = "replace_price", NEW c \in job[p].todo, Replaces(c, a.key) PROVE c \in left
    BY <1>6, <2>4, DroppedTogether
  <2> QED
    BY <2>1, <2>2, <2>3, <2>4
<1> QED
  BY <1>3, <1>4, <1>5, <1>6 DEF RequestAimed

\* A step of one request leaves the others where they are.
LEMMA OneAtATime ==
    ASSUME pc \in [Publishers -> PcValues], job \in [Publishers -> Jobs],
           NEW p \in Publishers, NEW q \in Publishers, p # q,
           Submit(p) \/ Execute(p) \/ CompletionFails(p) \/ Crash(p)
    PROVE  pc'[q] = pc[q] /\ job'[q] = job[q]
<1>1. CASE Submit(p) \/ CompletionFails(p) \/ Crash(p)
  BY <1>1 DEF Submit, Review, Confirm, Refuse, StartPublishAttempt, StartRefused,
              CompletionFails, Crash
<1>2. CASE Reobserve(p)
  BY <1>2 DEF Reobserve
<1>3. CASE ReobserveMoved(p) \/ FinishAborted(p) \/ PromotePublication(p)
  BY <1>3 DEF ReobserveMoved, FinishAborted, PromotePublication
<1>4. CASE FinishPublish(p)
  BY <1>4 DEF FinishPublish
<1>5. CASE RecordOperation(p)
  <2>1. PICK call : job' = [job EXCEPT ![p].call = call, ![p].todo = @ \ {call}]
    BY <1>5 DEF RecordOperation
  <2> QED
    BY <1>5, <2>1 DEF RecordOperation
<1>6. CASE OperationSkipped(p)
  <2>1. PICK call : job' = [job EXCEPT ![p].failed = TRUE,
                                       ![p].todo = @ \ ({call} \cup FollowUp(@, call))]
    BY <1>6 DEF OperationSkipped
  <2> QED
    BY <1>6, <2>1 DEF OperationSkipped
<1>7. CASE StripeAnswers(p) \/ StripeReplyLost(p) \/ StripeRefuses(p)
  BY <1>7 DEF StripeAnswers, StripeReplyLost, StripeRefuses, StripeReplies
<1>8. CASE CompleteOperation(p)
  BY <1>8 DEF CompleteOperation
<1> QED
  BY <1>1, <1>2, <1>3, <1>4, <1>5, <1>6, <1>7, <1>8 DEF Execute

LEMMA NextAimed == AimInv /\ [Next]_vars => ArchivesAimed'
<1> SUFFICES ASSUME AimInv, [Next]_vars, NEW q \in Publishers PROVE RequestAimed(q)'
  BY DEF ArchivesAimed
<1>0. /\ TypeInv /\ KeysFade /\ RequestAimed(q)
      /\ pc \in [Publishers -> PcValues] /\ job \in [Publishers -> Jobs]
  BY KeysOnlyFade DEF AimInv, ArchivesAimed, TypeInv, TypeOK
<1>1. CASE pc'[q] = pc[q] /\ job'[q] = job[q]
  BY <1>0, <1>1, OthersAimed
<1>2. CASE pc'[q] \notin Busy
  BY <1>2 DEF RequestAimed
<1>3. CASE ~(pc'[q] = pc[q] /\ job'[q] = job[q]) /\ pc'[q] \in Busy
  <2>1. CASE Draft \/ Dashboard \/ UNCHANGED vars
    BY <1>3, <2>1 DEF Draft, CreateDraftFrom, DiscardDraft, EditCheck, EditWrite,
                      Dashboard, DashboardArchive, DashboardCreate, vars
  <2>2. ASSUME NEW p \in Publishers, Submit(p) \/ CompletionFails(p) \/ Crash(p) PROVE FALSE
    BY <1>0, <1>3, <2>2 DEF Submit, Review, Confirm, Refuse, StartPublishAttempt, StartRefused,
                            CompletionFails, Crash, Busy
  <2>3. ASSUME NEW p \in Publishers, Execute(p) PROVE RequestAimed(q)'
    <3>1. CASE ReobserveMoved(p) \/ FinishAborted(p) \/ FinishPublish(p) \/ PromotePublication(p)
      BY <1>0, <1>3, <3>1 DEF ReobserveMoved, FinishAborted, FinishPublish, PromotePublication, Busy
    <3>2. p = q
      BY <1>0, <1>3, <2>3, OneAtATime
    <3>3. CASE StripeAnswers(p) \/ StripeReplyLost(p) \/ StripeRefuses(p)
      BY <1>0, <3>2, <3>3, ReplyAims DEF StripeAnswers, StripeReplyLost, StripeRefuses
    <3> QED
      BY <2>3, <3>1, <3>2, <3>3, ReobserveAims, RecordAims, SkipAims, CompleteAims DEF Execute
  <2> QED
    BY <2>1, <2>2, <2>3 DEF Next
<1> QED
  BY <1>1, <1>2, <1>3

THEOREM ArchivesStayAimed == Spec => []AimInv
<1>1. Init => AimInv
  BY InitTypeInv, InitAimed DEF AimInv
<1>2. AimInv /\ [Next]_vars => AimInv'
  BY NextTypeInv, NextAimed DEF AimInv
<1> QED
  BY <1>1, <1>2, PTL DEF Spec

\* A Price that stops being active at a Stripe call: the one the call archives,
\* and it serves no key the draft sells.
LEMMA WhatACallArchives ==
    ASSUME AimInv, NEW p \in Publishers, pc[p] = "calling", StripeApplies(p),
           NEW m \in Modes, NEW i \in DOMAIN stripe[m], stripe[m][i].active, ~stripe'[m][i].active
    PROVE  /\ m = job[p].mode /\ job[p].call.verb = "archive" /\ i = job[p].call.price
           /\ stripe[m][i].key \notin CatalogKeys(job[p].goal)
<1>1. TypeInv /\ RequestAimed(p)
  BY DEF AimInv, ArchivesAimed
<1>2. m = job[p].mode
  BY <1>1, AppliedPrices
<1>3. /\ stripe[m] \in Seq(Prices) /\ job[p].call \in Calls /\ WellFormed(job[p].call)
      /\ stripe'[m] = StripeAfter(stripe[m], job[p].call)
  BY <1>1, <1>2, AppliedPrices DEF TypeInv, RequestsWellFormed
<1>5. job[p].call.verb = "archive" /\ i = job[p].call.price
  BY <1>2, <1>3, OnlyArchivesArchive
<1>6. /\ Aimed(p, job[p].call)
      /\ job[p].call.kind = "replace_price" => Stripped(p, job[p].call)
      /\ job[p].call.kind \in {"archive_price", "replace_price"}
  BY <1>1, <1>3, <1>5 DEF RequestAimed, Busy, WellFormed
<1>7. None \notin CatalogKeys(job[p].goal)
  BY NoneAssumption DEF CatalogKeys
<1> QED
  BY <1>2, <1>5, <1>6, <1>7 DEF Aimed, Stripped

\* runReplacePrice and the archive operations (publish-executor.ts), for any
\* plan and whatever is refused, lost or changed by hand: the executor archives
\* the Price the plan captured, never the one that serves a key its draft sells.
THEOREM ArchivesSpare == Spec => ArchiveSparesWhatIsSold
<1>1. ASSUME AimInv, [Next]_vars, NEW p \in Publishers,
             pc[p] = "calling", job[p].call.verb = "archive", pc'[p] = "replied",
             NEW m \in Modes, NEW i \in DOMAIN stripe[m],
             stripe[m][i].active, ~stripe'[m][i].active
      PROVE  stripe[m][i].key \notin CatalogKeys(job[p].goal)
  <2>1. pc \in [Publishers -> PcValues] /\ TypeInv
    BY <1>1 DEF AimInv, TypeInv, TypeOK
  <2>2. ~UNCHANGED stripe
    BY <1>1
  <2>3. ~Dashboard
    BY <1>1 DEF Dashboard, DashboardArchive, DashboardCreate
  <2>4. PICK q \in Publishers : /\ pc[q] = "calling" /\ pc' = [pc EXCEPT ![q] = "replied"]
                                /\ StripeApplies(q)
    BY <1>1, <2>1, <2>2, <2>3, AccountSteps
  <2>5. q = p
    BY <1>1, <2>1, <2>4
  <2> QED
    BY <1>1, <2>4, <2>5, WhatACallArchives
<1>2. AimInv /\ [Next]_vars =>
         [\A p \in Publishers :
             pc[p] = "calling" /\ job[p].call.verb = "archive" =>
                 \A m \in Modes : \A i \in DOMAIN stripe[m] :
                     stripe[m][i].active /\ ~stripe'[m][i].active /\ pc'[p] = "replied"
                         => stripe[m][i].key \notin CatalogKeys(job[p].goal)]_vars
  BY <1>1
<1> QED
  BY <1>2, ArchivesStayAimed, PTL DEF Spec, ArchiveSparesWhatIsSold

--------------------------------------------------------------------------------
(* What stays on sale.  No operation of the catalog adds a key to a revision *)
(* or takes one away, so every revision sells what the baseline sells.       *)

Sold == CatalogKeys(InitialRows[Baseline])

SameKeys ==
    /\ \A r \in Revisions : revs[r] = "exists" => CatalogKeys(rows[r]) = Sold
    /\ \A r \in Revisions : Live(r) \/ Attempted(r) => revs[r] = "exists"
    /\ \A p \in Publishers : pc[p] \in Busy => CatalogKeys(job[p].goal) = Sold

SaleInv == EvidenceInv /\ AimInv /\ SameKeys

LEMMA InitSale ==
    ASSUME \A r \in DOMAIN InitialRows : CatalogKeys(InitialRows[r]) = Sold
    PROVE  Init => SameKeys
  BY PublishAssumption DEF Init, SameKeys, Busy, Live, Attempted

\* setDraftAmount writes a cell of a price the revision has.
LEMMA EditKeepsKeys ==
    ASSUME TypeInv, EditWrite, NEW r \in Revisions
    PROVE  CatalogKeys(rows'[r]) = CatalogKeys(rows[r])
<1> DEFINE row == rows[editor.rev][editor.key]
           cell == [amount |-> editor.amount,
                    tax |-> IF row[editor.currency] = None THEN "unspecified"
                            ELSE row[editor.currency].tax]
<1>1. /\ editor \in Edits /\ rows \in [Revisions -> [Keys -> Coverages]]
      /\ editor.rev \in Revisions /\ editor.key \in Keys /\ editor.currency \in Currencies
  BY DEF EditWrite, TypeInv, TypeOK, Edits
<1>2. CASE Covered(row) = {}
  BY <1>2 DEF EditWrite
<1>3. CASE Covered(row) # {}
  <2>1. rows' = [rows EXCEPT ![editor.rev][editor.key][editor.currency] = cell]
    BY <1>3 DEF EditWrite
  <2>2. cell # None
    <3>1. editor.amount \in Nat
      BY <1>1, PublishAssumption DEF Edits
    <3>2. row \in Coverages
      BY <1>1
    <3>3. cell.tax \in TaxBehaviors
      BY <1>1, <3>2 DEF Coverages, Cells, TaxBehaviors
    <3> QED
      BY <3>1, <3>3, NoneAssumption DEF Cells
  <2> HIDE DEF cell, row
  <2>3. ASSUME NEW k \in Keys PROVE Covered(rows'[r][k]) # {} <=> Covered(rows[r][k]) # {}
    <3>1. CASE r = editor.rev /\ k = editor.key
      <4>1. rows'[r][k] = [row EXCEPT ![editor.currency] = cell]
        BY <1>1, <2>1, <3>1 DEF row
      <4>2. row \in [Currencies -> Cells \cup {None}]
        BY <1>1 DEF row, Coverages
      <4>3. editor.currency \in Covered(rows'[r][k])
        BY <1>1, <2>2, <4>1, <4>2 DEF Covered
      <4> QED
        BY <1>3, <3>1, <4>3 DEF row
    <3>2. CASE ~(r = editor.rev /\ k = editor.key)
      <4>1. rows'[r][k] = rows[r][k]
        BY <1>1, <2>1, <3>2
      <4> QED
        BY <4>1
    <3> QED
      BY <3>1, <3>2
  <2> QED
    BY <2>3 DEF CatalogKeys
<1> QED
  BY <1>2, <1>3

LEMMA RevisionsSell ==
    ASSUME TypeInv, SameKeys, [Next]_vars, NEW r \in Revisions, revs'[r] = "exists"
    PROVE  CatalogKeys(rows'[r]) = Sold
<1>1. /\ revs \in [Revisions -> {"unborn", "exists", "discarded"}] /\ live \in [Modes -> Revisions]
      /\ rows \in [Revisions -> [Keys -> Coverages]]
  BY DEF TypeInv, TypeOK
<1>2. CASE UNCHANGED <<revs, rows>>
  BY <1>2 DEF SameKeys
<1>3. ASSUME NEW m \in Modes, NEW s \in Revisions, CreateDraftFrom(m, s)
      PROVE  CatalogKeys(rows'[r]) = Sold
  <2>1. revs[live[m]] = "exists" /\ CatalogKeys(rows[live[m]]) = Sold
    BY <1>1 DEF SameKeys, Live
  <2> QED
    BY <1>1, <1>3, <2>1 DEF CreateDraftFrom, SameKeys
<1>4. ASSUME NEW s \in Revisions, DiscardDraft(s) PROVE CatalogKeys(rows'[r]) = Sold
  BY <1>1, <1>4 DEF DiscardDraft, SameKeys
<1>5. CASE EditWrite
  BY <1>5, EditKeepsKeys DEF EditWrite, SameKeys
<1>6. CASE Dashboard \/ (\E edit \in Edits : EditCheck(edit)) \/ UNCHANGED vars
  BY <1>2, <1>6 DEF Dashboard, DashboardArchive, DashboardCreate, EditCheck, vars, database
<1>7. ASSUME NEW p \in Publishers, Submit(p) \/ Execute(p) \/ CompletionFails(p) \/ Crash(p)
      PROVE  UNCHANGED <<revs, rows>>
  <2>1. CASE Submit(p) \/ CompletionFails(p) \/ Crash(p)
    BY <2>1 DEF Submit, Review, Confirm, Refuse, StartPublishAttempt, StartRefused,
                CompletionFails, Crash, database
  <2>2. CASE Execute(p)
    BY <2>2 DEF Execute, Reobserve, ReobserveMoved, FinishAborted, RecordOperation,
                OperationSkipped, StripeAnswers, StripeReplyLost, StripeRefuses, StripeReplies,
                CompleteOperation, FinishPublish, PromotePublication, database
  <2> QED
    BY <1>7, <2>1, <2>2
<1> QED
  BY <1>2, <1>3, <1>4, <1>5, <1>6, <1>7 DEF Next, Draft

\* An attempt keeps its revision; a new one names a revision that exists.
LEMMA AttemptsKeepRevisions ==
    ASSUME TypeInv, [Next]_vars, NEW a \in DOMAIN attempts'
    PROVE  \/ a \in DOMAIN attempts /\ attempts'[a].rev = attempts[a].rev
           \/ revs'[attempts'[a].rev] = "exists"
<1>1. attempts \in Seq(Attempts) /\ \A b \in DOMAIN attempts : attempts[b] \in Attempts
  BY DEF TypeInv, TypeOK
<1>2. CASE UNCHANGED attempts
  BY <1>2
<1>3. ASSUME NEW p \in Publishers, StartPublishAttempt(p)
      PROVE  \/ a \in DOMAIN attempts /\ attempts'[a].rev = attempts[a].rev
             \/ revs'[attempts'[a].rev] = "exists"
  <2> DEFINE new == [rev |-> job[p].rev, mode |-> job[p].mode, fingerprint |-> job[p].confirmed,
                     outcome |-> "open", log |-> <<>>]
  <2>1. attempts' = Append(attempts, new) /\ revs'[new.rev] = "exists"
    BY <1>3 DEF StartPublishAttempt, Startable, database
  <2> HIDE DEF new
  <2> QED
    BY <1>1, <2>1
<1>4. ASSUME NEW p \in Publishers, FinishAborted(p) \/ FinishPublish(p) \/ RecordOperation(p)
                                   \/ CompleteOperation(p)
      PROVE  a \in DOMAIN attempts /\ attempts'[a].rev = attempts[a].rev
  <2>1. ASSUME NEW b, NEW attempt, attempts' = [attempts EXCEPT ![b] = attempt],
               b \in DOMAIN attempts => attempt.rev = attempts[b].rev
        PROVE  a \in DOMAIN attempts /\ attempts'[a].rev = attempts[a].rev
    BY <1>1, <2>1
  <2>2. \A attempt \in Attempts : \A outcome, log :
           /\ [attempt EXCEPT !.outcome = outcome].rev = attempt.rev
           /\ [attempt EXCEPT !.log = log].rev = attempt.rev
    BY DEF Attempts
  <2>3. CASE FinishAborted(p)
    BY <1>1, <2>1, <2>2, <2>3 DEF FinishAborted
  <2>4. CASE FinishPublish(p)
    BY <1>1, <2>1, <2>2, <2>4 DEF FinishPublish
  <2>5. CASE RecordOperation(p)
    <3>1. PICK call : attempts' = [attempts EXCEPT ![job[p].attempt].log = Append(@, LogRow(call))]
      BY <2>5 DEF RecordOperation
    <3> QED
      BY <1>1, <2>1, <2>2, <3>1
  <2>6. CASE CompleteOperation(p)
    BY <1>1, <2>1, <2>2, <2>6 DEF CompleteOperation
  <2> QED
    BY <1>4, <2>3, <2>4, <2>5, <2>6
<1>5. CASE Draft \/ Dashboard \/ UNCHANGED vars
  BY <1>2, <1>5 DEF Draft, CreateDraftFrom, DiscardDraft, EditCheck, EditWrite,
                    Dashboard, DashboardArchive, DashboardCreate, vars
<1>6. ASSUME NEW p \in Publishers,
             \/ (\E r \in Revisions, m \in Modes : Review(p, r, m)) \/ Confirm(p) \/ Refuse(p)
             \/ StartRefused(p) \/ CompletionFails(p) \/ Crash(p)
      PROVE  UNCHANGED attempts
  BY <1>6 DEF Review, Confirm, Refuse, StartRefused, CompletionFails, Crash
<1>7. ASSUME NEW p \in Publishers,
             \/ Reobserve(p) \/ ReobserveMoved(p) \/ OperationSkipped(p) \/ StripeAnswers(p)
             \/ StripeReplyLost(p) \/ StripeRefuses(p) \/ PromotePublication(p)
      PROVE  UNCHANGED attempts
  BY <1>7 DEF Reobserve, ReobserveMoved, OperationSkipped, StripeAnswers, StripeReplyLost,
              StripeRefuses, StripeReplies, PromotePublication
<1> QED
  BY <1>2, <1>3, <1>4, <1>5, <1>6, <1>7 DEF Next, Submit, Execute

\* What is published comes from an attempt; discardDraft spares both.
LEMMA LiveComesFromAttempt ==
    ASSUME EvidenceInv, [Next]_vars, NEW m \in Modes
    PROVE  live'[m] = live[m] \/ Attempted(live'[m])
<1>1. live \in [Modes -> Revisions]
  BY DEF EvidenceInv, TypeInv, TypeOK
<1>2. ASSUME NEW p \in Publishers, PromotePublication(p)
      PROVE  live'[m] = live[m] \/ Attempted(live'[m])
  BY <1>1, <1>2 DEF PromotePublication, EvidenceInv, Evidence, RequestEvidence, Attempted
<1>3. CASE Draft \/ Dashboard \/ UNCHANGED vars
  BY <1>3 DEF Draft, CreateDraftFrom, DiscardDraft, EditCheck, EditWrite,
              Dashboard, DashboardArchive, DashboardCreate, vars, database
<1>4. ASSUME NEW p \in Publishers, Submit(p) \/ CompletionFails(p) \/ Crash(p)
      PROVE  UNCHANGED live
  BY <1>4 DEF Submit, Review, Confirm, Refuse, StartPublishAttempt, StartRefused,
              CompletionFails, Crash, database
<1>5. ASSUME NEW p \in Publishers, Execute(p)
      PROVE  PromotePublication(p) \/ UNCHANGED live
  BY <1>5 DEF Execute, Reobserve, ReobserveMoved, FinishAborted, RecordOperation,
              OperationSkipped, StripeAnswers, StripeReplyLost, StripeRefuses, StripeReplies,
              CompleteOperation, FinishPublish, database
<1> QED
  BY <1>2, <1>3, <1>4, <1>5 DEF Next

LEMMA InUseExists ==
    ASSUME EvidenceInv, SameKeys, [Next]_vars, NEW r \in Revisions, (Live(r) \/ Attempted(r))'
    PROVE  revs'[r] = "exists"
<1>1. /\ revs \in [Revisions -> {"unborn", "exists", "discarded"}] /\ live \in [Modes -> Revisions]
  BY DEF EvidenceInv, TypeInv, TypeOK
<1>2. Live(r) \/ Attempted(r) \/ revs'[r] = "exists"
  <2>1. CASE Live(r)'
    BY <2>1, LiveComesFromAttempt DEF Live
  <2>2. CASE Attempted(r)'
    <3>1. PICK a \in DOMAIN attempts' : attempts'[a].rev = r
      BY <2>2 DEF Attempted
    <3> QED
      BY <3>1, AttemptsKeepRevisions DEF Attempted, EvidenceInv
  <2> QED
    BY <2>1, <2>2
<1>3. ASSUME Live(r) \/ Attempted(r) PROVE revs'[r] = "exists"
  <2>1. revs[r] = "exists"
    BY <1>3 DEF SameKeys
  <2>2. ASSUME NEW s \in Revisions, DiscardDraft(s) PROVE s # r
    BY <1>3, <2>2 DEF DiscardDraft, Discardable
  <2>3. CASE Draft
    BY <1>1, <2>1, <2>2, <2>3 DEF Draft, CreateDraftFrom, DiscardDraft, EditCheck, EditWrite, database
  <2>4. CASE Dashboard \/ UNCHANGED vars
    BY <2>1, <2>4 DEF Dashboard, DashboardArchive, DashboardCreate, vars, database
  <2>5. ASSUME NEW p \in Publishers, Submit(p) \/ CompletionFails(p) \/ Crash(p)
        PROVE  UNCHANGED revs
    BY <2>5 DEF Submit, Review, Confirm, Refuse, StartPublishAttempt, StartRefused,
                CompletionFails, Crash, database
  <2>6. ASSUME NEW p \in Publishers, Execute(p) PROVE UNCHANGED revs
    BY <2>6 DEF Execute, Reobserve, ReobserveMoved, FinishAborted, RecordOperation,
                OperationSkipped, StripeAnswers, StripeReplyLost, StripeRefuses, StripeReplies,
                CompleteOperation, FinishPublish, PromotePublication, database
  <2> QED
    BY <2>1, <2>3, <2>4, <2>5, <2>6 DEF Next
<1> QED
  BY <1>2, <1>3

\* What a request executes is the draft as it read it, a revision that exists.
LEMMA GoalsSell ==
    ASSUME EvidenceInv, SameKeys, [Next]_vars, NEW q \in Publishers, pc'[q] \in Busy
    PROVE  CatalogKeys(job'[q].goal) = Sold
<1>0. /\ pc \in [Publishers -> PcValues] /\ job \in [Publishers -> Jobs] /\ job[q] \in Jobs
  BY DEF EvidenceInv, TypeInv, TypeOK
<1>1. CASE pc'[q] = pc[q] /\ job'[q] = job[q]
  BY <1>1 DEF SameKeys
<1>2. CASE ~(pc'[q] = pc[q] /\ job'[q] = job[q])
  <2>1. CASE Draft \/ Dashboard \/ UNCHANGED vars
    BY <1>2, <2>1 DEF Draft, CreateDraftFrom, DiscardDraft, EditCheck, EditWrite,
                      Dashboard, DashboardArchive, DashboardCreate, vars
  <2>2. ASSUME NEW p \in Publishers, Submit(p) \/ CompletionFails(p) \/ Crash(p) PROVE FALSE
    BY <1>0, <1>2, <2>2 DEF Submit, Review, Confirm, Refuse, StartPublishAttempt, StartRefused,
                            CompletionFails, Crash, Busy
  <2>3. ASSUME NEW p \in Publishers, Execute(p) PROVE CatalogKeys(job'[q].goal) = Sold
    <3>1. p = q
      BY <1>0, <1>2, <2>3, OneAtATime
    <3>2. CASE ReobserveMoved(q) \/ FinishAborted(q) \/ FinishPublish(q) \/ PromotePublication(q)
      BY <1>0, <3>2 DEF ReobserveMoved, FinishAborted, FinishPublish, PromotePublication, Busy
    <3>3. CASE Reobserve(q)
      <4>1. Attempted(job[q].rev) /\ job[q].rev \in Revisions
        BY <3>3 DEF Reobserve, EvidenceInv, LeaseHeld, Evidence, RequestEvidence, Executing,
                    Attempted, TypeInv, RequestsWellFormed
      <4>2. CatalogKeys(rows[job[q].rev]) = Sold
        BY <4>1 DEF SameKeys
      <4>3. job'[q].goal = rows[job[q].rev]
        BY <1>0, <3>3 DEF Reobserve, Jobs
      <4> QED
        BY <4>2, <4>3
    <3>4. ASSUME pc[q] \in Busy, job'[q].goal = job[q].goal
          PROVE  CatalogKeys(job'[q].goal) = Sold
      BY <3>4 DEF SameKeys
    <3>5. CASE RecordOperation(q)
      <4>1. PICK call : job' = [job EXCEPT ![q].call = call, ![q].todo = @ \ {call}]
        BY <3>5 DEF RecordOperation
      <4> QED
        BY <1>0, <3>4, <3>5, <4>1 DEF RecordOperation, Busy, Jobs
    <3>6. CASE OperationSkipped(q)
      <4>1. PICK call : job' = [job EXCEPT ![q].failed = TRUE,
                                           ![q].todo = @ \ ({call} \cup FollowUp(@, call))]
        BY <3>6 DEF OperationSkipped
      <4> QED
        BY <1>0, <3>4, <3>6, <4>1 DEF OperationSkipped, Busy, Jobs
    <3>7. CASE StripeAnswers(q) \/ StripeReplyLost(q) \/ StripeRefuses(q)
      BY <1>0, <3>4, <3>7 DEF StripeAnswers, StripeReplyLost, StripeRefuses, StripeReplies, Busy, Jobs
    <3>8. CASE CompleteOperation(q)
      BY <1>0, <3>4, <3>8 DEF CompleteOperation, Busy, Jobs
    <3> QED
      BY <2>3, <3>1, <3>2, <3>3, <3>5, <3>6, <3>7, <3>8 DEF Execute
  <2> QED
    BY <2>1, <2>2, <2>3 DEF Next
<1> QED
  BY <1>1, <1>2

LEMMA SaleInvariant ==
    ASSUME \A r \in DOMAIN InitialRows : CatalogKeys(InitialRows[r]) = Sold
    PROVE  Spec => []SaleInv
<1>1. Init => SameKeys
  BY InitSale
<1>2. EvidenceInv /\ SameKeys /\ [Next]_vars => SameKeys'
  BY RevisionsSell, InUseExists, GoalsSell DEF SameKeys, EvidenceInv
<1> QED
  BY <1>1, <1>2, EvidenceInvariant, ArchivesStayAimed, PTL DEF Spec, SaleInv

\* Only an archive takes a key off sale: a Price that loses its key to a new
\* one leaves the key in its hands.
LEMMA KeyStaysHeld ==
    ASSUME SaleInv, [Next]_vars, "dashboard" \notin Events,
           NEW m \in Modes, NEW k \in Sold, Holders(m, k) # {}
    PROVE  Holders(m, k)' # {}
<1>1. TypeInv /\ AimInv /\ k \in Keys /\ k # None /\ stripe[m] \in Seq(Prices)
  BY NoneAssumption DEF SaleInv, AimInv, TypeInv, TypeOK, Sold, CatalogKeys
<1>2. CASE UNCHANGED stripe
  BY <1>2 DEF Holders
<1>3. ASSUME NEW p \in Publishers, pc[p] = "calling", StripeApplies(p), m = job[p].mode
      PROVE  Holders(m, k)' # {}
  <2> DEFINE call == job[p].call
             after == StripeAfter(stripe[m], call)
  <2>1. call \in Calls /\ stripe'[m] = after
    BY <1>1, <1>3, AppliedPrices
  <2>2. PICK i \in DOMAIN stripe[m] : stripe[m][i].active /\ stripe[m][i].key = k
    BY DEF Holders
  <2>3. CatalogKeys(job[p].goal) = Sold
    BY <1>3 DEF SaleInv, SameKeys, Busy
  <2>4. stripe'[m][i].active
    BY <1>1, <1>3, <2>2, <2>3, WhatACallArchives
  <2>5. CASE after[i].key = k
    <3>1. i \in DOMAIN after
      BY <1>1, <2>1, KeysOnlyFade DEF KeysFade
    <3> QED
      BY <2>1, <2>4, <2>5, <3>1 DEF Holders
  <2>6. CASE after[i].key # k
    <3>1. /\ call.kind # "create_product" /\ call.verb = "create" /\ call.key = k
      BY <1>1, <2>1, <2>2, <2>6, OnlyCreatesStrip
    <3>2. /\ Len(after) = Len(stripe[m]) + 1 /\ DOMAIN after = 1..Len(after)
          /\ after[Len(after)] = [key |-> k, currency |-> call.currency,
                                  coverage |-> call.coverage, active |-> TRUE]
      BY <1>1, <2>1, <3>1, CreateAdds
    <3>3. Len(stripe[m]) \in Nat
      BY <1>1
    <3>4. Len(after) \in DOMAIN after /\ after[Len(after)].key = k /\ after[Len(after)].active
      BY <3>2, <3>3
    <3> HIDE DEF after
    <3> QED
      BY <2>1, <3>4 DEF Holders
  <2> QED
    BY <2>5, <2>6
<1>4. ASSUME NEW p \in Publishers, pc[p] = "calling", StripeApplies(p), m # job[p].mode
      PROVE  Holders(m, k)' # {}
  BY <1>1, <1>4, AppliedPrices DEF Holders
<1> QED
  BY <1>1, <1>2, <1>3, <1>4, AccountSteps DEF Dashboard, DashboardArchive, DashboardCreate

\* setDraftAmount reprices and createDraftFrom copies, so every revision sells
\* the same keys; then, while only the executor writes to Stripe, a key that
\* the live catalog and Stripe sell is never off sale: not between the two
\* calls of runReplacePrice, and not after one of them failed.
THEOREM NeverOffSale ==
    ASSUME "dashboard" \notin Events,
           \A r \in DOMAIN InitialRows : CatalogKeys(InitialRows[r]) = Sold
    PROVE  Spec => KeysStayOnSale
<1>1. SaleInv /\ [Next]_vars =>
         [\A m \in Modes : \A k \in CatalogKeys(rows[live[m]]) :
             Holders(m, k) # {} => Holders(m, k)' # {}]_vars
  <2>1. ASSUME SaleInv, NEW m \in Modes PROVE CatalogKeys(rows[live[m]]) = Sold
    <3>1. live[m] \in Revisions /\ Live(live[m])
      BY <2>1 DEF SaleInv, AimInv, TypeInv, TypeOK, Live
    <3> QED
      BY <2>1, <3>1 DEF SaleInv, SameKeys
  <2> QED
    BY <2>1, KeyStaysHeld
<1> QED
  BY <1>1, SaleInvariant, PTL DEF Spec, KeysStayOnSale

--------------------------------------------------------------------------------
(* Prices under a key, while only the executor writes to Stripe.           *)

UniqueHolders == \A m \in Modes, k \in Keys : \A i, j \in Holders(m, k) : i = j

LEMMA OthersKeepLength ==
    ASSUME NEW prices \in Seq(Prices), NEW call \in Calls,
           ~(call.kind # "create_product" /\ call.verb = "create")
    PROVE  DOMAIN StripeAfter(prices, call) = DOMAIN prices
<1>1. CASE call.kind = "create_product"
  BY <1>1 DEF StripeAfter
<1>2. CASE call.kind # "create_product" /\ call.verb # "create"
  <2>1. StripeAfter(prices, call) = [prices EXCEPT ![call.price] = UpdatedPrice(prices[call.price], call)]
    BY <1>2 DEF StripeAfter
  <2> QED
    BY <2>1
<1> QED
  BY <1>1, <1>2

\* The call that makes a new Price under a key.
Makes(call, k) == call.kind # "create_product" /\ call.verb = "create" /\ call.key = k

\* A call gives a key to the Price it makes, and to no other.
LEMMA HoldersMove ==
    ASSUME TypeInv, NEW p \in Publishers, pc[p] = "calling", StripeApplies(p),
           NEW m, m = job[p].mode, NEW k \in Keys
    PROVE  /\ ~Makes(job[p].call, k) => Holders(m, k)' \subseteq Holders(m, k)
           /\ Makes(job[p].call, k) => Holders(m, k)' = {Len(stripe[m]) + 1}
<1>0. PICK call : call = job[p].call
  OBVIOUS
<1> DEFINE after == StripeAfter(stripe[m], call)
<1>1. call \in Calls /\ stripe[m] \in Seq(Prices) /\ stripe'[m] = after /\ k # None
  BY <1>0, AppliedPrices, NoneAssumption
<1>2. DOMAIN stripe[m] = 1..Len(stripe[m]) /\ Len(stripe[m]) \in Nat
  BY <1>1
<1>3. ASSUME NEW i \in Holders(m, k)', i \in DOMAIN stripe[m]
      PROVE  i \in Holders(m, k) /\ ~Makes(call, k)
  <2>1. after[i].active /\ after[i].key = k
    BY <1>1, <1>3 DEF Holders
  <2>2. stripe[m][i].active
    BY <1>1, <1>3, <2>1, NoneWakes
  <2>3. ~Makes(call, k)
    BY <1>1, <1>3, <2>1, CreateStrips DEF Makes
  <2>4. stripe[m][i].key = k
    <3>1. CASE call.kind # "create_product" /\ call.verb = "create"
      <4>1. stripe[m][i].key # call.key => after[i] = stripe[m][i]
        BY <1>1, <1>3, <3>1, CreateStrips
      <4>2. stripe[m][i].key = call.key => after[i].key = None
        BY <1>1, <1>3, <3>1, CreateStrips
      <4> QED
        BY <1>1, <2>1, <4>1, <4>2
    <3>2. CASE ~(call.kind # "create_product" /\ call.verb = "create")
      BY <1>1, <1>3, <2>1, <3>2, OnlyCreatesStrip
    <3> QED
      BY <3>1, <3>2
  <2> QED
    BY <1>3, <2>2, <2>3, <2>4 DEF Holders
<1>4. CASE call.kind # "create_product" /\ call.verb = "create"
  <2>1. /\ Len(after) = Len(stripe[m]) + 1 /\ DOMAIN after = 1..Len(after)
        /\ after[Len(after)] = [key |-> call.key, currency |-> call.currency,
                                coverage |-> call.coverage, active |-> TRUE]
    BY <1>1, <1>4, CreateAdds
  <2>2. DOMAIN stripe'[m] = 1..Len(stripe[m]) + 1
    BY <1>1, <2>1
  <2>3. stripe'[m][Len(stripe[m]) + 1].key = call.key /\ stripe'[m][Len(stripe[m]) + 1].active
    BY <1>1, <2>1
  <2>4. Len(stripe[m]) + 1 \in Holders(m, call.key)'
    BY <1>2, <2>2, <2>3 DEF Holders
  <2>5. \A i \in Holders(m, k)' : i \in DOMAIN stripe[m] \/ (i = Len(stripe[m]) + 1 /\ call.key = k)
    BY <1>2, <2>2, <2>3 DEF Holders
  <2> HIDE DEF after
  <2> QED
    BY <1>0, <1>3, <1>4, <2>4, <2>5 DEF Makes
<1>5. CASE ~(call.kind # "create_product" /\ call.verb = "create")
  <2>1. DOMAIN stripe'[m] = DOMAIN stripe[m]
    BY <1>1, <1>5, OthersKeepLength
  <2> QED
    BY <1>0, <1>3, <1>5, <2>1 DEF Makes, Holders
<1> QED
  BY <1>4, <1>5

LEMMA NextUnique ==
    ASSUME TypeInv, UniqueHolders, [Next]_vars, "dashboard" \notin Events
    PROVE  UniqueHolders'
<1> SUFFICES ASSUME NEW m \in Modes, NEW k \in Keys,
                    NEW i \in Holders(m, k)', NEW j \in Holders(m, k)'
             PROVE  i = j
  BY DEF UniqueHolders
<1>1. CASE UNCHANGED stripe
  BY <1>1 DEF UniqueHolders, Holders
<1>2. ASSUME NEW p \in Publishers, pc[p] = "calling", StripeApplies(p), m = job[p].mode
      PROVE  i = j
  <2>1. Holders(m, k)' \subseteq Holders(m, k) \/ Holders(m, k)' = {Len(stripe[m]) + 1}
    BY <1>2, HoldersMove
  <2> QED
    BY <2>1 DEF UniqueHolders
<1>3. ASSUME NEW p \in Publishers, pc[p] = "calling", StripeApplies(p), m # job[p].mode
      PROVE  i = j
  BY <1>3, AppliedPrices DEF UniqueHolders, Holders
<1> QED
  BY <1>1, <1>2, <1>3, AccountSteps DEF Dashboard, DashboardArchive, DashboardCreate

\* The account of a request that stands still: no other writes to it.
LEMMA AccountStandsStill ==
    ASSUME EvidenceInv, [Next]_vars, "dashboard" \notin Events,
           NEW p \in Publishers, pc[p] \in Busy, pc'[p] = pc[p]
    PROVE  stripe'[job[p].mode] = stripe[job[p].mode]
<1>1. /\ TypeInv /\ OneWriterPerMode /\ pc \in [Publishers -> PcValues] /\ job[p].mode \in Modes
  BY LeaseMeansOneWriter DEF EvidenceInv, TypeInv, TypeOK, RequestsWellFormed, Busy
<1>2. ASSUME NEW q \in Publishers, pc[q] = "calling", pc' = [pc EXCEPT ![q] = "replied"],
             StripeApplies(q)
      PROVE  stripe'[job[p].mode] = stripe[job[p].mode]
  <2>1. q # p
    BY <1>1, <1>2
  <2>2. job[q].mode # job[p].mode
    BY <1>1, <1>2, <2>1 DEF OneWriterPerMode, Busy, Executing
  <2> QED
    BY <1>1, <1>2, <2>2, AppliedPrices
<1> QED
  BY <1>1, <1>2, AccountSteps DEF Dashboard, DashboardArchive, DashboardCreate

--------------------------------------------------------------------------------
(* Replacements.  Until the create of a replacement lands, all that is left *)
(* to do under its key is the archive, and it names the Price that holds    *)
(* the key.                                                                 *)

Creates(call) == call.kind = "replace_price" /\ call.verb = "create"

PairHeld(p, c) ==
    /\ \A d \in job[p].todo : d.key = c.key /\ d # c =>
          d.verb = "archive" /\ Holders(job[p].mode, c.key) \subseteq {d.price}
    /\ \E d \in job[p].todo : d.key = c.key /\ d # c

RequestPairs(p) ==
    pc[p] \in Busy =>
        /\ \A c \in job[p].todo : Creates(c) =>
              /\ PairHeld(p, c)
              /\ pc[p] \in {"calling", "replied"} => job[p].call.key # c.key
        /\ pc[p] = "calling" /\ Creates(job[p].call) => PairHeld(p, job[p].call)

Pairs == \A p \in Publishers : RequestPairs(p)

PairInv == EvidenceInv /\ UniqueHolders /\ Pairs

LEMMA OthersPairs ==
    ASSUME NEW p \in Publishers, RequestPairs(p), pc'[p] = pc[p], job'[p] = job[p],
           pc[p] \in Busy => stripe'[job[p].mode] = stripe[job[p].mode]
    PROVE  RequestPairs(p)'
<1> SUFFICES ASSUME pc[p] \in Busy PROVE RequestPairs(p)'
  BY DEF RequestPairs
<1>1. \A k : Holders(job[p].mode, k)' = Holders(job[p].mode, k)
  BY DEF Holders
<1>2. ASSUME NEW c, PairHeld(p, c) PROVE PairHeld(p, c)'
  BY <1>1, <1>2 DEF PairHeld
<1>3. ASSUME NEW c \in job[p].todo, Creates(c) PROVE PairHeld(p, c)'
  BY <1>2, <1>3 DEF RequestPairs
<1>4. PICK call : call = job[p].call
  OBVIOUS
<1>5. pc[p] = "calling" /\ Creates(call) => PairHeld(p, call)'
  BY <1>2, <1>4 DEF RequestPairs
<1>6. job'[p].call = call /\ job'[p].todo = job[p].todo
  BY <1>4
<1> QED
  BY <1>3, <1>4, <1>5, <1>6 DEF RequestPairs

LEMMA ReobservePairs ==
    ASSUME PairInv, NEW p \in Publishers, Reobserve(p)
    PROVE  RequestPairs(p)'
<1>0. PICK m : m = job[p].mode
  OBVIOUS
<1> DEFINE draft == rows[job[p].rev]
           observed == Observed(m)
           plan == BuildPublishPlan(draft, observed)
           next == [job[p] EXCEPT !.goal = draft, !.todo = plan]
<1>1. /\ pc \in [Publishers -> PcValues] /\ job \in [Publishers -> Jobs] /\ job[p] \in Jobs
      /\ m \in Modes /\ draft \in [Keys -> Coverages] /\ Observed(m) \in Observations
  BY <1>0, ObservedShape DEF PairInv, EvidenceInv, TypeInv, TypeOK, RequestsWellFormed, Reobserve
<1>2. job' = [job EXCEPT ![p] = next] /\ pc'[p] = "running" /\ UNCHANGED stripe
  BY <1>0, <1>1 DEF Reobserve, account
<1>3. next.todo = plan /\ next.mode = m
  BY <1>0, <1>1 DEF Jobs
<1> HIDE DEF next
<1>4. job'[p] = next
  BY <1>1, <1>2
<1>5. ASSUME NEW k \in StripeKeys(observed) PROVE Holders(m, k) = {observed[k].id}
  <2>1. k \in Keys /\ observed[k] # None
    BY <1>5 DEF StripeKeys
  <2>2. Holders(m, k) # {} /\ observed[k] = View(m, CHOOSE i \in Holders(m, k) : TRUE)
    BY <2>1 DEF Observed
  <2>3. observed[k].id \in Holders(m, k)
    BY <2>2 DEF View
  <2> QED
    BY <1>1, <2>1, <2>3 DEF PairInv, UniqueHolders
<1> HIDE DEF draft, observed
<1>6. ASSUME NEW c \in plan, Creates(c)
      PROVE  /\ \A d \in plan : d.key = c.key /\ d # c =>
                   d.verb = "archive" /\ Holders(m, c.key) \subseteq {d.price}
             /\ \E d \in plan : d.key = c.key /\ d # c
  <2>1. c.key \in StripeKeys(observed)
    BY <1>1, <1>6, PlanMeaning DEF Creates, ReplacedKeys, Matched, observed
  <2> QED
    BY <1>1, <1>5, <1>6, <2>1, ReplacePairs DEF Creates, observed
<1> HIDE DEF plan
<1>7. \A k : Holders(m, k)' = Holders(m, k)
  BY <1>2 DEF Holders
<1> QED
  BY <1>2, <1>3, <1>4, <1>6, <1>7 DEF RequestPairs, PairHeld

LEMMA RecordPairs ==
    ASSUME PairInv, NEW p \in Publishers, RecordOperation(p)
    PROVE  RequestPairs(p)'
<1>1. /\ pc \in [Publishers -> PcValues] /\ job \in [Publishers -> Jobs] /\ job[p] \in Jobs
      /\ pc[p] = "running" /\ RequestPairs(p)
  BY DEF PairInv, EvidenceInv, TypeInv, TypeOK, Pairs, RecordOperation
<1>2. PICK call \in NextCalls(job[p].todo) :
         job' = [job EXCEPT ![p].call = call, ![p].todo = @ \ {call}]
  BY DEF RecordOperation
<1>0. PICK todo, m : todo = job[p].todo /\ m = job[p].mode
  OBVIOUS
<1> DEFINE next == [job[p] EXCEPT !.call = call, !.todo = @ \ {call}]
<1>3. next.call = call /\ next.todo = todo \ {call} /\ next.mode = m
  BY <1>0, <1>1 DEF Jobs
<1>4. job' = [job EXCEPT ![p] = next] /\ pc'[p] = "calling" /\ UNCHANGED stripe
  BY <1>1, <1>2 DEF RecordOperation, account
<1> HIDE DEF next
<1>5. job'[p] = next
  BY <1>1, <1>4
<1>6. call \in todo /\ \A other \in todo : ~Precedes(other, call)
  BY <1>0 DEF NextCalls
<1>7. ASSUME NEW c \in todo, Creates(c)
      PROVE  /\ \A d \in todo : d.key = c.key /\ d # c =>
                   d.verb = "archive" /\ Holders(m, c.key)' \subseteq {d.price}
             /\ \E d \in todo : d.key = c.key /\ d # c
  BY <1>0, <1>1, <1>4, <1>7 DEF RequestPairs, PairHeld, Busy, Holders
<1>8. ASSUME NEW c \in todo, Creates(c), call # c PROVE call.key # c.key
  <2>1. ASSUME call.key = c.key PROVE Precedes(c, call)
    <3>1. call.verb = "archive"
      BY <1>6, <1>7, <1>8, <2>1
    <3>2. call.kind # "create_product"
      BY <1>0, <1>1, <1>6, <3>1 DEF PairInv, EvidenceInv, TypeInv, RequestsWellFormed, WellFormed
    <3> QED
      BY <1>8, <2>1, <3>1, <3>2 DEF Creates, Precedes, Stage
  <2> QED
    BY <1>6, <1>8, <2>1
<1>9. ASSUME NEW c \in todo, Creates(c)
      PROVE  PairHeld(p, c)'
  <2>1. \A d \in next.todo : d.key = c.key /\ d # c =>
           d.verb = "archive" /\ Holders(m, c.key)' \subseteq {d.price}
    BY <1>3, <1>7, <1>9
  <2>2. \E d \in next.todo : d.key = c.key /\ d # c
    BY <1>3, <1>7, <1>8, <1>9
  <2> QED
    BY <1>3, <1>5, <2>1, <2>2 DEF PairHeld
<1> QED
  BY <1>3, <1>4, <1>5, <1>6, <1>8, <1>9 DEF RequestPairs

LEMMA SkipPairs ==
    ASSUME PairInv, NEW p \in Publishers, OperationSkipped(p)
    PROVE  RequestPairs(p)'
<1>1. /\ pc \in [Publishers -> PcValues] /\ job \in [Publishers -> Jobs] /\ job[p] \in Jobs
      /\ pc[p] = "running" /\ RequestPairs(p)
  BY DEF PairInv, EvidenceInv, TypeInv, TypeOK, Pairs, OperationSkipped
<1>2. PICK call \in NextCalls(job[p].todo) :
         job' = [job EXCEPT ![p].failed = TRUE,
                            ![p].todo = @ \ ({call} \cup FollowUp(@, call))]
  BY DEF OperationSkipped
<1>0. PICK todo, m : todo = job[p].todo /\ m = job[p].mode
  OBVIOUS
<1> DEFINE next == [job[p] EXCEPT !.failed = TRUE,
                                  !.todo = @ \ ({call} \cup FollowUp(@, call))]
<1>3. next.todo = todo \ ({call} \cup FollowUp(todo, call)) /\ next.mode = m
  BY <1>0, <1>1 DEF Jobs
<1>4. job' = [job EXCEPT ![p] = next] /\ pc'[p] = "running" /\ UNCHANGED stripe
  BY <1>1, <1>2 DEF OperationSkipped, account
<1> HIDE DEF next
<1>5. job'[p] = next
  BY <1>1, <1>4
<1>6. call \in todo /\ \A other \in todo : ~Precedes(other, call)
  BY <1>0 DEF NextCalls
<1>7. ASSUME NEW c \in todo, Creates(c)
      PROVE  /\ \A d \in todo : d.key = c.key /\ d # c =>
                   d.verb = "archive" /\ Holders(m, c.key)' \subseteq {d.price}
             /\ \E d \in todo : d.key = c.key /\ d # c
  BY <1>0, <1>1, <1>4, <1>7 DEF RequestPairs, PairHeld, Busy, Holders
<1>8. ASSUME NEW c \in todo, Creates(c), call # c PROVE call.key # c.key
  <2>1. ASSUME call.key = c.key PROVE Precedes(c, call)
    <3>1. call.verb = "archive"
      BY <1>6, <1>7, <1>8, <2>1
    <3>2. call.kind # "create_product"
      BY <1>0, <1>1, <1>6, <3>1 DEF PairInv, EvidenceInv, TypeInv, RequestsWellFormed, WellFormed
    <3> QED
      BY <1>8, <2>1, <3>1, <3>2 DEF Creates, Precedes, Stage
  <2> QED
    BY <1>6, <1>8, <2>1
<1>9. ASSUME NEW c \in next.todo, Creates(c)
      PROVE  PairHeld(p, c)'
  <2>0. c \in todo /\ call.key # c.key
    BY <1>3, <1>8, <1>9
  <2>1. \A d \in next.todo : d.key = c.key /\ d # c =>
           d.verb = "archive" /\ Holders(m, c.key)' \subseteq {d.price}
    BY <1>3, <1>7, <1>9, <2>0
  <2>2. PICK d \in todo : d.key = c.key /\ d # c
    BY <1>7, <1>9, <2>0
  <2>3. d \in next.todo
    BY <1>3, <2>0, <2>2 DEF FollowUp
  <2> QED
    BY <1>3, <1>5, <2>1, <2>2, <2>3 DEF PairHeld
<1> QED
  BY <1>3, <1>4, <1>5, <1>9 DEF RequestPairs

\* The call under way is about another key than the creates still to come.
LEMMA ReplyPairs ==
    ASSUME PairInv, NEW p \in Publishers, NEW reply, StripeReplies(p, reply),
           StripeApplies(p) \/ UNCHANGED account
    PROVE  RequestPairs(p)'
<1>1. /\ pc \in [Publishers -> PcValues] /\ job \in [Publishers -> Jobs] /\ job[p] \in Jobs
      /\ pc[p] = "calling" /\ RequestPairs(p) /\ TypeInv
  BY DEF PairInv, EvidenceInv, TypeInv, TypeOK, Pairs, StripeReplies
<1>0. PICK todo, m, call : todo = job[p].todo /\ m = job[p].mode /\ call = job[p].call
  OBVIOUS
<1> DEFINE next == [job[p] EXCEPT !.reply = reply]
<1>3. next.todo = todo /\ next.mode = m /\ next.call = call
  BY <1>0, <1>1 DEF Jobs
<1>4. job' = [job EXCEPT ![p] = next] /\ pc'[p] = "replied"
  BY <1>1 DEF StripeReplies
<1> HIDE DEF next
<1>5. job'[p] = next
  BY <1>1, <1>4
<1>6. ASSUME NEW c \in todo, Creates(c)
      PROVE  /\ \A d \in todo : d.key = c.key /\ d # c =>
                   d.verb = "archive" /\ Holders(m, c.key) \subseteq {d.price}
             /\ \E d \in todo : d.key = c.key /\ d # c
             /\ call.key # c.key
  BY <1>0, <1>1, <1>6 DEF RequestPairs, PairHeld, Busy
<1>7. ASSUME NEW c \in todo, Creates(c) PROVE Holders(m, c.key)' \subseteq Holders(m, c.key)
  <2>1. CASE UNCHANGED account
    BY <2>1 DEF account, Holders
  <2>2. CASE StripeApplies(p)
    <3>1. c.key \in Keys
      BY <1>0, <1>1, <1>7 DEF Jobs, Calls
    <3> QED
      BY <1>0, <1>1, <1>6, <1>7, <2>2, <3>1, HoldersMove DEF Makes
  <2> QED
    BY <2>1, <2>2
<1>8. ASSUME NEW c \in todo, Creates(c) PROVE PairHeld(p, c)'
  BY <1>3, <1>5, <1>6, <1>7, <1>8 DEF PairHeld
<1> QED
  BY <1>3, <1>4, <1>5, <1>6, <1>8 DEF RequestPairs

LEMMA CompletePairs ==
    ASSUME PairInv, NEW p \in Publishers, CompleteOperation(p)
    PROVE  RequestPairs(p)'
<1>1. /\ pc \in [Publishers -> PcValues] /\ job \in [Publishers -> Jobs] /\ job[p] \in Jobs
      /\ pc[p] = "replied" /\ RequestPairs(p)
  BY DEF PairInv, EvidenceInv, TypeInv, TypeOK, Pairs, CompleteOperation
<1>0. PICK todo, m, call : todo = job[p].todo /\ m = job[p].mode /\ call = job[p].call
  OBVIOUS
<1> DEFINE lost == job[p].reply = "failed"
           next == [job[p] EXCEPT !.failed = @ \/ lost,
                                  !.todo = IF lost THEN @ \ FollowUp(@, job[p].call) ELSE @,
                                  !.call = None, !.reply = "none"]
<1>3. /\ next.mode = m /\ next.todo \subseteq todo
      /\ \A d \in todo \ next.todo : d.key = call.key
  BY <1>0, <1>1 DEF Jobs, FollowUp
<1>4. job' = [job EXCEPT ![p] = next] /\ pc'[p] = "running" /\ UNCHANGED stripe
  BY <1>1 DEF CompleteOperation, account
<1> HIDE DEF next
<1>5. job'[p] = next
  BY <1>1, <1>4
<1>6. ASSUME NEW c \in todo, Creates(c)
      PROVE  /\ \A d \in todo : d.key = c.key /\ d # c =>
                   d.verb = "archive" /\ Holders(m, c.key)' \subseteq {d.price}
             /\ \E d \in todo : d.key = c.key /\ d # c
             /\ call.key # c.key
  BY <1>0, <1>1, <1>4, <1>6 DEF RequestPairs, PairHeld, Busy, Holders
<1>7. ASSUME NEW c \in next.todo, Creates(c) PROVE PairHeld(p, c)'
  <2>1. PICK d \in todo : d.key = c.key /\ d # c
    BY <1>3, <1>6, <1>7
  <2>2. d \in next.todo
    BY <1>3, <1>6, <1>7, <2>1
  <2> QED
    BY <1>3, <1>5, <1>6, <1>7, <2>1, <2>2 DEF PairHeld
<1> QED
  BY <1>4, <1>5, <1>7 DEF RequestPairs

LEMMA NextPairs ==
    ASSUME PairInv, [Next]_vars, "dashboard" \notin Events
    PROVE  PairInv'
<1>1. EvidenceInv' /\ UniqueHolders'
  BY NextEvidence, NextUnique DEF PairInv, EvidenceInv
<1>2. ASSUME NEW q \in Publishers PROVE RequestPairs(q)'
  <2>0. /\ RequestPairs(q) /\ EvidenceInv
        /\ pc \in [Publishers -> PcValues] /\ job \in [Publishers -> Jobs]
    BY DEF PairInv, Pairs, EvidenceInv, TypeInv, TypeOK
  <2>1. CASE pc'[q] = pc[q] /\ job'[q] = job[q]
    <3>1. pc[q] \in Busy => stripe'[job[q].mode] = stripe[job[q].mode]
      BY <2>0, <2>1, AccountStandsStill
    <3> QED
      BY <2>0, <2>1, <3>1, OthersPairs
  <2>2. CASE pc'[q] \notin Busy
    BY <2>2 DEF RequestPairs
  <2>3. CASE ~(pc'[q] = pc[q] /\ job'[q] = job[q]) /\ pc'[q] \in Busy
    <3>1. CASE Draft \/ Dashboard \/ UNCHANGED vars
      BY <2>3, <3>1 DEF Draft, CreateDraftFrom, DiscardDraft, EditCheck, EditWrite,
                        Dashboard, DashboardArchive, DashboardCreate, vars
    <3>2. ASSUME NEW p \in Publishers, Submit(p) \/ CompletionFails(p) \/ Crash(p) PROVE FALSE
      BY <2>0, <2>3, <3>2 DEF Submit, Review, Confirm, Refuse, StartPublishAttempt, StartRefused,
                              CompletionFails, Crash, Busy
    <3>3. ASSUME NEW p \in Publishers, Execute(p) PROVE RequestPairs(q)'
      <4>1. p = q
        BY <2>0, <2>3, <3>3, OneAtATime
      <4>2. CASE ReobserveMoved(q) \/ FinishAborted(q) \/ FinishPublish(q) \/ PromotePublication(q)
        BY <2>0, <2>3, <4>2 DEF ReobserveMoved, FinishAborted, FinishPublish, PromotePublication, Busy
      <4>3. CASE StripeAnswers(q) \/ StripeReplyLost(q) \/ StripeRefuses(q)
        BY <4>3, ReplyPairs DEF StripeAnswers, StripeReplyLost, StripeRefuses
      <4> QED
        BY <3>3, <4>1, <4>2, <4>3, ReobservePairs, RecordPairs, SkipPairs, CompletePairs DEF Execute
    <3> QED
      BY <3>1, <3>2, <3>3 DEF Next
  <2> QED
    BY <2>1, <2>2, <2>3
<1> QED
  BY <1>1, <1>2 DEF PairInv, Pairs

--------------------------------------------------------------------------------
(* How a step writes to an attempt.                                        *)

SameCall(row, now) ==
    now.kind = row.kind /\ now.verb = row.verb /\ now.key = row.key /\ now.price = row.price

Writes(p) == FinishAborted(p) \/ FinishPublish(p) \/ RecordOperation(p) \/ CompleteOperation(p)

LEMMA AttemptStep ==
    ASSUME EvidenceInv, [Next]_vars, NEW a \in DOMAIN attempts'
    PROVE  \/ a \in DOMAIN attempts /\ attempts'[a] = attempts[a]
           \/ a \notin DOMAIN attempts /\ attempts'[a].log = <<>>
           \/ /\ a \in DOMAIN attempts
              /\ \E p \in Publishers : pc[p] \in Executing /\ job[p].attempt = a /\ Writes(p)
<1>1. attempts \in Seq(Attempts)
  BY DEF EvidenceInv, TypeInv, TypeOK
<1>2. CASE UNCHANGED attempts
  BY <1>2
<1>3. ASSUME NEW p \in Publishers, StartPublishAttempt(p)
      PROVE  \/ a \in DOMAIN attempts /\ attempts'[a] = attempts[a]
             \/ a \notin DOMAIN attempts /\ attempts'[a].log = <<>>
  <2> DEFINE new == [rev |-> job[p].rev, mode |-> job[p].mode, fingerprint |-> job[p].confirmed,
                     outcome |-> "open", log |-> <<>>]
  <2>1. attempts' = Append(attempts, new) /\ new.log = <<>>
    BY <1>3 DEF StartPublishAttempt
  <2> HIDE DEF new
  <2> QED
    BY <1>1, <2>1
<1>4. ASSUME NEW p \in Publishers, Writes(p)
      PROVE  /\ pc[p] \in Executing /\ a \in DOMAIN attempts
             /\ job[p].attempt # a => attempts'[a] = attempts[a]
  <2>0. pc[p] \in Executing
    BY <1>4 DEF Writes, FinishAborted, FinishPublish, RecordOperation, CompleteOperation, Executing
  <2>1. PICK attempt : attempts' = [attempts EXCEPT ![job[p].attempt] = attempt]
    <3>1. CASE FinishAborted(p)
      BY <3>1 DEF FinishAborted
    <3>2. CASE FinishPublish(p)
      BY <3>2 DEF FinishPublish
    <3>3. CASE RecordOperation(p)
      BY <3>3 DEF RecordOperation
    <3>4. CASE CompleteOperation(p)
      BY <3>4 DEF CompleteOperation
    <3> QED
      BY <1>4, <3>1, <3>2, <3>3, <3>4 DEF Writes
  <2> QED
    BY <1>1, <2>0, <2>1
<1>5. CASE Draft \/ Dashboard \/ UNCHANGED vars
  BY <1>2, <1>5 DEF Draft, CreateDraftFrom, DiscardDraft, EditCheck, EditWrite,
                    Dashboard, DashboardArchive, DashboardCreate, vars
<1>6. ASSUME NEW p \in Publishers,
             \/ (\E r \in Revisions, m \in Modes : Review(p, r, m)) \/ Confirm(p) \/ Refuse(p)
             \/ StartRefused(p) \/ CompletionFails(p) \/ Crash(p)
      PROVE  UNCHANGED attempts
  BY <1>6 DEF Review, Confirm, Refuse, StartRefused, CompletionFails, Crash
<1>7. ASSUME NEW p \in Publishers,
             \/ Reobserve(p) \/ ReobserveMoved(p) \/ OperationSkipped(p) \/ StripeAnswers(p)
             \/ StripeReplyLost(p) \/ StripeRefuses(p) \/ PromotePublication(p)
      PROVE  UNCHANGED attempts
  BY <1>7 DEF Reobserve, ReobserveMoved, OperationSkipped, StripeAnswers, StripeReplyLost,
              StripeRefuses, StripeReplies, PromotePublication
<1> QED
  BY <1>2, <1>3, <1>4, <1>5, <1>6, <1>7 DEF Next, Submit, Execute, Writes

LEMMA FinishWrites ==
    ASSUME EvidenceInv, NEW p \in Publishers, FinishAborted(p) \/ FinishPublish(p),
           NEW a, a = job[p].attempt
    PROVE  /\ attempts'[a].log = attempts[a].log /\ attempts'[a].mode = attempts[a].mode
           /\ FinishPublish(p) => attempts'[a].outcome = Outcome(p)
<1>1. a \in DOMAIN attempts /\ attempts[a] \in Attempts
  BY DEF EvidenceInv, TypeInv, TypeOK, LeaseHeld, FinishAborted, FinishPublish, Executing
<1>2. \A outcome : LET closed == [attempts[a] EXCEPT !.outcome = outcome]
                   IN  /\ closed.log = attempts[a].log /\ closed.mode = attempts[a].mode
                       /\ closed.outcome = outcome
  BY <1>1 DEF Attempts
<1>3. CASE FinishAborted(p)
  BY <1>1, <1>2, <1>3 DEF FinishAborted, FinishPublish
<1>4. CASE FinishPublish(p)
  BY <1>1, <1>2, <1>4 DEF FinishPublish
<1> QED
  BY <1>3, <1>4

\* What recordOperation does to the attempt a and to the request.
Recorded(p, a, call) ==
    LET log == attempts[a].log
        grown == attempts'[a].log
    IN  /\ job'[p].call = call /\ job'[p].todo = job[p].todo \ {call}
        /\ job'[p].failed = job[p].failed /\ job'[p].mode = job[p].mode
        /\ job'[p].attempt = a
        /\ Len(log) \in Nat /\ DOMAIN log = 1..Len(log)
        /\ Len(grown) = Len(log) + 1 /\ DOMAIN grown = 1..Len(log) + 1
        /\ \A n \in DOMAIN log : grown[n] = log[n]
        /\ grown[Len(log) + 1] = LogRow(call)
        /\ attempts'[a].mode = attempts[a].mode
        /\ attempts'[a].outcome = attempts[a].outcome

LEMMA RecordWrites ==
    ASSUME EvidenceInv, NEW p \in Publishers, RecordOperation(p), NEW a, a = job[p].attempt
    PROVE  \E call \in NextCalls(job[p].todo) : Recorded(p, a, call)
<1>1. /\ a \in DOMAIN attempts /\ attempts[a] \in Attempts
      /\ job \in [Publishers -> Jobs] /\ job[p] \in Jobs
  BY DEF EvidenceInv, TypeInv, TypeOK, LeaseHeld, RecordOperation, Executing
<1>2. PICK call \in NextCalls(job[p].todo) :
         /\ attempts' = [attempts EXCEPT ![job[p].attempt].log = Append(@, LogRow(call))]
         /\ job' = [job EXCEPT ![p].call = call, ![p].todo = @ \ {call}]
  BY DEF RecordOperation
<1> DEFINE log == attempts[a].log
           grown == Append(log, LogRow(call))
           attempt == [attempts[a] EXCEPT !.log = grown]
<1>3. attempts'[a] = attempt
  BY <1>1, <1>2
<1>4. /\ attempt.log = grown /\ attempt.mode = attempts[a].mode
      /\ attempt.outcome = attempts[a].outcome /\ log \in Seq(LogRows)
  BY <1>1 DEF Attempts
<1>5. /\ job'[p].call = call /\ job'[p].todo = job[p].todo \ {call}
      /\ job'[p].failed = job[p].failed /\ job'[p].mode = job[p].mode /\ job'[p].attempt = a
  BY <1>1, <1>2 DEF Jobs
<1>6. call \in Calls
  BY <1>1 DEF NextCalls, Jobs
<1>7. LogRow(call) \in LogRows
  BY <1>6, LogRowShape
<1> HIDE DEF attempt
<1>8. /\ Len(log) \in Nat /\ DOMAIN log = 1..Len(log)
      /\ Len(grown) = Len(log) + 1 /\ DOMAIN grown = 1..Len(log) + 1
      /\ \A n \in DOMAIN log : grown[n] = log[n]
      /\ grown[Len(log) + 1] = LogRow(call)
  <2> HIDE DEF log
  <2> QED
    BY <1>4, <1>7
<1> QED
  BY <1>3, <1>4, <1>5, <1>8 DEF Recorded

LEMMA CompleteWrites ==
    ASSUME EvidenceInv, NEW p \in Publishers, CompleteOperation(p), NEW a, a = job[p].attempt
    PROVE  LET log == attempts[a].log
               learnt == attempts'[a].log
           IN  /\ Len(log) \in Nat \ {0} /\ DOMAIN log = 1..Len(log)
               /\ Len(learnt) = Len(log) /\ DOMAIN learnt = 1..Len(log)
               /\ \A n \in 1..Len(log) - 1 : learnt[n] = log[n]
               /\ SameCall(log[Len(log)], learnt[Len(log)])
               /\ learnt[Len(log)].status = job[p].reply
               /\ attempts'[a].mode = attempts[a].mode
               /\ attempts'[a].outcome = attempts[a].outcome
<1>1. /\ a \in DOMAIN attempts /\ attempts[a] \in Attempts
      /\ job[p].reply \in {"succeeded", "failed"}
  BY DEF EvidenceInv, TypeInv, TypeOK, LeaseHeld, CompleteOperation, Executing, RequestsWellFormed
<1> DEFINE log == attempts[a].log
           row == [log[Len(log)] EXCEPT !.status = job[p].reply]
           learnt == [log EXCEPT ![Len(log)].status = job[p].reply]
           attempt == [attempts[a] EXCEPT !.log = learnt]
<1>2. attempts'[a] = attempt
  BY <1>1 DEF CompleteOperation, AttemptOf
<1>3. /\ attempt.log = learnt /\ attempt.mode = attempts[a].mode
      /\ attempt.outcome = attempts[a].outcome /\ log \in Seq(LogRows)
  BY <1>1 DEF Attempts
<1>4. log # <<>>
  BY DEF EvidenceInv, Evidence, RequestEvidence, CompleteOperation
<1>5. Len(log) \in DOMAIN log /\ log[Len(log)] \in LogRows
  BY <1>3, <1>4
<1>6. row \in LogRows /\ SameCall(log[Len(log)], row) /\ row.status = job[p].reply
  BY <1>1, <1>5 DEF LogRows, SameCall
<1>7. learnt = [log EXCEPT ![Len(log)] = row]
  BY <1>5
<1> HIDE DEF attempt, row, learnt, log
<1>8. /\ DOMAIN log = 1..Len(log) /\ Len(log) \in Nat \ {0}
      /\ DOMAIN learnt = 1..Len(log) /\ Len(learnt) = Len(log) /\ learnt[Len(log)] = row
      /\ \A n \in 1..Len(log) - 1 : learnt[n] = log[n]
  BY <1>3, <1>4, <1>6, <1>7, ReplaceLast
<1>9. attempts'[a].log = learnt
  BY <1>2, <1>3
<1> QED
  BY <1>2, <1>3, <1>6, <1>8, <1>9 DEF log

LEMMA AttemptsStay ==
    ASSUME EvidenceInv, [Next]_vars, NEW a \in DOMAIN attempts
    PROVE  a \in DOMAIN attempts'
<1>1. attempts \in Seq(Attempts)
  BY DEF EvidenceInv, TypeInv, TypeOK
<1>2. CASE UNCHANGED attempts
  BY <1>2
<1>3. ASSUME NEW p \in Publishers, Submit(p) PROVE a \in DOMAIN attempts'
  <2>1. UNCHANGED attempts \/ \E new : attempts' = Append(attempts, new)
    BY <1>3 DEF Submit, Review, Confirm, Refuse, StartPublishAttempt, StartRefused
  <2>2. ASSUME NEW new, attempts' = Append(attempts, new) PROVE a \in DOMAIN attempts'
    BY <1>1, <2>2
  <2> QED
    BY <1>2, <2>1, <2>2
<1>4. ASSUME NEW p \in Publishers, FinishAborted(p) \/ FinishPublish(p) PROVE a \in DOMAIN attempts'
  BY <1>4 DEF FinishAborted, FinishPublish
<1>5. ASSUME NEW p \in Publishers, RecordOperation(p) \/ CompleteOperation(p)
      PROVE  a \in DOMAIN attempts'
  BY <1>5 DEF RecordOperation, CompleteOperation
<1>6. ASSUME NEW p \in Publishers,
             \/ Reobserve(p) \/ ReobserveMoved(p) \/ OperationSkipped(p) \/ StripeAnswers(p)
             \/ StripeReplyLost(p) \/ StripeRefuses(p) \/ PromotePublication(p)
             \/ CompletionFails(p) \/ Crash(p)
      PROVE  UNCHANGED attempts
  BY <1>6 DEF Reobserve, ReobserveMoved, OperationSkipped, StripeAnswers, StripeReplyLost,
              StripeRefuses, StripeReplies, PromotePublication, CompletionFails, Crash
<1>7. CASE Draft \/ Dashboard \/ UNCHANGED vars
  BY <1>2, <1>7 DEF Draft, CreateDraftFrom, DiscardDraft, EditCheck, EditWrite,
                    Dashboard, DashboardArchive, DashboardCreate, vars
<1> QED
  BY <1>2, <1>3, <1>4, <1>5, <1>6, <1>7 DEF Next, Execute

\* A row, once written, names its call for ever.
LEMMA LogsGrow ==
    ASSUME EvidenceInv, [Next]_vars, NEW a \in DOMAIN attempts
    PROVE  /\ a \in DOMAIN attempts'
           /\ attempts'[a].mode = attempts[a].mode
           /\ \A n \in DOMAIN attempts[a].log :
                 /\ n \in DOMAIN attempts'[a].log
                 /\ SameCall(attempts[a].log[n], attempts'[a].log[n])
<1>1. a \in DOMAIN attempts'
  BY AttemptsStay
<1>2. CASE attempts'[a] = attempts[a]
  BY <1>1, <1>2 DEF SameCall
<1>3. ASSUME NEW p \in Publishers, job[p].attempt = a, Writes(p)
      PROVE  /\ attempts'[a].mode = attempts[a].mode
             /\ \A n \in DOMAIN attempts[a].log :
                   /\ n \in DOMAIN attempts'[a].log
                   /\ SameCall(attempts[a].log[n], attempts'[a].log[n])
  <2>1. CASE FinishAborted(p) \/ FinishPublish(p)
    BY <1>3, <2>1, FinishWrites DEF SameCall
  <2>2. CASE RecordOperation(p)
    <3> DEFINE log == attempts[a].log
               grown == attempts'[a].log
    <3>0. PICK call \in NextCalls(job[p].todo) : Recorded(p, a, call)
      BY <1>3, <2>2, RecordWrites
    <3>1. /\ Len(log) \in Nat /\ DOMAIN log = 1..Len(log) /\ DOMAIN grown = 1..Len(log) + 1
          /\ \A n \in DOMAIN log : grown[n] = log[n]
          /\ attempts'[a].mode = attempts[a].mode
      BY <3>0 DEF Recorded
    <3> HIDE DEF log, grown
    <3>2. \A n \in DOMAIN log : n \in DOMAIN grown /\ SameCall(log[n], grown[n])
      BY <3>1 DEF SameCall
    <3> QED
      BY <3>1, <3>2 DEF log, grown
  <2>3. CASE CompleteOperation(p)
    <3> DEFINE log == attempts[a].log
               learnt == attempts'[a].log
    <3>1. /\ Len(log) \in Nat \ {0} /\ DOMAIN log = 1..Len(log) /\ DOMAIN learnt = 1..Len(log)
          /\ \A n \in 1..Len(log) - 1 : learnt[n] = log[n]
          /\ SameCall(log[Len(log)], learnt[Len(log)])
          /\ attempts'[a].mode = attempts[a].mode
      BY <1>3, <2>3, CompleteWrites
    <3> HIDE DEF log, learnt
    <3>2. ASSUME NEW n \in DOMAIN log PROVE n \in DOMAIN learnt /\ SameCall(log[n], learnt[n])
      <4>1. n = Len(log) \/ n \in 1..Len(log) - 1
        BY <3>1
      <4> QED
        BY <3>1, <4>1 DEF SameCall
    <3> QED
      BY <3>1, <3>2 DEF log, learnt
  <2> QED
    BY <1>3, <2>1, <2>2, <2>3 DEF Writes
<1> QED
  BY <1>1, <1>2, <1>3, AttemptStep

--------------------------------------------------------------------------------
(* A row that says an archive succeeded is right: its Price is inactive.   *)

Hit(m, i) == i \in DOMAIN stripe[m] /\ ~stripe[m][i].active

RowsHit ==
    \A a \in DOMAIN attempts : \A n \in DOMAIN attempts[a].log :
        LET row == attempts[a].log[n]
        IN  row.verb = "archive" /\ row.status = "succeeded" => Hit(attempts[a].mode, row.price)

ReplyHits(p) ==
    pc[p] = "replied" /\ job[p].reply = "succeeded" /\ job[p].call.verb = "archive"
        => Hit(job[p].mode, job[p].call.price)

ArchivesHit == RowsHit /\ \A p \in Publishers : ReplyHits(p)

LEMMA HitStays ==
    ASSUME TypeInv, [Next]_vars, "dashboard" \notin Events,
           NEW m \in Modes, NEW i, Hit(m, i)
    PROVE  Hit(m, i)'
<1>1. stripe[m] \in Seq(Prices)
  BY DEF TypeInv, TypeOK
<1>2. CASE stripe'[m] = stripe[m]
  BY <1>2 DEF Hit
<1>3. ASSUME NEW p \in Publishers, pc[p] = "calling", StripeApplies(p), m = job[p].mode
      PROVE  Hit(m, i)'
  <2>1. job[p].call \in Calls /\ stripe'[m] = StripeAfter(stripe[m], job[p].call)
    BY <1>3, AppliedPrices
  <2>2. i \in DOMAIN stripe'[m]
    BY KeysOnlyFade DEF KeysFade, Hit
  <2>3. ~stripe'[m][i].active
    BY <1>1, <2>1, NoneWakes DEF Hit
  <2> QED
    BY <2>2, <2>3 DEF Hit
<1>4. ASSUME NEW p \in Publishers, pc[p] = "calling", StripeApplies(p), m # job[p].mode
      PROVE  stripe'[m] = stripe[m]
  BY <1>4, AppliedPrices
<1> QED
  BY <1>2, <1>3, <1>4, AccountSteps DEF Dashboard, DashboardArchive, DashboardCreate

\* Stripe answers an archive: its Price has just become inactive.
LEMMA AnswerHits ==
    ASSUME AimInv, NEW p \in Publishers, StripeAnswers(p)
    PROVE  ReplyHits(p)'
<1>0. PICK m, call : m = job[p].mode /\ call = job[p].call
  OBVIOUS
<1>1. /\ pc[p] = "calling" /\ StripeApplies(p) /\ TypeInv /\ RequestAimed(p)
      /\ job \in [Publishers -> Jobs] /\ job[p] \in Jobs /\ m \in Modes
  BY <1>0 DEF AimInv, TypeInv, TypeOK, RequestsWellFormed, ArchivesAimed, StripeAnswers, StripeReplies
<1>2. job'[p].mode = m /\ job'[p].call = call
  BY <1>0, <1>1 DEF StripeAnswers, StripeReplies, Jobs
<1>3. ASSUME call.verb = "archive" PROVE Hit(m, call.price)'
  <2>1. /\ call \in Calls /\ stripe[m] \in Seq(Prices) /\ stripe'[m] = StripeAfter(stripe[m], call)
    BY <1>0, <1>1, AppliedPrices
  <2>2. call.price \in DOMAIN stripe[m] /\ call.kind # "create_product"
    BY <1>0, <1>1, <1>3 DEF RequestAimed, Aimed, Busy, TypeInv, RequestsWellFormed, WellFormed
  <2>3. stripe[m][call.price] \in Prices
    BY <2>1, <2>2
  <2>4. stripe'[m][call.price] = UpdatedPrice(stripe[m][call.price], call)
    BY <1>3, <2>1, <2>2, OthersTouchOne
  <2>5. call.price \in DOMAIN stripe'[m]
    BY <1>3, <2>1, <2>2, OthersKeepLength
  <2> QED
    BY <1>3, <2>3, <2>4, <2>5 DEF Hit, UpdatedPrice, Prices
<1> QED
  BY <1>2, <1>3 DEF ReplyHits

LEMMA NextReplyHits ==
    ASSUME AimInv, [Next]_vars, "dashboard" \notin Events, NEW q \in Publishers, ReplyHits(q)
    PROVE  ReplyHits(q)'
<1>0. /\ TypeInv /\ pc \in [Publishers -> PcValues] /\ job \in [Publishers -> Jobs]
      /\ job[q] \in Jobs
  BY DEF AimInv, TypeInv, TypeOK
<1>1. CASE pc'[q] = pc[q] /\ job'[q] = job[q]
  <2>1. ASSUME pc[q] = "replied" PROVE job[q].mode \in Modes
    BY <1>0, <2>1 DEF TypeInv, RequestsWellFormed
  <2>2. PICK m, i : m = job[q].mode /\ i = job[q].call.price
    OBVIOUS
  <2>3. pc[q] = "replied" /\ Hit(m, i) => Hit(m, i)'
    BY <1>0, <2>1, <2>2, HitStays
  <2>4. job'[q].mode = m /\ job'[q].call.price = i
    BY <1>1, <2>2
  <2> QED
    BY <1>1, <2>2, <2>3, <2>4 DEF ReplyHits
<1>2. CASE pc'[q] # "replied"
  BY <1>2 DEF ReplyHits
<1>3. CASE ~(pc'[q] = pc[q] /\ job'[q] = job[q]) /\ pc'[q] = "replied"
  <2>1. CASE Draft \/ Dashboard \/ UNCHANGED vars
    BY <1>3, <2>1 DEF Draft, CreateDraftFrom, DiscardDraft, EditCheck, EditWrite,
                      Dashboard, DashboardArchive, DashboardCreate, vars
  <2>2. ASSUME NEW p \in Publishers, Submit(p) \/ CompletionFails(p) \/ Crash(p) PROVE FALSE
    BY <1>0, <1>3, <2>2 DEF Submit, Review, Confirm, Refuse, StartPublishAttempt, StartRefused,
                            CompletionFails, Crash
  <2>3. ASSUME NEW p \in Publishers, Execute(p) PROVE ReplyHits(q)'
    <3>1. p = q
      BY <1>0, <1>3, <2>3, OneAtATime
    <3>2. CASE StripeReplyLost(q) \/ StripeRefuses(q)
      BY <1>0, <3>2 DEF StripeReplyLost, StripeRefuses, StripeReplies, ReplyHits, Jobs
    <3>3. CASE ~(StripeReplyLost(q) \/ StripeRefuses(q) \/ StripeAnswers(q))
      BY <1>0, <1>3, <2>3, <3>1, <3>3
         DEF Execute, Reobserve, ReobserveMoved, FinishAborted, RecordOperation, OperationSkipped,
             CompleteOperation, FinishPublish, PromotePublication
    <3> QED
      BY <3>1, <3>2, <3>3, AnswerHits
  <2> QED
    BY <2>1, <2>2, <2>3 DEF Next
<1> QED
  BY <1>1, <1>2, <1>3

LEMMA NextRowsHit ==
    ASSUME EvidenceInv, ArchivesHit, [Next]_vars, "dashboard" \notin Events
    PROVE  RowsHit'
<1> SUFFICES ASSUME NEW a \in DOMAIN attempts', NEW n \in DOMAIN attempts'[a].log,
                    NEW m, m = attempts'[a].mode, NEW row, row = attempts'[a].log[n],
                    row.verb = "archive", row.status = "succeeded"
             PROVE  Hit(m, row.price)'
  BY DEF RowsHit, Hit
<1>1. row = attempts'[a].log[n] /\ m = attempts'[a].mode
  OBVIOUS
<1>3. ASSUME a \in DOMAIN attempts, n \in DOMAIN attempts[a].log,
             attempts[a].log[n] = row, attempts[a].mode = m
      PROVE  Hit(m, row.price)'
  <2>0. attempts \in Seq(Attempts)
    BY DEF EvidenceInv, TypeInv, TypeOK
  <2>1. m \in Modes
    <3>1. attempts[a] \in Attempts
      BY <1>3, <2>0
    <3> QED
      BY <1>3, <3>1 DEF Attempts
  <2>2. Hit(m, row.price)
    BY <1>1, <1>3 DEF ArchivesHit, RowsHit
  <2> QED
    BY <2>1, <2>2, HitStays DEF EvidenceInv
<1>4. CASE a \in DOMAIN attempts /\ attempts'[a] = attempts[a]
  BY <1>1, <1>3, <1>4
<1>5. CASE a \notin DOMAIN attempts /\ attempts'[a].log = <<>>
  BY <1>5
<1>6. ASSUME a \in DOMAIN attempts, NEW p \in Publishers, pc[p] \in Executing,
             job[p].attempt = a, Writes(p)
      PROVE  Hit(m, row.price)'
  <2>1. CASE FinishAborted(p) \/ FinishPublish(p)
    BY <1>1, <1>3, <1>6, <2>1, FinishWrites
  <2>2. CASE RecordOperation(p)
    <3>1. PICK call \in NextCalls(job[p].todo) : Recorded(p, a, call)
      BY <1>6, <2>2, RecordWrites
    <3>2. LogRow(call).status = "pending"
      BY DEF LogRow, Row
    <3>3. n \in DOMAIN attempts[a].log
      BY <1>1, <3>1, <3>2 DEF Recorded
    <3> QED
      BY <1>1, <1>3, <1>6, <3>1, <3>3 DEF Recorded
  <2>3. CASE CompleteOperation(p)
    <3> DEFINE log == attempts[a].log
               learnt == attempts'[a].log
    <3>1. /\ Len(log) \in Nat \ {0} /\ DOMAIN log = 1..Len(log) /\ DOMAIN learnt = 1..Len(log)
          /\ \A l \in 1..Len(log) - 1 : learnt[l] = log[l]
          /\ SameCall(log[Len(log)], learnt[Len(log)])
          /\ learnt[Len(log)].status = job[p].reply
          /\ attempts'[a].mode = attempts[a].mode
      BY <1>6, <2>3, CompleteWrites
    <3>2. CASE n # Len(log)
      <4> HIDE DEF log, learnt
      <4>1. n \in 1..Len(log) - 1 /\ n \in DOMAIN log /\ log[n] = row
        BY <1>1, <3>1, <3>2 DEF learnt
      <4> QED
        BY <1>1, <1>3, <1>6, <3>1, <4>1 DEF log
    <3>3. CASE n = Len(log)
      <4>1. log[Len(log)] = LogRow(job[p].call) /\ pc[p] = "replied"
        BY <1>6, <2>3 DEF CompleteOperation, EvidenceInv, Evidence, RequestEvidence
      <4>2. job[p].call.verb = "archive" /\ job[p].call.price = row.price /\ job[p].reply = "succeeded"
        BY <1>1, <3>1, <3>3, <4>1 DEF SameCall, LogRow, Row
      <4>3. job[p].mode = m /\ m \in Modes
        BY <1>1, <1>6, <3>1 DEF EvidenceInv, LeaseHeld, TypeInv, RequestsWellFormed, Executing
      <4>4. Hit(m, row.price)
        BY <4>1, <4>2, <4>3 DEF ArchivesHit, ReplyHits
      <4> QED
        BY <4>3, <4>4, HitStays DEF EvidenceInv
    <3> QED
      BY <3>2, <3>3
  <2> QED
    BY <1>6, <2>1, <2>2, <2>3 DEF Writes
<1> QED
  BY <1>4, <1>5, <1>6, AttemptStep

--------------------------------------------------------------------------------
(* What is left behind.  An orphan is explained by a row of the create that *)
(* replaced it: a row of the same attempt names it in an archive, or the    *)
(* archive was never recorded, and then either it is still to be made or    *)
(* the attempt cannot succeed.                                              *)

ToFollow(p, k, i) ==
    /\ \A d \in job[p].todo : d.key = k => d.verb = "archive" /\ d.price = i
    /\ \/ job[p].failed
       \/ pc[p] = "replied" /\ job[p].reply = "failed"
       \/ \E d \in job[p].todo : d.key = k

Named(a, i) ==
    \E l \in DOMAIN attempts[a].log :
        attempts[a].log[l].verb = "archive" /\ attempts[a].log[l].price = i

Unfollowed(a, n, i) ==
    /\ \A l \in DOMAIN attempts[a].log :
          l > n => attempts[a].log[l].key # attempts[a].log[n].key
    /\ attempts[a].outcome \in {"open", "failed"}
    /\ \A p \in Publishers : pc[p] \in Executing /\ job[p].attempt = a
          => ToFollow(p, attempts[a].log[n].key, i)

Explained(a, n, i) ==
    /\ n \in DOMAIN attempts[a].log
    /\ Creates(attempts[a].log[n])
    /\ Named(a, i) \/ Unfollowed(a, n, i)

OrphansExplained ==
    \A m \in Modes : \A i \in Orphans(m) :
        \E a \in DOMAIN attempts : attempts[a].mode = m /\ \E n : Explained(a, n, i)

\* A request whose attempt has recorded a create has got past the observation.
LEMMA WrittenMeansBusy ==
    ASSUME EvidenceInv, NEW p \in Publishers, pc[p] \in Executing,
           NEW n \in DOMAIN attempts[job[p].attempt].log
    PROVE  pc[p] \in Busy
  BY DEF EvidenceInv, Evidence, RequestEvidence, Executing, Busy

\* Whoever holds the attempt goes on owing the archive, records it or fails.
LEMMA OwnerFollows ==
    ASSUME EvidenceInv, [Next]_vars, NEW a \in DOMAIN attempts,
           NEW n \in DOMAIN attempts[a].log, NEW i, Unfollowed(a, n, i),
           NEW k, k = attempts[a].log[n].key,
           NEW q \in Publishers, pc'[q] \in Executing, job'[q].attempt = a
    PROVE  ToFollow(q, k, i)' \/ Named(a, i)'
<1>0. /\ pc \in [Publishers -> PcValues] /\ job \in [Publishers -> Jobs] /\ job[q] \in Jobs
      /\ attempts \in Seq(Attempts)
  BY DEF EvidenceInv, TypeInv, TypeOK
<1>1. ASSUME pc[q] \in Executing, job[q].attempt = a
      PROVE  ToFollow(q, k, i) /\ pc[q] \in Busy
  BY <1>1, WrittenMeansBusy DEF Unfollowed
<1>2. CASE pc'[q] = pc[q] /\ job'[q] = job[q]
  BY <1>1, <1>2 DEF ToFollow
<1>3. CASE ~(pc'[q] = pc[q] /\ job'[q] = job[q])
  <2>1. CASE Draft \/ Dashboard \/ UNCHANGED vars
    BY <1>3, <2>1 DEF Draft, CreateDraftFrom, DiscardDraft, EditCheck, EditWrite,
                      Dashboard, DashboardArchive, DashboardCreate, vars
  <2>2. ASSUME NEW p \in Publishers, Submit(p) \/ Execute(p) \/ CompletionFails(p) \/ Crash(p)
        PROVE  p = q
    BY <1>0, <1>3, <2>2, OneAtATime
  <2>3. CASE Submit(q) \/ CompletionFails(q) \/ Crash(q)
    <3>1. CASE StartPublishAttempt(q)
      <4>1. job'[q].attempt = Len(attempts) + 1
        BY <1>0, <3>1 DEF StartPublishAttempt, Jobs
      <4> QED
        BY <1>0, <4>1
    <3>2. CASE ~StartPublishAttempt(q)
      BY <1>0, <1>3, <2>3, <3>2 DEF Submit, Review, Confirm, Refuse, StartRefused,
                                    CompletionFails, Crash, Executing
    <3> QED
      BY <3>1, <3>2
  <2>4. CASE Reobserve(q) \/ ReobserveMoved(q)
    <3>1. pc[q] \in Executing /\ pc[q] \notin Busy
      BY <2>4 DEF Reobserve, ReobserveMoved, Executing, Busy
    <3>2. job'[q].attempt = job[q].attempt
      BY <1>0, <2>4 DEF Reobserve, ReobserveMoved, Jobs
    <3> QED
      BY <1>1, <3>1, <3>2
  <2>5. CASE FinishAborted(q) \/ FinishPublish(q) \/ PromotePublication(q)
    BY <1>0, <2>5 DEF FinishAborted, FinishPublish, PromotePublication, Executing
  <2>6. CASE RecordOperation(q)
    <3>1. PICK call \in NextCalls(job[q].todo) : Recorded(q, job[q].attempt, call)
      BY <2>6, RecordWrites
    <3>2. job[q].attempt = a /\ pc[q] = "running" /\ pc[q] \in Executing /\ call \in job[q].todo
      BY <2>6, <3>1 DEF Recorded, RecordOperation, Executing, NextCalls
    <3>3. CASE call.key = k
      <4>1. call.verb = "archive" /\ call.price = i
        BY <1>1, <3>2, <3>3 DEF ToFollow
      <4>2. LogRow(call).verb = "archive" /\ LogRow(call).price = i
        BY <4>1 DEF LogRow, Row
      <4> QED
        BY <3>1, <3>2, <4>2 DEF Recorded, Named
    <3>4. CASE call.key # k
      BY <1>1, <3>1, <3>2, <3>4 DEF Recorded, ToFollow
    <3> QED
      BY <3>3, <3>4
  <2>7. CASE OperationSkipped(q)
    <3>1. PICK call : job' = [job EXCEPT ![q].failed = TRUE,
                                         ![q].todo = @ \ ({call} \cup FollowUp(@, call))]
      BY <2>7 DEF OperationSkipped
    <3>2. job'[q].failed /\ job'[q].todo \subseteq job[q].todo /\ job[q].attempt = a
      BY <1>0, <3>1 DEF Jobs
    <3>3. pc[q] \in Executing
      BY <2>7 DEF OperationSkipped, Executing
    <3> QED
      BY <1>1, <3>2, <3>3 DEF ToFollow
  <2>8. CASE StripeAnswers(q) \/ StripeReplyLost(q) \/ StripeRefuses(q)
    <3>1. pc[q] = "calling" /\ pc[q] \in Executing
      BY <2>8 DEF StripeAnswers, StripeReplyLost, StripeRefuses, StripeReplies, Executing
    <3>2. /\ job'[q].todo = job[q].todo /\ job'[q].failed = job[q].failed
          /\ job'[q].attempt = job[q].attempt
      BY <1>0, <2>8 DEF StripeAnswers, StripeReplyLost, StripeRefuses, StripeReplies, Jobs
    <3> QED
      BY <1>1, <3>1, <3>2 DEF ToFollow
  <2>9. CASE CompleteOperation(q)
    <3>1. pc[q] = "replied" /\ pc[q] \in Executing
      BY <2>9 DEF CompleteOperation, Executing
    <3>2. /\ job'[q].todo \subseteq job[q].todo /\ job'[q].attempt = job[q].attempt
          /\ job'[q].failed = (job[q].failed \/ job[q].reply = "failed")
          /\ job[q].reply # "failed" => job'[q].todo = job[q].todo
      BY <1>0, <2>9 DEF CompleteOperation, Jobs
    <3> QED
      BY <1>1, <3>1, <3>2 DEF ToFollow
  <2> QED
    BY <2>1, <2>2, <2>3, <2>4, <2>5, <2>6, <2>7, <2>8, <2>9 DEF Next, Execute
<1> QED
  BY <1>2, <1>3

\* An attempt that owes an archive does not close as succeeded.
LEMMA OutcomeFollows ==
    ASSUME EvidenceInv, [Next]_vars, NEW a \in DOMAIN attempts,
           NEW n \in DOMAIN attempts[a].log, NEW i, Unfollowed(a, n, i)
    PROVE  attempts'[a].outcome \in {"open", "failed"}
<1>1. attempts[a].outcome \in {"open", "failed"}
  BY DEF Unfollowed
<1>2. ASSUME NEW p \in Publishers, pc[p] \in Executing, job[p].attempt = a, Writes(p)
      PROVE  attempts'[a].outcome \in {"open", "failed"}
  <2>1. pc[p] \in Busy /\ ToFollow(p, attempts[a].log[n].key, i)
    BY <1>2, WrittenMeansBusy DEF Unfollowed
  <2>2. ~FinishAborted(p)
    BY <2>1 DEF FinishAborted, Busy
  <2>3. CASE FinishPublish(p)
    <3>1. job[p].failed
      BY <2>1, <2>3 DEF FinishPublish, ToFollow
    <3> QED
      BY <1>2, <2>3, <3>1, FinishWrites DEF Outcome
  <2>4. CASE RecordOperation(p)
    <3>1. PICK call \in NextCalls(job[p].todo) : Recorded(p, a, call)
      BY <1>2, <2>4, RecordWrites
    <3> QED
      BY <1>1, <3>1 DEF Recorded
  <2>5. CASE CompleteOperation(p)
    <3>1. attempts'[a].outcome = attempts[a].outcome
      BY <1>2, <2>5, CompleteWrites
    <3> QED
      BY <1>1, <3>1
  <2> QED
    BY <1>2, <2>2, <2>3, <2>4, <2>5 DEF Writes
<1>3. a \in DOMAIN attempts'
  BY AttemptsStay
<1> QED
  BY <1>1, <1>2, <1>3, AttemptStep

LEMMA RowsFollow ==
    ASSUME EvidenceInv, [Next]_vars, NEW a \in DOMAIN attempts,
           NEW n \in DOMAIN attempts[a].log, NEW i, Unfollowed(a, n, i),
           NEW l \in DOMAIN attempts'[a].log, l > n
    PROVE  attempts'[a].log[l].key # attempts[a].log[n].key \/ Named(a, i)'
<1>1. a \in DOMAIN attempts' /\ attempts[a].log \in Seq(LogRows)
  <2>1. attempts \in Seq(Attempts)
    BY DEF EvidenceInv, TypeInv, TypeOK
  <2>2. attempts[a] \in Attempts
    BY <2>1
  <2> QED
    BY <2>2, AttemptsStay DEF Attempts
<1>2. ASSUME l \in DOMAIN attempts[a].log
      PROVE  attempts'[a].log[l].key # attempts[a].log[n].key
  <2>1. attempts'[a].log[l].key = attempts[a].log[l].key
    BY <1>2, LogsGrow DEF SameCall
  <2> QED
    BY <1>2, <2>1 DEF Unfollowed
<1>3. ASSUME NEW p \in Publishers, pc[p] \in Executing, job[p].attempt = a, Writes(p),
             l \notin DOMAIN attempts[a].log
      PROVE  attempts'[a].log[l].key # attempts[a].log[n].key \/ Named(a, i)'
  <2>1. CASE FinishAborted(p) \/ FinishPublish(p)
    BY <1>3, <2>1, FinishWrites
  <2>2. CASE RecordOperation(p)
    <3>1. PICK call \in NextCalls(job[p].todo) : Recorded(p, a, call)
      BY <1>3, <2>2, RecordWrites
    <3>2. attempts'[a].log[l] = LogRow(call) /\ call \in job[p].todo
      BY <1>3, <3>1 DEF Recorded, NextCalls
    <3>3. ToFollow(p, attempts[a].log[n].key, i)
      BY <1>3 DEF Unfollowed
    <3>4. LogRow(call).key = call.key /\ LogRow(call).verb = call.verb /\ LogRow(call).price = call.price
      BY DEF LogRow, Row
    <3> QED
      BY <3>2, <3>3, <3>4 DEF ToFollow, Named
  <2>3. CASE CompleteOperation(p)
    <3>1. DOMAIN attempts'[a].log = DOMAIN attempts[a].log
      BY <1>3, <2>3, CompleteWrites
    <3> QED
      BY <1>3, <3>1
  <2> QED
    BY <1>3, <2>1, <2>2, <2>3 DEF Writes
<1> QED
  BY <1>1, <1>2, <1>3, AttemptStep

LEMMA ExplainedStays ==
    ASSUME EvidenceInv, [Next]_vars, NEW a \in DOMAIN attempts, NEW n, NEW i, Explained(a, n, i)
    PROVE  Explained(a, n, i)'
<1>1. /\ n \in DOMAIN attempts[a].log /\ n \in DOMAIN attempts'[a].log
      /\ SameCall(attempts[a].log[n], attempts'[a].log[n])
  BY LogsGrow DEF Explained
<1>2. Creates(attempts'[a].log[n])
  BY <1>1 DEF Explained, Creates, SameCall
<1>3. CASE Named(a, i)
  <2>1. PICK l \in DOMAIN attempts[a].log :
           attempts[a].log[l].verb = "archive" /\ attempts[a].log[l].price = i
    BY <1>3 DEF Named
  <2>2. Named(a, i)'
    BY <2>1, LogsGrow DEF Named, SameCall
  <2> QED
    BY <1>1, <1>2, <2>2 DEF Explained, Creates
<1>4. CASE Unfollowed(a, n, i) /\ ~Named(a, i)'
  <2>1. PICK k : k = attempts[a].log[n].key /\ k = attempts'[a].log[n].key
    BY <1>1 DEF SameCall
  <2>2. \A l \in DOMAIN attempts'[a].log : l > n => attempts'[a].log[l].key # k
    BY <1>1, <1>4, <2>1, RowsFollow
  <2>3. attempts'[a].outcome \in {"open", "failed"}
    BY <1>1, <1>4, OutcomeFollows
  <2>4. ASSUME NEW q \in Publishers, pc'[q] \in Executing, job'[q].attempt = a
        PROVE  ToFollow(q, k, i)'
    BY <1>1, <1>4, <2>1, <2>4, OwnerFollows
  <2>5. Unfollowed(a, n, i)'
    BY <2>1, <2>2, <2>3, <2>4 DEF Unfollowed, ToFollow
  <2> QED
    BY <1>1, <1>2, <2>5 DEF Explained, Creates
<1> QED
  BY <1>1, <1>2, <1>3, <1>4 DEF Explained, Creates

\* A new orphan is the Price a replacement has just stripped of its key.
LEMMA OrphanIsReplaced ==
    ASSUME PairInv, [Next]_vars, "dashboard" \notin Events,
           NEW m \in Modes, NEW i \in Orphans(m)', i \notin Orphans(m)
    PROVE  \E p \in Publishers :
              /\ pc[p] = "calling" /\ pc' = [pc EXCEPT ![p] = "replied"]
              /\ job[p].mode = m /\ Creates(job[p].call)
              /\ i \in Holders(m, job[p].call.key)
<1>0. TypeInv /\ stripe[m] \in Seq(Prices) /\ \A k \in Keys : k # None
  BY NoneAssumption DEF PairInv, EvidenceInv, TypeInv, TypeOK
<1>1. i \in DOMAIN stripe'[m] /\ stripe'[m][i].active /\ stripe'[m][i].key = None
  BY DEF Orphans
<1>2. stripe'[m] # stripe[m]
  BY DEF Orphans
<1>3. PICK p \in Publishers : /\ pc[p] = "calling" /\ pc' = [pc EXCEPT ![p] = "replied"]
                              /\ StripeApplies(p)
  BY <1>0, <1>2, AccountSteps DEF Dashboard, DashboardArchive, DashboardCreate
<1>4. PICK call : call = job[p].call
  OBVIOUS
<1>5. /\ job[p].mode = m /\ call \in Calls /\ stripe'[m] = StripeAfter(stripe[m], call)
      /\ WellFormed(call) /\ Accepts(m, call)
  BY <1>0, <1>2, <1>3, <1>4, AppliedPrices DEF TypeInv, RequestsWellFormed, StripeApplies
<1>6. call.key \in Keys
  BY <1>5 DEF Calls
<1>7. i \in DOMAIN stripe[m]
  <2>1. CASE call.kind # "create_product" /\ call.verb = "create"
    <3> DEFINE after == StripeAfter(stripe[m], call)
    <3>0. /\ Len(after) = Len(stripe[m]) + 1 /\ DOMAIN after = 1..Len(after)
          /\ after[Len(after)] = [key |-> call.key, currency |-> call.currency,
                                  coverage |-> call.coverage, active |-> TRUE]
      BY <1>0, <1>5, <2>1, CreateAdds
    <3>1. /\ Len(stripe'[m]) = Len(stripe[m]) + 1 /\ DOMAIN stripe'[m] = 1..Len(stripe'[m])
          /\ stripe'[m][Len(stripe'[m])].key = call.key
      BY <1>5, <3>0
    <3>2. i # Len(stripe[m]) + 1
      BY <1>0, <1>1, <1>6, <3>1
    <3>3. Len(stripe[m]) \in Nat /\ DOMAIN stripe[m] = 1..Len(stripe[m])
      BY <1>0
    <3> QED
      BY <1>1, <3>1, <3>2, <3>3
  <2>2. CASE ~(call.kind # "create_product" /\ call.verb = "create")
    BY <1>0, <1>1, <1>5, <2>2, OthersKeepLength
  <2> QED
    BY <2>1, <2>2
<1>8. stripe[m][i].active
  BY <1>0, <1>1, <1>5, <1>7, NoneWakes
<1>9. stripe[m][i].key # None
  BY <1>7, <1>8 DEF Orphans
<1>10. call.kind # "create_product" /\ call.verb = "create" /\ stripe[m][i].key = call.key
  BY <1>0, <1>1, <1>5, <1>7, <1>9, OnlyCreatesStrip
<1>11. i \in Holders(m, call.key)
  BY <1>7, <1>8, <1>10 DEF Holders
<1>12. Creates(call)
  BY <1>5, <1>10, <1>11 DEF Creates, Accepts, WellFormed
<1> QED
  BY <1>3, <1>4, <1>5, <1>11, <1>12

\* Its attempt has just written the create, and still has the archive to make.
LEMMA NewOrphan ==
    ASSUME PairInv, [Next]_vars, "dashboard" \notin Events,
           NEW m \in Modes, NEW i \in Orphans(m)', i \notin Orphans(m)
    PROVE  \E a \in DOMAIN attempts' :
              attempts'[a].mode = m /\ \E n : Explained(a, n, i)'
<1>1. PICK p \in Publishers :
         /\ pc[p] = "calling" /\ pc' = [pc EXCEPT ![p] = "replied"]
         /\ job[p].mode = m /\ Creates(job[p].call) /\ i \in Holders(m, job[p].call.key)
  BY OrphanIsReplaced
<1>2. /\ EvidenceInv /\ RequestPairs(p) /\ RequestEvidence(p)
      /\ pc \in [Publishers -> PcValues] /\ job \in [Publishers -> Jobs]
      /\ job[p] \in Jobs /\ attempts \in Seq(Attempts)
  BY DEF PairInv, Pairs, EvidenceInv, Evidence, TypeInv, TypeOK
<1>3. PICK reply : StripeReplies(p, reply)
  <2>1. pc'[p] = "replied" /\ pc[p] = "calling"
    BY <1>1, <1>2
  <2>2. CASE Draft \/ Dashboard \/ UNCHANGED vars
    BY <2>1, <2>2 DEF Draft, CreateDraftFrom, DiscardDraft, EditCheck, EditWrite,
                      Dashboard, DashboardArchive, DashboardCreate, vars
  <2>3. ASSUME NEW q \in Publishers, Submit(q) \/ Execute(q) \/ CompletionFails(q) \/ Crash(q)
        PROVE  p = q
    BY <1>2, <2>1, <2>3, OneAtATime
  <2>4. CASE Submit(p) \/ CompletionFails(p) \/ Crash(p)
    BY <1>2, <2>1, <2>4 DEF Submit, Review, Confirm, Refuse, StartPublishAttempt, StartRefused,
                            CompletionFails, Crash
  <2>5. CASE Execute(p) /\ ~(StripeAnswers(p) \/ StripeReplyLost(p) \/ StripeRefuses(p))
    BY <1>2, <2>1, <2>5 DEF Execute, Reobserve, ReobserveMoved, FinishAborted, RecordOperation,
        OperationSkipped, CompleteOperation, FinishPublish, PromotePublication
  <2>6. CASE StripeAnswers(p) \/ StripeReplyLost(p) \/ StripeRefuses(p)
    BY <2>6 DEF StripeAnswers, StripeReplyLost, StripeRefuses
  <2> QED
    BY <2>2, <2>3, <2>4, <2>5, <2>6 DEF Next
<1>4. PICK a, call, k : a = job[p].attempt /\ call = job[p].call /\ k = job[p].call.key
  OBVIOUS
<1>5. /\ attempts' = attempts
      /\ job'[p].todo = job[p].todo /\ job'[p].attempt = a
      /\ \A q \in Publishers : q # p => job'[q] = job[q]
  BY <1>2, <1>3, <1>4 DEF StripeReplies, Jobs
<1>6. /\ a \in DOMAIN attempts /\ attempts[a].mode = m /\ attempts[a].outcome = "open"
      /\ \A q \in Publishers : pc[q] \in Executing /\ job[q].attempt = a => q = p
  BY <1>1, <1>2, <1>4 DEF EvidenceInv, LeaseHeld, Executing
<1>7. attempts[a].log # <<>> /\ attempts[a].log[Len(attempts[a].log)] = LogRow(call)
  BY <1>1, <1>2, <1>4 DEF RequestEvidence
<1>8. PICK n : n = Len(attempts[a].log)
  OBVIOUS
<1>9. n \in DOMAIN attempts[a].log /\ \A l \in DOMAIN attempts[a].log : ~(l > n)
  <2>1. attempts[a].log \in Seq(LogRows)
    <3>1. attempts[a] \in Attempts
      BY <1>2, <1>6
    <3> QED
      BY <3>1 DEF Attempts
  <2> QED
    BY <1>7, <1>8, <2>1
<1>10. Creates(attempts[a].log[n]) /\ attempts[a].log[n].key = k
  BY <1>1, <1>4, <1>7, <1>8 DEF Creates, LogRow, Row
<1>11. PairHeld(p, call) /\ call \notin job[p].todo
  BY <1>1, <1>2, <1>4 DEF RequestPairs, Busy
<1>12. /\ \A d \in job[p].todo : d.key = k => d.verb = "archive" /\ d.price = i
       /\ \E d \in job[p].todo : d.key = k
  BY <1>1, <1>4, <1>11 DEF PairHeld
<1>13. ToFollow(p, k, i)'
  BY <1>5, <1>12 DEF ToFollow
<1>14. ASSUME NEW q \in Publishers, pc'[q] \in Executing, job'[q].attempt = a
       PROVE  ToFollow(q, k, i)'
  <2>1. q = p
    BY <1>1, <1>2, <1>5, <1>6, <1>14
  <2> QED
    BY <1>13, <2>1
<1>15. Unfollowed(a, n, i)'
  BY <1>5, <1>6, <1>9, <1>10, <1>14 DEF Unfollowed, ToFollow
<1>16. Explained(a, n, i)'
  BY <1>5, <1>9, <1>10, <1>15 DEF Explained, Creates
<1> QED
  BY <1>5, <1>6, <1>16

\* What an account starts with: each active Price has a key, and no other
\* active Price has the same.  Stripe sees to the second itself; an active
\* Price without a key is none of the catalog's.
CleanSeeds ==
    \A prices \in StripeSeeds : \A i, j \in DOMAIN prices :
        prices[i].active =>
            /\ prices[i].key # None
            /\ prices[j].active /\ prices[j].key = prices[i].key => i = j

OrphanInv == PairInv /\ AimInv /\ ArchivesHit /\ OrphansExplained

LEMMA InitOrphan ==
    ASSUME CleanSeeds, Init
    PROVE  OrphanInv
<1>1. EvidenceInv /\ AimInv
  BY InitTypeInv, InitLease, InitEvidence, InitAimed DEF EvidenceInv, AimInv
<1>2. \A m \in Modes : stripe[m] \in StripeSeeds
  BY DEF Init
<1>3. UniqueHolders
  BY <1>2 DEF CleanSeeds, UniqueHolders, Holders
<1>4. Pairs
  BY DEF Init, Pairs, RequestPairs, Busy
<1>5. ArchivesHit
  BY DEF Init, ArchivesHit, RowsHit, ReplyHits
<1>6. OrphansExplained
  BY <1>2 DEF CleanSeeds, OrphansExplained, Orphans
<1> QED
  BY <1>1, <1>3, <1>4, <1>5, <1>6 DEF OrphanInv, PairInv

LEMMA NextOrphan ==
    ASSUME OrphanInv, [Next]_vars, "dashboard" \notin Events
    PROVE  OrphanInv'
<1>1. PairInv' /\ PairInv /\ EvidenceInv /\ TypeInv /\ AimInv /\ ArchivesHit
  BY NextPairs DEF OrphanInv, PairInv, AimInv
<1>2. AimInv'
  BY <1>1, NextTypeInv, NextAimed DEF AimInv
<1>3. \A q \in Publishers : ReplyHits(q)'
  <2> SUFFICES ASSUME NEW q \in Publishers PROVE ReplyHits(q)'
    OBVIOUS
  <2>1. ReplyHits(q)
    BY <1>1 DEF ArchivesHit
  <2> QED
    BY <1>1, <2>1, NextReplyHits
<1>4. RowsHit'
  BY <1>1, NextRowsHit
<1>5. ASSUME NEW m \in Modes, NEW i \in Orphans(m)'
      PROVE  \E a \in DOMAIN attempts' : attempts'[a].mode = m /\ \E n : Explained(a, n, i)'
  <2>1. CASE i \in Orphans(m)
    <3>1. PICK a \in DOMAIN attempts : attempts[a].mode = m /\ \E n : Explained(a, n, i)
      BY <2>1 DEF OrphanInv, OrphansExplained
    <3>2. PICK n : Explained(a, n, i)
      BY <3>1
    <3>3. Explained(a, n, i)'
      BY <1>1, <3>2, ExplainedStays
    <3>4. a \in DOMAIN attempts' /\ attempts'[a].mode = m
      BY <1>1, <3>1, LogsGrow
    <3> QED
      BY <3>3, <3>4
  <2>2. CASE i \notin Orphans(m)
    BY <1>1, <2>2, NewOrphan
  <2> QED
    BY <2>1, <2>2
<1>6. OrphansExplained'
  BY <1>5 DEF OrphansExplained
<1> QED
  BY <1>1, <1>2, <1>3, <1>4, <1>6 DEF OrphanInv, ArchivesHit

\* A row that names an active Price in an archive has not succeeded, so
\* neither has its attempt.
LEMMA NamedMeansUnfinished ==
    ASSUME EvidenceInv, RowsHit, NEW m \in Modes, NEW i \in Orphans(m),
           NEW a \in DOMAIN attempts, attempts[a].mode = m, Named(a, i)
    PROVE  attempts[a].outcome \in {"open", "failed"} /\ i \in FindOrphans(m)
<1>1. PICK l \in DOMAIN attempts[a].log :
         attempts[a].log[l].verb = "archive" /\ attempts[a].log[l].price = i
  BY DEF Named
<1>2. i \in DOMAIN stripe[m] /\ stripe[m][i].active
  BY DEF Orphans
<1>3. attempts[a].log[l].status # "succeeded"
  BY <1>1, <1>2 DEF RowsHit, Hit
<1>4. attempts[a] \in Attempts
  BY DEF EvidenceInv, TypeInv, TypeOK
<1>5. attempts[a].log[l] \in LogRows
  BY <1>4 DEF Attempts
<1>6. attempts[a].log[l].status \in {"pending", "failed"}
  BY <1>3, <1>5 DEF LogRows
<1>7. ClosedAsLogged(attempts[a])
  BY DEF EvidenceInv, Evidence
<1>8. attempts[a].outcome # "succeeded" /\ attempts[a].outcome # "aborted"
  BY <1>6, <1>7 DEF ClosedAsLogged
<1>9. attempts[a].outcome \in {"open", "failed"}
  BY <1>4, <1>8 DEF Attempts
<1> QED
  BY <1>1, <1>2, <1>9 DEF FindOrphans, ArchivedStripePriceIds

LEMMA ExplainedMeansUnfinished == OrphanInv => OrphanMeansUnfinished
<1> SUFFICES ASSUME OrphanInv, NEW m \in Modes, NEW i \in Orphans(m)
             PROVE  \E a \in DOMAIN attempts :
                       /\ attempts[a].mode = m
                       /\ attempts[a].outcome \in {"open", "failed"}
                       /\ \E n \in DOMAIN attempts[a].log :
                             LET row == attempts[a].log[n] IN
                             /\ row.kind = "replace_price"
                             /\ row.verb = "create"
                             /\ \/ i \in FindOrphans(m)
                                \/ \A later \in n + 1..Len(attempts[a].log) :
                                      attempts[a].log[later].key # row.key
  BY DEF OrphanMeansUnfinished
<1>1. PICK a \in DOMAIN attempts : attempts[a].mode = m /\ \E n : Explained(a, n, i)
  BY DEF OrphanInv, OrphansExplained
<1>2. PICK n : Explained(a, n, i)
  BY <1>1
<1>3. n \in DOMAIN attempts[a].log /\ Creates(attempts[a].log[n])
  BY <1>2 DEF Explained
<1>4. EvidenceInv /\ RowsHit /\ attempts[a].log \in Seq(LogRows)
  <2>1. EvidenceInv /\ RowsHit
    BY DEF OrphanInv, PairInv, ArchivesHit
  <2>2. attempts[a] \in Attempts
    BY <2>1 DEF EvidenceInv, TypeInv, TypeOK
  <2> QED
    BY <2>1, <2>2 DEF Attempts
<1>5. CASE Named(a, i)
  BY <1>1, <1>3, <1>4, <1>5, NamedMeansUnfinished DEF Creates
<1>6. CASE Unfollowed(a, n, i)
  <2>1. \A later \in n + 1..Len(attempts[a].log) : later \in DOMAIN attempts[a].log /\ later > n
    BY <1>3, <1>4
  <2> QED
    BY <1>1, <1>3, <1>6, <2>1 DEF Unfollowed, Creates
<1> QED
  BY <1>2, <1>5, <1>6 DEF Explained

\* Every Price that a replacement has left active without its key (orphans.ts)
\* is explained by an attempt that has not succeeded: its log names the Price
\* in an archive, so that findOrphans reports it, or stops before the archive.
\* Whatever crashed, was refused, lost its reply or could not be logged.
THEOREM OrphansAreExplained ==
    ASSUME "dashboard" \notin Events, CleanSeeds
    PROVE  Spec => []OrphanMeansUnfinished
<1>1. Init => OrphanInv
  BY InitOrphan
<1>2. OrphanInv /\ [Next]_vars => OrphanInv'
  BY NextOrphan
<1> QED
  BY <1>1, <1>2, ExplainedMeansUnfinished, PTL DEF Spec

--------------------------------------------------------------------------------
(* On the way to parity.  As long as nothing has failed, the calls that are *)
(* left bring each key to what the draft says of it: they make its Price,   *)
(* retire it, or bring each of its cells to its target.                     *)

Own(rest, k) == {d \in rest : d.key = k /\ d.kind # "create_product"}

Serving(prices, k) == {i \in DOMAIN prices : prices[i].active /\ prices[i].key = k}

ToMake(rest, row, k) ==
    /\ Covered(row) # {}
    /\ \E d \in Own(rest, k) : d.verb = "create"
    /\ \A d \in Own(rest, k) : \/ d.verb = "create" /\ d.coverage = StripeRow(row)
                               \/ d.verb = "archive"

ToRetire(prices, rest, row, k) ==
    /\ Covered(row) = {}
    /\ \A d \in Own(rest, k) : d.verb = "archive"
    /\ Serving(prices, k) \subseteq {d.price : d \in Own(rest, k)}

UpdatesOf(rest, k, c) == {d \in Own(rest, k) : d.verb = "update" /\ d.currency = c}

Reaches(cell, target, updates) ==
    /\ cell = target \/ updates # {}
    /\ \A d \in updates : UpdatedCell(cell, d) = target

\* The Price i is to serve the key.
Suits(prices, rest, row, k, i) ==
    /\ \A d \in Own(rest, k) : \/ d.verb = "archive" /\ d.price # i
                               \/ d.verb = "update" /\ d.price = i
    /\ \A c \in Currencies :
          Reaches(prices[i].coverage[c], StripeRow(row)[c], UpdatesOf(rest, k, c))

ToUpdate(prices, rest, row, k) ==
    /\ Covered(row) # {}
    /\ \E i \in Serving(prices, k) : Suits(prices, rest, row, k, i)

OnWay(prices, rest, row, k) ==
    \/ ToMake(rest, row, k)
    \/ ToRetire(prices, rest, row, k)
    \/ ToUpdate(prices, rest, row, k)

\* Another call of the cell is no longer needed, but does no harm.
LEMMA UpdatedAgain ==
    ASSUME NEW cell, NEW call, NEW target, UpdatedCell(cell, call) = target,
           NEW other, UpdatedCell(cell, other) = target
    PROVE  UpdatedCell(target, other) = target
  BY DEF UpdatedCell

\* A call of another key leaves the Prices that serve this one as they are.
LEMMA OtherKeyServed ==
    ASSUME NEW prices \in Seq(Prices), NEW call \in Calls, WellFormed(call),
           NEW k \in Keys, call.key # k \/ call.kind = "create_product",
           call.kind # "create_product" /\ call.verb # "create" =>
               call.price \in DOMAIN prices /\ prices[call.price].key # k,
           NEW after, after = StripeAfter(prices, call)
    PROVE  /\ Serving(after, k) = Serving(prices, k)
           /\ \A i \in Serving(prices, k) : after[i].coverage = prices[i].coverage
<1>0. k # None /\ Len(prices) \in Nat /\ DOMAIN prices = 1..Len(prices)
  BY NoneAssumption
<1>1. CASE call.kind = "create_product"
  BY <1>1 DEF StripeAfter
<1>2. CASE call.kind # "create_product" /\ call.verb = "create"
  <2>1. /\ Len(after) = Len(prices) + 1 /\ DOMAIN after = 1..Len(after)
        /\ after[Len(after)] = [key |-> call.key, currency |-> call.currency,
                                coverage |-> call.coverage, active |-> TRUE]
    BY <1>2, CreateAdds
  <2>2. ASSUME NEW i \in DOMAIN prices
        PROVE  /\ prices[i].key = k => after[i] = prices[i]
               /\ after[i].key = k => after[i] = prices[i]
    <3>1. /\ prices[i].key # call.key => after[i] = prices[i]
          /\ prices[i].key = call.key => after[i].key = None
      BY <1>2, CreateStrips
    <3> QED
      BY <1>0, <1>2, <3>1
  <2>3. after[Len(after)].key # k
    BY <1>2, <2>1
  <2>4. DOMAIN after = DOMAIN prices \cup {Len(after)}
    BY <1>0, <2>1
  <2>5. Serving(after, k) = Serving(prices, k)
    BY <2>2, <2>3, <2>4 DEF Serving
  <2> QED
    BY <2>2, <2>5 DEF Serving
<1>3. CASE call.kind # "create_product" /\ call.verb # "create"
  <2>1. DOMAIN after = DOMAIN prices
    BY <1>3, OthersKeepLength
  <2>2. ASSUME NEW i \in DOMAIN prices, i # call.price PROVE after[i] = prices[i]
    BY <1>3, <2>2, OthersTouchOne
  <2>3. after[call.price].key = prices[call.price].key
    BY <1>3, OnlyCreatesStrip
  <2>4. \A i \in DOMAIN prices : prices[i].key = k \/ after[i].key = k => after[i] = prices[i]
    BY <1>3, <2>2, <2>3
  <2> QED
    BY <2>1, <2>4 DEF Serving
<1> QED
  BY <1>1, <1>2, <1>3

LEMMA OtherKeyOnWay ==
    ASSUME NEW prices \in Seq(Prices), NEW call \in Calls, WellFormed(call),
           NEW k \in Keys, call.key # k \/ call.kind = "create_product",
           call.kind # "create_product" /\ call.verb # "create" =>
               call.price \in DOMAIN prices /\ prices[call.price].key # k,
           NEW after, after = StripeAfter(prices, call),
           NEW rest, NEW next, rest \ {call} \subseteq next, next \subseteq rest,
           NEW row, OnWay(prices, rest, row, k)
    PROVE  OnWay(after, next, row, k)
<1>1. /\ Serving(after, k) = Serving(prices, k)
      /\ \A i \in Serving(prices, k) : after[i].coverage = prices[i].coverage
  BY OtherKeyServed
<1>2. Own(next, k) = Own(rest, k)
  BY DEF Own
<1>3. \A c : UpdatesOf(next, k, c) = UpdatesOf(rest, k, c)
  BY <1>2 DEF UpdatesOf
<1>4. ASSUME NEW i \in Serving(prices, k), Suits(prices, rest, row, k, i)
      PROVE  Suits(after, next, row, k, i)
  BY <1>1, <1>2, <1>3, <1>4 DEF Suits
<1> QED
  BY <1>1, <1>2, <1>4 DEF OnWay, ToMake, ToRetire, ToUpdate

\* The create has landed: its Price sells what the draft says, and no archive
\* that is left names it.
LEMMA CreateLands ==
    ASSUME NEW prices \in Seq(Prices), NEW call \in Calls,
           call.kind # "create_product", call.verb = "create",
           NEW k, k = call.key,
           NEW after, after = StripeAfter(prices, call),
           NEW rest, NEW next, next \subseteq rest, call \in rest,
           \A d \in rest : d.verb = "archive" => d.price \in DOMAIN prices,
           NEW row, OnWay(prices, rest, row, k)
    PROVE  OnWay(after, next, row, k)
<1>1. call \in Own(rest, k) /\ Own(next, k) \subseteq Own(rest, k)
  BY DEF Own
<1>2. ToMake(rest, row, k)
  BY <1>1 DEF OnWay, ToRetire, ToUpdate, Suits
<1>3. CASE \E d \in Own(next, k) : d.verb = "create"
  BY <1>1, <1>2, <1>3 DEF OnWay, ToMake
<1>4. CASE \A d \in Own(next, k) : d.verb # "create"
  <2>0. Len(prices) \in Nat /\ DOMAIN prices = 1..Len(prices)
    OBVIOUS
  <2>1. /\ Len(after) = Len(prices) + 1 /\ DOMAIN after = 1..Len(after)
        /\ after[Len(after)] = [key |-> call.key, currency |-> call.currency,
                                coverage |-> call.coverage, active |-> TRUE]
    BY CreateAdds
  <2>2. Len(after) \in Serving(after, k) /\ after[Len(after)].coverage = StripeRow(row)
    BY <1>1, <1>2, <2>0, <2>1 DEF Serving, ToMake
  <2>3. \A d \in Own(next, k) : d.verb = "archive" /\ d.price # Len(after)
    BY <1>1, <1>2, <1>4, <2>0, <2>1 DEF ToMake, Own
  <2>4. \A c : UpdatesOf(next, k, c) = {}
    BY <2>3 DEF UpdatesOf
  <2>5. Suits(after, next, row, k, Len(after))
    BY <2>2, <2>3, <2>4 DEF Suits, Reaches
  <2> QED
    BY <1>2, <2>2, <2>5 DEF OnWay, ToUpdate, ToMake
<1> QED
  BY <1>3, <1>4

\* The archive has landed: what it names serves no longer.
LEMMA ArchiveLands ==
    ASSUME NEW prices \in Seq(Prices), NEW call \in Calls,
           call.kind # "create_product", call.verb = "archive",
           NEW k, k = call.key, call.price \in DOMAIN prices,
           NEW after, after = StripeAfter(prices, call),
           NEW rest, NEW next, rest \ {call} \subseteq next, next \subseteq rest, call \in rest,
           NEW row, OnWay(prices, rest, row, k)
    PROVE  OnWay(after, next, row, k)
<1>1. /\ call \in Own(rest, k) /\ Own(next, k) \subseteq Own(rest, k)
      /\ Own(rest, k) \ {call} \subseteq Own(next, k)
  BY DEF Own
<1>2. DOMAIN after = DOMAIN prices
  BY OthersKeepLength
<1>3. ASSUME NEW i \in DOMAIN prices, i # call.price PROVE after[i] = prices[i]
  BY <1>3, OthersTouchOne
<1>4. ~after[call.price].active
  <2>1. after[call.price] = UpdatedPrice(prices[call.price], call)
    BY OthersTouchOne
  <2> QED
    BY <2>1 DEF UpdatedPrice, Prices
<1>5. Serving(after, k) = Serving(prices, k) \ {call.price}
  BY <1>2, <1>3, <1>4 DEF Serving
<1>6. CASE ToMake(rest, row, k)
  BY <1>1, <1>6 DEF OnWay, ToMake
<1>7. CASE ToRetire(prices, rest, row, k)
  BY <1>1, <1>5, <1>7 DEF OnWay, ToRetire
<1>8. CASE ToUpdate(prices, rest, row, k)
  <2>1. PICK i \in Serving(prices, k) : Suits(prices, rest, row, k, i)
    BY <1>8 DEF ToUpdate
  <2>2. i # call.price /\ i \in DOMAIN prices
    BY <1>1, <2>1 DEF Suits, Serving
  <2>3. i \in Serving(after, k) /\ after[i] = prices[i]
    BY <1>3, <1>5, <2>2
  <2>4. \A c : UpdatesOf(next, k, c) = UpdatesOf(rest, k, c)
    BY <1>1 DEF UpdatesOf
  <2>5. Suits(after, next, row, k, i)
    BY <1>1, <2>1, <2>3, <2>4 DEF Suits
  <2> QED
    BY <1>8, <2>3, <2>5 DEF OnWay, ToUpdate
<1> QED
  BY <1>6, <1>7, <1>8 DEF OnWay

\* The update has landed: its cell has reached the target.
LEMMA UpdateLands ==
    ASSUME NEW prices \in Seq(Prices), NEW call \in Calls, WellFormed(call),
           call.verb = "update",
           NEW k, k = call.key,
           NEW after, after = StripeAfter(prices, call),
           NEW rest, NEW next, rest \ {call} \subseteq next, next \subseteq rest, call \in rest,
           NEW row, OnWay(prices, rest, row, k)
    PROVE  OnWay(after, next, row, k)
<1>0. call.kind # "create_product" /\ call.currency \in Currencies
  BY DEF WellFormed
<1>1. /\ call \in Own(rest, k) /\ Own(next, k) \subseteq Own(rest, k)
      /\ Own(rest, k) \ {call} \subseteq Own(next, k)
  BY <1>0 DEF Own
<1>2. ToUpdate(prices, rest, row, k)
  BY <1>1 DEF OnWay, ToMake, ToRetire
<1>3. PICK i \in Serving(prices, k) : Suits(prices, rest, row, k, i)
  BY <1>2 DEF ToUpdate
<1>4. call.price = i /\ i \in DOMAIN prices /\ prices[i] \in Prices
  BY <1>1, <1>3 DEF Suits, Serving
<1>5. after[i] = UpdatedPrice(prices[i], call) /\ DOMAIN after = DOMAIN prices
  BY <1>0, <1>4, OthersTouchOne, OthersKeepLength
<1>6. /\ after[i].active = prices[i].active /\ after[i].key = prices[i].key
      /\ after[i].coverage = [prices[i].coverage EXCEPT ![call.currency] =
                                UpdatedCell(prices[i].coverage[call.currency], call)]
  BY <1>4, <1>5 DEF UpdatedPrice, Prices
<1>7. i \in Serving(after, k)
  BY <1>3, <1>5, <1>6 DEF Serving
<1>8. ASSUME NEW c \in Currencies
      PROVE  Reaches(after[i].coverage[c], StripeRow(row)[c], UpdatesOf(next, k, c))
  <2>0. DOMAIN prices[i].coverage = Currencies
    BY <1>4 DEF Prices, Coverages
  <2>1. Reaches(prices[i].coverage[c], StripeRow(row)[c], UpdatesOf(rest, k, c))
    BY <1>3 DEF Suits
  <2>2. UpdatesOf(next, k, c) \subseteq UpdatesOf(rest, k, c)
    BY <1>1 DEF UpdatesOf
  <2>3. CASE c = call.currency
    <3>1. call \in UpdatesOf(rest, k, c)
      BY <1>1, <2>3 DEF UpdatesOf
    <3>2. UpdatedCell(prices[i].coverage[c], call) = StripeRow(row)[c]
      BY <2>1, <3>1 DEF Reaches
    <3>3. after[i].coverage[c] = StripeRow(row)[c]
      BY <1>6, <2>0, <2>3, <3>2
    <3>4. ASSUME NEW d \in UpdatesOf(next, k, c)
          PROVE  UpdatedCell(StripeRow(row)[c], d) = StripeRow(row)[c]
      <4>1. UpdatedCell(prices[i].coverage[c], d) = StripeRow(row)[c]
        BY <2>1, <2>2 DEF Reaches
      <4> QED
        BY <3>2, <4>1, UpdatedAgain
    <3> QED
      BY <3>3, <3>4 DEF Reaches
  <2>4. CASE c # call.currency
    <3>1. after[i].coverage[c] = prices[i].coverage[c]
      BY <1>6, <2>0, <2>4
    <3>2. UpdatesOf(next, k, c) = UpdatesOf(rest, k, c)
      BY <1>1, <2>4 DEF UpdatesOf
    <3> QED
      BY <2>1, <3>1, <3>2
  <2> QED
    BY <2>3, <2>4
<1>9. \A d \in Own(next, k) : \/ d.verb = "archive" /\ d.price # i
                              \/ d.verb = "update" /\ d.price = i
  BY <1>1, <1>3 DEF Suits
<1> QED
  BY <1>2, <1>7, <1>8, <1>9 DEF OnWay, ToUpdate, Suits

\* A call that lands takes a key one step on, whatever the other keys are up to.
LEMMA KeyCallOnWay ==
    ASSUME NEW prices \in Seq(Prices), NEW call \in Calls, WellFormed(call),
           NEW rest, NEW next, rest \ {call} \subseteq next, next \subseteq rest, call \in rest,
           \A d \in rest : d.verb = "archive" => d.price \in DOMAIN prices,
           call.kind # "create_product" /\ call.verb # "create" =>
               call.price \in DOMAIN prices /\ prices[call.price].key \in {call.key, None},
           NEW row, NEW k \in Keys, OnWay(prices, rest, row, k)
    PROVE  OnWay(StripeAfter(prices, call), next, row, k)
<1>0. call.key \in Keys /\ k # None /\ call.verb \in {"create", "update", "archive"}
  BY NoneAssumption DEF Calls
<1>1. CASE call.key # k \/ call.kind = "create_product"
  BY <1>0, <1>1, OtherKeyOnWay
<1>2. CASE call.key = k /\ call.kind # "create_product"
  <2>0. PICK after : after = StripeAfter(prices, call)
    OBVIOUS
  <2>1. CASE call.verb = "create"
    BY <1>2, <2>0, <2>1, CreateLands
  <2>2. CASE call.verb = "archive"
    <3>1. call.price \in DOMAIN prices
      BY <2>2
    <3> QED
      BY <1>2, <2>0, <2>2, <3>1, ArchiveLands
  <2>3. CASE call.verb = "update"
    BY <1>2, <2>0, <2>3, UpdateLands
  <2> QED
    BY <1>0, <2>1, <2>2, <2>3
<1> QED
  BY <1>1, <1>2

\* A call that lands takes every key one step on.
LEMMA CallOnWay ==
    ASSUME NEW prices \in Seq(Prices), NEW call \in Calls, WellFormed(call),
           NEW rest, NEW next, rest \ {call} \subseteq next, next \subseteq rest, call \in rest,
           \A d \in rest : d.verb = "archive" =>
               d.price \in DOMAIN prices /\ prices[d.price].key \in {d.key, None},
           NEW goal, \A k \in Keys : OnWay(prices, rest, goal[k], k),
           NEW k \in Keys
    PROVE  OnWay(StripeAfter(prices, call), next, goal[k], k)
<1>0. call.key \in Keys /\ call.verb \in {"create", "update", "archive"}
  BY DEF Calls
<1>1. ASSUME call.kind # "create_product", call.verb = "update"
      PROVE  call.price \in DOMAIN prices /\ prices[call.price].key = call.key
  <2>1. OnWay(prices, rest, goal[call.key], call.key) /\ call \in Own(rest, call.key)
    BY <1>0, <1>1 DEF Own
  <2>2. call.price \in Serving(prices, call.key)
    BY <1>1, <2>1 DEF OnWay, ToMake, ToRetire, ToUpdate, Suits
  <2> QED
    BY <2>2 DEF Serving
<1>2. PICK row : row = goal[k]
  OBVIOUS
<1>3. OnWay(prices, rest, row, k)
  BY <1>2
<1>4. call.kind # "create_product" /\ call.verb # "create" =>
         call.price \in DOMAIN prices /\ prices[call.price].key \in {call.key, None}
  BY <1>0, <1>1
<1> QED
  BY <1>2, <1>3, <1>4, KeyCallOnWay

\* A plan starts every key on its way, provided each Price covers its own
\* currency and the plan is not refused.
LEMMA PlanOnWay ==
    ASSUME NEW draft \in [Keys -> Coverages], NEW observed \in Observations,
           ~Refused(draft, observed),
           \A k \in StripeKeys(observed) : observed[k].currency \in Covered(observed[k].coverage),
           NEW prices,
           NEW k \in Keys,
           observed[k] = None => Serving(prices, k) = {},
           observed[k] # None => /\ Serving(prices, k) = {observed[k].id}
                                 /\ prices[observed[k].id].coverage = observed[k].coverage
    PROVE  OnWay(prices, BuildPublishPlan(draft, observed), draft[k], k)
<1> DEFINE plan == BuildPublishPlan(draft, observed)
           row == draft[k]
           price == observed[k]
<1>0. row \in Coverages /\ (price # None => price \in PriceViews)
  BY DEF Observations
<1> HIDE DEF plan
<1>1. ASSUME NEW d \in Own(plan, k), d.verb = "create"
      PROVE  /\ d.coverage = StripeRow(row)
             /\ k \in MissingInStripe(draft, observed) \cup ReplacedKeys(draft, observed)
  <2>0. d \in plan /\ d.key = k /\ d.kind # "create_product"
    BY DEF Own
  <2>1. CASE k \in MissingInStripe(draft, observed) /\ d.currency = ResolveBaseline(row)
    <3>1. Covered(row) # {}
      BY <2>1 DEF MissingInStripe, CatalogKeys
    <3>2. d.currency \in Covered(row)
      BY <2>1, <3>1 DEF ResolveBaseline
    <3> QED
      BY <1>0, <1>1, <2>0, <2>1, <3>2, PlanMeaning, CoveredBaseline DEF plan
  <2>2. CASE k \in ReplacedKeys(draft, observed) /\ d.currency = price.currency
    <3>1. k \in Matched(draft, observed) /\ k \in StripeKeys(observed)
      BY <2>2 DEF ReplacedKeys, Matched
    <3>2. d.currency \in Covered(row)
      BY <2>2, <3>1 DEF Refused, CurrencyMissingInCatalog
    <3> QED
      BY <1>0, <1>1, <2>0, <2>2, <3>2, PlanMeaning, CoveredBaseline DEF plan
  <2> QED
    BY <1>1, <2>0, <2>1, <2>2, PlanMeaning DEF plan
<1>2. \A d \in Own(plan, k) : d.verb = "update" =>
         /\ k \in KeptKeys(draft, observed)
         /\ d.price = price.id /\ d.currency \in Currencies
         /\ d.coverage[d.currency] = StripeCell(d.currency, row[d.currency])
         /\ \/ d.kind = "add_currency_option" /\ d.currency \in CurrencyMissingInStripe(row, price)
            \/ d.kind = "update_tax_behavior" /\ d.currency \in TaxMismatch(row, price)
  BY PlanMeaning DEF plan, Own
<1>3. \A d \in Own(plan, k) : d.verb = "archive" =>
         k \in MissingInCatalog(draft, observed) \cup ReplacedKeys(draft, observed)
  BY PlanMeaning DEF plan, Own
<1>4. \A d \in Own(plan, k) : d.verb \in {"create", "archive", "update"}
  BY PlanMeaning DEF plan, Own
<1>5. CASE k \in MissingInStripe(draft, observed) \cup ReplacedKeys(draft, observed)
  <2>1. Covered(row) # {} /\ k \notin KeptKeys(draft, observed)
    BY <1>5 DEF MissingInStripe, ReplacedKeys, Matched, CatalogKeys, KeptKeys
  <2>2. \E d \in Own(plan, k) : d.verb = "create"
    BY <1>5, PlanCovers DEF plan, Own
  <2> QED
    BY <1>1, <1>2, <1>4, <2>1, <2>2 DEF OnWay, ToMake, plan
<1>6. CASE Covered(row) = {}
  <2>1. k \notin CatalogKeys(draft)
    BY <1>6 DEF CatalogKeys
  <2>2. \A d \in Own(plan, k) : d.verb = "archive"
    BY <1>1, <1>2, <1>4, <2>1 DEF MissingInStripe, ReplacedKeys, KeptKeys, Matched
  <2>3. Serving(prices, k) \subseteq {d.price : d \in Own(plan, k)}
    <3>1. CASE price = None
      BY <3>1
    <3>2. CASE price # None
      <4>1. k \in MissingInCatalog(draft, observed)
        BY <2>1, <3>2 DEF MissingInCatalog, StripeKeys
      <4>2. PICK d \in plan : d.key = k /\ d.verb = "archive" /\ d.kind # "create_product"
        BY <4>1, PlanCovers DEF plan
      <4>3. d \in Own(plan, k) /\ d.price = price.id
        BY <4>2, PlanMeaning DEF plan, Own
      <4> QED
        BY <3>2, <4>3
    <3> QED
      BY <3>1, <3>2
  <2> QED
    BY <1>6, <2>2, <2>3 DEF OnWay, ToRetire, plan
<1>7. CASE k \in KeptKeys(draft, observed)
  <2>1. /\ k \in Matched(draft, observed) /\ k \in StripeKeys(observed) /\ Covered(row) # {}
        /\ ReplaceCauses(row, price) = {} /\ price # None
        /\ \A c \in CurrencyMissingInStripe(row, price) : row[c].tax = "unspecified"
    BY <1>7 DEF KeptKeys, ReplacedKeys, Matched, CatalogKeys, StripeKeys, NeedsReplace
  <2>2. k \notin MissingInStripe(draft, observed) \cup ReplacedKeys(draft, observed)
    BY <1>7, <2>1 DEF MissingInStripe, KeptKeys
  <2>3. k \notin MissingInCatalog(draft, observed)
    BY <2>1 DEF MissingInCatalog, Matched
  <2>4. \A d \in Own(plan, k) : d.verb = "update" /\ d.price = price.id
    BY <1>1, <1>2, <1>3, <1>4, <2>2, <2>3
  <2>5. Covered(price.coverage) \subseteq Covered(row)
    BY <2>1 DEF Refused, CurrencyMissingInCatalog
  <2>6. price.coverage \in Coverages
    BY <1>0, <2>1 DEF PriceViews
  <2>7. ASSUME NEW c \in Currencies
        PROVE  Reaches(price.coverage[c], StripeRow(row)[c], UpdatesOf(plan, k, c))
    <3> DEFINE cell == price.coverage[c]
    <3>1. CASE row[c] = None
      <4>1. c \notin Covered(row) /\ c \notin Covered(price.coverage)
        BY <2>5, <3>1 DEF Covered
      <4>2. UpdatesOf(plan, k, c) = {}
        BY <1>2, <4>1 DEF UpdatesOf, CurrencyMissingInStripe, TaxMismatch
      <4>3. cell = None /\ StripeRow(row)[c] = None
        BY <1>0, <3>1, <4>1, StripeRowShape DEF Covered
      <4> QED
        BY <4>2, <4>3 DEF Reaches
    <3>2. CASE row[c] # None
      <4>1. /\ StripeRow(row)[c] = [amount |-> StripeAmount(c, row[c].amount), tax |-> row[c].tax]
            /\ StripeCell(c, row[c]) = [amount |-> StripeAmount(c, row[c].amount), tax |-> row[c].tax]
            /\ c \in Covered(row)
        BY <1>0, <3>2, StripeRowShape DEF Covered, StripeCell
      <4>2. CASE c \in CurrencyMissingInStripe(row, price)
        <5>1. row[c].tax = "unspecified" /\ c \notin TaxMismatch(row, price)
          BY <2>1, <4>2 DEF CurrencyMissingInStripe, TaxMismatch
        <5>2. \A d \in UpdatesOf(plan, k, c) : UpdatedCell(cell, d) = StripeRow(row)[c]
          BY <1>2, <4>1, <5>1 DEF UpdatesOf, UpdatedCell
        <5>3. PICK d \in plan : /\ d.key = k /\ d.verb = "update" /\ d.currency = c
                                /\ d.kind = "add_currency_option"
          BY <1>7, <4>2, PlanCovers DEF plan
        <5>4. d \in UpdatesOf(plan, k, c)
          BY <5>3 DEF UpdatesOf, Own
        <5> QED
          BY <5>2, <5>4 DEF Reaches
      <4>3. CASE c \notin CurrencyMissingInStripe(row, price)
        <5>1. c \in Covered(price.coverage) /\ cell \in Cells
          BY <2>6, <4>1, <4>3 DEF CurrencyMissingInStripe, Covered, Coverages
        <5>2. cell.amount = StripeAmount(c, row[c].amount)
          BY <2>1, <4>1, <5>1 DEF ReplaceCauses, AmountMismatch
        <5>3. \A d \in UpdatesOf(plan, k, c) : UpdatedCell(cell, d) = StripeRow(row)[c]
          BY <1>2, <4>1, <4>3, <5>2 DEF UpdatesOf, UpdatedCell
        <5>4. CASE c \in TaxMismatch(row, price)
          <6>1. PICK d \in plan : /\ d.key = k /\ d.verb = "update" /\ d.currency = c
                                  /\ d.kind = "update_tax_behavior"
            BY <1>7, <5>4, PlanCovers DEF plan
          <6>2. d \in UpdatesOf(plan, k, c)
            BY <6>1 DEF UpdatesOf, Own
          <6> QED
            BY <5>3, <6>2 DEF Reaches
        <5>5. CASE c \notin TaxMismatch(row, price)
          <6>1. cell.tax = row[c].tax
            BY <4>1, <5>1, <5>5 DEF TaxMismatch
          <6>2. cell = [amount |-> cell.amount, tax |-> cell.tax]
            BY <5>1 DEF Cells
          <6> QED
            BY <4>1, <5>2, <5>3, <6>1, <6>2 DEF Reaches
        <5> QED
          BY <5>4, <5>5
      <4> QED
        BY <4>2, <4>3
    <3> QED
      BY <3>1, <3>2
  <2>8. Suits(prices, plan, row, k, price.id)
    BY <2>1, <2>4, <2>7 DEF Suits
  <2> QED
    BY <2>1, <2>8 DEF OnWay, ToUpdate, plan
<1> QED
  BY <1>5, <1>6, <1>7 DEF MissingInStripe, KeptKeys, Matched, CatalogKeys

\* Nothing left to call, every key has arrived.
LEMMA NothingLeft ==
    ASSUME NEW prices \in Seq(Prices), NEW row \in Coverages, NEW k \in Keys,
           OnWay(prices, {}, row, k),
           \A i, j \in Serving(prices, k) : i = j
    PROVE  /\ Covered(row) = {} => Serving(prices, k) = {}
           /\ Covered(row) # {} =>
                 /\ Serving(prices, k) # {}
                 /\ \A i \in Serving(prices, k) : prices[i].coverage = StripeRow(row)
<1>1. Own({}, k) = {} /\ \A c : UpdatesOf({}, k, c) = {}
  BY DEF Own, UpdatesOf
<1>2. CASE ToRetire(prices, {}, row, k)
  BY <1>1, <1>2 DEF ToRetire
<1>3. CASE ToUpdate(prices, {}, row, k)
  <2>1. PICK i \in Serving(prices, k) : Suits(prices, {}, row, k, i)
    BY <1>3 DEF ToUpdate
  <2>2. \A c \in Currencies : prices[i].coverage[c] = StripeRow(row)[c]
    BY <1>1, <2>1 DEF Suits, Reaches
  <2>3. prices[i] \in Prices
    BY <2>1 DEF Serving
  <2>4. prices[i].coverage \in Coverages /\ StripeRow(row) \in Coverages
    BY <2>3, StripeRowShape DEF Prices
  <2>5. prices[i].coverage = StripeRow(row)
    BY <2>2, <2>4 DEF Coverages
  <2> QED
    BY <1>3, <2>1, <2>5 DEF ToUpdate
<1> QED
  BY <1>1, <1>2, <1>3 DEF OnWay, ToMake

--------------------------------------------------------------------------------
(* A request that succeeds has converged.                                  *)

\* What is still to be applied, and whether all that was has been.
Rest(at, j) == j.todo \cup (IF at = "calling" THEN {j.call} ELSE {})
Sound(at, j) == ~j.failed /\ ~(at = "replied" /\ j.reply = "failed")

\* A create covers the currency of the Price it makes.
Baselined(call) ==
    call.verb = "create" /\ call.kind # "create_product" => call.coverage[call.currency] # None

Converging(at, j, prices) ==
    /\ \A call \in Rest(at, j) : Baselined(call)
    /\ Sound(at, j) => \A k \in Keys : OnWay(prices, Rest(at, j), j.goal[k], k)

RequestConverges(p) == pc[p] \in Busy => Converging(pc[p], job[p], stripe[job[p].mode])

CoversOwn(prices) == \A i \in DOMAIN prices : prices[i].coverage[prices[i].currency] # None

OwnCurrency == \A m \in Modes : CoversOwn(stripe[m])

ConvergeInv ==
    /\ EvidenceInv /\ UniqueHolders /\ AimInv /\ OwnCurrency
    /\ \A p \in Publishers : RequestConverges(p)

LEMMA CallCoversOwn ==
    ASSUME NEW prices \in Seq(Prices), NEW call \in Calls, WellFormed(call), Baselined(call),
           CoversOwn(prices), NEW after, after = StripeAfter(prices, call)
    PROVE  CoversOwn(after)
<1>0. Len(prices) \in Nat /\ DOMAIN prices = 1..Len(prices) /\ \A i \in DOMAIN prices : prices[i] \in Prices
  OBVIOUS
<1>1. CASE call.kind = "create_product"
  BY <1>1 DEF StripeAfter
<1>2. CASE call.kind # "create_product" /\ call.verb = "create"
  <2>1. /\ Len(after) = Len(prices) + 1 /\ DOMAIN after = 1..Len(after)
        /\ after[Len(after)] = [key |-> call.key, currency |-> call.currency,
                                coverage |-> call.coverage, active |-> TRUE]
    BY <1>2, CreateAdds
  <2>2. ASSUME NEW i \in DOMAIN prices
        PROVE  after[i].coverage = prices[i].coverage /\ after[i].currency = prices[i].currency
    <3>1. after[i] = IF prices[i].key = call.key THEN [prices[i] EXCEPT !.key = None] ELSE prices[i]
      BY <1>2, CreateRenames
    <3> QED
      BY <1>0, <3>1 DEF Prices
  <2>3. DOMAIN after = DOMAIN prices \cup {Len(after)}
    BY <1>0, <2>1
  <2> QED
    BY <1>2, <2>1, <2>2, <2>3 DEF CoversOwn, Baselined
<1>3. CASE call.kind # "create_product" /\ call.verb # "create"
  <2>1. DOMAIN after = DOMAIN prices
    BY <1>3, OthersKeepLength
  <2>2. ASSUME NEW i \in DOMAIN prices PROVE after[i].coverage[after[i].currency] # None
    <3>1. after[i] = IF i = call.price THEN UpdatedPrice(prices[i], call) ELSE prices[i]
      BY <1>3, OthersTouchOne
    <3>2. prices[i].coverage[prices[i].currency] # None /\ prices[i] \in Prices
      BY <1>0 DEF CoversOwn
    <3>3. CASE i # call.price \/ call.verb = "archive"
      BY <3>1, <3>2, <3>3 DEF UpdatedPrice, Prices
    <3>4. CASE i = call.price /\ call.verb = "update"
      <4> DEFINE own == prices[i].currency
                 cell == prices[i].coverage[call.currency]
      <4>1. /\ after[i].currency = own
            /\ after[i].coverage = [prices[i].coverage EXCEPT ![call.currency] = UpdatedCell(cell, call)]
        BY <3>1, <3>2, <3>4 DEF UpdatedPrice, Prices
      <4>2. prices[i].coverage \in Coverages /\ own \in Currencies
        BY <3>2 DEF Prices
      <4>3. CASE own # call.currency
        BY <3>2, <4>1, <4>2, <4>3 DEF Coverages
      <4>4. CASE own = call.currency
        <5>1. call.coverage[call.currency] \in Cells /\ cell \in Cells
          BY <3>2, <3>4, <4>2, <4>4 DEF WellFormed, Coverages
        <5>2. UpdatedCell(cell, call) \in Cells
          BY <5>1 DEF UpdatedCell, Cells, TaxBehaviors
        <5>3. after[i].coverage[own] = UpdatedCell(cell, call)
          BY <4>1, <4>2, <4>4 DEF Coverages
        <5> QED
          BY <4>1, <5>2, <5>3, NoneAssumption
      <4> QED
        BY <4>3, <4>4
    <3> QED
      BY <1>3, <3>3, <3>4 DEF Calls
  <2> QED
    BY <2>1, <2>2 DEF CoversOwn
<1> QED
  BY <1>1, <1>2, <1>3

LEMMA NextOwnCurrency ==
    ASSUME ConvergeInv, [Next]_vars, "dashboard" \notin Events
    PROVE  OwnCurrency'
<1> SUFFICES ASSUME NEW m \in Modes PROVE CoversOwn(stripe'[m])
  BY DEF OwnCurrency
<1>1. CoversOwn(stripe[m]) /\ TypeInv
  BY DEF ConvergeInv, OwnCurrency, EvidenceInv
<1>2. CASE UNCHANGED stripe
  BY <1>1, <1>2
<1>3. ASSUME NEW p \in Publishers, pc[p] = "calling", StripeApplies(p), m = job[p].mode
      PROVE  CoversOwn(stripe'[m])
  <2>0. PICK call : call = job[p].call
    OBVIOUS
  <2>1. call \in Calls /\ stripe[m] \in Seq(Prices) /\ stripe'[m] = StripeAfter(stripe[m], call)
    BY <1>1, <1>3, <2>0, AppliedPrices
  <2>2. WellFormed(call)
    BY <1>1, <1>3, <2>0 DEF TypeInv, RequestsWellFormed
  <2>3. Baselined(call)
    BY <1>3, <2>0 DEF ConvergeInv, RequestConverges, Converging, Rest, Busy
  <2> QED
    BY <1>1, <2>1, <2>2, <2>3, CallCoversOwn
<1>4. ASSUME NEW p \in Publishers, pc[p] = "calling", StripeApplies(p), m # job[p].mode
      PROVE  CoversOwn(stripe'[m])
  BY <1>1, <1>4, AppliedPrices
<1> QED
  BY <1>1, <1>2, <1>3, <1>4, AccountSteps DEF Dashboard, DashboardArchive, DashboardCreate

\* What the observation says of a key, while one Price serves it at most.
LEMMA ObservedServes ==
    ASSUME TypeInv, UniqueHolders, NEW m \in Modes, NEW k \in Keys
    PROVE  /\ Holders(m, k) = Serving(stripe[m], k)
           /\ Observed(m)[k] = None => Holders(m, k) = {}
           /\ Observed(m)[k] # None =>
                 /\ Observed(m)[k].id \in DOMAIN stripe[m]
                 /\ Holders(m, k) = {Observed(m)[k].id}
                 /\ stripe[m][Observed(m)[k].id].coverage = Observed(m)[k].coverage
                 /\ stripe[m][Observed(m)[k].id].currency = Observed(m)[k].currency
<1>1. Holders(m, k) = Serving(stripe[m], k)
  BY DEF Holders, Serving
<1>2. CASE Holders(m, k) = {}
  BY <1>1, <1>2 DEF Observed
<1>3. CASE Holders(m, k) # {}
  <2>1. PICK i : i \in Holders(m, k) /\ i = CHOOSE j \in Holders(m, k) : TRUE
    BY <1>3
  <2>2. Observed(m)[k] = View(m, i)
    BY <1>3, <2>1 DEF Observed
  <2>3. Holders(m, k) = {i}
    BY <2>1 DEF UniqueHolders
  <2>4. /\ Observed(m)[k].id = i
        /\ Observed(m)[k].coverage = stripe[m][i].coverage
        /\ Observed(m)[k].currency = stripe[m][i].currency
    BY <2>2 DEF View
  <2>5. i \in DOMAIN stripe[m]
    BY <2>1 DEF Holders
  <2>6. Observed(m)[k] # None
    <3>1. stripe[m] \in Seq(Prices)
      BY DEF TypeInv, TypeOK
    <3>2. stripe[m][i] \in Prices /\ i \in Nat
      BY <2>5, <3>1
    <3>3. View(m, i) \in PriceViews
      BY <3>2 DEF View, PriceViews, Prices
    <3> QED
      BY <2>2, <3>3, NoneAssumption DEF PriceViews, Coverages
  <2> QED
    BY <1>1, <1>3, <2>3, <2>4, <2>5, <2>6
<1> QED
  BY <1>2, <1>3

LEMMA OthersConverge ==
    ASSUME NEW p \in Publishers, RequestConverges(p), pc'[p] = pc[p], job'[p] = job[p],
           pc[p] \in Busy => stripe'[job[p].mode] = stripe[job[p].mode]
    PROVE  RequestConverges(p)'
<1>1. PICK at, j, prices : at = pc[p] /\ j = job[p] /\ prices = stripe[job[p].mode]
  OBVIOUS
<1> QED
  BY <1>1 DEF RequestConverges

\* The plan of a fresh observation starts every key on its way.
LEMMA ReobservedOnWay ==
    ASSUME ConvergeInv, NEW p \in Publishers, Reobserve(p), NEW k \in Keys
    PROVE  OnWay(stripe[job[p].mode],
                 BuildPublishPlan(rows[job[p].rev], Observed(job[p].mode)), rows[job[p].rev][k], k)
<1>0. PICK m, observed, draft, prices : /\ m = job[p].mode /\ observed = Observed(m)
                                        /\ draft = rows[job[p].rev] /\ prices = stripe[m]
  OBVIOUS
<1>1. /\ m \in Modes /\ draft \in [Keys -> Coverages] /\ observed \in Observations
      /\ TypeInv /\ UniqueHolders /\ prices \in Seq(Prices) /\ CoversOwn(prices)
  BY <1>0, ObservedShape
     DEF ConvergeInv, OwnCurrency, EvidenceInv, TypeInv, TypeOK, RequestsWellFormed, Reobserve
<1>2. ~Refused(draft, observed)
  BY <1>0 DEF Reobserve, Unmoved
<1>3. ASSUME NEW l \in StripeKeys(observed)
      PROVE  observed[l].currency \in Covered(observed[l].coverage)
  <2>1. l \in Keys /\ observed[l] # None
    BY <1>3 DEF StripeKeys
  <2>2. /\ observed[l].id \in DOMAIN prices
        /\ prices[observed[l].id].coverage = observed[l].coverage
        /\ prices[observed[l].id].currency = observed[l].currency
    BY <1>0, <1>1, <2>1, ObservedServes
  <2>3. prices[observed[l].id] \in Prices
    BY <1>1, <2>2
  <2> QED
    BY <1>1, <2>2, <2>3 DEF CoversOwn, Covered, Prices
<1>4. /\ observed[k] = None => Serving(prices, k) = {}
      /\ observed[k] # None => /\ Serving(prices, k) = {observed[k].id}
                               /\ prices[observed[k].id].coverage = observed[k].coverage
  BY <1>0, <1>1, ObservedServes
<1>5. OnWay(prices, BuildPublishPlan(draft, observed), draft[k], k)
  BY <1>1, <1>2, <1>3, <1>4, PlanOnWay
<1> QED
  BY <1>0, <1>5

LEMMA ReobserveConverges ==
    ASSUME ConvergeInv, NEW p \in Publishers, Reobserve(p)
    PROVE  RequestConverges(p)'
<1>0. PICK m, observed : m = job[p].mode /\ observed = Observed(m)
  OBVIOUS
<1> DEFINE draft == rows[job[p].rev]
           plan == BuildPublishPlan(draft, observed)
           next == [job[p] EXCEPT !.goal = draft, !.todo = plan]
<1>1. /\ pc \in [Publishers -> PcValues] /\ job \in [Publishers -> Jobs] /\ job[p] \in Jobs
      /\ m \in Modes /\ draft \in [Keys -> Coverages] /\ observed \in Observations
  BY <1>0, ObservedShape DEF ConvergeInv, EvidenceInv, TypeInv, TypeOK, RequestsWellFormed, Reobserve
<1>2. job' = [job EXCEPT ![p] = next] /\ pc'[p] = "running" /\ UNCHANGED stripe
  BY <1>0, <1>1 DEF Reobserve, account
<1>3. next.todo = plan /\ next.mode = m /\ next.goal = draft
  BY <1>0, <1>1 DEF Jobs
<1> HIDE DEF next
<1>5. job'[p] = next
  BY <1>1, <1>2
<1>7. ASSUME NEW k \in Keys PROVE OnWay(stripe[m], plan, draft[k], k)
  BY <1>0, ReobservedOnWay
<1> HIDE DEF draft
<1>8. ASSUME NEW call \in plan PROVE Baselined(call)
  <2>1. SUFFICES ASSUME call.verb = "create", call.kind # "create_product"
                 PROVE  call.coverage[call.currency] # None
    BY DEF Baselined
  <2>2. call.coverage = StripeReady(draft[call.key], call.currency) /\ call.key \in Keys
    BY <1>1, <1>8, <2>1, PlanMeaning
  <2>3. call.currency \in Currencies
    BY <1>1, <1>8, <2>1, PlanShape DEF WellFormed
  <2>4. StripeRow(draft[call.key]) \in Coverages /\ draft[call.key] \in Coverages
    BY <1>1, <2>2, StripeRowShape
  <2>5. CASE draft[call.key][call.currency] = None
    <3>1. call.coverage[call.currency] = [amount |-> 0, tax |-> "unspecified"]
      BY <2>2, <2>3, <2>4, <2>5 DEF StripeReady, Coverages
    <3>2. [amount |-> 0, tax |-> "unspecified"] \in Cells
      BY DEF Cells, TaxBehaviors
    <3> QED
      BY <3>1, <3>2, NoneAssumption
  <2>6. CASE draft[call.key][call.currency] # None
    <3>1. call.coverage[call.currency] = StripeRow(draft[call.key])[call.currency]
      BY <2>2, <2>3, <2>4, <2>6 DEF StripeReady, Coverages
    <3> QED
      BY <2>3, <2>4, <2>6, <3>1, StripeRowShape
  <2> QED
    BY <2>5, <2>6
<1> HIDE DEF plan
<1>9. Converging("running", next, stripe[m])
  BY <1>3, <1>7, <1>8 DEF Converging, Rest
<1> QED
  BY <1>2, <1>3, <1>5, <1>9 DEF RequestConverges

LEMMA RecordConverges ==
    ASSUME ConvergeInv, NEW p \in Publishers, RecordOperation(p)
    PROVE  RequestConverges(p)'
<1>0. PICK j, m : j = job[p] /\ m = job[p].mode
  OBVIOUS
<1>1. /\ pc \in [Publishers -> PcValues] /\ job \in [Publishers -> Jobs] /\ j \in Jobs
      /\ pc[p] = "running" /\ Converging("running", j, stripe[m])
  BY <1>0 DEF ConvergeInv, EvidenceInv, TypeInv, TypeOK, RequestConverges, Busy, RecordOperation
<1>2. PICK call \in NextCalls(j.todo) :
         job' = [job EXCEPT ![p].call = call, ![p].todo = @ \ {call}]
  BY <1>0 DEF RecordOperation
<1> DEFINE next == [j EXCEPT !.call = call, !.todo = @ \ {call}]
<1>3. /\ next.call = call /\ next.todo = j.todo \ {call} /\ next.mode = m
      /\ next.goal = j.goal /\ next.failed = j.failed
  BY <1>0, <1>1 DEF Jobs
<1>4. job' = [job EXCEPT ![p] = next] /\ pc'[p] = "calling" /\ UNCHANGED stripe
  BY <1>0, <1>1, <1>2 DEF RecordOperation, account
<1> HIDE DEF next
<1>5. job'[p] = next
  BY <1>1, <1>4
<1>6. Rest("calling", next) = Rest("running", j)
  BY <1>2, <1>3 DEF Rest, NextCalls
<1>7. Converging("calling", next, stripe[m])
  BY <1>1, <1>3, <1>6 DEF Converging, Sound
<1> QED
  BY <1>3, <1>4, <1>5, <1>7 DEF RequestConverges

LEMMA SkipConverges ==
    ASSUME ConvergeInv, NEW p \in Publishers, OperationSkipped(p)
    PROVE  RequestConverges(p)'
<1>0. PICK j, m : j = job[p] /\ m = job[p].mode
  OBVIOUS
<1>1. /\ pc \in [Publishers -> PcValues] /\ job \in [Publishers -> Jobs] /\ j \in Jobs
      /\ pc[p] = "running" /\ Converging("running", j, stripe[m])
  BY <1>0 DEF ConvergeInv, EvidenceInv, TypeInv, TypeOK, RequestConverges, Busy, OperationSkipped
<1>2. PICK call \in NextCalls(j.todo) :
         job' = [job EXCEPT ![p].failed = TRUE, ![p].todo = @ \ ({call} \cup FollowUp(@, call))]
  BY <1>0 DEF OperationSkipped
<1> DEFINE next == [j EXCEPT !.failed = TRUE, !.todo = @ \ ({call} \cup FollowUp(@, call))]
<1>3. next.todo \subseteq j.todo /\ next.mode = m /\ next.failed
  BY <1>0, <1>1 DEF Jobs
<1>4. job' = [job EXCEPT ![p] = next] /\ pc'[p] = "running" /\ UNCHANGED stripe
  BY <1>0, <1>1, <1>2 DEF OperationSkipped, account
<1> HIDE DEF next
<1>5. job'[p] = next
  BY <1>1, <1>4
<1>6. Converging("running", next, stripe[m])
  BY <1>1, <1>3 DEF Converging, Sound, Rest
<1> QED
  BY <1>3, <1>4, <1>5, <1>6 DEF RequestConverges

LEMMA ReplyConverges ==
    ASSUME ConvergeInv, NEW p \in Publishers,
           StripeAnswers(p) \/ StripeReplyLost(p) \/ StripeRefuses(p)
    PROVE  RequestConverges(p)'
<1>0. PICK j, m, call, prices : /\ j = job[p] /\ m = job[p].mode /\ call = job[p].call
                                /\ prices = stripe[m]
  OBVIOUS
<1>1. /\ pc \in [Publishers -> PcValues] /\ job \in [Publishers -> Jobs] /\ j \in Jobs
      /\ pc[p] = "calling" /\ TypeInv
  BY <1>0 DEF ConvergeInv, EvidenceInv, TypeInv, TypeOK, StripeAnswers, StripeReplyLost,
              StripeRefuses, StripeReplies
<1>2. PICK reply : /\ StripeReplies(p, reply) /\ reply \in {"succeeded", "failed"}
                   /\ reply = "succeeded" => StripeApplies(p)
  BY DEF StripeAnswers, StripeReplyLost, StripeRefuses
<1> DEFINE next == [j EXCEPT !.reply = reply]
<1>3. /\ next.call = call /\ next.todo = j.todo /\ next.mode = m /\ next.reply = reply
      /\ next.goal = j.goal /\ next.failed = j.failed
  BY <1>0, <1>1 DEF Jobs
<1>4. job' = [job EXCEPT ![p] = next] /\ pc'[p] = "replied"
  BY <1>0, <1>1, <1>2 DEF StripeReplies
<1> HIDE DEF next
<1>5. job'[p] = next
  BY <1>1, <1>4
<1>6. Converging("calling", j, prices)
  BY <1>0, <1>1 DEF ConvergeInv, RequestConverges, Busy
<1>7. Rest("replied", next) = j.todo /\ Rest("calling", j) = j.todo \cup {call}
  BY <1>0, <1>3 DEF Rest
<1>8. ASSUME Sound("replied", next), NEW k \in Keys
      PROVE  OnWay(stripe'[m], j.todo, j.goal[k], k)
  <2>1. Sound("calling", j) /\ StripeApplies(p)
    BY <1>2, <1>3, <1>8 DEF Sound
  <2>2. /\ call \in Calls /\ prices \in Seq(Prices) /\ WellFormed(call)
        /\ stripe'[m] = StripeAfter(prices, call)
    BY <1>0, <1>1, <2>1, AppliedPrices DEF TypeInv, RequestsWellFormed
  <2>3. \A l \in Keys : OnWay(prices, j.todo \cup {call}, j.goal[l], l)
    BY <1>6, <1>7, <2>1 DEF Converging
  <2>4. RequestAimed(p)
    BY DEF ConvergeInv, AimInv, ArchivesAimed
  <2>5. \A d \in j.todo \cup {call} : d.verb = "archive" =>
           d.price \in DOMAIN prices /\ prices[d.price].key \in {d.key, None}
    BY <1>0, <1>1, <2>4 DEF RequestAimed, Aimed, Busy
  <2>6. PICK rest, goal : rest = j.todo \cup {call} /\ goal = j.goal
    OBVIOUS
  <2>7. rest \ {call} \subseteq j.todo /\ j.todo \subseteq rest /\ call \in rest
    BY <2>6
  <2>8. OnWay(StripeAfter(prices, call), j.todo, goal[k], k)
    BY <2>2, <2>3, <2>5, <2>6, <2>7, CallOnWay
  <2> QED
    BY <2>2, <2>6, <2>8
<1>9. Converging("replied", next, stripe'[m])
  BY <1>3, <1>6, <1>7, <1>8 DEF Converging
<1> QED
  BY <1>3, <1>4, <1>5, <1>9 DEF RequestConverges

LEMMA CompleteConverges ==
    ASSUME ConvergeInv, NEW p \in Publishers, CompleteOperation(p)
    PROVE  RequestConverges(p)'
<1>0. PICK j, m : j = job[p] /\ m = job[p].mode
  OBVIOUS
<1>1. /\ pc \in [Publishers -> PcValues] /\ job \in [Publishers -> Jobs] /\ j \in Jobs
      /\ pc[p] = "replied" /\ Converging("replied", j, stripe[m])
  BY <1>0 DEF ConvergeInv, EvidenceInv, TypeInv, TypeOK, RequestConverges, Busy, CompleteOperation
<1> DEFINE lost == j.reply = "failed"
           next == [j EXCEPT !.failed = @ \/ lost,
                             !.todo = IF lost THEN @ \ FollowUp(@, j.call) ELSE @,
                             !.call = None, !.reply = "none"]
<1>3. /\ next.mode = m /\ next.goal = j.goal /\ next.todo \subseteq j.todo
      /\ next.failed = (j.failed \/ lost)
      /\ ~lost => next.todo = j.todo
  BY <1>0, <1>1 DEF Jobs
<1>4. job' = [job EXCEPT ![p] = next] /\ pc'[p] = "running" /\ UNCHANGED stripe
  BY <1>0, <1>1 DEF CompleteOperation, account
<1> HIDE DEF next
<1>5. job'[p] = next
  BY <1>1, <1>4
<1>6. Converging("running", next, stripe[m])
  BY <1>1, <1>3 DEF Converging, Sound, Rest
<1> QED
  BY <1>3, <1>4, <1>5, <1>6 DEF RequestConverges

LEMMA NextConverges ==
    ASSUME ConvergeInv, [Next]_vars, "dashboard" \notin Events, NEW q \in Publishers
    PROVE  RequestConverges(q)'
<1>0. /\ RequestConverges(q) /\ EvidenceInv
      /\ pc \in [Publishers -> PcValues] /\ job \in [Publishers -> Jobs]
  BY DEF ConvergeInv, EvidenceInv, TypeInv, TypeOK
<1>1. CASE pc'[q] = pc[q] /\ job'[q] = job[q]
  <2>1. pc[q] \in Busy => stripe'[job[q].mode] = stripe[job[q].mode]
    BY <1>0, <1>1, AccountStandsStill
  <2> QED
    BY <1>0, <1>1, <2>1, OthersConverge
<1>2. CASE pc'[q] \notin Busy
  BY <1>2 DEF RequestConverges
<1>3. CASE ~(pc'[q] = pc[q] /\ job'[q] = job[q]) /\ pc'[q] \in Busy
  <2>1. CASE Draft \/ Dashboard \/ UNCHANGED vars
    BY <1>3, <2>1 DEF Draft, CreateDraftFrom, DiscardDraft, EditCheck, EditWrite,
                      Dashboard, DashboardArchive, DashboardCreate, vars
  <2>2. ASSUME NEW p \in Publishers, Submit(p) \/ CompletionFails(p) \/ Crash(p) PROVE FALSE
    BY <1>0, <1>3, <2>2 DEF Submit, Review, Confirm, Refuse, StartPublishAttempt, StartRefused,
                            CompletionFails, Crash, Busy
  <2>3. ASSUME NEW p \in Publishers, Execute(p) PROVE RequestConverges(q)'
    <3>1. p = q
      BY <1>0, <1>3, <2>3, OneAtATime
    <3>2. CASE ReobserveMoved(q) \/ FinishAborted(q) \/ FinishPublish(q) \/ PromotePublication(q)
      BY <1>0, <1>3, <3>2 DEF ReobserveMoved, FinishAborted, FinishPublish, PromotePublication, Busy
    <3> QED
      BY <2>3, <3>1, <3>2, ReobserveConverges, RecordConverges, SkipConverges, ReplyConverges,
         CompleteConverges DEF Execute
  <2> QED
    BY <2>1, <2>2, <2>3 DEF Next
<1> QED
  BY <1>1, <1>2, <1>3

LEMMA NextConverge ==
    ASSUME ConvergeInv, [Next]_vars, "dashboard" \notin Events
    PROVE  ConvergeInv'
<1>1. EvidenceInv /\ TypeInv /\ UniqueHolders /\ AimInv
  BY DEF ConvergeInv, EvidenceInv
<1>2. EvidenceInv' /\ UniqueHolders' /\ AimInv'
  BY <1>1, NextEvidence, NextUnique, NextTypeInv, NextAimed DEF AimInv
<1>3. OwnCurrency'
  BY NextOwnCurrency
<1> QED
  BY <1>2, <1>3, NextConverges DEF ConvergeInv

\* Every Price Stripe starts with covers its own currency: its unit_amount is
\* an amount in it.
OwnedSeeds == \A prices \in StripeSeeds : CoversOwn(prices)

LEMMA InitConverge ==
    ASSUME CleanSeeds, OwnedSeeds, Init
    PROVE  ConvergeInv
<1>1. EvidenceInv /\ AimInv
  BY InitTypeInv, InitLease, InitEvidence, InitAimed DEF EvidenceInv, AimInv
<1>2. \A m \in Modes : stripe[m] \in StripeSeeds
  BY DEF Init
<1>3. UniqueHolders
  BY <1>2 DEF CleanSeeds, UniqueHolders, Holders
<1>4. OwnCurrency
  BY <1>2 DEF OwnedSeeds, OwnCurrency
<1>5. \A p \in Publishers : RequestConverges(p)
  BY DEF Init, RequestConverges, Busy
<1> QED
  BY <1>1, <1>3, <1>4, <1>5 DEF ConvergeInv

\* The catalog and the account say the same of a key.
KeyAgrees(goal, observed, k) ==
    /\ k \in CatalogKeys(goal) <=> k \in StripeKeys(observed)
    /\ k \in CatalogKeys(goal) => observed[k].coverage = StripeRow(goal[k])

\* A key on its way with nothing left to call agrees.
LEMMA ArrivedAgrees ==
    ASSUME TypeInv, UniqueHolders, NEW m \in Modes, NEW k \in Keys,
           NEW goal \in [Keys -> Coverages], OnWay(stripe[m], {}, goal[k], k)
    PROVE  KeyAgrees(goal, Observed(m), k)
<1>0. PICK prices, row : prices = stripe[m] /\ row = goal[k]
  OBVIOUS
<1>1. /\ OnWay(prices, {}, row, k) /\ row \in Coverages /\ prices \in Seq(Prices)
  BY <1>0 DEF TypeInv, TypeOK
<1>2. /\ Holders(m, k) = Serving(prices, k)
      /\ Observed(m)[k] = None => Holders(m, k) = {}
      /\ Observed(m)[k] # None =>
            /\ Holders(m, k) = {Observed(m)[k].id}
            /\ prices[Observed(m)[k].id].coverage = Observed(m)[k].coverage
  BY <1>0, ObservedServes
<1>3. \A i1, i2 \in Serving(prices, k) : i1 = i2
  BY <1>2 DEF UniqueHolders
<1>4. /\ Covered(row) = {} => Serving(prices, k) = {}
      /\ Covered(row) # {} =>
            /\ Serving(prices, k) # {}
            /\ \A i \in Serving(prices, k) : prices[i].coverage = StripeRow(row)
  BY <1>1, <1>3, NothingLeft
<1>5. /\ Observed(m)[k] = None <=> Covered(row) = {}
      /\ Covered(row) # {} => Observed(m)[k].coverage = StripeRow(row)
  BY <1>2, <1>4
<1> QED
  BY <1>0, <1>5 DEF KeyAgrees, CatalogKeys, StripeKeys

\* The request that goes on to promote has nothing left to call.
LEMMA SuccessConverges ==
    ASSUME ConvergeInv, [Next]_vars, NEW p \in Publishers,
           pc[p] = "running", pc'[p] = "promoting"
    PROVE  Agrees(job[p].goal, Observed(job[p].mode))
<1>0. PICK m, j, goal, prices : /\ m = job[p].mode /\ j = job[p] /\ goal = job[p].goal
                                /\ prices = stripe[m]
  OBVIOUS
<1>1. /\ pc \in [Publishers -> PcValues] /\ job \in [Publishers -> Jobs] /\ j \in Jobs
      /\ m \in Modes /\ goal \in [Keys -> Coverages] /\ TypeInv /\ UniqueHolders
      /\ prices \in Seq(Prices) /\ Converging("running", j, prices)
  BY <1>0 DEF ConvergeInv, EvidenceInv, TypeInv, TypeOK, RequestsWellFormed, RequestConverges,
              Busy, Jobs
<1>2. j.todo = {} /\ ~j.failed
  <2>1. CASE Draft \/ Dashboard \/ UNCHANGED vars
    BY <2>1 DEF Draft, CreateDraftFrom, DiscardDraft, EditCheck, EditWrite,
                Dashboard, DashboardArchive, DashboardCreate, vars
  <2>2. ASSUME NEW q \in Publishers, Submit(q) \/ CompletionFails(q) \/ Crash(q) PROVE FALSE
    BY <1>1, <2>2 DEF Submit, Review, Confirm, Refuse, StartPublishAttempt, StartRefused,
                      CompletionFails, Crash
  <2>3. ASSUME NEW q \in Publishers, Execute(q), ~FinishPublish(q) PROVE FALSE
    BY <1>1, <2>3 DEF Execute, Reobserve, ReobserveMoved, FinishAborted, RecordOperation,
        OperationSkipped, StripeAnswers, StripeReplyLost, StripeRefuses, StripeReplies,
        CompleteOperation, PromotePublication
  <2>4. ASSUME NEW q \in Publishers, FinishPublish(q) PROVE q = p /\ j.todo = {} /\ ~j.failed
    BY <1>0, <1>1, <2>4 DEF FinishPublish, Promotes
  <2> QED
    BY <2>1, <2>2, <2>3, <2>4 DEF Next
<1>3. Rest("running", j) = {} /\ Sound("running", j)
  BY <1>2 DEF Rest, Sound
<1>4. ASSUME NEW k \in Keys PROVE KeyAgrees(goal, Observed(m), k)
  <2>1. OnWay(prices, {}, goal[k], k)
    BY <1>0, <1>1, <1>3, <1>4 DEF Converging
  <2> QED
    BY <1>0, <1>1, <2>1, ArrivedAgrees
<1> QED
  BY <1>0, <1>4 DEF KeyAgrees, Agrees, CatalogKeys, StripeKeys

\* A publish that closes as succeeded leaves Stripe in parity with the draft
\* it executed, whatever earlier attempts have left half done, and whatever
\* other requests, edits, failures and crashes came in between.
THEOREM SuccessMeansParity ==
    ASSUME "dashboard" \notin Events, CleanSeeds, OwnedSeeds
    PROVE  Spec => ConvergedOnSuccess
<1>1. Init => ConvergeInv
  BY InitConverge
<1>2. ConvergeInv /\ [Next]_vars => ConvergeInv'
  BY NextConverge
<1>3. ConvergeInv /\ [Next]_vars =>
         \A p \in Publishers :
            pc[p] = "running" /\ pc'[p] = "promoting" =>
               Agrees(job[p].goal, Observed(job[p].mode))
  BY SuccessConverges
<1> QED
  BY <1>1, <1>2, <1>3, PTL DEF Spec, ConvergedOnSuccess

--------------------------------------------------------------------------------
(* A request that fails in part.  A key is on its way to parity, or the    *)
(* log has a call of it that failed, or its plan has no Product.           *)

\* The log has a call of the key that failed.
FailureOf(log, k) ==
    \E n \in DOMAIN log : /\ log[n].key = k /\ log[n].kind # "create_product"
                          /\ log[n].status = "failed"

\* The plan of the key has no Product, and none is on its way.
Unsold(counts, rest, k) ==
    counts[PlanOf[k]] = 0 /\ \A d \in rest : d.kind # "create_product"

\* The call that has just failed, which its row is about to say, is of the key.
JustFailed(at, j, k) ==
    at = "replied" /\ j.reply = "failed" /\ j.call.kind # "create_product" /\ j.call.key = k

Accounted(at, j, prices, counts, log, k) ==
    \/ OnWay(prices, Rest(at, j), j.goal[k], k)
    \/ FailureOf(log, k)
    \/ Unsold(counts, Rest(at, j), k)
    \/ JustFailed(at, j, k)

\* An update names a Price that still carries its key, or no key any more.
UpdatesAimed(at, j, prices) ==
    \A d \in Rest(at, j) : d.verb = "update" =>
        d.price \in DOMAIN prices /\ prices[d.price].key \in {d.key, None}

Accounts(at, j, prices, counts, log) ==
    /\ UpdatesAimed(at, j, prices)
    /\ \A k \in Keys : Accounted(at, j, prices, counts, log, k)

RequestAccounts(p) ==
    pc[p] \in Busy =>
        Accounts(pc[p], job[p], stripe[job[p].mode], products[job[p].mode], AttemptOf(p).log)

AccountInv == ConvergeInv /\ \A p \in Publishers : RequestAccounts(p)

LEMMA SameCallsOnWay ==
    ASSUME NEW prices, NEW rest, NEW next, NEW k, Own(next, k) = Own(rest, k),
           NEW row, OnWay(prices, rest, row, k)
    PROVE  OnWay(prices, next, row, k)
<1>1. \A c : UpdatesOf(next, k, c) = UpdatesOf(rest, k, c)
  BY DEF UpdatesOf
<1>2. \A i : Suits(prices, rest, row, k, i) => Suits(prices, next, row, k, i)
  BY <1>1 DEF Suits
<1> QED
  BY <1>2 DEF OnWay, ToMake, ToRetire, ToUpdate

\* A call, and what is dropped with it, is of one key.
LEMMA OneKeyDropped ==
    ASSUME NEW todo, NEW call, NEW k, call.key # k \/ call.kind = "create_product"
    PROVE  /\ Own(todo \ ({call} \cup FollowUp(todo, call)), k) = Own(todo, k)
           /\ Own(todo \ FollowUp(todo, call), k) = Own(todo, k)
           /\ Own(todo \cup {call}, k) = Own(todo, k)
  BY DEF Own, FollowUp

\* Only a call that lands makes a Product.
LEMMA ProductSteps ==
    ASSUME TypeInv, [Next]_vars
    PROVE  \/ UNCHANGED products
           \/ \E p \in Publishers : /\ pc[p] = "calling" /\ pc' = [pc EXCEPT ![p] = "replied"]
                                   /\ StripeApplies(p)
<1>1. CASE Draft \/ Dashboard \/ UNCHANGED vars
  BY <1>1 DEF Draft, CreateDraftFrom, DiscardDraft, EditCheck, EditWrite, vars, account,
              Dashboard, DashboardArchive, DashboardCreate
<1>2. ASSUME NEW p \in Publishers, Submit(p) \/ CompletionFails(p) \/ Crash(p)
      PROVE  UNCHANGED products
  BY <1>2 DEF Submit, Review, Confirm, Refuse, StartPublishAttempt, StartRefused,
              CompletionFails, Crash, account
<1>3. ASSUME NEW p \in Publishers, StripeAnswers(p) \/ StripeReplyLost(p)
      PROVE  /\ pc[p] = "calling" /\ pc' = [pc EXCEPT ![p] = "replied"] /\ StripeApplies(p)
  BY <1>3 DEF StripeAnswers, StripeReplyLost, StripeReplies
<1>4. ASSUME NEW p \in Publishers, Execute(p), ~(StripeAnswers(p) \/ StripeReplyLost(p))
      PROVE  UNCHANGED products
  BY <1>4 DEF Execute, Reobserve, ReobserveMoved, FinishAborted, RecordOperation,
      OperationSkipped, StripeRefuses, CompleteOperation, FinishPublish, PromotePublication, account
<1> QED
  BY <1>1, <1>2, <1>3, <1>4 DEF Next

LEMMA ProductsStandStill ==
    ASSUME EvidenceInv, [Next]_vars, NEW p \in Publishers, pc[p] \in Busy, pc'[p] = pc[p]
    PROVE  products'[job[p].mode] = products[job[p].mode]
<1>1. /\ TypeInv /\ OneWriterPerMode /\ pc \in [Publishers -> PcValues] /\ job[p].mode \in Modes
      /\ products \in [Modes -> [Plans -> Nat]]
  BY LeaseMeansOneWriter DEF EvidenceInv, TypeInv, TypeOK, RequestsWellFormed, Busy
<1>2. ASSUME NEW q \in Publishers, pc[q] = "calling", pc' = [pc EXCEPT ![q] = "replied"],
             StripeApplies(q)
      PROVE  products'[job[p].mode] = products[job[p].mode]
  <2>1. q # p
    BY <1>1, <1>2
  <2>2. job[q].mode # job[p].mode
    BY <1>1, <1>2, <2>1 DEF OneWriterPerMode, Busy, Executing
  <2> QED
    BY <1>1, <1>2, <2>2 DEF StripeApplies
<1> QED
  BY <1>1, <1>2, ProductSteps

\* The log of a request that stands still: no other writes to it.
LEMMA LogStandsStill ==
    ASSUME EvidenceInv, [Next]_vars, NEW p \in Publishers, pc[p] \in Busy, pc'[p] = pc[p],
           job'[p] = job[p]
    PROVE  AttemptOf(p)' = AttemptOf(p)
<1> DEFINE a == job[p].attempt
<1>1. /\ a \in DOMAIN attempts /\ a \in DOMAIN attempts' /\ pc[p] \in Executing
      /\ pc \in [Publishers -> PcValues]
  BY AttemptsStay DEF EvidenceInv, LeaseHeld, Busy, Executing, TypeInv, TypeOK
<1>2. ASSUME NEW q \in Publishers, pc[q] \in Executing, job[q].attempt = a, Writes(q) PROVE FALSE
  <2>1. q = p
    BY <1>1, <1>2 DEF EvidenceInv, LeaseHeld
  <2> QED
    BY <1>1, <1>2, <2>1 DEF Writes, FinishAborted, FinishPublish, RecordOperation, CompleteOperation
<1>3. attempts'[a] = attempts[a]
  BY <1>1, <1>2, AttemptStep
<1> QED
  BY <1>3 DEF AttemptOf

LEMMA OthersAccount ==
    ASSUME AccountInv, [Next]_vars, "dashboard" \notin Events,
           NEW p \in Publishers, pc'[p] = pc[p], job'[p] = job[p]
    PROVE  RequestAccounts(p)'
<1> SUFFICES ASSUME pc[p] \in Busy PROVE RequestAccounts(p)'
  BY DEF RequestAccounts
<1>1. EvidenceInv /\ RequestAccounts(p)
  BY DEF AccountInv, ConvergeInv
<1>2. PICK at, j, prices, counts, log :
         /\ at = pc[p] /\ j = job[p] /\ prices = stripe[job[p].mode]
         /\ counts = products[job[p].mode] /\ log = AttemptOf(p).log
  OBVIOUS
<1>3. /\ stripe'[job[p].mode] = prices /\ products'[job[p].mode] = counts
      /\ AttemptOf(p)'.log = log
  BY <1>1, <1>2, AccountStandsStill, ProductsStandStill, LogStandsStill
<1>4. Accounts(at, j, prices, counts, log)
  BY <1>1, <1>2 DEF RequestAccounts
<1> QED
  BY <1>2, <1>3, <1>4 DEF RequestAccounts

LEMMA ReobserveAccounts ==
    ASSUME AccountInv, NEW p \in Publishers, Reobserve(p)
    PROVE  RequestAccounts(p)'
<1>0. PICK m, draft, observed, plan, prices :
         /\ m = job[p].mode /\ draft = rows[job[p].rev] /\ observed = Observed(m)
         /\ plan = BuildPublishPlan(draft, observed) /\ prices = stripe[m]
  OBVIOUS
<1>1. /\ pc \in [Publishers -> PcValues] /\ job \in [Publishers -> Jobs] /\ job[p] \in Jobs
      /\ m \in Modes /\ draft \in [Keys -> Coverages] /\ observed \in Observations
      /\ ConvergeInv /\ TypeInv /\ UniqueHolders
  BY <1>0, ObservedShape
     DEF AccountInv, ConvergeInv, EvidenceInv, TypeInv, TypeOK, RequestsWellFormed, Reobserve
<1> DEFINE next == [job[p] EXCEPT !.goal = draft, !.todo = plan]
<1>2. job'[p] = next /\ pc'[p] = "running" /\ UNCHANGED <<attempts, stripe, products>>
  BY <1>0, <1>1 DEF Reobserve, account
<1>3. next.todo = plan /\ next.mode = m /\ next.goal = draft
  BY <1>0, <1>1 DEF Jobs
<1> HIDE DEF next
<1>4. Rest("running", next) = plan
  BY <1>3 DEF Rest
<1>5. \A k \in Keys : OnWay(prices, plan, draft[k], k)
  BY <1>0, <1>1, ReobservedOnWay
<1>6. ASSUME NEW d \in plan, d.verb = "update"
      PROVE  d.price \in DOMAIN prices /\ prices[d.price].key = d.key
  <2>1. d.price = observed[d.key].id /\ d.key \in KeptKeys(draft, observed)
    BY <1>0, <1>1, <1>6, PlanMeaning
  <2>2. d.key \in Keys /\ observed[d.key] # None
    BY <2>1 DEF KeptKeys, Matched, StripeKeys
  <2>3. Holders(m, d.key) = {d.price}
    BY <1>0, <1>1, <2>1, <2>2, ObservedServes
  <2> QED
    BY <1>0, <2>3 DEF Holders
<1>7. \A counts, log : Accounts("running", next, prices, counts, log)
  BY <1>3, <1>4, <1>5, <1>6 DEF Accounts, Accounted, UpdatesAimed
<1> QED
  BY <1>0, <1>2, <1>3, <1>7 DEF RequestAccounts

\* A row that says a call failed stays, whatever is written after it.
LEMMA FailureStays ==
    ASSUME NEW log, NEW k, FailureOf(log, k), NEW grown,
           \A n \in DOMAIN log : log[n].status = "failed" => n \in DOMAIN grown /\ grown[n] = log[n]
    PROVE  FailureOf(grown, k)
<1>1. PICK n \in DOMAIN log : /\ log[n].key = k /\ log[n].kind # "create_product"
                              /\ log[n].status = "failed"
  BY DEF FailureOf
<1> QED
  BY <1>1 DEF FailureOf

LEMMA RecordAccounts ==
    ASSUME AccountInv, NEW p \in Publishers, RecordOperation(p)
    PROVE  RequestAccounts(p)'
<1>0. PICK j, a, prices, counts, log :
         /\ j = job[p] /\ a = job[p].attempt /\ prices = stripe[job[p].mode]
         /\ counts = products[job[p].mode] /\ log = attempts[a].log
  OBVIOUS
<1>1. /\ EvidenceInv /\ pc \in [Publishers -> PcValues] /\ job \in [Publishers -> Jobs]
      /\ j \in Jobs /\ pc[p] = "running" /\ Accounts("running", j, prices, counts, log)
  BY <1>0 DEF AccountInv, ConvergeInv, EvidenceInv, TypeInv, TypeOK, RequestAccounts, Busy,
              RecordOperation, AttemptOf
<1>2. PICK call \in NextCalls(j.todo) : Recorded(p, a, call)
  BY <1>0, <1>1, RecordWrites
<1>3. PICK next : next = job'[p]
  OBVIOUS
<1>4. /\ next.call = call /\ next.todo = j.todo \ {call} /\ next.mode = j.mode
      /\ next.attempt = a /\ pc'[p] = "calling" /\ UNCHANGED <<stripe, products>>
  BY <1>0, <1>1, <1>2, <1>3 DEF Recorded, RecordOperation, account
<1>5. next.goal = j.goal
  BY <1>0, <1>1, <1>3 DEF RecordOperation, Jobs
<1>6. PICK grown : grown = attempts'[a].log
  OBVIOUS
<1>7. \A n \in DOMAIN log : n \in DOMAIN grown /\ grown[n] = log[n]
  BY <1>0, <1>2, <1>6 DEF Recorded
<1>8. Rest("calling", next) = Rest("running", j)
  BY <1>2, <1>4 DEF Rest, NextCalls
<1>9. \A k \in Keys : FailureOf(log, k) => FailureOf(grown, k)
  BY <1>7, FailureStays
<1>10. Accounts("calling", next, prices, counts, grown)
  BY <1>1, <1>5, <1>8, <1>9 DEF Accounts, Accounted, UpdatesAimed, JustFailed
<1> QED
  BY <1>0, <1>3, <1>4, <1>6, <1>10 DEF RequestAccounts, AttemptOf

LEMMA SkipAccounts ==
    ASSUME AccountInv, NEW p \in Publishers, OperationSkipped(p), "log_failure" \notin Events
    PROVE  RequestAccounts(p)'
<1>0. PICK j, m, prices, counts, log :
         /\ j = job[p] /\ m = job[p].mode /\ prices = stripe[m]
         /\ counts = products[m] /\ log = AttemptOf(p).log
  OBVIOUS
<1>1. /\ pc \in [Publishers -> PcValues] /\ job \in [Publishers -> Jobs] /\ j \in Jobs
      /\ m \in Modes /\ products \in [Modes -> [Plans -> Nat]]
      /\ pc[p] = "running" /\ Accounts("running", j, prices, counts, log)
  BY <1>0 DEF AccountInv, ConvergeInv, EvidenceInv, TypeInv, TypeOK, RequestsWellFormed,
              RequestAccounts, Busy, OperationSkipped
<1>2. PICK call \in NextCalls(j.todo) :
         /\ ~Resolvable(m, call)
         /\ job' = [job EXCEPT ![p].failed = TRUE, ![p].todo = @ \ ({call} \cup FollowUp(@, call))]
  BY <1>0 DEF OperationSkipped
<1> DEFINE left == j.todo \ ({call} \cup FollowUp(j.todo, call))
           next == [j EXCEPT !.failed = TRUE, !.todo = @ \ ({call} \cup FollowUp(@, call))]
<1>3. next.todo = left /\ next.mode = m /\ next.goal = j.goal /\ next.attempt = j.attempt
  BY <1>0, <1>1 DEF Jobs
<1>4. job'[p] = next /\ pc'[p] = "running" /\ UNCHANGED <<attempts, stripe, products>>
  BY <1>0, <1>1, <1>2 DEF OperationSkipped, account
<1> HIDE DEF next
<1>5. Rest("running", next) = left /\ Rest("running", j) = j.todo /\ left \subseteq j.todo
  BY <1>3 DEF Rest
<1>6. /\ call \in j.todo /\ call.kind # "create_product" /\ call.verb = "create"
      /\ call.key \in Keys /\ counts[PlanOf[call.key]] = 0
  <2>1. call \in j.todo /\ call \in Calls
    BY <1>1 DEF NextCalls, Jobs
  <2>2. PlanOf[call.key] \in Plans /\ call.key \in Keys
    BY <2>1, PlanAssumption DEF Calls
  <2>3. counts[PlanOf[call.key]] \in Nat
    BY <1>0, <1>1, <2>2
  <2> QED
    BY <1>0, <1>2, <2>1, <2>2, <2>3 DEF Resolvable
<1>7. \A d \in j.todo : d.kind # "create_product"
  BY <1>2, <1>6 DEF NextCalls, Precedes
<1>8. ASSUME NEW k \in Keys PROVE Accounted("running", next, prices, counts, log, k)
  <2>1. CASE OnWay(prices, j.todo, j.goal[k], k) /\ call.key # k
    <3>1. Own(left, k) = Own(j.todo, k)
      BY <2>1, OneKeyDropped
    <3>2. PICK row : row = j.goal[k]
      OBVIOUS
    <3>3. OnWay(prices, left, row, k)
      BY <2>1, <3>1, <3>2, SameCallsOnWay
    <3> QED
      BY <1>3, <1>5, <3>2, <3>3 DEF Accounted
  <2>2. CASE call.key = k
    BY <1>5, <1>6, <1>7, <2>2 DEF Accounted, Unsold
  <2>3. CASE FailureOf(log, k)
    BY <2>3 DEF Accounted
  <2>4. CASE Unsold(counts, j.todo, k)
    BY <1>5, <2>4 DEF Accounted, Unsold
  <2> QED
    BY <1>1, <1>5, <2>1, <2>2, <2>3, <2>4 DEF Accounts, Accounted, JustFailed
<1>9. UpdatesAimed("running", next, prices)
  BY <1>1, <1>5 DEF Accounts, UpdatesAimed
<1>10. Accounts("running", next, prices, counts, log)
  BY <1>8, <1>9 DEF Accounts
<1>11. AttemptOf(p)'.log = log
  BY <1>0, <1>3, <1>4 DEF AttemptOf
<1> QED
  BY <1>0, <1>3, <1>4, <1>10, <1>11 DEF RequestAccounts

LEMMA AppliedAccounts ==
    ASSUME AccountInv, NEW p \in Publishers, NEW reply, StripeReplies(p, reply), StripeApplies(p)
    PROVE  RequestAccounts(p)'
<1>0. PICK j, m, call, prices, counts, log :
         /\ j = job[p] /\ m = job[p].mode /\ call = job[p].call /\ prices = stripe[m]
         /\ counts = products[m] /\ log = AttemptOf(p).log
  OBVIOUS
<1>1. /\ pc \in [Publishers -> PcValues] /\ job \in [Publishers -> Jobs] /\ j \in Jobs
      /\ TypeInv /\ m \in Modes /\ products \in [Modes -> [Plans -> Nat]]
      /\ pc[p] = "calling" /\ Accounts("calling", j, prices, counts, log) /\ RequestAimed(p)
  BY <1>0 DEF AccountInv, ConvergeInv, EvidenceInv, AimInv, ArchivesAimed, TypeInv, TypeOK,
              RequestsWellFormed, RequestAccounts, Busy, StripeReplies
<1> DEFINE next == [j EXCEPT !.reply = reply]
           rest == j.todo \cup {call}
           after == StripeAfter(prices, call)
<1>2. /\ next.call = call /\ next.todo = j.todo /\ next.mode = m /\ next.goal = j.goal
      /\ next.attempt = j.attempt
  BY <1>0, <1>1 DEF Jobs
<1>3. job'[p] = next /\ pc'[p] = "replied" /\ UNCHANGED attempts
  BY <1>0, <1>1 DEF StripeReplies
<1> HIDE DEF next
<1>4. Rest("replied", next) = j.todo /\ Rest("calling", j) = rest
  BY <1>0, <1>2 DEF Rest
<1>5. /\ call \in Calls /\ WellFormed(call) /\ prices \in Seq(Prices) /\ stripe'[m] = after
  BY <1>0, <1>1, AppliedPrices DEF TypeInv, RequestsWellFormed
<1>6. /\ \A d \in rest : d.verb \in {"update", "archive"} =>
            d.price \in DOMAIN prices /\ prices[d.price].key \in {d.key, None}
      /\ call.verb \in {"create", "update", "archive"}
  BY <1>0, <1>1, <1>4, <1>5 DEF Accounts, UpdatesAimed, RequestAimed, Aimed, Busy, Calls
<1>7. ASSUME NEW k \in Keys PROVE Accounted("replied", next, after, products'[m], log, k)
  <2>1. CASE OnWay(prices, rest, j.goal[k], k)
    <3>1. PICK row, left : row = j.goal[k] /\ left = j.todo
      OBVIOUS
    <3>2. PICK all : all = rest
      OBVIOUS
    <3>3. all \ {call} \subseteq left /\ left \subseteq all /\ call \in all
      BY <3>1, <3>2
    <3>4. OnWay(prices, all, row, k)
      BY <2>1, <3>1, <3>2
    <3>5. \A d \in all : d.verb = "archive" => d.price \in DOMAIN prices
      BY <1>6, <3>2
    <3>6. call.kind # "create_product" /\ call.verb # "create" =>
             call.price \in DOMAIN prices /\ prices[call.price].key \in {call.key, None}
      BY <1>6
    <3>7. OnWay(after, left, row, k)
      BY <1>5, <3>3, <3>4, <3>5, <3>6, KeyCallOnWay
    <3> QED
      BY <1>2, <1>4, <3>1, <3>7 DEF Accounted
  <2>2. CASE FailureOf(log, k)
    BY <2>2 DEF Accounted
  <2>3. CASE Unsold(counts, rest, k)
    <3>1. call.kind # "create_product"
      BY <2>3 DEF Unsold
    <3>2. products'[m] = counts
      BY <1>0, <1>1, <3>1 DEF StripeApplies, ProductsAfter
    <3> QED
      BY <1>4, <2>3, <3>2 DEF Accounted, Unsold
  <2> QED
    BY <1>1, <1>4, <2>1, <2>2, <2>3 DEF Accounts, Accounted, JustFailed
<1>8. UpdatesAimed("replied", next, after)
  <2>1. \A i \in DOMAIN prices : i \in DOMAIN after /\ after[i].key \in {prices[i].key, None}
    BY <1>5, StripeAfterKeeps
  <2> HIDE DEF after
  <2>2. ASSUME NEW d \in j.todo, d.verb = "update"
        PROVE  d.price \in DOMAIN after /\ after[d.price].key \in {d.key, None}
    BY <1>6, <2>1, <2>2
  <2> QED
    BY <1>4, <2>2 DEF UpdatesAimed
<1>9. Accounts("replied", next, after, products'[m], log)
  BY <1>7, <1>8 DEF Accounts
<1>10. AttemptOf(p)'.log = log
  BY <1>0, <1>2, <1>3 DEF AttemptOf
<1> QED
  BY <1>0, <1>2, <1>3, <1>5, <1>9, <1>10 DEF RequestAccounts

LEMMA RefusedAccounts ==
    ASSUME AccountInv, NEW p \in Publishers, StripeRefuses(p)
    PROVE  RequestAccounts(p)'
<1>0. PICK j, m, call, prices, counts, log :
         /\ j = job[p] /\ m = job[p].mode /\ call = job[p].call /\ prices = stripe[m]
         /\ counts = products[m] /\ log = AttemptOf(p).log
  OBVIOUS
<1>1. /\ pc \in [Publishers -> PcValues] /\ job \in [Publishers -> Jobs] /\ j \in Jobs
      /\ pc[p] = "calling" /\ Accounts("calling", j, prices, counts, log)
  BY <1>0 DEF AccountInv, ConvergeInv, EvidenceInv, TypeInv, TypeOK, RequestAccounts, Busy,
              StripeRefuses, StripeReplies
<1> DEFINE next == [j EXCEPT !.reply = "failed"]
           rest == j.todo \cup {call}
<1>2. /\ next.call = call /\ next.todo = j.todo /\ next.mode = m /\ next.goal = j.goal
      /\ next.attempt = j.attempt /\ next.reply = "failed"
  BY <1>0, <1>1 DEF Jobs
<1>3. job'[p] = next /\ pc'[p] = "replied" /\ UNCHANGED <<attempts, stripe, products>>
  BY <1>0, <1>1 DEF StripeRefuses, StripeReplies, account
<1> HIDE DEF next
<1>4. Rest("replied", next) = j.todo /\ Rest("calling", j) = rest
  BY <1>0, <1>2 DEF Rest
<1>5. ASSUME NEW k \in Keys PROVE Accounted("replied", next, prices, counts, log, k)
  <2>1. CASE OnWay(prices, rest, j.goal[k], k) /\ (call.key # k \/ call.kind = "create_product")
    <3>1. PICK row, left, all : row = j.goal[k] /\ left = j.todo /\ all = rest
      OBVIOUS
    <3>2. Own(left, k) = Own(all, k)
      BY <2>1, <3>1, OneKeyDropped
    <3>3. OnWay(prices, left, row, k)
      BY <2>1, <3>1, <3>2, SameCallsOnWay
    <3> QED
      BY <1>2, <1>4, <3>1, <3>3 DEF Accounted
  <2>2. CASE call.key = k /\ call.kind # "create_product"
    BY <1>2, <2>2 DEF Accounted, JustFailed
  <2>3. CASE FailureOf(log, k)
    BY <2>3 DEF Accounted
  <2>4. CASE Unsold(counts, rest, k)
    BY <1>4, <2>4 DEF Accounted, Unsold
  <2> QED
    BY <1>1, <1>4, <2>1, <2>2, <2>3, <2>4 DEF Accounts, Accounted, JustFailed
<1>6. UpdatesAimed("replied", next, prices)
  BY <1>1, <1>4 DEF Accounts, UpdatesAimed
<1>7. Accounts("replied", next, prices, counts, log)
  BY <1>5, <1>6 DEF Accounts
<1>8. AttemptOf(p)'.log = log
  BY <1>0, <1>2, <1>3 DEF AttemptOf
<1> QED
  BY <1>0, <1>2, <1>3, <1>7, <1>8 DEF RequestAccounts

LEMMA CompleteAccounts ==
    ASSUME AccountInv, NEW p \in Publishers, CompleteOperation(p)
    PROVE  RequestAccounts(p)'
<1>0. PICK j, a, call, prices, counts, log, learnt :
         /\ j = job[p] /\ a = job[p].attempt /\ call = job[p].call
         /\ prices = stripe[job[p].mode] /\ counts = products[job[p].mode]
         /\ log = attempts[a].log /\ learnt = attempts'[a].log
  OBVIOUS
<1>1. /\ EvidenceInv /\ pc \in [Publishers -> PcValues] /\ job \in [Publishers -> Jobs]
      /\ j \in Jobs /\ pc[p] = "replied" /\ Accounts("replied", j, prices, counts, log)
  BY <1>0 DEF AccountInv, ConvergeInv, EvidenceInv, TypeInv, TypeOK, RequestAccounts, Busy,
              CompleteOperation, AttemptOf
<1>2. /\ Len(log) \in Nat \ {0} /\ DOMAIN log = 1..Len(log) /\ DOMAIN learnt = 1..Len(log)
      /\ \A n \in 1..Len(log) - 1 : learnt[n] = log[n]
      /\ SameCall(log[Len(log)], learnt[Len(log)])
      /\ learnt[Len(log)].status = j.reply
  BY <1>0, <1>1, CompleteWrites
<1>3. /\ log[Len(log)].status = "pending"
      /\ log[Len(log)].key = call.key /\ log[Len(log)].kind = call.kind
  <2>1. log[Len(log)] = LogRow(call)
    BY <1>0, <1>1 DEF EvidenceInv, Evidence, RequestEvidence
  <2> QED
    BY <2>1 DEF LogRow, Row
<1> DEFINE lost == j.reply = "failed"
           left == IF lost THEN j.todo \ FollowUp(j.todo, call) ELSE j.todo
           next == [j EXCEPT !.failed = @ \/ lost,
                             !.todo = IF lost THEN @ \ FollowUp(@, j.call) ELSE @,
                             !.call = None, !.reply = "none"]
<1>4. next.todo = left /\ next.mode = j.mode /\ next.goal = j.goal /\ next.attempt = a
  BY <1>0, <1>1 DEF Jobs
<1>5. job'[p] = next /\ pc'[p] = "running" /\ UNCHANGED <<stripe, products>>
  BY <1>0, <1>1 DEF CompleteOperation, account
<1> HIDE DEF next
<1>6. Rest("running", next) = left /\ Rest("replied", j) = j.todo /\ left \subseteq j.todo
  BY <1>4 DEF Rest
<1>7. ASSUME NEW n \in DOMAIN log, log[n].status = "failed"
      PROVE  n \in DOMAIN learnt /\ learnt[n] = log[n]
  BY <1>2, <1>3, <1>7
<1>8. ASSUME lost, call.kind # "create_product", NEW k, call.key = k PROVE FailureOf(learnt, k)
  <2>1. /\ Len(log) \in DOMAIN learnt /\ learnt[Len(log)].key = k
        /\ learnt[Len(log)].kind # "create_product" /\ learnt[Len(log)].status = "failed"
    BY <1>2, <1>3, <1>8 DEF SameCall
  <2> QED
    BY <2>1 DEF FailureOf
<1>9. ASSUME NEW k \in Keys PROVE Accounted("running", next, prices, counts, learnt, k)
  <2>1. CASE OnWay(prices, j.todo, j.goal[k], k)
    <3>1. CASE lost /\ call.key = k /\ call.kind # "create_product"
      BY <1>8, <3>1 DEF Accounted
    <3>2. CASE ~(lost /\ call.key = k /\ call.kind # "create_product")
      <4>1. PICK row, now, then : row = j.goal[k] /\ now = j.todo /\ then = left
        OBVIOUS
      <4>2. Own(then, k) = Own(now, k)
        <5>1. CASE lost
          <6>1. call.key # k \/ call.kind = "create_product"
            BY <3>2, <5>1
          <6>2. then = now \ FollowUp(now, call)
            BY <4>1, <5>1
          <6> QED
            BY <6>1, <6>2, OneKeyDropped
        <5>2. CASE ~lost
          BY <4>1, <5>2
        <5> QED
          BY <5>1, <5>2
      <4>3. OnWay(prices, then, row, k)
        BY <2>1, <4>1, <4>2, SameCallsOnWay
      <4> QED
        BY <1>4, <1>6, <4>1, <4>3 DEF Accounted
    <3> QED
      BY <3>1, <3>2
  <2>2. CASE FailureOf(log, k)
    BY <1>7, <2>2, FailureStays DEF Accounted
  <2>3. CASE Unsold(counts, j.todo, k)
    BY <1>6, <2>3 DEF Accounted, Unsold
  <2>4. CASE JustFailed("replied", j, k)
    BY <1>0, <1>8, <2>4 DEF Accounted, JustFailed
  <2> QED
    BY <1>1, <1>6, <2>1, <2>2, <2>3, <2>4 DEF Accounts, Accounted
<1>10. UpdatesAimed("running", next, prices)
  BY <1>1, <1>6 DEF Accounts, UpdatesAimed
<1>11. Accounts("running", next, prices, counts, learnt)
  BY <1>9, <1>10 DEF Accounts
<1> QED
  BY <1>0, <1>4, <1>5, <1>11 DEF RequestAccounts, AttemptOf

LEMMA NextAccounts ==
    ASSUME AccountInv, [Next]_vars, "dashboard" \notin Events, "log_failure" \notin Events,
           NEW q \in Publishers
    PROVE  RequestAccounts(q)'
<1>0. pc \in [Publishers -> PcValues] /\ job \in [Publishers -> Jobs]
  BY DEF AccountInv, ConvergeInv, EvidenceInv, TypeInv, TypeOK
<1>1. CASE pc'[q] = pc[q] /\ job'[q] = job[q]
  BY <1>1, OthersAccount
<1>2. CASE pc'[q] \notin Busy
  BY <1>2 DEF RequestAccounts
<1>3. CASE ~(pc'[q] = pc[q] /\ job'[q] = job[q]) /\ pc'[q] \in Busy
  <2>1. CASE Draft \/ Dashboard \/ UNCHANGED vars
    BY <1>3, <2>1 DEF Draft, CreateDraftFrom, DiscardDraft, EditCheck, EditWrite,
                      Dashboard, DashboardArchive, DashboardCreate, vars
  <2>2. ASSUME NEW p \in Publishers, Submit(p) \/ CompletionFails(p) \/ Crash(p) PROVE FALSE
    BY <1>0, <1>3, <2>2 DEF Submit, Review, Confirm, Refuse, StartPublishAttempt, StartRefused,
                            CompletionFails, Crash, Busy
  <2>3. ASSUME NEW p \in Publishers, Execute(p) PROVE RequestAccounts(q)'
    <3>1. p = q
      BY <1>0, <1>3, <2>3, OneAtATime
    <3>2. CASE ReobserveMoved(q) \/ FinishAborted(q) \/ FinishPublish(q) \/ PromotePublication(q)
      BY <1>0, <1>3, <3>2 DEF ReobserveMoved, FinishAborted, FinishPublish, PromotePublication, Busy
    <3>3. CASE StripeAnswers(q) \/ StripeReplyLost(q)
      BY <3>3, AppliedAccounts DEF StripeAnswers, StripeReplyLost
    <3> QED
      BY <2>3, <3>1, <3>2, <3>3, ReobserveAccounts, RecordAccounts, SkipAccounts, RefusedAccounts,
         CompleteAccounts DEF Execute
  <2> QED
    BY <2>1, <2>2, <2>3 DEF Next
<1> QED
  BY <1>1, <1>2, <1>3

\* When finishPublishAttempt closes an attempt, whatever its outcome, the
\* account agrees with the draft on every key but those whose failed call the
\* operation log names and those whose plan the account has no Product for.
FailuresAreNamed ==
    [][\A p \in Publishers : FinishPublish(p) =>
          \A k \in Keys : \/ KeyAgrees(job[p].goal, Observed(job[p].mode), k)
                          \/ FailureOf(AttemptOf(p).log, k)
                          \/ products[job[p].mode][PlanOf[k]] = 0]_vars

LEMMA FinishedNames ==
    ASSUME AccountInv, NEW p \in Publishers, FinishPublish(p), NEW k \in Keys
    PROVE  \/ KeyAgrees(job[p].goal, Observed(job[p].mode), k)
           \/ FailureOf(AttemptOf(p).log, k)
           \/ products[job[p].mode][PlanOf[k]] = 0
<1>0. PICK j, m, goal : j = job[p] /\ m = job[p].mode /\ goal = job[p].goal
  OBVIOUS
<1>1. /\ TypeInv /\ UniqueHolders /\ m \in Modes /\ goal \in [Keys -> Coverages]
      /\ pc[p] = "running" /\ j.todo = {}
  BY <1>0 DEF AccountInv, ConvergeInv, EvidenceInv, TypeInv, TypeOK, RequestsWellFormed,
              FinishPublish, Jobs
<1>2. Rest("running", j) = {}
  BY <1>1 DEF Rest
<1>3. Accounted("running", j, stripe[m], products[m], AttemptOf(p).log, k)
  BY <1>0, <1>1 DEF AccountInv, RequestAccounts, Accounts, Busy
<1>4. CASE OnWay(stripe[m], {}, goal[k], k)
  BY <1>0, <1>1, <1>4, ArrivedAgrees
<1> QED
  BY <1>0, <1>2, <1>3, <1>4 DEF Accounted, Unsold, JustFailed

\* publish-executor.ts goes on after a call has failed; an attempt that ends
\* failed has nevertheless done its work on every key that its log does not
\* name, so that the failed rows tell an operator where Stripe and the draft
\* still differ: for any plan, refusals, lost replies, crashes and any number
\* of requests, as long as the log itself can be written.
THEOREM LogNamesFailures ==
    ASSUME "dashboard" \notin Events, "log_failure" \notin Events, CleanSeeds, OwnedSeeds
    PROVE  Spec => FailuresAreNamed
<1>1. Init => AccountInv
  <2>1. Init => \A p \in Publishers : RequestAccounts(p)
    BY DEF Init, RequestAccounts, Busy
  <2> QED
    BY <2>1, InitConverge DEF AccountInv
<1>2. AccountInv /\ [Next]_vars => AccountInv'
  <2>1. AccountInv /\ [Next]_vars => \A q \in Publishers : RequestAccounts(q)'
    BY NextAccounts
  <2>2. AccountInv /\ [Next]_vars => ConvergeInv'
    BY NextConverge DEF AccountInv
  <2> QED
    BY <2>1, <2>2 DEF AccountInv
<1>3. AccountInv =>
         \A p \in Publishers : FinishPublish(p) =>
            \A k \in Keys : \/ KeyAgrees(job[p].goal, Observed(job[p].mode), k)
                            \/ FailureOf(AttemptOf(p).log, k)
                            \/ products[job[p].mode][PlanOf[k]] = 0
  BY FinishedNames
<1> QED
  BY <1>1, <1>2, <1>3, PTL DEF Spec, FailuresAreNamed
=============================================================================

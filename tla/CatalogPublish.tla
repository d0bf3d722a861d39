---------------------------- MODULE CatalogPublish ----------------------------
(***************************************************************************)
(* Publishing the plan catalog to Stripe.  Operators edit a draft revision *)
(* in Postgres, review the plan that would bring a Stripe account to it    *)
(* and publish; the executor opens an attempt, re-observes Stripe, writes  *)
(* each Stripe call to a log before making it, closes the attempt and, on  *)
(* success, promotes the revision.  It models lib/db/publish-repo.ts,      *)
(* lib/billing/publish-executor.ts, orphans.ts and the server actions of   *)
(* app/(console)/platform/billing/catalog/actions.ts.                      *)
(*                                                                         *)
(* Every step is one transaction of the database or one call of Stripe; a  *)
(* request is the sequence of its steps and may die between any two.       *)
(*                                                                         *)
(* Simplifications: the reads of observeAndPlan (catalog, draft, Stripe)   *)
(* are one step; a Stripe call that times out has either landed or never   *)
(* will; the id of a created Price is not copied into its log row, since   *)
(* nothing reads it back; createDraftFrom reads and writes in one step.    *)
(***************************************************************************)
EXTENDS PublishPlan, Sequences

CONSTANTS
    Revisions,
    Modes,                \* Stripe accounts: "test", "live" or both
    Publishers,           \* concurrent publishAction requests
    Baseline,             \* the revision 0035 migrates the old catalog into
    InitialRows,          \* the rows of the revisions that exist at first
    StripeSeeds,          \* the contents a Stripe account may start with
    EditAmounts,          \* amounts setAmountAction may be given
    DashboardCoverages,   \* Prices a human may create in the Dashboard
    Events,               \* what the environment does in this instance
    MaxAttempts,          \* bound on publish attempts
    MaxPrices             \* bound on Prices created in the Dashboard

Prices == [key : Keys \cup {None}, currency : Currencies,
           coverage : Coverages, active : BOOLEAN]

EnvironmentEvents ==
    {"refusal",      \* Stripe refuses a call
     "lost_reply",   \* a call lands and its reply is lost
     "log_failure",  \* the operation log cannot be written
     "crash",        \* the console dies in the middle of a request
     "dashboard"}    \* someone changes Prices by hand

ASSUME PublishAssumption ==
    /\ Modes \subseteq {"test", "live"}
    /\ Baseline \in DOMAIN InitialRows
    /\ DOMAIN InitialRows \subseteq Revisions
    /\ \A r \in DOMAIN InitialRows : InitialRows[r] \in [Keys -> Coverages]
    /\ Cardinality(DOMAIN InitialRows) \in {1, 2}
    /\ StripeSeeds \subseteq Seq(Prices)
    /\ EditAmounts \subseteq Nat \ {0}     \* an amount is positive (0032)
    /\ DashboardCoverages \subseteq Coverages
    /\ Events \subseteq EnvironmentEvents
    /\ MaxAttempts \in Nat /\ MaxPrices \in Nat

ASSUME RevisionAssumption == None \notin Revisions /\ None \notin Modes

VARIABLES
    revs,        \* Postgres: plan_catalog_revisions
    basedOn,     \*           and what each was copied from
    rows,        \*           plan_catalog_prices and _amounts of a revision
    live,        \*           the publication not superseded, per mode
    published,   \*           every (mode, revision) ever promoted
    attempts,    \*           publish attempts, each with its operation log
    stripe,      \* the Prices of each Stripe account; an id is an index
    products,    \* how many Products each account holds for a plan
    pc, job,     \* the publishAction requests in flight
    editor       \* the setDraftAmount transaction in flight

database == <<revs, basedOn, rows, live, published>>
account == <<stripe, products>>
vars == <<database, attempts, account, pc, job, editor>>

--------------------------------------------------------------------------------
Unwritten == [k \in Keys |-> Uncovered]

\* Postgres refuses to delete a revision that one of these names.
Unpublished(r) == \A m \in Modes : <<m, r>> \notin published
Live(r) == \E m \in Modes : live[m] = r
Attempted(r) == \E a \in DOMAIN attempts : attempts[a].rev = r

OpenAttempts(m) ==
    {a \in DOMAIN attempts : attempts[a].mode = m /\ attempts[a].outcome = "open"}

\* listPrices: the active Prices.  Stripe lets one active Price hold a key.
Holders(m, k) == {i \in DOMAIN stripe[m] : stripe[m][i].active /\ stripe[m][i].key = k}

View(m, i) == [id |-> i, currency |-> stripe[m][i].currency, coverage |-> stripe[m][i].coverage]

Observed(m) ==
    [k \in Keys |-> IF Holders(m, k) = {} THEN None
                    ELSE View(m, CHOOSE i \in Holders(m, k) : TRUE)]

Breaches(r, m) == RequiresConfirmation(rows[live[m]], rows[r], Observed(m), m)

NoJob == [rev |-> None, mode |-> None, ack |-> {}, confirmed |-> {}, goal |-> Unwritten,
          attempt |-> 0, todo |-> {}, call |-> None, reply |-> "none", failed |-> FALSE]

Executing == {"open", "aborting", "running", "calling", "replied"}

Init ==
    /\ revs = [r \in Revisions |-> IF r \in DOMAIN InitialRows THEN "exists" ELSE "unborn"]
    /\ basedOn = [r \in Revisions |->
                    IF r \in DOMAIN InitialRows \ {Baseline} THEN Baseline ELSE None]
    /\ rows = [r \in Revisions |->
                 IF r \in DOMAIN InitialRows THEN InitialRows[r] ELSE Unwritten]
    /\ live = [m \in Modes |-> Baseline]
    /\ published = Modes \X {Baseline}
    /\ attempts = <<>>
    /\ stripe \in [Modes -> StripeSeeds]
    /\ products = [m \in Modes |-> [plan \in Plans |->
                     IF \E i \in DOMAIN stripe[m], k \in Keys :
                            stripe[m][i].key = k /\ PlanOf[k] = plan
                     THEN 1 ELSE 0]]
    /\ pc = [p \in Publishers |-> "idle"]
    /\ job = [p \in Publishers |-> NoJob]
    /\ editor = None

--------------------------------------------------------------------------------
(* The draft.                                                              *)

\* One draft at a time, under an advisory lock, copied from what m publishes.
CreateDraftFrom(m, r) ==
    /\ \A s \in Revisions : revs[s] = "exists" => ~Unpublished(s)
    /\ revs[r] = "unborn"
    /\ revs' = [revs EXCEPT ![r] = "exists"]
    /\ basedOn' = [basedOn EXCEPT ![r] = live[m]]
    /\ rows' = [rows EXCEPT ![r] = rows[live[m]]]
    /\ UNCHANGED <<live, published, attempts, account, pc, job, editor>>

DiscardableUnlessLive(r) == ~Live(r) /\ \A s \in Revisions : basedOn[s] # r

\* The code checks the live publications only; the foreign keys of the
\* publications, the attempts and basedOn refuse the rest.
Discardable(r) ==
    ~Live(r) /\ Unpublished(r) /\ ~Attempted(r) /\ \A s \in Revisions : basedOn[s] # r

DiscardDraft(r) ==
    /\ revs[r] = "exists"
    /\ Discardable(r)
    /\ revs' = [revs EXCEPT ![r] = "discarded"]
    /\ basedOn' = [basedOn EXCEPT ![r] = None]
    /\ rows' = [rows EXCEPT ![r] = Unwritten]
    /\ UNCHANGED <<live, published, attempts, account, pc, job, editor>>

Edits == [rev : Revisions, key : Keys, currency : Currencies, amount : EditAmounts]

\* setDraftAmount checks that the revision is not live, then looks the price
\* up and writes: two statements of one READ COMMITTED transaction.
EditCheck(edit) ==
    /\ editor = None
    /\ revs[edit.rev] = "exists"
    /\ ~Live(edit.rev)
    /\ editor' = edit
    /\ UNCHANGED <<database, attempts, account, pc, job>>

EditWrite ==
    /\ editor # None
    /\ LET row == rows[editor.rev][editor.key]
           tax == IF row[editor.currency] = None THEN "unspecified"
                  ELSE row[editor.currency].tax
       IN  IF Covered(row) = {} THEN UNCHANGED rows    \* no such price
           ELSE rows' = [rows EXCEPT ![editor.rev][editor.key][editor.currency] =
                                [amount |-> editor.amount, tax |-> tax]]
    /\ editor' = None
    /\ UNCHANGED <<revs, basedOn, live, published, attempts, account, pc, job>>

--------------------------------------------------------------------------------
(* publishAction, from the operator's review to the open attempt.          *)

\* planPublishAction: a read.  The dialog offers to publish unless the plan
\* is refused, and sends back the names of the rules it showed.
Review(p, r, m) ==
    /\ pc[p] = "idle"
    /\ revs[r] = "exists"
    /\ ~Refused(rows[r], Observed(m))
    /\ pc' = [pc EXCEPT ![p] = "reviewed"]
    /\ job' = [job EXCEPT ![p] = [NoJob EXCEPT !.rev = r, !.mode = m, !.ack = Breaches(r, m)]]
    /\ UNCHANGED <<database, attempts, account, editor>>

\* The plan publishAction builds for itself breaches only acknowledged rules.
Confirmable(p) ==
    /\ ~Refused(rows[job[p].rev], Observed(job[p].mode))
    /\ Breaches(job[p].rev, job[p].mode) \subseteq job[p].ack

Confirm(p) ==
    /\ pc[p] = "reviewed"
    /\ Confirmable(p)
    /\ Len(attempts) < MaxAttempts    \* the bound; StartRefused has it for a race
    /\ pc' = [pc EXCEPT ![p] = "confirmed"]
    /\ job' = [job EXCEPT ![p].confirmed = Fingerprint(Observed(job[p].mode))]
    /\ UNCHANGED <<database, attempts, account, editor>>

\* PublishRefused, a capability withdrawn since the review, or the operator
\* closes the dialog.
Refuse(p) ==
    /\ pc[p] = "reviewed"
    /\ pc' = [pc EXCEPT ![p] = "idle"]
    /\ job' = [job EXCEPT ![p] = NoJob]
    /\ UNCHANGED <<database, attempts, account, editor>>

StartableUnlessDiscarded(p) == revs[job[p].rev] = "exists"

\* One open attempt per mode, under an advisory lock; the foreign key wants
\* the revision.
Startable(p) ==
    /\ OpenAttempts(job[p].mode) = {}
    /\ revs[job[p].rev] = "exists"

StartPublishAttempt(p) ==
    /\ pc[p] = "confirmed"
    /\ Startable(p) /\ Len(attempts) < MaxAttempts
    /\ attempts' = Append(attempts, [rev |-> job[p].rev, mode |-> job[p].mode,
                                     fingerprint |-> job[p].confirmed,
                                     outcome |-> "open", log |-> <<>>])
    /\ pc' = [pc EXCEPT ![p] = "open"]
    /\ job' = [job EXCEPT ![p].attempt = Len(attempts) + 1]
    /\ UNCHANGED <<database, account, editor>>

StartRefused(p) ==
    /\ pc[p] = "confirmed"
    /\ ~Startable(p) \/ Len(attempts) = MaxAttempts
    /\ pc' = [pc EXCEPT ![p] = "idle"]
    /\ job' = [job EXCEPT ![p] = NoJob]
    /\ UNCHANGED <<database, attempts, account, editor>>

--------------------------------------------------------------------------------
(* executePublish                                                          *)

AttemptOf(p) == attempts[job[p].attempt]

\* The fresh observation is the one confirmed, and no guard refuses.
Unmoved(p) ==
    /\ Fingerprint(Observed(job[p].mode)) = AttemptOf(p).fingerprint
    /\ ~Refused(rows[job[p].rev], Observed(job[p].mode))

Reobserve(p) ==
    /\ pc[p] = "open"
    /\ Unmoved(p)
    /\ pc' = [pc EXCEPT ![p] = "running"]
    /\ job' = [job EXCEPT
                 ![p].goal = rows[job[p].rev],
                 ![p].todo = BuildPublishPlan(rows[job[p].rev], Observed(job[p].mode))]
    /\ UNCHANGED <<database, attempts, account, editor>>

ReobserveMoved(p) ==
    /\ pc[p] = "open"
    /\ ~Unmoved(p)
    /\ pc' = [pc EXCEPT ![p] = "aborting"]
    /\ UNCHANGED <<database, attempts, account, job, editor>>

ForgetAborted(p) ==
    /\ pc[p] = "aborting"
    /\ pc' = [pc EXCEPT ![p] = "idle"]
    /\ job' = [job EXCEPT ![p] = NoJob]
    /\ UNCHANGED <<database, attempts, account, editor>>

FinishAborted(p) ==
    /\ pc[p] = "aborting"
    /\ attempts' = [attempts EXCEPT ![job[p].attempt].outcome = "aborted"]
    /\ pc' = [pc EXCEPT ![p] = "idle"]
    /\ job' = [job EXCEPT ![p] = NoJob]
    /\ UNCHANGED <<database, account, editor>>

\* resolveProductId: a Price needs a Product to belong to.
Resolvable(m, call) ==
    call.verb = "create" /\ call.kind # "create_product" => products[m][PlanOf[call.key]] > 0

FollowUpNone(todo, call) == {}

\* The archive of a replacement is not attempted when its create failed.
FollowUp(todo, call) ==
    {other \in todo : /\ call.kind = "replace_price" /\ call.verb = "create"
                      /\ other.kind = "replace_price"
                      /\ other.key = call.key}

Row(call, price) ==
    [kind |-> call.kind, verb |-> call.verb, key |-> call.key, price |-> price,
     status |-> "pending"]

LogRowByKey(call) == Row(call, 0)
LogRowNull(call) == Row(call, IF call.verb = "create" THEN None ELSE call.price)

\* The row names the Price to be updated or archived, captured by the plan;
\* 0 stands for the id a create has yet to learn.
LogRow(call) == Row(call, call.price)

\* recordOperation: write-ahead.
RecordOperation(p) ==
    /\ pc[p] = "running"
    /\ \E call \in NextCalls(job[p].todo) :
          /\ Resolvable(job[p].mode, call)
          /\ attempts' = [attempts EXCEPT ![job[p].attempt].log = Append(@, LogRow(call))]
          /\ job' = [job EXCEPT ![p].call = call, ![p].todo = @ \ {call}]
    /\ pc' = [pc EXCEPT ![p] = "calling"]
    /\ UNCHANGED <<database, account, editor>>

OperationForgotten(p) ==
    /\ pc[p] = "running"
    /\ \E call \in NextCalls(job[p].todo) :
          job' = [job EXCEPT ![p].todo = @ \ ({call} \cup FollowUp(@, call))]
    /\ UNCHANGED <<database, attempts, account, pc, editor>>

\* The operation fails before its row is written: no Product, or no log.
OperationSkipped(p) ==
    /\ pc[p] = "running"
    /\ \E call \in NextCalls(job[p].todo) :
          /\ ~Resolvable(job[p].mode, call) \/ "log_failure" \in Events
          /\ job' = [job EXCEPT ![p].failed = TRUE,
                                ![p].todo = @ \ ({call} \cup FollowUp(@, call))]
    /\ UNCHANGED <<database, attempts, account, pc, editor>>

\* What Stripe accepts.  A create without transfer_lookup_key is refused
\* while an active Price holds the key; a currency option can only be added;
\* a tax behaviour can only leave "unspecified".
Accepts(m, call) ==
    /\ Payable(call.coverage)
    /\ call.kind = "create_price" => Holders(m, call.key) = {}
    /\ call.kind = "add_currency_option" =>
          stripe[m][call.price].coverage[call.currency] = None
    /\ call.kind = "update_tax_behavior" =>
          stripe[m][call.price].coverage[call.currency] # None
             /\ stripe[m][call.price].coverage[call.currency].tax = "unspecified"

\* A new Price takes its lookup key from any other that carries it.
WithNewPrice(prices, call) ==
    Append([i \in DOMAIN prices |->
              IF prices[i].key = call.key THEN [prices[i] EXCEPT !.key = None] ELSE prices[i]],
           [key |-> call.key, currency |-> call.currency,
            coverage |-> call.coverage, active |-> TRUE])

\* addCurrencyOption sends an amount only, updatePriceTaxBehavior a tax
\* behaviour only.
UpdatedCell(cell, call) ==
    IF call.kind = "add_currency_option"
    THEN [amount |-> call.coverage[call.currency].amount, tax |-> "unspecified"]
    ELSE [amount |-> cell.amount, tax |-> call.coverage[call.currency].tax]

UpdatedPrice(price, call) ==
    IF call.verb = "archive"
    THEN [price EXCEPT !.active = FALSE]
    ELSE [price EXCEPT !.coverage[call.currency] = UpdatedCell(@, call)]

StripeAfter(prices, call) ==
    IF call.kind = "create_product" THEN prices
    ELSE IF call.verb = "create" THEN WithNewPrice(prices, call)
    ELSE [prices EXCEPT ![call.price] = UpdatedPrice(@, call)]

\* createProduct looks nothing up: it adds a Product whether or not one exists.
ProductsAfter(counts, call) ==
    IF call.kind = "create_product" THEN [counts EXCEPT ![PlanOf[call.key]] = @ + 1] ELSE counts

StripeReplies(p, reply) ==
    /\ pc[p] = "calling"
    /\ pc' = [pc EXCEPT ![p] = "replied"]
    /\ job' = [job EXCEPT ![p].reply = reply]
    /\ UNCHANGED <<database, attempts, editor>>

StripeApplies(p) ==
    /\ Accepts(job[p].mode, job[p].call)
    /\ stripe' = [stripe EXCEPT ![job[p].mode] = StripeAfter(@, job[p].call)]
    /\ products' = [products EXCEPT ![job[p].mode] = ProductsAfter(@, job[p].call)]

StripeAnswers(p) == StripeReplies(p, "succeeded") /\ StripeApplies(p)

StripeReplyLost(p) ==
    "lost_reply" \in Events /\ StripeReplies(p, "failed") /\ StripeApplies(p)

StripeRefuses(p) ==
    /\ StripeReplies(p, "failed")
    /\ ~Accepts(job[p].mode, job[p].call) \/ "refusal" \in Events
    /\ UNCHANGED account

\* completeOperation: the row learns what Stripe said.
CompleteOperation(p) ==
    LET lost == job[p].reply = "failed"
    IN  /\ pc[p] = "replied"
        /\ attempts' = [attempts EXCEPT
                          ![job[p].attempt].log[Len(AttemptOf(p).log)].status = job[p].reply]
        /\ job' = [job EXCEPT
                     ![p].failed = @ \/ lost,
                     ![p].todo = IF lost THEN @ \ FollowUp(@, job[p].call) ELSE @,
                     ![p].call = None,
                     ![p].reply = "none"]
        /\ pc' = [pc EXCEPT ![p] = "running"]
        /\ UNCHANGED <<database, account, editor>>

\* OperationLogWriteFailure: the row cannot be completed, so the publish
\* stops where it stands, its attempt still open.
CompletionFails(p) ==
    /\ "log_failure" \in Events
    /\ pc[p] = "replied"
    /\ pc' = [pc EXCEPT ![p] = "idle"]
    /\ job' = [job EXCEPT ![p] = NoJob]
    /\ UNCHANGED <<database, attempts, account, editor>>

OutcomeIgnoringFailures(p) == "succeeded"
Outcome(p) == IF job[p].failed THEN "failed" ELSE "succeeded"

PromotesAlways(p) == TRUE

\* Only a success goes on to promote.
Promotes(p) == ~job[p].failed

\* finishPublishAttempt
FinishPublish(p) ==
    /\ pc[p] = "running"
    /\ job[p].todo = {}
    /\ attempts' = [attempts EXCEPT ![job[p].attempt].outcome = Outcome(p)]
    /\ pc' = [pc EXCEPT ![p] = IF Promotes(p) THEN "promoting" ELSE "idle"]
    /\ job' = IF Promotes(p) THEN job ELSE [job EXCEPT ![p] = NoJob]
    /\ UNCHANGED <<database, account, editor>>

\* promotePublication: retire and promote in one transaction.
PromotePublication(p) ==
    /\ pc[p] = "promoting"
    /\ live' = [live EXCEPT ![job[p].mode] = job[p].rev]
    /\ published' = published \cup {<<job[p].mode, job[p].rev>>}
    /\ pc' = [pc EXCEPT ![p] = "idle"]
    /\ job' = [job EXCEPT ![p] = NoJob]
    /\ UNCHANGED <<revs, basedOn, rows, attempts, account, editor>>

\* The server dies, or a read or a write of the request throws: nothing
\* closes the attempt for it.
Crash(p) ==
    /\ "crash" \in Events
    /\ pc[p] \notin {"idle", "reviewed"}
    /\ pc' = [pc EXCEPT ![p] = "idle"]
    /\ job' = [job EXCEPT ![p] = NoJob]
    /\ UNCHANGED <<database, attempts, account, editor>>

--------------------------------------------------------------------------------
(* The Stripe Dashboard: prices changed by hand.                           *)

DashboardArchive(m, i) ==
    /\ "dashboard" \in Events
    /\ i \in DOMAIN stripe[m]
    /\ stripe[m][i].active
    /\ stripe' = [stripe EXCEPT ![m][i].active = FALSE]
    /\ UNCHANGED <<database, attempts, products, pc, job, editor>>

DashboardCreate(m, k, c, coverage) ==
    /\ "dashboard" \in Events
    /\ Len(stripe[m]) < MaxPrices
    /\ Holders(m, k) = {}
    /\ coverage[c] # None
    /\ stripe' = [stripe EXCEPT ![m] =
                    Append(@, [key |-> k, currency |-> c, coverage |-> coverage,
                               active |-> TRUE])]
    /\ UNCHANGED <<database, attempts, products, pc, job, editor>>

--------------------------------------------------------------------------------
Submit(p) ==
    \/ \E r \in Revisions, m \in Modes : Review(p, r, m)
    \/ Confirm(p) \/ Refuse(p)
    \/ StartPublishAttempt(p) \/ StartRefused(p)

Execute(p) ==
    \/ Reobserve(p) \/ ReobserveMoved(p) \/ FinishAborted(p)
    \/ RecordOperation(p) \/ OperationSkipped(p)
    \/ StripeAnswers(p) \/ StripeReplyLost(p) \/ StripeRefuses(p)
    \/ CompleteOperation(p)
    \/ FinishPublish(p) \/ PromotePublication(p)

Draft ==
    \/ \E m \in Modes, r \in Revisions : CreateDraftFrom(m, r)
    \/ \E r \in Revisions : DiscardDraft(r)
    \/ \E edit \in Edits : EditCheck(edit)
    \/ EditWrite

Dashboard ==
    \E m \in Modes :
        \/ \E i \in DOMAIN stripe[m] : DashboardArchive(m, i)
        \/ \E k \in Keys, c \in Currencies, coverage \in DashboardCoverages :
              DashboardCreate(m, k, c, coverage)

Next ==
    \/ \E p \in Publishers : Submit(p) \/ Execute(p) \/ CompletionFails(p) \/ Crash(p)
    \/ Draft
    \/ Dashboard

Spec == Init /\ [][Next]_vars

\* A request the server has taken runs on unless the server dies.
FairSpec == Spec /\ \A p \in Publishers : WF_vars(Execute(p))

\* Besides, operators keep reviewing and submit as often as they may.
RetrySpec == FairSpec /\ \A p \in Publishers : WF_vars(Submit(p)) /\ SF_vars(Confirm(p))

--------------------------------------------------------------------------------
(* Properties.                                                             *)

Rules == {"mode", "magnitude", "breadth"}
Fingerprints == SUBSET (Keys \X Currencies \X Cells)

LogRows == [kind : OperationKinds, verb : {"create", "update", "archive"}, key : Keys,
            price : Nat, status : {"pending", "succeeded", "failed"}]

Attempts == [rev : Revisions, mode : Modes, fingerprint : Fingerprints,
             outcome : {"open", "succeeded", "failed", "aborted"}, log : Seq(LogRows)]

Jobs == [rev : Revisions \cup {None}, mode : Modes \cup {None}, ack : SUBSET Rules,
         confirmed : Fingerprints, goal : [Keys -> Coverages], attempt : Nat,
         todo : SUBSET Calls, call : Calls \cup {None},
         reply : {"none", "succeeded", "failed"}, failed : BOOLEAN]

PcValues == {"idle", "reviewed", "confirmed", "promoting"} \cup Executing

\* The tables, the Stripe accounts and the requests hold values of their
\* kinds in every state of publish-repo.ts and publish-executor.ts.
TypeOK ==
    /\ revs \in [Revisions -> {"unborn", "exists", "discarded"}]
    /\ basedOn \in [Revisions -> Revisions \cup {None}]
    /\ rows \in [Revisions -> [Keys -> Coverages]]
    /\ live \in [Modes -> Revisions]
    /\ published \in SUBSET (Modes \X Revisions)
    /\ attempts \in Seq(Attempts)
    /\ stripe \in [Modes -> Seq(Prices)]
    /\ products \in [Modes -> [Plans -> Nat]]
    /\ pc \in [Publishers -> PcValues]
    /\ job \in [Publishers -> Jobs]
    /\ editor \in Edits \cup {None}

\* Two requests never write to one Stripe account together: the open attempt
\* a request holds from startPublishAttempt to finishPublishAttempt is the
\* only one of its mode, whoever crashed, aborted or was refused before.
OneWriterPerMode ==
    /\ \A p, q \in Publishers :
          pc[p] \in Executing /\ pc[q] \in Executing /\ job[p].mode = job[q].mode => p = q
    /\ \A p \in Publishers :
          pc[p] \in Executing => OpenAttempts(job[p].mode) = {job[p].attempt}

\* The operation log is evidence: a closed attempt has no row whose outcome
\* is unknown, succeeded means that every call did, and an aborted attempt
\* made none.
LogMatchesOutcome ==
    \A a \in DOMAIN attempts :
        LET statuses == {attempts[a].log[n].status : n \in DOMAIN attempts[a].log}
        IN  /\ attempts[a].outcome \in {"succeeded", "failed"} => "pending" \notin statuses
            /\ attempts[a].outcome = "succeeded" => "failed" \notin statuses
            /\ attempts[a].outcome = "aborted" => statuses = {}

\* The catalog claims that a mode publishes a revision only if an attempt to
\* publish it there succeeded.
PublishedWereExecuted ==
    \A m \in Modes, r \in Revisions :
        <<m, r>> \in published =>
            \/ r = Baseline
            \/ \E a \in DOMAIN attempts : /\ attempts[a].mode = m /\ attempts[a].rev = r
                                          /\ attempts[a].outcome = "succeeded"

\* An orphan: still active, without the lookup key parity looks for.
Orphans(m) == {i \in DOMAIN stripe[m] : stripe[m][i].active /\ stripe[m][i].key = None}

\* archivedStripePriceIds: the Prices the log names in an archive row.
ArchivedStripePriceIds(m) ==
    {i \in DOMAIN stripe[m] :
        \E a \in DOMAIN attempts : \E n \in DOMAIN attempts[a].log :
            /\ attempts[a].mode = m
            /\ attempts[a].log[n].verb = "archive"
            /\ attempts[a].log[n].price = i}

FindOrphans(m) == {i \in ArchivedStripePriceIds(m) : stripe[m][i].active}


\* Every replaced Price that is still billed is explained by an attempt that
\* has not succeeded and that recorded the replacement: findOrphans reports the
\* Price, or the attempt stopped before it recorded the archive.
OrphanMeansUnfinished ==
    \A m \in Modes : \A i \in Orphans(m) :
        \E a \in DOMAIN attempts :
            /\ attempts[a].mode = m
            /\ attempts[a].outcome \in {"open", "failed"}
            /\ \E n \in DOMAIN attempts[a].log :
                  LET row == attempts[a].log[n] IN
                  /\ row.kind = "replace_price"
                  /\ row.verb = "create"
                  /\ \/ i \in FindOrphans(m)
                     \/ \A later \in n + 1..Len(attempts[a].log) :
                           attempts[a].log[later].key # row.key

\* What the last pending row of an open attempt says is what happens.
Explains(m, row) ==
    LET before == stripe[m]
        after == stripe'[m]
    IN  \/ row.kind = "create_product" /\ after = before
        \/ /\ row.kind # "create_product" /\ row.verb = "create"
           /\ Len(after) = Len(before) + 1
           /\ after[Len(after)].key = row.key /\ after[Len(after)].active
           /\ \A i \in DOMAIN before : after[i] # before[i] => before[i].key = row.key
        \/ /\ row.verb = "archive"
           /\ after = [before EXCEPT ![row.price].active = FALSE]
        \/ /\ row.verb = "update" /\ Len(after) = Len(before)
           /\ \A i \in DOMAIN before : after[i] # before[i] => i = row.price

\* Write-ahead: a Stripe account changes only as the pending last row of an
\* open attempt for it says, so a crash never leaves a change unexplained.
WriteAheadExplains ==
    [][\A m \in Modes :
          <<stripe[m], products[m]>> # <<stripe[m], products[m]>>' =>
              \E a \in OpenAttempts(m) :
                  /\ attempts[a].log # <<>>
                  /\ attempts[a].log[Len(attempts[a].log)].status = "pending"
                  /\ Explains(m, attempts[a].log[Len(attempts[a].log)])]_vars

\* An attempt that closes as succeeded leaves Stripe in parity with the draft
\* it executed, whatever earlier attempts left half done.
ConvergedOnSuccess ==
    [][\A p \in Publishers :
          pc[p] = "running" /\ pc'[p] = "promoting" =>
              Agrees(job[p].goal, Observed(job[p].mode))]_vars

\* A key that the live catalog sells and that Stripe sells is never off sale,
\* not even between the two calls of a replacement or after one of them fails.
KeysStayOnSale ==
    [][\A m \in Modes : \A k \in CatalogKeys(rows[live[m]]) :
          Holders(m, k) # {} => Holders(m, k)' # {}]_vars

\* The executor archives the Price the plan captured, never the one that
\* serves a key its draft sells, whatever Stripe refused and whatever was
\* changed by hand after the plan was built.
ArchiveSparesWhatIsSold ==
    [][\A p \in Publishers :
          pc[p] = "calling" /\ job[p].call.verb = "archive" =>
              \A m \in Modes : \A i \in DOMAIN stripe[m] :
                  stripe[m][i].active /\ ~stripe'[m][i].active /\ pc'[p] = "replied"
                      => stripe[m][i].key \notin CatalogKeys(job[p].goal)]_vars

\* What a publish is about to execute breaches only rules a human confirmed.
OnlyConfirmedBreaches ==
    [][\A p \in Publishers :
          pc[p] = "open" /\ pc'[p] = "running" =>
              Breaches(job[p].rev, job[p].mode) \subseteq job[p].ack]_vars

\* An attempt does not stay open: sooner or later its mode is free again.
AttemptsClose == \A m \in Modes : OpenAttempts(m) # {} ~> OpenAttempts(m) = {}
================================================================================

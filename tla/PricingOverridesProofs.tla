------------------------ MODULE PricingOverridesProofs ------------------------
(***************************************************************************)
(* Proofs about the overrides of a tenant's prices, for any calls, terms   *)
(* and coupons.                                                            *)
(*                                                                         *)
(* The argument follows a coupon.  Stripe's idempotency keys give each set *)
(* of terms one coupon (CouponInv); a row of the ledger is written once in *)
(* its life and a coupon is deleted only under a retired row (CallInv), so *)
(* a live row names a coupon that works; and whoever may still attach a    *)
(* coupon whose row is retired was seen when it was retired (RaceInv).     *)
(***************************************************************************)
EXTENDS PricingOverrides, FiniteSetTheorems, TLAPS

\* Each set of terms has one coupon, the one its key was answered with; a row
\* names a coupon that was made, and a deleted coupon has a retired row.
CouponInv ==
    /\ \A t \in Terms : minted[t] # Null => Exists(minted[t]) /\ coupons[minted[t]].terms = t
    /\ \A k \in Coupons : Exists(k) => minted[coupons[k].terms] = k
    /\ \A k \in Coupons : ledger[k] # "none" => Exists(k)
    /\ \A k \in Coupons : Exists(k) /\ coupons[k].deleted => ledger[k] = "retired"

\* What a call knows of its coupon by the step it is at.
CallInv ==
    /\ \A c \in ServerActions : Is(c, "record") =>
          Exists(call[c].coupon) /\ coupons[call[c].coupon].terms = call[c].terms
    /\ \A c \in ServerActions : call[c].at \in {"auditRetire", "detach", "delete"} =>
          ledger[call[c].coupon] = "retired"

\* A coupon that is being attached has a row; if the row is retired, it was
\* retired while the coupon was being attached.
RaceInv ==
    \A k \in Coupons :
        /\ Attaching(k) => ledger[k] # "none"
        /\ Attaching(k) /\ ledger[k] = "retired" => k \in raced

OneLive == \A k, l \in LiveCoupons : k = l

\* OverridesTypeOK, with the one live row said without a cardinality.
Typed ==
    /\ call \in [ServerActions -> Call]
    /\ ledger \in [Coupons -> {"none", "live", "retired"}]
    /\ coupons \in [Coupons -> [terms : Terms, deleted : BOOLEAN] \cup {Null}]
    /\ minted \in [Terms -> Coupons \cup {Null}]
    /\ discounts \subseteq Coupons
    /\ late \subseteq {"attach", "detach"} \X Coupons
    /\ raced \subseteq Coupons
    /\ OneLive

Inv == Typed /\ CouponInv /\ CallInv /\ RaceInv /\ NoSilentOrphan /\ RevokedMeansOff

(***************************************************************************)
(* Calls                                                                   *)
(***************************************************************************)

LEMMA NullIsNothing ==
    /\ Null \notin ServerActions /\ Null \notin Terms /\ Null \notin Coupons
BY OverridesAssumption

Steps == GrantSteps \cup RevokeSteps
WithCoupon == Steps \ {"mint", "retire"}

\* The fields of a call by its step.
LEMMA CallFields ==
    ASSUME NEW s \in Call
    PROVE  /\ s.at \in Steps \cup {"idle", "done"}
           /\ s.at = "idle" => DOMAIN s = {"at"}
           /\ s.at \in GrantSteps => "terms" \in DOMAIN s /\ s.terms \in Terms
           /\ s.at \in RevokeSteps => "terms" \notin DOMAIN s
           /\ s.at \in WithCoupon => "coupon" \in DOMAIN s /\ s.coupon \in Coupons
           /\ s.at \in {"mint", "retire"} => "coupon" \notin DOMAIN s
           /\ s.at = "delete" => s.clean \in BOOLEAN
BY DEF Call, GrantSteps, RevokeSteps, Steps, WithCoupon

LEMMA GotoChanges ==
    ASSUME call \in [ServerActions -> Call], NEW c \in ServerActions, NEW record \in Call, Goto(c, record)
    PROVE  /\ call' \in [ServerActions -> Call]
           /\ call'[c] = record
           /\ \A d \in ServerActions \ {c} : call'[d] = call[d]
BY DEF Goto

\* What is left of a call that has ended.
LEMMA DoneChanges ==
    ASSUME call \in [ServerActions -> Call], NEW c \in ServerActions,
           NEW answer \in Answers, NEW clean \in BOOLEAN,
           Done(c, answer, clean), call[c].at \in Steps \cup {"idle"}
    PROVE  /\ call' \in [ServerActions -> Call]
           /\ \A d \in ServerActions \ {c} : call'[d] = call[d]
           /\ call'[c].at = "done" /\ call'[c].answer = answer /\ call'[c].clean = clean
           /\ call'[c].terms = IF call[c].at \in GrantSteps THEN call[c].terms ELSE Null
           /\ call'[c].coupon = IF call[c].at \in WithCoupon THEN call[c].coupon ELSE Null
<1> DEFINE terms == IF "terms" \in DOMAIN call[c] THEN call[c].terms ELSE Null
           coupon == IF "coupon" \in DOMAIN call[c] THEN call[c].coupon ELSE Null
           record == [at |-> "done", answer |-> answer, clean |-> clean,
                      terms |-> terms, coupon |-> coupon]
<1>1. terms = IF call[c].at \in GrantSteps THEN call[c].terms ELSE Null
  BY CallFields DEF Steps
<1>2. coupon = IF call[c].at \in WithCoupon THEN call[c].coupon ELSE Null
  BY CallFields DEF Steps, WithCoupon
<1>3. terms \in Terms \cup {Null} /\ coupon \in Coupons \cup {Null}
  BY <1>1, <1>2, CallFields
<1> HIDE DEF terms, coupon
<1>4. record \in Call
  BY <1>3 DEF Call
<1>5. Goto(c, record)
  BY DEF Done, terms, coupon
<1> QED
  BY <1>1, <1>2, <1>4, <1>5, GotoChanges

LEMMA InitInv == OverridesInit => Inv
<1> SUFFICES ASSUME OverridesInit PROVE Inv
  OBVIOUS
<1> USE NullIsNothing DEF OverridesInit
<1>1. Typed
  BY DEF Typed, Call, OneLive, LiveCoupons
<1>2. CouponInv /\ CallInv /\ NoSilentOrphan /\ RevokedMeansOff
  BY DEF CouponInv, CallInv, NoSilentOrphan, RevokedMeansOff, Exists, Usable, Is
<1>3. RaceInv
  BY DEF RaceInv, Attaching
<1> QED
  BY <1>1, <1>2, <1>3 DEF Inv

(***************************************************************************)
(* Steps that change nothing but the call                                  *)
(***************************************************************************)

\* A call ends: it says that it is incomplete, or it had done nothing yet.
LEMMA EndsInv ==
    ASSUME Inv, NEW c \in ServerActions, NEW answer \in {"refused", "incomplete"}, NEW clean \in BOOLEAN,
           Done(c, answer, clean), call[c].at \in Steps \cup {"idle"},
           answer = "incomplete" \/ call[c].at \in {"idle", "mint", "retire"},
           UNCHANGED <<ledger, coupons, minted, discounts, late, raced>>
    PROVE  Inv'
<1> USE DEF Inv
<1>1. /\ call' \in [ServerActions -> Call]
      /\ \A d \in ServerActions \ {c} : call'[d] = call[d]
      /\ call'[c].at = "done" /\ call'[c].answer = answer /\ call'[c].clean = clean
      /\ call'[c].terms = IF call[c].at \in GrantSteps THEN call[c].terms ELSE Null
      /\ call'[c].coupon = IF call[c].at \in WithCoupon THEN call[c].coupon ELSE Null
  BY DoneChanges DEF Typed, Answers
<1>2. Typed'
  BY <1>1 DEF Typed, OneLive, LiveCoupons
<1>3. CouponInv'
  BY DEF CouponInv, Exists
<1>4. CallInv'
  BY <1>1 DEF CallInv, Exists, Is
<1>5. RaceInv'
  BY <1>1 DEF RaceInv, Attaching
<1>6. NoSilentOrphan'
  <2>1. Is(c, "record") => Incomplete(c)' /\ call'[c].terms = call[c].terms
    BY <1>1 DEF Incomplete, Is, GrantSteps
  <2>2. ~Incomplete(c)
    BY DEF Incomplete, Is, Steps, GrantSteps, RevokeSteps
  <2> QED
    BY <1>1, <2>1, <2>2 DEF NoSilentOrphan, Incomplete, Is, Usable, Exists
<1>7. RevokedMeansOff'
  BY <1>1 DEF RevokedMeansOff, Incomplete, Is, GrantSteps, WithCoupon, Steps, RevokeSteps
<1> QED
  BY <1>2, <1>3, <1>4, <1>5, <1>6, <1>7

\* A call goes on to its next step.
LEMMA MovesInv ==
    ASSUME Inv, NEW c \in ServerActions, NEW record \in Call, Goto(c, record),
           \/ call[c].at = "idle" /\ record.at \in {"mint", "retire"}
           \/ /\ \/ call[c].at = "auditMint" /\ record.at = "attach"
                 \/ call[c].at = "auditRetire" /\ record.at = "detach"
              /\ record.coupon = call[c].coupon,
           UNCHANGED <<ledger, coupons, minted, discounts, late, raced>>
    PROVE  Inv'
<1> USE DEF Inv
<1>1. /\ call' \in [ServerActions -> Call]
      /\ call'[c] = record
      /\ \A d \in ServerActions \ {c} : call'[d] = call[d]
  BY GotoChanges DEF Typed
<1>2. Typed'
  BY <1>1 DEF Typed, OneLive, LiveCoupons
<1>3. CouponInv'
  BY DEF CouponInv, Exists
<1>4. CallInv'
  BY <1>1 DEF CallInv, Exists, Is
<1>5. RaceInv'
  BY <1>1 DEF RaceInv, Attaching
<1>6. NoSilentOrphan'
  BY <1>1 DEF NoSilentOrphan, Incomplete, Is, Usable, Exists
<1>7. RevokedMeansOff'
  BY <1>1 DEF RevokedMeansOff, Incomplete, Is
<1> QED
  BY <1>2, <1>3, <1>4, <1>5, <1>6, <1>7

(***************************************************************************)
(* Grants                                                                  *)
(***************************************************************************)

\* A new coupon or the one its key has had: either way the coupon of its terms.
LEMMA CreateCouponFacts ==
    ASSUME Inv, NEW c \in ServerActions, Is(c, "mint"), NEW k \in Coupons, CreateCoupon(c, k)
    PROVE  /\ coupons' \in [Coupons -> [terms : Terms, deleted : BOOLEAN] \cup {Null}]
           /\ minted' \in [Terms -> Coupons \cup {Null}]
           /\ coupons'[k] # Null /\ coupons'[k].terms = call[c].terms
           /\ minted'[call[c].terms] = k
           /\ \A l \in Coupons \ {k} : coupons'[l] = coupons[l]
           /\ \A t \in Terms \ {call[c].terms} : minted'[t] = minted[t]
           /\ coupons[k] # Null => coupons'[k] = coupons[k]
           /\ coupons[k] = Null => ~coupons'[k].deleted /\ minted[call[c].terms] = Null
<1>1. call[c].terms \in Terms
  BY CallFields DEF Inv, Typed, Is, GrantSteps
<1>2. CASE minted[call[c].terms] # Null
  BY <1>1, <1>2 DEF CreateCoupon, MintKey, Inv, Typed, CouponInv, Exists
<1>3. CASE minted[call[c].terms] = Null
  <2> DEFINE made == [terms |-> call[c].terms, deleted |-> FALSE]
  <2>1. made \in [terms : Terms, deleted : BOOLEAN]
    BY <1>1
  <2>2. made # Null
    BY <2>1, OverridesAssumption
  <2>3. made.terms = call[c].terms /\ ~made.deleted
    OBVIOUS
  <2>4. coupons[k] = Null /\ coupons' = [coupons EXCEPT ![k] = made]
        /\ minted' = [minted EXCEPT ![call[c].terms] = k]
    BY <1>3 DEF CreateCoupon, MintKey, Exists
  <2> HIDE DEF made
  <2>5. /\ coupons' \in [Coupons -> [terms : Terms, deleted : BOOLEAN] \cup {Null}]
        /\ coupons'[k] = made
        /\ \A l \in Coupons \ {k} : coupons'[l] = coupons[l]
    BY <2>1, <2>4 DEF Inv, Typed
  <2>6. /\ minted' \in [Terms -> Coupons \cup {Null}]
        /\ minted'[call[c].terms] = k
        /\ \A t \in Terms \ {call[c].terms} : minted'[t] = minted[t]
    BY <1>1, <2>4 DEF Inv, Typed
  <2> QED
    BY <1>3, <2>2, <2>3, <2>4, <2>5, <2>6
<1> QED
  BY <1>2, <1>3

LEMMA CreateCouponInv ==
    ASSUME Inv, NEW c \in ServerActions, Is(c, "mint"), NEW k \in Coupons, CreateCoupon(c, k),
           call' \in [ServerActions -> Call],
           \A d \in ServerActions \ {c} : call'[d] = call[d],
           \/ Is(c, "record")' /\ call'[c].coupon = k
           \/ Incomplete(c)' /\ call'[c].coupon = Null,
           call'[c].terms = call[c].terms,
           UNCHANGED <<ledger, discounts, late, raced>>
    PROVE  Inv'
<1> USE DEF Inv
<1>1. /\ coupons' \in [Coupons -> [terms : Terms, deleted : BOOLEAN] \cup {Null}]
      /\ minted' \in [Terms -> Coupons \cup {Null}]
      /\ coupons'[k] # Null /\ coupons'[k].terms = call[c].terms
      /\ minted'[call[c].terms] = k
      /\ \A l \in Coupons \ {k} : coupons'[l] = coupons[l]
      /\ \A t \in Terms \ {call[c].terms} : minted'[t] = minted[t]
      /\ coupons[k] # Null => coupons'[k] = coupons[k]
      /\ coupons[k] = Null => ~coupons'[k].deleted /\ minted[call[c].terms] = Null
  BY CreateCouponFacts
<1>2. call[c].terms \in Terms /\ call[c].at = "mint"
  BY CallFields DEF Typed, Is, GrantSteps
<1>3. Typed'
  BY <1>1 DEF Typed, OneLive, LiveCoupons
<1>4. CouponInv'
  <2>1. \A t \in Terms : minted'[t] # Null =>
           coupons'[minted'[t]] # Null /\ coupons'[minted'[t]].terms = t
    BY <1>1 DEF CouponInv, Typed, Exists
  <2>2. ASSUME NEW l \in Coupons, Exists(l)' PROVE minted'[coupons'[l].terms] = l
    <3>1. CASE l = k
      BY <1>1, <3>1
    <3>2. CASE l # k
      <4>1. coupons'[l] = coupons[l] /\ minted[coupons[l].terms] = l
        BY <1>1, <2>2, <3>2 DEF CouponInv, Exists
      <4>2. coupons[l].terms \in Terms \ {call[c].terms}
        <5>1. coupons[l].terms \in Terms
          BY <4>1, <2>2 DEF Typed, Exists
        <5>2. coupons[k] # Null => minted[call[c].terms] = k
          BY <1>1 DEF CouponInv, Exists
        <5> QED
          BY <1>1, <3>2, <4>1, <5>1, <5>2, NullIsNothing
      <4> QED
        BY <1>1, <4>1, <4>2
    <3> QED
      BY <3>1, <3>2
  <2>3. \A l \in Coupons : Exists(l) => coupons'[l] = coupons[l]
    BY <1>1 DEF Exists
  <2>4. \A l \in Coupons : Exists(l)' /\ ~Exists(l) => ~coupons'[l].deleted
    BY <1>1 DEF Exists
  <2>5. \A l \in Coupons : Exists(l) => Exists(l)'
    BY <2>3 DEF Exists
  <2> QED
    BY <2>1, <2>2, <2>3, <2>4, <2>5 DEF CouponInv, Exists
<1>5. CallInv'
  <2>1. \A l \in Coupons : Exists(l) => coupons'[l] = coupons[l]
    BY <1>1 DEF Exists
  <2>2. \A d \in ServerActions : Is(d, "record") => call[d].coupon \in Coupons
    BY CallFields DEF Typed, Is, WithCoupon, Steps, GrantSteps
  <2> QED
    BY <1>1, <2>1, <2>2 DEF CallInv, Exists, Is, Incomplete
<1>6. RaceInv'
  BY DEF RaceInv, Attaching, Is, Incomplete
<1>7. NoSilentOrphan'
  <2> SUFFICES ASSUME NEW l \in Coupons, Usable(l)', ledger[l] = "none"
               PROVE  \E d \in ServerActions : (Is(d, "record")' \/ Incomplete(d)')
                                       /\ call'[d].terms = coupons'[l].terms
    BY DEF NoSilentOrphan
  <2>1. CASE l = k
    BY <1>1, <2>1
  <2>2. CASE l # k
    <3>1. Usable(l) /\ coupons'[l] = coupons[l]
      BY <1>1, <2>2 DEF Usable, Exists
    <3>2. PICK d \in ServerActions : (Is(d, "record") \/ Incomplete(d)) /\ call[d].terms = coupons[l].terms
      BY <3>1 DEF NoSilentOrphan
    <3>3. d # c
      BY <3>2 DEF Is, Incomplete
    <3> QED
      BY <3>1, <3>2, <3>3 DEF Is, Incomplete
  <2> QED
    BY <2>1, <2>2
<1>8. RevokedMeansOff'
  BY <1>2 DEF RevokedMeansOff, Incomplete, Is
<1> QED
  BY <1>3, <1>4, <1>5, <1>6, <1>7, <1>8

LEMMA MintInv ==
    ASSUME Inv, NEW c \in ServerActions, Mint(c) \/ MintUnanswered(c)
    PROVE  Inv'
<1>1. call \in [ServerActions -> Call] /\ call[c].at = "mint" /\ call[c].terms \in Terms
  BY CallFields DEF Inv, Typed, Mint, MintUnanswered, Is, GrantSteps
<1>2. CASE Mint(c)
  <2>1. PICK k \in Coupons :
           /\ CreateCoupon(c, k)
           /\ Goto(c, [at |-> "record", terms |-> call[c].terms, coupon |-> k])
    BY <1>2 DEF Mint
  <2>2. [at |-> "record", terms |-> call[c].terms, coupon |-> k] \in Call
    BY <1>1 DEF Call, GrantSteps
  <2>3. /\ call' \in [ServerActions -> Call]
        /\ call'[c] = [at |-> "record", terms |-> call[c].terms, coupon |-> k]
        /\ \A d \in ServerActions \ {c} : call'[d] = call[d]
    BY <1>1, <2>1, <2>2, GotoChanges
  <2> QED
    BY <1>2, <2>1, <2>3, CreateCouponInv DEF Mint, Is
<1>3. CASE MintUnanswered(c)
  <2>1. /\ call' \in [ServerActions -> Call]
        /\ \A d \in ServerActions \ {c} : call'[d] = call[d]
        /\ call'[c].at = "done" /\ call'[c].answer = "incomplete"
        /\ call'[c].terms = call[c].terms
        /\ call'[c].coupon = Null
    BY <1>1, <1>3, DoneChanges DEF MintUnanswered, Answers, Steps, GrantSteps, WithCoupon
  <2>2. CASE \E k \in Coupons : CreateCoupon(c, k)
    BY <1>3, <2>1, <2>2, CreateCouponInv DEF MintUnanswered, Incomplete, Is
  <2>3. CASE UNCHANGED <<coupons, minted>>
    BY <1>1, <1>3, <2>3, EndsInv DEF MintUnanswered, Steps, GrantSteps
  <2> QED
    BY <1>3, <2>2, <2>3 DEF MintUnanswered
<1> QED
  BY <1>2, <1>3

\* The row is written, and the grant goes on or does not know that it was.
LEMMA RecordedInv ==
    ASSUME Inv, NEW c \in ServerActions, Is(c, "record"), Recordable(call[c].coupon),
           ledger' = [ledger EXCEPT ![call[c].coupon] = "live"],
           call' \in [ServerActions -> Call],
           \A d \in ServerActions \ {c} : call'[d] = call[d],
           \/ Is(c, "auditMint")' \/ Incomplete(c)',
           call'[c].terms = call[c].terms, call'[c].coupon = call[c].coupon,
           UNCHANGED <<coupons, minted, discounts, late, raced>>
    PROVE  Inv'
<1> DEFINE k == call[c].coupon
<1> USE DEF Inv
<1>1. k \in Coupons /\ call[c].terms \in Terms
  BY CallFields DEF Typed, Is, WithCoupon, Steps, GrantSteps
<1>2. Exists(k) /\ coupons[k].terms = call[c].terms /\ ledger[k] = "none"
  BY <1>1 DEF CallInv, Recordable
<1>3. ledger'[k] = "live" /\ \A l \in Coupons \ {k} : ledger'[l] = ledger[l]
  BY <1>1 DEF Typed
<1> HIDE DEF k
<1>4. Typed'
  BY <1>1, <1>3 DEF Typed, OneLive, LiveCoupons, Recordable, k
<1>5. CouponInv'
  BY <1>2, <1>3 DEF CouponInv, Exists
<1>6. CallInv'
  <2>1. \A d \in ServerActions : call[d].at \in {"auditRetire", "detach", "delete"} => call[d].coupon # k
    BY <1>2 DEF CallInv
  <2>2. \A d \in ServerActions : call[d].at \in {"auditRetire", "detach", "delete"} =>
           call[d].coupon \in Coupons
    BY CallFields DEF Typed, WithCoupon, Steps, GrantSteps, RevokeSteps
  <2> QED
    BY <1>3, <2>1, <2>2 DEF CallInv, Exists, Is, Incomplete
<1>7. RaceInv'
  BY <1>1, <1>2, <1>3 DEF RaceInv, Attaching, Is, Incomplete, k
<1>8. NoSilentOrphan'
  <2> SUFFICES ASSUME NEW l \in Coupons, Usable(l), ledger'[l] = "none"
               PROVE  \E d \in ServerActions : (Is(d, "record")' \/ Incomplete(d)')
                                       /\ call'[d].terms = coupons[l].terms
    BY DEF NoSilentOrphan, Usable, Exists
  <2>1. l # k /\ ledger[l] = "none"
    BY <1>3
  <2>2. PICK d \in ServerActions : (Is(d, "record") \/ Incomplete(d)) /\ call[d].terms = coupons[l].terms
    BY <2>1 DEF NoSilentOrphan
  <2>3. coupons[l].terms # coupons[k].terms
    BY <1>1, <1>2, <2>1 DEF CouponInv, Usable
  <2>4. d # c
    BY <1>2, <2>2, <2>3
  <2> QED
    BY <2>2, <2>4 DEF Is, Incomplete
<1>9. RevokedMeansOff'
  BY <1>1, <1>3 DEF RevokedMeansOff, Is, Incomplete
<1> QED
  BY <1>4, <1>5, <1>6, <1>7, <1>8, <1>9

LEMMA RecordInv ==
    ASSUME Inv, NEW c \in ServerActions, Record(c) \/ RecordUnanswered(c) \/ RecordRefused(c)
    PROVE  Inv'
<1>1. /\ call \in [ServerActions -> Call] /\ call[c] \in Call
      /\ call[c].at = "record" /\ call[c].at \in WithCoupon \cap GrantSteps
  BY DEF Inv, Typed, Record, RecordUnanswered, RecordRefused, Is, GrantSteps, WithCoupon, Steps
<1>2. CASE Record(c)
  <2> DEFINE record == [call[c] EXCEPT !.at = "auditMint"]
  <2>1. record \in Call /\ record.at = "auditMint" /\ record.terms = call[c].terms
        /\ record.coupon = call[c].coupon
    BY <1>1 DEF Call, GrantSteps
  <2>2. Goto(c, record)
    BY <1>2 DEF Record
  <2> HIDE DEF record
  <2>3. /\ call' \in [ServerActions -> Call]
        /\ call'[c] = record
        /\ \A d \in ServerActions \ {c} : call'[d] = call[d]
    BY <1>1, <2>1, <2>2, GotoChanges
  <2> QED
    BY <1>2, <2>1, <2>3, RecordedInv DEF Record, Is
<1>3. CASE RecordUnanswered(c) \/ RecordRefused(c)
  <2>1. Done(c, "incomplete", FALSE) /\ UNCHANGED <<coupons, minted, discounts, late, raced>>
    BY <1>3 DEF RecordUnanswered, RecordRefused
  <2>2. CASE UNCHANGED ledger
    BY <1>1, <2>1, <2>2, EndsInv DEF Steps
  <2>3. CASE Recordable(call[c].coupon) /\ ledger' = [ledger EXCEPT ![call[c].coupon] = "live"]
    <3>1. /\ call' \in [ServerActions -> Call]
          /\ \A d \in ServerActions \ {c} : call'[d] = call[d]
          /\ call'[c].at = "done" /\ call'[c].answer = "incomplete"
          /\ call'[c].terms = call[c].terms
          /\ call'[c].coupon = call[c].coupon
      BY <1>1, <2>1, DoneChanges DEF Answers, Steps
    <3> QED
      BY <1>1, <2>1, <2>3, <3>1, RecordedInv DEF Incomplete, Is
  <2> QED
    BY <1>3, <2>2, <2>3 DEF RecordUnanswered, RecordRefused
<1> QED
  BY <1>2, <1>3

\* The product is asked to attach the coupon: it does, it may do so later, or
\* it never does.
LEMMA AttachInv ==
    ASSUME Inv, NEW c \in ServerActions, Attach(c) \/ AttachUnanswered(c)
    PROVE  Inv'
<1> DEFINE k == call[c].coupon
<1> USE DEF Inv
<1>1. call[c].at = "attach" /\ k \in Coupons /\ Usable(k) \in BOOLEAN
      /\ call[c].at \in Steps \cap GrantSteps
  BY CallFields DEF Typed, Attach, AttachUnanswered, Is, WithCoupon, Steps, GrantSteps, Usable
<1>2. /\ call' \in [ServerActions -> Call]
      /\ \A d \in ServerActions \ {c} : call'[d] = call[d]
      /\ call'[c].at = "done" /\ call'[c].answer = "granted"
      /\ UNCHANGED <<ledger, coupons, minted, raced>>
  BY <1>1, DoneChanges DEF Typed, Attach, AttachUnanswered, Answers
<1>3. /\ discounts' \subseteq discounts \cup {k}
      /\ late' \subseteq late \cup {<<"attach", k>>}
  BY DEF Attach, AttachUnanswered, Applied
<1>4. Attaching(k) /\ \A l \in Coupons : Attaching(l)' => Attaching(l)
  BY <1>1, <1>2, <1>3 DEF Attaching
<1> HIDE DEF k
<1>5. Typed'
  BY <1>1, <1>2, <1>3 DEF Typed, OneLive, LiveCoupons
<1>6. CouponInv' /\ CallInv'
  BY <1>2 DEF CouponInv, CallInv, Exists, Is
<1>7. RaceInv'
  BY <1>2, <1>4 DEF RaceInv
<1>8. NoSilentOrphan'
  BY <1>1, <1>2 DEF NoSilentOrphan, Incomplete, Is, Usable, Exists
<1>9. RevokedMeansOff'
  <2>1. ledger[k] # "none" /\ (ledger[k] = "retired" => k \in raced)
    BY <1>1, <1>4 DEF RaceInv
  <2> QED
    BY <1>1, <1>2, <1>3, <2>1 DEF RevokedMeansOff, Incomplete, Is
<1> QED
  BY <1>5, <1>6, <1>7, <1>8, <1>9

(***************************************************************************)
(* Revokes, and late requests                                              *)
(***************************************************************************)

\* The row is retired, and the revoke goes on or does not know that it was.
LEMMA RetiredInv ==
    ASSUME Inv, NEW c \in ServerActions, Is(c, "retire"), NEW k \in LiveCoupons, RetireRow(k),
           call' \in [ServerActions -> Call],
           \A d \in ServerActions \ {c} : call'[d] = call[d],
           \/ Is(c, "auditRetire")' /\ call'[c].coupon = k
           \/ Incomplete(c)' /\ call'[c].terms = Null /\ call'[c].coupon = Null,
           UNCHANGED <<coupons, minted, discounts, late>>
    PROVE  Inv'
<1> USE DEF Inv
<1>1. k \in Coupons /\ ledger[k] = "live"
  BY DEF LiveCoupons
<1>2. /\ ledger' \in [Coupons -> {"none", "live", "retired"}]
      /\ ledger'[k] = "retired" /\ \A l \in Coupons \ {k} : ledger'[l] = ledger[l]
  BY <1>1 DEF Typed, RetireRow
<1>3. raced \subseteq raced' /\ raced' \subseteq raced \cup {k} /\ (Attaching(k) => k \in raced')
  BY DEF RetireRow
<1>4. Typed'
  BY <1>1, <1>2, <1>3 DEF Typed, OneLive, LiveCoupons
<1>5. CouponInv'
  BY <1>1, <1>2 DEF CouponInv, Exists
<1>6. CallInv'
  <2>1. \A d \in ServerActions : call[d].at \in {"auditRetire", "detach", "delete"} =>
           call[d].coupon \in Coupons
    BY CallFields DEF Typed, WithCoupon, Steps, GrantSteps, RevokeSteps
  <2> QED
    BY <1>1, <1>2, <2>1 DEF CallInv, Exists, Is, Incomplete
<1>7. RaceInv'
  <2>1. \A l \in Coupons : Attaching(l)' => Attaching(l)
    BY DEF Attaching, Is, Incomplete
  <2> QED
    BY <1>2, <1>3, <2>1 DEF RaceInv
<1>8. NoSilentOrphan'
  BY <1>2 DEF NoSilentOrphan, Incomplete, Is, Usable, Exists
<1>9. RevokedMeansOff'
  <2> SUFFICES ASSUME NEW l \in discounts
               PROVE  /\ ledger'[l] # "none"
                      /\ ledger'[l] = "retired" /\ l \notin raced' =>
                           \E d \in ServerActions :
                             \/ call'[d].at \in {"auditRetire", "detach"} /\ call'[d].coupon = l
                             \/ Is(d, "delete")' /\ call'[d].coupon = l /\ ~call'[d].clean
                             \/ /\ Incomplete(d)'
                                /\ call'[d].terms = Null
                                /\ call'[d].coupon \in {l, Null}
                             \/ /\ Is(d, "done")' /\ call'[d].answer = "revoked"
                                /\ call'[d].coupon = l /\ ~call'[d].clean
    BY DEF RevokedMeansOff
  <2>1. CASE l = k
    BY <1>2, <2>1 DEF Is
  <2>2. CASE l # k
    <3>1. l \in Coupons /\ ledger'[l] = ledger[l]
      BY <1>2, <2>2 DEF Typed
    <3> QED
      BY <1>3, <3>1 DEF RevokedMeansOff, Incomplete, Is
  <2> QED
    BY <2>1, <2>2
<1> QED
  BY <1>4, <1>5, <1>6, <1>7, <1>8, <1>9

LEMMA RetireInv ==
    ASSUME Inv, NEW c \in ServerActions, Retire(c) \/ RetireNothing(c) \/ RetireUnanswered(c)
    PROVE  Inv'
<1>1. call \in [ServerActions -> Call] /\ call[c].at = "retire" /\ call[c].at \in Steps
      /\ call[c].at \notin GrantSteps /\ call[c].at \notin WithCoupon
  BY DEF Inv, Typed, Retire, RetireNothing, RetireUnanswered, Is, Steps, GrantSteps, RevokeSteps,
         WithCoupon
<1>2. CASE Retire(c)
  <2>1. PICK k \in LiveCoupons :
           RetireRow(k) /\ Goto(c, [at |-> "auditRetire", coupon |-> k])
    BY <1>2 DEF Retire
  <2>2. [at |-> "auditRetire", coupon |-> k] \in Call
    BY DEF Call, LiveCoupons
  <2>3. /\ call' \in [ServerActions -> Call]
        /\ call'[c] = [at |-> "auditRetire", coupon |-> k]
        /\ \A d \in ServerActions \ {c} : call'[d] = call[d]
    BY <1>1, <2>1, <2>2, GotoChanges
  <2> QED
    BY <1>2, <2>1, <2>3, RetiredInv DEF Retire, Is
<1>3. CASE RetireNothing(c)
  BY <1>1, <1>3, EndsInv DEF RetireNothing
<1>4. CASE RetireUnanswered(c)
  <2>1. CASE UNCHANGED <<ledger, raced>>
    BY <1>1, <1>4, <2>1, EndsInv DEF RetireUnanswered
  <2>2. CASE \E k \in LiveCoupons : RetireRow(k)
    <3>1. /\ call' \in [ServerActions -> Call]
          /\ \A d \in ServerActions \ {c} : call'[d] = call[d]
          /\ call'[c].at = "done" /\ call'[c].answer = "incomplete"
          /\ call'[c].terms = Null /\ call'[c].coupon = Null
      BY <1>1, <1>4, DoneChanges DEF Answers, RetireUnanswered
    <3> QED
      BY <1>4, <2>2, <3>1, RetiredInv DEF RetireUnanswered, Incomplete, Is
  <2> QED
    BY <1>4, <2>1, <2>2 DEF RetireUnanswered
<1> QED
  BY <1>2, <1>3, <1>4

\* The product is asked to detach the coupon; the call knows whether it did.
LEMMA DetachInv ==
    ASSUME Inv, NEW c \in ServerActions, Detach(c) \/ DetachUnanswered(c)
    PROVE  Inv'
<1> DEFINE k == call[c].coupon
<1> USE DEF Inv
<1>1. call[c].at = "detach" /\ k \in Coupons
  BY CallFields DEF Typed, Detach, DetachUnanswered, Is, WithCoupon, Steps, GrantSteps, RevokeSteps
<1>2. PICK clean \in BOOLEAN : ToDelete(c, clean) /\ (clean => discounts' = discounts \ {k})
  BY DEF Detach, DetachUnanswered
<1>3. UNCHANGED <<ledger, coupons, minted, raced>> /\ discounts' \subseteq discounts
      /\ late \subseteq late' /\ late' \subseteq late \cup {<<"detach", k>>}
  BY DEF Detach, DetachUnanswered
<1>4. [at |-> "delete", coupon |-> k, clean |-> clean] \in Call
  BY <1>1 DEF Call
<1>5. /\ call' \in [ServerActions -> Call]
      /\ call'[c] = [at |-> "delete", coupon |-> k, clean |-> clean]
      /\ \A d \in ServerActions \ {c} : call'[d] = call[d]
  BY <1>2, <1>4, GotoChanges DEF Typed, ToDelete
<1>6. \A l \in Coupons : Attaching(l)' => Attaching(l)
  BY <1>3, <1>5 DEF Attaching
<1>7. Typed'
  BY <1>1, <1>3, <1>5 DEF Typed, OneLive, LiveCoupons
<1>8. CouponInv' /\ CallInv'
  BY <1>1, <1>3, <1>5 DEF CouponInv, CallInv, Exists, Is
<1>9. RaceInv'
  BY <1>3, <1>6 DEF RaceInv
<1>10. NoSilentOrphan'
  BY <1>1, <1>3, <1>5 DEF NoSilentOrphan, Incomplete, Is, Usable, Exists
<1>11. RevokedMeansOff'
  <2> SUFFICES ASSUME NEW l \in discounts', ledger[l] = "retired", l \notin raced
               PROVE  \E d \in ServerActions :
                        \/ call'[d].at \in {"auditRetire", "detach"} /\ call'[d].coupon = l
                        \/ Is(d, "delete")' /\ call'[d].coupon = l /\ ~call'[d].clean
                        \/ /\ Incomplete(d)'
                           /\ call'[d].terms = Null
                           /\ call'[d].coupon \in {l, Null}
                        \/ /\ Is(d, "done")' /\ call'[d].answer = "revoked"
                           /\ call'[d].coupon = l /\ ~call'[d].clean
    BY <1>3 DEF RevokedMeansOff
  <2>1. CASE l = k
    BY <1>2, <1>5, <2>1 DEF Is
  <2>2. CASE l # k
    BY <1>1, <1>3, <1>5, <2>2 DEF RevokedMeansOff, Incomplete, Is
  <2> QED
    BY <2>1, <2>2
<1> QED
  BY <1>7, <1>8, <1>9, <1>10, <1>11

LEMMA DeleteInv ==
    ASSUME Inv, NEW c \in ServerActions, Delete(c)
    PROVE  Inv'
<1> DEFINE k == call[c].coupon
<1> USE DEF Inv
<1>1. call[c].at = "delete" /\ k \in Coupons /\ call[c].clean \in BOOLEAN
      /\ call[c].at \in WithCoupon /\ call[c].at \in Steps
  BY CallFields DEF Typed, Delete, Is, WithCoupon, Steps, GrantSteps, RevokeSteps
<1>2. /\ call' \in [ServerActions -> Call]
      /\ \A d \in ServerActions \ {c} : call'[d] = call[d]
      /\ call'[c].at = "done" /\ call'[c].answer = "revoked"
      /\ call'[c].clean = call[c].clean /\ call'[c].coupon = k
  BY <1>1, DoneChanges DEF Typed, Delete, Answers
<1>3. UNCHANGED <<ledger, minted, discounts, late, raced>>
  BY DEF Delete
<1>4. ledger[k] = "retired" /\ Exists(k)
  BY <1>1 DEF CallInv, CouponInv
<1>5. /\ coupons' \in [Coupons -> [terms : Terms, deleted : BOOLEAN] \cup {Null}]
      /\ \A l \in Coupons : (coupons'[l] # Null <=> coupons[l] # Null)
                            /\ coupons'[l].terms = coupons[l].terms
      /\ \A l \in Coupons \ {k} : coupons'[l] = coupons[l]
  <2>1. CASE UNCHANGED coupons
    BY <2>1 DEF Typed
  <2>2. CASE DeletedCoupon(k)
    <3> DEFINE gone == [coupons[k] EXCEPT !.deleted = TRUE]
    <3>1. coupons[k] \in [terms : Terms, deleted : BOOLEAN]
      BY <1>1, <1>4 DEF Typed, Exists
    <3>2. gone \in [terms : Terms, deleted : BOOLEAN] /\ gone.terms = coupons[k].terms
      BY <3>1
    <3>3. gone # Null
      BY <3>2, OverridesAssumption
    <3>4. coupons' = [coupons EXCEPT ![k] = gone]
      BY <2>2 DEF DeletedCoupon
    <3> HIDE DEF gone
    <3> QED
      BY <1>1, <1>4, <3>2, <3>3, <3>4 DEF Typed, Exists
  <2> QED
    BY <2>1, <2>2 DEF Delete
<1>6. \A l \in Coupons : Attaching(l)' => Attaching(l)
  BY <1>2, <1>3 DEF Attaching
<1>7. Typed'
  BY <1>2, <1>3, <1>5 DEF Typed, OneLive, LiveCoupons
<1>8. CouponInv'
  BY <1>3, <1>4, <1>5 DEF CouponInv, Typed, Exists
<1>9. CallInv'
  <2>1. \A d \in ServerActions : Is(d, "record") => call[d].coupon \in Coupons
    BY CallFields DEF Typed, Is, WithCoupon, Steps, GrantSteps
  <2> QED
    BY <1>2, <1>3, <1>5, <2>1 DEF CallInv, Exists, Is
<1>10. RaceInv'
  BY <1>3, <1>6 DEF RaceInv
<1>11. NoSilentOrphan'
  <2> SUFFICES ASSUME NEW l \in Coupons, Usable(l)', ledger[l] = "none"
               PROVE  \E d \in ServerActions : (Is(d, "record")' \/ Incomplete(d)')
                                       /\ call'[d].terms = coupons'[l].terms
    BY <1>3 DEF NoSilentOrphan
  <2>1. Usable(l) /\ coupons'[l] = coupons[l]
    BY <1>4, <1>5 DEF Usable, Exists
  <2> QED
    BY <1>1, <1>2, <2>1 DEF NoSilentOrphan, Incomplete, Is
<1>12. RevokedMeansOff'
  BY <1>1, <1>2, <1>3 DEF RevokedMeansOff, Incomplete, Is
<1> QED
  BY <1>7, <1>8, <1>9, <1>10, <1>11, <1>12

LEMMA LateArrivesInv ==
    ASSUME Inv, NEW op \in {"attach", "detach"}, NEW k \in Coupons, LateArrives(op, k)
    PROVE  Inv'
<1> USE DEF Inv, LateArrives
<1>1. op = "attach" => Attaching(k)
  BY DEF Attaching
<1>2. discounts' \subseteq discounts \cup {k} /\ (op = "detach" => discounts' \subseteq discounts)
  BY DEF Applied
<1>3. \A l \in Coupons : Attaching(l)' => Attaching(l)
  BY DEF Attaching
<1>4. Typed'
  BY <1>2 DEF Typed, OneLive, LiveCoupons
<1>5. CouponInv' /\ CallInv' /\ NoSilentOrphan'
  BY DEF CouponInv, CallInv, NoSilentOrphan, Incomplete, Usable, Exists, Is
<1>6. RaceInv'
  BY <1>3 DEF RaceInv
<1>7. RevokedMeansOff'
  BY <1>1, <1>2 DEF RevokedMeansOff, RaceInv, Incomplete, Is
<1> QED
  BY <1>4, <1>5, <1>6, <1>7

(***************************************************************************)
(* The specification                                                       *)
(***************************************************************************)

\* The steps that change nothing but the call.
LEMMA CallOnlyInv ==
    ASSUME Inv, NEW c \in ServerActions,
           \/ \E terms \in Terms : Grant(c, terms)
           \/ MintRefused(c) \/ AuditMint(c) \/ Revoke(c) \/ AuditRetire(c) \/ ConsoleStops(c)
    PROVE  Inv'
<1>1. call[c] \in Call /\ call[c].at \in Steps \cup {"idle"}
  BY DEF Inv, Typed, Steps, Grant, MintRefused, AuditMint, Revoke, AuditRetire, ConsoleStops, Is,
         GrantSteps, RevokeSteps
<1>2. UNCHANGED <<ledger, coupons, minted, discounts, late, raced>>
  BY DEF Grant, MintRefused, AuditMint, Revoke, AuditRetire, ConsoleStops
<1>3. CASE Done(c, "refused", TRUE) /\ call[c].at \in {"idle", "mint"}
  BY <1>1, <1>2, <1>3, EndsInv
<1>4. CASE Done(c, "incomplete", FALSE)
  BY <1>1, <1>2, <1>4, EndsInv
<1>5. CASE \E terms \in Terms : Is(c, "idle") /\ Goto(c, [at |-> "mint", terms |-> terms])
  <2>1. PICK terms \in Terms : Is(c, "idle") /\ Goto(c, [at |-> "mint", terms |-> terms])
    BY <1>5
  <2>2. [at |-> "mint", terms |-> terms] \in Call
    BY DEF Call
  <2> QED
    BY <1>2, <2>1, <2>2, MovesInv DEF Is
<1>6. CASE Is(c, "idle") /\ Goto(c, [at |-> "retire"])
  <2>1. [at |-> "retire"] \in Call
    BY DEF Call
  <2> QED
    BY <1>2, <1>6, <2>1, MovesInv DEF Is
<1>7. CASE Is(c, "auditMint") /\ Goto(c, [call[c] EXCEPT !.at = "attach"])
  <2> DEFINE record == [call[c] EXCEPT !.at = "attach"]
  <2>1. record \in Call /\ record.at = "attach" /\ record.coupon = call[c].coupon
    BY <1>1, <1>7 DEF Is, Call, GrantSteps
  <2> QED
    BY <1>2, <1>7, <2>1, MovesInv DEF Is
<1>8. CASE Is(c, "auditRetire") /\ Goto(c, [call[c] EXCEPT !.at = "detach"])
  <2> DEFINE record == [call[c] EXCEPT !.at = "detach"]
  <2>1. record \in Call /\ record.at = "detach" /\ record.coupon = call[c].coupon
    BY <1>1, <1>8 DEF Is, Call, GrantSteps
  <2> QED
    BY <1>2, <1>8, <2>1, MovesInv DEF Is
<1>9. CASE \E terms \in Terms : Grant(c, terms)
  BY <1>3, <1>5, <1>9 DEF Grant, Is
<1>10. CASE MintRefused(c) \/ ConsoleStops(c)
  BY <1>3, <1>4, <1>10 DEF MintRefused, ConsoleStops, Is
<1>11. CASE Revoke(c)
  BY <1>3, <1>6, <1>11 DEF Revoke, Is
<1>12. CASE AuditMint(c) \/ AuditRetire(c)
  BY <1>4, <1>7, <1>8, <1>12 DEF AuditMint, AuditRetire
<1> QED
  BY <1>9, <1>10, <1>11, <1>12

LEMMA NextInv == Inv /\ [OverridesNext]_overridesVars => Inv'
<1> SUFFICES ASSUME Inv, [OverridesNext]_overridesVars PROVE Inv'
  OBVIOUS
<1>1. ASSUME NEW c \in ServerActions, GrantStep(c) \/ RevokeStep(c) \/ ConsoleStops(c)
      PROVE  Inv'
  BY <1>1, CallOnlyInv, MintInv, RecordInv, AttachInv, RetireInv, DetachInv, DeleteInv
     DEF GrantStep, RevokeStep
<1>2. ASSUME NEW op \in {"attach", "detach"}, NEW k \in Coupons, LateArrives(op, k)
      PROVE  Inv'
  BY <1>2, LateArrivesInv
<1>3. CASE UNCHANGED overridesVars
  BY <1>3 DEF overridesVars, Inv, Typed, OneLive, LiveCoupons, CouponInv, CallInv, RaceInv, Attaching,
       NoSilentOrphan, RevokedMeansOff, Incomplete, Usable, Exists, Is
<1> QED
  BY <1>1, <1>2, <1>3 DEF OverridesNext

LEMMA SpecInv == OverridesSpec => []Inv
BY InitInv, NextInv, PTL DEF OverridesSpec

\* Every variable stays in its set, and the partial unique index leaves a
\* tenant one live row.
THEOREM TypeCorrect == OverridesSpec => []OverridesTypeOK
<1>1. ASSUME Inv PROVE OverridesTypeOK
  <2>1. LiveCoupons = {} \/ \E k \in LiveCoupons : LiveCoupons = {k}
    BY <1>1 DEF Inv, Typed, OneLive
  <2>2. Cardinality(LiveCoupons) \in {0, 1}
    <3>1. CASE LiveCoupons = {}
      BY <3>1, FS_EmptySet
    <3>2. CASE \E k \in LiveCoupons : LiveCoupons = {k}
      BY <3>2, FS_Singleton
    <3> QED
      BY <2>1, <3>1, <3>2
  <2> QED
    BY <1>1, <2>2 DEF Inv, Typed, OverridesTypeOK
<1> QED
  BY <1>1, SpecInv, PTL

\* tenant-pricing-override-write.ts: a coupon that Stripe has and no row names
\* belongs to a grant that is still running or that said "may already exist".
THEOREM OrphansAreTold == OverridesSpec => []NoSilentOrphan
<1>1. Inv => NoSilentOrphan
  BY DEF Inv
<1> QED
  BY <1>1, SpecInv, PTL

\* The live row never names a coupon that a revoke has deleted, in spite of
\* the idempotency key that answers a new grant with the old coupon.
THEOREM LiveRowsApply == OverridesSpec => []LiveRowsAreUsable
<1>1. ASSUME Inv PROVE LiveRowsAreUsable
  BY <1>1 DEF Inv, CouponInv, LiveRowsAreUsable, LiveCoupons, Usable
<1> QED
  BY <1>1, SpecInv, PTL

\* A discount outlives its record only with somebody's knowledge, or by an
\* attach that was under way when the record was retired.
THEOREM RevokesAreTold == OverridesSpec => []RevokedMeansOff
<1>1. Inv => RevokedMeansOff
  BY DEF Inv
<1> QED
  BY <1>1, SpecInv, PTL
=============================================================================

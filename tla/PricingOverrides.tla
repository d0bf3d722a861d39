--------------------------- MODULE PricingOverrides ---------------------------
(***************************************************************************)
(* Granting one tenant a price of its own, and taking it back.  A grant    *)
(* mints a Coupon in Stripe, records it, and asks the product (mark8ly) to *)
(* put it on the tenant's subscriptions; a revoke retires the record, asks *)
(* the product to take the coupon off, and deletes it.  Source:            *)
(* apps/console/lib/tenant-pricing-override-write.ts,                      *)
(* tenant-discount-write.ts, db/tenant-pricing-overrides-repo.ts,          *)
(* db/audit-repo.ts, billing/mark8ly/stripe-write.ts.                      *)
(*                                                                         *)
(* Three services change one after another, and none of them waits for     *)
(* another call: each statement and each request is a step.  Tenants and   *)
(* Stripe modes share no row and no coupon, so one of each is modelled.    *)
(* A behaviour lies within the 24 hours Stripe keeps an idempotency key.   *)
(***************************************************************************)
EXTENDS Naturals, FiniteSets

CONSTANTS
    ServerActions,  \* calls to the console: grants and revokes, each made once
    Terms,          \* a discount and its label
    Coupons,        \* ids that Stripe gives to coupons
    Null

ASSUME OverridesAssumption ==
    /\ Null \notin ServerActions \cup Terms \cup Coupons
    /\ Null \notin [terms : Terms, deleted : BOOLEAN]

VARIABLES
    call,       \* what each call is doing
    ledger,     \* tenant_pricing_override_coupons: is a coupon's row live
    coupons,    \* Stripe's coupons: [terms, deleted], or Null
    minted,     \* Stripe's idempotency keys, and the coupon of each
    discounts,  \* the coupons on the tenant's subscriptions
    late,       \* requests to the product whose caller gave up on them
    raced       \* retired while being attached (a history, for a property)

overridesVars == <<call, ledger, coupons, minted, discounts, late, raced>>

(***************************************************************************)
(* A call is idle, at a step, or done.  Its answer:                        *)
(*   refused:    nothing was done, and the operator is told so;            *)
(*   incomplete: MINT_INCOMPLETE or RETIRE_INCOMPLETE, "may already exist",*)
(*               or no answer at all, because the console stopped;         *)
(*   granted, revoked: with attach or detach as the product reported it    *)
(*   (clean), and for a revoke whether the coupon is known to be gone.     *)
(***************************************************************************)
Answers == {"refused", "incomplete", "granted", "revoked"}

GrantSteps == {"mint", "record", "auditMint", "attach"}
RevokeSteps == {"retire", "auditRetire", "detach", "delete"}

Call ==
    [at : {"idle"}]
    \cup [at : {"mint"}, terms : Terms]
    \cup [at : GrantSteps \ {"mint"}, terms : Terms, coupon : Coupons]
    \cup [at : {"retire"}]
    \cup [at : {"auditRetire", "detach"}, coupon : Coupons]
    \cup [at : {"delete"}, coupon : Coupons, clean : BOOLEAN]
    \cup [at : {"done"}, answer : Answers, terms : Terms \cup {Null},
          coupon : Coupons \cup {Null}, clean : BOOLEAN]

Is(c, step) == call[c].at = step
Goto(c, record) == call' = [call EXCEPT ![c] = record]

\* What the call says at its end; clean: every step of it is known to be done.
Done(c, answer, clean) ==
    Goto(c, [at |-> "done", answer |-> answer, clean |-> clean,
             terms |-> IF "terms" \in DOMAIN call[c] THEN call[c].terms ELSE Null,
             coupon |-> IF "coupon" \in DOMAIN call[c] THEN call[c].coupon ELSE Null])

LiveCoupons == {k \in Coupons : ledger[k] = "live"}
Exists(k) == coupons[k] # Null
Usable(k) == Exists(k) /\ ~coupons[k].deleted

(***************************************************************************)
(* grantTenantPricingOverride                                              *)
(***************************************************************************)

\* readLiveTenantOverrideCoupon; a missing capability and terms that do not
\* validate are refused as well.
Grant(c, terms) ==
    /\ Is(c, "idle")
    /\ \/ LiveCoupons = {} /\ Goto(c, [at |-> "mint", terms |-> terms])
       \/ Done(c, "refused", TRUE)
    /\ UNCHANGED <<ledger, coupons, minted, discounts, late, raced>>

\* Every field that is sent to Stripe, and nothing else.
MintKey(c) == call[c].terms

\* Stripe answers a key it knows with the coupon it made for it.
CreateCoupon(c, k) ==
    IF minted[MintKey(c)] # Null
    THEN k = minted[MintKey(c)] /\ UNCHANGED <<coupons, minted>>
    ELSE /\ ~Exists(k)
         /\ coupons' = [coupons EXCEPT ![k] = [terms |-> call[c].terms, deleted |-> FALSE]]
         /\ minted' = [minted EXCEPT ![MintKey(c)] = k]

Mint(c) ==
    /\ Is(c, "mint")
    /\ \E k \in Coupons :
          /\ CreateCoupon(c, k)
          /\ Goto(c, [at |-> "record", terms |-> call[c].terms, coupon |-> k])
    /\ UNCHANGED <<ledger, discounts, late, raced>>

\* No write credential, or terms Stripe would refuse: nothing was sent.
MintRefused(c) ==
    /\ Is(c, "mint")
    /\ Done(c, "refused", TRUE)
    /\ UNCHANGED <<ledger, coupons, minted, discounts, late, raced>>

\* The request fails, or its reply does not arrive.
MintUnanswered(c) ==
    /\ Is(c, "mint")
    /\ \/ \E k \in Coupons : CreateCoupon(c, k)
       \/ UNCHANGED <<coupons, minted>>
    /\ Done(c, "incomplete", FALSE)
    /\ UNCHANGED <<ledger, discounts, late, raced>>

RecordableAgain(k) == LiveCoupons = {}
RecordableAnyway(k) == TRUE

\* The unique indexes: one live row for a tenant, and one row ever for a coupon.
Recordable(k) == LiveCoupons = {} /\ ledger[k] = "none"

Record(c) ==
    /\ Is(c, "record")
    /\ Recordable(call[c].coupon)
    /\ ledger' = [ledger EXCEPT ![call[c].coupon] = "live"]
    /\ Goto(c, [call[c] EXCEPT !.at = "auditMint"])
    /\ UNCHANGED <<coupons, minted, discounts, late, raced>>

RecordUnanswered(c) ==
    /\ Is(c, "record")
    /\ \/ /\ Recordable(call[c].coupon)
          /\ ledger' = [ledger EXCEPT ![call[c].coupon] = "live"]
       \/ UNCHANGED ledger
    /\ Done(c, "incomplete", FALSE)
    /\ UNCHANGED <<coupons, minted, discounts, late, raced>>

RecordRefusedPolitely(c) ==
    /\ Is(c, "record")
    /\ ~Recordable(call[c].coupon)
    /\ Done(c, "refused", TRUE)
    /\ UNCHANGED <<ledger, coupons, minted, discounts, late, raced>>

\* A unique index refused the row: the coupon may have nobody to name it.
RecordRefused(c) ==
    /\ Is(c, "record")
    /\ ~Recordable(call[c].coupon)
    /\ Done(c, "incomplete", FALSE)
    /\ UNCHANGED <<ledger, coupons, minted, discounts, late, raced>>

\* auditedOperation writes its row once the operation has returned.
AuditMint(c) ==
    /\ Is(c, "auditMint")
    /\ \/ Goto(c, [call[c] EXCEPT !.at = "attach"])
       \/ Done(c, "incomplete", FALSE)
    /\ UNCHANGED <<ledger, coupons, minted, discounts, late, raced>>

\* The product puts a coupon on, unless Stripe no longer has it.
Applied(k) == IF Usable(k) THEN discounts \cup {k} ELSE discounts

Attach(c) ==
    /\ Is(c, "attach")
    /\ discounts' = Applied(call[c].coupon)
    /\ Done(c, "granted", Usable(call[c].coupon))
    /\ UNCHANGED <<ledger, coupons, minted, late, raced>>

\* unreachable: "whether it did cannot be told from here".  The product may act
\* on the request now, later or never.
AttachUnanswered(c) ==
    /\ Is(c, "attach")
    /\ \/ discounts' = Applied(call[c].coupon) /\ UNCHANGED late
       \/ late' = late \cup {<<"attach", call[c].coupon>>} /\ UNCHANGED discounts
       \/ UNCHANGED <<discounts, late>>
    /\ Done(c, "granted", FALSE)
    /\ UNCHANGED <<ledger, coupons, minted, raced>>

(***************************************************************************)
(* revokeTenantPricingOverride                                             *)
(***************************************************************************)

Revoke(c) ==
    /\ Is(c, "idle")
    /\ \/ LiveCoupons # {} /\ Goto(c, [at |-> "retire"])
       \/ Done(c, "refused", TRUE)
    /\ UNCHANGED <<ledger, coupons, minted, discounts, late, raced>>

\* A request to attach the coupon is still to come, or under way.
Attaching(k) ==
    \/ \E c \in ServerActions : call[c].at \in {"auditMint", "attach"} /\ call[c].coupon = k
    \/ <<"attach", k>> \in late

RetireRow(k) ==
    /\ ledger' = [ledger EXCEPT ![k] = "retired"]
    /\ raced' = IF Attaching(k) THEN raced \cup {k} ELSE raced

\* UPDATE ... WHERE removed_at IS NULL RETURNING: the row that is live now,
\* which need not be the one that was read.
Retire(c) ==
    /\ Is(c, "retire")
    /\ \E k \in LiveCoupons :
          RetireRow(k) /\ Goto(c, [at |-> "auditRetire", coupon |-> k])
    /\ UNCHANGED <<coupons, minted, discounts, late>>

RetireNothing(c) ==
    /\ Is(c, "retire")
    /\ LiveCoupons = {}
    /\ Done(c, "refused", TRUE)
    /\ UNCHANGED <<ledger, coupons, minted, discounts, late, raced>>

RetireUnanswered(c) ==
    /\ Is(c, "retire")
    /\ \/ \E k \in LiveCoupons : RetireRow(k)
       \/ UNCHANGED <<ledger, raced>>
    /\ Done(c, "incomplete", FALSE)
    /\ UNCHANGED <<coupons, minted, discounts, late>>

AuditRetire(c) ==
    /\ Is(c, "auditRetire")
    /\ \/ Goto(c, [call[c] EXCEPT !.at = "detach"])
       \/ Done(c, "incomplete", FALSE)
    /\ UNCHANGED <<ledger, coupons, minted, discounts, late, raced>>

ToDelete(c, clean) ==
    Goto(c, [at |-> "delete", coupon |-> call[c].coupon, clean |-> clean])

Detach(c) ==
    /\ Is(c, "detach")
    /\ discounts' = discounts \ {call[c].coupon}
    /\ ToDelete(c, TRUE)
    /\ UNCHANGED <<ledger, coupons, minted, late, raced>>

DetachUnansweredIsClean(c) ==
    /\ Is(c, "detach")
    /\ ToDelete(c, TRUE)
    /\ UNCHANGED <<ledger, coupons, minted, discounts, late, raced>>

\* The delete follows all the same.
DetachUnanswered(c) ==
    /\ Is(c, "detach")
    /\ \/ discounts' = discounts \ {call[c].coupon} /\ UNCHANGED late
       \/ late' = late \cup {<<"detach", call[c].coupon>>} /\ UNCHANGED discounts
       \/ UNCHANGED <<discounts, late>>
    /\ ToDelete(c, FALSE)
    /\ UNCHANGED <<ledger, coupons, minted, raced>>

DeletedCoupon(k) == coupons' = [coupons EXCEPT ![k].deleted = TRUE]

\* resource_missing counts as deleted.  couponDeleted is not part of clean.
Delete(c) ==
    /\ Is(c, "delete")
    /\ \/ DeletedCoupon(call[c].coupon)
       \/ UNCHANGED coupons
    /\ Done(c, "revoked", call[c].clean)
    /\ UNCHANGED <<ledger, minted, discounts, late, raced>>

(***************************************************************************)
(* The environment, and the specification                                  *)
(***************************************************************************)

LateArrives(op, k) ==
    /\ <<op, k>> \in late
    /\ discounts' = IF op = "attach" THEN Applied(k) ELSE discounts \ {k}
    /\ late' = late \ {<<op, k>>}
    /\ UNCHANGED <<call, ledger, coupons, minted, raced>>

\* The console stops in the middle of a call.  (When a request is on its way
\* then, what becomes of it is a step of the call's Unanswered action before.)
ConsoleStops(c) ==
    /\ call[c].at \in GrantSteps \cup RevokeSteps
    /\ Done(c, "incomplete", FALSE)
    /\ UNCHANGED <<ledger, coupons, minted, discounts, late, raced>>

OverridesInit ==
    /\ call = [c \in ServerActions |-> [at |-> "idle"]]
    /\ ledger = [k \in Coupons |-> "none"]
    /\ coupons = [k \in Coupons |-> Null]
    /\ minted = [key \in Terms |-> Null]
    /\ discounts = {}
    /\ late = {}
    /\ raced = {}

GrantStep(c) ==
    \/ \E terms \in Terms : Grant(c, terms)
    \/ Mint(c) \/ MintRefused(c) \/ MintUnanswered(c)
    \/ Record(c) \/ RecordUnanswered(c) \/ RecordRefused(c)
    \/ AuditMint(c)
    \/ Attach(c) \/ AttachUnanswered(c)

RevokeStep(c) ==
    \/ Revoke(c)
    \/ Retire(c) \/ RetireNothing(c) \/ RetireUnanswered(c)
    \/ AuditRetire(c)
    \/ Detach(c) \/ DetachUnanswered(c)
    \/ Delete(c)

OverridesNext ==
    \/ \E c \in ServerActions : GrantStep(c) \/ RevokeStep(c) \/ ConsoleStops(c)
    \/ \E op \in {"attach", "detach"}, k \in Coupons : LateArrives(op, k)

OverridesSpec == OverridesInit /\ [][OverridesNext]_overridesVars

(***************************************************************************)
(* What should hold                                                        *)
(***************************************************************************)

\* Every variable stays in its set, and the tenant has one live row at most.
OverridesTypeOK ==
    /\ call \in [ServerActions -> Call]
    /\ ledger \in [Coupons -> {"none", "live", "retired"}]
    /\ coupons \in [Coupons -> [terms : Terms, deleted : BOOLEAN] \cup {Null}]
    /\ minted \in [Terms -> Coupons \cup {Null}]
    /\ discounts \subseteq Coupons
    /\ late \subseteq {"attach", "detach"} \X Coupons
    /\ raced \subseteq Coupons
    /\ Cardinality(LiveCoupons) <= 1

Incomplete(c) == Is(c, "done") /\ call[c].answer = "incomplete"

\* The console strands no coupon in silence: one that Stripe has and no row
\* names belongs to a grant of its terms that is still running, or whose
\* operator was not told that nothing happened.
NoSilentOrphan ==
    \A k \in Coupons : Usable(k) /\ ledger[k] = "none" =>
        \E c \in ServerActions :
            /\ Is(c, "record") \/ Incomplete(c)
            /\ call[c].terms = coupons[k].terms

\* The record that blocks a second grant names a coupon that can be applied:
\* never one a revoke has deleted, not even when Stripe answers a new grant of
\* the same terms with the coupon of the old one.
LiveRowsAreUsable == \A k \in LiveCoupons : Usable(k)

\* A tenant who still pays less under a retired record does so with somebody's
\* knowledge: a revoke has not come to its detach, or said that it could not
\* tell; or the grant's attach was under way when the record was retired.  And
\* nothing is ever on the subscriptions that the console did not record.
RevokedMeansOff ==
    \A k \in discounts :
        /\ ledger[k] # "none"
        /\ ledger[k] = "retired" /\ k \notin raced =>
              \E c \in ServerActions :
                  \/ call[c].at \in {"auditRetire", "detach"} /\ call[c].coupon = k
                  \/ Is(c, "delete") /\ call[c].coupon = k /\ ~call[c].clean
                  \/ /\ Incomplete(c)
                     /\ call[c].terms = Null
                     /\ call[c].coupon \in {k, Null}
                  \/ /\ Is(c, "done") /\ call[c].answer = "revoked"
                     /\ call[c].coupon = k /\ ~call[c].clean
=============================================================================

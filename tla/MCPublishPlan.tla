----------------------------- MODULE MCPublishPlan -----------------------------
(***************************************************************************)
(* PublishPlan on every small input: a catalog, a draft of it and what     *)
(* Stripe sells.  The one step publishes the draft as the plan says, every *)
(* call accepted.                                                          *)
(***************************************************************************)
EXTENDS PublishPlan

CONSTANTS Amounts, TaxValues

\* An amount of the catalog is positive (0032).
ASSUME AmountsAssumption == Amounts \subseteq Nat \ {0} /\ TaxValues \subseteq TaxBehaviors

VARIABLES ancestor, draft, observed
planVars == <<ancestor, draft, observed>>

OnePlan == [k \in Keys |-> "studio"]

SmallCoverages == [Currencies -> [amount : Amounts, tax : TaxValues] \cup {None}]

(* A Price sells its own currency, its options vary. *)
SmallPrices ==
    UNION {{[id |-> 1, currency |-> c, coverage |-> StripeRow(coverage)] :
               coverage \in {row \in SmallCoverages : row[c] # None}} :
           c \in Currencies}

PlanInit ==
    /\ ancestor \in [Keys -> SmallCoverages]
    /\ draft \in [Keys -> SmallCoverages]
    /\ observed \in [Keys -> SmallPrices \cup {None}]

Plan == BuildPublishPlan(draft, observed)

Publish ==
    /\ ~Refused(draft, observed)
    /\ observed' = AfterPlan(observed, Plan)
    /\ ancestor' = draft
    /\ UNCHANGED draft

PlanSpec == PlanInit /\ [][Publish]_planVars

--------------------------------------------------------------------------------
\* A plan that is not refused brings Stripe into parity with the draft, and a
\* second publish finds nothing left to do: whatever the catalog last published,
\* whatever Stripe held, whichever currency a Price was created in and whatever
\* its minor unit is.
PlanConverges ==
    [][Agrees(draft, observed') /\ BuildPublishPlan(draft, observed') = {}]_planVars

\* Stripe can execute every call of a plan: a Price is created without a
\* transfer only under a free key, a currency is only ever added, and only
\* the Price's own tax behaviour is set, once.  An amount never moves in place.
PlanExecutable ==
    \A call \in Plan :
        /\ call.kind = "create_price" => observed[call.key] = None
        /\ call.kind = "add_currency_option" =>
              observed[call.key].coverage[call.currency] = None
        /\ call.kind = "update_tax_behavior" =>
              /\ call.currency = observed[call.key].currency
              /\ observed[call.key].coverage[call.currency].tax = "unspecified"

\* A price that a publish brings to Stripe and that moved by more than a
\* quarter since the catalog last published it is never published unseen.
BigMovesNeedConfirmation ==
    LET after == AfterPlan(observed, Plan)
        Sold(prices, k, c) == IF prices[k] = None \/ prices[k].coverage[c] = None THEN 0
                              ELSE prices[k].coverage[c].amount
        moved == {kc \in Keys \X Currencies :
                    LET before == StripeRow(ancestor[kc[1]])[kc[2]]
                        now == Sold(after, kc[1], kc[2])
                    IN  /\ before # None /\ now # 0
                        /\ now # Sold(observed, kc[1], kc[2])
                        /\ 4 * now > 5 * before.amount \/ 4 * now < 3 * before.amount}
    IN  moved # {} /\ ~Refused(draft, observed) =>
            "magnitude" \in RequiresConfirmation(ancestor, draft, observed, "test")
================================================================================

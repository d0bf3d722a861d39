------------------------------- MODULE MCBilling -------------------------------
(***************************************************************************)
(* The billing console does one of three things, which share no row and no *)
(* price: it publishes the catalog (MCCatalogPublish), it makes and carries*)
(* out a plan on any small input (MCPublishPlan), or it grants one tenant  *)
(* a price of its own and takes it back (PricingOverrides).                *)
(***************************************************************************)
EXTENDS MCCatalogPublish, MCPublishPlan, PricingOverrides

CONSTANT Works  \* what it does in this instance: of "publish", "plan", "override"

VARIABLE work
billingVars == <<vars, planVars, overridesVars, work>>

\* Plans are of the first key.  Of the ancestor, the rules read the amounts.
First(value, none) == [k \in Keys |-> IF k = 1 THEN value ELSE none]

PlainRows ==
    {row \in SmallCoverages : \A c \in Covered(row) : row[c].tax = "unspecified"}

SmallPlan ==
    /\ ancestor \in {First(row, Uncovered) : row \in PlainRows}
    /\ draft \in {First(row, Uncovered) : row \in SmallCoverages}
    /\ observed \in {First(price, None) : price \in SmallPrices \cup {None}}

NoPlan ==
    /\ ancestor = First(Uncovered, Uncovered)
    /\ draft = ancestor
    /\ observed = First(None, None)

MCInit ==
    /\ work \in Works
    /\ Init
    /\ work # "publish" => \A m \in Modes : stripe[m] = CHOOSE seed \in StripeSeeds : TRUE
    /\ IF work = "plan" THEN SmallPlan ELSE NoPlan
    /\ OverridesInit

\* Calls, terms and coupons are numbered as they come up.
InTurn(numbers) == \A n \in numbers : n = 1 \/ n - 1 \in numbers

OverrideInTurn ==
    /\ OverridesNext
    /\ InTurn({c \in ServerActions : call'[c].at # "idle"})
    /\ InTurn({k \in Coupons : coupons'[k] # Null})
    /\ InTurn({t \in Terms : \E c \in ServerActions :
                  "terms" \in DOMAIN call'[c] /\ call'[c].terms = t})

\* A plan that is refused, or carried out, ends there; so do a tenant's calls.
Rest == work # "publish" /\ UNCHANGED billingVars

MCNext ==
    \/ work = "publish" /\ Next /\ UNCHANGED <<planVars, overridesVars, work>>
    \/ work = "plan" /\ Publish /\ UNCHANGED <<vars, overridesVars, work>>
    \/ work = "override" /\ OverrideInTurn /\ UNCHANGED <<vars, planVars, work>>
    \/ Rest

MCSpec == MCInit /\ [][MCNext]_billingVars

MCFairSpec == MCSpec /\ \A p \in Publishers : WF_vars(Execute(p))
=================================================================================

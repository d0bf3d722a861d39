------------------------- MODULE MCPublishPlanProofs -------------------------
(***************************************************************************)
(* The publish plan, for any number of keys and currencies and any amounts *)
(* (buildPublishPlan, checkGuards): it converges, Stripe can execute it    *)
(* and it shows a human every price that moves by more than a quarter.     *)
(***************************************************************************)
EXTENDS MCPublishPlan, PublishPlanProofs

\* A Price sells its own currency.  Without it a plan would send that currency
\* as 0 and never agree.
PlanInv ==
    /\ ancestor \in [Keys -> SmallCoverages]
    /\ draft \in [Keys -> SmallCoverages]
    /\ observed \in Observations
    /\ \A k \in StripeKeys(observed) : observed[k].currency \in Covered(observed[k].coverage)

\* The rows of the catalog are rows, and their amounts positive.
LEMMA SmallRows ==
    /\ SmallCoverages \subseteq Coverages
    /\ [Keys -> SmallCoverages] \subseteq [Keys -> Coverages]
    /\ \A row \in SmallCoverages : \A c \in Covered(row) : row[c].amount # 0
<1>1. [amount : Amounts, tax : TaxValues] \subseteq Cells
  BY AmountsAssumption DEF Cells
<1>2. \A row \in SmallCoverages : \A c \in Covered(row) : row[c] \in [amount : Amounts, tax : TaxValues]
  BY DEF SmallCoverages, Covered
<1> QED
  BY <1>1, <1>2, AmountsAssumption DEF SmallCoverages, Coverages

LEMMA InitPlan == PlanInit => PlanInv
<1> SUFFICES ASSUME PlanInit PROVE PlanInv
  OBVIOUS
<1>1. ASSUME NEW price \in SmallPrices
      PROVE  price \in PriceViews /\ price.currency \in Covered(price.coverage)
  <2>1. PICK c \in Currencies, coverage \in SmallCoverages :
           coverage[c] # None /\ price = [id |-> 1, currency |-> c, coverage |-> StripeRow(coverage)]
    BY <1>1 DEF SmallPrices
  <2>2. coverage \in Coverages
    BY SmallRows
  <2>3. StripeRow(coverage) \in Coverages /\ StripeRow(coverage)[c] # None
    BY <2>1, <2>2, StripeRowShape
  <2> QED
    BY <2>1, <2>3 DEF PriceViews, Covered
<1>2. observed \in [Keys -> SmallPrices \cup {None}]
  BY DEF PlanInit
<1>3. observed \in Observations
  BY <1>1, <1>2 DEF Observations
<1>4. \A k \in StripeKeys(observed) : observed[k] \in SmallPrices
  BY <1>2 DEF StripeKeys
<1> QED
  BY <1>1, <1>3, <1>4 DEF PlanInit, PlanInv

LEMMA PublishPlans ==
    PlanInv /\ Publish => PlanInv' /\ Agrees(draft, observed')
                                   /\ BuildPublishPlan(draft, observed') = {}
<1> SUFFICES ASSUME PlanInv, Publish
             PROVE  PlanInv' /\ Agrees(draft, observed') /\ BuildPublishPlan(draft, observed') = {}
  OBVIOUS
<1>1. draft \in [Keys -> Coverages]
  BY SmallRows DEF PlanInv
<1>2. /\ observed' \in Observations /\ Agrees(draft, observed')
      /\ \A k \in StripeKeys(observed') : observed'[k].currency \in Covered(observed'[k].coverage)
  BY <1>1, PlanAgrees DEF PlanInv, Publish, Plan
<1>3. BuildPublishPlan(draft, observed') = {}
  BY <1>1, <1>2, AgreedNeedsNothing
<1>4. PlanInv'
  BY <1>2 DEF PlanInv, Publish
<1> QED
  BY <1>2, <1>3, <1>4

LEMMA NextPlan == PlanInv /\ [Publish]_planVars => PlanInv'
<1>1. PlanInv /\ UNCHANGED planVars => PlanInv'
  BY DEF PlanInv, planVars
<1> QED
  BY <1>1, PublishPlans

THEOREM PlanInvariant == PlanSpec => []PlanInv
  BY InitPlan, NextPlan, PTL DEF PlanSpec

\* A publish that is not refused brings Stripe into parity with the draft, and
\* a second one finds nothing left to do.
THEOREM Converges == PlanSpec => PlanConverges
<1>1. PlanInv /\ [Publish]_planVars =>
         [Agrees(draft, observed') /\ BuildPublishPlan(draft, observed') = {}]_planVars
  BY PublishPlans
<1> QED
  BY <1>1, PlanInvariant, PTL DEF PlanSpec, PlanConverges

\* Stripe can execute every call of a plan: keys are free when a Price is
\* created under them, a currency is only ever added, and only the Price's own
\* tax behaviour is set, once.
THEOREM Executable == PlanSpec => []PlanExecutable
<1>1. ASSUME PlanInv, NEW call \in Plan
      PROVE  /\ call.kind = "create_price" => observed[call.key] = None
             /\ call.kind = "add_currency_option" =>
                   observed[call.key].coverage[call.currency] = None
             /\ call.kind = "update_tax_behavior" =>
                   /\ call.currency = observed[call.key].currency
                   /\ observed[call.key].coverage[call.currency].tax = "unspecified"
  <2>1. draft \in [Keys -> Coverages] /\ observed \in Observations
    BY <1>1, SmallRows DEF PlanInv
  <2>2. CASE call.kind = "create_price"
    <3>1. call.key \in MissingInStripe(draft, observed)
      BY <2>1, <2>2, PlanMeaning DEF Plan
    <3> QED
      BY <2>2, <3>1 DEF MissingInStripe, CatalogKeys, StripeKeys
  <2>3. CASE call.kind = "add_currency_option"
    <3>1. call.currency \in CurrencyMissingInStripe(draft[call.key], observed[call.key])
      BY <2>1, <2>3, PlanMeaning DEF Plan
    <3> QED
      BY <2>3, <3>1 DEF CurrencyMissingInStripe, Covered
  <2>4. CASE call.kind = "update_tax_behavior"
    <3>1. /\ call.key \in KeptKeys(draft, observed)
          /\ call.currency \in TaxMismatch(draft[call.key], observed[call.key])
      BY <2>1, <2>4, PlanMeaning DEF Plan
    <3>2. ReplaceCauses(draft[call.key], observed[call.key]) = {}
      BY <3>1 DEF KeptKeys, ReplacedKeys, NeedsReplace
    <3>3. ~TaxRequiresReplace(call.currency, observed[call.key])
      BY <3>1, <3>2 DEF ReplaceCauses
    <3> QED
      BY <2>4, <3>3 DEF TaxRequiresReplace
  <2> QED
    BY <2>2, <2>3, <2>4
<1>2. PlanInv => PlanExecutable
  BY <1>1 DEF PlanExecutable
<1> QED
  BY <1>2, PlanInvariant, PTL

\* checkMagnitude's rounding-free comparison is what "more than a quarter"
\* means, upwards and downwards.
LEMMA Quarter ==
    ASSUME NEW before \in Nat, NEW now \in Nat, 4 * now > 5 * before \/ 4 * now < 3 * before
    PROVE  MovesTooFar(before, now)
  BY DEF MovesTooFar

\* A price of the catalog, moved by more than a quarter by the plan, has a call
\* that checkMagnitude sees.
LEMMA BigMoveIsSeen ==
    ASSUME PlanInv, ~Refused(draft, observed), NEW k \in Keys, NEW c \in Currencies,
           ancestor[k][c] # None,
           NEW sale, sale = AfterPlan(observed, Plan)[k], sale # None, sale.coverage[c] # None,
           observed[k] # None /\ observed[k].coverage[c] # None =>
               sale.coverage[c].amount # observed[k].coverage[c].amount,
           \/ 4 * sale.coverage[c].amount > 5 * StripeRow(ancestor[k])[c].amount
           \/ 4 * sale.coverage[c].amount < 3 * StripeRow(ancestor[k])[c].amount
    PROVE  Magnitude(ancestor, draft, observed)
<1>1. /\ draft \in [Keys -> Coverages] /\ observed \in Observations
      /\ ancestor[k] \in Coverages /\ ancestor[k][c].amount # 0 /\ c \in Covered(ancestor[k])
  BY SmallRows DEF PlanInv, Covered
<1>2. PICK call \in Plan :
         /\ call.key = k /\ call.kind \in {"create_price", "replace_price", "add_currency_option"}
         /\ c \in Covered(call.coverage)
         /\ call.coverage[c].amount = sale.coverage[c].amount
  BY <1>1, ChangedSale DEF Plan
<1>3. call.coverage[c] \in Cells
  BY <1>1, <1>2, PlanShape DEF Plan, Calls, Coverages, Covered
<1>4. /\ StripeRow(ancestor[k])[c].amount = StripeAmount(c, ancestor[k][c].amount)
      /\ StripeRow(ancestor[k])[c] \in Cells
  <2>1. /\ StripeRow(ancestor[k])[c] = StripeCell(c, ancestor[k][c])
        /\ StripeCell(c, ancestor[k][c]) \in Cells
    BY <1>1, StripeRowShape
  <2> QED
    BY <2>1 DEF StripeCell
<1>5. MovesTooFar(StripeAmount(c, ancestor[k][c].amount), call.coverage[c].amount)
  BY <1>2, <1>3, <1>4, Quarter DEF Cells
<1> QED
  BY <1>1, <1>2, <1>5 DEF Magnitude, Plan

\* A price that a publish brings to Stripe and that moved by more than a
\* quarter since the catalog last published it is never published unseen.
THEOREM BigMovesAreSeen == PlanSpec => []BigMovesNeedConfirmation
<1> DEFINE Sold(prices, k, c) == IF prices[k] = None \/ prices[k].coverage[c] = None THEN 0
                                 ELSE prices[k].coverage[c].amount
           after == AfterPlan(observed, Plan)
           Moved(k, c) ==
              LET before == StripeRow(ancestor[k])[c]
                  now == Sold(after, k, c)
              IN  /\ before # None /\ now # 0
                  /\ now # Sold(observed, k, c)
                  /\ 4 * now > 5 * before.amount \/ 4 * now < 3 * before.amount
<1>1. ASSUME PlanInv, ~Refused(draft, observed), NEW k \in Keys, NEW c \in Currencies, Moved(k, c)
      PROVE  Magnitude(ancestor, draft, observed)
  <2>1. ancestor[k][c] # None
    BY <1>1, SmallRows, StripeRowShape DEF PlanInv
  <2>2. /\ after[k] # None /\ after[k].coverage[c] # None
        /\ Sold(after, k, c) = after[k].coverage[c].amount
    BY <1>1
  <2>3. observed[k] # None /\ observed[k].coverage[c] # None =>
            after[k].coverage[c].amount # observed[k].coverage[c].amount
    BY <1>1, <2>2
  <2> HIDE DEF after
  <2>4. \/ 4 * after[k].coverage[c].amount > 5 * StripeRow(ancestor[k])[c].amount
        \/ 4 * after[k].coverage[c].amount < 3 * StripeRow(ancestor[k])[c].amount
    BY <1>1, <2>2
  <2> QED
    BY <1>1, <2>1, <2>2, <2>3, <2>4, BigMoveIsSeen DEF after
<1>2. ASSUME PlanInv PROVE BigMovesNeedConfirmation
  <2>1. SUFFICES ASSUME ~Refused(draft, observed),
                        NEW k \in Keys, NEW c \in Currencies, Moved(k, c)
                 PROVE  "magnitude" \in RequiresConfirmation(ancestor, draft, observed, "test")
    BY DEF BigMovesNeedConfirmation
  <2> QED
    BY <1>1, <1>2, <2>1 DEF RequiresConfirmation
<1> QED
  BY <1>2, PlanInvariant, PTL
=============================================================================

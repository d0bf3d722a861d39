-------------------------- MODULE PublishPlanProofs --------------------------
(***************************************************************************)
(* Lemmas about the operators of PublishPlan: the shape of what they return *)
(* (PlanShape), what the calls of a plan are for each key (PlanMeaning), and *)
(* that they bring what Stripe holds to what the draft says (PlanAgrees).  *)
(***************************************************************************)
EXTENDS PublishPlan, TLAPS

Observations == [Keys -> PriceViews \cup {None}]

\* What a call of a plan carries, by what it does.
WellFormed(call) ==
    /\ call.verb = "create" => call.kind \in {"create_product", "create_price", "replace_price"}
    /\ call.verb = "archive" => call.kind \in {"archive_price", "replace_price"}
    /\ call.verb = "update" =>
          /\ call.kind \in {"add_currency_option", "update_tax_behavior"}
          /\ call.currency \in Currencies
          /\ call.coverage[call.currency] \in Cells
    /\ call.verb = "create" /\ call.kind # "create_product" => call.currency \in Currencies

\* toStripeUnitAmount and toStripeRow keep the shape of a row: every covered
\* currency stays covered, no other becomes so.
LEMMA StripeRowShape ==
    ASSUME NEW row \in Coverages
    PROVE  /\ StripeRow(row) \in Coverages
           /\ \A c \in Currencies : StripeRow(row)[c] = None <=> row[c] = None
           /\ \A c \in Currencies : row[c] # None =>
                /\ row[c] \in Cells
                /\ StripeRow(row)[c] = StripeCell(c, row[c])
                /\ StripeCell(c, row[c]) \in Cells
<1>1. \A c \in Currencies : row[c] # None => StripeCell(c, row[c]) \in Cells
  BY DEF Coverages, Cells, StripeCell, StripeAmount
<1>2. \A c \in Currencies : row[c] # None => row[c] \in Cells
  BY DEF Coverages
<1> QED
  BY <1>1, <1>2, NoneAssumption DEF Coverages, StripeRow

\* A Price that is created carries a full row in Stripe's units.
LEMMA StripeReadyShape ==
    ASSUME NEW row \in Coverages, NEW baseline \in Currencies
    PROVE  StripeReady(row, baseline) \in Coverages
<1>1. [amount |-> 0, tax |-> "unspecified"] \in Cells
  BY DEF Cells, TaxBehaviors
<1> QED
  BY <1>1, StripeRowShape DEF StripeReady, Coverages

\* resolveBaseline picks a currency.
LEMMA BaselineIsACurrency ==
    ASSUME NEW row \in Coverages, Covered(row) # {}
    PROVE  ResolveBaseline(row) \in Currencies
  BY DEF ResolveBaseline, Covered

\* Every call that buildPublishPlan plans is a call the executor can make.
LEMMA PlanShape ==
    ASSUME NEW draft \in [Keys -> Coverages], NEW observed \in Observations
    PROVE  \A call \in BuildPublishPlan(draft, observed) : call \in Calls /\ WellFormed(call)
<1> USE DEF Observations
<1>1. \A k \in Keys : draft[k] \in Coverages
  OBVIOUS
<1>2. \A k \in StripeKeys(observed) : observed[k] \in PriceViews
  BY DEF StripeKeys
<1>3. \A k \in Keys : 0 \in Nat /\ Uncovered \in Coverages
  BY DEF Uncovered, Coverages
<1>4. ASSUME NEW k \in Keys
      PROVE  LET call == Create("create_product", k, None, Uncovered)
             IN  call \in Calls /\ WellFormed(call)
  BY <1>3 DEF Create, Calls, WellFormed, OperationKinds
<1>5. ASSUME NEW k \in Keys, NEW c \in Currencies, NEW coverage \in Coverages,
             NEW kind \in {"create_price", "replace_price"}
      PROVE  LET call == Create(kind, k, c, coverage)
             IN  call \in Calls /\ WellFormed(call)
  BY DEF Create, Calls, WellFormed, OperationKinds
<1>6. ASSUME NEW k \in Keys, NEW id \in Nat,
             NEW kind \in {"archive_price", "replace_price"}
      PROVE  LET call == Archive(kind, k, id)
             IN  call \in Calls /\ WellFormed(call)
  BY <1>3 DEF Archive, Calls, WellFormed, OperationKinds
<1>7. ASSUME NEW k \in Keys, NEW id \in Nat, NEW c \in Currencies, NEW cell \in Cells,
             NEW kind \in {"add_currency_option", "update_tax_behavior"}
      PROVE  LET call == Update(kind, k, id, c, cell)
             IN  call \in Calls /\ WellFormed(call)
  <2>1. [Uncovered EXCEPT ![c] = cell] \in Coverages
    BY DEF Uncovered, Coverages
  <2>2. [Uncovered EXCEPT ![c] = cell][c] = cell
    BY DEF Uncovered
  <2> QED
    BY <2>1, <2>2 DEF Update, Calls, WellFormed, OperationKinds
<1>8. \A k \in StripeKeys(observed) : observed[k].id \in Nat /\ observed[k].currency \in Currencies
  BY <1>2 DEF PriceViews
<1>9. \A k \in CatalogKeys(draft) : ResolveBaseline(draft[k]) \in Currencies
  BY <1>1, BaselineIsACurrency DEF CatalogKeys
<1>10. \A k \in Keys : \A c \in Currencies : StripeReady(draft[k], c) \in Coverages
  BY <1>1, StripeReadyShape
<1>11. \A k \in Keys : \A c \in Covered(draft[k]) : c \in Currencies /\ StripeCell(c, draft[k][c]) \in Cells
  BY <1>1, StripeRowShape DEF Covered
<1>12. /\ MissingInStripe(draft, observed) \subseteq CatalogKeys(draft)
       /\ MissingInCatalog(draft, observed) \subseteq StripeKeys(observed)
       /\ Matched(draft, observed) \subseteq CatalogKeys(draft) \cap StripeKeys(observed)
       /\ ProductKeys(draft, observed) \subseteq CatalogKeys(draft)
       /\ ReplacedKeys(draft, observed) \subseteq Matched(draft, observed)
       /\ KeptKeys(draft, observed) \subseteq Matched(draft, observed)
       /\ CatalogKeys(draft) \subseteq Keys /\ StripeKeys(observed) \subseteq Keys
  BY DEF MissingInStripe, MissingInCatalog, Matched, ProductKeys, ReplacedKeys, KeptKeys,
         CatalogKeys, StripeKeys
<1>13. \A k \in Keys : /\ CurrencyMissingInStripe(draft[k], observed[k]) \subseteq Covered(draft[k])
                       /\ TaxMismatch(draft[k], observed[k]) \subseteq Covered(draft[k])
  BY DEF CurrencyMissingInStripe, TaxMismatch
<1> SUFFICES ASSUME NEW call \in BuildPublishPlan(draft, observed)
             PROVE  call \in Calls /\ WellFormed(call)
  OBVIOUS
<1>a. CASE \E k \in ProductKeys(draft, observed) : call = Create("create_product", k, None, Uncovered)
  BY <1>a, <1>4, <1>12
<1>b. CASE \E k \in MissingInStripe(draft, observed) :
              call = Create("create_price", k, ResolveBaseline(draft[k]),
                            StripeReady(draft[k], ResolveBaseline(draft[k])))
  BY <1>b, <1>5, <1>9, <1>10, <1>12
<1>c. CASE \E k \in MissingInCatalog(draft, observed) :
              call = Archive("archive_price", k, observed[k].id)
  BY <1>c, <1>6, <1>8, <1>12
<1>d. CASE \E k \in ReplacedKeys(draft, observed) :
              call = Create("replace_price", k, observed[k].currency,
                            StripeReady(draft[k], observed[k].currency))
  BY <1>d, <1>5, <1>8, <1>10, <1>12
<1>e. CASE \E k \in ReplacedKeys(draft, observed) :
              call = Archive("replace_price", k, observed[k].id)
  BY <1>e, <1>6, <1>8, <1>12
<1>f. CASE \E k \in KeptKeys(draft, observed) :
              \E c \in CurrencyMissingInStripe(draft[k], observed[k]) :
                 call = Update("add_currency_option", k, observed[k].id, c, StripeCell(c, draft[k][c]))
  BY <1>f, <1>7, <1>8, <1>11, <1>12, <1>13
<1>g. CASE \E k \in KeptKeys(draft, observed) :
              \E c \in TaxMismatch(draft[k], observed[k]) :
                 call = Update("update_tax_behavior", k, observed[k].id, c, StripeCell(c, draft[k][c]))
  BY <1>g, <1>7, <1>8, <1>11, <1>12, <1>13
<1> QED
  BY <1>a, <1>b, <1>c, <1>d, <1>e, <1>f, <1>g DEF BuildPublishPlan

\* The fingerprint of an observation is made of its cells.
LEMMA FingerprintShape ==
    ASSUME NEW observed \in Observations
    PROVE  Fingerprint(observed) \in SUBSET (Keys \X Currencies \X Cells)
<1>1. \A k \in StripeKeys(observed) : k \in Keys /\ observed[k] \in PriceViews
  BY DEF Observations, StripeKeys
<1>2. \A k \in StripeKeys(observed), c \in Currencies :
         observed[k].coverage[c] # None => observed[k].coverage[c] \in Cells
  BY <1>1 DEF PriceViews, Coverages
<1> QED
  BY <1>1, <1>2 DEF Fingerprint

--------------------------------------------------------------------------------
(* What the calls of a plan do, key by key.                                *)

\* A call of a plan, read back: why it is there and what it carries.
LEMMA PlanMeaning ==
    ASSUME NEW draft \in [Keys -> Coverages], NEW observed \in Observations,
           NEW call \in BuildPublishPlan(draft, observed)
    PROVE  LET k == call.key
           IN  /\ call.verb = "create" /\ call.kind # "create_product" =>
                     /\ \/ /\ call.kind = "create_price" /\ k \in MissingInStripe(draft, observed)
                           /\ call.currency = ResolveBaseline(draft[k])
                        \/ /\ call.kind = "replace_price" /\ k \in ReplacedKeys(draft, observed)
                           /\ call.currency = observed[k].currency
                     /\ call.coverage = StripeReady(draft[k], call.currency)
               /\ call.verb = "archive" =>
                     /\ \/ call.kind = "archive_price" /\ k \in MissingInCatalog(draft, observed)
                        \/ call.kind = "replace_price" /\ k \in ReplacedKeys(draft, observed)
                     /\ call.price = observed[k].id
               /\ call.verb = "update" =>
                     /\ k \in KeptKeys(draft, observed) /\ call.currency \in Currencies
                     /\ call.coverage[call.currency] = StripeCell(call.currency, draft[k][call.currency])
                     /\ call.price = observed[k].id
                     /\ \/ /\ call.kind = "add_currency_option"
                           /\ call.currency \in CurrencyMissingInStripe(draft[k], observed[k])
                        \/ /\ call.kind = "update_tax_behavior"
                           /\ call.currency \in TaxMismatch(draft[k], observed[k])
               /\ call.kind = "create_price" => k \in MissingInStripe(draft, observed)
               /\ call.kind \in {"add_currency_option", "update_tax_behavior"} => call.verb = "update"
               /\ call.verb \in {"create", "archive", "update"} /\ k \in Keys
<1> USE DEF Create, Archive, Update
<1>0. call.verb \in {"create", "archive", "update"} /\ call.key \in Keys
  BY PlanShape DEF Calls
<1>1. CASE \E k \in ProductKeys(draft, observed) : call = Create("create_product", k, None, Uncovered)
  BY <1>0, <1>1
<1>2. CASE \E k \in MissingInStripe(draft, observed) :
              call = Create("create_price", k, ResolveBaseline(draft[k]),
                            StripeReady(draft[k], ResolveBaseline(draft[k])))
  BY <1>0, <1>2
<1>3. CASE \E k \in MissingInCatalog(draft, observed) :
              call = Archive("archive_price", k, observed[k].id)
  BY <1>0, <1>3
<1>4. CASE \E k \in ReplacedKeys(draft, observed) :
              call = Create("replace_price", k, observed[k].currency,
                            StripeReady(draft[k], observed[k].currency))
  BY <1>0, <1>4
<1>5. CASE \E k \in ReplacedKeys(draft, observed) :
              call = Archive("replace_price", k, observed[k].id)
  BY <1>0, <1>5
<1>6. \A c \in Currencies : \A cell : [Uncovered EXCEPT ![c] = cell][c] = cell
  BY DEF Uncovered
<1>7. \A k \in Keys : Covered(draft[k]) \subseteq Currencies
  BY DEF Covered
<1>8. CASE \E k \in KeptKeys(draft, observed) :
              \E c \in CurrencyMissingInStripe(draft[k], observed[k]) :
                 call = Update("add_currency_option", k, observed[k].id, c, StripeCell(c, draft[k][c]))
  <2>0. PICK k \in KeptKeys(draft, observed) : \E c \in CurrencyMissingInStripe(draft[k], observed[k]) :
              call = Update("add_currency_option", k, observed[k].id, c, StripeCell(c, draft[k][c]))
    BY <1>8
  <2>1. PICK c \in CurrencyMissingInStripe(draft[k], observed[k]) :
              call = Update("add_currency_option", k, observed[k].id, c, StripeCell(c, draft[k][c]))
    BY <2>0
  <2>2. c \in Currencies
    BY DEF CurrencyMissingInStripe, Covered
  <2> QED
    BY <1>0, <1>6, <2>1, <2>2
<1>9. CASE \E k \in KeptKeys(draft, observed) :
              \E c \in TaxMismatch(draft[k], observed[k]) :
                 call = Update("update_tax_behavior", k, observed[k].id, c, StripeCell(c, draft[k][c]))
  <2>0. PICK k \in KeptKeys(draft, observed) : \E c \in TaxMismatch(draft[k], observed[k]) :
              call = Update("update_tax_behavior", k, observed[k].id, c, StripeCell(c, draft[k][c]))
    BY <1>9
  <2>1. PICK c \in TaxMismatch(draft[k], observed[k]) :
              call = Update("update_tax_behavior", k, observed[k].id, c, StripeCell(c, draft[k][c]))
    BY <2>0
  <2>2. c \in Currencies
    BY DEF TaxMismatch, Covered
  <2> QED
    BY <1>0, <1>6, <2>1, <2>2
<1> QED
  BY <1>1, <1>2, <1>3, <1>4, <1>5, <1>8, <1>9 DEF BuildPublishPlan

\* What a plan is sure to contain.
LEMMA PlanCovers ==
    ASSUME NEW draft, NEW observed, NEW k \in Keys
    PROVE  /\ k \in MissingInStripe(draft, observed) \cup ReplacedKeys(draft, observed) =>
                 \E call \in BuildPublishPlan(draft, observed) :
                    call.key = k /\ call.verb = "create" /\ call.kind # "create_product"
           /\ k \in MissingInCatalog(draft, observed) =>
                 \E call \in BuildPublishPlan(draft, observed) : call.key = k /\ call.verb = "archive"
                    /\ call.kind # "create_product"
           /\ k \in KeptKeys(draft, observed) =>
                 /\ \A c \in CurrencyMissingInStripe(draft[k], observed[k]) :
                       \E call \in BuildPublishPlan(draft, observed) :
                          /\ call.key = k /\ call.verb = "update" /\ call.currency = c
                          /\ call.kind = "add_currency_option"
                 /\ \A c \in TaxMismatch(draft[k], observed[k]) :
                       \E call \in BuildPublishPlan(draft, observed) :
                          /\ call.key = k /\ call.verb = "update" /\ call.currency = c
                          /\ call.kind = "update_tax_behavior"
<1> DEFINE plan == BuildPublishPlan(draft, observed)
<1>1. ASSUME k \in MissingInStripe(draft, observed)
      PROVE  Create("create_price", k, ResolveBaseline(draft[k]),
                    StripeReady(draft[k], ResolveBaseline(draft[k]))) \in plan
  BY <1>1 DEF BuildPublishPlan
<1>2. ASSUME k \in ReplacedKeys(draft, observed)
      PROVE  Create("replace_price", k, observed[k].currency,
                    StripeReady(draft[k], observed[k].currency)) \in plan
  BY <1>2 DEF BuildPublishPlan
<1>3. ASSUME k \in MissingInCatalog(draft, observed)
      PROVE  Archive("archive_price", k, observed[k].id) \in plan
  BY <1>3 DEF BuildPublishPlan
<1>4. ASSUME k \in KeptKeys(draft, observed), NEW c \in CurrencyMissingInStripe(draft[k], observed[k])
      PROVE  Update("add_currency_option", k, observed[k].id, c, StripeCell(c, draft[k][c])) \in plan
  BY <1>4 DEF BuildPublishPlan
<1>5. ASSUME k \in KeptKeys(draft, observed), NEW c \in TaxMismatch(draft[k], observed[k])
      PROVE  Update("update_tax_behavior", k, observed[k].id, c, StripeCell(c, draft[k][c])) \in plan
  BY <1>5 DEF BuildPublishPlan
<1> HIDE DEF plan
<1>6. k \in MissingInStripe(draft, observed) \cup ReplacedKeys(draft, observed) =>
         \E call \in plan : call.key = k /\ call.verb = "create" /\ call.kind # "create_product"
  BY <1>1, <1>2 DEF Create
<1>7. k \in MissingInCatalog(draft, observed) =>
         \E call \in plan : call.key = k /\ call.verb = "archive" /\ call.kind # "create_product"
  BY <1>3 DEF Archive
<1>8. ASSUME k \in KeptKeys(draft, observed), NEW c \in CurrencyMissingInStripe(draft[k], observed[k])
      PROVE  \E call \in plan : /\ call.key = k /\ call.verb = "update" /\ call.currency = c
                                /\ call.kind = "add_currency_option"
  BY <1>4, <1>8 DEF Update
<1>9. ASSUME k \in KeptKeys(draft, observed), NEW c \in TaxMismatch(draft[k], observed[k])
      PROVE  \E call \in plan : /\ call.key = k /\ call.verb = "update" /\ call.currency = c
                                /\ call.kind = "update_tax_behavior"
  BY <1>5, <1>9 DEF Update
<1> QED
  BY <1>6, <1>7, <1>8, <1>9 DEF plan

\* A baseline the row covers adds nothing to it (buildStripeReadyPrice).
LEMMA CoveredBaseline ==
    ASSUME NEW row \in Coverages, NEW baseline \in Covered(row)
    PROVE  StripeReady(row, baseline) = StripeRow(row)
<1>1. StripeRow(row) = [c \in Currencies |-> StripeRow(row)[c]]
  BY DEF StripeRow
<1>2. row[baseline] # None
  BY DEF Covered
<1> QED
  BY <1>1, <1>2 DEF StripeReady

\* Every call of a plan applied, each key sells what the draft says of it, in
\* a Price whose own currency is among those: refused plans apart, whatever
\* Stripe sold.
LEMMA SaleAfterPlan ==
    ASSUME NEW draft \in [Keys -> Coverages], NEW observed \in Observations,
           ~Refused(draft, observed),
           \A k \in StripeKeys(observed) : observed[k].currency \in Covered(observed[k].coverage),
           NEW k \in Keys, NEW sale,
           sale = AfterPlan(observed, BuildPublishPlan(draft, observed))[k]
    PROVE  /\ Covered(draft[k]) = {} => sale = None
           /\ Covered(draft[k]) # {} => /\ sale \in PriceViews
                                        /\ sale.coverage = StripeRow(draft[k])
                                        /\ sale.currency \in Covered(draft[k])
<1> DEFINE plan == BuildPublishPlan(draft, observed)
           creates == {call \in plan : call.key = k /\ call.verb = "create" /\ call.kind # "create_product"}
           archives == {call \in plan : call.key = k /\ call.verb = "archive" /\ call.kind # "create_product"}
           updates == {call \in plan : call.key = k /\ call.verb = "update" /\ call.kind # "create_product"}
           row == draft[k]
           price == observed[k]
<1> HIDE DEF plan
<1>0. row \in Coverages /\ (price # None => price \in PriceViews)
  BY DEF Observations
<1>a. /\ creates = {call \in plan : call.key = k /\ call.verb = "create" /\ call.kind # "create_product"}
      /\ archives = {call \in plan : call.key = k /\ call.verb = "archive" /\ call.kind # "create_product"}
      /\ updates = {call \in plan : call.key = k /\ call.verb = "update" /\ call.kind # "create_product"}
  OBVIOUS
<1> HIDE DEF creates, archives, updates
<1>1. sale = IF creates # {}
             THEN [id |-> 0, currency |-> (CHOOSE call \in creates : TRUE).currency,
                   coverage |-> (CHOOSE call \in creates : TRUE).coverage]
             ELSE IF archives # {} \/ price = None THEN None
             ELSE [price EXCEPT !.coverage = [c \in Currencies |-> Updated(price, updates, c)]]
  <2>1. sale = AfterPlan(observed, plan)[k]
    BY DEF plan
  <2> QED
    BY <1>a, <2>1, Zenon DEF AfterPlan
<1> USE DEF creates, archives, updates
<1>2. ASSUME NEW call \in plan, call.key = k, call.verb = "create", call.kind # "create_product"
      PROVE  /\ call.coverage = StripeRow(row) /\ call.currency \in Covered(row)
             /\ Covered(row) # {}
             /\ k \in MissingInStripe(draft, observed) \cup ReplacedKeys(draft, observed)
  <2>1. CASE k \in MissingInStripe(draft, observed) /\ call.currency = ResolveBaseline(row)
    <3>1. Covered(row) # {}
      BY <2>1 DEF MissingInStripe, CatalogKeys
    <3>2. call.currency \in Covered(row)
      BY <2>1, <3>1 DEF ResolveBaseline
    <3> QED
      BY <1>0, <1>2, <2>1, <3>1, <3>2, PlanMeaning, CoveredBaseline DEF plan
  <2>2. CASE k \in ReplacedKeys(draft, observed) /\ call.currency = price.currency
    <3>1. k \in Matched(draft, observed) /\ k \in StripeKeys(observed)
      BY <2>2 DEF ReplacedKeys, Matched
    <3>2. call.currency \in Covered(row)
      BY <2>2, <3>1 DEF Refused, CurrencyMissingInCatalog
    <3> QED
      BY <1>0, <1>2, <2>2, <3>2, PlanMeaning, CoveredBaseline DEF plan
  <2> QED
    BY <1>2, <2>1, <2>2, PlanMeaning DEF plan
<1>3. CASE creates # {}
  <2> DEFINE new == CHOOSE call \in creates : TRUE
  <2>1. new \in creates
    BY <1>3
  <2>2. new.coverage = StripeRow(row) /\ new.currency \in Covered(row)
    BY <1>2, <2>1
  <2>3. new.currency \in Currencies /\ StripeRow(row) \in Coverages
    BY <1>0, <2>2, StripeRowShape DEF Covered
  <2>4. sale = [id |-> 0, currency |-> new.currency, coverage |-> new.coverage]
    BY <1>1, <1>3
  <2> HIDE DEF new
  <2> QED
    BY <2>2, <2>3, <2>4 DEF PriceViews
<1>4. CASE creates = {} /\ (archives # {} \/ price = None)
  <2>1. sale = None
    BY <1>1, <1>4
  <2>2. k \notin MissingInStripe(draft, observed) \cup ReplacedKeys(draft, observed)
    BY <1>4, PlanCovers DEF plan
  <2>3. CASE price = None
    BY <2>1, <2>2, <2>3 DEF MissingInStripe, StripeKeys, CatalogKeys
  <2>4. CASE archives # {}
    <3>1. k \in MissingInCatalog(draft, observed)
      BY <2>2, <2>4, PlanMeaning DEF plan
    <3> QED
      BY <2>1, <3>1 DEF MissingInCatalog, CatalogKeys
  <2> QED
    BY <1>4, <2>3, <2>4
<1>5. CASE creates = {} /\ archives = {} /\ price # None
  <2>1. sale = [price EXCEPT !.coverage = [c \in Currencies |-> Updated(price, updates, c)]]
    BY <1>1, <1>5
  <2>2. k \in KeptKeys(draft, observed)
    <3>1. k \in StripeKeys(observed)
      BY <1>5 DEF StripeKeys
    <3>2. k \notin ReplacedKeys(draft, observed) /\ k \notin MissingInCatalog(draft, observed)
      BY <1>5, PlanCovers DEF plan
    <3> QED
      BY <3>1, <3>2 DEF KeptKeys, Matched, MissingInCatalog
  <2>3. /\ k \in Matched(draft, observed) /\ k \in StripeKeys(observed) /\ Covered(row) # {}
        /\ ReplaceCauses(row, price) = {}
        /\ \A c \in CurrencyMissingInStripe(row, price) : row[c].tax = "unspecified"
    BY <2>2 DEF KeptKeys, ReplacedKeys, Matched, CatalogKeys, NeedsReplace
  <2>4. Covered(price.coverage) \subseteq Covered(row)
    BY <2>3 DEF Refused, CurrencyMissingInCatalog
  <2>5. price.coverage \in Coverages /\ price \in PriceViews
    BY <1>0, <1>5 DEF PriceViews
  <2>6. ASSUME NEW c \in Currencies PROVE Updated(price, updates, c) = StripeRow(row)[c]
    <3> DEFINE added == {call \in updates : call.kind = "add_currency_option" /\ call.currency = c}
               taxed == {call \in updates : call.kind = "update_tax_behavior" /\ call.currency = c}
    <3>1. \A call \in added \cup taxed : call.coverage[c] = StripeCell(c, row[c])
      BY PlanMeaning DEF plan
    <3>2. added # {} <=> c \in CurrencyMissingInStripe(row, price)
      <4>1. added # {} => c \in CurrencyMissingInStripe(row, price)
        BY PlanMeaning DEF plan
      <4>2. c \in CurrencyMissingInStripe(row, price) => added # {}
        <5>1. SUFFICES ASSUME c \in CurrencyMissingInStripe(row, price) PROVE added # {}
          OBVIOUS
        <5>2. PICK call \in plan : /\ call.key = k /\ call.verb = "update" /\ call.currency = c
                                   /\ call.kind = "add_currency_option"
          BY <2>2, <5>1, PlanCovers DEF plan
        <5> QED
          BY <5>2
      <4> QED
        BY <4>1, <4>2
    <3>3. taxed # {} <=> c \in TaxMismatch(row, price)
      <4>1. taxed # {} => c \in TaxMismatch(row, price)
        BY PlanMeaning DEF plan
      <4>2. c \in TaxMismatch(row, price) => taxed # {}
        <5>1. SUFFICES ASSUME c \in TaxMismatch(row, price) PROVE taxed # {}
          OBVIOUS
        <5>2. PICK call \in plan : /\ call.key = k /\ call.verb = "update" /\ call.currency = c
                                   /\ call.kind = "update_tax_behavior"
          BY <2>2, <5>1, PlanCovers DEF plan
        <5> QED
          BY <5>2
      <4> QED
        BY <4>1, <4>2
    <3>4. /\ added # {} => (CHOOSE call \in added : TRUE).coverage[c] = StripeCell(c, row[c])
          /\ taxed # {} => (CHOOSE call \in taxed : TRUE).coverage[c] = StripeCell(c, row[c])
      BY <3>1
    <3>5. Updated(price, updates, c) =
            IF added # {} THEN [amount |-> (CHOOSE call \in added : TRUE).coverage[c].amount,
                                tax |-> "unspecified"]
            ELSE IF taxed # {} THEN [amount |-> price.coverage[c].amount,
                                     tax |-> (CHOOSE call \in taxed : TRUE).coverage[c].tax]
            ELSE price.coverage[c]
      BY DEF Updated
    <3> HIDE DEF added, taxed, updates
    <3>6. CASE row[c] = None
      <4>1. c \notin Covered(row) /\ c \notin Covered(price.coverage)
        BY <2>4, <3>6 DEF Covered
      <4>2. added = {} /\ taxed = {}
        BY <3>2, <3>3, <4>1 DEF CurrencyMissingInStripe, TaxMismatch
      <4>3. price.coverage[c] = None
        BY <4>1 DEF Covered
      <4> QED
        BY <1>0, <3>5, <3>6, <4>2, <4>3, StripeRowShape
    <3>7. CASE row[c] # None
      <4>1. /\ StripeRow(row)[c] = StripeCell(c, row[c]) /\ row[c] \in Cells
            /\ c \in Covered(row)
            /\ StripeCell(c, row[c]) = [amount |-> StripeAmount(c, row[c].amount), tax |-> row[c].tax]
        BY <1>0, <3>7, StripeRowShape DEF Covered, StripeCell
      <4>2. CASE c \in CurrencyMissingInStripe(row, price)
        BY <2>3, <3>2, <3>4, <3>5, <4>1, <4>2
      <4>3. CASE c \notin CurrencyMissingInStripe(row, price)
        <5>1. c \in Covered(price.coverage) /\ price.coverage[c] \in Cells
          BY <2>5, <4>1, <4>3 DEF CurrencyMissingInStripe, Covered, Coverages
        <5>2. price.coverage[c].amount = StripeAmount(c, row[c].amount)
          BY <2>3, <4>1, <5>1 DEF ReplaceCauses, AmountMismatch
        <5>3. c \notin TaxMismatch(row, price) => price.coverage[c].tax = row[c].tax
          BY <4>1, <5>1 DEF TaxMismatch
        <5>4. price.coverage[c] = [amount |-> price.coverage[c].amount, tax |-> price.coverage[c].tax]
          BY <5>1 DEF Cells
        <5> QED
          BY <3>2, <3>3, <3>4, <3>5, <4>1, <4>3, <5>2, <5>3, <5>4
      <4> QED
        BY <4>2, <4>3
    <3> QED
      BY <3>6, <3>7
  <2>7. StripeRow(row) \in Coverages /\ StripeRow(row) = [c \in Currencies |-> StripeRow(row)[c]]
    BY <1>0, StripeRowShape DEF StripeRow
  <2>8. [c \in Currencies |-> Updated(price, updates, c)] = StripeRow(row)
    BY <2>6, <2>7
  <2>9. sale = [price EXCEPT !.coverage = StripeRow(row)]
    BY <2>1, <2>8
  <2>10. price.currency \in Covered(row)
    BY <2>3, <2>4
  <2>11. \A sold \in PriceViews, new \in Coverages :
            LET other == [sold EXCEPT !.coverage = new]
            IN  other \in PriceViews /\ other.coverage = new /\ other.currency = sold.currency
    BY DEF PriceViews
  <2> QED
    BY <2>3, <2>5, <2>7, <2>9, <2>10, <2>11
<1> QED
  BY <1>3, <1>4, <1>5

\* Where the catalog and Stripe agree there is nothing to publish.
LEMMA AgreedNeedsNothing ==
    ASSUME NEW draft \in [Keys -> Coverages], NEW observed \in Observations,
           Agrees(draft, observed)
    PROVE  BuildPublishPlan(draft, observed) = {}
<1>1. MissingInStripe(draft, observed) = {} /\ MissingInCatalog(draft, observed) = {}
  BY DEF Agrees, MissingInStripe, MissingInCatalog
<1>2. ASSUME NEW k \in Matched(draft, observed)
      PROVE  /\ CurrencyMissingInStripe(draft[k], observed[k]) = {}
             /\ AmountMismatch(draft[k], observed[k]) = {}
             /\ TaxMismatch(draft[k], observed[k]) = {}
  <2> DEFINE row == draft[k]
             price == observed[k]
  <2>1. k \in Keys /\ row \in Coverages /\ price.coverage = StripeRow(row)
    BY <1>2 DEF Agrees, Matched, CatalogKeys
  <2>2. ASSUME NEW c \in Covered(row)
        PROVE  /\ c \in Currencies /\ c \in Covered(price.coverage)
               /\ price.coverage[c].tax = row[c].tax
    <3>1. c \in Currencies /\ row[c] # None
      BY DEF Covered
    <3>2. StripeRow(row)[c] = StripeCell(c, row[c]) /\ StripeRow(row)[c] # None
      BY <2>1, <3>1, StripeRowShape
    <3>3. StripeCell(c, row[c]).tax = row[c].tax
      BY DEF StripeCell
    <3> HIDE DEF row, price
    <3> QED
      BY <2>1, <3>1, <3>2, <3>3 DEF Covered
  <2> HIDE DEF row, price
  <2>3. CurrencyMissingInStripe(row, price) = {}
    BY <2>2 DEF CurrencyMissingInStripe
  <2>4. AmountMismatch(row, price) = {}
    BY <2>1 DEF AmountMismatch
  <2>5. TaxMismatch(row, price) = {}
    BY <2>2 DEF TaxMismatch
  <2> QED
    BY <2>3, <2>4, <2>5 DEF row, price
<1>3. ReplacedKeys(draft, observed) = {}
  BY <1>2 DEF ReplacedKeys, NeedsReplace, ReplaceCauses
<1>4. KeptKeys(draft, observed) \subseteq Matched(draft, observed)
  BY DEF KeptKeys
<1>5. ProductKeys(draft, observed) = {}
  BY <1>1 DEF ProductKeys
<1> QED
  BY <1>1, <1>2, <1>3, <1>4, <1>5 DEF BuildPublishPlan

\* The plan converges: every call applied, the comparator finds no difference.
LEMMA PlanAgrees ==
    ASSUME NEW draft \in [Keys -> Coverages], NEW observed \in Observations,
           ~Refused(draft, observed),
           \A k \in StripeKeys(observed) : observed[k].currency \in Covered(observed[k].coverage),
           NEW after, after = AfterPlan(observed, BuildPublishPlan(draft, observed))
    PROVE  /\ after \in Observations
           /\ Agrees(draft, after)
           /\ \A k \in StripeKeys(after) : after[k].currency \in Covered(after[k].coverage)
<1>1. after = [k \in Keys |-> after[k]]
  BY DEF AfterPlan
<1>2. ASSUME NEW k \in Keys
      PROVE  /\ Covered(draft[k]) = {} => after[k] = None
             /\ Covered(draft[k]) # {} => /\ after[k] \in PriceViews
                                          /\ after[k].coverage = StripeRow(draft[k])
                                          /\ after[k].currency \in Covered(draft[k])
  BY SaleAfterPlan
<1>3. None \notin PriceViews
  BY NoneAssumption DEF PriceViews, Coverages
<1>4. after \in Observations
  BY <1>1, <1>2 DEF Observations
<1>5. CatalogKeys(draft) = StripeKeys(after)
  BY <1>2, <1>3 DEF CatalogKeys, StripeKeys
<1>6. \A k \in CatalogKeys(draft) : after[k].coverage = StripeRow(draft[k])
  BY <1>2 DEF CatalogKeys
<1>7. ASSUME NEW k \in StripeKeys(after)
      PROVE  after[k].currency \in Covered(after[k].coverage)
  <2>1. k \in Keys /\ Covered(draft[k]) # {} /\ draft[k] \in Coverages
    BY <1>5 DEF CatalogKeys
  <2>2. /\ after[k].coverage = StripeRow(draft[k])
        /\ after[k].currency \in Covered(draft[k])
    BY <1>2, <2>1
  <2> QED
    BY <2>1, <2>2, StripeRowShape DEF Covered
<1> QED
  BY <1>4, <1>5, <1>6, <1>7 DEF Agrees

\* A sale that a plan changes comes from a call that names its price: a
\* create, or an added currency.
LEMMA ChangedSale ==
    ASSUME NEW draft \in [Keys -> Coverages], NEW observed \in Observations,
           NEW k \in Keys, NEW c \in Currencies, NEW sale,
           sale = AfterPlan(observed, BuildPublishPlan(draft, observed))[k],
           sale # None, sale.coverage[c] # None,
           observed[k] # None /\ observed[k].coverage[c] # None =>
               sale.coverage[c].amount # observed[k].coverage[c].amount
    PROVE  \E call \in BuildPublishPlan(draft, observed) :
              /\ call.key = k /\ call.kind \in {"create_price", "replace_price", "add_currency_option"}
              /\ c \in Covered(call.coverage)
              /\ call.coverage[c].amount = sale.coverage[c].amount
<1> DEFINE plan == BuildPublishPlan(draft, observed)
           creates == {call \in plan : call.key = k /\ call.verb = "create" /\ call.kind # "create_product"}
           archives == {call \in plan : call.key = k /\ call.verb = "archive" /\ call.kind # "create_product"}
           updates == {call \in plan : call.key = k /\ call.verb = "update" /\ call.kind # "create_product"}
           price == observed[k]
<1>a. /\ creates = {call \in plan : call.key = k /\ call.verb = "create" /\ call.kind # "create_product"}
      /\ archives = {call \in plan : call.key = k /\ call.verb = "archive" /\ call.kind # "create_product"}
      /\ updates = {call \in plan : call.key = k /\ call.verb = "update" /\ call.kind # "create_product"}
  OBVIOUS
<1> HIDE DEF plan, creates, archives, updates
<1>1. sale = IF creates # {}
             THEN [id |-> 0, currency |-> (CHOOSE call \in creates : TRUE).currency,
                   coverage |-> (CHOOSE call \in creates : TRUE).coverage]
             ELSE IF archives # {} \/ price = None THEN None
             ELSE [price EXCEPT !.coverage = [d \in Currencies |-> Updated(price, updates, d)]]
  <2>1. sale = AfterPlan(observed, plan)[k]
    BY DEF plan
  <2> QED
    BY <1>a, <2>1, Zenon DEF AfterPlan
<1>2. CASE creates # {}
  <2> DEFINE new == CHOOSE call \in creates : TRUE
  <2>1. new \in creates
    BY <1>2
  <2>2. sale.coverage = new.coverage
    BY <1>1, <1>2
  <2> HIDE DEF new
  <2>3. /\ new \in plan /\ new.key = k /\ new.verb = "create" /\ new.kind # "create_product"
        /\ new.kind \in {"create_price", "replace_price"}
    BY <1>a, <2>1, PlanMeaning DEF plan
  <2>4. c \in Covered(new.coverage)
    BY <2>2 DEF Covered
  <2> QED
    BY <2>2, <2>3, <2>4 DEF plan
<1>3. CASE creates = {}
  <2> DEFINE added == {call \in updates : call.kind = "add_currency_option" /\ call.currency = c}
             taxed == {call \in updates : call.kind = "update_tax_behavior" /\ call.currency = c}
  <2>1. price # None /\ price \in PriceViews
    BY <1>1, <1>3 DEF Observations
  <2>2. sale.coverage[c] = Updated(price, updates, c)
    BY <1>1, <1>3, <2>1 DEF PriceViews
  <2>3. Updated(price, updates, c) =
          IF added # {} THEN [amount |-> (CHOOSE call \in added : TRUE).coverage[c].amount,
                              tax |-> "unspecified"]
          ELSE IF taxed # {} THEN [amount |-> price.coverage[c].amount,
                                   tax |-> (CHOOSE call \in taxed : TRUE).coverage[c].tax]
          ELSE price.coverage[c]
    BY DEF Updated
  <2>4. taxed # {} => price.coverage[c] # None
    BY <1>a, PlanMeaning DEF plan, TaxMismatch, Covered
  <2>5. CASE added # {}
    <3> DEFINE new == CHOOSE call \in added : TRUE
    <3>1. new \in added
      BY <2>5
    <3>2. sale.coverage[c].amount = new.coverage[c].amount
      BY <2>2, <2>3, <2>5
    <3> HIDE DEF new
    <3>3. /\ new \in plan /\ new.key = k /\ new.verb = "update"
          /\ new.kind = "add_currency_option" /\ new.currency = c
      BY <1>a, <3>1
    <3>4. new.coverage[c] \in Cells
      BY <3>3, PlanShape DEF plan, WellFormed
    <3>5. c \in Covered(new.coverage)
      BY <3>4, NoneAssumption DEF Covered
    <3> QED
      BY <3>2, <3>3, <3>5 DEF plan
  <2>6. CASE added = {} /\ taxed # {}
    BY <2>1, <2>2, <2>3, <2>4, <2>6
  <2>7. CASE added = {} /\ taxed = {}
    BY <2>1, <2>2, <2>3, <2>7
  <2> QED
    BY <2>5, <2>6, <2>7
<1> QED
  BY <1>2, <1>3

\* A replacement is a pair of calls: a key that is replaced has no others.
LEMMA ReplacePairs ==
    ASSUME NEW draft \in [Keys -> Coverages], NEW observed \in Observations,
           NEW call \in BuildPublishPlan(draft, observed),
           call.kind = "replace_price", call.verb = "create"
    PROVE  /\ \A other \in BuildPublishPlan(draft, observed) :
                 other.key = call.key /\ other # call =>
                    other.verb = "archive" /\ other.price = observed[call.key].id
           /\ \E other \in BuildPublishPlan(draft, observed) :
                 other.key = call.key /\ other # call
<1> DEFINE plan == BuildPublishPlan(draft, observed)
           k == call.key
<1>1. ASSUME NEW other \in plan, other.kind = "replace_price", other.verb = "create"
      PROVE  other = Create("replace_price", other.key, observed[other.key].currency,
                            StripeReady(draft[other.key], observed[other.key].currency))
  BY <1>1 DEF BuildPublishPlan, Create, Archive, Update
<1>2. ASSUME NEW other \in plan, other.kind = "create_product"
      PROVE  other.key \in MissingInStripe(draft, observed)
  BY <1>2 DEF BuildPublishPlan, Create, Archive, Update, ProductKeys
<1>3. k \in ReplacedKeys(draft, observed) /\ k \in Matched(draft, observed)
  BY PlanMeaning DEF ReplacedKeys
<1>4. k \notin MissingInStripe(draft, observed) /\ k \notin KeptKeys(draft, observed)
  BY <1>3 DEF Matched, MissingInStripe, KeptKeys
<1>5. ASSUME NEW other \in plan, other.key = k, other # call
      PROVE  other.verb = "archive" /\ other.price = observed[k].id
  <2>1. other.kind # "create_product"
    BY <1>2, <1>4, <1>5
  <2>2. other.verb # "update"
    BY <1>4, <1>5, PlanMeaning
  <2>3. ASSUME other.verb = "create" PROVE FALSE
    <3>1. other.kind = "replace_price"
      BY <1>4, <1>5, <2>1, <2>3, PlanMeaning
    <3>2. other = call
      BY <1>1, <1>5, <2>3, <3>1
    <3> QED
      BY <1>5, <3>2
  <2> QED
    BY <1>5, <2>1, <2>2, <2>3, PlanMeaning
<1>6. Archive("replace_price", k, observed[k].id) \in plan
  BY <1>3 DEF BuildPublishPlan
<1>7. /\ Archive("replace_price", k, observed[k].id).key = k
      /\ Archive("replace_price", k, observed[k].id).verb # call.verb
  BY DEF Archive
<1> QED
  BY <1>5, <1>6, <1>7
=============================================================================

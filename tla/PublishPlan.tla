------------------------------ MODULE PublishPlan ------------------------------
(***************************************************************************)
(* The three-way publish plan of the billing console: what the catalog     *)
(* last published (ancestor), what an operator wants now (draft) and what  *)
(* Stripe holds (observed) go in; the Stripe calls that make the two agree *)
(* and the rules a human has to confirm come out.  It models               *)
(* lib/billing/parity.ts, publish-plan.ts and publish-guards.ts, which are *)
(* pure functions.                                                         *)
(*                                                                         *)
(* A lookup key is its rank in lookup_key order.  What a key costs is a    *)
(* coverage: for each currency a cell (amount, tax behaviour), or None.    *)
(* A key with no cell at all has no row in the catalog.                    *)
(***************************************************************************)
EXTENDS Naturals, FiniteSets

CONSTANTS
    KeyCount,             \* how many lookup keys carry the catalog's prefix
    Currencies,
    ZeroDecimal,          \* the currencies Stripe counts in whole units
    Usd,                  \* the preferred baseline currency of a new Price
    Plans,
    PlanOf,               \* the product (plan) a lookup key belongs to
    BreadthThreshold,     \* intended operations that need no confirmation
    BreadthTotalThreshold,
    None

Keys == 1..KeyCount

ASSUME PlanAssumption ==
    /\ KeyCount \in Nat
    /\ IsFiniteSet(Currencies)
    /\ ZeroDecimal \subseteq Currencies
    /\ Usd \in Currencies
    /\ PlanOf \in [Keys -> Plans]
    /\ BreadthThreshold \in Nat
    /\ BreadthTotalThreshold \in Nat

TaxBehaviors == {"unspecified", "exclusive", "inclusive"}
Cells == [amount : Nat, tax : TaxBehaviors]
ASSUME NoneAssumption ==
    /\ None \notin Cells /\ None \notin Keys /\ None \notin Currencies
    /\ None \notin [id : Nat, currency : Currencies, coverage : [Currencies -> Cells \cup {None}]]

Coverages == [Currencies -> Cells \cup {None}]
Uncovered == [c \in Currencies |-> None]
Covered(coverage) == {c \in Currencies : coverage[c] # None}

\* What a Price in Stripe looks like to the comparator.
PriceViews == [id : Nat, currency : Currencies, coverage : Coverages]

(***************************************************************************)
(* toStripeUnitAmount divides by 100 for a zero-decimal currency.  Stripe  *)
(* amounts are held in hundredths of a Stripe unit, so that the division   *)
(* stays exact; Stripe accepts whole units only (Payable).                 *)
(***************************************************************************)
StripeAmount(c, minor) == IF c \in ZeroDecimal THEN minor ELSE 100 * minor

StripeCell(c, cell) == [amount |-> StripeAmount(c, cell.amount), tax |-> cell.tax]

StripeRow(row) == [c \in Currencies |-> IF row[c] = None THEN None ELSE StripeCell(c, row[c])]

Payable(coverage) == \A c \in Covered(coverage) : coverage[c].amount % 100 = 0

--------------------------------------------------------------------------------
(* compareCatalogToStripe: the differences, as the sets they range over.   *)

CatalogKeys(draft) == {k \in Keys : Covered(draft[k]) # {}}
StripeKeys(observed) == {k \in Keys : observed[k] # None}

MissingInStripe(draft, observed) == CatalogKeys(draft) \ StripeKeys(observed)
MissingInCatalog(draft, observed) == StripeKeys(observed) \ CatalogKeys(draft)
Matched(draft, observed) == CatalogKeys(draft) \cap StripeKeys(observed)

CurrencyMissingInStripe(row, price) == Covered(row) \ Covered(price.coverage)
CurrencyMissingInCatalog(row, price) == Covered(price.coverage) \ Covered(row)

AmountMismatchInMinorUnits(row, price) ==
    {c \in Covered(row) \cap Covered(price.coverage) :
        row[c].amount # price.coverage[c].amount}

AmountMismatch(row, price) ==
    {c \in Covered(row) \cap Covered(price.coverage) :
        StripeRow(row)[c].amount # price.coverage[c].amount}

TaxMismatch(row, price) ==
    {c \in Covered(row) \cap Covered(price.coverage) :
        row[c].tax # price.coverage[c].tax}

\* A clean parity report: catalog and Stripe name the same keys, and a key
\* means the same coverage on both sides.
Agrees(draft, observed) ==
    /\ CatalogKeys(draft) = StripeKeys(observed)
    /\ \A k \in CatalogKeys(draft) : observed[k].coverage = StripeRow(draft[k])

--------------------------------------------------------------------------------
(* buildPublishPlan                                                        *)

TaxRequiresReplaceUnlessBaseline(c, price) == c # price.currency

\* Only the Price's own tax behaviour can move in place, and only once.
TaxRequiresReplace(c, price) ==
    c # price.currency \/ price.coverage[c].tax # "unspecified"

ReplaceCauses(row, price) ==
    AmountMismatch(row, price)
        \cup {c \in TaxMismatch(row, price) : TaxRequiresReplace(c, price)}

NeedsReplaceIgnoringNewTax(row, price) == ReplaceCauses(row, price) # {}

NeedsReplace(row, price) ==
    \/ ReplaceCauses(row, price) # {}
    \/ \E c \in CurrencyMissingInStripe(row, price) : row[c].tax # "unspecified"

\* Without a Price to inherit from: usd if the row has it, else the first
\* covered currency (any fixed choice).
ResolveBaseline(row) ==
    IF Usd \in Covered(row) THEN Usd ELSE CHOOSE c \in Covered(row) : TRUE

\* The full draft row in Stripe's units; a baseline the draft does not carry
\* is sent as 0.
StripeReady(row, baseline) ==
    [StripeRow(row) EXCEPT
        ![baseline] = IF row[baseline] = None THEN [amount |-> 0, tax |-> "unspecified"] ELSE @]

OperationKinds == {"create_product", "create_price", "replace_price",
                   "add_currency_option", "update_tax_behavior", "archive_price"}

(***************************************************************************)
(* A planned operation is the set of Stripe calls it makes: replace_price  *)
(* makes two (verb "create", then "archive"), add_currency_option one per  *)
(* currency, every other kind one.                                         *)
(***************************************************************************)
Calls == [kind : OperationKinds, verb : {"create", "update", "archive"}, key : Keys,
          price : Nat, currency : Currencies \cup {None}, coverage : Coverages]

Create(kind, k, currency, coverage) ==
    [kind |-> kind, verb |-> "create", key |-> k, price |-> 0,
     currency |-> currency, coverage |-> coverage]

Update(kind, k, id, c, cell) ==
    [kind |-> kind, verb |-> "update", key |-> k, price |-> id,
     currency |-> c, coverage |-> [Uncovered EXCEPT ![c] = cell]]

Archive(kind, k, id) ==
    [kind |-> kind, verb |-> "archive", key |-> k, price |-> id,
     currency |-> None, coverage |-> Uncovered]

\* One create_product per plan, for the first of its keys Stripe lacks.
ProductKeys(draft, observed) ==
    {k \in MissingInStripe(draft, observed) :
        \A j \in MissingInStripe(draft, observed) : PlanOf[j] = PlanOf[k] => k <= j}

ReplacedKeys(draft, observed) ==
    {k \in Matched(draft, observed) : NeedsReplace(draft[k], observed[k])}

KeptKeys(draft, observed) == Matched(draft, observed) \ ReplacedKeys(draft, observed)

BuildPublishPlan(draft, observed) ==
    UNION {
        {Create("create_product", k, None, Uncovered) : k \in ProductKeys(draft, observed)},
        {Create("create_price", k, ResolveBaseline(draft[k]),
                StripeReady(draft[k], ResolveBaseline(draft[k]))) :
            k \in MissingInStripe(draft, observed)},
        {Archive("archive_price", k, observed[k].id) : k \in MissingInCatalog(draft, observed)},
        {Create("replace_price", k, observed[k].currency,
                StripeReady(draft[k], observed[k].currency)) :
            k \in ReplacedKeys(draft, observed)},
        {Archive("replace_price", k, observed[k].id) : k \in ReplacedKeys(draft, observed)},
        UNION {{Update("add_currency_option", k, observed[k].id, c, StripeCell(c, draft[k][c])) :
                    c \in CurrencyMissingInStripe(draft[k], observed[k])} :
               k \in KeptKeys(draft, observed)},
        UNION {{Update("update_tax_behavior", k, observed[k].id, c, StripeCell(c, draft[k][c])) :
                    c \in TaxMismatch(draft[k], observed[k])} :
               k \in KeptKeys(draft, observed)}}

\* Products first, then keys in order; within a key a create before the
\* archive of what it replaces, new currencies before the tax behaviour.
Stage(call) ==
    CASE call.kind = "create_product" -> 0
      [] call.kind = "update_tax_behavior" \/ call.verb = "archive" -> 2
      [] OTHER -> 1

Precedes(a, b) ==
    \/ a.kind = "create_product" /\ b.kind # "create_product"
    \/ (a.kind = "create_product" <=> b.kind = "create_product") /\ a.key < b.key
    \/ (a.kind = "create_product" <=> b.kind = "create_product") /\ a.key = b.key
        /\ Stage(a) < Stage(b)

NextCalls(todo) == {call \in todo : \A other \in todo : ~Precedes(other, call)}

\* What the executor compares: the observed amounts and tax behaviours, not
\* the Price ids, the draft or the ancestor.
Fingerprint(observed) ==
    {<<kc[1], kc[2], observed[kc[1]].coverage[kc[2]]>> :
        kc \in {kd \in StripeKeys(observed) \X Currencies :
                   observed[kd[1]].coverage[kd[2]] # None}}

(***************************************************************************)
(* What the account sells when every call of a plan has been applied: a    *)
(* new Price sells its coverage, an archived one nothing, an updated one   *)
(* has a cell added (its tax behaviour unspecified, since only the amount  *)
(* is sent) or a tax behaviour set.                                        *)
(***************************************************************************)
Updated(price, updates, c) ==
    LET added == {call \in updates : call.kind = "add_currency_option" /\ call.currency = c}
        taxed == {call \in updates : call.kind = "update_tax_behavior" /\ call.currency = c}
        cell(calls) == (CHOOSE call \in calls : TRUE).coverage[c]
    IN  IF added # {} THEN [amount |-> cell(added).amount, tax |-> "unspecified"]
        ELSE IF taxed # {} THEN [amount |-> price.coverage[c].amount, tax |-> cell(taxed).tax]
        ELSE price.coverage[c]

AfterPlan(observed, plan) ==
    [k \in Keys |->
        LET calls(verb) == {call \in plan : /\ call.key = k /\ call.verb = verb
                                            /\ call.kind # "create_product"}
            new == CHOOSE call \in calls("create") : TRUE
        IN  IF calls("create") # {}
            THEN [id |-> 0, currency |-> new.currency, coverage |-> new.coverage]
            ELSE IF calls("archive") # {} \/ observed[k] = None THEN None
            ELSE [observed[k] EXCEPT
                    !.coverage = [c \in Currencies |-> Updated(observed[k], calls("update"), c)]]]

--------------------------------------------------------------------------------
(* checkGuards                                                             *)

\* currency-coverage, the one refusal: a currency Stripe carries and the
\* draft dropped cannot be removed from a Price.
Refused(draft, observed) ==
    \E k \in Matched(draft, observed) : CurrencyMissingInCatalog(draft[k], observed[k]) # {}

\* The origin of an operation: some cell that caused it moved since the
\* ancestor (intended), or Stripe drifted underneath it.
Intended(ancestor, draft, observed, kind, k) ==
    CASE kind = "replace_price" ->
            \E c \in ReplaceCauses(draft[k], observed[k])
                        \cup CurrencyMissingInStripe(draft[k], observed[k]) :
                ancestor[k][c] # draft[k][c]
      [] kind = "add_currency_option" ->
            \E c \in CurrencyMissingInStripe(draft[k], observed[k]) : ancestor[k][c] # draft[k][c]
      [] kind = "update_tax_behavior" ->
            \E c \in TaxMismatch(draft[k], observed[k]) : ancestor[k][c] # draft[k][c]
      [] OTHER -> ancestor[k] # draft[k]

Breadth(ancestor, draft, observed) ==
    LET operations == {<<call.kind, call.key>> : call \in BuildPublishPlan(draft, observed)}
        intended == {op \in operations : Intended(ancestor, draft, observed, op[1], op[2])}
    IN  \/ Cardinality(intended) > BreadthThreshold
        \/ Cardinality(operations) > BreadthTotalThreshold

MovesTooFarUpwards(before, now) == now > before /\ 4 * (now - before) > before

\* More than a quarter up or down, measured from the ancestor.
MovesTooFar(before, now) == 4 * (IF now > before THEN now - before ELSE before - now) > before

Magnitude(ancestor, draft, observed) ==
    \E call \in BuildPublishPlan(draft, observed) :
        /\ call.kind \in {"create_price", "replace_price", "add_currency_option"}
        /\ \E c \in Covered(call.coverage) \cap Covered(ancestor[call.key]) :
              /\ ancestor[call.key][c].amount # 0
              /\ MovesTooFar(StripeAmount(c, ancestor[call.key][c].amount),
                             call.coverage[c].amount)

\* The rules that breach, by name: that is all an acknowledgement carries.
RequiresConfirmation(ancestor, draft, observed, mode) ==
    {rule \in {"mode", "magnitude", "breadth"} :
        \/ rule = "mode" /\ mode # "test"
        \/ rule = "magnitude" /\ Magnitude(ancestor, draft, observed)
        \/ rule = "breadth" /\ Breadth(ancestor, draft, observed)}
================================================================================

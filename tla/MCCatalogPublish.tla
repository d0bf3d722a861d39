---------------------------- MODULE MCCatalogPublish ----------------------------
(* Small instances of CatalogPublish. *)
EXTENDS CatalogPublish, TLC

Studio == [k \in Keys |-> "studio"]

Cell(amount, tax) == [amount |-> amount, tax |-> tax]
InUsd(amount) == [c \in Currencies |-> IF c = "usd" THEN Cell(amount, "unspecified") ELSE None]

Price(k, coverage) ==
    [key |-> k, currency |-> "usd", coverage |-> StripeRow(coverage), active |-> TRUE]

(* One key, sold at 4 in usd; a draft that sells it at 6 exists. *)
OneKeyRows ==
    [r \in {"r0", "r1"} |-> [k \in Keys |-> IF r = "r0" THEN InUsd(4) ELSE InUsd(6)]]

(* The baseline alone. *)
BaselineRows == [r \in {"r0"} |-> [k \in Keys |-> InUsd(4)]]

(* Stripe sells the first key as the baseline says. *)
Parity == {<<Price(1, InUsd(4))>>}

(* Three keys of one plan in usd and jpy, the third retired from the catalog. *)
(* The draft r1 is r0 with a currency added to key 1 and key 2 repriced.      *)
UsdJpy(usd, jpy) == [c \in Currencies |-> IF c = "usd" THEN usd ELSE jpy]
RowsOf(jpy1, usd2) ==
    [k \in Keys |->
        CASE k = 1 -> UsdJpy(Cell(4, "exclusive"), jpy1)
          [] k = 2 -> UsdJpy(Cell(usd2, "unspecified"), Cell(200, "unspecified"))
          [] k = 3 -> Uncovered]
ThreeKeyRows ==
    [r \in {"r0", "r1"} |-> IF r = "r0" THEN RowsOf(None, 4)
                            ELSE RowsOf(Cell(300, "unspecified"), 6)]

(* Stripe has yet to learn that key 1 is tax exclusive.  Besides, it either   *)
(* agrees with r0, or lacks key 2 and still sells key 3.                      *)
ThreeKeySeeds ==
    {<<Price(1, InUsd(4)), Price(2, RowsOf(None, 4)[2])>>,
     <<Price(1, InUsd(4)), Price(3, InUsd(4))>>}

(* What a human creates in the Dashboard. *)
ByHand == {StripeRow(InUsd(5))}

PublisherSymmetry == Permutations(Publishers)
=================================================================================

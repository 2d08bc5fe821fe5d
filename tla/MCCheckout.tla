----------------------------- MODULE MCCheckout -----------------------------
(* Instances of Checkout for TLC.                                          *)
EXTENDS Checkout, TLC

CONSTANTS a, b    \* two SKUs

OneItem   == [sku \in Skus |-> IF sku = a THEN 1 ELSE 0]
TwoItems  == [sku \in Skus |-> 1]
Nothing   == [sku \in Skus |-> 0]

(* For the races the cart does not matter: one line, no snapshot, and two  *)
(* requests that differ in another field.                                  *)
RaceCarts  == {OneItem, Nothing}
RaceBodies == {[snapshot |-> <<>>, rest |-> x] : x \in {"left", "right"}}

(* For the snapshot: what a client can have seen, or left out.             *)
SnapshotCarts == {OneItem, TwoItems, Nothing}
Seen(s)       == [snapshot |-> s, rest |-> "same"]
SnapshotBodies ==
  {Seen(<<>>), Seen(<<Line(a, 1, 10)>>),
   Seen(<<Line(a, 1, 10), Line(b, 1, 10)>>), Seen(<<Line(b, 1, 10), Line(a, 1, 10)>>)}

RaceSymmetry == Permutations(Attempts) \cup Permutations(Buyers) \cup Permutations(Keys)
SnapshotSymmetry == Permutations(Attempts)
=============================================================================

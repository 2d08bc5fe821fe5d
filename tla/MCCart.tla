------------------------------- MODULE MCCart -------------------------------
(* Instances of Cart for TLC: a user who was the guest of a session.      *)
EXTENDS Cart, TLC

CONSTANTS user1, session1, a, b

AsUser  == [user |-> user1, session |-> None]
AsGuest == [user |-> None, session |-> session1]
AsBoth  == [user |-> user1, session |-> session1]

OneHeader == {AsUser, AsGuest}
AnyHeader == {AsUser, AsGuest, AsBoth}
Login     == {AsBoth}

(* Events of the old form and of the new, that name their SKUs or only the *)
(* product.                                                                *)
OldBody(type, product, skus) ==
  [event |-> None, event_type |-> type, product |-> product, skus |-> skus, payload |-> None]
NewBody(type, product, skus, sku) ==
  [event |-> type, event_type |-> None, product |-> None, skus |-> {},
   payload |-> [product |-> product, skus |-> skus, sku |-> sku]]
NoEvents    == {}
SkuEvent    == {OldBody("PRODUCT_BLOCKED", None, {a})}
MixedEvents == {OldBody("PRODUCT_BLOCKED", "product", {}),
                NewBody("SKU_OUT_OF_STOCK", "product", {}, a)}
Products    == [p \in {"product"} |-> {a}]

Symmetry == Permutations(RowIds) \cup Permutations(Requests) \cup Permutations(Deliveries)
=============================================================================

------------------------------ MODULE MCCatalog -----------------------------
(***************************************************************************)
(* Instance of Catalog for TLC, with Banners, which is served under the    *)
(* same path, Filters, which it reads a query string with, and the other   *)
(* lists there are to page through, OrderList.  They share no state: a     *)
(* behaviour exercises one of them while the others rest.                  *)
(***************************************************************************)
EXTENDS Catalog, Banners, Filters, OrderList, TLC

CONSTANTS p1, p2

VARIABLE part  \* the part exercised

partVars == <<part, vars, bannerVars, filterVars, listVars>>

PartInit ==
  /\ part \in {"catalog", "banners", "filters", "orders"}
  /\ Init
  /\ BannersInit
  /\ FiltersInit
  /\ ListInit
  /\ part # "catalog" => \A c \in Categories : cats[c] = <<c>>

PartNext ==
  /\ UNCHANGED part
  /\ \/ part = "catalog" /\ Next /\ UNCHANGED <<bannerVars, filterVars, listVars>>
     \/ part = "banners" /\ BannersNext /\ UNCHANGED <<vars, filterVars, listVars>>
     \/ part = "filters" /\ FiltersNext /\ UNCHANGED <<vars, bannerVars, listVars>>
     \/ part = "orders" /\ ListNext /\ UNCHANGED <<vars, bannerVars, filterVars>>

PartSpec == PartInit /\ [][PartNext]_partVars

(* Cheap and sold out, dear and in stock, equal after a discount, and none.*)
Sku(price, discount, quantity) ==
  [price |-> price, discount |-> discount, quantity |-> quantity]
Offers == {<<>>, <<Sku(10, 0, 0), Sku(20, 5, 1)>>, <<Sku(20, 0, 1), Sku(10, 0, 2)>>,
           <<Sku(10, 0, 1), Sku(12, 2, 1)>>, <<Sku(12, 2, 1), Sku(10, 0, 1)>>,
           <<Sku(12, 2, 0)>>}
Places == [p \in Products |-> CASE p = p1 -> 1 [] p = p2 -> 2 [] OTHER -> 0]

(* A buyer's history; all orders to assemble; all since a certain time.    *)
Asking(buyer, status, from) ==
  [buyer |-> buyer, status |-> status, from |-> from, until |-> MaxOrders]
Lists == {Asking("buyer", Unset, 1), Asking(Unset, "PAID", 1), Asking(Unset, Unset, 2)}

(* Names below a scalar, below a characteristic, and below a stranger.     *)
SomePaths ==
  {<<"category_id">>, <<"price_min">>, <<"price_min", "x">>, <<"attributes">>,
   <<"attributes", "brand">>, <<"attributes", "color">>, <<"attributes", "color", "x">>}

Symmetry == Permutations(Categories)
=============================================================================

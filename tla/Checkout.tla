------------------------------ MODULE Checkout ------------------------------
(***************************************************************************)
(* Placing an order: OrdersService.create_order, run by any number of      *)
(* attempts at the same time.  An attempt is one POST /orders; a client    *)
(* that got no answer, or a 5xx, retries with the same Idempotency-Key as  *)
(* a new attempt.  The order id is a uuid drawn by the attempt, so it is   *)
(* identified with the attempt.                                            *)
(*                                                                         *)
(*   Lookup      SELECT the order stored under the key: answer it, or 409  *)
(*   LoadCart    SELECT the cart rows                                      *)
(*   Enrich      live prices and availability from the B2B, validation of  *)
(*               the snapshot and of the stock; the reserve call is sent   *)
(*   Reserved    the reserve call returns or raises                        *)
(*   CountOrders SELECT of the number of stored orders                     *)
(*   Commit      INSERT under the unique indexes on key and number         *)
(*   Refresh     SELECT of the order just stored, which is then answered   *)
(*                                                                         *)
(* A key is the client's choice, and the lookup of it does not ask whose   *)
(* order it finds.  Every statement can fail: before the reserve call that *)
(* leaves nothing behind, after it the goods stay reserved, and after the  *)
(* insert the order stays stored.                                          *)
(***************************************************************************)
EXTENDS Naturals, Sequences, FiniteSets, Functions

CONSTANTS Attempts,      \* POST /orders requests
          Buyers,        \* buyers, each with a cart of its own
          Keys,          \* idempotency keys
          Skus,
          Prices,        \* unit prices a SKU can have in the B2B
          Carts,         \* contents a cart can have: functions SKU -> quantity
          Bodies,        \* [snapshot |-> lines the client saw, <<>> if left
                         \*  out, rest |-> the rest of the request]
          None,          \* a value that is none of these: no row, no key yet, ...
          Keyed,         \* does the B2B answer a repeated key without reserving again?
          MaxChanges,    \* bound on changes of prices and carts
          MaxCrashes     \* bound on restarts of the process

(* A line of a snapshot or an order, and a row of the orders table.        *)
Line(sku, quantity, unit_price) ==
  [sku |-> sku, quantity |-> quantity, unit_price |-> unit_price]
Lines     == [sku : Skus, quantity : Nat, unit_price : Prices]
OrderRows == [buyer : Buyers, key : Keys, body : Bodies, lines : SUBSET Lines,
              number : Nat \ {0}]

ASSUME CheckoutAssumption ==
  /\ IsFiniteSet(Attempts) /\ IsFiniteSet(Skus)
  /\ Carts \subseteq [Skus -> Nat]
  /\ \A body \in Bodies : /\ Len(body.snapshot) \in Nat
                          /\ DOMAIN body.snapshot = 1 .. Len(body.snapshot)
  /\ Keyed \in BOOLEAN
  /\ MaxChanges \in Nat
  /\ MaxCrashes \in Nat
  /\ None \notin Attempts
  /\ None \notin OrderRows

VARIABLES orders,   \* the orders table: stored rows, by order id
          b2b,      \* in the B2B: items reserved, by order id
          late,     \* timed-out reserve calls still on their way
          cart,     \* content of the cart of every buyer
          price,    \* live unit price of every SKU
          att,      \* the coroutine of every attempt
          changes, crashes

vars == <<orders, b2b, late, cart, price, att, changes, crashes>>

(* How an attempt ends: the HTTP status, or none because the process died. *)
Answers == {"201", "400", "409", "409 conflict", "422", "500", "503", "died"}
Running == {"cart", "enrich", "reserving", "reserved", "counted", "stored"}
Phases  == {"new"} \cup Running \cup Answers
InFlight(r) == att[r].phase \in Running

(* An attempt's working data: the cart it loaded, the lines it priced, the *)
(* number it computed and the order it answered with.                      *)
Fresh == [phase |-> "new", buyer |-> None, key |-> None, body |-> None,
          content |-> None, lines |-> {}, number |-> 0, order |-> None]

Stored       == {o \in Attempts : orders[o] # None}
StoredUnder(k) == {o \in Stored : orders[o].key = k}
-----------------------------------------------------------------------------
Init ==
  /\ orders = [o \in Attempts |-> None]
  /\ b2b = [o \in Attempts |-> {}]
  /\ late = {}
  /\ cart \in [Buyers -> Carts]
  /\ price \in [Skus -> Prices]
  /\ att = [r \in Attempts |-> Fresh]
  /\ changes = 0
  /\ crashes = 0

Become(r, new) == att' = [att EXCEPT ![r] = new]
Answer(r, code) == Become(r, [att[r] EXCEPT !.phase = code])
-----------------------------------------------------------------------------
(* _requests_equal: the snapshots, sorted by sku_id with a stable sort,    *)
(* agree line by line; the other fields agree.  That is, the lines of one  *)
(* match those of the other, and lines of one SKU match in their order.  An*)
(* empty snapshot counts as none.                                          *)
SortedAlike(s, t) ==
  \E match \in Bijection(DOMAIN s, DOMAIN t) :
    /\ \A i \in DOMAIN s : t[match[i]] = s[i]
    /\ \A i, j \in DOMAIN s : i < j /\ s[i].sku = s[j].sku => match[i] < match[j]
RequestsAlwaysEqual(b, c) == TRUE
RequestsEqual(b, c) == b.rest = c.rest /\ SortedAlike(b.snapshot, c.snapshot)

(* The row found is compared with the body of the request, and with that   *)
(* only: whose order it is plays no part.                                  *)
Lookup(r, b, k, body) ==
  /\ att[r].phase = "new"
  /\ LET sent == [att[r] EXCEPT !.buyer = b, !.key = k, !.body = body]
     IN  \/ Become(r, [sent EXCEPT !.phase = "500"])
         \/ /\ StoredUnder(k) = {}
            /\ Become(r, [sent EXCEPT !.phase = "cart"])
         \/ \E o \in StoredUnder(k) :
              IF RequestsEqual(orders[o].body, body)
              THEN Become(r, [sent EXCEPT !.phase = "201", !.order = o])
              ELSE Become(r, [sent EXCEPT !.phase = "409 conflict"])
  /\ UNCHANGED <<orders, b2b, late, cart, price, changes, crashes>>

(* Whatever goes wrong with the cart is reported as an unavailable B2B.    *)
LoadCart(r) ==
  /\ att[r].phase = "cart"
  /\ LET content == cart[att[r].buyer]
         empty   == \A sku \in Skus : content[sku] = 0
     IN  \/ Answer(r, "503")
         \/ empty /\ Answer(r, "400")
         \/ ~empty /\ Become(r, [att[r] EXCEPT !.phase = "enrich", !.content = content])
  /\ UNCHANGED <<orders, b2b, late, cart, price, changes, crashes>>

Priced(content) ==
  {Line(sku, content[sku], price[sku]) : sku \in {s \in Skus : content[s] > 0}}

(* "Mismatch detection": as many lines, and every line of the snapshot has *)
(* its counterpart in the cart.  An empty snapshot is not compared.        *)
MismatchNoLength(snapshot, lines) ==
  \E i \in DOMAIN snapshot : snapshot[i] \notin lines
Mismatch(snapshot, lines) ==
  /\ snapshot # <<>>
  /\ \/ Len(snapshot) # Cardinality(lines)
     \/ \E i \in DOMAIN snapshot : snapshot[i] \notin lines

(* The B2B reads fail (503), the snapshot differs (422, or a 500 if the    *)
(* cart cannot be read again for the answer), a line is unavailable or     *)
(* short of stock (409), or the reserve call goes out for these lines.     *)
Enrich(r) ==
  /\ att[r].phase = "enrich"
  /\ LET lines == Priced(att[r].content)
     IN  \/ Answer(r, "503")
         \/ /\ Mismatch(att[r].body.snapshot, lines)
            /\ \E code \in {"422", "500"} : Answer(r, code)
         \/ /\ ~Mismatch(att[r].body.snapshot, lines)
            /\ \/ Answer(r, "409")
               \/ Become(r, [att[r] EXCEPT !.phase = "reserving", !.lines = lines])
  /\ UNCHANGED <<orders, b2b, late, cart, price, changes, crashes>>
-----------------------------------------------------------------------------
(* No answer to the reserve call, or one that is not 2xx and not 409.      *)
NoAnswerRefused  == "409"
NoAnswerAccepted == "reserved"
NoAnswer         == "503"

(* The B2B holds the items under the order id.  Whether it recognises a    *)
(* key it has already served is not visible in this repository.            *)
Items(lines) == {[sku |-> l.sku, quantity |-> l.quantity] : l \in lines}
Held(r) ==
  IF Keyed /\ \E q \in Attempts : b2b[q] # {} /\ att[q].key = att[r].key
  THEN b2b
  ELSE [b2b EXCEPT ![r] = Items(att[r].lines)]

Reserved(r) ==
  /\ att[r].phase = "reserving"
  /\ \/ /\ b2b' = Held(r)
        /\ Answer(r, "reserved")
        /\ UNCHANGED late
     \/ /\ \E code \in {"409", NoAnswer} : Answer(r, code)
        /\ UNCHANGED <<b2b, late>>
     \/ /\ Answer(r, NoAnswer)
        /\ late' = late \cup {r}
        /\ UNCHANGED b2b
  /\ UNCHANGED <<orders, cart, price, changes, crashes>>

ApplyLate(r) ==
  /\ r \in late
  /\ late' = late \ {r}
  /\ b2b' = Held(r)
  /\ UNCHANGED <<orders, cart, price, att, changes, crashes>>
-----------------------------------------------------------------------------
CountBefore(r) ==
  /\ att[r].phase = "reserved"
  /\ \/ Become(r, [att[r] EXCEPT !.phase = "counted", !.number = Cardinality(Stored)])
     \/ Answer(r, "500")
  /\ UNCHANGED <<orders, b2b, late, cart, price, changes, crashes>>

(* If the count fails, the goods reserved a moment ago stay reserved.      *)
CountOrders(r) ==
  /\ att[r].phase = "reserved"
  /\ \/ Become(r, [att[r] EXCEPT !.phase = "counted", !.number = Cardinality(Stored) + 1])
     \/ Answer(r, "500")
  /\ UNCHANGED <<orders, b2b, late, cart, price, changes, crashes>>

(* The unique indexes.  Neither an IntegrityError nor another failure of   *)
(* the database is caught: a 500, and the reservation stays.               *)
AdmitsNewKey(r)    == StoredUnder(att[r].key) = {}
AdmitsNewNumber(r) == \A o \in Stored : orders[o].number # att[r].number
Admits(r) == /\ StoredUnder(att[r].key) = {}
             /\ \A o \in Stored : orders[o].number # att[r].number

RowOfLiveCart(r) == [buyer |-> att[r].buyer, key |-> att[r].key, body |-> att[r].body,
                     lines |-> Priced(cart[att[r].buyer]), number |-> att[r].number]
RowOf(r) == [buyer |-> att[r].buyer, key |-> att[r].key, body |-> att[r].body,
             lines |-> att[r].lines, number |-> att[r].number]

Commit(r) ==
  /\ att[r].phase = "counted"
  /\ \/ /\ Admits(r)
        /\ orders' = [orders EXCEPT ![r] = RowOf(r)]
        /\ Answer(r, "stored")
     \/ /\ Answer(r, "500")
        /\ UNCHANGED orders
  /\ UNCHANGED <<b2b, late, cart, price, changes, crashes>>

(* The order is read once more for the answer.  If that fails, the client  *)
(* is told 500 of an order that is stored; a retry finds it.               *)
Refresh(r) ==
  /\ att[r].phase = "stored"
  /\ \/ Become(r, [att[r] EXCEPT !.phase = "201", !.order = r])
     \/ Answer(r, "500")
  /\ UNCHANGED <<orders, b2b, late, cart, price, changes, crashes>>
-----------------------------------------------------------------------------
(* A buyer edits its cart (create_order leaves the cart as it is), the     *)
(* seller changes a price.                                                 *)
ChangeCart(b) ==
  /\ changes < MaxChanges
  /\ changes' = changes + 1
  /\ \E c \in Carts : cart' = [cart EXCEPT ![b] = c]
  /\ UNCHANGED <<orders, b2b, late, price, att, crashes>>

ChangePrice(sku) ==
  /\ changes < MaxChanges
  /\ changes' = changes + 1
  /\ \E p \in Prices : price' = [price EXCEPT ![sku] = p]
  /\ UNCHANGED <<orders, b2b, late, cart, att, crashes>>

Crash ==
  /\ crashes < MaxCrashes
  /\ crashes' = crashes + 1
  /\ \E sent \in SUBSET {r \in Attempts : att[r].phase = "reserving"} :
       late' = late \cup sent
  /\ att' = [r \in Attempts |->
               IF InFlight(r) THEN [att[r] EXCEPT !.phase = "died"] ELSE att[r]]
  /\ UNCHANGED <<orders, b2b, cart, price, changes>>

AttemptStep(r) ==
  \/ \E b \in Buyers, k \in Keys, body \in Bodies : Lookup(r, b, k, body)
  \/ LoadCart(r)
  \/ Enrich(r)
  \/ Reserved(r)
  \/ CountOrders(r)
  \/ Commit(r)
  \/ Refresh(r)

Next ==
  \/ \E r \in Attempts : AttemptStep(r) \/ ApplyLate(r)
  \/ \E b \in Buyers : ChangeCart(b)
  \/ \E sku \in Skus : ChangePrice(sku)
  \/ Crash

Spec == Init /\ [][Next]_vars
-----------------------------------------------------------------------------
(* Tables and coroutines have the shape the code gives them, and an answer *)
(* that is not 201 names no order.                                         *)
TypeOK ==
  /\ orders \in [Attempts -> OrderRows \cup {None}]
  /\ b2b \in [Attempts -> SUBSET [sku : Skus, quantity : Nat]]
  /\ late \in SUBSET Attempts
  /\ cart \in [Buyers -> Carts]
  /\ price \in [Skus -> Prices]
  /\ \A r \in Attempts : /\ att[r].phase \in Phases
                         /\ (att[r].phase = "201") = (att[r].order \in Stored)
  /\ changes \in 0 .. MaxChanges
  /\ crashes \in 0 .. MaxCrashes

(* "Repeated POST with same Idempotency-Key returns existing order": all   *)
(* the attempts under one key that are answered 201 are given one order,   *)
(* although two of them may both have found none and both have reserved.   *)
SameKeySameOrder ==
  \A r, q \in Attempts :
    /\ att[r].phase = "201" /\ att[q].phase = "201"
    /\ att[r].key = att[q].key
    => att[r].order = att[q].order

(* The key of an attempt is used by its own buyer only.                    *)
OwnKey(r) == \A q \in Attempts : att[q].key = att[r].key => att[q].buyer = att[r].buyer

(* The order an attempt is given is the one it asked for: a key reused     *)
(* with another body is never answered with the first body's order.  Two   *)
(* snapshots ask for the same if they list the same lines in any order.    *)
(* The order is the buyer's own as long as no other buyer uses the key:    *)
(* the lookup is by key alone, and where two buyers send one key with equal*)
(* bodies the second is answered with the order of the first.              *)
AnswerMatchesRequest ==
  \A r \in Attempts : att[r].phase = "201" =>
    LET given == orders[att[r].order]
        kept  == given.body
        asked == att[r].body
    IN  /\ kept.rest = asked.rest
        /\ Len(kept.snapshot) = Len(asked.snapshot)
        /\ {kept.snapshot[i] : i \in DOMAIN kept.snapshot} =
             {asked.snapshot[i] : i \in DOMAIN asked.snapshot}
        /\ OwnKey(r) => given.buyer = att[r].buyer

(* count + 1, computed two steps before the insert by attempts that race,  *)
(* still numbers the stored orders 1, 2, 3, ... with no gap and no repeat. *)
NumbersAreDense ==
  {orders[o].number : o \in Stored} = 1 .. Cardinality(Stored)

(* Goods reserved for an order that was never stored have no one who could *)
(* release them.  This happens only to attempts that ended in a 5xx or in  *)
(* a crash: a client told 400, 409 or 422 leaves nothing reserved.         *)
OrphanIsReported ==
  \A r \in Attempts : b2b[r] # {} /\ r \notin Stored =>
    InFlight(r) \/ att[r].phase \in {"500", "503", "died"}

(* A stored order has exactly its own items reserved under its own id, the *)
(* id unreserve and fulfill will name, although the cart may change while  *)
(* the reserve call is out.  (Where the B2B does not fold repeated keys.)  *)
StoredIsReserved == \A o \in Stored : b2b[o] = Items(orders[o].lines)

(* Where it does, some attempt under the order's key has goods reserved.   *)
KeyIsReserved ==
  \A o \in Stored : \E q \in Attempts : b2b[q] # {} /\ att[q].key = orders[o].key

(* An order stored for a request with a snapshot contains what the client  *)
(* saw, whatever became of cart and prices while the request was handled.  *)
SnapshotHonoured ==
  \A o \in Stored : LET s == orders[o].body.snapshot
                    IN  s # <<>> => orders[o].lines = {s[i] : i \in DOMAIN s}
=============================================================================

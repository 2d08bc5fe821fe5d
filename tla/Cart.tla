-------------------------------- MODULE Cart --------------------------------
(***************************************************************************)
(* The cart_items table and the handlers of CartService, for guests known  *)
(* by a session, users known by a token, and requests that carry both      *)
(* headers; the events by which the B2B marks items unavailable            *)
(* (EventsService); and what validate_cart and checkout make of a cart.    *)
(*                                                                         *)
(* Handlers that await between reading and writing take one action per     *)
(* await:                                                                  *)
(*   add      AddAsked, AddChecked (B2B) -> AddSelect -> WriteAdd          *)
(*   update   UpdateSelect -> UpdateChecked (B2B) -> WriteUpdate           *)
(*   merge    MergeSelectGuest -> MergeSelectUser -> MergeCommit           *)
(*   event    EventArrives -> EventResolved -> EventApplied -> EventSaved  *)
(* DELETE statements are one action.  A commit writes the columns that     *)
(* changed; an UPDATE that finds no row raises StaleDataError, a violated  *)
(* unique index IntegrityError: both roll the transaction back and are     *)
(* answered with a 500.                                                    *)
(***************************************************************************)
EXTENDS Integers, FiniteSets

CONSTANTS Users, Sessions, Skus,
          RowIds,        \* ids of rows, never used twice: bounds the inserts
          Identities,    \* headers of requests: [user |-> .., session |-> ..]
          Merges,        \* identities that are sent to merge
          Requests,      \* cart requests in flight at the same time
          Deliveries,    \* event requests in flight at the same time
          Events,        \* bodies of events that the B2B sends, see Body
          SkusOf,        \* product -> its SKUs
          MaxQuantity,   \* bound on requested quantities
          MaxStock,      \* bound on the stock of a SKU
          MaxChanges,    \* bound on changes in the B2B
          MaxCrashes,    \* bound on restarts
          None           \* NULL

(* The body of an event.  It has the old field names, the new ones or both *)
(* (event is the later name of event_type), and may put what it names in a *)
(* payload, where one SKU may stand alone.                                 *)
Payload == [product : DOMAIN SkusOf \cup {None}, skus : SUBSET Skus, sku : Skus \cup {None}]
Body    == [event : STRING \cup {None}, event_type : STRING \cup {None},
            product : DOMAIN SkusOf \cup {None}, skus : SUBSET Skus,
            payload : Payload \cup {None}]

(* The reasons a row is marked with, and the events that mark.             *)
Reasons  == {"PRODUCT_BLOCKED", "PRODUCT_DELETED", "OUT_OF_STOCK"}
Blocking == {"PRODUCT_BLOCKED", "PRODUCT_HARD_BLOCKED", "PRODUCT_DELETED", "SKU_OUT_OF_STOCK"}

ASSUME CartAssumption ==
  /\ MaxQuantity \in Nat \ {0} /\ MaxStock \in Nat /\ MaxChanges \in Nat
  /\ MaxCrashes \in Nat
  /\ None \notin Users \cup Sessions \cup Skus \cup RowIds
  /\ None \notin Reasons \cup Blocking
  /\ IsFiniteSet(Requests)
  /\ Identities \subseteq [user : Users \cup {None}, session : Sessions \cup {None}]
  /\ \A who \in Identities : who.user # None \/ who.session # None
  /\ Merges \subseteq [user : Users, session : Sessions]
  /\ SkusOf \in [DOMAIN SkusOf -> SUBSET Skus]
  /\ Events \subseteq Body

VARIABLES table,      \* cart_items: row id -> row, Unused or Deleted
          req,        \* coroutines of cart requests
          status,     \* in the B2B: status of the product of every SKU
          stock,      \* in the B2B: active_quantity of every SKU
          keys,       \* event_idempotency_keys
          delivery,   \* coroutines of event requests
          changes, crashes

cartVars == <<table, req>>
b2bVars  == <<status, stock>>
evVars   == <<keys, delivery>>
vars     == <<cartVars, b2bVars, evVars, changes, crashes>>

Unused  == [sku |-> None, was |-> "unused"]
Deleted == [sku |-> None, was |-> "deleted"]
Idle    == [phase |-> "idle"]

Statuses == {"MODERATED", "ON_MODERATION", "BLOCKED", "DELETED"}

Live       == {i \in RowIds : table[i] \notin {Unused, Deleted}}
UserRows(u)    == {i \in Live : table[i].user = u}
SessionRows(s) == {i \in Live : table[i].session = s}

(* Every handler selects by user if there is one and by session otherwise. *)
Mine(who) == IF who.user # None THEN UserRows(who.user) ELSE SessionRows(who.session)
MineOf(who, sku) == {i \in Mine(who) : table[i].sku = sku}
Owned(who) == {table[i].sku : i \in Mine(who)}
-----------------------------------------------------------------------------
Init ==
  /\ table = [i \in RowIds |-> Unused]
  /\ req = [r \in Requests |-> Idle]
  /\ status = [sku \in Skus |-> "MODERATED"]
  /\ stock \in [Skus -> 0 .. MaxStock]
  /\ keys = {}
  /\ delivery = [d \in Deliveries |-> Idle]
  /\ changes = 0
  /\ crashes = 0

Become(r, new) == req' = [req EXCEPT ![r] = new]
Ends(r)        == Become(r, Idle)
Elsewhere      == UNCHANGED <<b2bVars, evVars, changes, crashes>>

(* The partial unique indexes over (user_id, sku_id) and (session_id,      *)
(* sku_id), on the rows where the first column is not NULL.                *)
Admissible(t) ==
  LET present == {i \in RowIds : t[i] \notin {Unused, Deleted}}
  IN  \A i, j \in present : i # j /\ t[i].sku = t[j].sku =>
        /\ t[i].user = t[j].user => t[i].user = None
        /\ t[i].session = t[j].session => t[i].session = None

(* COMMIT of a transaction that updates the given rows and leaves table t: *)
(* all of it, or nothing and a 500.                                        *)
Stored(updated, t) ==
  table' = IF updated \subseteq Live /\ Admissible(t) THEN t ELSE table
-----------------------------------------------------------------------------
(* add_item: the SKU with its stock, then the product, 404 if it is gone   *)
(* or blocked (a product on moderation passes) or the B2B fails; then the  *)
(* row and the stock limit, then the write.                                *)
AddAsked(r, who, sku, quantity) ==
  /\ req[r] = Idle
  /\ Become(r, [phase |-> "product", who |-> who, sku |-> sku,
                quantity |-> quantity, stock |-> stock[sku]])
  /\ Elsewhere /\ UNCHANGED table

AddChecked(r) ==
  /\ req[r].phase = "product"
  /\ \/ Ends(r)
     \/ /\ status[req[r].sku] \notin {"BLOCKED", "DELETED"}
        /\ Become(r, [req[r] EXCEPT !.phase = "select"])
  /\ Elsewhere /\ UNCHANGED table

AddTotalNewOnly(i, quantity) == quantity
AddTotal(i, quantity) == IF i = None THEN quantity ELSE table[i].quantity + quantity

AddSelect(r) ==
  /\ req[r].phase = "select"
  /\ \E i \in IF MineOf(req[r].who, req[r].sku) = {} THEN {None}
              ELSE MineOf(req[r].who, req[r].sku) :
       IF AddTotal(i, req[r].quantity) > req[r].stock
       THEN Ends(r)
       ELSE Become(r, [phase |-> "add", who |-> req[r].who, sku |-> req[r].sku, id |-> i,
                       quantity |-> IF i = None THEN req[r].quantity
                                    ELSE table[i].quantity + req[r].quantity])
  /\ Elsewhere /\ UNCHANGED table

WriteAdd(r) ==
  /\ req[r].phase = "add"
  /\ IF req[r].id # None
     THEN Stored({req[r].id},
                 [table EXCEPT ![req[r].id] =
                    IF @ \in {Unused, Deleted} THEN @
                    ELSE [@ EXCEPT !.quantity = req[r].quantity]])
     ELSE \E i \in {j \in RowIds : table[j] = Unused} :
            Stored({}, [table EXCEPT ![i] =
              [user |-> req[r].who.user, session |-> req[r].who.session,
               sku |-> req[r].sku, quantity |-> req[r].quantity, reason |-> None]])
  /\ Ends(r)
  /\ Elsewhere
-----------------------------------------------------------------------------
(* update_item_quantity: 404 without a row or when the B2B fails; the      *)
(* product's state is not asked for.  A quantity that is already there is  *)
(* not written, but updated_at is, so the row must exist.                  *)
UpdateSelect(r, who, sku, quantity) ==
  /\ req[r] = Idle
  /\ \E i \in MineOf(who, sku) :
       Become(r, [phase |-> "ask", sku |-> sku, id |-> i, quantity |-> quantity,
                  same |-> quantity = table[i].quantity])
  /\ Elsewhere /\ UNCHANGED table

UpdateUnchecked(r) ==
  /\ req[r].phase = "ask"
  /\ Become(r, [req[r] EXCEPT !.phase = "update"])
  /\ Elsewhere /\ UNCHANGED table

UpdateChecked(r) ==
  /\ req[r].phase = "ask"
  /\ \/ Ends(r)
     \/ /\ req[r].quantity <= stock[req[r].sku]
        /\ Become(r, [req[r] EXCEPT !.phase = "update"])
  /\ Elsewhere /\ UNCHANGED table

WriteUpdate(r) ==
  /\ req[r].phase = "update"
  /\ Stored({req[r].id},
            [table EXCEPT ![req[r].id] =
               IF @ \in {Unused, Deleted} \/ req[r].same THEN @
               ELSE [@ EXCEPT !.quantity = req[r].quantity]])
  /\ Ends(r)
  /\ Elsewhere
-----------------------------------------------------------------------------
Without(gone) == table' = [i \in RowIds |-> IF i \in gone THEN Deleted ELSE table[i]]

DeleteItem(who, sku) ==
  /\ Without(MineOf(who, sku))
  /\ Elsewhere /\ UNCHANGED req

ClearCart(who) ==
  /\ Without(Mine(who))
  /\ Elsewhere /\ UNCHANGED req
-----------------------------------------------------------------------------
(* merge_carts works on the rows as it read them.                          *)
MergeSelectGuest(r, who) ==
  /\ req[r] = Idle
  /\ SessionRows(who.session) # {}
  /\ Become(r, [phase |-> "guest", who |-> who,
                guest |-> [i \in SessionRows(who.session) |-> table[i]]])
  /\ Elsewhere /\ UNCHANGED table

MergeSelectUser(r) ==
  /\ req[r].phase = "guest"
  /\ LET u == req[r].who.user
     IN  Become(r, [phase |-> "merge", who |-> req[r].who, guest |-> req[r].guest,
                    user |-> [i \in UserRows(u) |->
                      IF i \in DOMAIN req[r].guest THEN req[r].guest[i] ELSE table[i]]])
  /\ Elsewhere /\ UNCHANGED table

(* user_item_map: the user's row for the SKU of a guest row, if any.  It   *)
(* may be the guest row itself, which was stored with both identities.     *)
Counterparts(m, i) == {j \in DOMAIN m.user : m.user[j].sku = m.guest[i].sku}
Summed(m, n) == m + n
Larger(m, n) == IF m > n THEN m ELSE n

(* Guest rows the user has a row for, merged into it and deleted; the      *)
(* others are transferred to the user.                                     *)
DoubledAlways(m) == DOMAIN m.guest
Doubled(m) == {i \in DOMAIN m.guest : Counterparts(m, i) # {}}

(* The table after the flush: UPDATEs of counterparts (quantity, if the    *)
(* maximum is not what was read) and of transferred rows, then DELETEs.    *)
Merged(m) ==
  LET partners(k) == {i \in Doubled(m) : k \in Counterparts(m, i)}
      larger(k)   == Larger(m.user[k].quantity,
                            m.guest[CHOOSE i \in partners(k) : TRUE].quantity)
  IN  [k \in RowIds |->
         IF k \in Doubled(m) THEN Deleted
         ELSE IF k \notin Live THEN table[k]
         ELSE IF k \in DOMAIN m.guest
              THEN [table[k] EXCEPT !.user = m.who.user, !.session = None]
         ELSE IF partners(k) # {} /\ larger(k) # m.user[k].quantity
              THEN [table[k] EXCEPT !.quantity = larger(k)]
         ELSE table[k]]

(* Rows the flush updates: every counterpart that is not deleted itself    *)
(* (updated_at always changes) and every transferred row.                  *)
Touched(m) ==
  (DOMAIN m.guest \cup UNION {Counterparts(m, i) : i \in Doubled(m)}) \ Doubled(m)

MergeCommit(r) ==
  /\ req[r].phase = "merge"
  /\ Stored(Touched(req[r]), Merged(req[r]))
  /\ Ends(r)
  /\ Elsewhere
-----------------------------------------------------------------------------
(* POST /events.  What a body gives outside its payload counts first.      *)
TypeOf(e)    == IF e.event # None THEN e.event ELSE e.event_type
ProductOf(e) == IF e.product # None \/ e.payload = None THEN e.product ELSE e.payload.product
SkusIn(e)    == IF e.skus # {} \/ e.payload = None THEN e.skus
                ELSE IF e.payload.skus # {} THEN e.payload.skus
                ELSE {e.payload.sku} \ {None}

ReasonOf(e) ==
  LET type == TypeOf(e)
  IN  CASE type \in {"PRODUCT_BLOCKED", "PRODUCT_HARD_BLOCKED"} -> "PRODUCT_BLOCKED"
        [] type = "PRODUCT_DELETED"  -> "PRODUCT_DELETED"
        [] type = "SKU_OUT_OF_STOCK" -> "OUT_OF_STOCK"
        [] OTHER                     -> None

(* Without a SKU, those of the product are asked for; if that fails, the   *)
(* event goes on with none.                                                *)
FirstPhase(e) == IF SkusIn(e) = {} /\ ProductOf(e) # None THEN "resolve" ELSE "apply"

EventClaimed(d, e) ==
  /\ delivery[d] = Idle
  /\ e \notin keys
  /\ keys' = keys \cup {e}
  /\ delivery' = [delivery EXCEPT ![d] =
       [phase |-> FirstPhase(e), event |-> e, skus |-> SkusIn(e), present |-> Live]]
  /\ UNCHANGED <<cartVars, b2bVars, changes, crashes>>

(* "present", the rows there are when the event arrives, is for properties. *)
EventArrives(d, e) ==
  /\ delivery[d] = Idle
  /\ e \notin keys
  /\ delivery' = [delivery EXCEPT ![d] =
       [phase |-> FirstPhase(e), event |-> e, skus |-> SkusIn(e), present |-> Live]]
  /\ UNCHANGED <<cartVars, b2bVars, keys, changes, crashes>>

EventResolved(d) ==
  /\ delivery[d].phase = "resolve"
  /\ \E skus \in {{}, SkusOf[ProductOf(delivery[d].event)]} :
       delivery' = [delivery EXCEPT ![d] = [@ EXCEPT !.phase = "apply", !.skus = skus]]
  /\ UNCHANGED <<cartVars, b2bVars, keys, changes, crashes>>

(* One UPDATE over all carts, committed before the key is.                 *)
EventApplied(d) ==
  /\ delivery[d].phase = "apply"
  /\ LET skus   == delivery[d].skus
         reason == ReasonOf(delivery[d].event)
     IN  table' = [i \in RowIds |->
           IF reason # None /\ i \in Live /\ table[i].sku \in skus
           THEN [table[i] EXCEPT !.reason = reason] ELSE table[i]]
  /\ delivery' = [delivery EXCEPT ![d] = [@ EXCEPT !.phase = "save"]]
  /\ UNCHANGED <<req, b2bVars, keys, changes, crashes>>

(* A key that another delivery has stored meanwhile violates the primary   *)
(* key: a 500, and the sender will find the event processed when it        *)
(* retries.                                                                *)
EventSaved(d) ==
  /\ delivery[d].phase = "save"
  /\ keys' = keys \cup {delivery[d].event}
  /\ delivery' = [delivery EXCEPT ![d] = Idle]
  /\ UNCHANGED <<cartVars, b2bVars, changes, crashes>>
-----------------------------------------------------------------------------
(* The B2B changes by itself; the process may be restarted.                *)
B2BChanges ==
  /\ changes < MaxChanges
  /\ changes' = changes + 1
  /\ \E sku \in Skus :
       \/ \E s \in Statuses : status' = [status EXCEPT ![sku] = s] /\ UNCHANGED stock
       \/ \E n \in 0 .. MaxStock : stock' = [stock EXCEPT ![sku] = n] /\ UNCHANGED status
  /\ UNCHANGED <<cartVars, evVars, crashes>>

Crash ==
  /\ crashes < MaxCrashes
  /\ crashes' = crashes + 1
  /\ req' = [r \in Requests |-> Idle]
  /\ delivery' = [d \in Deliveries |-> Idle]
  /\ UNCHANGED <<table, b2bVars, keys, changes>>

RequestStep(r) ==
  \/ \E who \in Identities, sku \in Skus, n \in 1 .. MaxQuantity :
       AddAsked(r, who, sku, n) \/ UpdateSelect(r, who, sku, n)
  \/ AddChecked(r)
  \/ AddSelect(r)
  \/ WriteAdd(r)
  \/ UpdateChecked(r)
  \/ WriteUpdate(r)
  \/ \E who \in Merges : MergeSelectGuest(r, who)
  \/ MergeSelectUser(r)
  \/ MergeCommit(r)

DeliveryStep(d) ==
  \/ \E e \in Events : EventArrives(d, e)
  \/ EventResolved(d)
  \/ EventApplied(d)
  \/ EventSaved(d)

Next ==
  \/ \E r \in Requests : RequestStep(r)
  \/ \E who \in Identities, sku \in Skus : DeleteItem(who, sku)
  \/ \E who \in Identities : ClearCart(who)
  \/ \E d \in Deliveries : DeliveryStep(d)
  \/ B2BChanges
  \/ Crash

Spec == Init /\ [][Next]_vars

(* The same, where clients do not send a merge while another is going on.  *)
Merging == {r \in Requests : req[r].phase \in {"guest", "merge"}}
OneMergeSpec == Init /\ [][Next /\ Cardinality(Merging') <= 1]_vars
-----------------------------------------------------------------------------
(* What is read of a cart: validate_cart's verdict (no blocking issue, not *)
(* empty), and whether create_order finds every item available, which asks *)
(* enrich_cart_items, which also asks the row.                             *)
ValidForCheckout(who) ==
  /\ Mine(who) # {}
  /\ \A i \in Mine(who) : /\ status[table[i].sku] = "MODERATED"
                          /\ table[i].quantity <= stock[table[i].sku]

Orderable(who) ==
  /\ Mine(who) # {}
  /\ \A i \in Mine(who) : /\ table[i].reason = None
                          /\ status[table[i].sku] = "MODERATED"
                          /\ table[i].quantity <= stock[table[i].sku]
-----------------------------------------------------------------------------
(* Rows keep the constraints of the table (an owner, quantity >= 1, the    *)
(* unique indexes), and no quantity, however it was added up, updated or   *)
(* merged, is more than the most there ever is of a SKU.                   *)
Rows == [user : Users \cup {None}, session : Sessions \cup {None}, sku : Skus,
         quantity : 1 .. MaxStock, reason : Reasons \cup {None}]
TypeOK ==
  /\ \A i \in Live : /\ table[i] \in Rows
                     /\ table[i].user # None \/ table[i].session # None
  /\ Admissible(table)
  /\ \A r \in Requests : req[r].phase \in
       {"idle", "product", "select", "add", "ask", "update", "guest", "merge"}
  /\ status \in [Skus -> Statuses]
  /\ stock \in [Skus -> 0 .. MaxStock]
  /\ keys \subseteq Events
  /\ \A d \in Deliveries : delivery[d].phase \in {"idle", "resolve", "apply", "save"}
  /\ changes \in 0 .. MaxChanges
  /\ crashes \in 0 .. MaxCrashes

(* While the B2B does not change, no cart holds more of a SKU than there   *)
(* is: racing adds and updates, each checked against what it read, do not  *)
(* add up to more, nor does a merge of carts they filled.                  *)
StockIsRespected ==
  changes = 0 => \A i \in Live : table[i].quantity <= stock[table[i].sku]

(* A merge that ends, whatever it read before others changed the rows,     *)
(* leaves the buyer every SKU that was in either cart when it committed.   *)
Ending(r, phase) == /\ req[r].phase = phase
                    /\ req'[r] = Idle
                    /\ crashes' = crashes
InEither(who) == {table[i].sku : i \in UserRows(who.user) \cup SessionRows(who.session)}
MergeLosesNothing ==
  [][\A r \in Requests, who \in Merges : Ending(r, "merge") /\ req[r].who = who =>
       InEither(who) \subseteq InEither(who)']_vars

(* "Merges guest cart items into user's cart based on max quantity": if    *)
(* nobody changed the two carts since it read them, the merge empties the  *)
(* guest's and leaves the larger of the quantities in the user's.          *)
QuantityIn(rows, sku) == IF \E i \in rows : table[i].sku = sku
                         THEN table[CHOOSE i \in rows : table[i].sku = sku].quantity
                         ELSE 0
AsRead(m) ==
  /\ DOMAIN m.guest = SessionRows(m.who.session)
  /\ DOMAIN m.user = UserRows(m.who.user)
  /\ \A i \in DOMAIN m.guest : m.guest[i] = table[i]
  /\ \A i \in DOMAIN m.user : m.user[i] = table[i]
MergeTakesMax ==
  [][\A r \in Requests, who \in Merges :
       Ending(r, "merge") /\ req[r].who = who /\ AsRead(req[r]) =>
         /\ SessionRows(who.session)' = {}
         /\ \A sku \in Skus :
              LET users  == QuantityIn(UserRows(who.user), sku)
                  guests == QuantityIn(SessionRows(who.session), sku)
              IN  QuantityIn(UserRows(who.user), sku)' =
                    IF users >= guests THEN users ELSE guests]_vars

(* Once an event that makes SKUs unavailable is acknowledged for good (its *)
(* key is stored, so that a retry does nothing), the rows that were there  *)
(* when it arrived and whose SKUs its body names, in whatever field, are   *)
(* marked: no write that was going on, of an add, an update or a merge,    *)
(* took the mark away, and no restart skipped it.                          *)
Named(e) == e.skus \cup IF e.payload = None THEN {} ELSE e.payload.skus \cup {e.payload.sku}
Unmarked(e) ==
  /\ {e.event, e.event_type} \cap Blocking # {}
  /\ \E d \in Deliveries :
       LET handled == IF delivery[d] # Idle THEN delivery[d] ELSE delivery'[d]
       IN  /\ delivery'[d] # delivery[d]
           /\ handled.event = e
           /\ \E i \in handled.present \cap Live :
                table[i].sku \in Named(e) /\ table[i].reason = None
AcceptedIsMarked == [][\A e \in keys' \ keys : ~Unmarked(e)]_vars

(* "The cart is valid for checkout if there are no critical issues": what  *)
(* validate_cart approves, create_order does not refuse.                   *)
ValidIsOrderable ==
  \A who \in Identities : who.user # None /\ ValidForCheckout(who) => Orderable(who)
=============================================================================

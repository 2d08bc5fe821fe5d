------------------------------ MODULE CartProofs ------------------------------
(***************************************************************************)
(* Theorems about Cart for any users, sessions, SKUs, rows, events and any *)
(* number of requests in flight.                                           *)
(***************************************************************************)
EXTENDS Cart, FiniteSetTheorems, TLAPS

(* The records of the coroutines, phase by phase.  What add is about to    *)
(* write, and what update is, has been checked against a stock.            *)
Snapshots == UNION {[rows -> Rows] : rows \in SUBSET RowIds}
Adding    == [phase : {"product", "select"}, who : Identities, sku : Skus,
              quantity : 1 .. MaxQuantity, stock : 0 .. MaxStock]
Putting   == [phase : {"add"}, who : Identities, sku : Skus, id : RowIds \cup {None},
              quantity : 1 .. MaxStock]
Asking    == [phase : {"ask"}, sku : Skus, id : RowIds, quantity : 1 .. MaxQuantity,
              same : BOOLEAN]
Updating  == [phase : {"update"}, sku : Skus, id : RowIds, quantity : 1 .. MaxStock,
              same : BOOLEAN]
HasGuest  == [phase : {"guest"}, who : Merges, guest : Snapshots]
HasBoth   == [phase : {"merge"}, who : Merges, guest : Snapshots, user : Snapshots]
Working   == Adding \cup Putting \cup Asking \cup Updating \cup HasGuest \cup HasBoth

Handling  == {h \in [phase : {"resolve", "apply", "save"}, event : Events,
                     skus : SUBSET Skus, present : SUBSET RowIds] :
                /\ SkusIn(h.event) # {} => h.skus = SkusIn(h.event)
                /\ h.phase = "resolve" => /\ SkusIn(h.event) = {}
                                         /\ ProductOf(h.event) \in DOMAIN SkusOf}

TableOK(t) ==
  /\ t \in [RowIds -> Rows \cup {Unused, Deleted}]
  /\ \A i \in RowIds : t[i] \notin {Unused, Deleted} =>
                        t[i].user # None \/ t[i].session # None
  /\ Admissible(t)

Typed ==
  /\ TableOK(table)
  /\ req \in [Requests -> {Idle} \cup Working]
  /\ status \in [Skus -> Statuses]
  /\ stock \in [Skus -> 0 .. MaxStock]
  /\ keys \subseteq Events
  /\ delivery \in [Deliveries -> {Idle} \cup Handling]
  /\ changes \in 0 .. MaxChanges
  /\ crashes \in 0 .. MaxCrashes

-----------------------------------------------------------------------------
(* No reason, and no type of an event, is NULL.                            *)
LEMMA ReasonsAreReasons == None \notin Reasons /\ None \notin Blocking
BY CartAssumption

(* A row is not one of the two marks of an empty place.                    *)
LEMMA RowsAreRows == \A x \in Rows : x # Unused /\ x # Deleted
BY DEF Rows, Unused, Deleted

(* What a phase says of the record of a request.                           *)
LEMMA Phases ==
  ASSUME Typed, NEW r \in Requests
  PROVE  /\ req[r].phase \in {"product", "select"} => req[r] \in Adding
         /\ req[r].phase = "add"    => req[r] \in Putting
         /\ req[r].phase = "ask"    => req[r] \in Asking
         /\ req[r].phase = "update" => req[r] \in Updating
         /\ req[r].phase = "guest"  => req[r] \in HasGuest
         /\ req[r].phase = "merge"  => req[r] \in HasBoth
         /\ req[r].phase = "idle"   => req[r] = Idle
         /\ req[r].phase \in
              {"idle", "product", "select", "add", "ask", "update", "guest", "merge"}
BY DEF Typed, Working, Idle, Adding, Putting, Asking, Updating, HasGuest, HasBoth

LEMMA DeliveryPhases ==
  ASSUME Typed, NEW d \in Deliveries
  PROVE  /\ delivery[d].phase \in {"resolve", "apply", "save"} => delivery[d] \in Handling
         /\ delivery[d].phase \in {"idle", "resolve", "apply", "save"}
BY DEF Typed, Idle, Handling

LEMMA TypedIsTypeOK == Typed => TypeOK
<1> SUFFICES ASSUME Typed PROVE TypeOK
  OBVIOUS
<1>1. \A i \in Live : table[i] \in Rows /\ (table[i].user # None \/ table[i].session # None)
  BY DEF Typed, TableOK, Live
<1>2. Admissible(table)
  BY DEF Typed, TableOK
<1>3. \A r \in Requests : req[r].phase \in
        {"idle", "product", "select", "add", "ask", "update", "guest", "merge"}
  BY Phases
<1>4. \A d \in Deliveries : delivery[d].phase \in {"idle", "resolve", "apply", "save"}
  BY DeliveryPhases
<1> QED
  BY <1>1, <1>2, <1>3, <1>4 DEF Typed, TypeOK
-----------------------------------------------------------------------------
(* Deleting rows keeps the table in order.                                 *)
LEMMA WithoutOK ==
  ASSUME TableOK(table), NEW gone, Without(gone)
  PROVE  TableOK(table')
<1>1. table' \in [RowIds -> Rows \cup {Unused, Deleted}]
  BY DEF Without, TableOK
<1>2. \A i \in RowIds : table'[i] = table[i] \/ table'[i] = Deleted
  BY DEF Without
<1>3. Admissible(table')
  BY <1>2 DEF TableOK, Admissible
<1> QED
  BY <1>1, <1>2, <1>3 DEF TableOK
-----------------------------------------------------------------------------
(* What a merge writes, row by row; Larger of two quantities is one.       *)
LEMMA LargerOfTwo ==
  ASSUME NEW m \in Int, NEW n \in Int
  PROVE  /\ Larger(m, n) \in {m, n} /\ Larger(m, n) >= m /\ Larger(m, n) >= n
         /\ Larger(m, n) = IF m >= n THEN m ELSE n
BY DEF Larger

Partners(m, k) == {i \in Doubled(m) : k \in Counterparts(m, i)}

LEMMA MergedRow ==
  ASSUME TableOK(table), NEW m \in HasBoth, NEW k \in RowIds
  PROVE  LET larger == Larger(m.user[k].quantity,
                              m.guest[CHOOSE i \in Partners(m, k) : TRUE].quantity)
         IN  /\ k \in Doubled(m) => Merged(m)[k] = Deleted
             /\ k \notin Live /\ k \notin Doubled(m) => Merged(m)[k] = table[k]
             /\ k \in Live /\ k \in DOMAIN m.guest /\ k \notin Doubled(m) =>
                  Merged(m)[k] = [table[k] EXCEPT !.user = m.who.user, !.session = None]
             /\ k \in Live /\ k \notin DOMAIN m.guest =>
                  Merged(m)[k] = IF Partners(m, k) # {} /\ larger # m.user[k].quantity
                                 THEN [table[k] EXCEPT !.quantity = larger]
                                 ELSE table[k]
BY DEF Merged, Partners, Doubled

LEMMA SnapshotIsRows ==
  ASSUME NEW f \in Snapshots
  PROVE  /\ DOMAIN f \in SUBSET RowIds
         /\ \A i \in DOMAIN f : f[i] \in Rows /\ f[i].quantity \in 1 .. MaxStock
BY DEF Snapshots, Rows

LEMMA PartnersRead ==
  ASSUME NEW m \in HasBoth, NEW k, Partners(m, k) # {}
  PROVE  LET i == CHOOSE j \in Partners(m, k) : TRUE
         IN  /\ i \in Partners(m, k) /\ i \in DOMAIN m.guest /\ k \in DOMAIN m.user
             /\ m.user[k].sku = m.guest[i].sku
             /\ m.user[k].quantity \in 1 .. MaxStock
             /\ m.guest[i].quantity \in 1 .. MaxStock
<1> DEFINE i == CHOOSE j \in Partners(m, k) : TRUE
<1>1. i \in Partners(m, k)
  OBVIOUS
<1>2. i \in DOMAIN m.guest /\ k \in DOMAIN m.user /\ m.user[k].sku = m.guest[i].sku
  BY <1>1 DEF Partners, Doubled, Counterparts
<1>3. m.user \in Snapshots /\ m.guest \in Snapshots
  BY DEF HasBoth
<1> HIDE DEF i
<1>4. m.user[k].quantity \in 1 .. MaxStock /\ m.guest[i].quantity \in 1 .. MaxStock
  BY <1>2, <1>3, SnapshotIsRows
<1> QED
  BY <1>1, <1>2, <1>4 DEF i

LEMMA MergedOK ==
  ASSUME TableOK(table), NEW m \in HasBoth
  PROVE  /\ Merged(m) \in [RowIds -> Rows \cup {Unused, Deleted}]
         /\ \A k \in RowIds : Merged(m)[k] \notin {Unused, Deleted} =>
              Merged(m)[k].user # None \/ Merged(m)[k].session # None
<1>1. ASSUME NEW k \in RowIds
      PROVE  /\ Merged(m)[k] \in Rows \cup {Unused, Deleted}
             /\ Merged(m)[k] \notin {Unused, Deleted} =>
                  Merged(m)[k].user # None \/ Merged(m)[k].session # None
  <2>0. k \in Live => table[k] \in Rows /\ (table[k].user # None \/ table[k].session # None)
    BY DEF Live, TableOK
  <2>1. CASE k \in Doubled(m)
    BY <2>1, MergedRow
  <2>2. CASE k \notin Live /\ k \notin Doubled(m)
    BY <2>2, MergedRow DEF TableOK
  <2>3. CASE k \in Live /\ k \in DOMAIN m.guest /\ k \notin Doubled(m)
    <3>1. Merged(m)[k] = [table[k] EXCEPT !.user = m.who.user, !.session = None]
      BY <2>3, MergedRow
    <3>2. m.who.user \in Users /\ m.who.user # None
      BY CartAssumption DEF HasBoth
    <3>3. ASSUME NEW u \in Users
          PROVE  /\ [table[k] EXCEPT !.user = u, !.session = None] \in Rows
                 /\ [table[k] EXCEPT !.user = u, !.session = None].user = u
      BY <2>0, <2>3 DEF Rows
    <3> QED
      BY <3>1, <3>2, <3>3
  <2>4. CASE k \in Live /\ k \notin DOMAIN m.guest
    <3> DEFINE larger == Larger(m.user[k].quantity,
                                m.guest[CHOOSE i \in Partners(m, k) : TRUE].quantity)
    <3>1. Merged(m)[k] = IF Partners(m, k) # {} /\ larger # m.user[k].quantity
                         THEN [table[k] EXCEPT !.quantity = larger]
                         ELSE table[k]
      BY <2>4, MergedRow
    <3>2. Partners(m, k) # {} => larger \in 1 .. MaxStock
      BY PartnersRead, LargerOfTwo
    <3> HIDE DEF larger
    <3>3. ASSUME NEW q \in 1 .. MaxStock
          PROVE  /\ [table[k] EXCEPT !.quantity = q] \in Rows
                 /\ [table[k] EXCEPT !.quantity = q].user = table[k].user
                 /\ [table[k] EXCEPT !.quantity = q].session = table[k].session
      BY <2>0, <2>4 DEF Rows
    <3> QED
      BY <2>0, <2>4, <3>1, <3>2, <3>3
  <2> QED
    BY <2>1, <2>2, <2>3, <2>4 DEF Doubled
<1>2. Merged(m) = [k \in RowIds |-> Merged(m)[k]]
  BY DEF Merged
<1> QED
  BY <1>1, <1>2
-----------------------------------------------------------------------------
(* Rows with one column written anew.                                      *)
LEMMA RowWritten ==
  ASSUME NEW x \in Rows
  PROVE  /\ \A q \in 1 .. MaxStock :
              /\ [x EXCEPT !.quantity = q] \in Rows
              /\ [x EXCEPT !.quantity = q].user = x.user
              /\ [x EXCEPT !.quantity = q].session = x.session
              /\ [x EXCEPT !.quantity = q].sku = x.sku
              /\ [x EXCEPT !.quantity = q].reason = x.reason
         /\ \A reason \in Reasons :
              /\ [x EXCEPT !.reason = reason] \in Rows
              /\ [x EXCEPT !.reason = reason].user = x.user
              /\ [x EXCEPT !.reason = reason].session = x.session
              /\ [x EXCEPT !.reason = reason].sku = x.sku
              /\ [x EXCEPT !.reason = reason].reason = reason
BY DEF Rows

(* The tables that add and update commit.                                  *)
LEMMA QuantityOK ==
  ASSUME TableOK(table), NEW i \in RowIds, NEW q \in 1 .. MaxStock, NEW same \in BOOLEAN
  PROVE  LET t == [table EXCEPT ![i] = IF @ \in {Unused, Deleted} \/ same THEN @
                                       ELSE [@ EXCEPT !.quantity = q]]
         IN  /\ t \in [RowIds -> Rows \cup {Unused, Deleted}]
             /\ \A k \in RowIds : t[k] \notin {Unused, Deleted} =>
                                    t[k].user # None \/ t[k].session # None
BY RowWritten, RowsAreRows DEF TableOK

LEMMA InsertOK ==
  ASSUME TableOK(table), NEW i \in RowIds, NEW w \in Putting
  PROVE  LET t == [table EXCEPT ![i] =
                     [user |-> w.who.user, session |-> w.who.session,
                      sku |-> w.sku, quantity |-> w.quantity, reason |-> None]]
         IN  /\ t \in [RowIds -> Rows \cup {Unused, Deleted}]
             /\ \A k \in RowIds : t[k] \notin {Unused, Deleted} =>
                                    t[k].user # None \/ t[k].session # None
<1>1. /\ w.who \in Identities /\ w.sku \in Skus /\ w.quantity \in 1 .. MaxStock
  BY DEF Putting
<1>2. /\ w.who.user \in Users \cup {None} /\ w.who.session \in Sessions \cup {None}
      /\ w.who.user # None \/ w.who.session # None
  BY <1>1, CartAssumption
<1>3. [user |-> w.who.user, session |-> w.who.session,
       sku |-> w.sku, quantity |-> w.quantity, reason |-> None] \in Rows
  BY <1>1, <1>2 DEF Rows
<1> QED
  BY <1>2, <1>3 DEF TableOK

(* A write of one request, which then ends, keeps the shapes.              *)
LEMMA CommitTyped ==
  ASSUME Typed, NEW r \in Requests, Ends(r), Elsewhere, TableOK(table')
  PROVE  Typed'
BY DEF Typed, Ends, Become, Elsewhere, b2bVars, evVars

LEMMA WriteAddTyped ==
  ASSUME Typed, NEW r \in Requests, WriteAdd(r) PROVE TableOK(table')
<1>1. TableOK(table) /\ req[r] \in Putting
  BY Phases DEF WriteAdd, Typed
<1>2. CASE req[r].id # None
  <2>1. req[r].id \in RowIds /\ req[r].quantity \in 1 .. MaxStock
    BY <1>1, <1>2 DEF Putting
  <2> DEFINE t == [table EXCEPT ![req[r].id] =
                     IF @ \in {Unused, Deleted} \/ FALSE THEN @
                     ELSE [@ EXCEPT !.quantity = req[r].quantity]]
  <2>2. table' = table \/ (table' = t /\ Admissible(t))
    BY <1>2 DEF WriteAdd, Stored
  <2>3. /\ t \in [RowIds -> Rows \cup {Unused, Deleted}]
        /\ \A k \in RowIds : t[k] \notin {Unused, Deleted} =>
                               t[k].user # None \/ t[k].session # None
    BY <1>1, <2>1, QuantityOK
  <2> QED
    BY <1>1, <2>2, <2>3 DEF TableOK
<1>3. CASE req[r].id = None
  <2> DEFINE t(i) == [table EXCEPT ![i] =
                        [user |-> req[r].who.user, session |-> req[r].who.session,
                         sku |-> req[r].sku, quantity |-> req[r].quantity, reason |-> None]]
  <2>1. PICK i \in RowIds : table' = table \/ (table' = t(i) /\ Admissible(t(i)))
    BY <1>3 DEF WriteAdd, Stored
  <2>2. /\ t(i) \in [RowIds -> Rows \cup {Unused, Deleted}]
        /\ \A k \in RowIds : t(i)[k] \notin {Unused, Deleted} =>
                               t(i)[k].user # None \/ t(i)[k].session # None
    BY <1>1, InsertOK
  <2> QED
    BY <1>1, <2>1, <2>2 DEF TableOK
<1> QED
  BY <1>2, <1>3

LEMMA WriteUpdateTyped ==
  ASSUME Typed, NEW r \in Requests, WriteUpdate(r) PROVE TableOK(table')
<1>1. TableOK(table) /\ req[r] \in Updating
  BY Phases DEF WriteUpdate, Typed
<1>2. req[r].id \in RowIds /\ req[r].quantity \in 1 .. MaxStock /\ req[r].same \in BOOLEAN
  BY <1>1 DEF Updating
<1> DEFINE t == [table EXCEPT ![req[r].id] =
                   IF @ \in {Unused, Deleted} \/ req[r].same THEN @
                   ELSE [@ EXCEPT !.quantity = req[r].quantity]]
<1>3. table' = table \/ (table' = t /\ Admissible(t))
  BY DEF WriteUpdate, Stored
<1>4. /\ t \in [RowIds -> Rows \cup {Unused, Deleted}]
      /\ \A k \in RowIds : t[k] \notin {Unused, Deleted} =>
                             t[k].user # None \/ t[k].session # None
  BY <1>1, <1>2, QuantityOK
<1> QED
  BY <1>1, <1>3, <1>4 DEF TableOK

LEMMA MergeCommitTyped ==
  ASSUME Typed, NEW r \in Requests, MergeCommit(r) PROVE TableOK(table')
<1>1. TableOK(table) /\ req[r] \in HasBoth
  BY Phases DEF MergeCommit, Typed
<1>2. \/ table' = table
      \/ table' = Merged(req[r]) /\ Admissible(Merged(req[r]))
  BY DEF MergeCommit, Stored
<1> QED
  BY <1>1, <1>2, MergedOK DEF TableOK

LEMMA EventAppliedTyped ==
  ASSUME Typed, NEW d \in Deliveries, EventApplied(d) PROVE TableOK(table')
<1> DEFINE reason == ReasonOf(delivery[d].event)
<1>1. TableOK(table)
  BY DEF Typed
<1>2. reason \in Reasons \cup {None}
  BY DEF ReasonOf, Reasons
<1>3. \A i \in RowIds : \/ table'[i] = table[i]
                        \/ /\ reason # None /\ i \in Live
                           /\ table'[i] = [table[i] EXCEPT !.reason = reason]
  BY DEF EventApplied
<1> HIDE DEF reason
<1>4. \A i \in RowIds :
        /\ table'[i] \in Rows \cup {Unused, Deleted}
        /\ table'[i] \notin {Unused, Deleted} =>
             /\ table[i] \notin {Unused, Deleted}
             /\ table'[i].user = table[i].user /\ table'[i].session = table[i].session
             /\ table'[i].sku = table[i].sku
  <2> SUFFICES ASSUME NEW i \in RowIds
               PROVE  /\ table'[i] \in Rows \cup {Unused, Deleted}
                      /\ table'[i] \notin {Unused, Deleted} =>
                           /\ table[i] \notin {Unused, Deleted}
                           /\ table'[i].user = table[i].user
                           /\ table'[i].session = table[i].session
                           /\ table'[i].sku = table[i].sku
    OBVIOUS
  <2>1. table[i] \in Rows \cup {Unused, Deleted}
    BY <1>1 DEF TableOK
  <2>2. CASE table'[i] = table[i]
    BY <2>1, <2>2
  <2>3. CASE /\ reason # None /\ i \in Live
             /\ table'[i] = [table[i] EXCEPT !.reason = reason]
    <3>1. table[i] \in Rows /\ reason \in Reasons /\ table[i] \notin {Unused, Deleted}
      BY <1>2, <2>1, <2>3 DEF Live
    <3> QED
      BY <2>3, <3>1, RowWritten
  <2> QED
    BY <1>3, <2>2, <2>3
<1>5. table' \in [RowIds -> Rows \cup {Unused, Deleted}]
  BY <1>4 DEF EventApplied
<1>6. Admissible(table')
  BY <1>1, <1>4 DEF TableOK, Admissible
<1>7. \A i \in RowIds : table'[i] \notin {Unused, Deleted} =>
                          table'[i].user # None \/ table'[i].session # None
  BY <1>1, <1>4 DEF TableOK
<1> QED
  BY <1>5, <1>6, <1>7 DEF TableOK
-----------------------------------------------------------------------------
LEMMA TypedInit == Init => Typed
<1> SUFFICES ASSUME Init PROVE Typed
  OBVIOUS
<1>1. TableOK(table)
  BY DEF Init, TableOK, Admissible
<1>2. status \in [Skus -> Statuses] /\ stock \in [Skus -> 0 .. MaxStock]
  BY CartAssumption DEF Init, Statuses
<1> QED
  BY <1>1, <1>2, CartAssumption DEF Init, Typed

(* A coroutine that goes on holds a record of its new phase.               *)
LEMMA RequestTyped ==
  ASSUME Typed, NEW r \in Requests, RequestStep(r), table' = table
  PROVE  req' \in [Requests -> {Idle} \cup Working]
<1>0. req \in [Requests -> {Idle} \cup Working] /\ TableOK(table)
  BY DEF Typed
<1>1. ASSUME NEW new \in {Idle} \cup Working, Become(r, new)
      PROVE  req' \in [Requests -> {Idle} \cup Working]
  BY <1>0, <1>1 DEF Become
<1>2. CASE Ends(r)
  BY <1>0, <1>2 DEF Ends, Become
<1>3. ASSUME NEW who \in Identities, NEW sku \in Skus, NEW n \in 1 .. MaxQuantity,
             AddAsked(r, who, sku, n)
      PROVE  req' \in [Requests -> {Idle} \cup Working]
  <2>1. stock[sku] \in 0 .. MaxStock
    BY DEF Typed
  <2>2. [phase |-> "product", who |-> who, sku |-> sku, quantity |-> n, stock |-> stock[sku]]
          \in Working
    BY <2>1 DEF Working, Adding
  <2> QED
    BY <1>0, <1>3, <2>2 DEF AddAsked, Become
<1>4. CASE AddChecked(r) /\ ~Ends(r)
  <2>1. req[r] \in Adding
    BY <1>4, Phases DEF AddChecked
  <2>2. [req[r] EXCEPT !.phase = "select"] \in Working
    BY <2>1 DEF Working, Adding
  <2> QED
    BY <1>0, <1>4, <2>2 DEF AddChecked, Become
<1>5. CASE AddSelect(r) /\ ~Ends(r)
  <2>1. /\ req[r] \in Adding /\ req[r].who \in Identities /\ req[r].sku \in Skus
        /\ req[r].quantity \in 1 .. MaxQuantity /\ req[r].stock \in 0 .. MaxStock
    BY <1>5, Phases DEF AddSelect, Adding
  <2>2. PICK i \in RowIds \cup {None} :
          /\ i # None => i \in Live
          /\ AddTotal(i, req[r].quantity) <= req[r].stock
          /\ req' = [req EXCEPT ![r] =
               [phase |-> "add", who |-> req[r].who, sku |-> req[r].sku, id |-> i,
                quantity |-> AddTotal(i, req[r].quantity)]]
    <3>1. PICK i \in IF MineOf(req[r].who, req[r].sku) = {} THEN {None}
                     ELSE MineOf(req[r].who, req[r].sku) :
            /\ ~(AddTotal(i, req[r].quantity) > req[r].stock)
            /\ Become(r, [phase |-> "add", who |-> req[r].who, sku |-> req[r].sku, id |-> i,
                          quantity |-> IF i = None THEN req[r].quantity
                                       ELSE table[i].quantity + req[r].quantity])
      BY <1>5 DEF AddSelect
    <3>2. i = None \/ (i \in Live /\ i \in RowIds)
      BY <3>1 DEF MineOf, Mine, UserRows, SessionRows, Live
    <3>3. AddTotal(i, req[r].quantity) \in Int
      BY <1>0, <2>1, <3>2 DEF AddTotal, TableOK, Live, Rows
    <3>4. AddTotal(i, req[r].quantity) <= req[r].stock
      BY <2>1, <3>1, <3>3
    <3>5. req' = [req EXCEPT ![r] =
            [phase |-> "add", who |-> req[r].who, sku |-> req[r].sku, id |-> i,
             quantity |-> AddTotal(i, req[r].quantity)]]
      BY <3>1 DEF AddTotal, Become
    <3> QED
      BY <3>2, <3>4, <3>5
  <2>3. AddTotal(i, req[r].quantity) \in 1 .. MaxStock
    <3>1. i # None => table[i].quantity \in 1 .. MaxStock
      BY <1>0, <2>2 DEF TableOK, Live, Rows
    <3> QED
      BY <2>1, <2>2, <3>1, CartAssumption DEF AddTotal
  <2>4. [phase |-> "add", who |-> req[r].who, sku |-> req[r].sku, id |-> i,
         quantity |-> AddTotal(i, req[r].quantity)] \in Working
    BY <2>1, <2>2, <2>3 DEF Working, Putting
  <2> QED
    BY <1>0, <2>2, <2>4
<1>6. CASE \/ WriteAdd(r) \/ WriteUpdate(r) \/ MergeCommit(r)
  BY <1>2, <1>6 DEF WriteAdd, WriteUpdate, MergeCommit
<1>7. ASSUME NEW who \in Identities, NEW sku \in Skus, NEW n \in 1 .. MaxQuantity,
             UpdateSelect(r, who, sku, n)
      PROVE  req' \in [Requests -> {Idle} \cup Working]
  <2>1. PICK i \in MineOf(who, sku) :
          Become(r, [phase |-> "ask", sku |-> sku, id |-> i, quantity |-> n,
                     same |-> n = table[i].quantity])
    BY <1>7 DEF UpdateSelect
  <2>2. i \in RowIds
    BY DEF MineOf, Mine, UserRows, SessionRows, Live
  <2>3. [phase |-> "ask", sku |-> sku, id |-> i, quantity |-> n,
         same |-> n = table[i].quantity] \in Working
    BY <2>2 DEF Working, Asking
  <2> QED
    BY <1>0, <2>1, <2>3 DEF Become
<1>8. CASE UpdateChecked(r) /\ ~Ends(r)
  <2>1. req[r] \in Asking /\ req[r].sku \in Skus /\ req[r].quantity \in 1 .. MaxQuantity
    BY <1>8, Phases DEF UpdateChecked, Asking
  <2>2. stock[req[r].sku] \in 0 .. MaxStock
    BY <2>1 DEF Typed
  <2>3. req[r].quantity \in 1 .. MaxStock
    BY <1>8, <2>1, <2>2, CartAssumption DEF UpdateChecked
  <2>4. [req[r] EXCEPT !.phase = "update"] \in Working
    BY <2>1, <2>3 DEF Working, Asking, Updating
  <2> QED
    BY <1>0, <1>8, <2>4 DEF UpdateChecked, Become
<1>9. ASSUME NEW who \in Merges, MergeSelectGuest(r, who)
      PROVE  req' \in [Requests -> {Idle} \cup Working]
  <2>1. [i \in SessionRows(who.session) |-> table[i]] \in Snapshots
    <3>1. SessionRows(who.session) \in SUBSET RowIds
      BY DEF SessionRows, Live
    <3>2. \A i \in SessionRows(who.session) : table[i] \in Rows
      BY <1>0 DEF SessionRows, Live, TableOK
    <3> QED
      BY <3>1, <3>2 DEF Snapshots
  <2>2. [phase |-> "guest", who |-> who,
         guest |-> [i \in SessionRows(who.session) |-> table[i]]] \in Working
    BY <2>1 DEF Working, HasGuest
  <2> QED
    BY <1>0, <1>9, <2>2 DEF MergeSelectGuest, Become
<1>10. CASE MergeSelectUser(r)
  <2> DEFINE rows == UserRows(req[r].who.user)
             read == [i \in rows |-> IF i \in DOMAIN req[r].guest THEN req[r].guest[i]
                                     ELSE table[i]]
  <2>1. req[r] \in HasGuest /\ req[r].who \in Merges /\ req[r].guest \in Snapshots
    BY <1>10, Phases DEF MergeSelectUser, HasGuest
  <2>2. rows \in SUBSET RowIds
    BY DEF UserRows, Live
  <2>3. \A i \in rows : read[i] \in Rows
    BY <1>0, <2>1, SnapshotIsRows DEF UserRows, Live, TableOK
  <2>4. read \in Snapshots
    BY <2>2, <2>3 DEF Snapshots
  <2>5. req' = [req EXCEPT ![r] = [phase |-> "merge", who |-> req[r].who,
                                   guest |-> req[r].guest, user |-> read]]
    BY <1>10 DEF MergeSelectUser, Become
  <2> HIDE DEF read
  <2>6. [phase |-> "merge", who |-> req[r].who, guest |-> req[r].guest, user |-> read]
          \in Working
    BY <2>1, <2>4 DEF Working, HasBoth
  <2> QED
    BY <1>0, <2>5, <2>6
<1> QED
  BY <1>2, <1>3, <1>4, <1>5, <1>6, <1>7, <1>8, <1>9, <1>10 DEF RequestStep

LEMMA DeliveryTyped ==
  ASSUME Typed, NEW d \in Deliveries, DeliveryStep(d) PROVE Typed'
<1>0. TableOK(table) /\ delivery \in [Deliveries -> {Idle} \cup Handling] /\ keys \subseteq Events
  BY DEF Typed
<1>1. ASSUME NEW new \in Handling, delivery' = [delivery EXCEPT ![d] = new],
             TableOK(table'), keys' = keys,
             UNCHANGED <<req, b2bVars, changes, crashes>>
      PROVE  Typed'
  BY <1>1 DEF Typed, b2bVars
<1>2. ASSUME NEW e \in Events, EventArrives(d, e) PROVE Typed'
  <2>1. SkusIn(e) \in SUBSET Skus
    BY CartAssumption DEF SkusIn, Body, Payload
  <2>2. Live \in SUBSET RowIds
    BY DEF Live
  <2>3. ProductOf(e) \in DOMAIN SkusOf \cup {None}
    BY CartAssumption DEF ProductOf, Body, Payload
  <2>5. [phase |-> FirstPhase(e), event |-> e, skus |-> SkusIn(e), present |-> Live]
          \in Handling
    BY <2>1, <2>2, <2>3 DEF FirstPhase, Handling
  <2>4. TableOK(table')
    BY <1>0, <1>2 DEF EventArrives, cartVars
  <2> QED
    BY <1>1, <1>2, <2>4, <2>5 DEF EventArrives, cartVars
<1>3. CASE EventResolved(d)
  <2>1. delivery[d] \in Handling
    BY <1>3, DeliveryPhases DEF EventResolved
  <2>2. PICK skus \in {{}, SkusOf[ProductOf(delivery[d].event)]} :
          delivery' = [delivery EXCEPT ![d] = [@ EXCEPT !.phase = "apply", !.skus = skus]]
    BY <1>3 DEF EventResolved
  <2>3. SkusIn(delivery[d].event) = {} /\ ProductOf(delivery[d].event) \in DOMAIN SkusOf
    BY <1>3, <2>1 DEF EventResolved, Handling
  <2>4. skus \in SUBSET Skus
    BY <2>2, <2>3, CartAssumption
  <2>5. [delivery[d] EXCEPT !.phase = "apply", !.skus = skus] \in Handling
    BY <2>1, <2>3, <2>4 DEF Handling
  <2> QED
    BY <1>0, <1>1, <1>3, <2>2, <2>5 DEF EventResolved, cartVars
<1>4. CASE EventApplied(d)
  <2>1. delivery[d] \in Handling
    BY <1>4, DeliveryPhases DEF EventApplied
  <2>2. [delivery[d] EXCEPT !.phase = "save"] \in Handling
    BY <2>1 DEF Handling
  <2> QED
    BY <1>1, <1>4, <2>2, EventAppliedTyped DEF EventApplied
<1>5. CASE EventSaved(d)
  <2>1. delivery[d] \in Handling /\ delivery[d].event \in Events
    BY <1>5, DeliveryPhases DEF EventSaved, Handling
  <2> QED
    BY <1>0, <1>5, <2>1 DEF EventSaved, Typed, cartVars, b2bVars
<1> QED
  BY <1>2, <1>3, <1>4, <1>5 DEF DeliveryStep

LEMMA TypedStep == Typed /\ [Next]_vars => Typed'
<1> SUFFICES ASSUME Typed, [Next]_vars PROVE Typed'
  OBVIOUS
<1>0. TableOK(table)
  BY DEF Typed
<1>1. ASSUME NEW r \in Requests, RequestStep(r) PROVE Typed'
  <2>1. Elsewhere
    BY <1>1 DEF RequestStep, AddAsked, UpdateSelect, AddChecked, AddSelect, WriteAdd,
               UpdateChecked, WriteUpdate, MergeSelectGuest, MergeSelectUser, MergeCommit
  <2>2. CASE WriteAdd(r) \/ WriteUpdate(r) \/ MergeCommit(r)
    <3>1. TableOK(table') /\ Ends(r)
      BY <2>2, WriteAddTyped, WriteUpdateTyped, MergeCommitTyped
         DEF WriteAdd, WriteUpdate, MergeCommit
    <3> QED
      BY <2>1, <3>1, CommitTyped
  <2>3. CASE ~(WriteAdd(r) \/ WriteUpdate(r) \/ MergeCommit(r))
    <3>1. table' = table
      BY <1>1, <2>3 DEF RequestStep, AddAsked, UpdateSelect, AddChecked, AddSelect,
                       UpdateChecked, MergeSelectGuest, MergeSelectUser
    <3>2. req' \in [Requests -> {Idle} \cup Working]
      BY <1>1, <3>1, RequestTyped
    <3> QED
      BY <1>0, <2>1, <3>1, <3>2 DEF Typed, Elsewhere, b2bVars, evVars
  <2> QED
    BY <2>2, <2>3
<1>2. ASSUME NEW gone, Without(gone), Elsewhere, UNCHANGED req PROVE Typed'
  <2>1. TableOK(table')
    BY <1>0, <1>2, WithoutOK
  <2> QED
    BY <1>2, <2>1 DEF Typed, Elsewhere, b2bVars, evVars
<1>3. ASSUME NEW who \in Identities, NEW sku \in Skus, DeleteItem(who, sku) PROVE Typed'
  <2>1. PICK gone : gone = MineOf(who, sku)
    OBVIOUS
  <2> QED
    BY <1>2, <1>3, <2>1 DEF DeleteItem
<1>4. ASSUME NEW who \in Identities, ClearCart(who) PROVE Typed'
  <2>1. PICK gone : gone = Mine(who)
    OBVIOUS
  <2> QED
    BY <1>2, <1>4, <2>1 DEF ClearCart
<1>5. ASSUME NEW d \in Deliveries, DeliveryStep(d) PROVE Typed'
  BY <1>5, DeliveryTyped
<1>6. CASE B2BChanges
  BY <1>0, <1>6, CartAssumption DEF B2BChanges, Typed, cartVars, evVars
<1>7. CASE Crash
  BY <1>0, <1>7, CartAssumption DEF Crash, Typed, b2bVars
<1>8. CASE UNCHANGED vars
  BY <1>0, <1>8 DEF vars, cartVars, b2bVars, evVars, Typed
<1> QED
  BY <1>1, <1>3, <1>4, <1>5, <1>6, <1>7, <1>8 DEF Next

-----------------------------------------------------------------------------
(* Rows keep their constraints, the unique indexes among them, whatever    *)
(* adds, updates, deletions, merges, events and restarts interleave.       *)
THEOREM TypeCorrect == Spec => []TypeOK
<1>1. Init => Typed
  BY TypedInit
<1>2. Typed /\ [Next]_vars => Typed'
  BY TypedStep
<1>3. Typed => TypeOK
  BY TypedIsTypeOK
<1> QED
  BY <1>1, <1>2, <1>3, PTL DEF Spec

(* What a step can do to a row: nothing, delete it, insert it in an unused *)
(* place, or write its quantity or its mark.  Its SKU never changes, its   *)
(* mark is never taken away, and only a merge gives it another owner.      *)
SameOwner(i)   == table'[i].user = table[i].user /\ table'[i].session = table[i].session
Transferred(i) == \E r \in Requests : /\ MergeCommit(r)
                                      /\ i \in DOMAIN req[r].guest
                                      /\ table'[i].user = req[r].who.user
                                      /\ table'[i].session = None
Inserted(i)    == /\ table[i] = Unused
                  /\ \E who \in Identities : /\ table'[i].user = who.user
                                             /\ table'[i].session = who.session
Rewritten(i)   == /\ i \in Live /\ i \in Live'
                  /\ table'[i].sku = table[i].sku
                  /\ table[i].reason # None => table'[i].reason # None
                  /\ SameOwner(i) \/ Transferred(i)
Change(i) == table'[i] = table[i] \/ table'[i] = Deleted \/ Inserted(i) \/ Rewritten(i)

LEMMA MergeChanges ==
  ASSUME Typed, NEW r \in Requests, MergeCommit(r), NEW k \in RowIds
  PROVE  Change(k)
<1> DEFINE m == req[r]
<1>1. TableOK(table) /\ m \in HasBoth
  BY Phases DEF MergeCommit, Typed
<1>2. m.who \in Merges /\ m.who.user \in Users /\ m.guest \in Snapshots
  BY <1>1, CartAssumption DEF HasBoth
<1>3. table' = table \/ table' = Merged(m)
  BY DEF MergeCommit, Stored
<1>4. CASE table' = table
  BY <1>4 DEF Change
<1>5. CASE table' = Merged(m)
  <2>1. CASE k \in Doubled(m)
    BY <1>1, <1>5, <2>1, MergedRow DEF Change
  <2>2. CASE k \notin Live /\ k \notin Doubled(m)
    BY <1>1, <1>5, <2>2, MergedRow DEF Change
  <2>3. CASE k \in Live /\ k \in DOMAIN m.guest /\ k \notin Doubled(m)
    <3>1. table[k] \in Rows
      BY <1>1, <2>3 DEF TableOK, Live
    <3>2. table'[k] = [table[k] EXCEPT !.user = m.who.user, !.session = None]
      BY <1>1, <1>5, <2>3, MergedRow
    <3>3. ASSUME NEW u \in Users, NEW x, x = [table[k] EXCEPT !.user = u, !.session = None]
          PROVE  /\ x \in Rows /\ x.user = u /\ x.session = None
                 /\ x.sku = table[k].sku /\ x.reason = table[k].reason
      BY <3>1, <3>3 DEF Rows
    <3>4. /\ table'[k] \in Rows /\ table'[k].user = m.who.user /\ table'[k].session = None
          /\ table'[k].sku = table[k].sku /\ table'[k].reason = table[k].reason
      BY <1>2, <3>2, <3>3
    <3>5. k \in Live'
      BY <3>4, RowsAreRows DEF Live
    <3> QED
      BY <2>3, <3>4, <3>5 DEF Change, Rewritten, Transferred
  <2>4. CASE k \in Live /\ k \notin DOMAIN m.guest
    <3> DEFINE larger == Larger(m.user[k].quantity,
                                m.guest[CHOOSE i \in Partners(m, k) : TRUE].quantity)
    <3>1. table[k] \in Rows
      BY <1>1, <2>4 DEF TableOK, Live
    <3>2. table'[k] = IF Partners(m, k) # {} /\ larger # m.user[k].quantity
                      THEN [table[k] EXCEPT !.quantity = larger]
                      ELSE table[k]
      BY <1>1, <1>5, <2>4, MergedRow
    <3>3. Partners(m, k) # {} => larger \in 1 .. MaxStock
      BY <1>1, PartnersRead, LargerOfTwo
    <3> HIDE DEF larger
    <3>4. /\ table'[k] \in Rows /\ table'[k].user = table[k].user
          /\ table'[k].session = table[k].session
          /\ table'[k].sku = table[k].sku /\ table'[k].reason = table[k].reason
      BY <3>1, <3>2, <3>3, RowWritten
    <3>5. k \in Live'
      BY <3>4, RowsAreRows DEF Live
    <3> QED
      BY <2>4, <3>4, <3>5 DEF Change, Rewritten, SameOwner
  <2> QED
    BY <2>1, <2>2, <2>3, <2>4 DEF Doubled
<1> QED
  BY <1>3, <1>4, <1>5

(* A write of the quantity, or of the mark, of one row.                    *)
LEMMA RowChanges ==
  ASSUME Typed, NEW i \in RowIds, NEW q \in 1 .. MaxStock, NEW reason \in Reasons,
         i \in Live,
         \/ table'[i] = [table[i] EXCEPT !.quantity = q]
         \/ table'[i] = [table[i] EXCEPT !.reason = reason]
  PROVE  Change(i)
<1>1. table[i] \in Rows
  BY DEF Typed, TableOK, Live
<1>2. /\ table'[i] \in Rows /\ table'[i].user = table[i].user
      /\ table'[i].session = table[i].session
      /\ table'[i].sku = table[i].sku
      /\ table[i].reason # None => table'[i].reason # None
  <2>1. CASE table'[i] = [table[i] EXCEPT !.quantity = q]
    BY <1>1, <2>1, RowWritten
  <2>2. CASE table'[i] = [table[i] EXCEPT !.reason = reason]
    BY <1>1, <2>2, RowWritten, ReasonsAreReasons
  <2> QED
    BY <2>1, <2>2
<1>3. i \in Live'
  BY <1>2, RowsAreRows DEF Live
<1> QED
  BY <1>2, <1>3 DEF Change, Rewritten, SameOwner

LEMMA RowsChange ==
  ASSUME Typed, [Next]_vars, NEW k \in RowIds
  PROVE  Change(k)
<1>0. TableOK(table)
  BY DEF Typed
<1>1. CASE table' = table
  BY <1>1 DEF Change
<1>2. ASSUME NEW r \in Requests, WriteAdd(r) PROVE Change(k)
  <2>1. /\ req[r] \in Putting /\ req[r].quantity \in 1 .. MaxStock /\ req[r].id \in RowIds \cup {None}
        /\ req[r].who \in Identities /\ Reasons # {}
    BY <1>2, Phases DEF WriteAdd, Putting, Reasons
  <2>2. CASE req[r].id # None
    <3>1. \/ table'[k] = table[k]
          \/ k \in Live /\ table'[k] = [table[k] EXCEPT !.quantity = req[r].quantity]
      BY <1>0, <1>2, <2>1, <2>2 DEF WriteAdd, Stored, Live, TableOK
    <3> QED
      BY <2>1, <3>1, RowChanges DEF Change
  <2>3. CASE req[r].id = None
    <3>1. PICK i \in RowIds :
            /\ table[i] = Unused
            /\ \/ table' = table
               \/ table' = [table EXCEPT ![i] =
                    [user |-> req[r].who.user, session |-> req[r].who.session,
                     sku |-> req[r].sku, quantity |-> req[r].quantity, reason |-> None]]
      BY <1>2, <2>3 DEF WriteAdd, Stored
    <3>2. CASE k = i
      BY <1>0, <2>1, <3>1, <3>2 DEF Change, Inserted, TableOK
    <3>3. CASE k # i
      BY <1>0, <3>1, <3>3 DEF Change, TableOK
    <3> QED
      BY <3>2, <3>3
  <2> QED
    BY <2>2, <2>3
<1>3. ASSUME NEW r \in Requests, WriteUpdate(r) PROVE Change(k)
  <2>1. /\ req[r] \in Updating /\ req[r].quantity \in 1 .. MaxStock /\ req[r].id \in RowIds
        /\ Reasons # {}
    BY <1>3, Phases DEF WriteUpdate, Updating, Reasons
  <2>2. \/ table'[k] = table[k]
        \/ k \in Live /\ table'[k] = [table[k] EXCEPT !.quantity = req[r].quantity]
    BY <1>0, <1>3, <2>1 DEF WriteUpdate, Stored, Live, TableOK
  <2> QED
    BY <2>1, <2>2, RowChanges DEF Change
<1>4. ASSUME NEW r \in Requests, MergeCommit(r) PROVE Change(k)
  BY <1>4, MergeChanges
<1>5. ASSUME NEW who \in Identities,
             ClearCart(who) \/ \E sku \in Skus : DeleteItem(who, sku)
      PROVE  Change(k)
  BY <1>5 DEF ClearCart, DeleteItem, Without, Change
<1>6. ASSUME NEW d \in Deliveries, EventApplied(d) PROVE Change(k)
  <2> DEFINE reason == ReasonOf(delivery[d].event)
  <2>1. reason \in Reasons \cup {None}
    BY DEF ReasonOf, Reasons
  <2>2. \/ table'[k] = table[k]
        \/ reason # None /\ k \in Live /\ table'[k] = [table[k] EXCEPT !.reason = reason]
    BY <1>6 DEF EventApplied
  <2> HIDE DEF reason
  <2>3. CASE table'[k] = table[k]
    BY <2>3 DEF Change
  <2>4. CASE reason # None /\ k \in Live /\ table'[k] = [table[k] EXCEPT !.reason = reason]
    <3>1. PICK q : q \in 1 .. MaxStock
      BY <1>0, <2>4 DEF TableOK, Live, Rows
    <3> QED
      BY <2>1, <2>4, <3>1, RowChanges
  <2> QED
    BY <2>2, <2>3, <2>4
<1> QED
  BY <1>1, <1>2, <1>3, <1>4, <1>5, <1>6
     DEF Next, RequestStep, AddAsked, UpdateSelect, AddChecked, AddSelect,
         UpdateChecked, MergeSelectGuest, MergeSelectUser, DeliveryStep, EventArrives,
         EventResolved, EventSaved, B2BChanges, Crash, vars, cartVars

(* The same for a row as it is after the step.                             *)
LEMMA LiveBefore ==
  ASSUME Typed, [Next]_vars, NEW k \in RowIds, k \in Live', table[k] # Unused
  PROVE  /\ k \in Live /\ table'[k].sku = table[k].sku
         /\ table[k].reason # None => table'[k].reason # None
         /\ SameOwner(k) \/ Transferred(k)
BY RowsChange DEF Change, Inserted, Rewritten, SameOwner, Live

LEMMA NeverUnused ==
  ASSUME Typed, [Next]_vars, NEW k \in RowIds, table[k] # Unused
  PROVE  table'[k] # Unused
<1>1. Deleted # Unused
  BY DEF Deleted, Unused
<1> QED
  BY <1>1, RowsChange DEF Change, Inserted, Rewritten, Live
-----------------------------------------------------------------------------
(* What requests hold of the table: the row an add or an update will write *)
(* is, if it is still there, one of the SKU that they checked, and the     *)
(* rows a merge read are still of the SKUs it read.                        *)
StillOf(f) == \A i \in DOMAIN f : /\ table[i] # Unused
                                  /\ i \in Live => table[i].sku = f[i].sku
Addressed ==
  \A r \in Requests :
    /\ req[r].phase \in {"add", "ask", "update"} /\ req[r].id # None =>
         /\ table[req[r].id] # Unused
         /\ req[r].id \in Live => table[req[r].id].sku = req[r].sku
    /\ req[r].phase \in {"guest", "merge"} => StillOf(req[r].guest)
    /\ req[r].phase = "merge" => StillOf(req[r].user)

(* While the B2B does not change, the stock covers what the carts hold and *)
(* whatever quantity a request has checked or read and has yet to write.   *)
Covers(f) == \A i \in DOMAIN f : f[i].quantity <= stock[f[i].sku]
WithinStock ==
  changes = 0 =>
    /\ \A i \in Live : table[i].quantity <= stock[table[i].sku]
    /\ \A r \in Requests :
         /\ req[r].phase \in {"product", "select"} => req[r].stock = stock[req[r].sku]
         /\ req[r].phase \in {"add", "update"} => req[r].quantity <= stock[req[r].sku]
         /\ req[r].phase \in {"guest", "merge"} => Covers(req[r].guest)
         /\ req[r].phase = "merge" => Covers(req[r].user)

(* A step leaves a request as it is, ends it, or is a step of that request *)
(* that reads and writes nothing.                                          *)
LEMMA RequestMoves ==
  ASSUME Typed, [Next]_vars, NEW r \in Requests
  PROVE  \/ req'[r] = req[r]
         \/ req'[r] = Idle
         \/ RequestStep(r) /\ UNCHANGED <<table, stock, changes>>
<1>0. req \in [Requests -> {Idle} \cup Working]
  BY DEF Typed
<1>1. ASSUME NEW q \in Requests, RequestStep(q), q # r PROVE req'[r] = req[r]
  BY <1>0, <1>1 DEF RequestStep, AddAsked, UpdateSelect, AddChecked, AddSelect, WriteAdd,
       UpdateChecked, WriteUpdate, MergeSelectGuest, MergeSelectUser, MergeCommit,
       Ends, Become
<1>2. ASSUME RequestStep(r)
      PROVE  req'[r] = Idle \/ UNCHANGED <<table, stock, changes>>
  BY <1>0, <1>2 DEF RequestStep, AddAsked, UpdateSelect, AddChecked, AddSelect, WriteAdd,
       UpdateChecked, WriteUpdate, MergeSelectGuest, MergeSelectUser, MergeCommit,
       Ends, Become, Elsewhere, b2bVars
<1>3. CASE Crash
  BY <1>3 DEF Crash
<1> QED
  BY <1>1, <1>2, <1>3
     DEF Next, DeleteItem, ClearCart, DeliveryStep, EventArrives, EventResolved,
         EventApplied, EventSaved, B2BChanges, vars, cartVars

LEMMA StillOfStays ==
  ASSUME Typed, [Next]_vars, NEW f \in Snapshots, StillOf(f)
  PROVE  \A i \in DOMAIN f : /\ table'[i] # Unused
                             /\ i \in Live' => table'[i].sku = f[i].sku
<1>1. DOMAIN f \in SUBSET RowIds
  BY SnapshotIsRows
<1> QED
  BY <1>1, NeverUnused, LiveBefore DEF StillOf

LEMMA AddressedStep == Typed /\ Addressed /\ [Next]_vars => Addressed'
<1> SUFFICES ASSUME Typed, Addressed, [Next]_vars, NEW r \in Requests
             PROVE  /\ req'[r].phase \in {"add", "ask", "update"} /\ req'[r].id # None =>
                         /\ table'[req'[r].id] # Unused
                         /\ req'[r].id \in Live' => table'[req'[r].id].sku = req'[r].sku
                    /\ req'[r].phase \in {"guest", "merge"} => StillOf(req[r].guest)'
                    /\ req'[r].phase = "merge" => StillOf(req[r].user)'
  BY DEF Addressed
<1>0. TableOK(table) /\ req \in [Requests -> {Idle} \cup Working]
  BY DEF Typed
<1>1. CASE req'[r] = req[r]
  <2>1. req[r].phase \in {"add", "ask", "update"} => req[r].id \in RowIds \cup {None}
    BY Phases DEF Putting, Asking, Updating
  <2>2. /\ req[r].phase \in {"guest", "merge"} => req[r].guest \in Snapshots
        /\ req[r].phase = "merge" => req[r].user \in Snapshots
    BY Phases DEF HasGuest, HasBoth
  <2>3. ASSUME req[r].phase \in {"add", "ask", "update"}, req[r].id # None
        PROVE  /\ table'[req[r].id] # Unused
               /\ req[r].id \in Live' => table'[req[r].id].sku = req[r].sku
    BY <2>1, <2>3, NeverUnused, LiveBefore DEF Addressed
  <2>4. ASSUME req[r].phase \in {"guest", "merge"} PROVE StillOf(req[r].guest)'
    BY <1>1, <2>2, <2>4, StillOfStays DEF Addressed, StillOf
  <2>5. ASSUME req[r].phase = "merge" PROVE StillOf(req[r].user)'
    BY <1>1, <2>2, <2>5, StillOfStays DEF Addressed, StillOf
  <2> QED
    BY <1>1, <2>3, <2>4, <2>5
<1>2. CASE req'[r] = Idle
  BY <1>2 DEF Idle
<1>3. CASE RequestStep(r) /\ UNCHANGED <<table, stock, changes>> /\ req'[r] # Idle
  <2>0. /\ table' = table /\ Live' = Live
        /\ \A i \in Live : i \in RowIds /\ table[i] # Unused
    BY <1>3 DEF Live
  <2>1. CASE \/ AddChecked(r)
             \/ \E who \in Identities, sku \in Skus, n \in 1 .. MaxQuantity :
                  AddAsked(r, who, sku, n)
    <3>1. req'[r].phase \in {"product", "select"}
      BY <1>0, <1>3, <2>1, Phases DEF AddAsked, AddChecked, Ends, Become, Adding
    <3> QED
      BY <3>1
  <2>2. CASE AddSelect(r)
    <3>1. PICK i \in IF MineOf(req[r].who, req[r].sku) = {} THEN {None}
                     ELSE MineOf(req[r].who, req[r].sku) :
            /\ req'[r].phase = "add" /\ req'[r].id = i /\ req'[r].sku = req[r].sku
      BY <1>0, <1>3, <2>2 DEF AddSelect, Ends, Become
    <3>2. i = None \/ (i \in Live /\ table[i].sku = req[r].sku)
      BY <3>1 DEF MineOf, Mine, UserRows, SessionRows
    <3> QED
      BY <2>0, <3>1, <3>2
  <2>3. ASSUME NEW who \in Identities, NEW sku \in Skus, NEW n \in 1 .. MaxQuantity,
               UpdateSelect(r, who, sku, n)
        PROVE  /\ req'[r].phase = "ask" /\ req'[r].id \in Live
               /\ table[req'[r].id].sku = req'[r].sku
    BY <1>0, <2>3 DEF UpdateSelect, Become, MineOf, Mine, UserRows, SessionRows
  <2>4. CASE UpdateChecked(r)
    <3>1. req[r] \in Asking
      BY <2>4, Phases DEF UpdateChecked
    <3>2. /\ req'[r].phase = "update" /\ req'[r].id = req[r].id /\ req'[r].sku = req[r].sku
      BY <1>0, <1>3, <2>4, <3>1 DEF UpdateChecked, Ends, Become, Asking
    <3> QED
      BY <2>0, <2>4, <3>2 DEF Addressed, UpdateChecked
  <2>5. ASSUME NEW who \in Merges, MergeSelectGuest(r, who)
        PROVE  /\ req'[r].phase = "guest"
               /\ req'[r].guest = [i \in SessionRows(who.session) |-> table[i]]
    BY <1>0, <2>5 DEF MergeSelectGuest, Become
  <2>6. CASE MergeSelectUser(r)
    <3> DEFINE rows == UserRows(req[r].who.user)
               read == [i \in rows |-> IF i \in DOMAIN req[r].guest
                                       THEN req[r].guest[i] ELSE table[i]]
    <3>1. /\ req'[r].phase = "merge" /\ req'[r].guest = req[r].guest /\ req'[r].user = read
      BY <1>0, <2>6 DEF MergeSelectUser, Become
    <3>2. StillOf(req[r].guest)
      BY <2>6 DEF Addressed, MergeSelectUser
    <3>3. StillOf(read)
      BY <2>0, <3>2 DEF StillOf, UserRows
    <3> HIDE DEF read
    <3> QED
      BY <2>0, <3>1, <3>2, <3>3 DEF StillOf
  <2>7. ~WriteAdd(r) /\ ~WriteUpdate(r) /\ ~MergeCommit(r)
    BY <1>0, <1>3 DEF WriteAdd, WriteUpdate, MergeCommit, Ends, Become
  <2>8. ASSUME NEW who \in Merges, MergeSelectGuest(r, who)
        PROVE  StillOf(req[r].guest)'
    BY <2>0, <2>5, <2>8 DEF StillOf, SessionRows
  <2> QED
    BY <1>3, <2>0, <2>1, <2>2, <2>3, <2>4, <2>5, <2>6, <2>7, <2>8 DEF RequestStep
<1> QED
  BY <1>1, <1>2, <1>3, RequestMoves

(* The quantity of every row that a step leaves was there before it or     *)
(* comes from the request that writes it.                                  *)
LEMMA MergedIsCovered ==
  ASSUME Typed, Addressed, NEW r \in Requests, MergeCommit(r), NEW k \in RowIds,
         \A i \in Live : table[i].quantity <= stock[table[i].sku],
         Covers(req[r].guest), Covers(req[r].user), k \in Live'
  PROVE  table'[k].quantity <= stock[table'[k].sku]
<1> DEFINE m == req[r]
<1>1. TableOK(table) /\ m \in HasBoth
  BY Phases DEF MergeCommit, Typed
<1>2. table' = table \/ table' = Merged(m)
  BY DEF MergeCommit, Stored
<1>3. CASE table'[k] = table[k]
  BY <1>3 DEF Live
<1>4. CASE table' = Merged(m) /\ table'[k] # table[k]
  <2>1. k \in Live /\ k \notin Doubled(m)
    BY <1>1, <1>4, MergedRow DEF Live
  <2>2. table[k] \in Rows
    BY <1>1, <2>1 DEF TableOK, Live
  <2>3. CASE k \in DOMAIN m.guest
    <3>1. table'[k] = [table[k] EXCEPT !.user = m.who.user, !.session = None]
      BY <1>1, <1>4, <2>1, <2>3, MergedRow
    <3>2. table'[k].quantity = table[k].quantity /\ table'[k].sku = table[k].sku
      BY <2>2, <3>1 DEF Rows
    <3> QED
      BY <2>1, <3>2
  <2>4. CASE k \notin DOMAIN m.guest
    <3> DEFINE i == CHOOSE j \in Partners(m, k) : TRUE
               larger == Larger(m.user[k].quantity, m.guest[i].quantity)
    <3>1. Partners(m, k) # {} /\ table'[k] = [table[k] EXCEPT !.quantity = larger]
      BY <1>1, <1>4, <2>1, <2>4, MergedRow
    <3>2. /\ i \in DOMAIN m.guest /\ k \in DOMAIN m.user
          /\ m.user[k].sku = m.guest[i].sku
          /\ m.user[k].quantity \in 1 .. MaxStock /\ m.guest[i].quantity \in 1 .. MaxStock
      BY <1>1, <3>1, PartnersRead
    <3> HIDE DEF i
    <3>3. larger \in {m.user[k].quantity, m.guest[i].quantity} /\ larger \in 1 .. MaxStock
      BY <3>2, LargerOfTwo
    <3>4. /\ m.user[k].quantity <= stock[m.user[k].sku]
          /\ m.guest[i].quantity <= stock[m.user[k].sku]
      BY <3>2 DEF Covers
    <3>5. table[k].sku = m.user[k].sku
      BY <2>1, <3>2 DEF Addressed, StillOf, MergeCommit
    <3> HIDE DEF larger
    <3>6. table'[k].quantity = larger /\ table'[k].sku = table[k].sku
      BY <2>2, <3>1, <3>3 DEF Rows
    <3> QED
      BY <3>3, <3>4, <3>5, <3>6
  <2> QED
    BY <2>3, <2>4
<1> QED
  BY <1>2, <1>3, <1>4

LEMMA WrittenIsCovered ==
  ASSUME Typed, Addressed, WithinStock, changes = 0, [Next]_vars, NEW k \in RowIds,
         k \in Live'
  PROVE  table'[k].quantity <= stock[table'[k].sku]
<1>0. TableOK(table)
  BY DEF Typed
<1>1. \A i \in Live : table[i].quantity <= stock[table[i].sku]
  BY DEF WithinStock
<1>2. CASE table'[k] = table[k]
  BY <1>1, <1>2 DEF Live
<1>3. ASSUME NEW r \in Requests, WriteAdd(r), table'[k] # table[k]
      PROVE  table'[k].quantity <= stock[table'[k].sku]
  <2>1. /\ req[r] \in Putting /\ req[r].quantity \in 1 .. MaxStock
        /\ req[r].id \in RowIds \cup {None}
        /\ req[r].quantity <= stock[req[r].sku]
    BY <1>3, Phases DEF WriteAdd, Putting, WithinStock
  <2>2. CASE req[r].id # None
    <3>1. k = req[r].id /\ k \in Live
      BY <1>0, <1>3, <2>1, <2>2 DEF WriteAdd, Stored, Live, TableOK
    <3>2. table'[k] = [table[k] EXCEPT !.quantity = req[r].quantity]
      BY <1>0, <1>3, <2>1, <2>2, <3>1 DEF WriteAdd, Stored, Live, TableOK
    <3>3. table[k] \in Rows /\ table[k].sku = req[r].sku
      BY <1>0, <1>3, <2>2, <3>1 DEF Addressed, WriteAdd, TableOK, Live
    <3>4. table'[k].quantity = req[r].quantity /\ table'[k].sku = table[k].sku
      BY <2>1, <3>2, <3>3 DEF Rows
    <3> QED
      BY <2>1, <3>3, <3>4
  <2>3. CASE req[r].id = None
    <3>1. PICK i \in RowIds :
            \/ table' = table
            \/ table' = [table EXCEPT ![i] =
                 [user |-> req[r].who.user, session |-> req[r].who.session,
                  sku |-> req[r].sku, quantity |-> req[r].quantity, reason |-> None]]
      BY <1>3, <2>3 DEF WriteAdd, Stored
    <3>2. table'[k].quantity = req[r].quantity /\ table'[k].sku = req[r].sku
      BY <1>0, <1>3, <3>1 DEF TableOK
    <3> QED
      BY <2>1, <3>2
  <2> QED
    BY <2>2, <2>3
<1>4. ASSUME NEW r \in Requests, WriteUpdate(r), table'[k] # table[k]
      PROVE  table'[k].quantity <= stock[table'[k].sku]
  <2>1. /\ req[r] \in Updating /\ req[r].quantity \in 1 .. MaxStock
        /\ req[r].id \in RowIds /\ req[r].id # None
        /\ req[r].quantity <= stock[req[r].sku]
    BY <1>4, Phases, CartAssumption DEF WriteUpdate, Updating, WithinStock
  <2>2. k = req[r].id /\ k \in Live
    BY <1>0, <1>4, <2>1 DEF WriteUpdate, Stored, Live, TableOK
  <2>3. table'[k] = [table[k] EXCEPT !.quantity = req[r].quantity]
    BY <1>0, <1>4, <2>1, <2>2 DEF WriteUpdate, Stored, Live, TableOK
  <2>4. table[k] \in Rows /\ table[k].sku = req[r].sku
    BY <1>0, <1>4, <2>1, <2>2 DEF Addressed, WriteUpdate, TableOK, Live
  <2>5. table'[k].quantity = req[r].quantity /\ table'[k].sku = table[k].sku
    BY <2>1, <2>3, <2>4 DEF Rows
  <2> QED
    BY <2>1, <2>4, <2>5
<1>5. ASSUME NEW r \in Requests, MergeCommit(r)
      PROVE  table'[k].quantity <= stock[table'[k].sku]
  <2>1. Covers(req[r].guest) /\ Covers(req[r].user)
    BY <1>5 DEF WithinStock, MergeCommit
  <2> QED
    BY <1>1, <1>5, <2>1, MergedIsCovered
<1>6. ASSUME NEW who \in Identities,
             ClearCart(who) \/ \E sku \in Skus : DeleteItem(who, sku)
      PROVE  table'[k] = table[k]
  BY <1>6 DEF ClearCart, DeleteItem, Without, Live
<1>7. ASSUME NEW d \in Deliveries, EventApplied(d), table'[k] # table[k]
      PROVE  table'[k].quantity <= stock[table'[k].sku]
  <2> DEFINE reason == ReasonOf(delivery[d].event)
  <2>1. k \in Live /\ table'[k] = [table[k] EXCEPT !.reason = reason]
    BY <1>7 DEF EventApplied
  <2> HIDE DEF reason
  <2>2. table[k] \in Rows
    BY <1>0, <2>1 DEF TableOK, Live
  <2>3. table'[k].quantity = table[k].quantity /\ table'[k].sku = table[k].sku
    BY <2>1, <2>2 DEF Rows
  <2> QED
    BY <1>1, <2>1, <2>3
<1> QED
  BY <1>2, <1>3, <1>4, <1>5, <1>6, <1>7
     DEF Next, RequestStep, AddAsked, UpdateSelect, AddChecked, AddSelect,
         UpdateChecked, MergeSelectGuest, MergeSelectUser, DeliveryStep, EventArrives,
         EventResolved, EventSaved, B2BChanges, Crash, vars, cartVars

LEMMA StockUnchanged ==
  ASSUME Typed, [Next]_vars, changes' = 0
  PROVE  changes = 0 /\ stock' = stock
<1>1. CASE UNCHANGED <<stock, changes>>
  BY <1>1
<1>2. ~B2BChanges
  BY DEF B2BChanges, Typed
<1> QED
  BY <1>1, <1>2
     DEF Next, RequestStep, AddAsked, UpdateSelect, AddChecked, AddSelect, WriteAdd,
         UpdateChecked, WriteUpdate, MergeSelectGuest, MergeSelectUser, MergeCommit,
         DeleteItem, ClearCart, Elsewhere, DeliveryStep, EventArrives, EventResolved,
         EventApplied, EventSaved, Crash, vars, b2bVars

LEMMA WithinStockStep == Typed /\ Addressed /\ WithinStock /\ [Next]_vars => WithinStock'
<1> SUFFICES ASSUME Typed, Addressed, WithinStock, [Next]_vars, changes' = 0
             PROVE  /\ \A i \in Live' : table'[i].quantity <= stock'[table'[i].sku]
                    /\ \A r \in Requests :
                         /\ req'[r].phase \in {"product", "select"} =>
                              req'[r].stock = stock'[req'[r].sku]
                         /\ req'[r].phase \in {"add", "update"} =>
                              req'[r].quantity <= stock'[req'[r].sku]
                         /\ req'[r].phase \in {"guest", "merge"} => Covers(req[r].guest)'
                         /\ req'[r].phase = "merge" => Covers(req[r].user)'
  BY DEF WithinStock
<1>0. changes = 0 /\ stock' = stock
  BY StockUnchanged
<1>1. TableOK(table) /\ req \in [Requests -> {Idle} \cup Working] /\ stock \in [Skus -> 0 .. MaxStock]
  BY DEF Typed
<1>2. \A i \in Live : table[i].quantity <= stock[table[i].sku]
  BY <1>0 DEF WithinStock
<1>3. \A i \in Live' : table'[i].quantity <= stock'[table'[i].sku]
  BY <1>0, WrittenIsCovered DEF Live
<1>4. ASSUME NEW r \in Requests
      PROVE  /\ req'[r].phase \in {"product", "select"} =>
                  req'[r].stock = stock[req'[r].sku]
             /\ req'[r].phase \in {"add", "update"} =>
                  req'[r].quantity <= stock[req'[r].sku]
             /\ req'[r].phase \in {"guest", "merge"} =>
                  \A i \in DOMAIN req'[r].guest :
                    req'[r].guest[i].quantity <= stock[req'[r].guest[i].sku]
             /\ req'[r].phase = "merge" =>
                  \A i \in DOMAIN req'[r].user :
                    req'[r].user[i].quantity <= stock[req'[r].user[i].sku]
  <2>1. CASE req'[r] = req[r]
    BY <1>0, <2>1 DEF WithinStock, Covers
  <2>2. CASE req'[r] = Idle
    BY <2>2 DEF Idle
  <2>3. CASE RequestStep(r) /\ UNCHANGED <<table, stock, changes>> /\ req'[r] # Idle
    <3>1. ASSUME NEW who \in Identities, NEW sku \in Skus, NEW n \in 1 .. MaxQuantity,
                 AddAsked(r, who, sku, n)
          PROVE  req'[r].phase = "product" /\ req'[r].stock = stock[req'[r].sku]
      BY <1>1, <3>1 DEF AddAsked, Become
    <3>2. CASE AddChecked(r)
      <4>1. req[r] \in Adding /\ req[r].stock = stock[req[r].sku]
        BY <1>0, <3>2, Phases DEF AddChecked, WithinStock
      <4>2. /\ req'[r].phase = "select" /\ req'[r].stock = req[r].stock
            /\ req'[r].sku = req[r].sku
        BY <1>1, <2>3, <3>2, <4>1 DEF AddChecked, Ends, Become, Adding
      <4> QED
        BY <4>1, <4>2
    <3>3. CASE AddSelect(r)
      <4>1. /\ req[r] \in Adding /\ req[r].stock = stock[req[r].sku]
            /\ req[r].quantity \in 1 .. MaxQuantity /\ req[r].stock \in 0 .. MaxStock
        BY <1>0, <3>3, Phases DEF AddSelect, WithinStock, Adding
      <4>2. PICK i \in IF MineOf(req[r].who, req[r].sku) = {} THEN {None}
                       ELSE MineOf(req[r].who, req[r].sku) :
              /\ ~(AddTotal(i, req[r].quantity) > req[r].stock)
              /\ req'[r].phase = "add" /\ req'[r].sku = req[r].sku
              /\ req'[r].quantity = AddTotal(i, req[r].quantity)
        BY <1>1, <2>3, <3>3 DEF AddSelect, AddTotal, Ends, Become
      <4>3. i = None \/ (i \in Live /\ table[i] \in Rows)
        BY <1>1, <4>2 DEF MineOf, Mine, UserRows, SessionRows, Live, TableOK
      <4>4. AddTotal(i, req[r].quantity) \in Int
        BY <4>1, <4>3 DEF AddTotal, Rows
      <4> QED
        BY <4>1, <4>2, <4>4, CartAssumption
    <3>4. ASSUME NEW who \in Identities, NEW sku \in Skus, NEW n \in 1 .. MaxQuantity,
                 UpdateSelect(r, who, sku, n)
          PROVE  req'[r].phase = "ask"
      BY <1>1, <3>4 DEF UpdateSelect, Become
    <3>5. CASE UpdateChecked(r)
      <4>1. req[r] \in Asking
        BY <3>5, Phases DEF UpdateChecked
      <4>2. /\ req'[r].phase = "update" /\ req'[r].sku = req[r].sku
            /\ req'[r].quantity = req[r].quantity /\ req[r].quantity <= stock[req[r].sku]
        BY <1>1, <2>3, <3>5, <4>1 DEF UpdateChecked, Ends, Become, Asking
      <4> QED
        BY <4>2
    <3>6. ASSUME NEW who \in Merges, MergeSelectGuest(r, who)
          PROVE  /\ req'[r].phase = "guest"
                 /\ \A i \in DOMAIN req'[r].guest :
                      req'[r].guest[i].quantity <= stock[req'[r].guest[i].sku]
      <4>1. /\ req'[r].phase = "guest"
            /\ req'[r].guest = [i \in SessionRows(who.session) |-> table[i]]
        BY <1>1, <3>6 DEF MergeSelectGuest, Become
      <4> QED
        BY <1>2, <4>1 DEF SessionRows
    <3>7. CASE MergeSelectUser(r)
      <4> DEFINE rows == UserRows(req[r].who.user)
                 read == [i \in rows |-> IF i \in DOMAIN req[r].guest
                                         THEN req[r].guest[i] ELSE table[i]]
      <4>1. /\ req'[r].phase = "merge" /\ req'[r].guest = req[r].guest
            /\ req'[r].user = read
        BY <1>1, <3>7 DEF MergeSelectUser, Become
      <4>2. Covers(req[r].guest)
        BY <1>0, <3>7 DEF WithinStock, MergeSelectUser
      <4>3. Covers(read)
        BY <1>2, <4>2 DEF Covers, UserRows
      <4> HIDE DEF read
      <4> QED
        BY <4>1, <4>2, <4>3 DEF Covers
    <3>8. ~WriteAdd(r) /\ ~WriteUpdate(r) /\ ~MergeCommit(r)
      BY <1>1, <2>3 DEF WriteAdd, WriteUpdate, MergeCommit, Ends, Become
    <3> QED
      BY <2>3, <3>1, <3>2, <3>3, <3>4, <3>5, <3>6, <3>7, <3>8 DEF RequestStep
  <2> QED
    BY <2>1, <2>2, <2>3, RequestMoves
<1> QED
  BY <1>0, <1>3, <1>4 DEF Covers

(* While the B2B does not change, no cart holds more of a SKU than there   *)
(* is, however many adds, updates and merges race: each write was checked  *)
(* against the stock of the SKU of the row it goes to, and a merge takes   *)
(* the larger of two quantities, not their sum.                            *)
THEOREM StockRespected == Spec => []StockIsRespected
<1> DEFINE Inv == Typed /\ Addressed /\ WithinStock
<1>1. Init => Inv
  <2>1. Init => Addressed /\ WithinStock
    BY DEF Init, Idle, Addressed, WithinStock, Live
  <2> QED
    BY <2>1, TypedInit
<1>2. Inv /\ [Next]_vars => Inv'
  BY TypedStep, AddressedStep, WithinStockStep
<1>3. Inv => StockIsRespected
  BY DEF WithinStock, StockIsRespected
<1> QED
  BY <1>1, <1>2, <1>3, PTL DEF Spec
-----------------------------------------------------------------------------
(* An event that blocks SKUs and names them in one place: in its body or   *)
(* its payload, with one type field or two that agree.                     *)
Plain(e) == /\ SkusIn(e) = Named(e) \ {None}
            /\ {e.event, e.event_type} \cap Blocking # {} => TypeOf(e) \in Blocking

(* From the UPDATE of an event until its key is stored, the rows that were *)
(* there when it arrived keep its mark: no row is inserted in the place of *)
(* one that was, and no write clears the column.                           *)
MarksStay ==
  \A d \in Deliveries : delivery[d] # Idle =>
    /\ \A i \in delivery[d].present : table[i] # Unused
    /\ delivery[d].phase = "save" /\ TypeOf(delivery[d].event) \in Blocking =>
         \A i \in delivery[d].present \cap Live :
           table[i].sku \in delivery[d].skus => table[i].reason # None

LEMMA MarksStayStep == Typed /\ MarksStay /\ [Next]_vars => MarksStay'
<1> SUFFICES ASSUME Typed, MarksStay, [Next]_vars,
                    NEW d \in Deliveries, delivery'[d] # Idle
             PROVE  /\ \A i \in delivery'[d].present : table'[i] # Unused
                    /\ delivery'[d].phase = "save" /\ TypeOf(delivery'[d].event) \in Blocking =>
                         \A i \in delivery'[d].present \cap Live' :
                           table'[i].sku \in delivery'[d].skus => table'[i].reason # None
  BY DEF MarksStay
<1>0. delivery \in [Deliveries -> {Idle} \cup Handling] /\ TableOK(table)
  BY DEF Typed
(* The delivery goes on as it was. *)
<1>1. CASE delivery'[d] = delivery[d]
  <2>1. delivery[d].present \in SUBSET RowIds
    BY <1>0, <1>1 DEF Handling
  <2>2. \A i \in delivery[d].present : table[i] # Unused /\ i \in RowIds
    BY <1>1, <2>1 DEF MarksStay
  <2>3. \A i \in delivery[d].present : table'[i] # Unused
    BY <2>2, NeverUnused
  <2>4. \A i \in delivery[d].present \cap Live' :
          /\ i \in Live /\ table'[i].sku = table[i].sku
          /\ table[i].reason # None => table'[i].reason # None
    BY <2>2, LiveBefore
  <2> QED
    BY <1>1, <2>3, <2>4 DEF MarksStay
<1>2. ASSUME NEW e \in Events, EventArrives(d, e)
      PROVE  /\ \A i \in delivery'[d].present : table'[i] # Unused
             /\ delivery'[d].phase # "save"
  BY <1>0, <1>2 DEF EventArrives, FirstPhase, Live, cartVars
<1>3. ASSUME EventResolved(d)
      PROVE  /\ \A i \in delivery'[d].present : table'[i] # Unused
             /\ delivery'[d].phase # "save"
  <2>1. delivery[d] \in Handling /\ delivery[d] # Idle
    BY <1>3, DeliveryPhases DEF EventResolved, Idle
  <2>2. delivery'[d].present = delivery[d].present /\ delivery'[d].phase = "apply"
    BY <1>0, <1>3, <2>1 DEF EventResolved, Handling
  <2> QED
    BY <1>3, <2>1, <2>2 DEF EventResolved, cartVars, MarksStay
<1>4. CASE EventApplied(d)
  <2>1. delivery[d] \in Handling /\ delivery[d] # Idle
    BY <1>4, DeliveryPhases DEF EventApplied, Idle
  <2>2. /\ delivery'[d].present = delivery[d].present /\ delivery'[d].skus = delivery[d].skus
        /\ delivery'[d].event = delivery[d].event /\ delivery[d].present \in SUBSET RowIds
    BY <1>0, <1>4, <2>1 DEF EventApplied, Handling
  <2>3. \A i \in delivery[d].present : table'[i] # Unused
    BY <2>1, <2>2, NeverUnused DEF MarksStay
  <2>4. ASSUME TypeOf(delivery[d].event) \in Blocking,
               NEW i \in delivery[d].present \cap Live', table'[i].sku \in delivery[d].skus
        PROVE  table'[i].reason # None
    <3>1. ReasonOf(delivery[d].event) \in Reasons /\ ReasonOf(delivery[d].event) # None
      BY <2>4, ReasonsAreReasons DEF ReasonOf, Blocking, Reasons
    <3>2. i \in Live /\ table'[i].sku = table[i].sku /\ i \in RowIds
      BY <2>1, <2>2, LiveBefore DEF MarksStay
    <3>3. table'[i] = [table[i] EXCEPT !.reason = ReasonOf(delivery[d].event)]
      BY <1>4, <2>4, <3>1, <3>2 DEF EventApplied
    <3>4. table[i] \in Rows
      BY <1>0, <3>2 DEF TableOK, Live
    <3> QED
      BY <3>1, <3>3, <3>4, RowWritten
  <2> QED
    BY <2>2, <2>3, <2>4
<1>5. ASSUME NEW c \in Deliveries, DeliveryStep(c), c # d PROVE delivery'[d] = delivery[d]
  BY <1>0, <1>5 DEF DeliveryStep, EventArrives, EventResolved, EventApplied, EventSaved
<1>6. ~EventSaved(d)
  BY <1>0 DEF EventSaved
<1>7. ~Crash
  BY DEF Crash
<1> QED
  BY <1>1, <1>2, <1>3, <1>4, <1>5, <1>6, <1>7
     DEF Next, RequestStep, AddAsked, UpdateSelect, AddChecked, AddSelect, WriteAdd,
         UpdateChecked, WriteUpdate, MergeSelectGuest, MergeSelectUser, MergeCommit,
         DeleteItem, ClearCart, Elsewhere, DeliveryStep, B2BChanges, vars, evVars

LEMMA MarksStayInit == Init => MarksStay
BY DEF Init, MarksStay

LEMMA SavedIsMarked ==
  ASSUME Typed, MarksStay, [Next]_vars, NEW e \in Events, Plain(e), e \in keys' \ keys
  PROVE  ~Unmarked(e)
<1>1. PICK d \in Deliveries : EventSaved(d) /\ delivery[d].event = e
  BY DEF Next, RequestStep, AddAsked, UpdateSelect, AddChecked, AddSelect, WriteAdd,
         UpdateChecked, WriteUpdate, MergeSelectGuest, MergeSelectUser, MergeCommit,
         DeleteItem, ClearCart, Elsewhere, DeliveryStep, EventArrives, EventResolved,
         EventApplied, EventSaved, B2BChanges, Crash, vars, evVars
<1>2. delivery[d] \in Handling /\ delivery[d] # Idle /\ delivery[d].phase = "save"
  BY <1>1, DeliveryPhases DEF EventSaved, Idle
<1>3. \A c \in Deliveries : delivery'[c] # delivery[c] => c = d
  BY <1>1 DEF EventSaved, Typed
<1>4. ASSUME {e.event, e.event_type} \cap Blocking # {},
             NEW i \in delivery[d].present \cap Live, table[i].sku \in Named(e)
      PROVE  table[i].reason # None
  <2>1. table[i].sku \in Skus
    BY DEF Typed, TableOK, Live, Rows
  <2>2. table[i].sku \in SkusIn(e)
    BY <1>4, <2>1, CartAssumption DEF Plain
  <2>3. delivery[d].skus = SkusIn(e)
    BY <1>1, <1>2, <2>2 DEF Handling
  <2>4. TypeOf(e) \in Blocking
    BY <1>4 DEF Plain
  <2> QED
    BY <1>1, <1>2, <2>2, <2>3, <2>4 DEF MarksStay
<1> QED
  BY <1>1, <1>2, <1>3, <1>4 DEF Unmarked

(* Once the key of an event is stored, the rows it names that were there   *)
(* when it arrived carry its mark, whatever adds, updates, merges and      *)
(* restarts ran meanwhile.  Without the hypothesis it is false: of a body  *)
(* with SKUs both beside and inside its payload only the former are read.  *)
THEOREM AcceptedAreMarked ==
  ASSUME \A e \in Events : Plain(e)
  PROVE  Spec => AcceptedIsMarked
<1>1. Init => Typed /\ MarksStay
  BY TypedInit, MarksStayInit
<1>2. Typed /\ MarksStay /\ [Next]_vars => (Typed /\ MarksStay)'
  BY TypedStep, MarksStayStep
<1>3. Typed /\ MarksStay /\ [Next]_vars => [\A e \in keys' \ keys : ~Unmarked(e)]_vars
  <2> SUFFICES ASSUME Typed, MarksStay, [Next]_vars, NEW e \in keys' \ keys
               PROVE  ~Unmarked(e)
    OBVIOUS
  <2>1. e \in Events
    BY TypedStep DEF Typed
  <2> QED
    BY <2>1, SavedIsMarked
<1> QED
  BY <1>1, <1>2, <1>3, PTL DEF Spec, AcceptedIsMarked
-----------------------------------------------------------------------------
(* Cart requests of a shop whose client sends one header at a time: the    *)
(* session until the buyer logs in, the token afterwards.                  *)
OneHeaderEach == \A who \in Identities : who.user = None \/ who.session = None

OneOwner == \A i \in Live : table[i].user = None \/ table[i].session = None

LEMMA OneOwnerStep ==
  ASSUME OneHeaderEach, Typed, OneOwner, [Next]_vars
  PROVE  OneOwner'
<1> SUFFICES ASSUME NEW i \in RowIds, i \in Live'
             PROVE  table'[i].user = None \/ table'[i].session = None
  BY DEF OneOwner, Live
<1>1. CASE table'[i] = table[i]
  BY <1>1 DEF OneOwner, Live
<1>2. CASE table'[i] # table[i]
  BY <1>2, RowsChange
     DEF OneHeaderEach, OneOwner, Change, Inserted, Rewritten, SameOwner, Transferred, Live
<1> QED
  BY <1>1, <1>2

(* What a running merge has read of the rows that still exist: the guest's *)
(* are still the guest's, the user's are still the user's, and no row is   *)
(* both; what else is written to them meanwhile is only quantity and mark. *)
GuestIsGuest ==
  \A r \in Requests : req[r].phase \in {"guest", "merge"} =>
    \A i \in DOMAIN req[r].guest :
      /\ table[i] # Unused
      /\ i \in Live => /\ table[i].user = None
                       /\ table[i].session = req[r].who.session
                       /\ table[i].sku = req[r].guest[i].sku
UserIsUser ==
  \A r \in Requests : req[r].phase = "merge" =>
    /\ DOMAIN req[r].guest \cap DOMAIN req[r].user = {}
    /\ \A i \in DOMAIN req[r].user :
         /\ table[i] # Unused
         /\ i \in Live => /\ table[i].user = req[r].who.user
                          /\ table[i].sku = req[r].user[i].sku

OneMerge == Cardinality(Merging) <= 1

LEMMA MergingAlone ==
  ASSUME OneMerge, NEW r \in Merging, NEW q \in Merging
  PROVE  r = q
<1>1. IsFiniteSet(Merging)
  BY CartAssumption, FS_Subset DEF Merging
<1>2. Cardinality(Merging) \in Nat
  BY <1>1, FS_CardinalityType
<1>3. CASE Cardinality(Merging) = 0
  BY <1>1, <1>3, FS_EmptySet
<1>4. CASE Cardinality(Merging) = 1
  BY <1>1, <1>4, FS_Singleton
<1> QED
  BY <1>2, <1>3, <1>4 DEF OneMerge

Reads == OneOwner /\ GuestIsGuest /\ UserIsUser

(* A merge that goes on while the rows change under it.                    *)
LEMMA ReadsKept ==
  ASSUME Typed, OneMerge, Reads, [Next]_vars, NEW q \in Requests,
         req'[q] = req[q], req[q].phase \in {"guest", "merge"},
         NEW k \in RowIds, table[k] # Unused
  PROVE  /\ table'[k] # Unused
         /\ k \in Live' => /\ k \in Live /\ table'[k].sku = table[k].sku
                           /\ SameOwner(k)
<1>1. ASSUME NEW r \in Requests, MergeCommit(r) PROVE FALSE
  <2>1. r \in Merging /\ q \in Merging
    BY <1>1 DEF MergeCommit, Merging
  <2>2. r = q
    BY <2>1, MergingAlone
  <2>3. req'[r] = Idle
    BY <1>1 DEF MergeCommit, Ends, Become, Typed
  <2> QED
    BY <2>2, <2>3 DEF Idle
<1>2. ~Transferred(k)
  BY <1>1 DEF Transferred
<1> QED
  BY <1>2, LiveBefore, NeverUnused

(* A request that merges after a step has merged before it, or selects.    *)
LEMMA MergeGoesOn ==
  ASSUME Typed, [Next]_vars, NEW q \in Requests, req'[q].phase \in {"guest", "merge"}
  PROVE  \/ req'[q] = req[q]
         \/ \E who \in Merges : MergeSelectGuest(q, who)
         \/ MergeSelectUser(q)
<1>0. req \in [Requests -> {Idle} \cup Working]
  BY DEF Typed
<1>1. ASSUME NEW r \in Requests, RequestStep(r), r # q PROVE req'[q] = req[q]
  BY <1>0, <1>1 DEF RequestStep, AddAsked, UpdateSelect, AddChecked, AddSelect, WriteAdd,
         UpdateChecked, WriteUpdate, MergeSelectGuest, MergeSelectUser, MergeCommit,
         Ends, Become
<1>2. ~Ends(q)
  BY <1>0 DEF Ends, Become, Idle
<1>3. ASSUME \/ \E who \in Identities, sku \in Skus, n \in 1 .. MaxQuantity :
                  AddAsked(q, who, sku, n) \/ UpdateSelect(q, who, sku, n)
             \/ AddChecked(q) \/ AddSelect(q) \/ UpdateChecked(q)
      PROVE  FALSE
  <2>1. ASSUME NEW new, Become(q, new) PROVE req'[q] = new
    BY <1>0, <2>1 DEF Become
  <2>2. CASE AddChecked(q)
    <3>1. req[q] \in Adding
      BY <2>2, Phases DEF AddChecked
    <3>2. [req[q] EXCEPT !.phase = "select"].phase = "select"
      BY <3>1 DEF Adding
    <3> QED
      BY <1>0, <1>2, <2>2, <3>2 DEF AddChecked, Become
  <2>3. CASE UpdateChecked(q)
    <3>1. req[q] \in Asking
      BY <2>3, Phases DEF UpdateChecked
    <3>2. [req[q] EXCEPT !.phase = "update"].phase = "update"
      BY <3>1 DEF Asking
    <3> QED
      BY <1>0, <1>2, <2>3, <3>2 DEF UpdateChecked, Become
  <2>4. CASE AddSelect(q)
    BY <1>0, <1>2, <2>4 DEF AddSelect, Become
  <2>5. ASSUME NEW who \in Identities, NEW sku \in Skus, NEW n \in 1 .. MaxQuantity,
               AddAsked(q, who, sku, n) \/ UpdateSelect(q, who, sku, n)
        PROVE  FALSE
    BY <1>0, <2>5 DEF AddAsked, UpdateSelect, Become
  <2> QED
    BY <1>3, <2>2, <2>3, <2>4, <2>5
<1>4. ~(WriteAdd(q) \/ WriteUpdate(q) \/ MergeCommit(q))
  BY <1>2 DEF WriteAdd, WriteUpdate, MergeCommit
<1>5. ~Crash
  BY DEF Crash, Idle
<1>6. CASE req' = req
  BY <1>6
<1>7. ASSUME RequestStep(q)
      PROVE  (\E who \in Merges : MergeSelectGuest(q, who)) \/ MergeSelectUser(q)
  BY <1>3, <1>4, <1>7 DEF RequestStep
<1> QED
  BY <1>1, <1>5, <1>6, <1>7
     DEF Next, DeleteItem, ClearCart, DeliveryStep, EventArrives, EventResolved,
         EventApplied, EventSaved, B2BChanges, vars, cartVars

LEMMA ReadsStep ==
  ASSUME OneHeaderEach, Typed, OneMerge, Reads, [Next]_vars
  PROVE  Reads'
<1>0. req \in [Requests -> {Idle} \cup Working] /\ TableOK(table)
  BY DEF Typed
<1>1. OneOwner'
  BY OneOwnerStep DEF Reads
<1>2. ASSUME NEW q \in Requests, NEW who \in Merges, MergeSelectGuest(q, who)
      PROVE  /\ req'[q].phase = "guest"
             /\ \A i \in DOMAIN req'[q].guest :
                  /\ table'[i] # Unused
                  /\ i \in Live' => /\ table'[i].user = None
                                    /\ table'[i].session = req'[q].who.session
                                    /\ table'[i].sku = req'[q].guest[i].sku
  <2>1. /\ req'[q] = [phase |-> "guest", who |-> who,
                      guest |-> [i \in SessionRows(who.session) |-> table[i]]]
        /\ table' = table
    BY <1>0, <1>2 DEF MergeSelectGuest, Become
  <2>2. who.session # None
    BY CartAssumption
  <2>3. \A i \in SessionRows(who.session) :
          /\ table[i] # Unused
          /\ table[i].session = who.session /\ table[i].user = None
    BY <2>2 DEF SessionRows, Live, Reads, OneOwner
  <2> QED
    BY <2>1, <2>3
<1>3. ASSUME NEW q \in Requests, MergeSelectUser(q)
      PROVE  /\ req'[q].phase = "merge"
             /\ req'[q].who = req[q].who /\ req'[q].guest = req[q].guest
             /\ req[q].phase = "guest" /\ table' = table
             /\ DOMAIN req'[q].guest \cap DOMAIN req'[q].user = {}
             /\ \A i \in DOMAIN req'[q].user :
                  /\ table'[i] # Unused
                  /\ i \in Live' => /\ table'[i].user = req'[q].who.user
                                    /\ table'[i].sku = req'[q].user[i].sku
  <2> DEFINE rows == UserRows(req[q].who.user)
             read == [i \in rows |-> IF i \in DOMAIN req[q].guest THEN req[q].guest[i]
                                     ELSE table[i]]
  <2>1. /\ req'[q] = [phase |-> "merge", who |-> req[q].who,
                      guest |-> req[q].guest, user |-> read]
        /\ table' = table /\ req[q].phase = "guest"
    BY <1>0, <1>3 DEF MergeSelectUser, Become
  <2>2. req[q] \in HasGuest /\ req[q].who \in Merges
    BY <2>1, Phases DEF HasGuest
  <2>3. req[q].who.user # None
    BY <2>2, CartAssumption
  <2>4. \A i \in rows : table[i].user = req[q].who.user /\ table[i] # Unused /\ i \in Live
    BY DEF UserRows, Live
  <2>5. \A i \in rows : i \notin DOMAIN req[q].guest
    BY <2>1, <2>3, <2>4 DEF Reads, GuestIsGuest
  <2>6. \A i \in rows : read[i] = table[i]
    BY <2>5
  <2>7. DOMAIN read = rows
    OBVIOUS
  <2> HIDE DEF read
  <2> QED
    BY <2>1, <2>4, <2>5, <2>6, <2>7
<1>4. GuestIsGuest'
  <2> SUFFICES ASSUME NEW q \in Requests, req'[q].phase \in {"guest", "merge"},
                      NEW i \in DOMAIN req'[q].guest
               PROVE  /\ table'[i] # Unused
                      /\ i \in Live' => /\ table'[i].user = None
                                        /\ table'[i].session = req'[q].who.session
                                        /\ table'[i].sku = req'[q].guest[i].sku
    BY DEF GuestIsGuest
  <2>1. CASE req'[q] = req[q]
    <3>1. i \in RowIds
      BY <2>1, Phases, SnapshotIsRows DEF HasGuest, HasBoth
    <3>2. /\ table[i] # Unused
          /\ i \in Live => /\ table[i].user = None
                           /\ table[i].session = req[q].who.session
                           /\ table[i].sku = req[q].guest[i].sku
      BY <2>1 DEF Reads, GuestIsGuest
    <3> QED
      BY <2>1, <3>1, <3>2, ReadsKept DEF SameOwner
  <2>2. CASE \E who \in Merges : MergeSelectGuest(q, who)
    BY <1>2, <2>2
  <2>3. CASE MergeSelectUser(q)
    BY <1>3, <2>3 DEF Reads, GuestIsGuest, Live
  <2> QED
    BY <2>1, <2>2, <2>3, MergeGoesOn
<1>5. UserIsUser'
  <2> SUFFICES ASSUME NEW q \in Requests, req'[q].phase = "merge"
               PROVE  /\ DOMAIN req'[q].guest \cap DOMAIN req'[q].user = {}
                      /\ \A i \in DOMAIN req'[q].user :
                           /\ table'[i] # Unused
                           /\ i \in Live' => /\ table'[i].user = req'[q].who.user
                                             /\ table'[i].sku = req'[q].user[i].sku
    BY DEF UserIsUser
  <2>1. CASE req'[q] = req[q]
    <3>1. DOMAIN req[q].user \in SUBSET RowIds
      BY <2>1, Phases, SnapshotIsRows DEF HasBoth
    <3>2. /\ DOMAIN req[q].guest \cap DOMAIN req[q].user = {}
          /\ \A i \in DOMAIN req[q].user :
               /\ table[i] # Unused
               /\ i \in Live => /\ table[i].user = req[q].who.user
                                /\ table[i].sku = req[q].user[i].sku
      BY <2>1 DEF Reads, UserIsUser
    <3> QED
      BY <2>1, <3>1, <3>2, ReadsKept DEF SameOwner
  <2>2. CASE \E who \in Merges : MergeSelectGuest(q, who)
    BY <1>2, <2>2
  <2>3. CASE MergeSelectUser(q)
    BY <1>3, <2>3
  <2> QED
    BY <2>1, <2>2, <2>3, MergeGoesOn
<1> QED
  BY <1>1, <1>4, <1>5 DEF Reads
-----------------------------------------------------------------------------
(* Only its commit, or a crash, ends a merge.                              *)
LEMMA EndingIsCommit ==
  ASSUME Typed, [Next]_vars, NEW r \in Requests, Ending(r, "merge")
  PROVE  MergeCommit(r)
<1>0. req[r].phase = "merge" /\ req'[r] = Idle /\ crashes' = crashes
  BY DEF Ending
<1>1. req[r] # Idle
  BY <1>0 DEF Idle
<1>2. ASSUME NEW q \in Requests, RequestStep(q), q # r PROVE req'[r] = req[r]
  BY <1>2 DEF RequestStep, AddAsked, UpdateSelect, AddChecked, AddSelect, WriteAdd,
         UpdateChecked, WriteUpdate, MergeSelectGuest, MergeSelectUser, MergeCommit,
         Ends, Become, Typed
<1>3. ASSUME RequestStep(r) PROVE MergeCommit(r)
  BY <1>0, <1>1, <1>3
     DEF RequestStep, AddAsked, UpdateSelect, AddChecked, AddSelect, WriteAdd,
         UpdateChecked, WriteUpdate, MergeSelectGuest, MergeSelectUser
<1>4. ~Crash
  BY <1>0 DEF Crash, Typed
<1> QED
  BY <1>0, <1>1, <1>2, <1>3, <1>4
     DEF Next, DeleteItem, ClearCart, DeliveryStep, EventArrives, EventResolved,
         EventApplied, EventSaved, B2BChanges, vars, cartVars

(* The rows of a merge that commits, after it: what it wrote about k.      *)
LEMMA MergedUser ==
  ASSUME Typed, NEW r \in Requests, MergeCommit(r), table' # table, NEW u \in Users,
         NEW k \in UserRows(u), k \notin DOMAIN req[r].guest
  PROVE  k \in UserRows(u)' /\ table'[k].sku = table[k].sku
<1> DEFINE m == req[r]
           larger == Larger(m.user[k].quantity,
                            m.guest[CHOOSE i \in Partners(m, k) : TRUE].quantity)
<1>1. TableOK(table) /\ m \in HasBoth
  BY Phases DEF MergeCommit, Typed
<1>2. table' = Merged(m)
  BY DEF MergeCommit, Stored
<1>3. k \in RowIds /\ k \in Live /\ table[k] \in Rows /\ table[k].user = u
  BY <1>1 DEF UserRows, Live, TableOK
<1>4. table'[k] = IF Partners(m, k) # {} /\ larger # m.user[k].quantity
                  THEN [table[k] EXCEPT !.quantity = larger]
                  ELSE table[k]
  BY <1>1, <1>2, <1>3, MergedRow
<1>5. Partners(m, k) # {} => larger \in 1 .. MaxStock
  BY <1>1, PartnersRead, LargerOfTwo
<1> HIDE DEF larger
<1>6. /\ table'[k] \in Rows /\ table'[k].user = table[k].user
      /\ table'[k].sku = table[k].sku
  BY <1>3, <1>4, <1>5, RowWritten
<1>7. k \in Live'
  BY <1>3, <1>6, RowsAreRows DEF Live
<1> QED
  BY <1>3, <1>6, <1>7 DEF UserRows

LEMMA MergeKeepsSkus ==
  ASSUME Typed, Reads, NEW r \in Requests, MergeCommit(r), NEW who \in Merges,
         req[r].who = who
  PROVE  InEither(who) \subseteq InEither(who)'
<1> DEFINE m == req[r]
<1>0. /\ TableOK(table) /\ m \in HasBoth /\ m.phase = "merge"
      /\ who.user # None /\ who.session # None /\ who.user \in Users
  BY Phases, CartAssumption DEF MergeCommit, Typed
<1>1. CASE table' = table
  BY <1>1 DEF InEither, UserRows, SessionRows, Live
<1>2. CASE table' # table
  <2>0. table' = Merged(m) /\ Touched(m) \subseteq Live
    BY <1>2 DEF MergeCommit, Stored
  <2>1. \A i \in DOMAIN m.guest : i \in Live => /\ table[i].user = None
                                                /\ table[i].sku = m.guest[i].sku
    BY <1>0 DEF Reads, GuestIsGuest
  <2>2. ASSUME NEW i \in UserRows(who.user) PROVE table[i].sku \in InEither(who)'
    <3>1. i \notin DOMAIN m.guest
      BY <1>0, <2>1 DEF UserRows
    <3>2. i \in UserRows(who.user)' /\ table'[i].sku = table[i].sku
      BY <1>0, <1>2, <3>1, MergedUser
    <3> QED
      BY <3>2 DEF InEither
  <2>3. ASSUME NEW i \in SessionRows(who.session) PROVE table[i].sku \in InEither(who)'
    <3>0. i \in RowIds /\ i \in Live /\ table[i] \in Rows /\ table[i].session = who.session
      BY <1>0 DEF SessionRows, Live, TableOK
    <3>1. CASE i \in Doubled(m)
      <4>1. PICK j \in Counterparts(m, i) : TRUE
        BY <3>1 DEF Doubled
      <4>2. j \in DOMAIN m.user /\ m.user[j].sku = m.guest[i].sku /\ i \in DOMAIN m.guest
        BY <3>1, <4>1 DEF Counterparts, Doubled
      <4>3. j \notin DOMAIN m.guest
        BY <1>0, <4>2 DEF Reads, UserIsUser
      <4>4. j \in Live
        BY <2>0, <3>1, <4>1, <4>3 DEF Touched, Doubled
      <4>5. table[j].user = who.user /\ table[j].sku = m.user[j].sku
        BY <1>0, <4>2, <4>4 DEF Reads, UserIsUser
      <4>6. j \in UserRows(who.user)
        BY <4>4, <4>5 DEF UserRows
      <4>7. table[j].sku = table[i].sku
        BY <2>1, <3>0, <4>2, <4>5
      <4> QED
        BY <2>2, <4>6, <4>7
    <3>2. CASE i \notin Doubled(m) /\ i \in DOMAIN m.guest
      <4>1. table'[i] = [table[i] EXCEPT !.user = who.user, !.session = None]
        BY <1>0, <2>0, <3>0, <3>2, MergedRow
      <4>2. who.user \in Users
        BY CartAssumption
      <4>3. /\ table'[i] \in Rows /\ table'[i].user = who.user
            /\ table'[i].sku = table[i].sku
        BY <3>0, <4>1, <4>2 DEF Rows
      <4>4. i \in UserRows(who.user)'
        BY <3>0, <4>3, RowsAreRows DEF UserRows, Live
      <4> QED
        BY <4>3, <4>4 DEF InEither
    <3>3. CASE i \notin DOMAIN m.guest
      <4> DEFINE larger == Larger(m.user[i].quantity,
                                  m.guest[CHOOSE j \in Partners(m, i) : TRUE].quantity)
      <4>1. table'[i] = IF Partners(m, i) # {} /\ larger # m.user[i].quantity
                        THEN [table[i] EXCEPT !.quantity = larger]
                        ELSE table[i]
        BY <1>0, <2>0, <3>0, <3>3, MergedRow
      <4>2. Partners(m, i) # {} => larger \in 1 .. MaxStock
        BY <1>0, PartnersRead, LargerOfTwo
      <4> HIDE DEF larger
      <4>3. /\ table'[i] \in Rows /\ table'[i].session = table[i].session
            /\ table'[i].sku = table[i].sku
        BY <3>0, <4>1, <4>2, RowWritten
      <4>4. i \in SessionRows(who.session)'
        BY <3>0, <4>3, RowsAreRows DEF SessionRows, Live
      <4> QED
        BY <4>3, <4>4 DEF InEither
    <3> QED
      BY <3>1, <3>2, <3>3
  <2> QED
    BY <2>2, <2>3 DEF InEither
<1> QED
  BY <1>1, <1>2

LEMMA MergesInit == Init => Typed /\ OneMerge /\ Reads
<1> SUFFICES ASSUME Init PROVE OneMerge /\ Reads
  BY TypedInit
<1>1. Merging = {}
  BY DEF Init, Merging, Idle
<1>2. OneMerge
  BY <1>1, FS_EmptySet DEF OneMerge
<1> QED
  BY <1>2 DEF Init, Reads, OneOwner, GuestIsGuest, UserIsUser, Live, Idle

(* While no other merge runs, a merge that ends leaves the buyer every SKU *)
(* of both carts as they are when it commits, whatever adds, updates,      *)
(* deletions and events changed since it read them.  A second merge        *)
(* breaks this (MergeLosesNothing is refuted for Spec), and so do rows     *)
(* stored under both headers, hence the hypothesis.                        *)
THEOREM OneMergeLosesNothing ==
  ASSUME OneHeaderEach
  PROVE  OneMergeSpec => MergeLosesNothing
<1> DEFINE Inv   == Typed /\ OneMerge /\ Reads
           Loses == \A r \in Requests, who \in Merges :
                      Ending(r, "merge") /\ req[r].who = who =>
                        InEither(who) \subseteq InEither(who)'
<1>1. Init => Inv
  BY MergesInit
<1>2. Inv /\ [Next /\ Cardinality(Merging') <= 1]_vars => Inv'
  <2> SUFFICES ASSUME Inv, [Next /\ Cardinality(Merging') <= 1]_vars PROVE Inv'
    OBVIOUS
  <2>1. [Next]_vars
    OBVIOUS
  <2>2. OneMerge'
    BY DEF OneMerge, Merging, vars, cartVars
  <2> QED
    BY <2>1, <2>2, TypedStep, ReadsStep
<1>3. Inv /\ [Next /\ Cardinality(Merging') <= 1]_vars => [Loses]_vars
  BY EndingIsCommit, MergeKeepsSkus
<1> QED
  BY <1>1, <1>2, <1>3, PTL DEF OneMergeSpec, MergeLosesNothing
-----------------------------------------------------------------------------
(* Two rows of one cart are not of one SKU.                                *)
LEMMA OneRowEach ==
  ASSUME TableOK(table), NEW i \in Live, NEW j \in Live, table[i].sku = table[j].sku,
         \/ table[i].user = table[j].user /\ table[i].user # None
         \/ table[i].session = table[j].session /\ table[i].session # None
  PROVE  i = j
BY DEF TableOK, Admissible, Live

(* What a merge that works on current copies is about: the two carts, no   *)
(* row in both.                                                            *)
LEMMA AsReadCarts ==
  ASSUME Typed, OneOwner, NEW m \in HasBoth, AsRead(m)
  PROVE  LET U == UserRows(m.who.user)
             G == SessionRows(m.who.session)
         IN  /\ m.who.user \in Users /\ m.who.user # None /\ m.who.session # None
             /\ DOMAIN m.user = U /\ DOMAIN m.guest = G
             /\ U \subseteq Live /\ G \subseteq Live /\ U \cap G = {}
             /\ \A i \in U : /\ table[i].user = m.who.user /\ m.user[i] = table[i]
             /\ \A i \in G : /\ table[i].session = m.who.session /\ table[i].user = None
                             /\ m.guest[i] = table[i]
             /\ \A i, j \in U : table[i].sku = table[j].sku => i = j
             /\ \A i, j \in G : table[i].sku = table[j].sku => i = j
             /\ Doubled(m) = {i \in G : \E j \in U : table[j].sku = table[i].sku}
             /\ \A k : Partners(m, k) = {i \in G : k \in U /\ table[k].sku = table[i].sku}
<1> DEFINE U == UserRows(m.who.user)
           G == SessionRows(m.who.session)
<1>1. m.who.user \in Users /\ m.who.user # None /\ m.who.session # None
  BY CartAssumption DEF HasBoth
<1>2. DOMAIN m.user = U /\ DOMAIN m.guest = G
  BY DEF AsRead
<1>3. U \subseteq Live /\ G \subseteq Live
  BY DEF UserRows, SessionRows
<1>4. \A i \in U : table[i].user = m.who.user /\ m.user[i] = table[i]
  BY DEF UserRows, AsRead
<1>5. \A i \in G : /\ table[i].session = m.who.session /\ table[i].user = None
                   /\ m.guest[i] = table[i]
  BY <1>1 DEF SessionRows, AsRead, OneOwner
<1>6. U \cap G = {}
  BY <1>1, <1>4, <1>5
<1>7. \A i, j \in U : table[i].sku = table[j].sku => i = j
  BY <1>1, <1>3, <1>4, OneRowEach DEF Typed
<1>8. \A i, j \in G : table[i].sku = table[j].sku => i = j
  BY <1>1, <1>3, <1>5, OneRowEach DEF Typed
<1> HIDE DEF U, G
<1>9. \A i \in G : Counterparts(m, i) = {j \in U : table[j].sku = table[i].sku}
  BY <1>2, <1>4, <1>5 DEF Counterparts
<1>10. Doubled(m) = {i \in G : \E j \in U : table[j].sku = table[i].sku}
  BY <1>2, <1>9 DEF Doubled
<1>11. \A k : Partners(m, k) = {i \in G : k \in U /\ table[k].sku = table[i].sku}
  BY <1>9, <1>10 DEF Partners
<1> QED
  BY <1>1, <1>2, <1>3, <1>4, <1>5, <1>6, <1>7, <1>8, <1>10, <1>11 DEF U, G

(* The table such a merge leaves: rows the user has too are gone, the other*)
(* rows of the guest are the user's, and the user's hold the larger of the *)
(* two quantities.                                                         *)
LEMMA AsReadMerged ==
  ASSUME Typed, OneOwner, NEW m \in HasBoth, AsRead(m), NEW k \in RowIds
  PROVE  LET U == UserRows(m.who.user)
             G == SessionRows(m.who.session)
             t == Merged(m)
         IN  /\ k \in Doubled(m) => t[k] = Deleted
             /\ k \notin Live => t[k] \in {Unused, Deleted}
             /\ k \in Live \ Doubled(m) =>
                  /\ t[k] \in Rows /\ t[k].sku = table[k].sku
                  /\ k \in G => /\ t[k].user = m.who.user /\ t[k].session = None
                                /\ t[k].quantity = table[k].quantity
                  /\ k \notin G => /\ t[k].user = table[k].user
                                   /\ t[k].session = table[k].session
             /\ k \in U => \A i \in G : table[i].sku = table[k].sku =>
                             t[k].quantity = Larger(table[k].quantity, table[i].quantity)
             /\ k \in U /\ (\A i \in G : table[i].sku # table[k].sku) =>
                  t[k].quantity = table[k].quantity
<1> DEFINE U == UserRows(m.who.user)
           G == SessionRows(m.who.session)
           t == Merged(m)
           p == CHOOSE i \in Partners(m, k) : TRUE
           larger == Larger(m.user[k].quantity, m.guest[p].quantity)
<1>0. /\ m.who.user \in Users /\ DOMAIN m.user = U /\ DOMAIN m.guest = G
      /\ U \subseteq Live /\ G \subseteq Live /\ U \cap G = {}
      /\ \A i \in U : m.user[i] = table[i]
      /\ \A i \in G : m.guest[i] = table[i]
      /\ \A i, j \in G : table[i].sku = table[j].sku => i = j
      /\ Doubled(m) \subseteq G
      /\ Partners(m, k) = {i \in G : k \in U /\ table[k].sku = table[i].sku}
  BY AsReadCarts
<1>1. TableOK(table) /\ (k \in Live => table[k] \in Rows)
  BY DEF Typed, TableOK, Live
<1>2. /\ k \in Doubled(m) => t[k] = Deleted
      /\ k \notin Live /\ k \notin Doubled(m) => t[k] = table[k]
      /\ k \in Live /\ k \in G /\ k \notin Doubled(m) =>
           t[k] = [table[k] EXCEPT !.user = m.who.user, !.session = None]
      /\ k \in Live /\ k \notin G =>
           t[k] = IF Partners(m, k) # {} /\ larger # m.user[k].quantity
                  THEN [table[k] EXCEPT !.quantity = larger] ELSE table[k]
  BY <1>0, <1>1, MergedRow
<1>3. k \notin Live => t[k] \in {Unused, Deleted}
  BY <1>1, <1>2 DEF Live, TableOK
<1>4. Partners(m, k) # {} => /\ larger \in 1 .. MaxStock
                             /\ p \in G /\ k \in U /\ table[k].sku = table[p].sku
                             /\ larger = Larger(table[k].quantity, table[p].quantity)
  BY <1>0, PartnersRead, LargerOfTwo
<1> HIDE DEF p, larger, U, G, t
<1>5. ASSUME k \in Live \ Doubled(m), k \in G
      PROVE  /\ t[k] \in Rows /\ t[k].sku = table[k].sku /\ t[k].user = m.who.user
             /\ t[k].session = None /\ t[k].quantity = table[k].quantity
  BY <1>0, <1>1, <1>2, <1>5 DEF Rows
<1>6. ASSUME k \in Live, k \notin G
      PROVE  /\ t[k] \in Rows /\ t[k].sku = table[k].sku /\ t[k].user = table[k].user
             /\ t[k].session = table[k].session
             /\ t[k].quantity = IF Partners(m, k) # {} THEN larger ELSE table[k].quantity
  <2>1. CASE Partners(m, k) # {} /\ larger # m.user[k].quantity
    <3>1. t[k] = [table[k] EXCEPT !.quantity = larger]
      BY <1>2, <1>6, <2>1
    <3>2. [table[k] EXCEPT !.quantity = larger].quantity = larger
      BY <1>1, <1>6 DEF Rows
    <3> QED
      BY <1>1, <1>4, <1>6, <2>1, <3>1, <3>2, RowWritten
  <2>2. CASE ~(Partners(m, k) # {} /\ larger # m.user[k].quantity)
    BY <1>0, <1>1, <1>2, <1>4, <1>6, <2>2
  <2> QED
    BY <2>1, <2>2
<1>7. ASSUME k \in U, NEW i \in G, table[i].sku = table[k].sku
      PROVE  t[k].quantity = Larger(table[k].quantity, table[i].quantity)
  <2>1. Partners(m, k) # {} /\ k \in Live /\ k \notin G
    BY <1>0, <1>7
  <2>2. p = i
    BY <1>0, <1>4, <1>7, <2>1
  <2> QED
    BY <1>4, <1>6, <2>1, <2>2
<1>8. ASSUME k \in U, \A i \in G : table[i].sku # table[k].sku
      PROVE  t[k].quantity = table[k].quantity
  <2>1. Partners(m, k) = {} /\ k \in Live /\ k \notin G
    BY <1>0, <1>8
  <2> QED
    BY <1>6, <2>1
<1> QED
  BY <1>0, <1>2, <1>3, <1>5, <1>6, <1>7, <1>8 DEF U, G, t

(* Such a merge does not run into the indexes.                             *)
LEMMA AsReadStored ==
  ASSUME Typed, OneOwner, NEW m \in HasBoth, AsRead(m)
  PROVE  Touched(m) \subseteq Live /\ Admissible(Merged(m))
<1> DEFINE U == UserRows(m.who.user)
           G == SessionRows(m.who.session)
           t == Merged(m)
<1>0. /\ m.who.user # None /\ DOMAIN m.user = U /\ DOMAIN m.guest = G
      /\ U \subseteq Live /\ G \subseteq Live
      /\ \A i, j \in G : table[i].sku = table[j].sku => i = j
      /\ Doubled(m) = {i \in G : \E j \in U : table[j].sku = table[i].sku}
  BY AsReadCarts
<1>1. Touched(m) \subseteq Live
  BY <1>0 DEF Touched, Counterparts
<1>2. TableOK(table)
  BY DEF Typed
<1>3. ASSUME NEW i \in RowIds, t[i] \notin {Unused, Deleted}
      PROVE  /\ i \in Live \ Doubled(m) /\ t[i].sku = table[i].sku
             /\ i \in G => t[i].user = m.who.user /\ t[i].session = None
             /\ i \notin G => t[i].user = table[i].user /\ t[i].session = table[i].session
  BY <1>3, AsReadMerged
<1>4. ASSUME NEW i \in RowIds, NEW j \in RowIds, i # j, t[i].sku = t[j].sku,
             t[i] \notin {Unused, Deleted}, t[j] \notin {Unused, Deleted}
      PROVE  ~(i \in G /\ j \in G)
  BY <1>0, <1>3, <1>4
<1>5. ASSUME NEW i \in RowIds, NEW j \in RowIds, t[i].sku = t[j].sku,
             t[i] \notin {Unused, Deleted}, t[j] \notin {Unused, Deleted},
             i \in G, j \notin G
      PROVE  t[j].user # t[i].user
  <2>1. t[j].user = m.who.user => j \in U
    BY <1>3, <1>5 DEF UserRows
  <2>2. j \notin U
    BY <1>0, <1>3, <1>5
  <2> QED
    BY <1>3, <1>5, <2>1, <2>2
<1>6. ASSUME NEW i \in RowIds, NEW j \in RowIds, i # j, t[i].sku = t[j].sku,
             t[i] \notin {Unused, Deleted}, t[j] \notin {Unused, Deleted},
             i \notin G, j \notin G
      PROVE  /\ t[i].user = t[j].user => t[i].user = None
             /\ t[i].session = t[j].session => t[i].session = None
  BY <1>2, <1>3, <1>6, OneRowEach
<1> HIDE DEF t, G, U
<1>7. Admissible(t)
  BY <1>3, <1>4, <1>5, <1>6 DEF Admissible
<1> QED
  BY <1>1, <1>7 DEF t

(* What a cart holds of a SKU, of which it has one row, or none.           *)
QuantityAt(t, rows, sku) == IF \E i \in rows : t[i].sku = sku
                            THEN t[CHOOSE i \in rows : t[i].sku = sku].quantity
                            ELSE 0

LEMMA QuantityOfRow ==
  ASSUME NEW t, NEW rows, NEW sku, NEW j \in rows, t[j].sku = sku,
         \A i \in rows : t[i].sku = sku => i = j
  PROVE  QuantityAt(t, rows, sku) = t[j].quantity
<1>1. (CHOOSE i \in rows : t[i].sku = sku) = j
  OBVIOUS
<1> QED
  BY <1>1 DEF QuantityAt

LEMMA QuantityOfNone ==
  ASSUME NEW t, NEW rows, NEW sku, \A i \in rows : t[i].sku # sku
  PROVE  QuantityAt(t, rows, sku) = 0
BY DEF QuantityAt

LEMMA AsReadTakesMax ==
  ASSUME Typed, OneOwner, NEW r \in Requests, MergeCommit(r), AsRead(req[r]),
         NEW who \in Merges, req[r].who = who
  PROVE  /\ SessionRows(who.session)' = {}
         /\ \A sku \in Skus :
              LET users  == QuantityIn(UserRows(who.user), sku)
                  guests == QuantityIn(SessionRows(who.session), sku)
              IN  QuantityIn(UserRows(who.user), sku)' =
                    IF users >= guests THEN users ELSE guests
<1> DEFINE m == req[r]
           U == UserRows(who.user)
           G == SessionRows(who.session)
           t == Merged(m)
<1>0. m \in HasBoth /\ TableOK(table)
  BY Phases DEF MergeCommit, Typed
<1>1. /\ who.user \in Users /\ who.user # None /\ who.session # None
      /\ U \subseteq Live /\ G \subseteq Live /\ U \cap G = {}
      /\ \A i \in U : table[i].user = who.user
      /\ \A i \in G : table[i].session = who.session
      /\ \A i, j \in U : table[i].sku = table[j].sku => i = j
      /\ \A i, j \in G : table[i].sku = table[j].sku => i = j
      /\ Doubled(m) = {i \in G : \E j \in U : table[j].sku = table[i].sku}
  BY <1>0, AsReadCarts
<1>2. table' = t
  BY <1>0, AsReadStored DEF MergeCommit, Stored
<1>3. ASSUME NEW k \in RowIds
      PROVE  /\ k \in Doubled(m) => t[k] = Deleted
             /\ k \notin Live => t[k] \in {Unused, Deleted}
             /\ k \in Live \ Doubled(m) =>
                  /\ t[k] \in Rows /\ t[k].sku = table[k].sku
                  /\ k \in G => /\ t[k].user = who.user /\ t[k].session = None
                                /\ t[k].quantity = table[k].quantity
                  /\ k \notin G => /\ t[k].user = table[k].user
                                   /\ t[k].session = table[k].session
             /\ k \in U => \A i \in G : table[i].sku = table[k].sku =>
                             t[k].quantity = Larger(table[k].quantity, table[i].quantity)
             /\ k \in U /\ (\A i \in G : table[i].sku # table[k].sku) =>
                  t[k].quantity = table[k].quantity
  BY <1>0, AsReadMerged
<1>4. SessionRows(who.session)' = {k \in Live' : t[k].session = who.session}
  BY <1>2 DEF SessionRows
<1>5. UserRows(who.user)' = {k \in Live' : t[k].user = who.user}
  BY <1>2 DEF UserRows
<1>6. Live' = {k \in RowIds : t[k] \notin {Unused, Deleted}}
  BY <1>2 DEF Live
<1>7. \A k \in Live : k \in RowIds /\ table[k].quantity \in 1 .. MaxStock
  BY <1>0 DEF Live, TableOK, Rows
<1>8. G = {k \in Live : table[k].session = who.session} /\ U = {k \in Live : table[k].user = who.user}
  BY DEF SessionRows, UserRows
<1>9. \A sku : /\ QuantityIn(U, sku) = QuantityAt(table, U, sku)
               /\ QuantityIn(G, sku) = QuantityAt(table, G, sku)
               /\ QuantityIn(U, sku)' = QuantityAt(t, U', sku)
  BY <1>2 DEF QuantityIn, QuantityAt
<1> DEFINE V == {k \in Live' : t[k].user = who.user}
<1>10. U' = V
  BY <1>5
<1> HIDE DEF t, U, G
<1>11. Live' = Live \ Doubled(m)
  BY <1>1, <1>3, <1>6, <1>7, RowsAreRows
<1>12. {k \in Live' : t[k].session = who.session} = {}
  BY <1>1, <1>3, <1>7, <1>8, <1>11
<1>13. V = U \cup (G \ Doubled(m))
  BY <1>1, <1>3, <1>7, <1>8, <1>11
<1> HIDE DEF V
<1>14. \A k \in V : t[k].sku = table[k].sku /\ k \in RowIds
  BY <1>1, <1>3, <1>7, <1>13
<1>15. ASSUME NEW sku \in Skus
       PROVE  LET users  == QuantityAt(table, U, sku)
                  guests == QuantityAt(table, G, sku)
              IN  QuantityAt(t, V, sku) = IF users >= guests THEN users ELSE guests
  <2>1. ASSUME NEW j \in U, table[j].sku = sku
        PROVE  /\ QuantityAt(table, U, sku) = table[j].quantity
               /\ QuantityAt(t, V, sku) = t[j].quantity
               /\ table[j].quantity \in 1 .. MaxStock /\ j \in RowIds
    <3>1. QuantityAt(table, U, sku) = table[j].quantity
      BY <1>1, <2>1, QuantityOfRow
    <3>2. j \in V /\ t[j].sku = sku /\ \A i \in V : t[i].sku = sku => i = j
      BY <1>1, <1>13, <1>14, <2>1
    <3>3. QuantityAt(t, V, sku) = t[j].quantity
      BY <3>2, QuantityOfRow
    <3> QED
      BY <1>1, <1>7, <3>1, <3>3
  <2>2. ASSUME NEW i \in G, table[i].sku = sku
        PROVE  /\ QuantityAt(table, G, sku) = table[i].quantity
               /\ table[i].quantity \in 1 .. MaxStock
    <3>0. \A k \in G : table[k].sku = sku => k = i
      BY <1>1, <2>2
    <3>1. QuantityAt(table, G, sku) = table[i].quantity
      BY <2>2, <3>0, QuantityOfRow
    <3> QED
      BY <1>1, <1>7, <3>1
  <2>3. CASE \E j \in U : table[j].sku = sku
    <3>1. PICK j \in U : table[j].sku = sku
      BY <2>3
    <3>2. CASE \E i \in G : table[i].sku = sku
      <4>1. PICK i \in G : table[i].sku = sku
        BY <3>2
      <4>2. t[j].quantity = Larger(table[j].quantity, table[i].quantity)
        BY <1>3, <2>1, <3>1, <4>1
      <4> QED
        BY <2>1, <2>2, <3>1, <4>1, <4>2, CartAssumption, LargerOfTwo
    <3>3. CASE \A i \in G : table[i].sku # sku
      <4>1. QuantityAt(table, G, sku) = 0
        BY <3>3, QuantityOfNone
      <4>2. t[j].quantity = table[j].quantity
        BY <1>3, <2>1, <3>1, <3>3
      <4> QED
        BY <2>1, <3>1, <4>1, <4>2, CartAssumption
    <3> QED
      BY <3>2, <3>3
  <2>4. CASE \A j \in U : table[j].sku # sku
    <3>1. QuantityAt(table, U, sku) = 0
      BY <2>4, QuantityOfNone
    <3>2. CASE \E i \in G : table[i].sku = sku
      <4>1. PICK i \in G : table[i].sku = sku
        BY <3>2
      <4>2. i \in Live \ Doubled(m) /\ i \in V
        BY <1>1, <1>13, <2>4, <4>1
      <4>3. t[i].sku = sku /\ t[i].quantity = table[i].quantity
        BY <1>3, <1>7, <4>1, <4>2
      <4>4. \A k \in V : t[k].sku = sku => k = i
        BY <1>1, <1>13, <1>14, <2>4, <4>1
      <4>5. QuantityAt(t, V, sku) = t[i].quantity
        BY <4>2, <4>3, <4>4, QuantityOfRow
      <4> QED
        BY <2>2, <3>1, <4>1, <4>3, <4>5, CartAssumption
    <3>3. CASE \A i \in G : table[i].sku # sku
      <4>1. QuantityAt(table, G, sku) = 0
        BY <3>3, QuantityOfNone
      <4>2. QuantityAt(t, V, sku) = 0
        BY <1>13, <1>14, <2>4, <3>3, QuantityOfNone
      <4> QED
        BY <3>1, <4>1, <4>2
    <3> QED
      BY <3>2, <3>3
  <2> QED
    BY <2>3, <2>4
<1> QED
  BY <1>4, <1>9, <1>10, <1>12, <1>15 DEF U, G

(* A merge that nobody disturbed empties the guest's cart and leaves, of   *)
(* every SKU, the larger of the two quantities, even when two merges run   *)
(* or the buyer's other requests come in between on other rows.  (A row    *)
(* stored under both headers would be its own counterpart and be deleted.) *)
THEOREM MergeLeavesTheLarger ==
  ASSUME OneHeaderEach
  PROVE  Spec => MergeTakesMax
<1> DEFINE Inv == Typed /\ OneOwner
           Takes ==
             \A r \in Requests, who \in Merges :
               Ending(r, "merge") /\ req[r].who = who /\ AsRead(req[r]) =>
                 /\ SessionRows(who.session)' = {}
                 /\ \A sku \in Skus :
                      LET users  == QuantityIn(UserRows(who.user), sku)
                          guests == QuantityIn(SessionRows(who.session), sku)
                      IN  QuantityIn(UserRows(who.user), sku)' =
                            IF users >= guests THEN users ELSE guests
<1>1. Init => Inv
  BY MergesInit DEF Reads
<1>2. Inv /\ [Next]_vars => Inv'
  BY TypedStep, OneOwnerStep
<1>3. Inv /\ [Next]_vars => [Takes]_vars
  BY EndingIsCommit, AsReadTakesMax
<1> QED
  BY <1>1, <1>2, <1>3, PTL DEF Spec, MergeTakesMax
===============================================================================

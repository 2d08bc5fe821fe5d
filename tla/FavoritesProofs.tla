--------------------------- MODULE FavoritesProofs --------------------------
(***************************************************************************)
(* Favorites for any users and products, any number of requests in flight  *)
(* and any bounds: the tables keep the constraints of the database, and    *)
(* with their requests they implement the one set of marks of ProductMarks.*)
(***************************************************************************)
EXTENDS Favorites, FiniteSetTheorems, FunctionTheorems, TLAPS

(* A request's row of tables t is there.                                   *)
There(k, t) == RowsOf(t[k.list], k.user, k.product) # {}

(* What a waiting request remembers of the moments since it was sent: it   *)
(* has seen what is there now, and what its phase stands for.  The answers *)
(* rest on it.                                                             *)
Remembers(k, t) ==
  /\ There(k, t) \in k.seen
  /\ k.phase = "insert" => FALSE \in k.seen
  /\ k.phase = "refresh" => TRUE \in k.seen /\ FALSE \in k.seen
  /\ k.phase = "delete" => k.row \in t[k.list] \/ FALSE \in k.seen
  /\ k.phase = "reply" => FALSE \in k.seen

Inv == TypeOK /\ \A r \in Requests : Waiting(r) => Remembers(req[r], tables)

(* What the columns of tables t satisfy whoever writes them.               *)
Stored(t) ==
  /\ t \in [Lists -> SUBSET Rows]
  /\ \A list \in Lists : \A row, other \in t[list] :
       row.user = other.user /\ row.product = other.product => row = other

(* A request waits exactly when it is a coroutine.                         *)
LEMMA WaitingIsCoroutine ==
  ASSUME TypeOK, NEW r \in Requests
  PROVE  /\ Waiting(r) <=> req[r] \in Coroutines
         /\ ~Waiting(r) <=> req[r] \in {Idle} \cup Answered
BY DEF TypeOK, Waiting, Idle, Answered, Coroutines

(* A step of one request that stores nothing.                              *)
LEMMA QuietStep ==
  ASSUME Inv, NEW r \in Requests, NEW k \in {Idle} \cup Answered \cup Coroutines,
         k \in Coroutines => Consistent(k) /\ Remembers(k, tables),
         Become(r, k), tables' = tables, onSale' = onSale, drawn' \in 0 .. MaxRows,
         toggles' = toggles
  PROVE  Inv'
<1>1. TypeOK'
  BY DEF Inv, TypeOK, Become, Waiting, Idle, Answered, Coroutines, Consistent
<1>2. ASSUME NEW q \in Requests, Waiting(q)'
      PROVE  Remembers(req[q], tables)'
  <2>1. CASE q = r
    <3>1. req'[q] = k
      BY <2>1 DEF Become, Inv, TypeOK
    <3>2. k \in Coroutines
      BY <3>1, <1>2 DEF Waiting, Idle, Answered
    <3> QED
      BY <3>1, <3>2 DEF Remembers, There
  <2>2. CASE q # r
    <3>1. req'[q] = req[q]
      BY <2>2 DEF Become, Inv, TypeOK
    <3> QED
      BY <3>1, <1>2 DEF Remembers, There, Waiting, Inv
  <2> QED
    BY <2>1, <2>2
<1> QED
  BY <1>1, <1>2 DEF Inv

(* A request is answered.                                                  *)
LEMMA AnswerStep ==
  ASSUME Inv, NEW r \in Requests, NEW status \in Statuses, Answer(r, status),
         tables' = tables, onSale' = onSale, drawn' = drawn, toggles' = toggles
  PROVE  Inv'
<1>1. [phase |-> "answered", status |-> status] \in Answered \ Coroutines
  BY DEF Answered, Coroutines
<1>2. Become(r, [phase |-> "answered", status |-> status])
  BY DEF Answer
<1>3. drawn' \in 0 .. MaxRows
  BY DEF Inv, TypeOK
<1> QED
  BY <1>1, <1>2, <1>3, QuietStep

(* What every coroutine sees of a COMMIT, and what the one that commits    *)
(* goes on with.                                                           *)
LEMMA CommitSeen ==
  ASSUME TypeOK, NEW r \in Requests, Waiting(r), NEW t,
         NEW phase \in {"refresh", "reply"}, Commit(r, t, phase), NEW q \in Requests
  PROVE  /\ ~Waiting(q) => req'[q] = req[q]
         /\ Waiting(q) =>
              /\ req'[q] \in Coroutines
              /\ req'[q].phase = IF q = r THEN phase ELSE req[q].phase
              /\ req'[q].list = req[q].list
              /\ req'[q].sets = req[q].sets
              /\ req'[q].user = req[q].user
              /\ req'[q].product = req[q].product
              /\ req'[q].row = req[q].row
              /\ req'[q].seen = req[q].seen \cup {There(req[q], t)}
<1>1. req'[q] = IF ~Waiting(q) THEN req[q]
                ELSE Seeing(IF q = r THEN [req[q] EXCEPT !.phase = phase] ELSE req[q], t)
  BY DEF Commit
<1>2. CASE ~Waiting(q)
  BY <1>1, <1>2
<1>3. CASE Waiting(q)
  <2> DEFINE k == IF q = r THEN [req[q] EXCEPT !.phase = phase] ELSE req[q]
  <2>1. req[q] \in Coroutines
    BY <1>3, WaitingIsCoroutine
  <2>2. /\ k \in Coroutines
        /\ k.phase = IF q = r THEN phase ELSE req[q].phase
        /\ k.list = req[q].list /\ k.sets = req[q].sets /\ k.user = req[q].user
        /\ k.product = req[q].product /\ k.row = req[q].row /\ k.seen = req[q].seen
    BY <2>1 DEF Coroutines
  <2>3. There(k, t) = There(req[q], t) /\ There(k, t) \in BOOLEAN
    BY <2>2 DEF There
  <2>4. req'[q] = [k EXCEPT !.seen = @ \cup {There(k, t)}]
    BY <1>1, <1>3 DEF Seeing, There
  <2> HIDE DEF k
  <2> QED
    BY <1>3, <2>2, <2>3, <2>4 DEF Coroutines
<1> QED
  BY <1>2, <1>3

(* What a coroutine remembers, it remembers after a COMMIT, if its row is  *)
(* still there or it has seen that it is not.                              *)
LEMMA RemembersLater ==
  ASSUME NEW old \in Coroutines, NEW new \in Coroutines, NEW t, NEW u,
         new.list = old.list, new.user = old.user, new.product = old.product,
         new.row = old.row, new.seen = old.seen \cup {There(old, t)},
         \/ /\ new.phase = old.phase
            /\ Remembers(old, u)
            /\ old.phase = "delete" /\ old.row \in u[old.list] =>
                 old.row \in t[old.list] \/ ~There(old, t)
         \/ new.phase = "refresh" /\ FALSE \in old.seen /\ There(old, t)
         \/ new.phase = "reply" /\ (FALSE \in old.seen \/ ~There(old, t))
  PROVE  Remembers(new, t)
<1> DEFINE there == There(old, t)
<1>1. there \in BOOLEAN /\ There(new, t) = there
  BY DEF There
<1>2. there \in new.seen /\ old.seen \subseteq new.seen
  OBVIOUS
<1>3. There(new, t) \in new.seen
  BY <1>1, <1>2
<1>4. (there => TRUE \in new.seen) /\ (~there => FALSE \in new.seen)
  <2>1. CASE there
    BY <2>1, <1>1, <1>2
  <2>2. CASE ~there
    <3>1. there = FALSE
      BY <2>2, <1>1
    <3> QED
      BY <2>2, <3>1, <1>2
  <2> QED
    BY <2>1, <2>2
<1> HIDE DEF there
<1>5. CASE new.phase = "refresh" /\ FALSE \in old.seen /\ there
  BY <1>2, <1>3, <1>4, <1>5 DEF Remembers
<1>6. CASE new.phase = "reply" /\ (FALSE \in old.seen \/ ~there)
  BY <1>2, <1>3, <1>4, <1>6 DEF Remembers
<1>7. CASE /\ new.phase = old.phase
           /\ Remembers(old, u)
           /\ old.phase = "delete" /\ old.row \in u[old.list] =>
                old.row \in t[old.list] \/ ~there
  BY <1>2, <1>3, <1>4, <1>7 DEF Remembers
<1> QED
  BY <1>5, <1>6, <1>7 DEF there

(* A COMMIT keeps the invariant if it keeps the constraints of the tables, *)
(* takes away no row but the only one of its user and product, and has     *)
(* done what its phase stands for.                                         *)
LEMMA CommitStep ==
  ASSUME Inv, NEW r \in Requests, Waiting(r), NEW t,
         NEW phase \in {"refresh", "reply"}, Commit(r, t, phase), Stored(t),
         \A list \in Lists : \A row \in tables[list] :
           row \in t[list] \/ RowsOf(t[list], row.user, row.product) = {},
         req[r].row \in Rows, req[r].row.user = req[r].user,
         req[r].row.product = req[r].product,
         phase = "refresh" => req[r].sets /\ FALSE \in req[r].seen /\ There(req[r], t),
         phase = "reply" => ~req[r].sets /\ (FALSE \in req[r].seen \/ ~There(req[r], t)),
         onSale' = onSale, drawn' = drawn, toggles' = toggles
  PROVE  Inv'
<1>1. tables' = t
  BY DEF Commit
<1>2. ASSUME NEW q \in Requests
      PROVE  /\ ~Waiting(q) => req'[q] \in {Idle} \cup Answered
             /\ Waiting(q) => req'[q] \in Coroutines /\ Consistent(req'[q])
  <2>1. CASE ~Waiting(q)
    BY <2>1, CommitSeen, WaitingIsCoroutine DEF Inv
  <2>2. CASE Waiting(q)
    <3>1. Consistent(req[q])
      BY <2>2 DEF Inv, TypeOK
    <3>2. /\ req'[q] \in Coroutines
          /\ req'[q].phase = IF q = r THEN phase ELSE req[q].phase
          /\ req'[q].sets = req[q].sets /\ req'[q].user = req[q].user
          /\ req'[q].product = req[q].product /\ req'[q].row = req[q].row
      BY <2>2, CommitSeen DEF Inv
    <3>3. Consistent(req'[q])
      BY <3>1, <3>2 DEF Consistent
    <3> QED
      BY <2>2, <3>2, <3>3
  <2> QED
    BY <2>1, <2>2
<1>3. \A q \in Requests : Waiting(q)' => Waiting(q)
  BY <1>2 DEF Waiting, Idle, Answered
<1>4. TypeOK'
  <2>1. req' \in [Requests -> {Idle} \cup Answered \cup Coroutines]
    BY <1>2 DEF Commit
  <2> QED
    BY <1>1, <1>2, <1>3, <2>1 DEF Inv, TypeOK, Stored
<1>5. ASSUME NEW q \in Requests, Waiting(q)'
      PROVE  Remembers(req[q], tables)'
  <2>1. Waiting(q)
    BY <1>3, <1>5
  <2>2. /\ req[q] \in Coroutines /\ req'[q] \in Coroutines
        /\ req'[q].phase = IF q = r THEN phase ELSE req[q].phase
        /\ req'[q].list = req[q].list /\ req'[q].user = req[q].user
        /\ req'[q].product = req[q].product /\ req'[q].row = req[q].row
        /\ req'[q].seen = req[q].seen \cup {There(req[q], t)}
    BY <2>1, CommitSeen, WaitingIsCoroutine DEF Inv
  <2>3. Remembers(req[q], tables) /\ Consistent(req[q])
    BY <2>1 DEF Inv, TypeOK
  <2>4. ASSUME req[q].phase = "delete", req[q].row \in tables[req[q].list]
        PROVE  req[q].row \in t[req[q].list] \/ ~There(req[q], t)
    BY <2>2, <2>3, <2>4 DEF Consistent, Coroutines, There
  <2>5. Remembers(req'[q], t)
    <3>1. CASE q # r
      BY <3>1, <2>2, <2>3, <2>4, RemembersLater
    <3>2. CASE q = r
      <4>1. \/ /\ req'[q].phase = "refresh"
               /\ FALSE \in req[q].seen /\ There(req[q], t)
            \/ /\ req'[q].phase = "reply"
               /\ FALSE \in req[q].seen \/ ~There(req[q], t)
        BY <3>2, <2>2
      <4> HIDE DEF There, Remembers
      <4> QED
        BY <2>2, <4>1, RemembersLater
    <3> QED
      BY <3>1, <3>2
  <2> QED
    BY <1>1, <2>5 DEF Remembers, There
<1> QED
  BY <1>4, <1>5 DEF Inv
-----------------------------------------------------------------------------
(* A request arrives.                                                      *)
LEMMA AskedKeeps ==
  ASSUME Inv, NEW r \in Requests, NEW list \in Lists, NEW sets \in BOOLEAN,
         NEW user \in Users, NEW product \in Products, NEW events \in EventLists,
         Asked(r, list, sets, user, product, events)
  PROVE  Inv'
<1> DEFINE k == [list |-> list, sets |-> sets, user |-> user, product |-> product,
                 events |-> events, row |-> None,
                 phase |-> IF sets THEN "check" ELSE "select",
                 seen |-> {RowsOf(tables[list], user, product) # {}}]
<1>1. events \in SUBSET ValidEvents
  BY DEF Asked, NoEvents
<1>2. k \in Coroutines
  BY <1>1 DEF Coroutines
<1>3. Consistent(k) /\ Remembers(k, tables)
  BY DEF Consistent, Remembers, There
<1>4. /\ Become(r, k) /\ tables' = tables /\ onSale' = onSale
      /\ drawn' = drawn /\ toggles' = toggles
  BY DEF Asked, Elsewhere
<1>5. drawn' \in 0 .. MaxRows
  BY <1>4 DEF Inv, TypeOK
<1> HIDE DEF k
<1> QED
  BY <1>2, <1>3, <1>4, <1>5, QuietStep

(* The B2B has answered.                                                   *)
LEMMA CheckedKeeps ==
  ASSUME Inv, NEW r \in Requests, Checked(r)
  PROVE  Inv'
<1>1. tables' = tables /\ onSale' = onSale /\ drawn' = drawn /\ toggles' = toggles
  BY DEF Checked, Elsewhere
<1>2. CASE \E status \in {404, 503} : Answer(r, status)
  BY <1>1, <1>2, AnswerStep DEF Statuses
<1>3. CASE Goes(r, "select")
  <2> DEFINE k == [req[r] EXCEPT !.phase = "select"]
  <2>1. Waiting(r) /\ req[r].phase = "check"
    BY DEF Checked, Waiting
  <2>2. req[r] \in Coroutines /\ Remembers(req[r], tables)
    BY <2>1, WaitingIsCoroutine DEF Inv
  <2>3. /\ k \in Coroutines /\ k.phase = "select" /\ k.list = req[r].list
        /\ k.user = req[r].user /\ k.product = req[r].product /\ k.seen = req[r].seen
    BY <2>2 DEF Coroutines
  <2>4. Become(r, k)
    BY <1>3 DEF Goes
  <2>5. drawn' \in 0 .. MaxRows
    BY <1>1 DEF Inv, TypeOK
  <2> HIDE DEF k
  <2>6. Consistent(k) /\ Remembers(k, tables)
    BY <2>2, <2>3 DEF Consistent, Remembers, There
  <2> QED
    BY <1>1, <2>3, <2>4, <2>5, <2>6, QuietStep
<1> QED
  BY <1>2, <1>3 DEF Checked

(* The table has been read, and an INSERT or DELETE may follow.            *)
LEMMA SelectedKeeps ==
  ASSUME Inv, NEW r \in Requests, Selected(r)
  PROVE  Inv'
<1>1. tables' = tables /\ onSale' = onSale /\ toggles' = toggles
  BY DEF Selected, Elsewhere
<1>2. Waiting(r) /\ req[r].phase = "select"
  BY DEF Selected, Waiting
<1>3. req[r] \in Coroutines /\ Remembers(req[r], tables)
  BY <1>2, WaitingIsCoroutine DEF Inv
<1>4. CASE drawn' = drawn /\ \E status \in {200, 204, 409} : Answer(r, status)
  BY <1>1, <1>4, AnswerStep DEF Statuses
<1>5. CASE /\ ~req[r].sets /\ drawn' = drawn
           /\ \E row \in Found(r) : Become(r, [req[r] EXCEPT !.phase = "delete", !.row = row])
  <2>1. PICK row \in Found(r) : Become(r, [req[r] EXCEPT !.phase = "delete", !.row = row])
    BY <1>5
  <2> DEFINE k == [req[r] EXCEPT !.phase = "delete", !.row = row]
  <2>2. /\ row \in Rows /\ row \in tables[req[r].list]
        /\ row.user = req[r].user /\ row.product = req[r].product
    BY <1>3 DEF Found, RowsOf, Inv, TypeOK, Coroutines
  <2>3. /\ k \in Coroutines /\ k.phase = "delete" /\ k.row = row /\ k.list = req[r].list
        /\ k.sets = req[r].sets /\ k.user = req[r].user /\ k.product = req[r].product
        /\ k.seen = req[r].seen
    BY <1>3, <2>2 DEF Coroutines
  <2>4. drawn' \in 0 .. MaxRows
    BY <1>5 DEF Inv, TypeOK
  <2> HIDE DEF k
  <2>5. Consistent(k) /\ Remembers(k, tables)
    BY <1>3, <1>5, <2>2, <2>3 DEF Consistent, Remembers, There
  <2> QED
    BY <1>1, <2>1, <2>3, <2>4, <2>5, QuietStep DEF k
<1>6. CASE /\ Found(r) = {} /\ req[r].sets /\ drawn < MaxRows /\ drawn' = drawn + 1
           /\ Become(r, [req[r] EXCEPT !.phase = "insert",
                !.row = [at |-> drawn', user |-> req[r].user,
                         product |-> req[r].product, events |-> req[r].events]])
  <2> DEFINE row == [at |-> drawn', user |-> req[r].user,
                     product |-> req[r].product, events |-> req[r].events]
             k == [req[r] EXCEPT !.phase = "insert", !.row = row]
  <2>1. drawn' \in 1 .. MaxRows
    BY <1>6, FavoritesAssumption DEF Inv, TypeOK
  <2>2. row \in Rows /\ row.user = req[r].user /\ row.product = req[r].product
    BY <1>3, <2>1 DEF Rows, Coroutines
  <2> HIDE DEF row
  <2>3. /\ k \in Coroutines /\ k.phase = "insert" /\ k.row = row /\ k.list = req[r].list
        /\ k.sets = req[r].sets /\ k.user = req[r].user /\ k.product = req[r].product
        /\ k.seen = req[r].seen
    BY <1>3, <2>2 DEF Coroutines
  <2>4. FALSE \in req[r].seen
    <3>1. There(req[r], tables) = FALSE
      BY <1>6 DEF Found, There
    <3> QED
      BY <1>3, <3>1 DEF Remembers
  <2>5. drawn' \in 0 .. MaxRows
    BY <2>1
  <2>6. Become(r, k)
    BY <1>6 DEF row
  <2> HIDE DEF k
  <2>7. Consistent(k) /\ Remembers(k, tables)
    BY <1>3, <1>6, <2>2, <2>3, <2>4 DEF Consistent, Remembers, There
  <2> QED
    BY <1>1, <2>3, <2>5, <2>6, <2>7, QuietStep
<1> QED
  BY <1>4, <1>5, <1>6 DEF Selected

(* A coroutine past its SELECT, with its row.                              *)
LEMMA PastSelect ==
  ASSUME Inv, NEW r \in Requests, req[r].phase \in {"insert", "refresh", "delete", "reply"}
  PROVE  /\ Waiting(r) /\ req[r] \in Coroutines
         /\ Consistent(req[r]) /\ Remembers(req[r], tables)
         /\ req[r].row \in Rows
         /\ req[r].row.user = req[r].user /\ req[r].row.product = req[r].product
<1>1. Waiting(r)
  BY DEF Waiting
<1>2. Consistent(req[r]) /\ Remembers(req[r], tables)
  BY <1>1 DEF Inv, TypeOK
<1> QED
  BY <1>1, <1>2, WaitingIsCoroutine DEF Inv, Consistent

(* An INSERT that meets no row of its user and product.                    *)
LEMMA InsertStores ==
  ASSUME Inv, NEW r \in Requests, req[r].phase = "insert", Found(r) = {},
         NEW t, t = [tables EXCEPT ![req[r].list] = @ \cup {req[r].row}]
  PROVE  /\ Stored(t) /\ There(req[r], t)
         /\ \A list \in Lists : tables[list] \subseteq t[list]
<1>1. /\ req[r] \in Coroutines /\ req[r].row \in Rows
      /\ req[r].row.user = req[r].user /\ req[r].row.product = req[r].product
  BY PastSelect
<1>2. req[r].list \in Lists
  BY <1>1 DEF Coroutines
<1>3. \A row \in tables[req[r].list] :
        ~(row.user = req[r].user /\ row.product = req[r].product)
  BY DEF Found, RowsOf
<1>4. tables \in [Lists -> SUBSET Rows]
  BY DEF Inv, TypeOK
<1>5. t[req[r].list] = tables[req[r].list] \cup {req[r].row}
  BY <1>2, <1>4
<1>6. Stored(t)
  <2>1. t \in [Lists -> SUBSET Rows]
    BY <1>1, <1>2, <1>4
  <2>2. ASSUME NEW list \in Lists, NEW row \in t[list], NEW other \in t[list],
               row.user = other.user, row.product = other.product
        PROVE  row = other
    <3>1. CASE list # req[r].list
      BY <2>2, <3>1 DEF Inv, TypeOK
    <3>2. CASE list = req[r].list
      BY <2>2, <3>2, <1>1, <1>3, <1>5 DEF Inv, TypeOK
    <3> QED
      BY <3>1, <3>2
  <2> QED
    BY <2>1, <2>2 DEF Stored
<1>7. There(req[r], t)
  BY <1>1, <1>5 DEF There, RowsOf
<1> QED
  BY <1>4, <1>5, <1>6, <1>7

(* A DELETE by id.                                                         *)
LEMMA DeleteStores ==
  ASSUME Inv, NEW r \in Requests, req[r].phase = "delete",
         NEW t, t = [tables EXCEPT ![req[r].list] = @ \ {req[r].row}]
  PROVE  /\ Stored(t)
         /\ req[r].row \in tables[req[r].list] => ~There(req[r], t)
         /\ \A list \in Lists : \A row \in tables[list] :
              row \in t[list] \/ RowsOf(t[list], row.user, row.product) = {}
<1>1. /\ req[r] \in Coroutines /\ req[r].row \in Rows
      /\ req[r].row.user = req[r].user /\ req[r].row.product = req[r].product
  BY PastSelect
<1>2. req[r].list \in Lists /\ tables \in [Lists -> SUBSET Rows]
  BY <1>1 DEF Coroutines, Inv, TypeOK
<1>3. \A list \in Lists : \A row, other \in tables[list] :
        row.user = other.user /\ row.product = other.product => row = other
  BY DEF Inv, TypeOK
<1>4. \A list \in Lists :
        t[list] = IF list = req[r].list THEN tables[list] \ {req[r].row} ELSE tables[list]
  BY <1>2
<1>5. Stored(t)
  BY <1>2, <1>3, <1>4 DEF Stored
<1>6. ASSUME req[r].row \in tables[req[r].list]
      PROVE  RowsOf(t[req[r].list], req[r].user, req[r].product) = {}
  BY <1>1, <1>2, <1>3, <1>4, <1>6 DEF RowsOf
<1> QED
  BY <1>1, <1>2, <1>4, <1>5, <1>6 DEF There

(* An INSERT and its COMMIT, or the unique index.                          *)
LEMMA InsertedKeeps ==
  ASSUME Inv, NEW r \in Requests, Inserted(r)
  PROVE  Inv'
<1>1. /\ onSale' = onSale /\ drawn' = drawn /\ toggles' = toggles
      /\ req[r].phase = "insert"
  BY DEF Inserted
<1>2. CASE Found(r) # {}
  BY <1>1, <1>2, AnswerStep DEF Inserted, Statuses
<1>3. CASE Found(r) = {}
  <2> DEFINE t == [tables EXCEPT ![req[r].list] = @ \cup {req[r].row}]
  <2>1. Commit(r, t, "refresh")
    BY <1>3 DEF Inserted
  <2> HIDE DEF t
  <2>2. /\ Stored(t) /\ There(req[r], t)
        /\ \A list \in Lists : tables[list] \subseteq t[list]
    BY <1>1, <1>3, InsertStores DEF t
  <2>3. FALSE \in req[r].seen /\ req[r].sets
    BY <1>1, PastSelect DEF Remembers, Consistent
  <2> QED
    BY <1>1, <2>1, <2>2, <2>3, PastSelect, CommitStep
<1> QED
  BY <1>2, <1>3

(* A DELETE and its COMMIT.                                                *)
LEMMA DeletedKeeps ==
  ASSUME Inv, NEW r \in Requests, Deleted(r)
  PROVE  Inv'
<1> DEFINE t == [tables EXCEPT ![req[r].list] = @ \ {req[r].row}]
<1>1. /\ onSale' = onSale /\ drawn' = drawn /\ toggles' = toggles
      /\ req[r].phase = "delete" /\ Commit(r, t, "reply")
  BY DEF Deleted
<1> HIDE DEF t
<1>2. /\ Stored(t)
      /\ req[r].row \in tables[req[r].list] => ~There(req[r], t)
      /\ \A list \in Lists : \A row \in tables[list] :
           row \in t[list] \/ RowsOf(t[list], row.user, row.product) = {}
  BY <1>1, DeleteStores DEF t
<1>3. /\ ~req[r].sets
      /\ req[r].row \in tables[req[r].list] \/ FALSE \in req[r].seen
  BY <1>1, PastSelect DEF Remembers, Consistent
<1> QED
  BY <1>1, <1>2, <1>3, PastSelect, CommitStep

(* The invariant is inductive.                                             *)
LEMMA NextKeeps ==
  ASSUME Inv, [Next]_vars
  PROVE  Inv'
<1>1. ASSUME NEW r \in Requests, RequestStep(r)
      PROVE  Inv'
  <2>1. CASE Refreshed(r)
    BY <2>1, AnswerStep DEF Refreshed, Elsewhere, Statuses
  <2>2. CASE Replied(r)
    BY <2>2, AnswerStep DEF Replied, Elsewhere, Statuses
  <2>3. CASE Leaves(r)
    <3>1. Idle \notin Coroutines /\ drawn' \in 0 .. MaxRows
      BY <2>3 DEF Idle, Coroutines, Leaves, Elsewhere, Inv, TypeOK
    <3> QED
      BY <2>3, <3>1, QuietStep DEF Leaves, Elsewhere
  <2> QED
    BY <1>1, <2>1, <2>2, <2>3, AskedKeeps, CheckedKeeps, SelectedKeeps, InsertedKeeps,
       DeletedKeeps DEF RequestStep
<1>2. ASSUME UNCHANGED <<tables, req, drawn>>, onSale' \subseteq Products,
             toggles' \in 0 .. MaxToggles
      PROVE  Inv'
  BY <1>2 DEF Inv, TypeOK, Waiting, Remembers, There
<1>3. CASE ScanStep \/ UNCHANGED vars
  <2>1. UNCHANGED <<tables, req, drawn, onSale, toggles>>
    BY <1>3 DEF ScanStep, ScanStarts, PageSelected, PageAnswered, ScanEnds, vars
  <2>2. onSale' \subseteq Products /\ toggles' \in 0 .. MaxToggles
    BY <2>1 DEF Inv, TypeOK
  <2> QED
    BY <1>2, <2>1, <2>2
<1>4. ASSUME NEW product \in Products, Toggled(product)
      PROVE  Inv'
  <2>1. onSale' \subseteq Products
    BY <1>4 DEF Toggled, Inv, TypeOK
  <2>2. toggles' \in 0 .. MaxToggles
    BY <1>4, FavoritesAssumption DEF Toggled, Inv, TypeOK
  <2> QED
    BY <1>2, <1>4, <2>1, <2>2 DEF Toggled
<1> QED
  BY <1>1, <1>3, <1>4 DEF Next

(* Nothing is stored, and nobody waits.                                    *)
LEMMA InitInv == Init => Inv
BY FavoritesAssumption DEF Init, Inv, TypeOK, Lists, Idle, Waiting

(* The tables keep the constraints of the database, and every request in   *)
(* flight the row it is about, whatever races.                             *)
THEOREM TypeCorrect == Spec => []TypeOK
<1>1. Inv => TypeOK
  BY DEF Inv
<1> QED
  BY <1>1, InitInv, NextKeeps, PTL DEF Spec
-----------------------------------------------------------------------------
(* The refinement of ProductMarks.  A row is in a table exactly if its     *)
(* mark is set.                                                            *)
LEMMA MarkIsRow ==
  ASSUME NEW t, NEW k \in Coroutines
  PROVE  MarkOf(k.list, k) \in MarksIn(t) <=> There(k, t)
<1>1. k.list \in Lists
  BY DEF Coroutines
<1>2. ASSUME NEW row \in t[k.list], row.user = k.user, row.product = k.product
      PROVE  MarkOf(k.list, k) \in MarksIn(t)
  <2>1. MarkOf(k.list, k) \in {MarkOf(k.list, other) : other \in t[k.list]}
    BY <1>2 DEF MarkOf
  <2> QED
    BY <1>1, <2>1 DEF MarksIn
<1>3. ASSUME MarkOf(k.list, k) \in MarksIn(t)
      PROVE  \E row \in t[k.list] : row.user = k.user /\ row.product = k.product
  <2>1. PICK list \in Lists : \E row \in t[list] : MarkOf(k.list, k) = MarkOf(list, row)
    BY <1>3 DEF MarksIn
  <2> QED
    BY <2>1 DEF MarkOf
<1> QED
  BY <1>2, <1>3 DEF There, RowsOf

(* A coroutine is an open call.                                            *)
LEMMA CallOfCoroutine ==
  ASSUME NEW k \in Coroutines
  PROVE  CallOf(k) = [state |-> "open", mark |-> MarkOf(k.list, k), sets |-> k.sets,
                      acted |-> k.phase \in {"refresh", "reply"}, seen |-> k.seen]
BY DEF Coroutines, CallOf

(* The same, one field at a time.                                          *)
LEMMA OpenCall ==
  ASSUME NEW k \in Coroutines
  PROVE  /\ CallOf(k).state = "open" /\ CallOf(k).mark = MarkOf(k.list, k)
         /\ CallOf(k).sets = k.sets /\ CallOf(k).seen = k.seen
         /\ CallOf(k).acted = (k.phase \in {"refresh", "reply"})
<1> DEFINE acted == k.phase \in {"refresh", "reply"}
<1>1. CallOf(k) = [state |-> "open", mark |-> MarkOf(k.list, k), sets |-> k.sets,
                   acted |-> acted, seen |-> k.seen]
  BY CallOfCoroutine
<1> HIDE DEF acted
<1>2. CallOf(k).acted = acted
  BY <1>1
<1> QED
  BY <1>1, <1>2 DEF acted

(* Other requests are calls that are idle or answered.                     *)
LEMMA CallOfOthers ==
  /\ CallOf(Idle) = Abstract!Idle
  /\ \A k \in Answered : CallOf(k) = [state |-> "answered", said |-> Said(k.status)]
BY DEF CallOf, Idle, Abstract!Idle, Answered

(* A step of one request is a step of one call.                            *)
LEMMA OneCall ==
  ASSUME TypeOK, NEW r \in Requests, NEW k, Become(r, k)
  PROVE  [q \in Requests |-> CallOf(req[q])]' =
           [[q \in Requests |-> CallOf(req[q])] EXCEPT ![r] = CallOf(k)]
BY DEF TypeOK, Become

(* An answer that is true of what the request remembers.                   *)
LEMMA AnswerSays ==
  ASSUME Inv, NEW r \in Requests, Waiting(r), NEW status \in Statuses,
         Answer(r, status), tables' = tables,
         Abstract!Truthful(CallOf(req[r]), Said(status))
  PROVE  Abstract!Say(r)
<1> DEFINE k == [phase |-> "answered", status |-> status]
<1>1. Become(r, k) /\ k \in Answered
  BY DEF Answer, Answered
<1>2. CallOf(k) = [state |-> "answered", said |-> Said(status)]
  BY <1>1, CallOfOthers
<1>3. Said(status) \in Abstract!Answers
  BY DEF Said, Statuses, Abstract!Answers
<1>4. CallOf(req[r]).state = "open"
  BY WaitingIsCoroutine, CallOfCoroutine DEF Inv
<1>5. MarksIn(tables)' = MarksIn(tables)
  BY DEF MarksIn
<1> HIDE DEF k
<1> QED
  BY <1>1, <1>2, <1>3, <1>4, <1>5, OneCall DEF Abstract!Say, Abstract!Open, Inv

(* A COMMIT is the effect of one call, which all the others see.           *)
LEMMA CommitActs ==
  ASSUME Inv, NEW r \in Requests, Waiting(r), NEW t,
         NEW phase \in {"refresh", "reply"}, Commit(r, t, phase),
         req[r].phase \notin {"refresh", "reply"},
         IF req[r].sets
         THEN /\ MarkOf(req[r].list, req[r]) \notin MarksIn(tables)
              /\ MarksIn(t) = MarksIn(tables) \cup {MarkOf(req[r].list, req[r])}
         ELSE \/ MarksIn(t) = MarksIn(tables) \ {MarkOf(req[r].list, req[r])}
              \/ FALSE \in req[r].seen /\ MarksIn(t) = MarksIn(tables)
  PROVE  Abstract!Act(r)
<1> DEFINE call == [q \in Requests |-> CallOf(req[q])]
<1>1. MarksIn(tables)' = MarksIn(t)
  BY DEF Commit, MarksIn
<1>2. req[r] \in Coroutines
  BY WaitingIsCoroutine DEF Inv
<1>3. /\ CallOf(req[r]).state = "open" /\ ~CallOf(req[r]).acted
      /\ CallOf(req[r]).sets = req[r].sets /\ CallOf(req[r]).seen = req[r].seen
      /\ CallOf(req[r]).mark = MarkOf(req[r].list, req[r])
  <2> DEFINE acted == req[r].phase \in {"refresh", "reply"}
  <2>1. CallOf(req[r]) = [state |-> "open", mark |-> MarkOf(req[r].list, req[r]),
                          sets |-> req[r].sets, acted |-> acted, seen |-> req[r].seen]
    BY <1>2, CallOfCoroutine
  <2>2. acted = FALSE
    OBVIOUS
  <2> HIDE DEF acted
  <2> QED
    BY <2>1, <2>2
<1>4. ASSUME NEW q \in Requests
      PROVE  CallOf(req'[q]) =
               IF CallOf(req[q]).state = "open"
               THEN [state |-> "open", mark |-> CallOf(req[q]).mark,
                     sets |-> CallOf(req[q]).sets,
                     acted |-> CallOf(req[q]).acted \/ q = r,
                     seen |-> CallOf(req[q]).seen \cup {CallOf(req[q]).mark \in MarksIn(t)}]
               ELSE CallOf(req[q])
  <2>1. CASE Waiting(q)
    <3> DEFINE old == req[q]
               new == req'[q]
    <3>1. /\ old \in Coroutines /\ new \in Coroutines
          /\ new.phase = IF q = r THEN phase ELSE old.phase
          /\ new.list = old.list /\ new.sets = old.sets /\ new.user = old.user
          /\ new.product = old.product /\ new.seen = old.seen \cup {There(old, t)}
      BY <2>1, CommitSeen, WaitingIsCoroutine DEF Inv
    <3> HIDE DEF old, new
    <3>2. There(old, t) = (MarkOf(old.list, old) \in MarksIn(t))
      <4> DEFINE marked == MarkOf(old.list, old) \in MarksIn(t)
                 there == There(old, t)
      <4>1. old \in Coroutines
        BY <3>1
      <4>2. marked <=> there
        BY <4>1, MarkIsRow
      <4>3. marked \in BOOLEAN /\ there \in BOOLEAN
        BY DEF There
      <4> HIDE DEF marked, there
      <4>4. there = marked
        BY <4>2, <4>3
      <4> QED
        BY <4>4 DEF marked, there
    <3>3. MarkOf(new.list, new) = MarkOf(old.list, old)
      BY <3>1 DEF MarkOf
    <3>4. (new.phase \in {"refresh", "reply"}) =
            (old.phase \in {"refresh", "reply"} \/ q = r)
      BY <3>1
    <3>5. CallOf(new) = [state |-> "open", mark |-> MarkOf(old.list, old), sets |-> old.sets,
                         acted |-> old.phase \in {"refresh", "reply"} \/ q = r,
                         seen |-> old.seen \cup {MarkOf(old.list, old) \in MarksIn(t)}]
      BY <3>1, <3>2, <3>3, <3>4, CallOfCoroutine
    <3>6. CallOf(old) = [state |-> "open", mark |-> MarkOf(old.list, old), sets |-> old.sets,
                         acted |-> old.phase \in {"refresh", "reply"}, seen |-> old.seen]
      BY <3>1, CallOfCoroutine
    <3>7. /\ CallOf(old).mark = MarkOf(old.list, old) /\ CallOf(old).sets = old.sets
          /\ CallOf(old).acted = (old.phase \in {"refresh", "reply"})
          /\ CallOf(old).seen = old.seen
      BY <3>6
    <3>8. CallOf(old).state = "open"
      BY <3>6
    <3> QED
      BY <3>5, <3>7, <3>8 DEF old, new
  <2>2. CASE ~Waiting(q)
    <3>1. req'[q] = req[q] /\ req[q] \in {Idle} \cup Answered
      BY <2>2, CommitSeen, WaitingIsCoroutine DEF Inv
    <3>2. CallOf(req[q]).state # "open"
      BY <3>1, CallOfOthers DEF Abstract!Idle
    <3> QED
      BY <3>1, <3>2
  <2> QED
    BY <2>1, <2>2
<1> QED
  BY <1>1, <1>3, <1>4 DEF Abstract!Act, Abstract!Open


(* A step of a request that its call does not notice.                      *)
LEMMA Unnoticed ==
  ASSUME Inv, NEW r \in Requests, NEW k \in Coroutines, Become(r, k), tables' = tables,
         req[r] \in Coroutines,
         k.list = req[r].list, k.user = req[r].user, k.product = req[r].product,
         k.sets = req[r].sets, k.seen = req[r].seen,
         k.phase \notin {"refresh", "reply"}, req[r].phase \notin {"refresh", "reply"}
  PROVE  UNCHANGED Abstract!vars
<1>1. MarkOf(k.list, k) = MarkOf(req[r].list, req[r])
  BY DEF MarkOf
<1>2. CallOf(k) = CallOf(req[r])
  <2>1. (k.phase \in {"refresh", "reply"}) = (req[r].phase \in {"refresh", "reply"})
    OBVIOUS
  <2> QED
    BY <1>1, <2>1, CallOfCoroutine
<1>3. [q \in Requests |-> CallOf(req[q])]' = [q \in Requests |-> CallOf(req[q])]
  <2>1. \A q \in Requests : req'[q] = IF q = r THEN k ELSE req[q]
    BY DEF Become, Inv, TypeOK
  <2> QED
    BY <1>2, <2>1
<1>4. MarksIn(tables)' = MarksIn(tables)
  BY DEF MarksIn
<1> QED
  BY <1>3, <1>4 DEF Abstract!vars

(* Every mark is that of a row.                                            *)
LEMMA MarksOfRows ==
  ASSUME NEW t, NEW m
  PROVE  m \in MarksIn(t) <=> \E list \in Lists : \E row \in t[list] : m = MarkOf(list, row)
BY DEF MarksIn

(* Tables t are u with a row added to a list, or taken away.               *)
Adds(u, t, list, row) ==
  \A l \in Lists : t[l] = IF l = list THEN u[l] \cup {row} ELSE u[l]
Drops(u, t, list, row) ==
  \A l \in Lists : t[l] = IF l = list THEN u[l] \ {row} ELSE u[l]

(* One row more, one mark more.                                            *)
LEMMA OneMarkMore ==
  ASSUME NEW u, NEW t, NEW list \in Lists, NEW row,
         Adds(u, t, list, row)
  PROVE  MarksIn(t) = MarksIn(u) \cup {MarkOf(list, row)}
<1>1. ASSUME NEW m
      PROVE  m \in MarksIn(t) <=> m \in MarksIn(u) \/ m = MarkOf(list, row)
  <2>1. m \in MarksIn(t) <=> \E l \in Lists : \E other \in t[l] : m = MarkOf(l, other)
    BY MarksOfRows
  <2>2. m \in MarksIn(u) <=> \E l \in Lists : \E other \in u[l] : m = MarkOf(l, other)
    BY MarksOfRows
  <2> QED
    BY <2>1, <2>2 DEF Adds
<1> QED
  BY <1>1

(* One row less: as there is no other with its mark, one mark less.        *)
LEMMA OneMarkLess ==
  ASSUME NEW u, Stored(u), NEW t, NEW list \in Lists, NEW row \in u[list],
         Drops(u, t, list, row)
  PROVE  MarksIn(t) = MarksIn(u) \ {MarkOf(list, row)}
<1>1. ASSUME NEW other \in u[list], MarkOf(list, other) = MarkOf(list, row)
      PROVE  other = row
  BY <1>1 DEF MarkOf, Stored
<1>2. ASSUME NEW l \in Lists, NEW other, MarkOf(l, other) = MarkOf(list, row)
      PROVE  l = list
  BY <1>2 DEF MarkOf
<1>3. ASSUME NEW m
      PROVE  m \in MarksIn(t) <=> m \in MarksIn(u) /\ m # MarkOf(list, row)
  <2>1. m \in MarksIn(t) <=> \E l \in Lists : \E other \in t[l] : m = MarkOf(l, other)
    BY MarksOfRows
  <2>2. m \in MarksIn(u) <=> \E l \in Lists : \E other \in u[l] : m = MarkOf(l, other)
    BY MarksOfRows
  <2> QED
    BY <1>1, <1>2, <2>1, <2>2 DEF Drops
<1> QED
  BY <1>3

(* A request arrives: a call begins.                                       *)
LEMMA AskedBegins ==
  ASSUME Inv, NEW r \in Requests, NEW list \in Lists, NEW sets \in BOOLEAN,
         NEW user \in Users, NEW product \in Products, NEW events \in EventLists,
         Asked(r, list, sets, user, product, events)
  PROVE  Abstract!Begin(r)
<1> DEFINE there == RowsOf(tables[list], user, product) # {}
           k == [list |-> list, sets |-> sets, user |-> user, product |-> product,
                 events |-> events, row |-> None,
                 phase |-> IF sets THEN "check" ELSE "select", seen |-> {there}]
           mark == <<list, user, product>>
<1>1. Become(r, k) /\ tables' = tables /\ req[r] = Idle
  BY DEF Asked, Elsewhere
<1>2. events \in SUBSET ValidEvents
  BY DEF Asked, NoEvents
<1>3. k \in Coroutines
  BY <1>2 DEF Coroutines
<1>4. /\ k.list = list /\ k.user = user /\ k.product = product /\ k.sets = sets
      /\ k.seen = {there} /\ k.phase \notin {"refresh", "reply"}
  OBVIOUS
<1>5. there = (mark \in MarksIn(tables)) /\ MarkOf(k.list, k) = mark
  <2>1. MarkOf(k.list, k) \in MarksIn(tables) <=> There(k, tables)
    BY <1>3, MarkIsRow
  <2> QED
    BY <1>4, <2>1 DEF MarkOf, There
<1> HIDE DEF k, there
<1>6. (k.phase \in {"refresh", "reply"}) = FALSE
  BY <1>4
<1>7. CallOf(k) = [state |-> "open", mark |-> mark, sets |-> sets, acted |-> FALSE,
                   seen |-> {(mark \in MarksIn(tables))}]
  BY <1>3, <1>4, <1>5, <1>6, CallOfCoroutine
<1>8. CallOf(req[r]) = Abstract!Idle
  BY <1>1, CallOfOthers
<1>9. [q \in Requests |-> CallOf(req[q])]' =
        [[q \in Requests |-> CallOf(req[q])] EXCEPT ![r] = CallOf(k)]
  BY <1>1, OneCall DEF Inv
<1>10. MarksIn(tables)' = MarksIn(tables)
  BY <1>1 DEF MarksIn
<1>11. mark \in Lists \X Users \X Products
  OBVIOUS
<1> HIDE DEF mark
<1> QED
  BY <1>7, <1>8, <1>9, <1>10, <1>11 DEF Abstract!Begin

(* The B2B answers: the call is refused, or goes on unnoticed.             *)
LEMMA CheckedSays ==
  ASSUME Inv, NEW r \in Requests, Checked(r)
  PROVE  Abstract!Say(r) \/ UNCHANGED Abstract!vars
<1>1. Waiting(r) /\ req[r].phase = "check" /\ tables' = tables
  BY DEF Checked, Waiting, Elsewhere
<1>2. req[r] \in Coroutines /\ Consistent(req[r])
  BY <1>1, WaitingIsCoroutine DEF Inv, TypeOK
<1>3. CASE Goes(r, "select")
  <2> DEFINE k == [req[r] EXCEPT !.phase = "select"]
  <2>1. /\ k \in Coroutines /\ k.phase = "select" /\ k.list = req[r].list
        /\ k.sets = req[r].sets /\ k.user = req[r].user /\ k.product = req[r].product
        /\ k.seen = req[r].seen
    BY <1>2 DEF Coroutines
  <2>2. Become(r, k)
    BY <1>3 DEF Goes
  <2> HIDE DEF k
  <2> QED
    BY <1>1, <1>2, <2>1, <2>2, Unnoticed
<1>4. ASSUME NEW status \in {404, 503}, Answer(r, status)
      PROVE  Abstract!Say(r)
  <2>1. CallOf(req[r]).sets /\ ~CallOf(req[r]).acted
    BY <1>1, <1>2, OpenCall DEF Consistent
  <2>2. status \in Statuses /\ Said(status) = "refused"
    BY DEF Statuses, Said
  <2>3. Abstract!Truthful(CallOf(req[r]), Said(status))
    BY <2>1, <2>2 DEF Abstract!Truthful
  <2> QED
    BY <1>1, <1>4, <2>2, <2>3, AnswerSays
<1> QED
  BY <1>3, <1>4 DEF Checked

(* The SELECT finds what it answers, or the request goes on.               *)
LEMMA SelectedSays ==
  ASSUME Inv, NEW r \in Requests, Selected(r)
  PROVE  Abstract!Say(r) \/ UNCHANGED Abstract!vars
<1>1. Waiting(r) /\ req[r].phase = "select" /\ tables' = tables
  BY DEF Selected, Waiting, Elsewhere
<1>2. req[r] \in Coroutines /\ There(req[r], tables) \in req[r].seen
  BY <1>1, WaitingIsCoroutine DEF Inv, Remembers
<1>3. /\ CallOf(req[r]).sets = req[r].sets /\ CallOf(req[r]).seen = req[r].seen
      /\ ~CallOf(req[r]).acted
  BY <1>1, <1>2, OpenCall
<1>4. There(req[r], tables) = (Found(r) # {})
  BY DEF There, Found
<1>5. ASSUME NEW row, NEW phase \in {"insert", "delete"}, row \in Rows,
             Become(r, [req[r] EXCEPT !.phase = phase, !.row = row])
      PROVE  UNCHANGED Abstract!vars
  <2> DEFINE k == [req[r] EXCEPT !.phase = phase, !.row = row]
  <2>1. /\ k \in Coroutines /\ k.phase = phase /\ k.list = req[r].list
        /\ k.sets = req[r].sets /\ k.user = req[r].user /\ k.product = req[r].product
        /\ k.seen = req[r].seen
    BY <1>2, <1>5 DEF Coroutines
  <2>2. Become(r, k)
    BY <1>5
  <2> HIDE DEF k
  <2> QED
    BY <1>1, <1>2, <2>1, <2>2, Unnoticed
<1>6. CASE Found(r) # {} /\ req[r].sets
  <2>1. PICK status \in {200, 409} : Answer(r, status)
    BY <1>6 DEF Selected
  <2>2. status \in Statuses /\ Said(status) = "present"
    BY DEF Statuses, Said
  <2>3. TRUE \in req[r].seen
    <3>1. There(req[r], tables) = TRUE
      BY <1>4, <1>6
    <3> QED
      BY <3>1, <1>2
  <2>4. Abstract!Truthful(CallOf(req[r]), Said(status))
    BY <1>3, <1>6, <2>2, <2>3 DEF Abstract!Truthful
  <2> QED
    BY <1>1, <2>1, <2>2, <2>4, AnswerSays
<1>7. CASE Found(r) # {} /\ ~req[r].sets
  <2>1. PICK row \in Found(r) : Become(r, [req[r] EXCEPT !.phase = "delete", !.row = row])
    BY <1>7 DEF Selected
  <2>2. row \in Rows
    BY <1>2 DEF Found, RowsOf, Inv, TypeOK, Coroutines
  <2> QED
    BY <1>5, <2>1, <2>2
<1>8. CASE Found(r) = {} /\ ~req[r].sets
  <2>1. Answer(r, 204)
    BY <1>8 DEF Selected
  <2>2. 204 \in Statuses /\ Said(204) = "absent"
    BY DEF Statuses, Said
  <2>3. FALSE \in req[r].seen
    <3>1. There(req[r], tables) = FALSE
      BY <1>4, <1>8
    <3> QED
      BY <3>1, <1>2
  <2>4. Abstract!Truthful(CallOf(req[r]), Said(204))
    BY <1>3, <1>8, <2>2, <2>3 DEF Abstract!Truthful
  <2> QED
    BY <1>1, <2>1, <2>2, <2>4, AnswerSays
<1>9. CASE Found(r) = {} /\ req[r].sets
  <2> DEFINE row == [at |-> drawn', user |-> req[r].user,
                     product |-> req[r].product, events |-> req[r].events]
  <2>1. /\ drawn < MaxRows /\ drawn' = drawn + 1
        /\ Become(r, [req[r] EXCEPT !.phase = "insert", !.row = row])
    BY <1>9 DEF Selected
  <2>2. row \in Rows
    BY <1>2, <2>1, FavoritesAssumption DEF Rows, Coroutines, Inv, TypeOK
  <2> HIDE DEF row
  <2> QED
    BY <1>5, <2>1, <2>2
<1> QED
  BY <1>6, <1>7, <1>8, <1>9

(* The INSERT is the effect of its call, or meets the unique index.        *)
LEMMA InsertedActs ==
  ASSUME Inv, NEW r \in Requests, Inserted(r)
  PROVE  Abstract!Act(r) \/ Abstract!Say(r)
<1>1. req[r].phase = "insert"
  BY DEF Inserted
<1>2. /\ Waiting(r) /\ req[r] \in Coroutines /\ Consistent(req[r])
      /\ Remembers(req[r], tables)
      /\ req[r].row.user = req[r].user /\ req[r].row.product = req[r].product
  BY <1>1, PastSelect
<1>3. req[r].sets /\ FALSE \in req[r].seen /\ There(req[r], tables) \in req[r].seen
  BY <1>1, <1>2 DEF Consistent, Remembers
<1>4. There(req[r], tables) = (Found(r) # {})
  BY DEF There, Found
<1>5. CASE Found(r) # {}
  <2>1. Answer(r, 500) /\ tables' = tables
    BY <1>5 DEF Inserted
  <2>2. req[r].seen = BOOLEAN
    <3>1. There(req[r], tables) = TRUE
      BY <1>4, <1>5
    <3>2. req[r].seen \subseteq BOOLEAN
      BY <1>2 DEF Coroutines
    <3> QED
      BY <3>1, <3>2, <1>3
  <2>3. 500 \in Statuses /\ Said(500) = "disturbed"
    BY DEF Statuses, Said
  <2>4. CallOf(req[r]).sets = req[r].sets /\ CallOf(req[r]).seen = req[r].seen
    BY <1>1, <1>2, OpenCall
  <2>5. Abstract!Truthful(CallOf(req[r]), Said(500))
    BY <1>3, <2>2, <2>3, <2>4 DEF Abstract!Truthful
  <2> QED
    BY <1>2, <2>1, <2>3, <2>5, AnswerSays
<1>6. CASE Found(r) = {}
  <2> DEFINE t == [tables EXCEPT ![req[r].list] = @ \cup {req[r].row}]
  <2>1. Commit(r, t, "refresh")
    BY <1>6 DEF Inserted
  <2>2. req[r].list \in Lists
    BY <1>2 DEF Coroutines
  <2>3. \A l \in Lists :
          t[l] = IF l = req[r].list THEN tables[l] \cup {req[r].row} ELSE tables[l]
    BY DEF Inv, TypeOK
  <2> HIDE DEF t
  <2>4. MarkOf(req[r].list, req[r].row) = MarkOf(req[r].list, req[r])
    BY <1>2 DEF MarkOf
  <2>5. MarksIn(t) = MarksIn(tables) \cup {MarkOf(req[r].list, req[r])}
    <3>1. Adds(tables, t, req[r].list, req[r].row)
      BY <2>2, <2>3 DEF Adds
    <3>2. MarksIn(t) = MarksIn(tables) \cup {MarkOf(req[r].list, req[r].row)}
      BY <2>2, <3>1, OneMarkMore
    <3> QED
      BY <2>4, <3>2
  <2>6. MarkOf(req[r].list, req[r]) \notin MarksIn(tables)
    BY <1>2, <1>4, <1>6, MarkIsRow
  <2> QED
    BY <1>1, <1>2, <1>3, <2>1, <2>5, <2>6, CommitActs
<1> QED
  BY <1>5, <1>6

(* The DELETE is the effect of its call, even where it meets no row.       *)
LEMMA DeletedActs ==
  ASSUME Inv, NEW r \in Requests, Deleted(r)
  PROVE  Abstract!Act(r)
<1> DEFINE t == [tables EXCEPT ![req[r].list] = @ \ {req[r].row}]
<1>1. req[r].phase = "delete" /\ Commit(r, t, "reply")
  BY DEF Deleted
<1>2. \A l \in Lists :
        t[l] = IF l = req[r].list THEN tables[l] \ {req[r].row} ELSE tables[l]
  BY DEF Inv, TypeOK
<1>3. req[r].row \notin tables[req[r].list] => t = tables
  BY <1>2 DEF Inv, TypeOK
<1> HIDE DEF t
<1>4. /\ Waiting(r) /\ req[r] \in Coroutines /\ ~req[r].sets
      /\ req[r].row.user = req[r].user /\ req[r].row.product = req[r].product
      /\ req[r].row \in tables[req[r].list] \/ FALSE \in req[r].seen
  BY <1>1, PastSelect DEF Consistent, Remembers
<1>5. req[r].list \in Lists /\ Stored(tables)
  BY <1>4 DEF Coroutines, Inv, TypeOK, Stored
<1>6. MarkOf(req[r].list, req[r].row) = MarkOf(req[r].list, req[r])
  BY <1>4 DEF MarkOf
<1>7. CASE req[r].row \in tables[req[r].list]
  <2>1. MarksIn(t) = MarksIn(tables) \ {MarkOf(req[r].list, req[r])}
    <3>1. Drops(tables, t, req[r].list, req[r].row)
      BY <1>2, <1>5, <1>7 DEF Drops
    <3>2. MarksIn(t) = MarksIn(tables) \ {MarkOf(req[r].list, req[r].row)}
      BY <1>5, <1>7, <3>1, OneMarkLess
    <3> QED
      BY <1>6, <3>2
  <2> QED
    BY <1>1, <1>4, <2>1, CommitActs
<1>8. CASE req[r].row \notin tables[req[r].list]
  <2>1. MarksIn(t) = MarksIn(tables)
    BY <1>3, <1>8
  <2> QED
    BY <1>1, <1>4, <1>8, <2>1, CommitActs
<1> QED
  BY <1>7, <1>8

(* The row is read back, or has gone.                                      *)
LEMMA RefreshedSays ==
  ASSUME Inv, NEW r \in Requests, Refreshed(r)
  PROVE  Abstract!Say(r)
<1>1. req[r].phase = "refresh" /\ tables' = tables
  BY DEF Refreshed, Elsewhere
<1>2. /\ Waiting(r) /\ req[r] \in Coroutines /\ req[r].sets
      /\ TRUE \in req[r].seen /\ FALSE \in req[r].seen
  BY <1>1, PastSelect DEF Consistent, Remembers
<1>3. /\ CallOf(req[r]).sets /\ CallOf(req[r]).acted
      /\ CallOf(req[r]).seen = req[r].seen
  BY <1>1, <1>2, OpenCall
<1>4. req[r].seen = BOOLEAN
  <2>1. req[r].seen \subseteq BOOLEAN
    BY <1>2 DEF Coroutines
  <2> QED
    BY <1>2, <2>1
<1>5. /\ 201 \in Statuses /\ Said(201) = "set"
      /\ 500 \in Statuses /\ Said(500) = "disturbed"
  BY DEF Statuses, Said
<1>6. PICK status \in {201, 500} : Answer(r, status)
  BY DEF Refreshed
<1>7. Abstract!Truthful(CallOf(req[r]), Said(status))
  BY <1>3, <1>4, <1>5 DEF Abstract!Truthful
<1> QED
  BY <1>1, <1>2, <1>5, <1>6, <1>7, AnswerSays

(* The removal is answered.                                                *)
LEMMA RepliedSays ==
  ASSUME Inv, NEW r \in Requests, Replied(r)
  PROVE  Abstract!Say(r)
<1>1. req[r].phase = "reply" /\ tables' = tables /\ Answer(r, 204)
  BY DEF Replied, Elsewhere
<1>2. Waiting(r) /\ req[r] \in Coroutines /\ ~req[r].sets /\ FALSE \in req[r].seen
  BY <1>1, PastSelect DEF Consistent, Remembers
<1>3. CallOf(req[r]).sets = req[r].sets /\ CallOf(req[r]).seen = req[r].seen
  BY <1>2, OpenCall
<1>4. 204 \in Statuses /\ Said(204) = "absent"
  BY DEF Statuses, Said
<1>5. Abstract!Truthful(CallOf(req[r]), Said(204))
  BY <1>2, <1>3, <1>4 DEF Abstract!Truthful
<1> QED
  BY <1>1, <1>2, <1>4, <1>5, AnswerSays

(* The client leaves, or the process stops.                                *)
LEMMA LeavesLeaves ==
  ASSUME Inv, NEW r \in Requests, Leaves(r)
  PROVE  Abstract!Leave(r)
<1>1. Become(r, Idle) /\ tables' = tables /\ req[r] # Idle
  BY DEF Leaves, Elsewhere
<1>2. CallOf(Idle) = Abstract!Idle
  BY CallOfOthers
<1>3. CallOf(req[r]) # Abstract!Idle
  <2>1. CASE req[r] \in Coroutines
    <3>1. CallOf(req[r]).state = "open" /\ Abstract!Idle.state = "idle"
      BY <2>1, OpenCall DEF Abstract!Idle
    <3> QED
      BY <3>1
  <2>2. CASE req[r] \in Answered
    <3>1. CallOf(req[r]).state = "answered" /\ Abstract!Idle.state = "idle"
      BY <2>2, CallOfOthers DEF Abstract!Idle
    <3> QED
      BY <3>1
  <2> QED
    BY <1>1, <2>1, <2>2 DEF Inv, TypeOK
<1>4. [q \in Requests |-> CallOf(req[q])]' =
        [[q \in Requests |-> CallOf(req[q])] EXCEPT ![r] = CallOf(Idle)]
  BY <1>1, OneCall DEF Inv
<1>5. MarksIn(tables)' = MarksIn(tables)
  BY <1>1 DEF MarksIn
<1> QED
  BY <1>2, <1>3, <1>4, <1>5 DEF Abstract!Leave

(* The initial tables and requests are initial marks and calls.            *)
LEMMA InitMarks == Init => Abstract!Init
<1> SUFFICES ASSUME Init
             PROVE  Abstract!Init
  OBVIOUS
<1>1. MarksIn(tables) = {}
  BY DEF Init, MarksIn
<1>2. [r \in Requests |-> CallOf(req[r])] = [r \in Requests |-> Abstract!Idle]
  BY CallOfOthers DEF Init
<1> QED
  BY <1>1, <1>2 DEF Abstract!Init

(* Every step is a step of ProductMarks, or none.                          *)
LEMMA NextMarks ==
  ASSUME Inv, [Next]_vars
  PROVE  [Abstract!Next]_(Abstract!vars)
<1>1. ASSUME NEW r \in Requests, RequestStep(r)
      PROVE  \/ Abstract!Begin(r) \/ Abstract!Act(r) \/ Abstract!Say(r) \/ Abstract!Leave(r)
             \/ UNCHANGED Abstract!vars
  BY <1>1, AskedBegins, CheckedSays, SelectedSays, InsertedActs, DeletedActs, RefreshedSays,
     RepliedSays, LeavesLeaves DEF RequestStep
<1>2. ASSUME UNCHANGED <<tables, req>>
      PROVE  UNCHANGED Abstract!vars
  BY <1>2 DEF Abstract!vars, MarksIn
<1>3. CASE ScanStep
  BY <1>2, <1>3 DEF ScanStep, ScanStarts, PageSelected, PageAnswered, ScanEnds
<1>4. CASE \E product \in Products : Toggled(product)
  BY <1>2, <1>4 DEF Toggled
<1>5. CASE UNCHANGED vars
  BY <1>2, <1>5 DEF vars
<1> QED
  BY <1>1, <1>3, <1>4, <1>5 DEF Next, Abstract!Next

(* Whatever races, a request changes only its own mark, once, and what it  *)
(* answers was so while it ran.                                            *)
THEOREM PromiseKept == Spec => KeepsMarksPromise
<1>1. Inv /\ [Next]_vars => [Abstract!Next]_(Abstract!vars)
  BY NextMarks
<1> QED
  BY <1>1, InitInv, InitMarks, NextKeeps, PTL DEF Spec, KeepsMarksPromise, Abstract!Spec
-----------------------------------------------------------------------------
(***************************************************************************)
(* A scan misses nothing.  The rows of a list have different times, so     *)
(* their places are 1, 2, 3, ...: a page that is not full is the last one. *)
(* As long as nothing is lost the visible list only grows, and a row that  *)
(* comes into it can only push others back: what is now among the first    *)
(* "offset" places was there before, on a page already read.               *)
(***************************************************************************)
Apart(list) == /\ IsFiniteSet(list)
               /\ \A row \in list : row.at \in Int
               /\ \A row, other \in list : row.at = other.at => row = other

(* Places in a longer list are further back.                               *)
LEMMA PushedBack ==
  ASSUME NEW long, NEW list \in SUBSET long, IsFiniteSet(long), NEW row
  PROVE  /\ IsFiniteSet(list)
         /\ Place(row, list) \in Nat /\ Place(row, long) \in Nat
         /\ Place(row, list) <= Place(row, long)
<1>. DEFINE before(l) == {other \in l : other.at >= row.at}
<1>1. IsFiniteSet(list) /\ IsFiniteSet(before(long)) /\ before(list) \subseteq before(long)
  BY FS_Subset
<1>2. IsFiniteSet(before(list))
  BY <1>1, FS_Subset
<1>3. Cardinality(before(list)) <= Cardinality(before(long))
  BY <1>1, FS_Subset
<1>. QED  BY <1>1, <1>2, <1>3, FS_CardinalityType DEF Place

(* The places of a list are the numbers from 1 to its length.              *)
LEMMA PlacesAreDense ==
  ASSUME NEW list, Apart(list)
  PROVE  /\ Cardinality(list) \in Nat
         /\ \A row \in list : Place(row, list) \in 1 .. Cardinality(list)
         /\ \A n \in 1 .. Cardinality(list) : \E row \in list : Place(row, list) = n
<1>. DEFINE before(row) == {other \in list : other.at >= row.at}
            place == [row \in list |-> Place(row, list)]
            count == Cardinality(list)
<1>1. IsFiniteSet(list) /\ count \in Nat
  BY FS_CardinalityType DEF Apart
<1>2. \A row \in list : /\ IsFiniteSet(before(row)) /\ Cardinality(before(row)) \in Nat
                        /\ Cardinality(before(row)) <= count
                        /\ Place(row, list) = Cardinality(before(row))
  BY <1>1, FS_Subset, FS_CardinalityType DEF Place
<1>3. \A row \in list : Cardinality(before(row)) # 0
  <2>. SUFFICES ASSUME NEW row \in list, Cardinality(before(row)) = 0
                PROVE  FALSE
    OBVIOUS
  <2>1. row \in before(row)
    BY DEF Apart
  <2>. QED  BY <1>2, <2>1, FS_EmptySet
<1>4. place \in [list -> 1 .. count]
  <2>1. ASSUME NEW row \in list
        PROVE  Place(row, list) \in 1 .. count
    <3>1. /\ Place(row, list) \in Nat /\ Place(row, list) # 0
          /\ Place(row, list) <= count
      BY <1>2, <1>3
    <3>. HIDE DEF count
    <3>. QED  BY <1>1, <3>1
  <2>. QED  BY <2>1
<1>5. ASSUME NEW row \in list, NEW other \in list, row.at > other.at
      PROVE  Place(row, list) # Place(other, list)
  <2>1. before(row) \subseteq before(other)
    BY <1>5 DEF Apart
  <2>2. other \in before(other) /\ other \notin before(row)
    BY <1>5 DEF Apart
  <2>3. before(row) # before(other)
    BY <2>2
  <2>4. Cardinality(before(row)) # Cardinality(before(other))
    BY <1>2, <2>1, <2>3, FS_Subset
  <2>. QED  BY <1>2, <2>4
<1>6. \A row, other \in list : place[row] = place[other] => row = other
  BY <1>5 DEF Apart
<1>7. place \in Injection(list, 1 .. count)
  BY <1>4, <1>6, Fun_IsInj
<1>8. IsFiniteSet(1 .. count) /\ Cardinality(1 .. count) = IF 1 > count THEN 0 ELSE count - 1 + 1
  BY <1>1, FS_Interval
<1>9. Cardinality(1 .. count) = count
  BY <1>1, <1>8
<1>10. place \in Surjection(list, 1 .. count)
  BY <1>7, <1>8, <1>9, FS_Injection
<1>11. \A n \in 1 .. count : \E row \in list : place[row] = n
  <2>. HIDE DEF place
  <2>. QED  BY <1>10, Fun_SurjectionProperties
<1>. QED  BY <1>1, <1>4, <1>11

(* Behind a page that is not full there is nothing.                        *)
LEMMA ShortPageIsLast ==
  ASSUME NEW list, Apart(list), NEW offset \in Nat, NEW row \in list,
         Cardinality(Cut(list, offset)) < PageSize
  PROVE  Place(row, list) <= offset + PageSize
<1>. SUFFICES ASSUME Place(row, list) > offset + PageSize
              PROVE  FALSE
  BY PlacesAreDense, FavoritesAssumption
<1>. DEFINE page  == Cut(list, offset)
            span  == offset + 1 .. offset + PageSize
            place == [r \in page |-> Place(r, list)]
<1>1. PageSize \in Nat \ {0}
  BY FavoritesAssumption
<1>2. span \subseteq 1 .. Cardinality(list)
  BY <1>1, PlacesAreDense
<1>3. \A n \in span : \E r \in page : place[r] = n
  BY <1>2, PlacesAreDense DEF Cut
<1>4. place \in [page -> span]
  BY DEF Cut
<1>5. place \in Surjection(page, span)
  BY <1>3, <1>4, Fun_IsSurj
<1>6. IsFiniteSet(page)
  BY FS_Subset DEF Cut, Apart
<1>7. Cardinality(span) <= Cardinality(page)
  BY <1>5, <1>6, FS_Surjection
<1>8. Cardinality(span) = IF offset + 1 > offset + PageSize THEN 0
                          ELSE (offset + PageSize) - (offset + 1) + 1
  BY <1>1, FS_Interval
<1>9. Cardinality(span) = PageSize /\ Cardinality(page) \in Nat
  BY <1>1, <1>6, <1>8, FS_CardinalityType
<1>. QED  BY <1>1, <1>7, <1>9

(* No two rows of a list are of one time: a row is drawn once, by one      *)
(* request, and is in no list before it is inserted.                       *)
Dated ==
  /\ \A list \in Lists : Apart(tables[list]) /\ \A row \in tables[list] : row.at <= drawn
  /\ \A r \in Requests : req[r].phase = "insert" =>
       /\ req[r].row.at <= drawn
       /\ \A list \in Lists : \A row \in tables[list] : row.at # req[r].row.at
       /\ \A q \in Requests :
            req[q].phase = "insert" /\ req[q].row.at = req[r].row.at => q = r

(* A step that draws no row and changes no list.                           *)
LEMMA NothingDrawn ==
  ASSUME Dated, tables' = tables, drawn' = drawn,
         \A q \in Requests : req'[q].phase = "insert" =>
           req[q].phase = "insert" /\ req'[q].row = req[q].row
  PROVE  Dated'
BY DEF Dated, Apart

(* A request that becomes another one, and does not insert.                *)
LEMMA BecomeDated ==
  ASSUME Inv, Dated, NEW r \in Requests, NEW k, Become(r, k), k.phase # "insert",
         tables' = tables, drawn' = drawn
  PROVE  Dated'
<1>1. \A q \in Requests : req'[q] = IF q = r THEN k ELSE req[q]
  BY DEF Become, Inv, TypeOK
<1>. QED  BY <1>1, NothingDrawn

LEMMA AnswerDated ==
  ASSUME Inv, Dated, NEW r \in Requests, NEW status, Answer(r, status),
         tables' = tables, drawn' = drawn
  PROVE  Dated'
<1>1. \A q \in Requests \ {r} : req'[q] = req[q]
  BY DEF Answer, Become, Inv, TypeOK
<1>2. req'[r].phase = "answered"
  BY DEF Answer, Become, Inv, TypeOK
<1>. QED  BY <1>1, <1>2, NothingDrawn

LEMMA GoesDated ==
  ASSUME Inv, Dated, NEW r \in Requests, Waiting(r), Goes(r, "select"),
         tables' = tables, drawn' = drawn
  PROVE  Dated'
<1>1. \A q \in Requests \ {r} : req'[q] = req[q]
  BY DEF Goes, Become, Inv, TypeOK
<1>2. req[r] \in Coroutines
  BY WaitingIsCoroutine DEF Inv
<1>3. req'[r].phase = "select"
  BY <1>2 DEF Goes, Become, Inv, TypeOK, Coroutines
<1>. QED  BY <1>1, <1>3, NothingDrawn

LEMMA SelectedDated ==
  ASSUME Inv, Dated, NEW r \in Requests, Selected(r)
  PROVE  Dated'
<1>1. req[r] \in Coroutines
  BY WaitingIsCoroutine DEF Inv, Selected, Waiting
<1>3. ASSUME NEW status, Answer(r, status), UNCHANGED drawn
      PROVE  Dated'
  BY <1>3, AnswerDated DEF Selected
<1>4. ASSUME NEW row \in Found(r),
             Become(r, [req[r] EXCEPT !.phase = "delete", !.row = row]), UNCHANGED drawn
      PROVE  Dated'
  <2>1. \A q \in Requests \ {r} : req'[q] = req[q]
    BY <1>4 DEF Become, Inv, TypeOK
  <2>2. req'[r].phase = "delete"
    BY <1>1, <1>4 DEF Become, Inv, TypeOK, Coroutines
  <2>. QED  BY <1>4, <2>1, <2>2, NothingDrawn DEF Selected
<1>5. CASE /\ drawn' = drawn + 1
           /\ Become(r, [req[r] EXCEPT !.phase = "insert",
                !.row = [at |-> drawn', user |-> req[r].user,
                         product |-> req[r].product, events |-> req[r].events]])
  <2>1. drawn \in Int /\ drawn' = drawn + 1
    BY <1>5, FavoritesAssumption DEF Inv, TypeOK
  <2>2. \A q \in Requests \ {r} : req'[q] = req[q]
    BY <1>5 DEF Become, Inv, TypeOK
  <2>3. req'[r].phase = "insert" /\ req'[r].row.at = drawn'
    BY <1>1, <1>5 DEF Become, Inv, TypeOK, Coroutines
  <2>4. tables' = tables
    BY DEF Selected
  <2>5. \A list \in Lists : \A row \in tables[list] : row.at \in Int
    BY DEF Dated, Apart
  <2>6. \A list \in Lists : Apart(tables'[list]) /\ \A row \in tables'[list] : row.at <= drawn
    BY <2>4 DEF Dated, Apart
  <2>7. \A q \in Requests \ {r} : req[q].phase = "insert" =>
          req[q].row.at \in Int /\ req[q].row.at <= drawn
    <3>. SUFFICES ASSUME NEW q \in Requests \ {r}, req[q].phase = "insert"
                  PROVE  req[q].row.at \in Int /\ req[q].row.at <= drawn
      OBVIOUS
    <3>1. Waiting(q) /\ Consistent(req[q])
      BY DEF Inv, TypeOK, Waiting
    <3>2. req[q].row \in Rows
      BY <3>1 DEF Consistent
    <3>. QED  BY <3>2 DEF Dated, Rows
  <2>8. \A list \in Lists : Apart(tables'[list]) /\ \A row \in tables'[list] : row.at <= drawn'
    BY <2>1, <2>4, <2>5, <2>6
  <2>. QED  BY <2>1, <2>2, <2>3, <2>4, <2>5, <2>7, <2>8 DEF Dated
<1>6. CASE Found(r) # {} /\ req[r].sets /\ UNCHANGED drawn
           /\ Answer(r, IF req[r].list = "favorites" THEN 200 ELSE 409)
  <2>1. CASE req[r].list = "favorites"
    BY <1>3, <1>6, <2>1
  <2>2. CASE req[r].list # "favorites"
    BY <1>3, <1>6, <2>2
  <2>. QED  BY <2>1, <2>2
<1>. QED  BY <1>3, <1>4, <1>5, <1>6 DEF Selected

(* A COMMIT puts in a row of a time of its own, or takes one out.          *)
LEMMA InsertedDated ==
  ASSUME Inv, Dated, NEW r \in Requests, Inserted(r)
  PROVE  Dated'
<1>. DEFINE row == req[r].row
            mine == req[r].list
<1>1. /\ req[r] \in Coroutines /\ Waiting(r) /\ Consistent(req[r])
      /\ row \in Rows /\ mine \in Lists
  BY WaitingIsCoroutine DEF Inv, TypeOK, Inserted, Waiting, Consistent, Coroutines
<1>2. CASE Found(r) # {}
  BY <1>2, AnswerDated DEF Inserted
<1>3. CASE Found(r) = {}
  <2>. DEFINE t == [tables EXCEPT ![mine] = @ \cup {row}]
  <2>1. Commit(r, t, "refresh") /\ tables' = t
    BY <1>3 DEF Inserted, Commit
  <2>2. \A q \in Requests : req'[q].phase = "insert" =>
          q # r /\ req[q].phase = "insert" /\ req'[q].row = req[q].row
    <3>. SUFFICES ASSUME NEW q \in Requests, req'[q].phase = "insert"
                  PROVE  q # r /\ req[q].phase = "insert" /\ req'[q].row = req[q].row
      OBVIOUS
    <3>. HIDE DEF t
    <3>1. CASE Waiting(q)
      BY <1>1, <2>1, <3>1, CommitSeen DEF Inv
    <3>2. CASE ~Waiting(q)
      BY <1>1, <2>1, <3>2, CommitSeen DEF Inv, Waiting
    <3>. QED  BY <3>1, <3>2
  <2>3. /\ tables'[mine] = tables[mine] \cup {row}
        /\ \A list \in Lists \ {mine} : tables'[list] = tables[list]
    BY <1>1, <2>1 DEF Inv, TypeOK
  <2>4. drawn' = drawn /\ req[r].phase = "insert"
    BY DEF Inserted
  <2>5. /\ row.at \in Int /\ row.at <= drawn
        /\ \A list \in Lists : \A other \in tables[list] : other.at # row.at
    BY <1>1, <2>4 DEF Dated, Rows
  <2>6. Apart(tables'[mine])
    BY <1>1, <2>3, <2>5, FS_AddElement DEF Dated, Apart
  <2>7. \A list \in Lists : Apart(tables'[list]) /\ \A other \in tables'[list] : other.at <= drawn'
    BY <2>3, <2>4, <2>5, <2>6 DEF Dated
  <2>8. \A q \in Requests : req'[q].phase = "insert" => req[q].row.at # row.at
    BY <2>2, <2>4 DEF Dated
  <2>9. \A q \in Requests : req'[q].phase = "insert" =>
          /\ req'[q].row.at <= drawn'
          /\ \A list \in Lists : \A other \in tables'[list] : other.at # req'[q].row.at
          /\ \A p \in Requests :
               req'[p].phase = "insert" /\ req'[p].row.at = req'[q].row.at => p = q
    BY <2>2, <2>3, <2>4, <2>8 DEF Dated
  <2>. QED  BY <2>7, <2>9 DEF Dated
<1>. QED  BY <1>2, <1>3

LEMMA DeletedDated ==
  ASSUME Inv, Dated, NEW r \in Requests, Deleted(r)
  PROVE  Dated'
<1>. DEFINE mine == req[r].list
            t    == [tables EXCEPT ![mine] = @ \ {req[r].row}]
<1>1. req[r] \in Coroutines /\ Waiting(r) /\ mine \in Lists
  BY WaitingIsCoroutine DEF Inv, TypeOK, Deleted, Waiting, Coroutines
<1>2. Commit(r, t, "reply") /\ tables' = t /\ drawn' = drawn
  BY DEF Deleted, Commit
<1>3. \A q \in Requests : req'[q].phase = "insert" =>
        req[q].phase = "insert" /\ req'[q].row = req[q].row
  <2>. SUFFICES ASSUME NEW q \in Requests, req'[q].phase = "insert"
                PROVE  req[q].phase = "insert" /\ req'[q].row = req[q].row
    OBVIOUS
  <2>. HIDE DEF t
  <2>1. CASE Waiting(q)
    BY <1>1, <1>2, <2>1, CommitSeen DEF Inv
  <2>2. CASE ~Waiting(q)
    BY <1>1, <1>2, <2>2, CommitSeen DEF Inv, Waiting
  <2>. QED  BY <2>1, <2>2
<1>4. \A list \in Lists : tables'[list] \subseteq tables[list]
  BY <1>2 DEF Inv, TypeOK
<1>5. \A list \in Lists : Apart(tables'[list])
  BY <1>4, FS_Subset DEF Dated, Apart
<1>6. \A list \in Lists : \A other \in tables'[list] : other.at <= drawn'
  BY <1>2, <1>4 DEF Dated
<1>7. \A q \in Requests : req'[q].phase = "insert" =>
        /\ req'[q].row.at <= drawn'
        /\ \A list \in Lists : \A other \in tables'[list] : other.at # req'[q].row.at
        /\ \A p \in Requests :
             req'[p].phase = "insert" /\ req'[p].row.at = req'[q].row.at => p = q
  BY <1>2, <1>3, <1>4 DEF Dated
<1>. QED  BY <1>5, <1>6, <1>7 DEF Dated

LEMMA InitDated == Init => Dated
<1>. SUFFICES ASSUME Init
              PROVE  Dated
  OBVIOUS
<1>1. \A list \in Lists : tables[list] = {}
  BY DEF Init
<1>2. \A r \in Requests : req[r].phase # "insert"
  BY DEF Init, Idle
<1>. QED  BY <1>1, <1>2, FS_EmptySet DEF Dated, Apart

LEMMA NextDated ==
  ASSUME Inv, Dated, [Next]_vars
  PROVE  Dated'
<1>1. ASSUME NEW r \in Requests, NEW list \in Lists, NEW sets \in BOOLEAN, NEW user \in Users,
             NEW product \in Products, NEW events \in EventLists,
             Asked(r, list, sets, user, product, events)
      PROVE  Dated'
  <2>. DEFINE k == [list |-> list, sets |-> sets, user |-> user, product |-> product,
                    events |-> events, row |-> None,
                    phase |-> IF sets THEN "check" ELSE "select",
                    seen |-> {RowsOf(tables[list], user, product) # {}}]
  <2>1. Become(r, k) /\ tables' = tables /\ drawn' = drawn
    BY <1>1 DEF Asked
  <2>2. k.phase # "insert"
    OBVIOUS
  <2>. HIDE DEF k
  <2>. QED  BY <2>1, <2>2, BecomeDated
<1>2. ASSUME NEW r \in Requests, Checked(r)
      PROVE  Dated'
  BY <1>2, GoesDated, AnswerDated DEF Checked, Waiting
<1>3. ASSUME NEW r \in Requests, Refreshed(r)
      PROVE  Dated'
  <2>1. PICK status \in {201, 500} : Answer(r, status)
    BY <1>3 DEF Refreshed
  <2>. QED  BY <1>3, <2>1, AnswerDated DEF Refreshed
<1>4. ASSUME NEW r \in Requests, Replied(r)
      PROVE  Dated'
  BY <1>4, AnswerDated DEF Replied
<1>5. ASSUME NEW r \in Requests, Leaves(r)
      PROVE  Dated'
  <2>1. Idle.phase # "insert"
    BY DEF Idle
  <2>. QED  BY <1>5, <2>1, BecomeDated DEF Leaves
<1>6. ASSUME tables' = tables, req' = req, drawn' = drawn
      PROVE  Dated'
  BY <1>6, NothingDrawn
<1>7. CASE ScanStep
  BY <1>6, <1>7 DEF ScanStep, ScanStarts, PageSelected, PageAnswered, ScanEnds
<1>8. CASE \E product \in Products : Toggled(product)
  BY <1>6, <1>8 DEF Toggled
<1>9. CASE UNCHANGED vars
  BY <1>6, <1>9 DEF vars
<1>. QED  BY <1>1, <1>2, <1>3, <1>4, <1>5, <1>7, <1>8, <1>9,
             SelectedDated, InsertedDated, DeletedDated DEF Next, RequestStep

(* The list a client pages through, as long as nothing of it was lost: all *)
(* it wanted is still there to be seen, and what is on a page it has read, *)
(* of the list as it is or as it was selected, it has got.                 *)
Scans == [phase : {"page", "batch", "end"}, user : Users, offset : Nat, list : SUBSET Rows,
          got : SUBSET Rows, wanted : SUBSET Rows, lost : BOOLEAN]
Read(s, list) == \A row \in s.wanted : Place(row, list) <= s.offset => row \in s.got
OnItsWay(s, t, sale) ==
  LET mine == Mine(t, s.user)
  IN  /\ s.wanted \subseteq Visible(mine, sale)
      /\ s.phase = "page" => Read(s, Visible(mine, sale))
      /\ s.phase = "batch" => /\ s.list \subseteq mine /\ s.wanted \subseteq s.list
                              /\ Read(s, Visible(s.list, sale))
      /\ s.phase = "end" => s.wanted \subseteq s.got
Scanning ==
  \/ scan = Idle
  \/ /\ scan \in Scans
     /\ ~scan.lost => OnItsWay(scan, tables, onSale)

(* A list that has more in it is read as far as before.                    *)
LEMMA ReadOn ==
  ASSUME NEW s \in Scans, NEW long, NEW list \in SUBSET long, IsFiniteSet(long), Read(s, list)
  PROVE  Read(s, long)
<1>. SUFFICES ASSUME NEW row \in s.wanted, Place(row, long) <= s.offset
              PROVE  row \in s.got
  BY DEF Read
<1>1. Place(row, list) \in Nat /\ Place(row, long) \in Nat /\ Place(row, list) <= Place(row, long)
  BY PushedBack
<1>2. Place(row, list) <= s.offset
  BY <1>1 DEF Scans
<1>. QED  BY <1>2 DEF Read

(* The tables or the B2B change.                                           *)
LEMMA WatchedScan ==
  ASSUME Scanning, Dated', Watched(tables', onSale')
  PROVE  Scanning'
<1>1. CASE scan = Idle
  BY <1>1 DEF Watched, Scanning
<1>2. CASE scan # Idle
  <2>. DEFINE lost == Loses(tables', onSale')
  <2>1. scan \in Scans /\ scan' = [scan EXCEPT !.lost = @ \/ lost]
    BY <1>2 DEF Watched, Scanning
  <2>2. lost \in BOOLEAN
    BY DEF Loses
  <2>. HIDE DEF lost
  <2>3. /\ scan' \in Scans /\ scan'.phase = scan.phase /\ scan'.user = scan.user
        /\ scan'.offset = scan.offset /\ scan'.list = scan.list /\ scan'.got = scan.got
        /\ scan'.wanted = scan.wanted /\ (scan'.lost <=> scan.lost \/ lost)
    BY <2>1, <2>2 DEF Scans
  <2>4. ASSUME ~scan'.lost
        PROVE  OnItsWay(scan', tables', onSale')
    <3>. DEFINE before == Mine(tables, scan.user)
                after  == Mine(tables', scan.user)
                seen   == Visible(before, onSale)
                shown  == Visible(after, onSale')
    <3>1. /\ before \subseteq after /\ seen \subseteq shown
          /\ OnItsWay(scan, tables, onSale)
      BY <1>2, <2>3, <2>4 DEF Scanning, Loses, lost
    <3>2. IsFiniteSet(after)
      BY FS_Subset DEF Mine, Dated, Apart, Lists
    <3>3. IsFiniteSet(shown)
      BY <3>2, FS_Subset DEF Visible
    <3>4. scan.phase = "page" => Read(scan, shown)
      <4>. HIDE DEF seen, shown
      <4>1. scan.phase = "page" => Read(scan, seen)
        BY <3>1 DEF OnItsWay, seen
      <4>. QED  BY <2>1, <3>1, <3>3, <4>1, ReadOn
    <3>5. scan.phase = "batch" => /\ scan.list \subseteq after /\ scan.wanted \subseteq scan.list
                                  /\ Read(scan, Visible(scan.list, onSale'))
      <4>. SUFFICES ASSUME scan.phase = "batch"
                    PROVE  /\ scan.list \subseteq after /\ scan.wanted \subseteq scan.list
                           /\ Read(scan, Visible(scan.list, onSale'))
        OBVIOUS
      <4>1. /\ scan.list \subseteq before /\ scan.wanted \subseteq scan.list
            /\ Read(scan, Visible(scan.list, onSale))
        BY <3>1 DEF OnItsWay
      <4>2. Visible(scan.list, onSale) \subseteq Visible(scan.list, onSale')
        BY <3>1, <4>1 DEF Visible
      <4>3. IsFiniteSet(Visible(scan.list, onSale'))
        <5>1. Visible(scan.list, onSale') \subseteq after
          BY <3>1, <4>1 DEF Visible
        <5>. QED  BY <3>2, <5>1, FS_Subset
      <4>4. Read(scan, Visible(scan.list, onSale'))
        BY <2>1, <4>1, <4>2, <4>3, ReadOn
      <4>. QED  BY <3>1, <4>1, <4>4
    <3>. QED  BY <2>3, <3>1, <3>4, <3>5 DEF OnItsWay, Read
  <2>. QED  BY <2>3, <2>4 DEF Scanning
<1>. QED  BY <1>1, <1>2

(* A scan starts: it has got nothing, and no row has place 0.              *)
LEMMA StartsScan ==
  ASSUME Inv, Dated, NEW user \in Users, ScanStarts(user)
  PROVE  Scanning'
<1>. DEFINE shown == Visible(Mine(tables, user), onSale)
            s     == [phase |-> "page", user |-> user, offset |-> 0, list |-> {},
                      got |-> {}, wanted |-> shown, lost |-> FALSE]
<1>1. scan' = s /\ tables' = tables /\ onSale' = onSale
  BY DEF ScanStarts
<1>2. shown \subseteq Rows /\ Apart(shown)
  BY FS_Subset DEF Visible, Mine, Inv, TypeOK, Lists, Dated, Apart
<1>. HIDE DEF shown
<1>3. s \in Scans
  BY <1>2 DEF Scans
<1>4. \A row \in shown : ~(Place(row, shown) <= 0)
  BY <1>2, PlacesAreDense
<1>5. OnItsWay(s, tables, onSale)
  BY <1>4 DEF OnItsWay, Read, shown
<1>. HIDE DEF s
<1>. QED  BY <1>1, <1>3, <1>5 DEF Scanning

(* What is selected is the list as it is; nothing was wanted of an empty   *)
(* one.                                                                    *)
LEMMA SelectedScan ==
  ASSUME Inv, Scanning, PageSelected
  PROVE  Scanning'
<1>. DEFINE mine == Mine(tables, scan.user)
            phase == IF mine = {} THEN "end" ELSE "batch"
            s == [scan EXCEPT !.list = mine, !.phase = phase]
<1>1. scan' = s /\ tables' = tables /\ onSale' = onSale /\ scan.phase = "page"
  BY DEF PageSelected
<1>2. scan \in Scans /\ (~scan.lost => OnItsWay(scan, tables, onSale))
  BY <1>1 DEF Scanning, Idle
<1>3. mine \subseteq Rows
  BY DEF Mine, Inv, TypeOK, Lists
<1>. HIDE DEF mine
<1>4. phase \in {"end", "batch"} /\ (phase = "end" => mine = {})
  OBVIOUS
<1>. HIDE DEF phase
<1>5. /\ s \in Scans /\ s.phase = phase /\ s.list = mine /\ s.user = scan.user
      /\ s.offset = scan.offset /\ s.got = scan.got /\ s.wanted = scan.wanted
      /\ s.lost = scan.lost
  BY <1>2, <1>3, <1>4 DEF Scans
<1>. HIDE DEF s
<1>6. ASSUME ~s.lost
      PROVE  OnItsWay(s, tables, onSale)
  <2>1. scan.wanted \subseteq Visible(mine, onSale) /\ Read(scan, Visible(mine, onSale))
    BY <1>1, <1>2, <1>5, <1>6 DEF OnItsWay, mine
  <2>2. Visible(mine, onSale) \subseteq mine
    BY DEF Visible
  <2>3. Read(s, Visible(s.list, onSale))
    BY <1>5, <2>1 DEF Read
  <2>4. s.wanted \subseteq s.list /\ (s.phase = "end" => s.wanted = {})
    BY <1>4, <1>5, <2>1, <2>2
  <2>5. s.phase # "page" /\ mine = Mine(tables, s.user)
    BY <1>4, <1>5 DEF mine
  <2>. QED  BY <1>5, <2>1, <2>3, <2>4, <2>5 DEF OnItsWay
<1>. QED  BY <1>1, <1>5, <1>6 DEF Scanning

(* The page is answered, of the list as it was selected and what is on     *)
(* sale now, or the call failed.                                           *)
LEMMA AnsweredScan ==
  ASSUME Inv, Dated, Scanning, PageAnswered
  PROVE  Scanning'
<1>. DEFINE mine  == Mine(tables, scan.user)
            shown == Visible(mine, onSale)
            list  == Visible(scan.list, onSale)
            page  == Page(scan.list, scan.offset)
            phase == IF Cardinality(page) < PageSize THEN "end" ELSE "page"
            s == [scan EXCEPT !.got = @ \cup page, !.offset = @ + PageSize,
                              !.list = {}, !.phase = phase]
            u == [scan EXCEPT !.list = {}, !.phase = "page"]
<1>1. /\ scan' = s \/ scan' = u
      /\ tables' = tables /\ onSale' = onSale /\ scan.phase = "batch"
  BY DEF PageAnswered
<1>2. scan \in Scans /\ (~scan.lost => OnItsWay(scan, tables, onSale))
  BY <1>1 DEF Scanning, Idle
<1>3. page = Cut(list, scan.offset) /\ page \subseteq list /\ list \subseteq Rows
  BY <1>2 DEF Page, Cut, Visible, Scans
<1>4. IsFiniteSet(mine) /\ Apart(mine) /\ IsFiniteSet(shown)
  BY FS_Subset DEF Mine, Visible, Dated, Apart, Lists
<1>5. ASSUME ~scan.lost
      PROVE  /\ scan.wanted \subseteq shown /\ scan.wanted \subseteq list
             /\ list \subseteq shown /\ Read(scan, list)
  BY <1>1, <1>2, <1>5 DEF OnItsWay, Visible
<1>6. CASE scan' = u
  <2>1. /\ u \in Scans /\ u.phase = "page" /\ u.user = scan.user /\ u.lost = scan.lost
        /\ u.offset = scan.offset /\ u.got = scan.got /\ u.wanted = scan.wanted
    BY <1>2 DEF Scans
  <2>. HIDE DEF u, list, shown
  <2>2. ASSUME ~u.lost
        PROVE  OnItsWay(u, tables, onSale)
    <3>1. Read(scan, shown)
      BY <1>2, <1>4, <1>5, <2>1, <2>2, ReadOn
    <3>. QED  BY <1>5, <2>1, <2>2, <3>1 DEF OnItsWay, Read, shown
  <2>. QED  BY <1>1, <1>6, <2>1, <2>2 DEF Scanning
<1>7. CASE scan' = s
  <2>. HIDE DEF page
  <2>1. scan.offset + PageSize \in Nat /\ scan.offset \in Nat /\ PageSize \in Nat
    BY <1>2, FavoritesAssumption DEF Scans
  <2>2. phase \in {"end", "page"} /\ (phase = "end" => Cardinality(page) < PageSize)
    OBVIOUS
  <2>3. page \subseteq Rows
    BY <1>3
  <2>. HIDE DEF phase
  <2>4. /\ s \in Scans /\ s.phase = phase /\ s.user = scan.user /\ s.lost = scan.lost
        /\ s.offset = scan.offset + PageSize /\ s.got = scan.got \cup page
        /\ s.wanted = scan.wanted
    BY <1>2, <2>1, <2>2, <2>3 DEF Scans
  <2>. HIDE DEF s, list, shown
  <2>5. ASSUME ~s.lost
        PROVE  OnItsWay(s, tables, onSale)
    <3>1. /\ scan.wanted \subseteq shown /\ scan.wanted \subseteq list
          /\ list \subseteq shown /\ Read(scan, list)
      BY <1>5, <2>4, <2>5
    <3>2. Apart(list)
      <4>1. list \subseteq mine
        BY <3>1 DEF shown, Visible
      <4>. QED  BY <1>4, <4>1, FS_Subset DEF Apart
    <3>3. Read(s, list)
      <4>. SUFFICES ASSUME NEW row \in scan.wanted, Place(row, list) <= scan.offset + PageSize
                    PROVE  row \in s.got
        BY <2>4 DEF Read
      <4>1. row \in list /\ Place(row, list) \in Nat
        BY <3>1, <3>2, PlacesAreDense
      <4>2. CASE Place(row, list) <= scan.offset
        BY <2>4, <3>1, <4>2 DEF Read
      <4>3. CASE Place(row, list) > scan.offset
        <5>1. Place(row, list) \in scan.offset + 1 .. scan.offset + PageSize
          BY <2>1, <4>1, <4>3
        <5>2. row \in Cut(list, scan.offset)
          BY <4>1, <5>1 DEF Cut
        <5>. QED  BY <1>3, <2>4, <5>2
      <4>. QED  BY <2>1, <4>1, <4>2, <4>3
    <3>4. Read(s, shown)
      BY <1>4, <2>4, <3>1, <3>3, ReadOn
    <3>5. s.phase = "end" => s.wanted \subseteq s.got
      <4>. SUFFICES ASSUME s.phase = "end", NEW row \in scan.wanted
                    PROVE  row \in s.got
        BY <2>4
      <4>1. row \in list
        BY <3>1
      <4>2. Cardinality(Cut(list, scan.offset)) < PageSize
        BY <1>3, <2>2, <2>4
      <4>3. Place(row, list) <= scan.offset + PageSize
        BY <2>1, <3>2, <4>1, <4>2, ShortPageIsLast
      <4>. QED  BY <2>4, <3>3, <4>3 DEF Read
    <3>6. s.phase # "batch"
      BY <2>2, <2>4
    <3>. QED  BY <2>4, <3>1, <3>4, <3>5, <3>6 DEF OnItsWay, shown
  <2>. QED  BY <1>1, <1>7, <2>4, <2>5 DEF Scanning
<1>. QED  BY <1>1, <1>6, <1>7

LEMMA NextScan ==
  ASSUME Inv, Dated, Dated', Scanning, [Next]_vars
  PROVE  Scanning'
<1>1. ASSUME tables' = tables, scan' = scan, onSale' = onSale
      PROVE  Scanning'
  BY <1>1 DEF Scanning
<1>2. ASSUME NEW r \in Requests, RequestStep(r)
      PROVE  Scanning'
  <2>1. CASE Inserted(r) \/ Deleted(r)
    BY <1>1, <2>1, WatchedScan DEF Inserted, Deleted
  <2>2. CASE ~(Inserted(r) \/ Deleted(r))
    BY <1>1, <1>2, <2>2 DEF RequestStep, Asked, Checked, Selected, Refreshed, Replied, Leaves,
                            Elsewhere
  <2>. QED  BY <2>1, <2>2
<1>3. CASE ScanStep
  BY <1>3, StartsScan, SelectedScan, AnsweredScan DEF ScanStep, ScanEnds, Scanning
<1>4. CASE \E product \in Products : Toggled(product)
  BY <1>4, WatchedScan DEF Toggled
<1>5. CASE UNCHANGED vars
  BY <1>1, <1>5 DEF vars
<1>. QED  BY <1>2, <1>3, <1>4, <1>5 DEF Next

(* A client that pages to the end of its favourites has seen every one it  *)
(* could see when it began, unless the list lost one on the way.           *)
THEOREM ScansAreComplete == Spec => []ScanMissesNothing
<1>1. Init => Scanning
  BY DEF Init, Scanning
<1>2. Scanning => ScanMissesNothing
  BY DEF Scanning, ScanMissesNothing, OnItsWay, Scans, Idle
<1>3. Inv /\ Dated /\ Scanning /\ [Next]_vars => (Inv /\ Dated /\ Scanning)'
  BY NextKeeps, NextDated, NextScan
<1>. QED  BY <1>1, <1>2, <1>3, InitInv, InitDated, PTL DEF Spec
=============================================================================

------------------------------ MODULE Favorites ------------------------------
(***************************************************************************)
(* Favourites and product subscriptions (FavoritesService): two tables of  *)
(* rows, one per user and product, written by requests that look, await    *)
(* and write, and read page by page by get_favorites.                      *)
(*                                                                         *)
(*   add, subscribe        Asked -> Checked (B2B) -> Selected -> Inserted  *)
(*                         -> Refreshed                                    *)
(*   remove, unsubscribe   Asked -> Selected -> Deleted -> Replied         *)
(*   one page of the list  PageSelected -> PageAnswered (B2B)              *)
(*                                                                         *)
(* A user is who the token names (Identity); a request without one ends    *)
(* before it gets here.  PUT is POST with a 204 for both 200 and 201.      *)
(***************************************************************************)
EXTENDS Integers, FiniteSets

CONSTANTS Users, Products,
          Requests,    \* requests in flight at the same time
          EventLists,  \* "events" of the bodies sent to subscribe, as sets
          PageSize,    \* "limit" of a client that pages through its list
          MaxRows,     \* bound on rows ever inserted
          MaxToggles,  \* bound on changes in the B2B
          None         \* no row

ASSUME FavoritesAssumption ==
  PageSize \in Nat \ {0} /\ MaxRows \in Nat /\ MaxToggles \in Nat

VARIABLES tables,   \* list -> its rows
          req,      \* coroutines of requests that look and write
          scan,     \* a client that pages through a user's favourites
          onSale,   \* in the B2B: products it answers with
          drawn,    \* rows created so far
          toggles

vars == <<tables, req, scan, onSale, drawn, toggles>>

Lists       == {"favorites", "subscriptions"}
ValidEvents == {"BACK_IN_STOCK", "PRICE_DROP"}
NoEvents    == {}
Idle        == [phase |-> "idle"]

(* A row is created in the transaction that its request began with the     *)
(* SELECT, so "at" stands for its id and for added_at, now(), as well.     *)
Rows == [at : 1 .. MaxRows, user : Users, product : Products, events : SUBSET ValidEvents]

RowsOf(table, user, product) == {row \in table : row.user = user /\ row.product = product}
Found(r) == RowsOf(tables[req[r].list], req[r].user, req[r].product)
-----------------------------------------------------------------------------
Init ==
  /\ tables = [list \in Lists |-> {}]
  /\ req = [r \in Requests |-> Idle]
  /\ scan = Idle
  /\ onSale = Products
  /\ drawn = 0
  /\ toggles = 0

Elsewhere == UNCHANGED <<scan, onSale, toggles>>

Become(r, new)    == req' = [req EXCEPT ![r] = new]
Goes(r, phase)    == Become(r, [req[r] EXCEPT !.phase = phase])
Answer(r, status) == Become(r, [phase |-> "answered", status |-> status])

(* "seen" is for properties: whether the row of the request was there, at  *)
(* the moments since it was sent.                                          *)
Waiting(r) == req[r].phase \notin {"idle", "answered"}
Seeing(k, t) == [k EXCEPT !.seen = @ \cup {RowsOf(t[k.list], k.user, k.product) # {}}]

(* What a COMMIT that leaves tables t changes, and the phase after it.     *)
Commit(r, t, phase) ==
  /\ tables' = t
  /\ req' = [q \in Requests |->
       IF ~Waiting(q) THEN req[q]
       ELSE Seeing(IF q = r THEN [req[q] EXCEPT !.phase = phase] ELSE req[q], t)]

(* A user's favourites, those of a list that can be seen, and whether the  *)
(* list a client scans has lost any of either since it started.            *)
Mine(t, user)       == {row \in t["favorites"] : row.user = user}
Visible(list, sale) == {row \in list : row.product \in sale}
Loses(t, sale) ==
  LET before == Mine(tables, scan.user)
      after  == Mine(t, scan.user)
  IN  ~(before \subseteq after /\ Visible(before, onSale) \subseteq Visible(after, sale))
Watched(t, sale) ==
  scan' = IF scan = Idle THEN scan ELSE [scan EXCEPT !.lost = @ \/ Loses(t, sale)]
-----------------------------------------------------------------------------
(* The request with its guards before the first await: a subscription      *)
(* names at least one event, and none but the valid ones.                  *)
Asked(r, list, sets, user, product, events) ==
  LET k == [list |-> list, sets |-> sets, user |-> user, product |-> product,
            events |-> events, row |-> None,
            phase |-> IF sets THEN "check" ELSE "select",
            seen |-> {RowsOf(tables[list], user, product) # {}}]
  IN  /\ req[r] = Idle
      /\ IF list = "subscriptions" /\ sets
         THEN events # {} /\ events \subseteq ValidEvents
         ELSE events = NoEvents
      /\ Become(r, k)
      /\ Elsewhere /\ UNCHANGED <<tables, drawn>>

(* The product in the B2B: 404 if it has none, 503 whenever the call fails.*)
Checked(r) ==
  /\ req[r].phase = "check"
  /\ \/ req[r].product \in onSale /\ Goes(r, "select")
     \/ req[r].product \notin onSale /\ Answer(r, 404)
     \/ Answer(r, 503)
  /\ Elsewhere /\ UNCHANGED <<tables, drawn>>

(* A favourite that is there is answered, a subscription is a conflict.    *)
Selected(r) ==
  /\ req[r].phase = "select"
  /\ \/ /\ Found(r) # {}
        /\ IF req[r].sets
           THEN Answer(r, IF req[r].list = "favorites" THEN 200 ELSE 409)
           ELSE \E row \in Found(r) :
                  Become(r, [req[r] EXCEPT !.phase = "delete", !.row = row])
        /\ UNCHANGED drawn
     \/ Found(r) = {} /\ ~req[r].sets /\ Answer(r, 204) /\ UNCHANGED drawn
     \/ /\ Found(r) = {} /\ req[r].sets
        /\ drawn < MaxRows
        /\ drawn' = drawn + 1
        /\ Become(r, [req[r] EXCEPT !.phase = "insert",
             !.row = [at |-> drawn', user |-> req[r].user,
                      product |-> req[r].product, events |-> req[r].events]])
  /\ Elsewhere /\ UNCHANGED tables

InsertedUnindexed(r) ==
  /\ req[r].phase = "insert"
  /\ Commit(r, [tables EXCEPT ![req[r].list] = @ \cup {req[r].row}], "refresh")
  /\ Watched(tables', onSale)
  /\ UNCHANGED <<onSale, drawn, toggles>>

(* The unique index over user and product: a row that came in between is   *)
(* an uncaught IntegrityError.                                             *)
Inserted(r) ==
  /\ req[r].phase = "insert"
  /\ IF Found(r) # {}
     THEN Answer(r, 500) /\ UNCHANGED <<tables, scan>>
     ELSE /\ Commit(r, [tables EXCEPT ![req[r].list] = @ \cup {req[r].row}], "refresh")
          /\ Watched(tables', onSale)
  /\ UNCHANGED <<onSale, drawn, toggles>>

(* The row is read back by its id: 500 if it has been deleted meanwhile.   *)
Refreshed(r) ==
  /\ req[r].phase = "refresh"
  /\ Answer(r, IF req[r].row \in tables[req[r].list] THEN 201 ELSE 500)
  /\ Elsewhere /\ UNCHANGED <<tables, drawn>>

DeletedUncommitted(r) ==
  /\ req[r].phase = "delete"
  /\ Goes(r, "reply")
  /\ Elsewhere /\ UNCHANGED <<tables, drawn>>

(* DELETE by id; that it meets no row is only a warning.                   *)
Deleted(r) ==
  /\ req[r].phase = "delete"
  /\ Commit(r, [tables EXCEPT ![req[r].list] = @ \ {req[r].row}], "reply")
  /\ Watched(tables', onSale)
  /\ UNCHANGED <<onSale, drawn, toggles>>

Replied(r) ==
  /\ req[r].phase = "reply"
  /\ Answer(r, 204)
  /\ Elsewhere /\ UNCHANGED <<tables, drawn>>

(* The client has the answer; or the process stops, and with it every      *)
(* coroutine, in the middle of whatever it was doing.                      *)
Leaves(r) ==
  /\ req[r] # Idle
  /\ Become(r, Idle)
  /\ Elsewhere /\ UNCHANGED <<tables, drawn>>
-----------------------------------------------------------------------------
(* get_favorites, by a client that asks for one page after the other until *)
(* a page is not full.                                                     *)
Place(row, list) == Cardinality({other \in list : other.at >= row.at})

ScanStarts(user) ==
  /\ scan = Idle
  /\ scan' = [phase |-> "page", user |-> user, offset |-> 0, list |-> {}, got |-> {},
              wanted |-> Visible(Mine(tables, user), onSale), lost |-> FALSE]
  /\ UNCHANGED <<tables, req, onSale, drawn, toggles>>

(* The whole list, which is a set of rows ordered by the time they were    *)
(* added, newest first.                                                    *)
PageSelected ==
  /\ scan.phase = "page"
  /\ LET list == Mine(tables, scan.user)
     IN  scan' = [scan EXCEPT !.list = list,
                              !.phase = IF list = {} THEN "end" ELSE "batch"]
  /\ UNCHANGED <<tables, req, onSale, drawn, toggles>>

(* Products the B2B does not return are left out before the page is cut:   *)
(* enriched_items[offset : offset + limit].  A failed call is a 503, and   *)
(* the client asks again.                                                  *)
Cut(list, offset) == {row \in list : Place(row, list) \in offset + 1 .. offset + PageSize}
FilteredPage(list, offset) == Visible(Cut(list, offset), onSale)
Page(list, offset) == Cut(Visible(list, onSale), offset)

PageAnswered ==
  /\ scan.phase = "batch"
  /\ LET page == Page(scan.list, scan.offset)
     IN  \/ scan' = [scan EXCEPT !.got = @ \cup page,
                                 !.offset = @ + PageSize,
                                 !.list = {},
                                 !.phase = IF Cardinality(page) < PageSize
                                           THEN "end" ELSE "page"]
         \/ scan' = [scan EXCEPT !.list = {}, !.phase = "page"]
  /\ UNCHANGED <<tables, req, onSale, drawn, toggles>>

ScanEnds ==
  /\ scan.phase = "end"
  /\ scan' = Idle
  /\ UNCHANGED <<tables, req, onSale, drawn, toggles>>

(* The B2B blocks a product, or lets it be seen again.                     *)
Toggled(product) ==
  /\ toggles < MaxToggles
  /\ toggles' = toggles + 1
  /\ onSale' = IF product \in onSale THEN onSale \ {product} ELSE onSale \cup {product}
  /\ UNCHANGED <<tables, req, drawn>>
  /\ Watched(tables, onSale')

RequestStep(r) ==
  \/ \E list \in Lists, sets \in BOOLEAN, user \in Users, product \in Products,
        events \in EventLists : Asked(r, list, sets, user, product, events)
  \/ Checked(r)
  \/ Selected(r)
  \/ Inserted(r)
  \/ Refreshed(r)
  \/ Deleted(r)
  \/ Replied(r)
  \/ Leaves(r)

ScanStep ==
  \/ \E user \in Users : ScanStarts(user)
  \/ PageSelected
  \/ PageAnswered
  \/ ScanEnds

Next ==
  \/ \E r \in Requests : RequestStep(r)
  \/ ScanStep
  \/ \E product \in Products : Toggled(product)

Spec == Init /\ [][Next]_vars

(* A client that reads its list has at most one writer beside it: a scan   *)
(* only sees what commits leave, and racing writers commit nothing that    *)
(* writers one after the other could not.                                  *)
Writing == {r \in Requests : req[r] # Idle}
OneWriterBesideAScan == scan' # Idle => Cardinality(Writing') <= 1
-----------------------------------------------------------------------------
Statuses   == {200, 201, 204, 404, 409, 500, 503}
Answered   == [phase : {"answered"}, status : Statuses]
Coroutines ==
  [phase : {"check", "select", "insert", "refresh", "delete", "reply"},
   list : Lists, sets : BOOLEAN, user : Users, product : Products,
   events : SUBSET ValidEvents, row : Rows \cup {None}, seen : SUBSET BOOLEAN]

(* A coroutine past its SELECT has the row it is about, which is of its    *)
(* own user and product.                                                   *)
Consistent(k) ==
  /\ k.phase \in {"check", "insert", "refresh"} => k.sets
  /\ k.phase \in {"delete", "reply"} => ~k.sets
  /\ k.phase \notin {"check", "select"} =>
       k.row \in Rows /\ k.row.user = k.user /\ k.row.product = k.product

(* Rows satisfy the constraints of their tables, the unique index over     *)
(* user and product among them, and coroutines are consistent.             *)
TypeOK ==
  /\ tables \in [Lists -> SUBSET Rows]
  /\ \A list \in Lists : \A row, other \in tables[list] :
       row.user = other.user /\ row.product = other.product => row = other
  /\ req \in [Requests -> {Idle} \cup Answered \cup Coroutines]
  /\ \A r \in Requests : Waiting(r) => Consistent(req[r])
  /\ onSale \subseteq Products
  /\ drawn \in 0 .. MaxRows
  /\ toggles \in 0 .. MaxToggles

(* A client that reads its favourites to the end, page by page, has seen   *)
(* every one it could see when it began, although others are added         *)
(* meanwhile, products come back on sale and requests fail, unless the list*)
(* lost one on the way: pages are cut after the unavailable are left out,  *)
(* so a loss, and only a loss, moves what follows to a page already read.  *)
(* To remove a favourite that cannot be seen is a loss as well: its product*)
(* may come back on sale between the SELECT and the B2B's answer.          *)
ScanMissesNothing ==
  scan.phase = "end" /\ ~scan.lost => scan.wanted \subseteq scan.got

(* The two tables as the one set of marks of ProductMarks, and what there  *)
(* is to say of a coroutine there.                                         *)
MarkOf(list, k) == <<list, k.user, k.product>>
MarksIn(t) == UNION {{MarkOf(list, row) : row \in t[list]} : list \in Lists}

Said(status) == CASE status = 201          -> "set"
                  [] status \in {200, 409} -> "present"
                  [] status = 204          -> "absent"
                  [] status \in {404, 503} -> "refused"
                  [] status = 500          -> "disturbed"

CallOf(k) ==
  CASE k.phase = "idle"     -> [state |-> "idle"]
    [] k.phase = "answered" -> [state |-> "answered", said |-> Said(k.status)]
    [] OTHER                -> [state |-> "open", mark |-> MarkOf(k.list, k), sets |-> k.sets,
                                acted |-> k.phase \in {"refresh", "reply"}, seen |-> k.seen]

Abstract == INSTANCE ProductMarks WITH
  Calls  <- Requests,
  Marks  <- Lists \X Users \X Products,
  marked <- MarksIn(tables),
  call   <- [r \in Requests |-> CallOf(req[r])]

(* Whatever races (two adds from two devices, an add and a removal, a      *)
(* restart), a request changes only its own user's mark of its own         *)
(* product, once, and what it answers was so while it ran: 201 means this  *)
(* request created the row, 200 and 409 that it was there, 204 that it was *)
(* gone; a 500 is answered only where another request changed the mark     *)
(* meanwhile.                                                              *)
KeepsMarksPromise == Abstract!Spec
=============================================================================

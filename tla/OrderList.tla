------------------------------ MODULE OrderList -----------------------------
(***************************************************************************)
(* The lists of orders: a buyer's history and the operator's, with its     *)
(* filters, read page by page while orders are placed and move on.  Both   *)
(* services build the same two statements, a count and a page.             *)
(*                                                                         *)
(* Placing and moving are Checkout and OrderLifecycle; of an order, only   *)
(* its buyer and status matter here.  created_at is taken before the       *)
(* INSERT is committed, so an order may appear behind others.              *)
(***************************************************************************)
EXTENDS Integers, Sequences, FiniteSets

CONSTANTS Buyers,
          States,     \* of status
          Queries,    \* filters of a client, see Query
          PageLimit,  \* "limit" of a client
          MaxOrders,  \* bound on orders ever begun
          Unset       \* not given, not stored yet

(* Without dates, from and until are the first and the last moment.  A     *)
(* buyer's query always has a buyer.                                       *)
Query == [buyer : Buyers \cup {Unset}, status : States \cup {Unset},
          from : 1 .. MaxOrders, until : 1 .. MaxOrders]

ASSUME OrderListAssumption ==
  /\ PageLimit \in Nat \ {0}
  /\ MaxOrders \in Nat
  /\ Queries \subseteq Query

VARIABLES orders,  \* in the order of created_at
          list     \* a client that pages through one list

listVars == <<orders, list>>

Unasked == [phase |-> "idle"]

ListInit == orders = <<>> /\ list = Unasked

(* The WHERE of a query, over orders o.                                    *)
Matching(o, query) ==
  {n \in DOMAIN o : /\ o[n].status # Unset
                    /\ query.buyer \in {Unset, o[n].buyer}
                    /\ query.status \in {Unset, o[n].status}
                    /\ query.from <= n /\ n <= query.until}

(* What the client of a scan is owed when a commit leaves orders o: what   *)
(* has matched at some moment, and whether the list has lost any of it.    *)
Followed(o) ==
  list' = IF list = Unasked THEN list
          ELSE LET old == Matching(orders, list.query)
                   new == Matching(o, list.query)
               IN  [list EXCEPT !.ever = @ \cup new,
                                !.lost = @ \/ ~(old \subseteq new),
                                !.quiet = @ /\ old = new]
-----------------------------------------------------------------------------
Begun(buyer) ==
  /\ Len(orders) < MaxOrders
  /\ orders' = Append(orders, [buyer |-> buyer, status |-> Unset])
  /\ UNCHANGED list

Placed(n) ==
  /\ orders[n].status = Unset
  /\ orders' = [orders EXCEPT ![n].status = "PAID"]
  /\ Followed(orders')

(* An order is paid when it is placed, and moves on from there only.       *)
Moved(n, status) ==
  /\ orders[n].status \notin {Unset, status}
  /\ status # "PAID"
  /\ orders' = [orders EXCEPT ![n].status = status]
  /\ Followed(orders')
-----------------------------------------------------------------------------
ListStarts(query) ==
  /\ list = Unasked
  /\ LET now == Matching(orders, query)
     IN  list' = [phase |-> "count", query |-> query, offset |-> 0, total |-> 0,
                  got |-> {}, page |-> {},
                  wanted |-> now, ever |-> now, lost |-> FALSE, quiet |-> TRUE]
  /\ UNCHANGED orders

CountEverything(query) == Cardinality({n \in DOMAIN orders : orders[n].status # Unset})
Count(query) == Cardinality(Matching(orders, query))

(* "quiet" is whether nothing of the list has changed since the count.     *)
Counted ==
  /\ list.phase = "count"
  /\ list' = [list EXCEPT !.phase = "page", !.total = Count(list.query), !.quiet = TRUE]
  /\ UNCHANGED orders

(* ORDER BY, LIMIT and OFFSET: newest first, by places from 1.             *)
NewerOfStatus(m, n) ==
  IF orders[m].status = orders[n].status THEN m > n ELSE orders[n].status = "PAID"
Newer(m, n) == m > n

Rank(n, found) == Cardinality({m \in found : m = n \/ Newer(m, n)})
Slice(found, offset) == {n \in found : Rank(n, found) \in offset + 1 .. offset + PageLimit}

(* The client goes on until a page is not full.                            *)
PageSelected ==
  /\ list.phase = "page"
  /\ LET page == Slice(Matching(orders, list.query), list.offset)
     IN  list' = [list EXCEPT
           !.page = page,
           !.got = @ \cup page,
           !.offset = @ + PageLimit,
           !.phase = IF Cardinality(page) < PageLimit THEN "end" ELSE "count"]
  /\ UNCHANGED orders

ListEnds ==
  /\ list.phase = "end"
  /\ list' = Unasked
  /\ UNCHANGED orders

ListNext ==
  \/ \E buyer \in Buyers : Begun(buyer)
  \/ \E n \in DOMAIN orders : Placed(n) \/ \E status \in States : Moved(n, status)
  \/ \E query \in Queries : ListStarts(query)
  \/ Counted
  \/ PageSelected
  \/ ListEnds

ListSpec == ListInit /\ [][ListNext]_listVars
-----------------------------------------------------------------------------
(* A client that has paged to the end has seen nothing that did not match  *)
(* its filters while it read (another buyer's order, least of all), and    *)
(* every order that matched when it began, although orders were placed     *)
(* before and behind those it had read; unless an order left the list by   *)
(* its status, which moves what follows to a page already read.            *)
ListTellsTheTruth ==
  list.phase = "end" =>
    /\ list.got \subseteq list.ever
    /\ ~list.lost => list.wanted \subseteq list.got

(* The total that comes with a page, of which it says how many pages       *)
(* follow, is that of the list the page is cut from, unless the list       *)
(* changed between the two statements.                                     *)
TotalFitsPages ==
  list.phase \in {"end", "count"} /\ list.offset > 0 /\ list.quiet =>
    LET rest == list.total - (list.offset - PageLimit)
    IN  Cardinality(list.page) =
          IF rest > PageLimit THEN PageLimit ELSE IF rest < 0 THEN 0 ELSE rest
=============================================================================

--------------------------- MODULE OrderListProofs --------------------------
(***************************************************************************)
(* Theorems about OrderList, for any buyers, statuses and queries, pages   *)
(* of any size and any number of orders.                                   *)
(***************************************************************************)
EXTENDS OrderList, TLAPS, FiniteSetTheorems, FunctionTheorems

(* In a longer list an order has more before it.                           *)
LEMMA RankGrows ==
  ASSUME NEW long, NEW found \in SUBSET long, IsFiniteSet(long), NEW n
  PROVE  /\ Rank(n, found) \in Nat /\ Rank(n, long) \in Nat
         /\ Rank(n, found) <= Rank(n, long)
<1>. DEFINE before(l) == {m \in l : m = n \/ Newer(m, n)}
<1>1. IsFiniteSet(before(long)) /\ before(found) \subseteq before(long)
  BY FS_Subset
<1>2. IsFiniteSet(before(found)) /\ Cardinality(before(found)) <= Cardinality(before(long))
  BY <1>1, FS_Subset
<1>. QED  BY <1>1, <1>2, FS_CardinalityType DEF Rank

(* The places of a list are the numbers from 1 to its length, each once.   *)
LEMMA RanksAreDense ==
  ASSUME NEW found \in SUBSET Nat, IsFiniteSet(found)
  PROVE  /\ Cardinality(found) \in Nat
         /\ \A n \in found : Rank(n, found) \in 1 .. Cardinality(found)
         /\ \A m, n \in found : Rank(m, found) = Rank(n, found) => m = n
         /\ \A i \in 1 .. Cardinality(found) : \E n \in found : Rank(n, found) = i
<1>. DEFINE before(n) == {m \in found : m = n \/ Newer(m, n)}
            rank  == [n \in found |-> Rank(n, found)]
            count == Cardinality(found)
<1>1. count \in Nat
  BY FS_CardinalityType
<1>2. \A n \in found : /\ IsFiniteSet(before(n)) /\ Cardinality(before(n)) \in Nat
                       /\ Cardinality(before(n)) <= count
                       /\ Rank(n, found) = Cardinality(before(n))
  BY <1>1, FS_Subset, FS_CardinalityType DEF Rank
<1>3. ASSUME NEW n \in found
      PROVE  Cardinality(before(n)) # 0
  <2>1. n \in before(n)
    OBVIOUS
  <2>. QED  BY <1>2, <2>1, FS_EmptySet
<1>4. ASSUME NEW n \in found
      PROVE  Rank(n, found) \in 1 .. count
  <2>1. Rank(n, found) \in Nat /\ Rank(n, found) # 0 /\ Rank(n, found) <= count
    BY <1>2, <1>3
  <2>. HIDE DEF count
  <2>. QED  BY <1>1, <2>1
<1>5. ASSUME NEW m \in found, NEW n \in found, Newer(m, n)
      PROVE  Rank(m, found) # Rank(n, found)
  <2>1. before(m) \subseteq before(n)
    <3>. SUFFICES ASSUME NEW x \in found, x = m \/ Newer(x, m)
                  PROVE  x = n \/ Newer(x, n)
      OBVIOUS
    <3>. QED  BY <1>5 DEF Newer
  <2>2. n \in before(n) /\ n \notin before(m)
    BY <1>5 DEF Newer
  <2>3. Cardinality(before(m)) # Cardinality(before(n))
    BY <1>2, <2>1, <2>2, FS_Subset
  <2>. QED  BY <1>2, <2>3
<1>6. \A m, n \in found : Rank(m, found) = Rank(n, found) => m = n
  BY <1>5 DEF Newer
<1>7. rank \in Injection(found, 1 .. count)
  BY <1>4, <1>6, Fun_IsInj
<1>8. IsFiniteSet(1 .. count) /\ Cardinality(1 .. count) = IF 1 > count THEN 0 ELSE count - 1 + 1
  BY <1>1, FS_Interval
<1>9. Cardinality(1 .. count) = count
  BY <1>1, <1>8
<1>10. rank \in Surjection(found, 1 .. count)
  BY <1>7, <1>8, <1>9, FS_Injection
<1>11. \A i \in 1 .. count : \E n \in found : rank[n] = i
  <2>. HIDE DEF rank
  <2>. QED  BY <1>10, Fun_SurjectionProperties
<1>. QED  BY <1>1, <1>4, <1>6, <1>11

(* How many of "found" are on the page behind the first "offset".          *)
OnPage(rest) == IF rest > PageLimit THEN PageLimit ELSE IF rest < 0 THEN 0 ELSE rest

LEMMA SliceIsFull ==
  ASSUME NEW found \in SUBSET Nat, IsFiniteSet(found), NEW offset \in Nat
  PROVE  /\ IsFiniteSet(Slice(found, offset))
         /\ Cardinality(Slice(found, offset)) = OnPage(Cardinality(found) - offset)
<1>. DEFINE page  == Slice(found, offset)
            count == Cardinality(found)
            to    == IF offset + PageLimit < count THEN offset + PageLimit ELSE count
            span  == offset + 1 .. to
            rank  == [n \in page |-> Rank(n, found)]
<1>1. PageLimit \in Nat \ {0} /\ count \in Nat
  BY OrderListAssumption, RanksAreDense
<1>2. IsFiniteSet(page)
  BY FS_Subset DEF Slice
<1>3. \A n \in page : Rank(n, found) \in span
  BY <1>1, RanksAreDense DEF Slice
<1>4. \A m, n \in page : rank[m] = rank[n] => m = n
  BY RanksAreDense DEF Slice
<1>5. \A i \in span : \E n \in page : rank[n] = i
  <2>. SUFFICES ASSUME NEW i \in span
                PROVE  \E n \in page : Rank(n, found) = i
    OBVIOUS
  <2>1. i \in 1 .. count /\ i \in offset + 1 .. offset + PageLimit
    BY <1>1
  <2>2. PICK n \in found : Rank(n, found) = i
    BY <2>1, RanksAreDense
  <2>. QED  BY <2>1, <2>2 DEF Slice
<1>6. rank \in [page -> span]
  BY <1>3
<1>7. rank \in Surjection(page, span) /\ rank \in Injection(page, span)
  BY <1>4, <1>5, <1>6, Fun_IsSurj, Fun_IsInj
<1>8. /\ IsFiniteSet(span) /\ to \in Nat
      /\ Cardinality(span) = IF offset + 1 > to THEN 0 ELSE to - (offset + 1) + 1
  <2>1. to \in Nat
    BY <1>1
  <2>. HIDE DEF to
  <2>. QED  BY <2>1, FS_Interval
<1>9. Cardinality(page) = Cardinality(span)
  <2>1. Cardinality(span) <= Cardinality(page)
    BY <1>2, <1>7, FS_Surjection
  <2>2. Cardinality(page) <= Cardinality(span)
    BY <1>7, <1>8, FS_Injection
  <2>3. Cardinality(page) \in Nat /\ Cardinality(span) \in Nat
    BY <1>2, <1>8, FS_CardinalityType
  <2>. HIDE DEF page, span
  <2>. QED  BY <2>1, <2>2, <2>3
<1>. HIDE DEF count, page, span
<1>10. Cardinality(page) = OnPage(count - offset)
  BY <1>1, <1>8, <1>9 DEF OnPage
<1>. QED  BY <1>2, <1>10 DEF count, page
-----------------------------------------------------------------------------
(* The list a client pages through: what it has got did match, and, as     *)
(* long as nothing was lost, all it wanted is still there, what is on the  *)
(* pages before the offset it has got; and the total is that of the list   *)
(* while nothing has changed since it was counted.                         *)
Stored == [buyer : Buyers, status : States \cup {"PAID", Unset}]
Lists  == [phase : {"count", "page", "end"}, query : Queries, offset : Nat, total : Nat,
           got : SUBSET Nat, page : SUBSET Nat, wanted : SUBSET Nat, ever : SUBSET Nat,
           lost : BOOLEAN, quiet : BOOLEAN]

Got(l, now)      == \A n \in l.wanted : Rank(n, now) <= l.offset => n \in l.got
Told(l, now)     == /\ l.got \subseteq l.ever /\ now \subseteq l.ever
                    /\ ~l.lost => /\ l.wanted \subseteq now
                                  /\ l.phase # "end" => Got(l, now)
                                  /\ l.phase = "end" => l.wanted \subseteq l.got
Totalled(l, now) ==
  /\ l.phase = "page" /\ l.quiet => l.total = Cardinality(now)
  /\ l.phase # "page" /\ l.offset > 0 /\ l.quiet =>
       Cardinality(l.page) = OnPage(l.total - (l.offset - PageLimit))

Paging ==
  /\ orders \in Seq(Stored)
  /\ \/ list = Unasked
     \/ /\ list \in Lists
        /\ Told(list, Matching(orders, list.query))
        /\ Totalled(list, Matching(orders, list.query))

LEMMA MatchingIsFinite ==
  ASSUME NEW o \in Seq(Stored), NEW query
  PROVE  Matching(o, query) \in SUBSET Nat /\ IsFiniteSet(Matching(o, query))
<1>1. Len(o) \in Nat /\ DOMAIN o = 1 .. Len(o)
  OBVIOUS
<1>2. IsFiniteSet(1 .. Len(o))
  BY <1>1, FS_Interval
<1>3. Matching(o, query) \subseteq 1 .. Len(o)
  BY <1>1 DEF Matching
<1>. QED  BY <1>2, <1>3, FS_Subset

LEMMA InitPages == ListInit => Paging
BY DEF ListInit, Paging

(* Orders are placed or moved under a client that pages.                   *)
LEMMA FollowedPages ==
  ASSUME Paging, orders' \in Seq(Stored), Followed(orders')
  PROVE  Paging'
<1>1. CASE list = Unasked
  BY <1>1 DEF Followed, Paging
<1>2. CASE list # Unasked
  <2>. DEFINE old == Matching(orders, list.query)
              new == Matching(orders', list.query)
              l   == [list EXCEPT !.ever = @ \cup new,
                                  !.lost = @ \/ ~(old \subseteq new),
                                  !.quiet = @ /\ old = new]
  <2>1. list \in Lists /\ Told(list, old) /\ Totalled(list, old) /\ list' = l
    BY <1>2 DEF Paging, Followed
  <2>2. new \in SUBSET Nat /\ IsFiniteSet(new)
    BY MatchingIsFinite
  <2>. HIDE DEF old, new
  <2>3. /\ l \in Lists /\ l.phase = list.phase /\ l.query = list.query
        /\ l.offset = list.offset /\ l.total = list.total /\ l.got = list.got
        /\ l.page = list.page /\ l.wanted = list.wanted
        /\ l.ever = list.ever \cup new
        /\ (l.lost <=> list.lost \/ ~(old \subseteq new))
        /\ (l.quiet <=> list.quiet /\ old = new)
    BY <2>1, <2>2 DEF Lists
  <2>. HIDE DEF l
  <2>4. ASSUME ~l.lost, Got(list, old)
        PROVE  Got(l, new)
    <3>. SUFFICES ASSUME NEW n \in list.wanted, Rank(n, new) <= list.offset
                  PROVE  n \in list.got
      BY <2>3 DEF Got
    <3>1. /\ Rank(n, old) \in Nat /\ Rank(n, new) \in Nat /\ list.offset \in Nat
          /\ Rank(n, old) <= Rank(n, new)
      BY <2>1, <2>2, <2>3, <2>4, RankGrows DEF Lists
    <3>. QED  BY <2>4, <3>1 DEF Got
  <2>5. Told(l, new)
    BY <2>1, <2>3, <2>4 DEF Told
  <2>6. Totalled(l, new)
    BY <2>1, <2>3 DEF Totalled
  <2>. QED  BY <2>1, <2>3, <2>5, <2>6 DEF Paging, new
<1>. QED  BY <1>1, <1>2

(* What has begun is in no list.                                           *)
LEMMA BegunPages ==
  ASSUME Paging, NEW buyer \in Buyers, Begun(buyer)
  PROVE  Paging'
<1>. DEFINE order == [buyer |-> buyer, status |-> Unset]
<1>1. order \in Stored /\ orders \in Seq(Stored) /\ orders' = Append(orders, order)
  BY DEF Begun, Stored, Paging
<1>2. orders' \in Seq(Stored)
  BY <1>1
<1>3. Matching(orders', list.query) = Matching(orders, list.query)
  <2>1. DOMAIN orders' = 1 .. Len(orders) + 1 /\ DOMAIN orders = 1 .. Len(orders)
    BY <1>1
  <2>2. /\ \A n \in 1 .. Len(orders) : orders'[n] = orders[n]
        /\ orders'[Len(orders) + 1].status = Unset
    BY <1>1
  <2>3. ASSUME NEW n
        PROVE  n \in Matching(orders', list.query) <=> n \in Matching(orders, list.query)
    BY <2>1, <2>2 DEF Matching
  <2>. QED  BY <2>3
<1>. QED  BY <1>2, <1>3 DEF Begun, Paging

LEMMA StartsPages ==
  ASSUME Paging, NEW query \in Queries, ListStarts(query)
  PROVE  Paging'
<1>. DEFINE now == Matching(orders, query)
            l == [phase |-> "count", query |-> query, offset |-> 0, total |-> 0,
                  got |-> {}, page |-> {},
                  wanted |-> now, ever |-> now, lost |-> FALSE, quiet |-> TRUE]
<1>1. orders' = orders /\ list' = l /\ orders \in Seq(Stored)
  BY DEF ListStarts, Paging
<1>2. now \in SUBSET Nat /\ IsFiniteSet(now)
  BY <1>1, MatchingIsFinite
<1>3. \A n \in now : ~(Rank(n, now) <= 0)
  BY <1>2, RanksAreDense
<1>. HIDE DEF now
<1>4. l \in Lists
  BY <1>2 DEF Lists
<1>5. Told(l, now) /\ Totalled(l, now) /\ l.query = query
  BY <1>3 DEF Told, Totalled, Got
<1>. HIDE DEF l
<1>. QED  BY <1>1, <1>4, <1>5 DEF Paging, now

LEMMA CountedPages ==
  ASSUME Paging, Counted
  PROVE  Paging'
<1>. DEFINE now == Matching(orders, list.query)
            l == [list EXCEPT !.phase = "page", !.total = Count(list.query), !.quiet = TRUE]
<1>1. /\ orders' = orders /\ list' = l /\ orders \in Seq(Stored) /\ list.phase = "count"
      /\ list \in Lists /\ Told(list, now)
  BY DEF Counted, Paging, Unasked
<1>2. Count(list.query) = Cardinality(now) /\ Cardinality(now) \in Nat
  BY <1>1, MatchingIsFinite, FS_CardinalityType DEF Count
<1>. HIDE DEF now
<1>3. /\ l \in Lists /\ l.phase = "page" /\ l.query = list.query /\ l.offset = list.offset
      /\ l.got = list.got /\ l.wanted = list.wanted /\ l.ever = list.ever
      /\ l.lost = list.lost /\ l.total = Cardinality(now)
  BY <1>1, <1>2 DEF Lists
<1>. HIDE DEF l
<1>4. Told(l, now) /\ Totalled(l, now)
  BY <1>1, <1>3 DEF Told, Totalled, Got
<1>. QED  BY <1>1, <1>3, <1>4 DEF Paging, now

LEMMA SelectedPages ==
  ASSUME Paging, PageSelected
  PROVE  Paging'
<1>. DEFINE now   == Matching(orders, list.query)
            page  == Slice(now, list.offset)
            phase == IF Cardinality(page) < PageLimit THEN "end" ELSE "count"
            l == [list EXCEPT !.page = page, !.got = @ \cup page,
                              !.offset = @ + PageLimit, !.phase = phase]
<1>1. /\ orders' = orders /\ list' = l /\ orders \in Seq(Stored) /\ list.phase = "page"
      /\ list \in Lists /\ Told(list, now) /\ Totalled(list, now)
  BY DEF PageSelected, Paging, Unasked
<1>2. now \in SUBSET Nat /\ IsFiniteSet(now) /\ list.offset \in Nat /\ PageLimit \in Nat \ {0}
  BY <1>1, MatchingIsFinite, OrderListAssumption DEF Lists
<1>. HIDE DEF now
<1>3. page \subseteq now
  BY DEF Slice
<1>4. Cardinality(page) = OnPage(Cardinality(now) - list.offset)
  BY <1>2, SliceIsFull
<1>5. \A n \in now : Rank(n, now) \in 1 .. Cardinality(now)
  BY <1>2, RanksAreDense
<1>6. Cardinality(now) \in Nat
  BY <1>2, FS_CardinalityType
<1>7. ASSUME NEW n \in now, Rank(n, now) <= list.offset + PageLimit
      PROVE  Rank(n, now) <= list.offset \/ n \in page
  BY <1>2, <1>5, <1>6, <1>7 DEF Slice
<1>. HIDE DEF page
<1>8. /\ phase \in {"end", "count"}
      /\ phase = "end" => Cardinality(now) <= list.offset + PageLimit
  BY <1>2, <1>4, <1>6 DEF OnPage
<1>. HIDE DEF phase
<1>9. list.offset + PageLimit \in Nat /\ page \in SUBSET Nat
  BY <1>2, <1>3
<1>10. /\ l \in Lists /\ l.phase = phase /\ l.query = list.query
       /\ l.offset = list.offset + PageLimit
       /\ l.page = page /\ l.got = list.got \cup page /\ l.wanted = list.wanted
       /\ l.ever = list.ever /\ l.lost = list.lost /\ l.total = list.total
       /\ l.quiet = list.quiet
  BY <1>1, <1>8, <1>9 DEF Lists
<1>. HIDE DEF l
<1>11. ASSUME ~l.lost
       PROVE  /\ l.wanted \subseteq now /\ Got(l, now)
              /\ l.phase = "end" => l.wanted \subseteq l.got
  <2>1. list.wanted \subseteq now /\ Got(list, now)
    BY <1>1, <1>10, <1>11 DEF Told
  <2>2. Got(l, now)
    BY <1>7, <1>10, <2>1 DEF Got
  <2>3. ASSUME l.phase = "end", NEW n \in l.wanted
        PROVE  n \in l.got
    <3>1. n \in now /\ Rank(n, now) \in 1 .. Cardinality(now)
      BY <1>5, <1>10, <2>1
    <3>2. Rank(n, now) <= l.offset
      BY <1>2, <1>6, <1>8, <1>10, <2>3, <3>1
    <3>. QED  BY <2>2, <2>3, <3>2 DEF Got
  <2>. QED  BY <1>10, <2>1, <2>2, <2>3
<1>12. Told(l, now)
  BY <1>1, <1>3, <1>10, <1>11 DEF Told
<1>13. Totalled(l, now)
  <2>1. l.phase # "page"
    BY <1>8, <1>10
  <2>2. l.offset - PageLimit = list.offset
    BY <1>2, <1>10
  <2>. QED  BY <1>1, <1>4, <1>10, <2>1, <2>2 DEF Totalled
<1>. QED  BY <1>1, <1>10, <1>12, <1>13 DEF Paging, now

LEMMA StepPages == Paging /\ [ListNext]_listVars => Paging'
<1>. SUFFICES ASSUME Paging, [ListNext]_listVars
              PROVE  Paging'
  OBVIOUS
<1>1. ASSUME NEW n \in DOMAIN orders, Placed(n)
      PROVE  Paging'
  <2>1. orders \in Seq(Stored) /\ orders[n] \in Stored
    BY DEF Paging
  <2>2. [orders[n] EXCEPT !.status = "PAID"] \in Stored
    BY <2>1 DEF Stored
  <2>3. orders' \in Seq(Stored)
    BY <1>1, <2>1, <2>2 DEF Placed
  <2>. QED  BY <1>1, <2>3, FollowedPages DEF Placed
<1>2. ASSUME NEW n \in DOMAIN orders, NEW status \in States, Moved(n, status)
      PROVE  Paging'
  <2>1. orders \in Seq(Stored) /\ orders[n] \in Stored
    BY DEF Paging
  <2>2. [orders[n] EXCEPT !.status = status] \in Stored
    BY <2>1 DEF Stored
  <2>3. orders' \in Seq(Stored)
    BY <1>2, <2>1, <2>2 DEF Moved
  <2>. QED  BY <1>2, <2>3, FollowedPages DEF Moved
<1>3. CASE ListEnds
  BY <1>3 DEF ListEnds, Paging
<1>4. CASE UNCHANGED listVars
  BY <1>4 DEF listVars, Paging
<1>. QED
  BY <1>1, <1>2, <1>3, <1>4, BegunPages, StartsPages, CountedPages, SelectedPages DEF ListNext

LEMMA AlwaysPaging == ListSpec => []Paging
BY InitPages, StepPages, PTL DEF ListSpec

(* Whoever pages to the end of a list of orders has seen all that was in   *)
(* it from the beginning, and nothing that was never in it.                *)
THEOREM ListsTellTheTruth == ListSpec => []ListTellsTheTruth
<1>1. Paging => ListTellsTheTruth
  BY DEF Paging, Told, Unasked, ListTellsTheTruth
<1>. QED  BY <1>1, AlwaysPaging, PTL

(* The total that comes with a page is that of the list it is cut from.    *)
THEOREM TotalsFitPages == ListSpec => []TotalFitsPages
<1>1. Paging => TotalFitsPages
  BY DEF Paging, Totalled, OnPage, Unasked, TotalFitsPages
<1>. QED  BY <1>1, AlwaysPaging, PTL
=============================================================================

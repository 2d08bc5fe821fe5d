--------------------------- MODULE CheckoutProofs ---------------------------
(***************************************************************************)
(* Theorems about Checkout for any finite number of attempts, any buyers,  *)
(* keys, SKUs, prices, carts and bodies, and both kinds of B2B.                  *)
(*                                                                         *)
(* The invariant Settled is the conjunction of                             *)
(*   Typed     the shape of every variable, with what an attempt must      *)
(*             know in each phase,                                         *)
(*   Owned     a stored order is the row its own attempt committed, and an *)
(*             attempt about to read its order back has one,               *)
(*   Answered  an attempt answered 201 was given an order under its key,   *)
(*   KeysOnce  no key has two orders,                                      *)
(*   Numbered  the numbers are 1 .. n, and a number already computed is    *)
(*             at most n + 1: orders are never deleted, so it can only     *)
(*             fall behind,                                                *)
(*   Accounted goods are reserved, or about to be, only for attempts that  *)
(*             came past the reserve call.                                 *)
(***************************************************************************)
EXTENDS Checkout, FiniteSetTheorems, FunctionTheorems, TLAPS

Holding == {"reserved", "counted"}
After   == {"stored", "201", "500", "died"}
Working == [phase : Phases, buyer : Buyers \cup {None}, key : Keys \cup {None},
            body : Bodies \cup {None}, content : Carts \cup {None}, lines : SUBSET Lines,
            number : Nat, order : Attempts \cup {None}]

Typed ==
  /\ orders \in [Attempts -> OrderRows \cup {None}]
  /\ b2b \in [Attempts -> SUBSET [sku : Skus, quantity : Nat]]
  /\ late \in SUBSET Attempts
  /\ cart \in [Buyers -> Carts]
  /\ price \in [Skus -> Prices]
  /\ att \in [Attempts -> Working]
  /\ changes \in 0 .. MaxChanges
  /\ crashes \in 0 .. MaxCrashes
  /\ \A r \in Attempts :
       /\ att[r].phase # "new" =>
            att[r].buyer \in Buyers /\ att[r].key \in Keys /\ att[r].body \in Bodies
       /\ att[r].phase = "enrich" => att[r].content \in Carts

Owned ==
  /\ \A o \in Stored : att[o].phase \in After /\ orders[o] = RowOf(o)
  /\ \A r \in Attempts : att[r].phase = "stored" => r \in Stored

Answered == \A r \in Attempts :
  IF att[r].phase = "201"
  THEN att[r].order \in Stored /\ orders[att[r].order].key = att[r].key
  ELSE att[r].order = None

KeysOnce == \A o, p \in Stored : orders[o].key = orders[p].key => o = p

Numbered ==
  /\ NumbersAreDense
  /\ \A r \in Attempts :
       att[r].phase = "counted" => att[r].number \in 1 .. Cardinality(Stored) + 1

Accounted == \A r \in Attempts :
  /\ r \in late => att[r].phase \in {"503", "died"} /\ r \notin Stored
  /\ b2b[r] # {} => r \in Stored \/ att[r].phase \in Holding \cup {"500", "503", "died"}
  /\ ~Keyed /\ (r \in Stored \/ att[r].phase \in Holding) => b2b[r] = Items(att[r].lines)

Settled == Typed /\ Owned /\ Answered /\ KeysOnce /\ Numbered /\ Accounted
-----------------------------------------------------------------------------
(* A new phase keeps the rest of a working record.                         *)
LEMMA Rephased ==
  ASSUME NEW w \in Working, NEW code \in Phases
  PROVE  /\ [w EXCEPT !.phase = code] \in Working
         /\ [w EXCEPT !.phase = code].phase = code
         /\ [w EXCEPT !.phase = code].buyer = w.buyer
         /\ [w EXCEPT !.phase = code].key = w.key
         /\ [w EXCEPT !.phase = code].body = w.body
         /\ [w EXCEPT !.phase = code].content = w.content
         /\ [w EXCEPT !.phase = code].lines = w.lines
         /\ [w EXCEPT !.phase = code].number = w.number
         /\ [w EXCEPT !.phase = code].order = w.order
BY DEF Working

(* An attempt that has stored nothing moves on and stores nothing: what is *)
(* stored, and the other attempts, stay as they are.                       *)
LEMMA Quiet ==
  ASSUME Settled, NEW r \in Attempts, NEW new \in Working,
         att[r].phase \notin After, new.phase # "stored",
         orders' = orders, att' = [att EXCEPT ![r] = new]
  PROVE  /\ r \notin Stored
         /\ Stored' = Stored
         /\ att' \in [Attempts -> Working]
         /\ att'[r] = new
         /\ \A q \in Attempts \ {r} : att'[q] = att[q]
         /\ Owned'
         /\ KeysOnce'
         /\ NumbersAreDense'
<1>1. r \notin Stored
  BY DEF Settled, Owned
<1>2. Stored' = Stored
  BY DEF Stored
<1>3. att' \in [Attempts -> Working] /\ att'[r] = new
  BY DEF Settled, Typed
<1>4. \A q \in Attempts \ {r} : att'[q] = att[q]
  BY DEF Settled, Typed
<1>5. Owned'
  <2>1. \A o \in Stored : o \in Attempts \ {r} /\ RowOf(o)' = RowOf(o)
    BY <1>1, <1>4 DEF Stored, RowOf
  <2>2. \A q \in Attempts : att'[q].phase = "stored" => q \in Stored
    BY <1>3, <1>4 DEF Settled, Owned
  <2>. QED  BY <1>2, <1>4, <2>1, <2>2 DEF Settled, Owned
<1>6. KeysOnce' /\ NumbersAreDense'
  BY <1>2 DEF Settled, KeysOnce, Numbered, NumbersAreDense
<1>. QED  BY <1>1, <1>2, <1>3, <1>4, <1>5, <1>6

(* The rest of the invariant after such a step, from what holds of the     *)
(* attempt's new record.                                                   *)
LEMMA QuietSettles ==
  ASSUME Settled, NEW r \in Attempts, NEW new \in Working,
         att[r].phase \notin After, new.phase # "stored",
         orders' = orders, att' = [att EXCEPT ![r] = new],
         b2b' = b2b, late' = late,
         cart' = cart, price' = price, changes' = changes, crashes' = crashes,
         new.phase # "new" =>
           new.buyer \in Buyers /\ new.key \in Keys /\ new.body \in Bodies,
         new.phase = "enrich" => new.content \in Carts,
         IF new.phase = "201"
         THEN new.order \in Stored /\ orders[new.order].key = new.key
         ELSE new.order = None,
         new.phase = "counted" => new.number \in 1 .. Cardinality(Stored) + 1,
         r \in late => new.phase \in {"503", "died"},
         b2b[r] # {} => new.phase \in Holding \cup {"500", "503", "died"},
         ~Keyed /\ new.phase \in Holding => b2b[r] = Items(new.lines)
  PROVE  Settled'
<1>1. /\ r \notin Stored
      /\ Stored' = Stored
      /\ att' \in [Attempts -> Working]
      /\ att'[r] = new
      /\ \A q \in Attempts \ {r} : att'[q] = att[q]
      /\ Owned' /\ KeysOnce' /\ NumbersAreDense'
  BY Quiet
<1>2. Typed'
  BY <1>1 DEF Settled, Typed
<1>3. Answered'
  BY <1>1 DEF Settled, Answered
<1>4. Numbered'
  BY <1>1 DEF Settled, Numbered
<1>5. Accounted'
  BY <1>1 DEF Settled, Accounted
<1>. QED  BY <1>1, <1>2, <1>3, <1>4, <1>5 DEF Settled
-----------------------------------------------------------------------------
LEMMA InitSettles == Init => Settled
<1>. SUFFICES ASSUME Init PROVE Settled
  OBVIOUS
<1>1. Stored = {}
  BY DEF Init, Stored
<1>2. Fresh \in Working /\ Fresh.phase = "new" /\ Fresh.order = None
  BY DEF Fresh, Working, Phases, Lines
<1>3. \A r \in Attempts : att[r] = Fresh
  BY DEF Init
<1>4. Typed
  BY <1>2, <1>3, CheckoutAssumption DEF Init, Typed
<1>5. NumbersAreDense
  BY <1>1, FS_EmptySet DEF NumbersAreDense
<1>6. Accounted
  BY <1>1, <1>2, <1>3 DEF Init, Accounted, Holding
<1>. QED
  BY <1>1, <1>2, <1>3, <1>4, <1>5, <1>6
     DEF Settled, Owned, Answered, KeysOnce, Numbered

(* Each action keeps the invariant.                                        *)
LEMMA LookupSettles ==
  ASSUME Settled, NEW r \in Attempts, NEW who \in Buyers, NEW k \in Keys,
         NEW body \in Bodies, Lookup(r, who, k, body)
  PROVE  Settled'
<1>. DEFINE sent == [att[r] EXCEPT !.buyer = who, !.key = k, !.body = body]
<1>1. /\ att[r] \in Working /\ att[r].phase = "new" /\ att[r].order = None
      /\ r \notin late
      /\ b2b[r] = {}
  BY DEF Settled, Typed, Answered, Accounted, Owned, Lookup, Holding, After
<1>3. ASSUME NEW code \in {"cart", "409 conflict", "500"},
             att' = [att EXCEPT ![r] = [sent EXCEPT !.phase = code]]
      PROVE  Settled'
  <2>. DEFINE new == [sent EXCEPT !.phase = code]
  <2>1. /\ new \in Working /\ new.phase = code /\ new.order = None
        /\ new.buyer = who /\ new.key = k /\ new.body = body
    BY <1>1 DEF Working, Phases, Running, Answers
  <2>. QED
    BY <1>1, <1>3, <2>1, QuietSettles DEF Lookup, Holding, After
<1>5. ASSUME NEW o \in StoredUnder(k),
             att' = [att EXCEPT ![r] = [sent EXCEPT !.phase = "201", !.order = o]]
      PROVE  Settled'
  <2>. DEFINE new == [sent EXCEPT !.phase = "201", !.order = o]
  <2>1. o \in Stored /\ o \in Attempts /\ orders[o].key = k
    BY DEF StoredUnder, Stored
  <2>2. /\ new \in Working
        /\ new.phase = "201" /\ new.order = o
        /\ new.buyer = who /\ new.key = k /\ new.body = body
    BY <1>1, <2>1 DEF Working, Phases, Running, Answers
  <2>. QED
    BY <1>1, <1>5, <2>1, <2>2, QuietSettles DEF Lookup, Holding, After
<1>. QED
  BY <1>3, <1>5 DEF Lookup, Become

(* A refusal before anything is reserved.                                  *)
LEMMA RefusalSettles ==
  ASSUME Settled, NEW r \in Attempts, NEW code \in {"400", "409", "422", "500", "503"},
         att[r].phase \in {"cart", "enrich", "reserving"}, Answer(r, code),
         UNCHANGED <<orders, b2b, late, cart, price, changes, crashes>>
  PROVE  Settled'
<1>1. /\ att[r] \in Working /\ att[r].phase \notin After \cup {"new"} /\ att[r].order = None
      /\ att[r].buyer \in Buyers /\ att[r].key \in Keys /\ att[r].body \in Bodies
      /\ r \notin late
      /\ b2b[r] = {}
  BY DEF Settled, Typed, Answered, Accounted, Owned, Holding, After
<1>. DEFINE new == [att[r] EXCEPT !.phase = code]
<1>2. code \in Phases
  BY DEF Phases, Answers
<1>3. /\ new \in Working /\ new.phase = code /\ new.order = None
      /\ new.buyer \in Buyers /\ new.key \in Keys /\ new.body \in Bodies
  BY <1>1, <1>2, Rephased
<1>. QED
  BY <1>1, <1>3, QuietSettles DEF Answer, Become, Holding, After

LEMMA LoadCartSettles ==
  ASSUME Settled, NEW r \in Attempts, LoadCart(r)
  PROVE  Settled'
<1>1. /\ att[r] \in Working /\ att[r].phase = "cart" /\ att[r].order = None
      /\ att[r].buyer \in Buyers /\ att[r].key \in Keys /\ att[r].body \in Bodies
      /\ r \notin late
      /\ b2b[r] = {}
  BY DEF Settled, Typed, Answered, Accounted, Owned, Holding, After, LoadCart
<1>2. ASSUME NEW code \in {"400", "503"}, Answer(r, code)
      PROVE  Settled'
  BY <1>1, <1>2, RefusalSettles DEF LoadCart
<1>3. CASE Become(r, [att[r] EXCEPT !.phase = "enrich", !.content = cart[att[r].buyer]])
  <2>. DEFINE new == [att[r] EXCEPT !.phase = "enrich", !.content = cart[att[r].buyer]]
  <2>1. cart[att[r].buyer] \in Carts
    BY <1>1 DEF Settled, Typed
  <2>2. /\ new \in Working /\ new.phase = "enrich" /\ new.order = None
        /\ new.buyer = att[r].buyer /\ new.key = att[r].key /\ new.body = att[r].body
        /\ new.content = cart[att[r].buyer]
    BY <1>1, <2>1 DEF Working, Phases, Running
  <2>. QED
    BY <1>1, <1>3, <2>1, <2>2, QuietSettles DEF LoadCart, Become, Holding, After
<1>. QED
  BY <1>2, <1>3 DEF LoadCart

(* What is priced is a set of lines.                                       *)
LEMMA PricedLines ==
  ASSUME NEW content \in Carts, price \in [Skus -> Prices]
  PROVE  Priced(content) \subseteq Lines
<1>1. content \in [Skus -> Nat]
  BY CheckoutAssumption
<1>. QED  BY <1>1 DEF Priced, Line, Lines

LEMMA EnrichSettles ==
  ASSUME Settled, NEW r \in Attempts, Enrich(r)
  PROVE  Settled'
<1>1. /\ att[r] \in Working /\ att[r].phase = "enrich" /\ att[r].order = None
      /\ att[r].buyer \in Buyers /\ att[r].key \in Keys /\ att[r].body \in Bodies
      /\ att[r].content \in Carts
      /\ r \notin late
      /\ b2b[r] = {}
  BY DEF Settled, Typed, Answered, Accounted, Owned, Holding, After, Enrich
<1>. DEFINE lines == Priced(att[r].content)
<1>2. ASSUME NEW code \in {"409", "422", "500", "503"}, Answer(r, code)
      PROVE  Settled'
  BY <1>1, <1>2, RefusalSettles DEF Enrich
<1>3. CASE Become(r, [att[r] EXCEPT !.phase = "reserving", !.lines = lines])
  <2>. DEFINE new == [att[r] EXCEPT !.phase = "reserving", !.lines = lines]
  <2>1. lines \subseteq Lines
    BY <1>1, PricedLines DEF Settled, Typed
  <2>2. /\ new \in Working /\ new.phase = "reserving" /\ new.order = None
        /\ new.buyer = att[r].buyer /\ new.key = att[r].key /\ new.body = att[r].body
    BY <1>1, <2>1 DEF Working, Phases, Running
  <2>. QED
    BY <1>1, <1>3, <2>2, QuietSettles DEF Enrich, Become, Holding, After
<1>. QED
  BY <1>2, <1>3 DEF Enrich

(* The B2B reserves what the attempt asked for, or, keyed, changes nothing.*)
LEMMA HeldItems ==
  ASSUME Settled, NEW r \in Attempts, b2b' = Held(r)
  PROVE  /\ b2b' \in [Attempts -> SUBSET [sku : Skus, quantity : Nat]]
         /\ \A q \in Attempts \ {r} : b2b'[q] = b2b[q]
         /\ ~Keyed => b2b'[r] = Items(att[r].lines)
<1>1. att[r].lines \subseteq Lines
  BY DEF Settled, Typed, Working
<1>2. Items(att[r].lines) \subseteq [sku : Skus, quantity : Nat]
  BY <1>1 DEF Items, Lines
<1>. QED  BY <1>2 DEF Held, Settled, Typed

LEMMA ReservedSettles ==
  ASSUME Settled, NEW r \in Attempts, Reserved(r)
  PROVE  Settled'
<1>1. /\ att[r] \in Working /\ att[r].phase = "reserving" /\ att[r].order = None
      /\ att[r].buyer \in Buyers /\ att[r].key \in Keys /\ att[r].body \in Bodies
      /\ r \notin late
      /\ b2b[r] = {}
  BY DEF Settled, Typed, Answered, Accounted, Owned, Holding, After, Reserved
<1>2. CASE b2b' = Held(r) /\ Answer(r, "reserved") /\ UNCHANGED late
  <2>. DEFINE new == [att[r] EXCEPT !.phase = "reserved"]
  <2>1. /\ new \in Working /\ new.phase = "reserved" /\ new.order = None
        /\ new.buyer = att[r].buyer /\ new.key = att[r].key /\ new.body = att[r].body
        /\ new.lines = att[r].lines
    BY <1>1, Rephased DEF Phases, Running
  <2>2. /\ r \notin Stored
        /\ Stored' = Stored
        /\ att' \in [Attempts -> Working]
        /\ att'[r] = new
        /\ \A q \in Attempts \ {r} : att'[q] = att[q]
        /\ Owned' /\ KeysOnce' /\ NumbersAreDense'
    BY <1>1, <1>2, <2>1, Quiet DEF Reserved, Answer, Become, After
  <2>3. /\ b2b' \in [Attempts -> SUBSET [sku : Skus, quantity : Nat]]
        /\ \A q \in Attempts \ {r} : b2b'[q] = b2b[q]
        /\ ~Keyed => b2b'[r] = Items(att[r].lines)
    BY <1>2, HeldItems
  <2>4. Typed'
    BY <1>1, <1>2, <2>1, <2>2, <2>3 DEF Reserved, Settled, Typed
  <2>5. Answered' /\ Numbered'
    BY <2>1, <2>2 DEF Reserved, Settled, Answered, Numbered
  <2>6. Accounted'
    BY <1>1, <1>2, <2>1, <2>2, <2>3 DEF Settled, Accounted, Holding
  <2>. QED  BY <2>2, <2>4, <2>5, <2>6 DEF Settled
<1>3. CASE (\E code \in {"409", NoAnswer} : Answer(r, code)) /\ UNCHANGED <<b2b, late>>
  BY <1>1, <1>3, RefusalSettles DEF Reserved, NoAnswer
<1>4. CASE Answer(r, NoAnswer) /\ late' = late \cup {r} /\ UNCHANGED b2b
  <2>. DEFINE new == [att[r] EXCEPT !.phase = "503"]
  <2>1. /\ new \in Working /\ new.phase = "503" /\ new.order = None
        /\ new.buyer = att[r].buyer /\ new.key = att[r].key /\ new.body = att[r].body
    BY <1>1, Rephased DEF Phases, Answers
  <2>2. /\ r \notin Stored
        /\ Stored' = Stored
        /\ att' \in [Attempts -> Working]
        /\ att'[r] = new
        /\ \A q \in Attempts \ {r} : att'[q] = att[q]
        /\ Owned' /\ KeysOnce' /\ NumbersAreDense'
    BY <1>1, <1>4, <2>1, Quiet DEF Reserved, Answer, Become, After, NoAnswer
  <2>3. Typed'
    BY <1>1, <1>4, <2>1, <2>2 DEF Reserved, Settled, Typed
  <2>4. Answered' /\ Numbered'
    BY <2>1, <2>2 DEF Reserved, Settled, Answered, Numbered
  <2>5. Accounted'
    BY <1>1, <1>4, <2>1, <2>2 DEF Settled, Accounted, Holding
  <2>. QED  BY <2>2, <2>3, <2>4, <2>5 DEF Settled
<1>. QED
  BY <1>2, <1>3, <1>4 DEF Reserved

LEMMA ApplyLateSettles ==
  ASSUME Settled, NEW r \in Attempts, ApplyLate(r)
  PROVE  Settled'
<1>1. att[r].phase \in {"503", "died"} /\ r \notin Stored
  BY DEF ApplyLate, Settled, Accounted, Owned
<1>2. /\ b2b' \in [Attempts -> SUBSET [sku : Skus, quantity : Nat]]
      /\ \A q \in Attempts \ {r} : b2b'[q] = b2b[q]
  BY HeldItems DEF ApplyLate
<1>3. Stored' = Stored
  BY DEF ApplyLate, Stored
<1>4. Typed'
  BY <1>2 DEF ApplyLate, Settled, Typed
<1>5. Owned' /\ Answered' /\ KeysOnce' /\ Numbered'
  BY <1>3 DEF ApplyLate, Settled, Owned, RowOf, Answered, KeysOnce, Numbered,
              NumbersAreDense
<1>6. Accounted'
  BY <1>1, <1>2, <1>3 DEF ApplyLate, Settled, Accounted, Holding
<1>. QED  BY <1>4, <1>5, <1>6 DEF Settled

(* There are finitely many orders.                                         *)
LEMMA StoredIsFinite == IsFiniteSet(Stored) /\ Cardinality(Stored) \in Nat
<1>1. IsFiniteSet(Stored)
  BY CheckoutAssumption, FS_Subset DEF Stored
<1>. QED  BY <1>1, FS_CardinalityType

(* A database that fails between the reserve call and the insert: the goods*)
(* stay reserved, and the client is told 500.                              *)
LEMMA FailureSettles ==
  ASSUME Settled, NEW r \in Attempts, att[r].phase \in Holding, Answer(r, "500"),
         UNCHANGED <<orders, b2b, late, cart, price, changes, crashes>>
  PROVE  Settled'
<1>. DEFINE new == [att[r] EXCEPT !.phase = "500"]
<1>1. /\ att[r] \in Working /\ att[r].order = None
      /\ att[r].buyer \in Buyers /\ att[r].key \in Keys /\ att[r].body \in Bodies
      /\ r \notin late
  BY DEF Settled, Typed, Answered, Accounted, Holding
<1>2. /\ new \in Working /\ new.phase = "500" /\ new.order = None
      /\ new.buyer = att[r].buyer /\ new.key = att[r].key /\ new.body = att[r].body
  BY <1>1, Rephased DEF Phases, Answers
<1>. QED
  BY <1>1, <1>2, QuietSettles DEF Answer, Become, Holding, After

LEMMA CountOrdersSettles ==
  ASSUME Settled, NEW r \in Attempts, CountOrders(r)
  PROVE  Settled'
<1>. DEFINE number == Cardinality(Stored) + 1
            new    == [att[r] EXCEPT !.phase = "counted", !.number = number]
<1>1. /\ att[r] \in Working /\ att[r].phase = "reserved" /\ att[r].order = None
      /\ att[r].buyer \in Buyers /\ att[r].key \in Keys /\ att[r].body \in Bodies
      /\ r \notin late
      /\ ~Keyed => b2b[r] = Items(att[r].lines)
  BY DEF Settled, Typed, Answered, Accounted, Holding, CountOrders
<1>2. number \in Nat /\ number \in 1 .. number
  BY StoredIsFinite
<1>3. CASE Become(r, new)
  <2>1. /\ new \in Working /\ new.phase = "counted" /\ new.order = None
        /\ new.number = number
        /\ new.buyer = att[r].buyer /\ new.key = att[r].key /\ new.body = att[r].body
        /\ new.lines = att[r].lines
    BY <1>1, <1>2 DEF Working, Phases, Running
  <2>. QED
    BY <1>1, <1>2, <1>3, <2>1, QuietSettles DEF CountOrders, Become, Holding, After
<1>4. CASE Answer(r, "500")
  BY <1>1, <1>4, FailureSettles DEF CountOrders, Holding
<1>. QED  BY <1>3, <1>4 DEF CountOrders

(* The insert: the number was computed before, so it is at most one more   *)
(* than the number of orders; the unique index rules out all the smaller   *)
(* ones.                                                                   *)
LEMMA InsertSettles ==
  ASSUME Settled, NEW r \in Attempts, att[r].phase = "counted", Admits(r),
         orders' = [orders EXCEPT ![r] = RowOf(r)],
         att' = [att EXCEPT ![r] = [att[r] EXCEPT !.phase = "stored"]],
         UNCHANGED <<b2b, late, cart, price, changes, crashes>>
  PROVE  Settled'
<1>. DEFINE new == [att[r] EXCEPT !.phase = "stored"]
            n   == Cardinality(Stored)
            num == att[r].number
<1>1. /\ att[r] \in Working /\ att[r].order = None
      /\ att[r].buyer \in Buyers /\ att[r].key \in Keys /\ att[r].body \in Bodies
      /\ r \notin late /\ r \notin Stored
      /\ num \in 1 .. n + 1
      /\ ~Keyed => b2b[r] = Items(att[r].lines)
  BY DEF Settled, Typed, Accounted, Answered, Owned, After, Holding, Numbered
<1>2. n \in Nat /\ IsFiniteSet(Stored)
  BY StoredIsFinite
<1>3. RowOf(r) \in OrderRows /\ RowOf(r) # None
  <2>1. att[r].lines \in SUBSET Lines
    BY <1>1 DEF Working
  <2>2. num \in Nat \ {0}
    BY <1>1, <1>2
  <2>3. RowOf(r) \in OrderRows
    BY <1>1, <2>1, <2>2 DEF RowOf, OrderRows
  <2>. QED  BY <2>3, CheckoutAssumption
<1>4. /\ new \in Working /\ new.phase = "stored" /\ new.order = None /\ new.number = num
      /\ new.buyer = att[r].buyer /\ new.key = att[r].key /\ new.body = att[r].body
      /\ new.lines = att[r].lines
  BY <1>1, Rephased DEF Phases, Running
<1>5. /\ att' \in [Attempts -> Working] /\ att'[r] = new
      /\ \A q \in Attempts \ {r} : att'[q] = att[q]
  BY <1>4 DEF Settled, Typed
<1>6. /\ orders' \in [Attempts -> OrderRows \cup {None}] /\ orders'[r] = RowOf(r)
      /\ \A q \in Attempts \ {r} : orders'[q] = orders[q]
  BY <1>3 DEF Settled, Typed
<1>7. Stored' = Stored \cup {r}
  BY <1>3, <1>6 DEF Stored
<1>8. Typed'
  BY <1>1, <1>4, <1>5, <1>6 DEF Settled, Typed
<1>9. Owned'
  <2>1. RowOf(r)' = RowOf(r)
    BY <1>4, <1>5 DEF RowOf
  <2>2. \A o \in Stored : /\ o \in Attempts \ {r}
                          /\ RowOf(o)' = RowOf(o)
                          /\ orders'[o] = orders[o]
                          /\ att'[o] = att[o]
    BY <1>1, <1>5, <1>6 DEF RowOf, Stored
  <2>. QED
    BY <1>4, <1>5, <1>6, <1>7, <2>1, <2>2 DEF Settled, Owned, After
<1>10. Answered'
  <2>1. orders'[r].key = att[r].key
    BY <1>6 DEF RowOf
  <2>2. \A q \in Attempts \ {r} : att[q].phase = "201" =>
          att[q].order \in Stored /\ att[q].order # r
    BY <1>1 DEF Settled, Answered
  <2>3. Stored \subseteq Attempts
    BY DEF Stored
  <2>. QED
    BY <1>4, <1>5, <1>6, <1>7, <2>1, <2>2, <2>3 DEF Settled, Answered
<1>11. KeysOnce'
  <2>1. \A o \in Stored : orders[o].key # att[r].key
    BY DEF Admits, StoredUnder
  <2>2. \A o \in Stored : o \in Attempts \ {r} /\ orders'[o] = orders[o]
    BY <1>1, <1>6 DEF Stored
  <2>3. orders'[r].key = att[r].key
    BY <1>6 DEF RowOf
  <2>. QED
    BY <1>7, <2>1, <2>2, <2>3 DEF Settled, KeysOnce
<1>12. Cardinality(Stored') = n + 1
  BY <1>1, <1>2, <1>7, FS_AddElement
<1>13. Numbered'
  <2>1. {orders[o].number : o \in Stored} = 1 .. n
    BY DEF Settled, Numbered, NumbersAreDense
  <2>2. num \notin 1 .. n
    BY <2>1 DEF Admits
  <2>3. num = n + 1
    BY <1>1, <1>2, <2>2
  <2>4. \A o \in Stored : orders'[o] = orders[o]
    BY <1>1, <1>6 DEF Stored
  <2>5. orders'[r].number = num
    BY <1>6 DEF RowOf
  <2>6. {orders'[o].number : o \in Stored'} = {orders[o].number : o \in Stored} \cup {num}
    BY <1>7, <2>4, <2>5
  <2>7. NumbersAreDense'
    <3>1. (1 .. n) \cup {num} = 1 .. n + 1
      BY <1>2, <2>3
    <3>2. {orders'[o].number : o \in Stored'} = 1 .. n + 1
      BY <2>1, <2>6, <3>1
    <3>. QED  BY <1>12, <3>2 DEF NumbersAreDense
  <2>8. \A q \in Attempts : att'[q].phase = "counted" =>
          att'[q].number \in 1 .. Cardinality(Stored') + 1
    BY <1>2, <1>4, <1>5, <1>12 DEF Settled, Numbered
  <2>. QED  BY <2>7, <2>8 DEF Numbered
<1>14. Accounted'
  BY <1>1, <1>4, <1>5, <1>7 DEF Settled, Accounted, Holding
<1>. QED  BY <1>8, <1>9, <1>10, <1>11, <1>13, <1>14 DEF Settled

LEMMA CommitSettles ==
  ASSUME Settled, NEW r \in Attempts, Commit(r)
  PROVE  Settled'
<1>1. CASE /\ Admits(r)
           /\ orders' = [orders EXCEPT ![r] = RowOf(r)]
           /\ Answer(r, "stored")
  BY <1>1, InsertSettles DEF Commit, Answer, Become
<1>2. CASE Answer(r, "500") /\ UNCHANGED orders
  BY <1>2, FailureSettles DEF Commit, Holding
<1>. QED  BY <1>1, <1>2 DEF Commit

(* The order stored by the attempt is read back, and answered or not.      *)
LEMMA RefreshSettles ==
  ASSUME Settled, NEW r \in Attempts, Refresh(r)
  PROVE  Settled'
<1>1. /\ att[r] \in Working /\ att[r].order = None
      /\ att[r].buyer \in Buyers /\ att[r].key \in Keys /\ att[r].body \in Bodies
      /\ r \notin late /\ r \in Stored /\ orders[r].key = att[r].key
  <2>1. r \in Stored /\ orders[r] = RowOf(r) /\ r \notin late
    BY DEF Settled, Owned, Accounted, Refresh
  <2>2. orders[r].key = att[r].key
    BY <2>1 DEF RowOf
  <2>. QED  BY <2>1, <2>2 DEF Settled, Typed, Answered, Refresh
<1>2. PICK new \in {[att[r] EXCEPT !.phase = "201", !.order = r],
                   [att[r] EXCEPT !.phase = "500"]} : att' = [att EXCEPT ![r] = new]
  BY DEF Refresh, Answer, Become
<1>3. /\ new \in Working
      /\ \/ new.phase = "201" /\ new.order = r
         \/ new.phase = "500" /\ new.order = None
      /\ new.buyer = att[r].buyer /\ new.key = att[r].key /\ new.body = att[r].body
      /\ new.lines = att[r].lines /\ new.number = att[r].number
  BY <1>1, <1>2 DEF Working, Phases, Answers
<1>4. /\ att' \in [Attempts -> Working] /\ att'[r] = new
      /\ \A q \in Attempts \ {r} : att'[q] = att[q]
  BY <1>2, <1>3 DEF Settled, Typed
<1>5. UNCHANGED <<orders, b2b, late, cart, price, changes, crashes>> /\ Stored' = Stored
  BY DEF Refresh, Stored
<1>6. Typed'
  BY <1>1, <1>3, <1>4, <1>5 DEF Settled, Typed
<1>7. Owned'
  <2>1. \A o \in Stored : o \in Attempts /\ RowOf(o)' = RowOf(o)
    BY <1>3, <1>4 DEF Stored, RowOf
  <2>. QED  BY <1>3, <1>4, <1>5, <2>1 DEF Settled, Owned, After
<1>8. Answered'
  BY <1>1, <1>3, <1>4, <1>5 DEF Settled, Answered
<1>9. KeysOnce' /\ Numbered'
  BY <1>3, <1>4, <1>5 DEF Settled, KeysOnce, Numbered, NumbersAreDense
<1>10. Accounted'
  BY <1>1, <1>3, <1>4, <1>5 DEF Settled, Accounted, Holding
<1>. QED  BY <1>6, <1>7, <1>8, <1>9, <1>10 DEF Settled

LEMMA ChangeSettles ==
  ASSUME Settled,
         \/ \E b \in Buyers : ChangeCart(b)
         \/ \E sku \in Skus : ChangePrice(sku)
  PROVE  Settled'
<1>1. UNCHANGED <<orders, b2b, late, att, crashes>> /\ Stored' = Stored
  BY DEF ChangeCart, ChangePrice, Stored
<1>2. /\ cart' \in [Buyers -> Carts] /\ price' \in [Skus -> Prices]
      /\ changes' \in 0 .. MaxChanges
  <2>1. /\ cart \in [Buyers -> Carts] /\ price \in [Skus -> Prices]
        /\ changes \in 0 .. MaxChanges
    BY DEF Settled, Typed
  <2>2. changes < MaxChanges /\ changes' = changes + 1
    BY DEF ChangeCart, ChangePrice
  <2>3. changes' \in 0 .. MaxChanges
    BY <2>1, <2>2, CheckoutAssumption
  <2>4. CASE \E b \in Buyers : ChangeCart(b)
    BY <2>1, <2>3, <2>4 DEF ChangeCart
  <2>5. CASE \E sku \in Skus : ChangePrice(sku)
    BY <2>1, <2>3, <2>5 DEF ChangePrice
  <2>. QED  BY <2>4, <2>5
<1>3. Typed'
  BY <1>1, <1>2 DEF Settled, Typed
<1>. QED
  BY <1>1, <1>3 DEF Settled, Owned, RowOf, Answered, KeysOnce, Numbered,
                    NumbersAreDense, Accounted

(* A restart ends every attempt in flight; calls on their way may arrive   *)
(* later.                                                                  *)
LEMMA CrashSettles ==
  ASSUME Settled, Crash
  PROVE  Settled'
<1>1. UNCHANGED <<orders, b2b, cart, price, changes>> /\ Stored' = Stored
  BY DEF Crash, Stored
<1>2. PICK sent \in SUBSET {r \in Attempts : att[r].phase = "reserving"} :
        late' = late \cup sent
  BY DEF Crash
<1>3. \A r \in Attempts : InFlight(r) =>
        /\ att'[r] \in Working /\ att'[r].phase = "died"
        /\ att'[r].buyer = att[r].buyer /\ att'[r].key = att[r].key
        /\ att'[r].body = att[r].body /\ att'[r].lines = att[r].lines
        /\ att'[r].number = att[r].number /\ att'[r].order = att[r].order
        /\ att[r].phase # "201" /\ att[r].phase # "new"
  <2>. SUFFICES ASSUME NEW r \in Attempts, InFlight(r)
                PROVE  /\ att'[r] \in Working /\ att'[r].phase = "died"
                       /\ att'[r].buyer = att[r].buyer /\ att'[r].key = att[r].key
                       /\ att'[r].body = att[r].body /\ att'[r].lines = att[r].lines
                       /\ att'[r].number = att[r].number /\ att'[r].order = att[r].order
                       /\ att[r].phase # "201" /\ att[r].phase # "new"
    OBVIOUS
  <2>1. att'[r] = [att[r] EXCEPT !.phase = "died"]
    BY DEF Crash
  <2>2. att[r] \in Working /\ "died" \in Phases
    BY DEF Settled, Typed, Phases, Answers
  <2>3. att[r].phase # "201" /\ att[r].phase # "new"
    BY DEF InFlight, Running
  <2>. QED  BY <2>1, <2>2, <2>3, Rephased
<1>4. \A r \in Attempts : ~InFlight(r) => att'[r] = att[r]
  BY DEF Crash
<1>5. att' \in [Attempts -> Working]
  BY <1>3, <1>4 DEF Crash, Settled, Typed
<1>6. \A r \in sent : InFlight(r) /\ r \notin Stored
  BY DEF InFlight, Running, Settled, Owned, After
<1>7. Typed'
  BY <1>1, <1>2, <1>3, <1>4, <1>5, CheckoutAssumption DEF Crash, Settled, Typed
<1>8. \A r \in Attempts : RowOf(r)' = RowOf(r)
  BY <1>3, <1>4 DEF RowOf
<1>9. Owned' /\ KeysOnce'
  <2>1. Owned'
    BY <1>1, <1>3, <1>4, <1>8 DEF Settled, Owned, After, Stored
  <2>. QED  BY <1>1, <2>1 DEF Settled, KeysOnce
<1>10. Answered'
  BY <1>1, <1>3, <1>4 DEF Settled, Answered
<1>11. Numbered'
  BY <1>1, <1>3, <1>4 DEF Settled, Numbered, NumbersAreDense
<1>12. Accounted'
  BY <1>1, <1>2, <1>3, <1>4, <1>6 DEF Settled, Accounted, Holding, InFlight, Running
<1>. QED  BY <1>7, <1>9, <1>10, <1>11, <1>12 DEF Settled
-----------------------------------------------------------------------------
LEMMA NextSettles ==
  ASSUME Settled, [Next]_vars
  PROVE  Settled'
<1>1. CASE UNCHANGED vars
  BY <1>1 DEF vars, Settled, Typed, Owned, Answered, KeysOnce, Numbered,
              NumbersAreDense, Accounted, Stored, RowOf
<1>2. ASSUME NEW r \in Attempts, AttemptStep(r) \/ ApplyLate(r)
      PROVE  Settled'
  BY <1>2, LookupSettles, LoadCartSettles, EnrichSettles, ReservedSettles,
     CountOrdersSettles, CommitSettles, RefreshSettles, ApplyLateSettles
     DEF AttemptStep
<1>3. CASE \/ \E b \in Buyers : ChangeCart(b)
           \/ \E sku \in Skus : ChangePrice(sku)
  BY <1>3, ChangeSettles
<1>4. CASE Crash
  BY <1>4, CrashSettles
<1>. QED  BY <1>1, <1>2, <1>3, <1>4 DEF Next

(* The strengthening holds throughout, whatever the attempts, the clients  *)
(* and the B2B do and whenever the process restarts.                       *)
THEOREM AlwaysSettled == Spec => []Settled
BY InitSettles, NextSettles, PTL DEF Spec

(* Tables and coroutines have the shape the code gives them.               *)
THEOREM TypeCorrect == Spec => []TypeOK
<1>1. Settled => TypeOK
  <2>. SUFFICES ASSUME Settled PROVE TypeOK
    OBVIOUS
  <2>1. \A r \in Attempts : /\ att[r].phase \in Phases
                            /\ (att[r].phase = "201") = (att[r].order \in Stored)
    BY CheckoutAssumption DEF Settled, Typed, Working, Answered, Stored
  <2>. QED  BY <2>1 DEF Settled, Typed, TypeOK
<1>. QED  BY <1>1, AlwaysSettled, PTL

(* Attempts under one key that are answered 201, at any time and however   *)
(* they overlapped, are given the same order.                              *)
THEOREM OneOrderPerKey == Spec => []SameKeySameOrder
<1>1. Settled => SameKeySameOrder
  BY DEF Settled, Answered, KeysOnce, SameKeySameOrder
<1>. QED  BY <1>1, AlwaysSettled, PTL

(* The orders are numbered 1, 2, 3, ... without gap or repeat, whatever    *)
(* number the attempts that raced had computed.                            *)
THEOREM NumberedDensely == Spec => []NumbersAreDense
<1>1. Settled => NumbersAreDense
  BY DEF Settled, Numbered
<1>. QED  BY <1>1, AlwaysSettled, PTL

(* An attempt answered 400, 409 or 422 leaves nothing reserved, and never  *)
(* will: goods without an order belong to a 5xx or a crash.                *)
THEOREM OrphansAreReported == Spec => []OrphanIsReported
<1>1. Settled => OrphanIsReported
  BY DEF Settled, Accounted, OrphanIsReported, Holding, InFlight, Running
<1>. QED  BY <1>1, AlwaysSettled, PTL

(* Where the B2B does not fold repeated keys, every stored order has       *)
(* exactly its own items reserved under its own id.                        *)
THEOREM StoredAreReserved ==
  ASSUME ~Keyed
  PROVE  Spec => []StoredIsReserved
<1>1. Settled => StoredIsReserved
  <2>. SUFFICES ASSUME Settled, NEW o \in Stored
                PROVE  b2b[o] = Items(orders[o].lines)
    BY DEF StoredIsReserved
  <2>1. b2b[o] = Items(att[o].lines)
    BY DEF Settled, Accounted, Stored
  <2>2. orders[o] = RowOf(o)
    BY DEF Settled, Owned
  <2>3. orders[o].lines = att[o].lines
    BY <2>2 DEF RowOf
  <2>. QED  BY <2>1, <2>3
<1>. QED  BY <1>1, AlwaysSettled, PTL
-----------------------------------------------------------------------------
(***************************************************************************)
(* What an order owes to the requests under its key, and what the B2B owes *)
(* to the order.  The invariant Honoured holds beside Settled:             *)
(*   Matched  an attempt answered 201 asked for what the order's asked for,*)
(*   AsShown  lines that were compared with a snapshot agree with it from  *)
(*            then on, and go into the order with the body they were       *)
(*            compared with,                                               *)
(*   Filled   no empty cart gets past LoadCart: a reservation names goods, *)
(*   Backed   once an attempt's reserve call was answered, some attempt    *)
(*            under its key has goods reserved, for nothing takes them back*)
(***************************************************************************)
Going == {"reserving"} \cup Holding

Matched == \A r \in Attempts : att[r].phase = "201" =>
  RequestsEqual(orders[att[r].order].body, att[r].body)

AsShown ==
  /\ \A r \in Attempts : att[r].phase \in Going =>
       IsFiniteSet(att[r].lines) /\ ~Mismatch(att[r].body.snapshot, att[r].lines)
  /\ \A o \in Stored :
       IsFiniteSet(orders[o].lines) /\ ~Mismatch(orders[o].body.snapshot, orders[o].lines)

Filled == \A r \in Attempts :
  /\ att[r].phase = "enrich" => \E sku \in Skus : att[r].content[sku] > 0
  /\ att[r].phase \in Going \/ r \in late => att[r].lines # {}

HasGoods(k) == \E q \in Attempts : b2b[q] # {} /\ att[q].key = k
Backed ==
  /\ \A r \in Attempts : att[r].phase \in Holding => HasGoods(att[r].key)
  /\ \A o \in Stored : HasGoods(orders[o].key)

Honoured == Matched /\ AsShown /\ Filled /\ Backed

(* A request asks for what it asks for.                                    *)
LEMMA AsksForItself ==
  ASSUME NEW body \in Bodies
  PROVE  RequestsEqual(body, body)
<1>. DEFINE s     == body.snapshot
            match == [i \in DOMAIN s |-> i]
<1>1. match \in Bijection(DOMAIN s, DOMAIN s)
  BY Fun_IsBij
<1>2. \A i \in DOMAIN s : match[i] = i
  OBVIOUS
<1>3. SortedAlike(s, s)
  BY <1>1, <1>2 DEF SortedAlike
<1>. QED  BY <1>3 DEF RequestsEqual

(* There are n numbers from 1 to n.                                        *)
LEMMA CountedTo ==
  ASSUME NEW n \in Nat
  PROVE  IsFiniteSet(1 .. n) /\ Cardinality(1 .. n) = n
<1>1. IsFiniteSet(1 .. n) /\ Cardinality(1 .. n) = IF 1 > n THEN 0 ELSE n - 1 + 1
  BY FS_Interval
<1>. QED  BY <1>1

(* Sorted alike, two snapshots have as many lines, and the same ones.      *)
LEMMA AlikeIsSame ==
  ASSUME NEW b \in Bodies, NEW c \in Bodies, RequestsEqual(b, c)
  PROVE  /\ b.rest = c.rest
         /\ Len(b.snapshot) = Len(c.snapshot)
         /\ {b.snapshot[i] : i \in DOMAIN b.snapshot} =
              {c.snapshot[i] : i \in DOMAIN c.snapshot}
<1>. DEFINE s == b.snapshot
            t == c.snapshot
<1>1. PICK match \in Bijection(DOMAIN s, DOMAIN t) : \A i \in DOMAIN s : t[match[i]] = s[i]
  BY DEF RequestsEqual, SortedAlike
<1>2. /\ Len(s) \in Nat /\ DOMAIN s = 1 .. Len(s)
      /\ Len(t) \in Nat /\ DOMAIN t = 1 .. Len(t)
  BY CheckoutAssumption
<1>3. /\ match \in [DOMAIN s -> DOMAIN t]
      /\ \A j \in DOMAIN t : \E i \in DOMAIN s : match[i] = j
  BY Fun_BijectionProperties
<1>4. {s[i] : i \in DOMAIN s} = {t[j] : j \in DOMAIN t}
  BY <1>1, <1>3
<1>5. IsFiniteSet(1 .. Len(s)) /\ Cardinality(1 .. Len(s)) = Len(s)
      /\ Cardinality(1 .. Len(t)) = Len(t)
  BY <1>2, CountedTo
<1>6. ExistsBijection(DOMAIN s, DOMAIN t)
  BY DEF ExistsBijection
<1>7. Cardinality(DOMAIN t) = Cardinality(DOMAIN s)
  BY <1>2, <1>5, <1>6, FS_Bijection
<1>. QED  BY <1>2, <1>4, <1>5, <1>7 DEF RequestsEqual

(* As many lines and every one of the snapshot among them: the same lines, *)
(* if the snapshot names none twice.                                       *)
LEMMA AgreesWithSnapshot ==
  ASSUME NEW body \in Bodies, NEW lines \in SUBSET Lines, IsFiniteSet(lines),
         body.snapshot # <<>>, ~Mismatch(body.snapshot, lines),
         \A i, j \in DOMAIN body.snapshot :
           body.snapshot[i] = body.snapshot[j] => i = j
  PROVE  lines = {body.snapshot[i] : i \in DOMAIN body.snapshot}
<1>. DEFINE s    == body.snapshot
            line == [i \in DOMAIN s |-> s[i]]
<1>1. Len(s) \in Nat /\ DOMAIN s = 1 .. Len(s)
  BY CheckoutAssumption
<1>2. Len(s) = Cardinality(lines) /\ \A i \in DOMAIN s : s[i] \in lines
  BY DEF Mismatch
<1>3. Cardinality(DOMAIN s) = Cardinality(lines)
  BY <1>1, <1>2, CountedTo
<1>4. line \in [DOMAIN s -> lines] /\ \A i \in DOMAIN s : line[i] = s[i]
  BY <1>2
<1>5. line \in Injection(DOMAIN s, lines)
  BY <1>4, Fun_IsInj
<1>6. line \in Surjection(DOMAIN s, lines)
  BY <1>3, <1>5, FS_Injection
<1>7. \A l \in lines : \E i \in DOMAIN s : line[i] = l
  BY <1>6, Fun_SurjectionProperties
<1>8. \A l : l \in lines <=> \E i \in DOMAIN s : s[i] = l
  BY <1>2, <1>4, <1>7
<1>. QED  BY <1>8

(* What is priced of a cart is finitely many lines, and some of a cart     *)
(* that is not empty.                                                      *)
LEMMA PricedAreFew ==
  ASSUME NEW content \in Carts
  PROVE  /\ IsFiniteSet(Priced(content))
         /\ (\E sku \in Skus : content[sku] > 0) => Priced(content) # {}
<1>. DEFINE bought == {s \in Skus : content[s] > 0}
            line   == [sku \in bought |-> Line(sku, content[sku], price[sku])]
<1>1. IsFiniteSet(bought)
  BY CheckoutAssumption, FS_Subset
<1>2. line \in Surjection(bought, Priced(content))
  BY Fun_IsSurj DEF Priced
<1>3. IsFiniteSet(Priced(content))
  BY <1>1, <1>2, FS_Surjection
<1>. QED  BY <1>3 DEF Priced

(* A reserve call that reaches the B2B takes nothing back, and afterwards  *)
(* some attempt under its key has goods reserved.                          *)
LEMMA HeldHasGoods ==
  ASSUME Settled, NEW r \in Attempts, b2b' = Held(r), att[r].lines # {}
  PROVE  /\ \A q \in Attempts : b2b[q] # {} => b2b'[q] # {}
         /\ \E q \in Attempts : b2b'[q] # {} /\ att[q].key = att[r].key
<1>1. b2b \in [Attempts -> SUBSET [sku : Skus, quantity : Nat]]
  BY DEF Settled, Typed
<1>2. Items(att[r].lines) # {}
  BY DEF Items
<1>3. CASE Keyed /\ \E q \in Attempts : b2b[q] # {} /\ att[q].key = att[r].key
  BY <1>3 DEF Held
<1>4. CASE ~(Keyed /\ \E q \in Attempts : b2b[q] # {} /\ att[q].key = att[r].key)
  <2>1. b2b' = [b2b EXCEPT ![r] = Items(att[r].lines)]
    BY <1>4 DEF Held
  <2>2. b2b'[r] # {} /\ \A q \in Attempts \ {r} : b2b'[q] = b2b[q]
    BY <1>1, <1>2, <2>1
  <2>. QED  BY <2>2
<1>. QED  BY <1>3, <1>4

(* Goods stay, and so does the key of the attempt they were reserved by.   *)
LEMMA GoodsStay ==
  ASSUME Settled, NEW k,
         \A q \in Attempts : b2b[q] # {} => b2b'[q] # {},
         \A q \in Attempts : att[q].phase # "new" => att'[q].key = att[q].key,
         HasGoods(k)
  PROVE  \E q \in Attempts : b2b'[q] # {} /\ att'[q].key = k
<1>1. PICK q \in Attempts : b2b[q] # {} /\ att[q].key = k
  BY DEF HasGoods
<1>2. att[q].phase # "new"
  BY <1>1 DEF Settled, Accounted, Owned, After, Holding
<1>. QED  BY <1>1, <1>2

(* A step of an attempt that stores nothing keeps the invariant, from what *)
(* holds of the attempt's new record.                                      *)
LEMMA QuietHonours ==
  ASSUME Settled, Honoured, NEW r \in Attempts, NEW new \in Working,
         att[r].phase \notin After, new.phase # "stored",
         orders' = orders, att' = [att EXCEPT ![r] = new],
         att[r].phase # "new" => new.key = att[r].key,
         \A q \in Attempts : b2b[q] # {} => b2b'[q] # {},
         late' \subseteq late \cup {r},
         new.phase = "201" =>
           new.order \in Stored /\ RequestsEqual(orders[new.order].body, new.body),
         new.phase \in Going => ~Mismatch(new.body.snapshot, new.lines),
         new.phase \in Going => IsFiniteSet(new.lines),
         new.phase = "enrich" => \E sku \in Skus : new.content[sku] > 0,
         new.phase \in Going \/ r \in late' => new.lines # {},
         new.phase \in Holding => \E q \in Attempts : b2b'[q] # {} /\ att'[q].key = new.key
  PROVE  Honoured'
<1>1. /\ r \notin Stored
      /\ Stored' = Stored
      /\ att'[r] = new
      /\ \A q \in Attempts \ {r} : att'[q] = att[q]
  BY Quiet
<1>2. Matched'
  BY <1>1 DEF Honoured, Matched
<1>3. AsShown'
  BY <1>1 DEF Honoured, AsShown, Mismatch
<1>4. Filled'
  BY <1>1 DEF Honoured, Filled
<1>5. \A q \in Attempts : att[q].phase # "new" => att'[q].key = att[q].key
  BY <1>1
<1>6. ASSUME NEW q \in Attempts, att'[q].phase \in Holding
      PROVE  \E p \in Attempts : b2b'[p] # {} /\ att'[p].key = att'[q].key
  <2>1. CASE q = r
    BY <1>1, <1>6, <2>1
  <2>2. CASE q # r
    <3>1. att'[q] = att[q] /\ HasGoods(att[q].key)
      BY <1>1, <1>6, <2>2 DEF Honoured, Backed
    <3>2. PICK k : k = att[q].key
      OBVIOUS
    <3>3. \E p \in Attempts : b2b'[p] # {} /\ att'[p].key = k
      BY <1>5, <3>1, <3>2, GoodsStay
    <3>. QED  BY <3>1, <3>2, <3>3
  <2>. QED  BY <2>1, <2>2
<1>7. ASSUME NEW o \in Stored'
      PROVE  \E p \in Attempts : b2b'[p] # {} /\ att'[p].key = orders'[o].key
  <2>1. PICK k : k = orders[o].key
    OBVIOUS
  <2>2. HasGoods(k)
    BY <1>1, <2>1 DEF Honoured, Backed
  <2>3. \E p \in Attempts : b2b'[p] # {} /\ att'[p].key = k
    BY <1>5, <2>2, GoodsStay
  <2>. QED  BY <2>1, <2>3
<1>8. Backed'
  BY <1>6, <1>7 DEF Backed, HasGoods
<1>. QED  BY <1>2, <1>3, <1>4, <1>8 DEF Honoured

LEMMA InitHonours == Init => Honoured
BY DEF Init, Honoured, Matched, AsShown, Filled, Backed, Going, Holding, Stored, Fresh

LEMMA LookupHonours ==
  ASSUME Settled, Honoured, NEW r \in Attempts, NEW who \in Buyers, NEW k \in Keys,
         NEW body \in Bodies, Lookup(r, who, k, body)
  PROVE  Honoured'
<1>. DEFINE sent == [att[r] EXCEPT !.buyer = who, !.key = k, !.body = body]
<1>1. att[r] \in Working /\ att[r].phase = "new" /\ r \notin late
  BY DEF Settled, Typed, Accounted, Lookup
<1>2. ASSUME NEW code \in {"cart", "409 conflict", "500"},
             att' = [att EXCEPT ![r] = [sent EXCEPT !.phase = code]]
      PROVE  Honoured'
  <2>. DEFINE new == [sent EXCEPT !.phase = code]
  <2>1. new \in Working /\ new.phase = code
    BY <1>1 DEF Working, Phases, Running, Answers
  <2>. QED
    BY <1>1, <1>2, <2>1, QuietHonours DEF Lookup, Going, Holding, After
<1>3. ASSUME NEW o \in StoredUnder(k), RequestsEqual(orders[o].body, body),
             att' = [att EXCEPT ![r] = [sent EXCEPT !.phase = "201", !.order = o]]
      PROVE  Honoured'
  <2>. DEFINE new == [sent EXCEPT !.phase = "201", !.order = o]
  <2>1. o \in Stored /\ o \in Attempts
    BY DEF StoredUnder, Stored
  <2>2. new \in Working /\ new.phase = "201" /\ new.order = o /\ new.body = body
    BY <1>1, <2>1 DEF Working, Phases, Running, Answers
  <2>. QED
    BY <1>1, <1>3, <2>1, <2>2, QuietHonours DEF Lookup, Going, Holding, After
<1>. QED
  BY <1>2, <1>3 DEF Lookup, Become

(* An answer other than 201 owes nothing more.                             *)
LEMMA AnswerHonours ==
  ASSUME Settled, Honoured, NEW r \in Attempts, NEW code \in Answers \ {"201"},
         att[r].phase \in Running \ After, code # "stored",
         Answer(r, code), orders' = orders, b2b' = b2b,
         \/ late' = late
         \/ late' = late \cup {r} /\ att[r].phase = "reserving"
  PROVE  Honoured'
<1>1. /\ att[r] \in Working /\ att[r].phase \notin After \cup {"new"} /\ r \notin late
  BY DEF Settled, Typed, Accounted, Running
<1>. DEFINE new == [att[r] EXCEPT !.phase = code]
<1>2. code \in Phases /\ code \notin Going \cup {"201", "enrich"}
  BY DEF Phases, Answers, Going, Holding
<1>3. new \in Working /\ new.phase = code /\ new.key = att[r].key /\ new.lines = att[r].lines
  BY <1>1, <1>2, Rephased
<1>4. r \in late' => new.lines # {}
  BY <1>1, <1>3 DEF Honoured, Filled, Going
<1>5. att' = [att EXCEPT ![r] = new]
  BY DEF Answer, Become
<1>6. new.phase \notin Holding
  BY <1>2, <1>3 DEF Going
<1>. QED
  BY <1>1, <1>2, <1>3, <1>4, <1>5, <1>6, QuietHonours

LEMMA LoadCartHonours ==
  ASSUME Settled, Honoured, NEW r \in Attempts, LoadCart(r)
  PROVE  Honoured'
<1>1. /\ att[r] \in Working /\ att[r].phase = "cart" /\ r \notin late
      /\ att[r].key \in Keys
  BY DEF Settled, Typed, Accounted, LoadCart
<1>. DEFINE content == cart[att[r].buyer]
<1>2. content \in Carts /\ content \in [Skus -> Nat]
  BY <1>1, CheckoutAssumption DEF Settled, Typed
<1>3. ASSUME NEW code \in {"400", "503"}, Answer(r, code)
      PROVE  Honoured'
  BY <1>1, <1>3, AnswerHonours DEF LoadCart, Running, After, Answers
<1>4. CASE /\ ~\A sku \in Skus : content[sku] = 0
           /\ Become(r, [att[r] EXCEPT !.phase = "enrich", !.content = content])
  <2>. DEFINE new == [att[r] EXCEPT !.phase = "enrich", !.content = content]
  <2>1. \E sku \in Skus : content[sku] > 0
    BY <1>2, <1>4
  <2>2. /\ new \in Working /\ new.phase = "enrich"
        /\ new.key = att[r].key /\ new.content = content
    BY <1>1, <1>2 DEF Working, Phases, Running
  <2>. QED
    BY <1>1, <1>4, <2>1, <2>2, QuietHonours DEF LoadCart, Become, Going, Holding, After
<1>. QED
  BY <1>3, <1>4 DEF LoadCart

LEMMA EnrichHonours ==
  ASSUME Settled, Honoured, NEW r \in Attempts, Enrich(r)
  PROVE  Honoured'
<1>1. /\ att[r] \in Working /\ att[r].phase = "enrich" /\ r \notin late
      /\ att[r].content \in Carts
      /\ \E sku \in Skus : att[r].content[sku] > 0
  BY DEF Settled, Typed, Accounted, Enrich, Honoured, Filled
<1>. DEFINE lines == Priced(att[r].content)
<1>2. ASSUME NEW code \in {"409", "422", "500", "503"}, Answer(r, code)
      PROVE  Honoured'
  BY <1>1, <1>2, AnswerHonours DEF Enrich, Running, After, Answers
<1>3. CASE /\ ~Mismatch(att[r].body.snapshot, lines)
           /\ Become(r, [att[r] EXCEPT !.phase = "reserving", !.lines = lines])
  <2>. DEFINE new == [att[r] EXCEPT !.phase = "reserving", !.lines = lines]
  <2>1. lines \subseteq Lines
    BY <1>1, PricedLines DEF Settled, Typed
  <2>2. IsFiniteSet(lines) /\ lines # {}
    BY <1>1, PricedAreFew
  <2>3. /\ new \in Working /\ new.phase = "reserving" /\ new.lines = lines
        /\ new.buyer = att[r].buyer /\ new.key = att[r].key /\ new.body = att[r].body
    BY <1>1, <2>1 DEF Working, Phases, Running
  <2>. HIDE DEF lines
  <2>. QED
    BY <1>1, <1>3, <2>2, <2>3, QuietHonours DEF Enrich, Become, Holding, After
<1>. QED
  BY <1>2, <1>3 DEF Enrich

LEMMA ReservedHonours ==
  ASSUME Settled, Honoured, NEW r \in Attempts, Reserved(r)
  PROVE  Honoured'
<1>1. /\ att[r] \in Working /\ att[r].phase = "reserving" /\ r \notin late
      /\ att[r].lines # {} /\ IsFiniteSet(att[r].lines)
      /\ ~Mismatch(att[r].body.snapshot, att[r].lines)
  BY DEF Settled, Typed, Accounted, Reserved, Honoured, Filled, AsShown, Going
<1>2. ASSUME NEW code \in {"409", "503"}, Answer(r, code), b2b' = b2b,
             late' \in {late, late \cup {r}}
      PROVE  Honoured'
  BY <1>1, <1>2, AnswerHonours DEF Reserved, Running, After, Answers
<1>3. CASE b2b' = Held(r) /\ Answer(r, "reserved") /\ UNCHANGED late
  <2>. DEFINE new == [att[r] EXCEPT !.phase = "reserved"]
  <2>1. /\ new \in Working /\ new.phase = "reserved" /\ new.key = att[r].key
        /\ new.body = att[r].body /\ new.lines = att[r].lines
    BY <1>1, Rephased DEF Phases, Running
  <2>2. att' = [att EXCEPT ![r] = new]
    BY <1>3 DEF Answer, Become
  <2>3. \A q \in Attempts : att'[q].key = att[q].key
    BY <2>1, <2>2 DEF Settled, Typed
  <2>4. /\ \A q \in Attempts : b2b[q] # {} => b2b'[q] # {}
        /\ \E q \in Attempts : b2b'[q] # {} /\ att'[q].key = new.key
    BY <1>1, <1>3, <2>1, <2>3, HeldHasGoods
  <2>. QED
    BY <1>1, <1>3, <2>1, <2>2, <2>4, QuietHonours DEF Reserved, After
<1>. QED
  BY <1>2, <1>3 DEF Reserved, NoAnswer

LEMMA ApplyLateHonours ==
  ASSUME Settled, Honoured, NEW r \in Attempts, ApplyLate(r)
  PROVE  Honoured'
<1>1. att[r].lines # {}
  BY DEF ApplyLate, Honoured, Filled
<1>2. \A q \in Attempts : b2b[q] # {} => b2b'[q] # {}
  BY <1>1, HeldHasGoods DEF ApplyLate
<1>3. Stored' = Stored
  BY DEF ApplyLate, Stored
<1>. QED
  BY <1>2, <1>3 DEF ApplyLate, Honoured, Matched, AsShown, Filled, Backed, HasGoods

LEMMA CountOrdersHonours ==
  ASSUME Settled, Honoured, NEW r \in Attempts, CountOrders(r)
  PROVE  Honoured'
<1>. DEFINE number == Cardinality(Stored) + 1
            new    == [att[r] EXCEPT !.phase = "counted", !.number = number]
<1>1. /\ att[r] \in Working /\ att[r].phase = "reserved" /\ r \notin late
      /\ att[r].lines # {} /\ IsFiniteSet(att[r].lines)
      /\ ~Mismatch(att[r].body.snapshot, att[r].lines)
      /\ \E q \in Attempts : b2b[q] # {} /\ att[q].key = att[r].key
  BY DEF Settled, Typed, Accounted, CountOrders, Honoured, Filled, AsShown, Backed,
         HasGoods, Going, Holding
<1>2. number \in Nat
  BY StoredIsFinite
<1>. HIDE DEF number
<1>3. CASE att' = [att EXCEPT ![r] = new]
  <2>1. /\ new \in Working /\ new.phase = "counted" /\ new.key = att[r].key
        /\ new.body = att[r].body /\ new.lines = att[r].lines
    BY <1>1, <1>2 DEF Working, Phases, Running
  <2>2. \A q \in Attempts : att'[q].key = att[q].key
    BY <1>3, <2>1 DEF Settled, Typed
  <2>. QED
    BY <1>1, <1>3, <2>1, <2>2, QuietHonours DEF CountOrders, After
<1>4. CASE Answer(r, "500")
  BY <1>1, <1>4, AnswerHonours DEF CountOrders, Running, After, Answers
<1>. QED  BY <1>3, <1>4 DEF CountOrders, Become, number

(* The insert takes over the key, the body and the lines of the attempt.   *)
LEMMA InsertHonours ==
  ASSUME Settled, Honoured, NEW r \in Attempts, att[r].phase = "counted", Admits(r),
         orders' = [orders EXCEPT ![r] = RowOf(r)],
         att' = [att EXCEPT ![r] = [att[r] EXCEPT !.phase = "stored"]],
         UNCHANGED <<b2b, late, cart, price, changes, crashes>>
  PROVE  Honoured'
<1>. DEFINE new == [att[r] EXCEPT !.phase = "stored"]
<1>1. /\ att[r] \in Working /\ r \notin late /\ r \notin Stored
      /\ att[r].body \in Bodies
      /\ IsFiniteSet(att[r].lines) /\ ~Mismatch(att[r].body.snapshot, att[r].lines)
      /\ HasGoods(att[r].key)
  BY DEF Settled, Typed, Accounted, Owned, After, Honoured, AsShown, Backed, Going, Holding
<1>2. /\ new \in Working /\ new.phase = "stored"
      /\ new.key = att[r].key /\ new.body = att[r].body
  BY <1>1, Rephased DEF Phases, Running
<1>3. att'[r] = new /\ \A q \in Attempts \ {r} : att'[q] = att[q]
  BY DEF Settled, Typed
<1>4. /\ orders'[r] = RowOf(r)
      /\ \A o \in Attempts \ {r} : orders'[o] = orders[o]
  BY DEF Settled, Typed
<1>5. /\ RowOf(r).key = att[r].key /\ RowOf(r).body = att[r].body
      /\ RowOf(r).lines = att[r].lines
  BY DEF RowOf
<1>6. \A o \in Stored' : o = r \/ (o \in Stored /\ o \in Attempts \ {r})
  BY <1>1, <1>4 DEF Stored
<1>7. Matched'
  <2>1. \A q \in Attempts \ {r} : att[q].phase = "201" =>
          att[q].order \in Attempts \ {r}
    BY <1>1 DEF Settled, Answered, Stored
  <2>. QED
    BY <1>2, <1>3, <1>4, <2>1 DEF Honoured, Matched
<1>8. AsShown'
  <2>1. \A q \in Attempts : att'[q].phase \in Going => q # r
    BY <1>2, <1>3 DEF Going, Holding
  <2>. QED
    BY <1>1, <1>3, <1>4, <1>5, <1>6, <2>1 DEF Honoured, AsShown, Mismatch
<1>9. Filled'
  BY <1>1, <1>2, <1>3 DEF Honoured, Filled, Going, Holding
<1>10. \A q \in Attempts : att'[q].key = att[q].key
  BY <1>2, <1>3
<1>11. Backed'
  <2>1. \A q \in Attempts : att'[q].phase \in Holding => q # r
    BY <1>2, <1>3 DEF Holding
  <2>2. \A q \in Attempts : att'[q].phase \in Holding =>
          \E p \in Attempts : b2b'[p] # {} /\ att'[p].key = att'[q].key
    BY <1>3, <1>10, <2>1 DEF Honoured, Backed, HasGoods
  <2>3. \A o \in Stored' : \E p \in Attempts : b2b'[p] # {} /\ att'[p].key = orders'[o].key
    BY <1>1, <1>4, <1>5, <1>6, <1>10 DEF Honoured, Backed, HasGoods
  <2>. QED  BY <2>2, <2>3 DEF Backed, HasGoods
<1>. QED  BY <1>7, <1>8, <1>9, <1>11 DEF Honoured

LEMMA CommitHonours ==
  ASSUME Settled, Honoured, NEW r \in Attempts, Commit(r)
  PROVE  Honoured'
<1>1. CASE /\ Admits(r)
           /\ orders' = [orders EXCEPT ![r] = RowOf(r)]
           /\ Answer(r, "stored")
  BY <1>1, InsertHonours DEF Commit, Answer, Become
<1>2. CASE Answer(r, "500") /\ UNCHANGED orders
  BY <1>2, AnswerHonours DEF Commit, Running, After, Answers
<1>. QED  BY <1>1, <1>2 DEF Commit

(* The order read back was placed for the very request.                    *)
LEMMA RefreshHonours ==
  ASSUME Settled, Honoured, NEW r \in Attempts, Refresh(r)
  PROVE  Honoured'
<1>1. att[r] \in Working /\ r \notin late /\ att[r].body \in Bodies
  BY DEF Settled, Typed, Accounted, Refresh
<1>2. RequestsEqual(orders[r].body, att[r].body)
  <2>1. orders[r] = RowOf(r)
    BY DEF Settled, Owned, Refresh
  <2>2. orders[r].body = att[r].body
    BY <2>1 DEF RowOf
  <2>. QED  BY <1>1, <2>2, AsksForItself
<1>3. PICK new \in {[att[r] EXCEPT !.phase = "201", !.order = r],
                   [att[r] EXCEPT !.phase = "500"]} : att' = [att EXCEPT ![r] = new]
  BY DEF Refresh, Answer, Become
<1>4. /\ (new.phase = "201" /\ new.order = r) \/ new.phase = "500"
      /\ new.key = att[r].key /\ new.body = att[r].body
  BY <1>1, <1>3 DEF Working
<1>5. att'[r] = new /\ \A q \in Attempts \ {r} : att'[q] = att[q]
  BY <1>3 DEF Settled, Typed
<1>6. UNCHANGED <<orders, b2b, late>> /\ Stored' = Stored
  BY DEF Refresh, Stored
<1>7. Matched'
  BY <1>2, <1>4, <1>5, <1>6 DEF Honoured, Matched
<1>8. AsShown'
  BY <1>4, <1>5, <1>6 DEF Honoured, AsShown, Mismatch, Going, Holding
<1>9. Filled'
  BY <1>1, <1>4, <1>5, <1>6 DEF Honoured, Filled, Going, Holding
<1>10. Backed'
  <2>1. \A q \in Attempts : att'[q].key = att[q].key
    BY <1>4, <1>5
  <2>2. \A q \in Attempts : att'[q].phase \in Holding => q # r
    BY <1>4, <1>5 DEF Holding
  <2>. QED  BY <1>5, <1>6, <2>1, <2>2 DEF Honoured, Backed, HasGoods
<1>. QED  BY <1>7, <1>8, <1>9, <1>10 DEF Honoured

LEMMA ChangeHonours ==
  ASSUME Honoured,
         \/ \E b \in Buyers : ChangeCart(b)
         \/ \E sku \in Skus : ChangePrice(sku)
  PROVE  Honoured'
<1>1. UNCHANGED <<orders, b2b, late, att>> /\ Stored' = Stored
  BY DEF ChangeCart, ChangePrice, Stored
<1>. QED
  BY <1>1 DEF Honoured, Matched, AsShown, Filled, Backed, HasGoods

LEMMA CrashHonours ==
  ASSUME Settled, Honoured, Crash
  PROVE  Honoured'
<1>1. UNCHANGED <<orders, b2b>> /\ Stored' = Stored
  BY DEF Crash, Stored
<1>2. PICK sent \in SUBSET {r \in Attempts : att[r].phase = "reserving"} :
        late' = late \cup sent
  BY DEF Crash
<1>3. \A r \in Attempts :
        /\ att'[r].phase = att[r].phase \/ att'[r].phase = "died"
        /\ att'[r].key = att[r].key /\ att'[r].body = att[r].body
        /\ att'[r].content = att[r].content /\ att'[r].lines = att[r].lines
        /\ att'[r].order = att[r].order
  <2>. SUFFICES ASSUME NEW r \in Attempts
                PROVE  /\ att'[r].phase = att[r].phase \/ att'[r].phase = "died"
                       /\ att'[r].key = att[r].key /\ att'[r].body = att[r].body
                       /\ att'[r].content = att[r].content /\ att'[r].lines = att[r].lines
                       /\ att'[r].order = att[r].order
    OBVIOUS
  <2>1. att'[r] = IF InFlight(r) THEN [att[r] EXCEPT !.phase = "died"] ELSE att[r]
    BY DEF Crash
  <2>2. att[r] \in Working /\ "died" \in Phases
    BY DEF Settled, Typed, Phases, Answers
  <2>. QED  BY <2>1, <2>2, Rephased
<1>4. Matched'
  BY <1>1, <1>3 DEF Honoured, Matched
<1>5. AsShown'
  BY <1>1, <1>3 DEF Honoured, AsShown, Mismatch, Going, Holding
<1>6. Filled'
  BY <1>2, <1>3 DEF Honoured, Filled, Going, Holding
<1>7. Backed'
  BY <1>1, <1>3 DEF Honoured, Backed, HasGoods, Holding
<1>. QED  BY <1>4, <1>5, <1>6, <1>7 DEF Honoured

LEMMA NextHonours ==
  ASSUME Settled, Honoured, [Next]_vars
  PROVE  Honoured'
<1>1. CASE UNCHANGED vars
  BY <1>1 DEF vars, Honoured, Matched, AsShown, Filled, Backed, HasGoods, Stored
<1>2. ASSUME NEW r \in Attempts, AttemptStep(r) \/ ApplyLate(r)
      PROVE  Honoured'
  BY <1>2, LookupHonours, LoadCartHonours, EnrichHonours, ReservedHonours,
     CountOrdersHonours, CommitHonours, RefreshHonours, ApplyLateHonours
     DEF AttemptStep
<1>3. CASE \/ \E b \in Buyers : ChangeCart(b)
           \/ \E sku \in Skus : ChangePrice(sku)
  BY <1>3, ChangeHonours
<1>4. CASE Crash
  BY <1>4, CrashHonours
<1>. QED  BY <1>1, <1>2, <1>3, <1>4 DEF Next

THEOREM AlwaysHonoured == Spec => []Honoured
BY InitHonours, NextHonours, AlwaysSettled, PTL DEF Spec

(* Whoever is answered 201, at first or on a retry however late, is given  *)
(* an order placed for a request like its own, and one of the buyer's own  *)
(* unless some other buyer has used the same key: the lookup asks for the  *)
(* key only.                                                               *)
THEOREM AnswersMatch == Spec => []AnswerMatchesRequest
<1>1. Settled /\ Honoured => AnswerMatchesRequest
  <2>. SUFFICES ASSUME Settled, Honoured, NEW r \in Attempts, att[r].phase = "201"
                PROVE  LET given == orders[att[r].order]
                           kept  == given.body
                           asked == att[r].body
                       IN  /\ kept.rest = asked.rest
                           /\ Len(kept.snapshot) = Len(asked.snapshot)
                           /\ {kept.snapshot[i] : i \in DOMAIN kept.snapshot} =
                                {asked.snapshot[i] : i \in DOMAIN asked.snapshot}
                           /\ OwnKey(r) => given.buyer = att[r].buyer
    BY DEF AnswerMatchesRequest
  <2>. DEFINE o == att[r].order
  <2>1. /\ o \in Stored /\ orders[o].key = att[r].key
        /\ RequestsEqual(orders[o].body, att[r].body)
    BY DEF Settled, Answered, Honoured, Matched
  <2>2. att[r].body \in Bodies /\ orders[o].body \in Bodies
    BY <2>1 DEF Settled, Typed, Stored, OrderRows
  <2>3. o \in Attempts /\ orders[o] = RowOf(o)
    BY <2>1 DEF Settled, Owned, Stored
  <2>4. orders[o].key = att[o].key /\ orders[o].buyer = att[o].buyer
    BY <2>3 DEF RowOf
  <2>5. OwnKey(r) => orders[o].buyer = att[r].buyer
    BY <2>1, <2>3, <2>4 DEF OwnKey
  <2>. QED  BY <2>1, <2>2, <2>5, AlikeIsSame
<1>. QED  BY <1>1, AlwaysSettled, AlwaysHonoured, PTL

(* Some attempt under the key of every stored order has goods reserved,    *)
(* also where the B2B folds repeated keys and the attempt that stored the  *)
(* order found its call answered without a reservation of its own.         *)
THEOREM KeysAreReserved == Spec => []KeyIsReserved
<1>1. Honoured => KeyIsReserved
  BY DEF Honoured, Backed, HasGoods, KeyIsReserved
<1>. QED  BY <1>1, AlwaysHonoured, PTL

(* Provided that snapshots name no line twice, an order stored for a       *)
(* request with a snapshot contains what the client saw, whatever became   *)
(* of cart and prices meanwhile.  (With a line named twice it need not.)   *)
THEOREM SnapshotsAreHonoured ==
  ASSUME \A body \in Bodies : \A i, j \in DOMAIN body.snapshot :
           body.snapshot[i] = body.snapshot[j] => i = j
  PROVE  Spec => []SnapshotHonoured
<1>1. Settled /\ Honoured => SnapshotHonoured
  <2>. SUFFICES ASSUME Settled, Honoured, NEW o \in Stored,
                       orders[o].body.snapshot # <<>>
                PROVE  orders[o].lines =
                         {orders[o].body.snapshot[i] : i \in DOMAIN orders[o].body.snapshot}
    BY DEF SnapshotHonoured
  <2>1. orders[o].body \in Bodies /\ orders[o].lines \in SUBSET Lines
    BY DEF Settled, Typed, Stored, OrderRows
  <2>2. IsFiniteSet(orders[o].lines) /\ ~Mismatch(orders[o].body.snapshot, orders[o].lines)
    BY DEF Honoured, AsShown
  <2>. QED  BY <2>1, <2>2, AgreesWithSnapshot
<1>. QED  BY <1>1, AlwaysSettled, AlwaysHonoured, PTL
=============================================================================

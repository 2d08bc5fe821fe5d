------------------------------- MODULE Catalog ------------------------------
(***************************************************************************)
(* The read side of the shop: CatalogService answers from what the B2B     *)
(* says at the moment of each call, and from the stored collections.  It   *)
(* stores nothing, so one request at a time is enough: what can change     *)
(* between two calls of one request, or between two requests of a client   *)
(* that pages through a collection, is the B2B.                            *)
(*                                                                         *)
(* The B2B keeps categories in a tree and gives each its path of ids from  *)
(* the root, itself included.  Removing a category does not touch the      *)
(* paths below it, which then name a category that is gone.                *)
(***************************************************************************)
EXTENDS Integers, SequencesExt

CONSTANTS Categories, Products,
          Ordering,    \* position of every product of the collection
          SkuLists,    \* SKUs a product can have, in the order of the B2B:
                       \* [price |-> .., discount |-> .., quantity |-> ..]
          Limit,       \* page size of the client
          None

ASSUME CatalogAssumption ==
  /\ IsFiniteSet(Categories) /\ IsFiniteSet(Products)
  /\ Ordering \in [Products -> Int]
  /\ SkuLists \subseteq Seq([price : Int, discount : Int, quantity : Int])
  /\ Limit \in Nat \ {0}
  /\ None \notin Categories

VARIABLES cats,     \* in the B2B: category -> path
          onSale,   \* in the B2B: products its public endpoints show
          req,      \* the coroutine of the request
          answer,   \* what it was answered, until something else happens
          scan      \* what a client has seen of the collection so far

b2bVars == <<cats, onSale>>
vars    == <<b2bVars, req, answer, scan>>

Idle   == [phase |-> "idle"]
Silent == [of |-> "nothing"]
Unread == [items |-> <<>>, unavailable |-> <<>>, offset |-> 0, done |-> FALSE]

Answers(new) == answer' = new /\ req' = Idle
Calls(next)  == answer' = Silent /\ req' = next
Fails(of, code) == [of |-> of, status |-> code]
Reads        == UNCHANGED <<b2bVars, scan>>
-----------------------------------------------------------------------------
(* The forests over all categories, as paths.                              *)
Forest(f) == \A c \in DOMAIN f :
  /\ Last(f[c]) = c
  /\ Len(f[c]) > 1 => LET up == Front(f[c]) IN Last(up) \in DOMAIN f /\ f[Last(up)] = up

Init ==
  /\ cats \in {f \in [Categories -> SetToAllKPermutations(Categories) \ {<<>>}] : Forest(f)}
  /\ onSale = Products
  /\ req = Idle
  /\ answer = Silent
  /\ scan = Unread

CategoryRemoved(c) ==
  /\ c \in DOMAIN cats
  /\ cats' = [d \in DOMAIN cats \ {c} |-> cats[d]]
  /\ answer' = Silent
  /\ UNCHANGED <<onSale, req, scan>>

(* c goes below p, with all there is below it.                             *)
CategoryMoved(c, p) ==
  /\ {c, p} \subseteq DOMAIN cats
  /\ ~Contains(cats[p], c)
  /\ LET below(d) == SubSeq(cats[d], SelectInSeq(cats[d], LAMBDA x : x = c), Len(cats[d]))
     IN  cats' = [d \in DOMAIN cats |->
           IF Contains(cats[d], c) THEN cats[p] \o below(d) ELSE cats[d]]
  /\ answer' = Silent
  /\ UNCHANGED <<onSale, req, scan>>

SaleChanges(p) ==
  /\ onSale' = SymDiff(onSale, {p})
  /\ answer' = Silent
  /\ UNCHANGED <<cats, req, scan>>
-----------------------------------------------------------------------------
(* path_parts[-2], for a path of at least two parts.                       *)
RootOf(path)   == IF Len(path) > 1 THEN path[1] ELSE None
ParentOf(path) == IF Len(path) > 1 THEN path[Len(path) - 1] ELSE None

(* The orphan check: an id on the path is not in the listing.              *)
OrphanIfParentIsGone(path) == ParentOf(path) \notin DOMAIN cats \cup {None}
Orphan(path) == ~(ToSet(path) \subseteq DOMAIN cats)

(* Every node hangs under its parent if there is one, else it is a root.   *)
Tree == [roots    |-> {c \in DOMAIN cats : ParentOf(cats[c]) \notin DOMAIN cats},
         children |-> [p \in DOMAIN cats |->
                         {c \in DOMAIN cats : ParentOf(cats[c]) = p}]]

(* "502" is any failure of the B2B but a 404: it is passed on.             *)
GetTree ==
  /\ req = Idle
  /\ \/ Answers(Fails("tree", "502"))
     \/ IF \E c \in DOMAIN cats : Orphan(cats[c])
        THEN Answers(Fails("tree", "422"))
        ELSE Answers([of |-> "tree", status |-> "200", tree |-> Tree])
  /\ Reads

(* (The number of products is a second call, whose failure counts as 0.)   *)
GetCategory(c) ==
  /\ req = Idle
  /\ \/ Answers(Fails("category", "502"))
     \/ /\ c \notin DOMAIN cats
        /\ Answers(Fails("category", "404"))
     \/ /\ c \in DOMAIN cats
        /\ IF Orphan(cats[c])
           THEN Answers(Fails("category", "422"))
           ELSE Answers([of |-> "category", status |-> "200", category |-> c,
                         parent |-> ParentOf(cats[c])])
  /\ Reads

(* Breadcrumbs of a category, or of the one the B2B names for a product:   *)
(* the listing is fetched after the product.                               *)
CrumbsOfBothOrNeither ==
  /\ req = Idle
  /\ Answers(Fails("crumbs", "400"))
  /\ Reads

CrumbsOf(c) ==
  /\ req = Idle
  /\ Calls([phase |-> "crumbs", category |-> c])
  /\ Reads

CrumbsOfProduct(p, c) ==
  /\ req = Idle
  /\ \/ Answers(Fails("crumbs", "502"))
     \/ p \notin onSale /\ Answers(Fails("crumbs", "404"))
     \/ p \in onSale /\ Calls([phase |-> "crumbs", category |-> c])
  /\ Reads

CrumbsListed ==
  /\ req.phase = "crumbs"
  /\ LET c == req.category
     IN  \/ Answers(Fails("crumbs", "502"))
         \/ /\ c \notin DOMAIN cats
            /\ Answers(Fails("crumbs", "404"))
         \/ /\ c \in DOMAIN cats
            /\ IF Orphan(cats[c])
               THEN Answers(Fails("crumbs", "422"))
               ELSE Answers([of |-> "crumbs", status |-> "200", category |-> c,
                             crumbs |-> [i \in DOMAIN cats[c] |->
                               [id |-> cats[c][i], level |-> i - 1,
                                current |-> cats[c][i] = c]]])
  /\ Reads
-----------------------------------------------------------------------------
(* The card of a product: the first of the cheapest SKUs, of those in      *)
(* stock if there are any.                                                 *)
Net(sku)      == sku.price - sku.discount
InStock(skus) == {i \in DOMAIN skus : skus[i].quantity > 0}
FirstListed(skus, pool) == skus[1]
Cheapest(skus, pool) ==
  skus[CHOOSE i \in pool : \A j \in pool :
         Net(skus[i]) < Net(skus[j]) \/ (Net(skus[i]) = Net(skus[j]) /\ i <= j)]

Card(skus) ==
  LET stock == InStock(skus)
      sku   == Cheapest(skus, IF stock # {} THEN stock ELSE DOMAIN skus)
  IN  [has_stock |-> stock # {},
       min_price |-> IF skus = <<>> THEN 0 ELSE Net(sku),
       old_price |-> IF skus # <<>> /\ sku.discount > 0 THEN sku.price ELSE None]

GetProduct(p, skus) ==
  /\ req = Idle
  /\ \/ Answers(Fails("product", "502"))
     \/ p \notin onSale /\ Answers(Fails("product", "404"))
     \/ p \in onSale /\ Answers([of |-> "product", status |-> "200", skus |-> skus,
                                 card |-> Card(skus)])
  /\ Reads

(* What a batch knows of a list of ids, in the order of the list.          *)
Ascending(places) ==
  CHOOSE at \in SetToSeqs(places) : \A i, j \in DOMAIN at : i < j => at[i] < at[j]
Kept(ids, known) ==
  LET at == Ascending({i \in DOMAIN ids : ids[i] \in known})
  IN  [k \in DOMAIN at |-> ids[at[k]]]

(* Similar products: a list of ids, then their data in one batch; ids the  *)
(* batch does not know are left out.                                       *)
SimilarListed(p, ids) ==
  /\ req = Idle
  /\ \/ Answers(Fails("similar", "502"))
     \/ Answers(Fails("similar", "404"))
     \/ ids = <<>> /\ Answers([of |-> "similar", status |-> "200", items |-> <<>>])
     \/ ids # <<>> /\ Calls([phase |-> "similar", ids |-> ids])
  /\ Reads

SimilarAnswered ==
  /\ req.phase = "similar"
  /\ \/ \E code \in {"404", "502"} : Answers(Fails("similar", code))
     \/ Answers([of |-> "similar", status |-> "200",
                 items |-> Kept(req.ids, onSale)])
  /\ Reads
-----------------------------------------------------------------------------
(* A page of the collection: the relations sorted by ordering, sliced, the *)
(* slice fetched in one batch.  Rows of equal ordering come in any order.  *)
Relations == {s \in SetToSeqs(Products) :
                \A i, j \in DOMAIN s : i < j => Ordering[s[i]] <= Ordering[s[j]]}
PageLong(s, offset) == SubSeq(s, offset + 1, Min({offset + Limit + 1, Len(s)}))
Page(s, offset)     == SubSeq(s, offset + 1, Min({offset + Limit, Len(s)}))

CollectionSelect ==
  /\ req = Idle
  /\ ~scan.done
  /\ \E s \in Relations :
       LET ids == Page(s, scan.offset)
       IN  IF ids = <<>>
           THEN /\ Answers(Silent)
                /\ scan' = [scan EXCEPT !.done = TRUE]
           ELSE /\ Calls([phase |-> "batch", ids |-> ids])
                /\ UNCHANGED scan
  /\ UNCHANGED b2bVars

(* The client asks for the next page, or for the same one after a 502.     *)
(* What is on sale may still be unknown: the batch as a whole may be a     *)
(* 404, and a product that cannot be mapped is passed over.                *)
CollectionAnsweredItemsOnly ==
  /\ req.phase = "batch"
  /\ Answers(Silent)
  /\ \/ UNCHANGED scan
     \/ \E known \in SUBSET onSale :
          scan' = [scan EXCEPT !.items  = @ \o Kept(req.ids, known),
                               !.offset = @ + Limit]
  /\ UNCHANGED b2bVars

CollectionAnswered ==
  /\ req.phase = "batch"
  /\ Answers(Silent)
  /\ \/ UNCHANGED scan
     \/ \E known \in SUBSET onSale :
          scan' = [scan EXCEPT
            !.items       = @ \o Kept(req.ids, known),
            !.unavailable = @ \o Kept(req.ids, Products \ known),
            !.offset      = @ + Limit]
  /\ UNCHANGED b2bVars

Rescan == scan.done /\ scan' = Unread /\ UNCHANGED <<b2bVars, req, answer>>
-----------------------------------------------------------------------------
Next ==
  \/ \E c \in Categories : \/ CategoryRemoved(c)
                           \/ \E p \in Categories : CategoryMoved(c, p)
                           \/ GetCategory(c)
                           \/ CrumbsOf(c)
  \/ \E p \in Products : \/ SaleChanges(p)
                         \/ \E c \in Categories : CrumbsOfProduct(p, c)
                         \/ \E skus \in SkuLists : GetProduct(p, skus)
                         \/ \E ids \in SetToAllKPermutations(Products \ {p}) :
                              SimilarListed(p, ids)
  \/ GetTree \/ CrumbsOfBothOrNeither \/ CrumbsListed \/ SimilarAnswered
  \/ CollectionSelect \/ CollectionAnswered \/ Rescan

Spec == Init /\ [][Next]_vars
-----------------------------------------------------------------------------
Says(of) == answer.of = of /\ answer.status = "200"

(* A tree that is answered leaves no category out and shows each exactly   *)
(* once, below the ancestors its path names: the ways from the roots down  *)
(* are the paths.                                                          *)
Ways(t) == {w \in SetToAllKPermutations(DOMAIN t.children) :
              /\ w # <<>>
              /\ w[1] \in t.roots
              /\ \A i \in 1 .. Len(w) - 1 : w[i + 1] \in t.children[w[i]]}
TreeIsComplete == Says("tree") => Ways(answer.tree) = {cats[c] : c \in DOMAIN cats}

(* Breadcrumbs answered for a category are unbroken whatever happened to   *)
(* the listing since its product was read: a root, then each under the one *)
(* before it by that one's own path, down to the category, the only one    *)
(* marked as current.                                                      *)
CrumbsAreUnbroken ==
  Says("crumbs") =>
    LET crumbs == answer.crumbs
        n      == Len(crumbs)
    IN  /\ crumbs[n].id = answer.category
        /\ \A i \in 1 .. n : /\ crumbs[i].id \in DOMAIN cats
                             /\ cats[crumbs[i].id] = [j \in 1 .. i |-> crumbs[j].id]
                             /\ crumbs[i].level = i - 1
                             /\ crumbs[i].current = (i = n)

(* The price of a card can be paid: some SKU in stock has it and none in   *)
(* stock is cheaper; and an old price is a higher one.                     *)
PriceIsInStock ==
  Says("product") =>
    LET card  == answer.card
        offer == {answer.skus[i] : i \in DOMAIN answer.skus}
        sold  == {s \in offer : s.quantity > 0}
    IN  /\ card.has_stock = (sold # {})
        /\ card.has_stock => card.min_price = Min({Net(s) : s \in sold})
        /\ card.old_price # None => card.old_price > card.min_price

(* A client that pages through a collection to its end has seen every      *)
(* product of it exactly once, among the items or among the unavailable,   *)
(* and the items in the order of the collection, although products went    *)
(* off sale and came back between the pages.                               *)
ScanSeesAll ==
  scan.done => /\ scan.items \o scan.unavailable \in SetToSeqs(Products)
               /\ \A i, j \in DOMAIN scan.items :
                    i < j => Ordering[scan.items[i]] <= Ordering[scan.items[j]]

(* The shape of things; a client never sees a product of a collection      *)
(* twice, half way through either.                                         *)
TypeOK ==
  /\ DOMAIN cats \subseteq Categories
  /\ \A c \in DOMAIN cats : Last(cats[c]) = c
  /\ onSale \subseteq Products
  /\ req.phase \in {"idle", "crumbs", "similar", "batch"}
  /\ answer.of \in {"nothing", "tree", "category", "crumbs", "product", "similar"}
  /\ scan.items \o scan.unavailable \in SetToAllKPermutations(Products)
  /\ scan.offset \in Nat
  /\ scan.done \in BOOLEAN
=============================================================================

------------------------------ MODULE Filters ------------------------------
(***************************************************************************)
(* What a listing of products and its facets ask the B2B for, of what the  *)
(* client asked for: parse_filters turns the parameters filter[..][..] of  *)
(* the query string into nested dictionaries, from which get_products and  *)
(* get_facets each take their own; get_facets also reads category_id and   *)
(* filters[..], the parameters of the B2B itself.                          *)
(*                                                                         *)
(* A parameter is its path of names, of any length, and its value.  The    *)
(* dictionaries are laid out flat, by path: a path is bound to nothing, to *)
(* a text, to a dictionary of the names below it, or to a list of texts    *)
(* that a dictionary can have got into.                                    *)
(***************************************************************************)
EXTENDS Naturals, Sequences

CONSTANTS Scalars,     \* category_id, price_min, price_max and seller_id
          Attributes,  \* names of characteristics
          Paths,       \* the paths in square brackets, and all above them
          Values,      \* texts, the empty one perhaps among them
          Printed,     \* str() of a list or of a dictionary
          MaxLength    \* bound on the parameters of a query

Empty == ""

(* The names of a path above another begin it.                             *)
Above(p, q) == Len(p) < Len(q) /\ \A i \in 1 .. Len(p) : p[i] = q[i]

ASSUME FiltersAssumption ==
  /\ "attributes" \notin Scalars /\ "category_id" \in Scalars
  /\ {<<n>> : n \in Scalars \cup {"attributes"}} \subseteq Paths
  /\ {<<"attributes", a>> : a \in Attributes} \subseteq Paths
  /\ \A path \in Paths : \A k \in 1 .. Len(path) : SubSeq(path, 1, k) \in Paths
  /\ Printed \notin Values \cup {Empty}

VARIABLES bound,   \* the dictionaries, after the parameters read so far
          raised,  \* a TypeError ended the reading: a 500
          asked,   \* the values read for each path, in their order
          direct,  \* the values of filters[..], by characteristic
          plain,   \* the values of category_id
          read     \* how many parameters that is

filterVars == <<bound, raised, asked, direct, plain, read>>

Unbound     == [is |-> "unbound"]
Text(value) == [is |-> "text", value |-> value]
List(items) == [is |-> "list", items |-> items]
Dict        == [is |-> "dict"]

NoneBound  == [path \in Paths |-> Unbound]
NoneAsked  == [path \in Paths |-> <<>>]
NoneDirect == [a \in Attributes |-> <<>>]

FiltersInit ==
  /\ bound = NoneBound /\ raised = FALSE
  /\ asked = NoneAsked /\ direct = NoneDirect /\ plain = <<>>
  /\ read = 0
-----------------------------------------------------------------------------
LeafOverwrites(old, value) == Text(value)

(* The last part of a path: a second value makes a list, of what was there *)
(* and the value.                                                          *)
Leaf(old, value) ==
  IF old.is = "unbound" THEN Text(value)
  ELSE IF old.is = "list" THEN List(Append(old.items, value))
  ELSE List(<<IF old.is = "text" THEN old.value ELSE Printed, value>>)

(* A round of the loop of parse_filters.  A part before the last is a      *)
(* dictionary, made where there is none.  Where a text or a list is bound  *)
(* to it, the next part is looked up in that: a TypeError.                 *)
Parse(path, value) ==
  /\ ~raised /\ read < MaxLength
  /\ IF \A p \in Paths : Above(p, path) => bound[p].is \in {"unbound", "dict"}
     THEN /\ bound' = [p \in Paths |-> IF Above(p, path) THEN Dict
                                       ELSE IF p = path THEN Leaf(bound[p], value)
                                       ELSE bound[p]]
          /\ UNCHANGED raised
     ELSE raised' = TRUE /\ UNCHANGED bound
  /\ asked' = [asked EXCEPT ![path] = Append(@, value)]
  /\ read' = read + 1
  /\ UNCHANGED <<direct, plain>>

(* Parameters that parse_filters passes over.                              *)
PassOver(value) ==
  /\ ~raised /\ read < MaxLength
  /\ \/ \E a \in Attributes : direct' = [direct EXCEPT ![a] = Append(@, value)]
                              /\ UNCHANGED plain
     \/ plain' = Append(plain, value) /\ UNCHANGED direct
  /\ read' = read + 1
  /\ UNCHANGED <<bound, raised, asked>>

NextQuery ==
  /\ bound' = NoneBound /\ raised' = FALSE
  /\ asked' = NoneAsked /\ direct' = NoneDirect /\ plain' = <<>>
  /\ read' = 0

FiltersNext ==
  \/ \E path \in Paths, value \in Values : Parse(path, value)
  \/ \E value \in Values : PassOver(value)
  \/ NextQuery

FiltersSpec == FiltersInit /\ [][FiltersNext]_filterVars
-----------------------------------------------------------------------------
(* The texts sent for a name: what is no text is printed, as one.          *)
Sent(old) == CASE old.is = "unbound" -> <<>>
               [] old.is = "text"    -> <<old.value>>
               [] OTHER              -> <<Printed>>

(* The listing.  "attributes" counts if it is a dictionary; of a list, as  *)
(* against a scalar's, every item is sent.                                 *)
ListingScalars == [n \in Scalars |-> Sent(bound[<<n>>])]

ListingAttributes == [a \in Attributes |->
  LET v == bound[<<"attributes", a>>]
  IN  IF bound[<<"attributes">>].is # "dict" THEN <<>>
      ELSE IF v.is = "list" THEN v.items ELSE Sent(v)]

(* The facets.  The category is the last category_id, or filter[..]'s where*)
(* that is missing or empty; an empty one is not sent.                     *)
FacetCategory ==
  IF plain # <<>> /\ plain[Len(plain)] # Empty THEN <<plain[Len(plain)]>>
  ELSE IF bound[<<"category_id">>] = Text(Empty) THEN <<>>
  ELSE Sent(bound[<<"category_id">>])

FacetAttributesPrinted == [a \in Attributes |->
  (IF bound[<<"attributes">>].is = "dict" THEN Sent(bound[<<"attributes", a>>]) ELSE <<>>)
    \o direct[a]]

FacetAttributes == [a \in Attributes |->
  LET v == bound[<<"attributes", a>>]
      chosen == IF v.is = "list" THEN v.items ELSE Sent(v)
  IN  (IF bound[<<"attributes">>].is = "dict" THEN chosen ELSE <<>>) \o direct[a]]
-----------------------------------------------------------------------------
(* The client gives values to names below this one.                        *)
Through(p) == \E q \in Paths : Above(p, q) /\ asked[q] # <<>>

(* A query is refused only if it gives a name both a value and names below.*)
(* In any other, whatever the order of the parameters and whatever becomes *)
(* of the names beside it, the listing asks the B2B for all the values of  *)
(* a characteristic, in order, and for a scalar as it was given once; for a*)
(* name not given it asks nothing.  A scalar given twice, or with names    *)
(* below it, becomes a text the client did not write.  Characteristics     *)
(* are all dropped where "attributes" has a value of its own.              *)
FiltersAreForwarded ==
  /\ raised => \E p \in Paths : asked[p] # <<>> /\ Through(p)
  /\ ~raised =>
       /\ \A n \in Scalars :
            ListingScalars[n] = IF Len(asked[<<n>>]) <= 1 /\ ~Through(<<n>>)
                                THEN asked[<<n>>] ELSE <<Printed>>
       /\ \A a \in Attributes :
            LET path == <<"attributes", a>>
            IN  /\ asked[<<"attributes">>] # <<>> => ListingAttributes[a] = <<>>
                /\ asked[<<"attributes">>] = <<>> /\ ~Through(path) =>
                     ListingAttributes[a] = asked[path]

(* The facets, which build their parameters on their own, ask for the same *)
(* characteristics as the query, in either notation, and for the category  *)
(* of the listing unless the client names another beside it, or an empty   *)
(* one.  They never ask for prices, seller or text: they need not count    *)
(* what the listing lists.                                                 *)
FacetsAreForwarded ==
  ~raised =>
    /\ \A a \in Attributes :
         LET path == <<"attributes", a>>
         IN  /\ asked[<<"attributes">>] # <<>> => FacetAttributes[a] = direct[a]
             /\ asked[<<"attributes">>] = <<>> /\ ~Through(path) =>
                  FacetAttributes[a] = asked[path] \o direct[a]
    /\ LET listed == ListingScalars["category_id"]
       IN  FacetCategory = IF plain # <<>> /\ plain[Len(plain)] # Empty
                           THEN <<plain[Len(plain)]>>
                           ELSE IF listed = <<Empty>> THEN <<>> ELSE listed
=============================================================================

---------------------------- MODULE RequestProofs ---------------------------
(***************************************************************************)
(* Theorems about what is read off a request: who sends it, by its headers *)
(* (Identity, for any users, operators and sessions), and what it asks     *)
(* for, by its query string (Filters, for any names and values and queries *)
(* of any length).                                                         *)
(***************************************************************************)
EXTENDS Identity, Filters, TLAPS

(* What an answer of a dependency is.                                      *)
LEMMA Refusals == \A status : ~Admitted(Refused(status))
BY DEF Admitted, Refused

LEMMA Admissions ==
  /\ \A u : Admitted(User(u)) /\ User(u).user = u
  /\ \A u, s : LET who == [user |-> u, session |-> s]
               IN  Admitted(who) /\ who.user = u /\ who.session = s
BY DEF Admitted, User

LEMMA Schemes == Absent.scheme = "none" /\ Other.scheme = "other"
BY DEF Absent, Other

(* A token names a subject, or nobody.                                     *)
LEMMA SubjectOrRefused ==
  ASSUME NEW token
  PROVE  \/ /\ token.verifies /\ token.sub \in Subjects
            /\ Subject(token) = User(token.sub)
         \/ /\ ~(token.verifies /\ token.sub \in Subjects)
            /\ Subject(token) = Refused(401)
BY DEF Subject

LEMMA HeadersAlways == IdentitySpec => [](headers \in Headers)
<1>1. IdentityInit => headers \in Headers
  BY DEF IdentityInit, Headers, Absent
<1>2. headers \in Headers /\ [IdentityNext]_headers => (headers \in Headers)'
  BY DEF IdentityNext
<1>. QED  BY <1>1, <1>2, PTL DEF IdentitySpec

(* By what is in the Authorization header: no token, a good one, a bad one.*)
LEMMA OnePersonForEach == OnePersonEverywhere
<1>. DEFINE token == headers.auth
<1>1. CASE ~Bearer(headers)
  BY <1>1, Refusals DEF OnePersonEverywhere, CurrentUser
<1>2. CASE /\ Bearer(headers) /\ token.verifies /\ token.sub \in Subjects
           /\ Subject(token) = User(token.sub)
  <2>1. CurrentUser(headers) = User(token.sub)
    BY <1>2 DEF CurrentUser
  <2>2. OptionalUser(headers) = User(token.sub)
    BY <1>2, Schemes DEF OptionalUser, Bearer
  <2>3. Admitted(CartIdentity(headers)) => CartIdentity(headers).user = token.sub
    BY <1>2, Refusals, Admissions DEF CartIdentity
  <2>4. Admitted(MergeIdentity(headers)) => MergeIdentity(headers).user = token.sub
    BY <1>2, Refusals, Admissions DEF MergeIdentity
  <2>5. Admitted(CurrentOperator(headers)) => CurrentOperator(headers).user = token.sub
    BY <1>2, Refusals, Admissions DEF CurrentOperator
  <2>. QED
    BY <2>1, <2>2, <2>3, <2>4, <2>5, Admissions DEF OnePersonEverywhere
<1>3. CASE /\ Bearer(headers) /\ ~(token.verifies /\ token.sub \in Subjects)
           /\ Subject(token) = Refused(401)
  <2>1. ~Admitted(CurrentUser(headers))
    BY <1>3, Refusals DEF CurrentUser
  <2>2. ~Admitted(OptionalUser(headers))
    BY <1>3, Schemes, Refusals DEF OptionalUser, Bearer
  <2>3. ~Admitted(CartIdentity(headers)) /\ ~Admitted(MergeIdentity(headers))
    BY <1>3, Refusals DEF CartIdentity, MergeIdentity
  <2>4. ~Admitted(CurrentOperator(headers))
    BY <1>3, Refusals DEF CurrentOperator, Subjects
  <2>. QED
    BY <2>1, <2>2, <2>3, <2>4 DEF OnePersonEverywhere
<1>. QED  BY <1>1, <1>2, <1>3, SubjectOrRefused

LEMMA MergeJoins ==
  ASSUME headers \in Headers
  PROVE  MergeJoinsTheirCarts
<1>. DEFINE token   == headers.auth
            session == headers.session
            alone   == [headers EXCEPT !.session = Missing]
            guest   == [headers EXCEPT !.auth = Absent]
<1>1. /\ alone.auth = token /\ alone.session = Missing
      /\ guest.auth = Absent /\ guest.session = session
  BY DEF Headers
<1>. HIDE DEF alone, guest
<1>2. CASE Admitted(MergeIdentity(headers))
  <2>1. /\ Bearer(headers) /\ token.sub \in Subjects /\ Subject(token) = User(token.sub)
        /\ session \notin {Missing, NoUuid}
        /\ MergeIdentity(headers) = [user |-> token.sub, session |-> session]
    BY <1>2, Refusals, Admissions, SubjectOrRefused DEF MergeIdentity
  <2>2. CartIdentity(headers) = [user |-> token.sub, session |-> session]
    BY <2>1, Admissions DEF CartIdentity
  <2>3. Bearer(alone)
    BY <1>1, <2>1 DEF Bearer
  <2>4. CartIdentity(alone) = [user |-> token.sub, session |-> Missing]
    BY <1>1, <2>1, <2>3, Admissions, IdentityAssumption DEF CartIdentity
  <2>5. ~Bearer(guest)
    BY <1>1, Schemes DEF Bearer
  <2>6. CartIdentity(guest) = [user |-> Missing, session |-> session]
    BY <1>1, <2>1, <2>5, Admissions DEF CartIdentity
  <2>. QED
    BY <2>1, <2>2, <2>4, <2>6, Admissions DEF MergeJoinsTheirCarts, alone, guest
<1>3. Admitted(CartIdentity(headers)) =>
        CartIdentity(headers).user # Missing \/ CartIdentity(headers).session # Missing
  BY Refusals, Admissions, SubjectOrRefused DEF CartIdentity
<1>. QED  BY <1>2, <1>3 DEF MergeJoinsTheirCarts

(* The same headers are the same person at every endpoint that admits      *)
(* them, and a token that is no good makes nobody a guest.                 *)
THEOREM SamePersonEverywhere == IdentitySpec => []OnePersonEverywhere
BY OnePersonForEach, PTL

(* A merge joins the carts that the cart requests with one of its headers  *)
(* fill, and no cart is nobody's.  (Missing, the missing header, is no id.)   *)
THEOREM MergesJoinTheirCarts == IdentitySpec => []MergeJoinsTheirCarts
<1>1. headers \in Headers => MergeJoinsTheirCarts
  BY MergeJoins
<1>. QED  BY <1>1, HeadersAlways, PTL
-----------------------------------------------------------------------------
(* What a path is bound to, by the values given for it and whether names   *)
(* below it are given any.  (Then the dictionary came first: after a value *)
(* there is no more of them.)                                              *)
Expected(given, through) ==
  IF given = <<>> THEN IF through THEN Dict ELSE Unbound
  ELSE IF through THEN List(<<Printed>> \o given)
  ELSE IF Len(given) = 1 THEN Text(given[1])
  ELSE List(given)

Parsed ==
  /\ asked \in [Paths -> Seq(Values)]
  /\ direct \in [Attributes -> Seq(Values)]
  /\ raised \in BOOLEAN
  /\ raised => \E p \in Paths : asked[p] # <<>> /\ Through(p)
  /\ ~raised => \A p \in Paths : bound[p] = Expected(asked[p], Through(p))

LEMMA Kinds ==
  /\ Unbound.is = "unbound" /\ Dict.is = "dict"
  /\ \A value : Text(value).is = "text" /\ Text(value).value = value
  /\ \A items : List(items).is = "list" /\ List(items).items = items
BY DEF Unbound, Text, List, Dict

LEMMA ExpectedKinds ==
  ASSUME NEW given \in Seq(Values), NEW through \in BOOLEAN
  PROVE  /\ Expected(given, through).is \in {"unbound", "dict"} <=> given = <<>>
         /\ Expected(given, through).is = "dict" <=> given = <<>> /\ through
BY Kinds DEF Expected

LEMMA Pair ==
  ASSUME NEW first, NEW second
  PROVE  /\ Append(<<first>>, second) = <<first, second>>
         /\ <<first>> \o <<second>> = <<first, second>>
<1>. DEFINE S == {first, second}
            t == Append(<<first>>, second)
            u == <<first>> \o <<second>>
<1>1. <<first>> \in Seq(S) /\ <<second>> \in Seq(S) /\ Len(<<first>>) = 1 /\ Len(<<second>>) = 1
      /\ <<first>>[1] = first /\ <<second>>[1] = second
  OBVIOUS
<1>2. t \in Seq(S) /\ Len(t) = 2 /\ t[1] = first /\ t[2] = second
  BY <1>1
<1>3. u \in Seq(S) /\ Len(u) = 2 /\ u[1] = first /\ u[2] = second
  BY <1>1
<1>. HIDE DEF S, t, u
<1>4. \A s \in Seq(S) : Len(s) = 2 => s = <<s[1], s[2]>>
  OBVIOUS
<1>. QED  BY <1>2, <1>3, <1>4 DEF t, u

(* One value more.                                                         *)
LEMMA LeafAsExpected ==
  ASSUME NEW given \in Seq(Values), NEW through \in BOOLEAN, NEW value \in Values
  PROVE  Leaf(Expected(given, through), value) = Expected(Append(given, value), through)
<1>. DEFINE more == Append(given, value)
<1>1. more \in Seq(Values) /\ more # <<>> /\ Len(more) = Len(given) + 1
  OBVIOUS
<1>2. CASE given = <<>> /\ through
  <2>1. more = <<value>>
    BY <1>2
  <2>5. <<Printed>> \o <<value>> = <<Printed, value>>
    BY Pair
  <2>2. Expected(given, through) = Dict
    BY <1>2 DEF Expected
  <2>3. Leaf(Dict, value) = List(<<Printed, value>>)
    BY Kinds DEF Leaf
  <2>4. Expected(more, through) = List(<<Printed>> \o more)
    BY <1>1, <1>2 DEF Expected
  <2>. QED  BY <2>1, <2>2, <2>3, <2>4, <2>5
<1>3. CASE given = <<>> /\ ~through
  <2>1. more = <<value>> /\ Len(more) = 1 /\ more[1] = value
    BY <1>3
  <2>2. Expected(given, through) = Unbound
    BY <1>3 DEF Expected
  <2>3. Leaf(Unbound, value) = Text(value)
    BY Kinds DEF Leaf
  <2>4. Expected(more, through) = Text(more[1])
    BY <1>1, <1>3, <2>1 DEF Expected
  <2>. QED  BY <2>1, <2>2, <2>3, <2>4
<1>4. CASE given # <<>> /\ through
  <2>. DEFINE shown == <<Printed>> \o given
  <2>1. Append(shown, value) = <<Printed>> \o more
    <3>1. <<Printed>> \in Seq(Values \cup {Printed}) /\ given \in Seq(Values \cup {Printed})
      OBVIOUS
    <3>. QED  BY <3>1
  <2>2. Expected(given, through) = List(shown)
    BY <1>4 DEF Expected
  <2>. HIDE DEF shown
  <2>3. Leaf(List(shown), value) = List(Append(shown, value))
    BY Kinds DEF Leaf
  <2>4. Expected(more, through) = List(<<Printed>> \o more)
    BY <1>1, <1>4 DEF Expected
  <2>. QED  BY <2>1, <2>2, <2>3, <2>4
<1>5. CASE given # <<>> /\ ~through /\ Len(given) = 1
  <2>1. more = <<given[1], value>>
    <3>1. given = <<given[1]>>
      BY <1>5
    <3>2. Append(<<given[1]>>, value) = <<given[1], value>>
      BY Pair
    <3>. QED  BY <3>1, <3>2
  <2>2. Expected(given, through) = Text(given[1])
    BY <1>5 DEF Expected
  <2>3. Leaf(Text(given[1]), value) = List(<<given[1], value>>)
    BY Kinds DEF Leaf
  <2>4. Expected(more, through) = List(more)
    BY <1>1, <1>5 DEF Expected
  <2>. QED  BY <2>1, <2>2, <2>3, <2>4
<1>6. CASE given # <<>> /\ ~through /\ Len(given) # 1
  <2>1. Len(more) # 1
    BY <1>1, <1>6
  <2>2. Expected(given, through) = List(given)
    BY <1>6 DEF Expected
  <2>3. Leaf(List(given), value) = List(more)
    BY Kinds DEF Leaf
  <2>4. Expected(more, through) = List(more)
    BY <1>1, <1>6, <2>1 DEF Expected
  <2>. QED  BY <2>2, <2>3, <2>4
<1>. QED  BY <1>2, <1>3, <1>4, <1>5, <1>6

(* A parameter is one more value for its path, and what is below a path is *)
(* given once one of its parameters is.                                    *)
LEMMA AskedMore ==
  ASSUME Parsed, NEW path \in Paths, NEW value \in Values, Parse(path, value)
  PROVE  /\ asked' \in [Paths -> Seq(Values)]
         /\ asked'[path] = Append(asked[path], value) /\ asked'[path] # <<>>
         /\ \A p \in Paths \ {path} : asked'[p] = asked[p]
         /\ \A p \in Paths : asked[p] # <<>> => asked'[p] # <<>>
         /\ \A p \in Paths : Through(p)' <=> Through(p) \/ Above(p, path)
<1>1. asked \in [Paths -> Seq(Values)] /\ asked[path] \in Seq(Values)
  BY DEF Parsed
<1>2. Append(asked[path], value) \in Seq(Values) /\ Append(asked[path], value) # <<>>
  BY <1>1
<1>3. /\ asked' \in [Paths -> Seq(Values)]
      /\ asked'[path] = Append(asked[path], value) /\ asked'[path] # <<>>
      /\ \A p \in Paths \ {path} : asked'[p] = asked[p]
  BY <1>1, <1>2 DEF Parse
<1>4. \A p \in Paths : Through(p)' <=> Through(p) \/ Above(p, path)
  BY <1>3 DEF Through
<1>. QED  BY <1>3, <1>4

LEMMA ParseRead ==
  ASSUME Parsed, NEW path \in Paths, NEW value \in Values, Parse(path, value)
  PROVE  Parsed'
<1>1. /\ asked \in [Paths -> Seq(Values)]
      /\ \A p \in Paths : bound[p] = Expected(asked[p], Through(p))
      /\ \A p \in Paths : Through(p) \in BOOLEAN
  BY DEF Parsed, Parse, Through
<1>2. \A p \in Paths : bound[p].is \in {"unbound", "dict"} <=> asked[p] = <<>>
  BY <1>1, ExpectedKinds
<1>3. CASE \A p \in Paths : Above(p, path) => bound[p].is \in {"unbound", "dict"}
  <2>1. raised' = FALSE
    BY <1>3 DEF Parse, Parsed
  <2>2. ASSUME NEW p \in Paths
        PROVE  bound'[p] = Expected(asked'[p], Through(p)')
    <3>1. bound'[p] = IF Above(p, path) THEN Dict
                      ELSE IF p = path THEN Leaf(bound[p], value) ELSE bound[p]
      BY <1>3 DEF Parse
    <3>2. CASE Above(p, path)
      <4>1. p # path
        BY <3>2 DEF Above
      <4>2. asked'[p] = <<>> /\ Through(p)'
        BY <1>2, <1>3, <3>2, <4>1, AskedMore
      <4>. QED  BY <3>1, <3>2, <4>2 DEF Expected
    <3>3. CASE ~Above(p, path) /\ p = path
      <4>1. (Through(p)' <=> Through(p)) /\ asked'[p] = Append(asked[p], value)
        BY <3>3, AskedMore
      <4>2. Leaf(bound[p], value) = Expected(Append(asked[p], value), Through(p))
        BY <1>1, LeafAsExpected
      <4>3. Expected(asked'[p], Through(p)') = Expected(Append(asked[p], value), Through(p))
        BY <4>1 DEF Expected
      <4>. QED  BY <3>1, <3>3, <4>2, <4>3
    <3>4. CASE ~Above(p, path) /\ p # path
      <4>1. (Through(p)' <=> Through(p)) /\ asked'[p] = asked[p]
        BY <3>4, AskedMore
      <4>2. Expected(asked'[p], Through(p)') = Expected(asked[p], Through(p))
        BY <4>1 DEF Expected
      <4>. QED  BY <1>1, <3>1, <3>4, <4>2
    <3>. QED  BY <3>2, <3>3, <3>4
  <2>. QED  BY <2>1, <2>2, AskedMore DEF Parsed, Parse
<1>4. ASSUME NEW p \in Paths, Above(p, path), bound[p].is \notin {"unbound", "dict"}
      PROVE  Parsed'
  <2>1. raised' = TRUE
    BY <1>4 DEF Parse
  <2>2. asked'[p] # <<>> /\ Through(p)'
    BY <1>2, <1>4, AskedMore
  <2>. QED  BY <2>1, <2>2, AskedMore DEF Parsed, Parse
<1>. QED  BY <1>3, <1>4

LEMMA NothingReadYet ==
  ASSUME bound = NoneBound, raised = FALSE, asked = NoneAsked, direct = NoneDirect
  PROVE  Parsed
<1>1. asked \in [Paths -> Seq(Values)] /\ \A p \in Paths : asked[p] = <<>> /\ ~Through(p)
  BY DEF NoneAsked, Through
<1>2. direct \in [Attributes -> Seq(Values)]
  BY DEF NoneDirect
<1>. QED  BY <1>1, <1>2 DEF Parsed, Expected, NoneBound

LEMMA AlwaysParsed == FiltersSpec => []Parsed
<1>1. FiltersInit => Parsed
  BY NothingReadYet DEF FiltersInit
<1>2. Parsed /\ [FiltersNext]_filterVars => Parsed'
  <2>. SUFFICES ASSUME Parsed, [FiltersNext]_filterVars
                PROVE  Parsed'
    OBVIOUS
  <2>1. ASSUME NEW path \in Paths, NEW value \in Values, Parse(path, value)
        PROVE  Parsed'
    BY <2>1, ParseRead
  <2>2. ASSUME NEW value \in Values, PassOver(value)
        PROVE  Parsed'
    <3>1. direct' \in [Attributes -> Seq(Values)]
      <4>1. direct \in [Attributes -> Seq(Values)]
        BY DEF Parsed
      <4>2. \A a \in Attributes : Append(direct[a], value) \in Seq(Values)
        BY <4>1
      <4>. QED  BY <2>2, <4>1, <4>2 DEF PassOver
    <3>2. UNCHANGED <<bound, raised, asked>>
      BY <2>2 DEF PassOver
    <3>. QED  BY <3>1, <3>2 DEF Parsed, Through
  <2>3. CASE NextQuery
    <3>1. (bound = NoneBound /\ raised = FALSE /\ asked = NoneAsked /\ direct = NoneDirect)'
      BY <2>3 DEF NextQuery, NoneBound, NoneAsked, NoneDirect, Unbound
    <3>. QED  BY <3>1, NothingReadYet, PTL
  <2>4. CASE UNCHANGED filterVars
    BY <2>4 DEF Parsed, Through, filterVars
  <2>. QED  BY <2>1, <2>2, <2>3, <2>4 DEF FiltersNext
<1>. QED  BY <1>1, <1>2, PTL DEF FiltersSpec

(* What is sent of a name.                                                 *)
LEMMA SentAsGiven ==
  ASSUME NEW given \in Seq(Values), NEW through \in BOOLEAN
  PROVE  Sent(Expected(given, through)) =
           IF Len(given) <= 1 /\ ~through THEN given ELSE <<Printed>>
<1>1. CASE given = <<>>
  BY <1>1, Kinds DEF Expected, Sent
<1>2. CASE given # <<>> /\ (through \/ Len(given) # 1)
  <2>1. Len(given) \in Nat /\ Len(given) # 0
    BY <1>2
  <2>2. Expected(given, through).is = "list"
    BY <1>2, Kinds DEF Expected
  <2>. QED  BY <1>2, <2>1, <2>2 DEF Sent
<1>3. CASE given # <<>> /\ ~through /\ Len(given) = 1
  <2>1. given = <<given[1]>>
    BY <1>3
  <2>2. Expected(given, through) = Text(given[1])
    BY <1>3 DEF Expected
  <2>3. Sent(Text(given[1])) = <<given[1]>>
    BY Kinds DEF Sent
  <2>. QED  BY <1>3, <2>1, <2>2, <2>3
<1>. QED  BY <1>1, <1>2, <1>3

(* What is sent of a characteristic, which both listing and facets spell   *)
(* out.                                                                    *)
Chosen(v) == IF v.is = "list" THEN v.items ELSE Sent(v)

LEMMA ChosenAsGiven ==
  ASSUME NEW given \in Seq(Values), NEW through \in BOOLEAN, ~through
  PROVE  Chosen(Expected(given, through)) = given
<1>1. CASE given = <<>>
  BY <1>1, Kinds DEF Expected, Chosen, Sent
<1>2. CASE given # <<>> /\ Len(given) = 1
  <2>1. given = <<given[1]>>
    BY <1>2
  <2>2. Expected(given, through) = Text(given[1])
    BY <1>2 DEF Expected
  <2>3. Chosen(Text(given[1])) = <<given[1]>>
    BY Kinds DEF Chosen, Sent
  <2>. QED  BY <2>1, <2>2, <2>3
<1>3. CASE given # <<>> /\ Len(given) # 1
  BY <1>3, Kinds DEF Expected, Chosen
<1>. QED  BY <1>1, <1>2, <1>3

(* "attributes" counts unless it has a value, and where it is not given,   *)
(* no characteristic is.                                                   *)
LEMMA AttributesCount ==
  ASSUME Parsed, ~raised, NEW a \in Attributes
  PROVE  LET path   == <<"attributes", a>>
             counts == bound[<<"attributes">>].is = "dict"
         IN  /\ asked[<<"attributes">>] # <<>> => ~counts
             /\ asked[<<"attributes">>] = <<>> /\ ~counts => asked[path] = <<>>
             /\ asked[path] \in Seq(Values)
             /\ ~Through(path) => Chosen(bound[path]) = asked[path]
<1>. DEFINE all  == <<"attributes">>
            path == <<"attributes", a>>
<1>1. /\ all \in Paths /\ path \in Paths
      /\ Above(all, path)
  <2>1. all \in Paths /\ path \in Paths
    BY FiltersAssumption
  <2>2. Above(all, path)
    BY DEF Above
  <2>. QED  BY <2>1, <2>2
<1>. HIDE DEF all, path
<1>2. /\ asked[all] \in Seq(Values) /\ asked[path] \in Seq(Values)
      /\ Through(all) \in BOOLEAN /\ Through(path) \in BOOLEAN
      /\ bound[all] = Expected(asked[all], Through(all))
      /\ bound[path] = Expected(asked[path], Through(path))
  BY <1>1 DEF Parsed, Through
<1>3. bound[all].is = "dict" <=> asked[all] = <<>> /\ Through(all)
  BY <1>2, ExpectedKinds
<1>4. ~Through(all) => asked[path] = <<>>
  BY <1>1 DEF Through
<1>5. ~Through(path) => Chosen(bound[path]) = asked[path]
  BY <1>2, ChosenAsGiven
<1>. QED  BY <1>2, <1>3, <1>4, <1>5 DEF all, path

LEMMA ScalarsSent ==
  ASSUME Parsed, ~raised, NEW n \in Scalars
  PROVE  /\ asked[<<n>>] \in Seq(Values) /\ <<n>> \in Paths
         /\ bound[<<n>>] = Expected(asked[<<n>>], Through(<<n>>))
         /\ ListingScalars[n] = IF Len(asked[<<n>>]) <= 1 /\ ~Through(<<n>>)
                                THEN asked[<<n>>] ELSE <<Printed>>
<1>1. /\ asked[<<n>>] \in Seq(Values) /\ <<n>> \in Paths
      /\ Through(<<n>>) \in BOOLEAN
      /\ bound[<<n>>] = Expected(asked[<<n>>], Through(<<n>>))
  BY FiltersAssumption DEF Parsed, Through
<1>2. ListingScalars[n] = Sent(bound[<<n>>])
  BY DEF ListingScalars
<1>. QED  BY <1>1, <1>2, SentAsGiven

(* Whatever a query nests and repeats, in whatever order and under however *)
(* many names: it is refused only where a name has both a value and names  *)
(* below it, and otherwise the listing asks the B2B for every value of a   *)
(* characteristic and for a scalar given once as it was given.             *)
THEOREM FiltersReachTheB2B == FiltersSpec => []FiltersAreForwarded
<1>1. ASSUME Parsed, ~raised, NEW a \in Attributes
      PROVE  LET path == <<"attributes", a>>
             IN  /\ asked[<<"attributes">>] # <<>> => ListingAttributes[a] = <<>>
                 /\ asked[<<"attributes">>] = <<>> /\ ~Through(path) =>
                      ListingAttributes[a] = asked[path]
  <2>1. ListingAttributes[a] = IF bound[<<"attributes">>].is # "dict" THEN <<>>
                               ELSE Chosen(bound[<<"attributes", a>>])
    BY DEF ListingAttributes, Chosen
  <2>. QED  BY <1>1, <2>1, AttributesCount
<1>2. Parsed => FiltersAreForwarded
  BY <1>1, ScalarsSent DEF FiltersAreForwarded, Parsed
<1>. QED  BY <1>2, AlwaysParsed, PTL

(* And the facets, in their own way, for the same characteristics in both  *)
(* notations, and for the listing's category unless the client names       *)
(* another.                                                                *)
THEOREM FacetsReachTheB2B == FiltersSpec => []FacetsAreForwarded
<1>1. ASSUME Parsed, ~raised, NEW a \in Attributes
      PROVE  LET path == <<"attributes", a>>
             IN  /\ asked[<<"attributes">>] # <<>> => FacetAttributes[a] = direct[a]
                 /\ asked[<<"attributes">>] = <<>> /\ ~Through(path) =>
                      FacetAttributes[a] = asked[path] \o direct[a]
  <2>1. FacetAttributes[a] = (IF bound[<<"attributes">>].is = "dict"
                              THEN Chosen(bound[<<"attributes", a>>]) ELSE <<>>) \o direct[a]
    BY DEF FacetAttributes, Chosen
  <2>2. <<>> \o direct[a] = direct[a]
    <3>1. direct[a] \in Seq(Values)
      BY <1>1 DEF Parsed
    <3>. QED  BY <3>1
  <2>. QED  BY <1>1, <2>1, <2>2, AttributesCount
<1>2. ASSUME Parsed, ~raised
      PROVE  LET listed == ListingScalars["category_id"]
             IN  FacetCategory = IF plain # <<>> /\ plain[Len(plain)] # Empty
                                 THEN <<plain[Len(plain)]>>
                                 ELSE IF listed = <<Empty>> THEN <<>> ELSE listed
  <2>. DEFINE old == bound[<<"category_id">>]
              own == IF old = Text(Empty) THEN <<>> ELSE Sent(old)
  <2>1. ListingScalars["category_id"] = Sent(old)
    BY FiltersAssumption DEF ListingScalars
  <2>2. Sent(old) = <<Empty>> <=> old = Text(Empty)
    <3>1. PICK given \in Seq(Values), through \in BOOLEAN : old = Expected(given, through)
      BY <1>2, FiltersAssumption, ScalarsSent DEF Through
    <3>2. old = Text(given[1]) \/ old.is \in {"unbound", "list", "dict"}
      BY <3>1, Kinds DEF Expected
    <3>3. \A value : Sent(Text(value)) = <<value>> /\ (Text(value) = Text(Empty) <=> value = Empty)
      BY Kinds DEF Sent, Text
    <3>4. old.is \in {"unbound", "list", "dict"} => Sent(old) \in {<<>>, <<Printed>>}
      BY DEF Sent
    <3>5. <<>> # <<Empty>> /\ <<Printed>> # <<Empty>> /\ \A value : <<value>> = <<Empty>> <=> value = Empty
      BY FiltersAssumption
    <3>. QED  BY <3>2, <3>3, <3>4, <3>5, Kinds
  <2>. QED  BY <2>1, <2>2 DEF FacetCategory
<1>3. Parsed => FacetsAreForwarded
  BY <1>1, <1>2 DEF FacetsAreForwarded
<1>. QED  BY <1>3, AlwaysParsed, PTL
=============================================================================

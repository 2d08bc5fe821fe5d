------------------------------ MODULE Identity ------------------------------
(***************************************************************************)
(* Who a request is from: the five dependencies of the routers that read   *)
(* the Authorization and X-Session-Id headers.  Each is written out on its *)
(* own in the code; the properties say that they agree where they have to. *)
(*                                                                         *)
(* A header is what deciding needs of it.  A bearer token is its claims    *)
(* and whether it verifies (signature and expiry); a session is an id, or  *)
(* not a UUID.  A dependency answers with an identity, or refuses with a   *)
(* status.                                                                 *)
(***************************************************************************)
CONSTANTS Buyers,      \* ids of buyers
          Operators,  \* ids of rows of operators
          Sessions,
          Missing        \* no header, no claim

VARIABLE headers  \* of the request that is served

NoUuid == "not a uuid"

Subjects  == Buyers \cup Operators
Absent    == [scheme |-> "none"]
Other     == [scheme |-> "other"]
Tokens    == [scheme : {"bearer"}, verifies : BOOLEAN,
              sub : Subjects \cup {Missing, NoUuid}, role : {Missing, "operator"}]
Headers   == [auth : Tokens \cup {Absent, Other}, session : Sessions \cup {Missing, NoUuid}]

ASSUME IdentityAssumption == Missing \notin Subjects /\ Missing # NoUuid

IdentityInit == headers = [auth |-> Absent, session |-> Missing]
IdentityNext == headers' \in Headers
IdentitySpec == IdentityInit /\ [][IdentityNext]_headers

Bearer(h) == h.auth.scheme = "bearer"

Refused(status) == [refused |-> status]
User(u)         == [user |-> u]
Admitted(who)   == "refused" \notin DOMAIN who
-----------------------------------------------------------------------------
(* The sub claim of a token, 401 whatever is wrong with it: a signature,   *)
(* an expiry date, no claim, or one that is no UUID.                       *)
Subject(token) ==
  IF token.verifies /\ token.sub \in Subjects THEN User(token.sub) ELSE Refused(401)

(* favorites and orders: a user, from a token.                             *)
CurrentUser(h) == IF Bearer(h) THEN Subject(h.auth) ELSE Refused(401)

(* banner events: a guest without the header, and nothing but a token in it.*)
OptionalUser(h) ==
  IF h.auth = Absent THEN User(Missing)
  ELSE IF h.auth = Other THEN Refused(401)
  ELSE Subject(h.auth)

CartIdentityOrGuest(h) ==
  LET who == IF Bearer(h) THEN Subject(h.auth) ELSE User(Missing)
  IN  IF h.session \in {Missing, NoUuid} THEN Refused(400)
      ELSE [user |-> IF Admitted(who) THEN who.user ELSE Missing, session |-> h.session]

(* cart: a user, a session or both.  Another scheme than Bearer is passed  *)
(* over, a bad token is not.                                               *)
CartIdentity(h) ==
  LET who == IF Bearer(h) THEN Subject(h.auth) ELSE User(Missing)
  IN  IF ~Admitted(who) THEN who
      ELSE IF who.user = Missing /\ h.session = Missing THEN Refused(400)
      ELSE IF h.session = NoUuid THEN Refused(400)
      ELSE [user |-> who.user, session |-> h.session]

MergeIdentityUnparsed(h) ==
  LET who == IF Bearer(h) THEN Subject(h.auth) ELSE Refused(401)
  IN  IF ~Admitted(who) THEN who
      ELSE IF h.session = Missing THEN Refused(400)
      ELSE [user |-> who.user, session |-> h.session]

(* cart merge: both.                                                       *)
MergeIdentity(h) ==
  LET who == IF Bearer(h) THEN Subject(h.auth) ELSE Refused(401)
  IN  IF ~Admitted(who) THEN who
      ELSE IF h.session \in {Missing, NoUuid} THEN Refused(400)
      ELSE [user |-> who.user, session |-> h.session]

(* operator endpoints: the role is asked first, then the row.  A sub that  *)
(* is no UUID is not caught.                                               *)
CurrentOperator(h) ==
  IF ~Bearer(h) \/ ~h.auth.verifies THEN Refused(401)
  ELSE IF h.auth.role # "operator" THEN Refused(403)
  ELSE IF h.auth.sub = Missing THEN Refused(401)
  ELSE IF h.auth.sub = NoUuid THEN Refused(500)
  ELSE IF h.auth.sub \notin Operators THEN Refused(401)
  ELSE User(h.auth.sub)
-----------------------------------------------------------------------------
(* The same headers are the same person everywhere.  Whom favorites and    *)
(* orders know as a user, the banners, the cart, the merge and the         *)
(* operator's endpoints know as that user, as far as they admit the        *)
(* request; and a token that is no good there makes nobody a guest here.   *)
OnePersonEverywhere ==
  LET user   == CurrentUser(headers)
      others == {OptionalUser(headers), CartIdentity(headers),
                 MergeIdentity(headers), CurrentOperator(headers)}
  IN  IF Admitted(user)
      THEN \A who \in others : Admitted(who) => who.user = user.user
      ELSE Bearer(headers) => \A who \in others : ~Admitted(who)

(* What a merge joins are the carts that the other cart requests with one  *)
(* of the two headers have filled, and no cart is nobody's.                *)
MergeJoinsTheirCarts ==
  LET merge == MergeIdentity(headers)
      cart  == CartIdentity(headers)
  IN  /\ Admitted(merge) =>
           /\ cart = merge
           /\ CartIdentity([headers EXCEPT !.session = Missing]) =
                [user |-> merge.user, session |-> Missing]
           /\ CartIdentity([headers EXCEPT !.auth = Absent]) =
                [user |-> Missing, session |-> merge.session]
      /\ Admitted(cart) => cart.user # Missing \/ cart.session # Missing
=============================================================================

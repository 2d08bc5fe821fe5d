----------------------------- MODULE MCFavorites ----------------------------
(***************************************************************************)
(* Instance of Favorites for TLC, with Identity, which names its users: a  *)
(* behaviour exercises one of the two while the other rests.               *)
(***************************************************************************)
EXTENDS Favorites, Identity, TLC

VARIABLE part

MarksInit == part \in {"favorites", "identity"} /\ Init /\ IdentityInit

MarksNext ==
  /\ UNCHANGED part
  /\ \/ part = "favorites" /\ Next /\ OneWriterBesideAScan /\ UNCHANGED headers
     \/ part = "identity" /\ IdentityNext /\ UNCHANGED vars

MarksSpec == MarksInit /\ [][MarksNext]_<<part, vars, headers>>

(* Bodies of subscribe that pass validation, fail it, and none at all.     *)
Bodies == {{}, {"PRICE_DROP"}, {"PRICE_DROP", "SOLD_OUT"}}

Symmetry == Permutations(Users) \cup Permutations(Products) \cup Permutations(Requests)
=============================================================================

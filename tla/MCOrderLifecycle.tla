-------------------------- MODULE MCOrderLifecycle --------------------------
(* Instances of OrderLifecycle for TLC: the cfg files give the constants.  *)
EXTENDS OrderLifecycle, TLC

(* Slots for requests are interchangeable; so are the orders.  Used only   *)
(* by runs without liveness properties.                                    *)
Symmetry == Permutations(Orders) \cup Permutations(Requests)
=============================================================================

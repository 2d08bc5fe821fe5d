---------------------------- MODULE OrderStatus ----------------------------
(***************************************************************************)
(* What the shop promises about an order once it has been placed: the      *)
(* status only moves forward                                               *)
(*                                                                         *)
(*      PAID -> ASSEMBLING -> DELIVERING -> DELIVERED                      *)
(*        \         |                                                      *)
(*         \--------+--> CANCEL_PENDING -> CANCELLED                       *)
(*                                                                         *)
(* a cancelled order is never served, a cancellation that had to wait is   *)
(* finished in the end, and a delivered order is in the end settled with   *)
(* the B2B warehouse, exactly once and only after delivery.                *)
(*                                                                         *)
(* This is the abstract specification; OrderLifecycle is the code.         *)
(***************************************************************************)
CONSTANT Orders

VARIABLES status,     \* status of every order
          fulfilled   \* orders whose goods have been written off in the B2B

svars == <<status, fulfilled>>

OpenStatuses   == {"PAID", "ASSEMBLING", "DELIVERING"}
CancellableIn  == {"PAID", "ASSEMBLING"}
StepFrom == [s \in OpenStatuses |-> CASE s = "PAID"       -> "ASSEMBLING"
                                      [] s = "ASSEMBLING" -> "DELIVERING"
                                      [] s = "DELIVERING" -> "DELIVERED"]

Init == /\ status = [o \in Orders |-> "PAID"]
        /\ fulfilled = [o \in Orders |-> FALSE]

(* One step forward; the step to DELIVERED may settle the order at once. *)
Forward(o) ==
  /\ status[o] \in OpenStatuses
  /\ status' = [status EXCEPT ![o] = StepFrom[status[o]]]
  /\ \/ UNCHANGED fulfilled
     \/ /\ status[o] = "DELIVERING"
        /\ fulfilled' = [fulfilled EXCEPT ![o] = TRUE]

Cancel(o) ==
  /\ status[o] \in CancellableIn
  /\ \E s \in {"CANCELLED", "CANCEL_PENDING"} : status' = [status EXCEPT ![o] = s]
  /\ UNCHANGED fulfilled

FinishCancel(o) ==
  /\ status[o] = "CANCEL_PENDING"
  /\ status' = [status EXCEPT ![o] = "CANCELLED"]
  /\ UNCHANGED fulfilled

Settle(o) ==
  /\ status[o] = "DELIVERED"
  /\ ~fulfilled[o]
  /\ fulfilled' = [fulfilled EXCEPT ![o] = TRUE]
  /\ UNCHANGED status

Next == \E o \in Orders : Forward(o) \/ Cancel(o) \/ FinishCancel(o) \/ Settle(o)

SafeSpec == Init /\ [][Next]_svars

(* What has begun is finished: no fairness on Forward and Cancel, which    *)
(* people decide.                                                          *)
Spec == /\ SafeSpec
        /\ \A o \in Orders : WF_svars(FinishCancel(o)) /\ WF_svars(Settle(o))
=============================================================================

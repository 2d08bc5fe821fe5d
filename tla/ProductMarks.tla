---------------------------- MODULE ProductMarks ----------------------------
(***************************************************************************)
(* What a buyer may rely on when marking products, as a favourite or for   *)
(* notifications, from several devices at once.  There is one set of       *)
(* marks.  A call is about one of them: it sets or clears that mark and no *)
(* other, at most once, at some moment between its begin and its answer,   *)
(* and its answer is true of such a moment.  Favorites implements this.    *)
(***************************************************************************)
CONSTANTS Calls, Marks

VARIABLES marked,  \* the marks that are set
          call     \* what every call asked for, has done and has seen

vars == <<marked, call>>

Idle    == [state |-> "idle"]
Open(c) == call[c].state = "open"

Answers == {"set", "present", "absent", "refused", "disturbed"}

Init == marked = {} /\ call = [c \in Calls |-> Idle]

Begin(c) ==
  /\ call[c] = Idle
  /\ \E m \in Marks, sets \in BOOLEAN :
       call' = [call EXCEPT ![c] = [state |-> "open", mark |-> m, sets |-> sets,
                                    acted |-> FALSE, seen |-> {(m \in marked)}]]
  /\ UNCHANGED marked

(* The effect.  Setting a mark is done by one call only; a call that saw   *)
(* its mark absent need not clear it, even if it has been set again.       *)
(* Every open call sees the new set.                                       *)
Act(c) ==
  /\ Open(c)
  /\ ~call[c].acted
  /\ IF call[c].sets
     THEN call[c].mark \notin marked /\ marked' = marked \cup {call[c].mark}
     ELSE \/ marked' = marked \ {call[c].mark}
          \/ FALSE \in call[c].seen /\ marked' = marked
  /\ call' = [d \in Calls |->
       IF Open(d)
       THEN [state |-> "open", mark |-> call[d].mark, sets |-> call[d].sets,
             acted |-> call[d].acted \/ d = c,
             seen |-> call[d].seen \cup {call[d].mark \in marked'}]
       ELSE call[d]]

(* "set" by this call; "present" or "absent" at some moment of the call;   *)
(* "refused" without an effect; "disturbed" only when the mark was both    *)
(* present and absent while the call lasted.                               *)
Truthful(k, answer) ==
  \/ answer = "set" /\ k.sets /\ k.acted
  \/ answer = "present" /\ k.sets /\ ~k.acted /\ TRUE \in k.seen
  \/ answer = "absent" /\ ~k.sets /\ FALSE \in k.seen
  \/ answer = "refused" /\ k.sets /\ ~k.acted
  \/ answer = "disturbed" /\ k.sets /\ k.seen = BOOLEAN

Say(c) ==
  /\ Open(c)
  /\ \E answer \in Answers :
       /\ Truthful(call[c], answer)
       /\ call' = [call EXCEPT ![c] = [state |-> "answered", said |-> answer]]
  /\ UNCHANGED marked

(* The client has its answer, or will never get one.                       *)
Leave(c) ==
  /\ call[c] # Idle
  /\ call' = [call EXCEPT ![c] = Idle]
  /\ UNCHANGED marked

Next == \E c \in Calls : Begin(c) \/ Act(c) \/ Say(c) \/ Leave(c)

Spec == Init /\ [][Next]_vars
=============================================================================

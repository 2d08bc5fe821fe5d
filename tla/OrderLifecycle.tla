--------------------------- MODULE OrderLifecycle ---------------------------
(***************************************************************************)
(* The life of placed orders: the handlers that cancel and advance them    *)
(* (orders/service.py, operator/service.py), the two background workers    *)
(* (process_cancel_pending, process_fulfill_pending) and the B2B service   *)
(* that holds the stock reservation of every order.                        *)
(*                                                                         *)
(* A handler is a coroutine: it reads the row, may await a call to the     *)
(* B2B, and commits what it computed from the row it read.  Between two    *)
(* awaits nothing else runs, so every await is a boundary of an action:    *)
(*                                                                         *)
(*   BuyerCancel / OperatorCancel / Advance   SELECT and guards, the call  *)
(*                                            is on its way                *)
(*   HandlerAnswered                          the call returns or raises   *)
(*   CommitCancel / CommitAdvance             the assignments and COMMIT   *)
(*                                                                         *)
(* The database takes no row lock and keeps no version: a commit writes    *)
(* the columns the session found changed and no others.                    *)
(***************************************************************************)
EXTENDS Naturals, Sequences

CONSTANTS Orders,     \* the orders that have been placed
          Requests,   \* slots for HTTP requests in flight at the same time
          MaxFaults   \* bound on crashes and failed commits

ASSUME FaultsAssumption == MaxFaults \in Nat

VARIABLES row,          \* the orders table
          reservation,  \* in the B2B: what became of the goods of every order
          late,         \* calls nobody waits for any more, not yet applied
          req,          \* the coroutine of every request
          worker,       \* the coroutine of every background worker
          faults        \* crashes and failed commits so far

vars == <<row, reservation, late, req, worker, faults>>

Statuses == {"CREATED", "PAID", "ASSEMBLING", "DELIVERING", "DELIVERED",
             "CANCEL_PENDING", "CANCELLED"}
Workers  == {"cancel_pending", "fulfill_pending"}
Calls    == {"unreserve", "fulfill"}
Ops      == {"buyer_cancel", "operator_cancel", "advance"}

(* The columns of a row the handlers write.  (cancel_reason, updated_at    *)
(* and delivered_at are written along with status and never read back.)    *)
Rows == [status : Statuses, fulfilled : BOOLEAN, history : Seq(Statuses)]

OPERATOR_TRANSITIONS ==
  [s \in {"PAID", "ASSEMBLING", "DELIVERING"} |->
     CASE s = "PAID"       -> "ASSEMBLING"
       [] s = "ASSEMBLING" -> "DELIVERING"
       [] s = "DELIVERING" -> "DELIVERED"]
CancelAllowedTooLong    == {"PAID", "ASSEMBLING", "DELIVERING"}
OPERATOR_CANCEL_ALLOWED == {"PAID", "ASSEMBLING"}
BuyerCancelAllowed      == {"CREATED", "PAID"}

(* Statuses whose order passes the guards of a handler.  Advancing refuses *)
(* the terminal ones and CANCEL_PENDING first, then every status without   *)
(* an entry in the table.                                                  *)
Allowed(op) == CASE op = "buyer_cancel"    -> BuyerCancelAllowed
                 [] op = "operator_cancel" -> OPERATOR_CANCEL_ALLOWED
                 [] op = "advance"         -> DOMAIN OPERATOR_TRANSITIONS

(* The B2B call a handler awaits before its commit, if it makes one.       *)
MakesEarly(op, status) == op # "advance" \/ status = "ASSEMBLING"
Makes(op, status) == op # "advance" \/ status = "DELIVERING"
CallOf(op)        == IF op = "advance" THEN "fulfill" ELSE "unreserve"

Idle     == [phase |-> "idle"]
Handling == {h \in [phase : {"calling", "answered"}, op : Ops, order : Orders,
                     read : Rows, ok : BOOLEAN] : h.read.status \in Allowed(h.op)}
Asleep   == [phase |-> "asleep"]
Batch    == [phase : {"calling", "answered"}, order : Orders, rest : SUBSET Orders]
-----------------------------------------------------------------------------
(* create_order leaves the row PAID, with this history, and the goods      *)
(* reserved under the order's id.                                          *)
Init ==
  /\ row = [o \in Orders |-> [status |-> "PAID", fulfilled |-> FALSE,
                              history |-> <<"CREATED", "PAID">>]]
  /\ reservation = [o \in Orders |-> "reserved"]
  /\ late = {}
  /\ req = [r \in Requests |-> Idle]
  /\ worker = [w \in Workers |-> Asleep]
  /\ faults = 0
-----------------------------------------------------------------------------
(* The B2B: a call is addressed to an order id and applying it again       *)
(* changes nothing, which the retries of the workers rely on.              *)
Applied(call, state) ==
  CASE state = "reserved" /\ call = "unreserve" -> "released"
    [] state = "reserved" /\ call = "fulfill"   -> "fulfilled"
    [] OTHER -> state

(* What the awaiting coroutine sees.  ok is a 2xx answer; everything else  *)
(* is caught by one except clause: a refusal or a failed connection, or a  *)
(* timeout that leaves the call on its way.                                *)
CallReturns(call, o, ok) ==
  \/ /\ ok
     /\ reservation' = [reservation EXCEPT ![o] = Applied(call, @)]
     /\ UNCHANGED late
  \/ /\ ~ok
     /\ UNCHANGED <<reservation, late>>
  \/ /\ ~ok
     /\ late' = late \cup {[call |-> call, order |-> o]}
     /\ UNCHANGED reservation

ApplyLate(m) ==
  /\ m \in late
  /\ reservation' = [reservation EXCEPT ![m.order] = Applied(m.call, @)]
  /\ late' = late \ {m}
  /\ UNCHANGED <<row, req, worker, faults>>
-----------------------------------------------------------------------------
(* What COMMIT writes of a row loaded as old whose object is now new: the  *)
(* columns that compare unequal.                                           *)
Column(stored, old, new) == IF new = old THEN stored ELSE new
Flushed(stored, old, new) ==
  [status    |-> Column(stored.status, old.status, new.status),
   fulfilled |-> Column(stored.fulfilled, old.fulfilled, new.fulfilled),
   history   |-> Column(stored.history, old.history, new.history)]

(* history_list is the very list inside the loaded value, so appending to  *)
(* it changes the loaded value as well: the dict assigned afterwards       *)
(* compares equal to what the session remembers as loaded.                 *)
AppendedInPlace(read, s) == [read EXCEPT !.history = Append(@, s)]

Save(o, loaded, new) == row' = [row EXCEPT ![o] = Flushed(@, loaded, new)]
-----------------------------------------------------------------------------
LoadUnguarded(r, op, o) ==
  /\ req[r] = Idle
  /\ req' = [req EXCEPT ![r] =
       [phase |-> "calling", op |-> op, order |-> o, read |-> row[o], ok |-> FALSE]]
  /\ UNCHANGED <<row, reservation, late, worker, faults>>

Load(r, op, o) ==
  /\ req[r] = Idle
  /\ row[o].status \in Allowed(op)
  /\ req' = [req EXCEPT ![r] =
       [phase |-> IF Makes(op, row[o].status) THEN "calling" ELSE "answered",
        op |-> op, order |-> o, read |-> row[o], ok |-> FALSE]]
  /\ UNCHANGED <<row, reservation, late, worker, faults>>

BuyerCancel(r, o)    == Load(r, "buyer_cancel", o)
OperatorCancel(r, o) == Load(r, "operator_cancel", o)
Advance(r, o)        == Load(r, "advance", o)

HandlerAnswered(r, ok) ==
  /\ req[r].phase = "calling"
  /\ CallReturns(CallOf(req[r].op), req[r].order, ok)
  /\ req' = [req EXCEPT ![r] = [@ EXCEPT !.phase = "answered", !.ok = ok]]
  /\ UNCHANGED <<row, worker, faults>>

(* The status a cancellation is stored with, given what the B2B answered.  *)
CancelOutcomeHopeful(ok)  == "CANCELLED"
CancelOutcomeGivesUp(ok)  == IF ok THEN "CANCELLED" ELSE "PAID"
CancelOutcome(ok)         == IF ok THEN "CANCELLED" ELSE "CANCEL_PENDING"

CommitCancel(r) ==
  /\ req[r].phase = "answered"
  /\ req[r].op # "advance"
  /\ LET status == CancelOutcome(req[r].ok)
         loaded == AppendedInPlace(req[r].read, status)
     IN  Save(req[r].order, loaded, [loaded EXCEPT !.status = status])
  /\ req' = [req EXCEPT ![r] = Idle]
  /\ UNCHANGED <<reservation, late, worker, faults>>

(* The row one step further; ok is FALSE unless the B2B confirmed the      *)
(* fulfill that the step to DELIVERED makes.                               *)
SteppedHopeful(loaded, status, ok) ==
  [loaded EXCEPT !.status = status, !.fulfilled = @ \/ status = "DELIVERED"]
SteppedAnew(loaded, status, ok) ==
  [loaded EXCEPT !.status = status, !.fulfilled = ok]
Stepped(loaded, status, ok) ==
  [loaded EXCEPT !.status = status, !.fulfilled = @ \/ ok]

CommitAdvance(r) ==
  /\ req[r].phase = "answered"
  /\ req[r].op = "advance"
  /\ LET status == OPERATOR_TRANSITIONS[req[r].read.status]
         loaded == AppendedInPlace(req[r].read, status)
     IN  Save(req[r].order, loaded, Stepped(loaded, status, req[r].ok))
  /\ req' = [req EXCEPT ![r] = Idle]
  /\ UNCHANGED <<reservation, late, worker, faults>>
-----------------------------------------------------------------------------
(* A worker selects the rows it is due to retry and then works through     *)
(* that list, whatever happens to the rows meanwhile.                      *)
DueTooSoon(w, r) ==
  CASE w = "cancel_pending"  -> r.status = "CANCEL_PENDING"
    [] w = "fulfill_pending" -> r.status = "DELIVERING" /\ ~r.fulfilled
Due(w, r) ==
  CASE w = "cancel_pending"  -> r.status = "CANCEL_PENDING"
    [] w = "fulfill_pending" -> r.status = "DELIVERED" /\ ~r.fulfilled

RetryCall(w) == IF w = "cancel_pending" THEN "unreserve" ELSE "fulfill"

(* The coroutine with these rows still to do: it calls for one of them (a  *)
(* SELECT without ORDER BY gives any order) or sleeps till the next round. *)
WorkingThrough(todo) ==
  IF todo = {} THEN {Asleep}
  ELSE {[phase |-> "calling", order |-> o, rest |-> todo \ {o}] : o \in todo}

Scan(w) ==
  /\ worker[w] = Asleep
  /\ \E next \in WorkingThrough({o \in Orders : Due(w, row[o])}) :
       worker' = [worker EXCEPT ![w] = next]
  /\ UNCHANGED <<row, reservation, late, req, faults>>

(* A failed call is logged and the row is left for the next round.         *)
WorkerAnswered(w, o, ok) ==
  /\ worker[w].phase = "calling"
  /\ worker[w].order = o
  /\ CallReturns(RetryCall(w), o, ok)
  /\ \/ /\ ok
        /\ worker' = [worker EXCEPT ![w] = [@ EXCEPT !.phase = "answered"]]
     \/ /\ ~ok
        /\ \E next \in WorkingThrough(worker[w].rest) :
             worker' = [worker EXCEPT ![w] = next]
  /\ UNCHANGED <<row, req, faults>>

(* The rows of the batch were loaded CANCEL_PENDING, or not fulfilled, so  *)
(* the one column a worker sets always compares unequal and is written;    *)
(* the history entry of the cancel worker is lost like those above.        *)
RetriedForgetful(w, r) == IF w = "cancel_pending" THEN r
                                                  ELSE [r EXCEPT !.fulfilled = TRUE]
Retried(w, r) == IF w = "cancel_pending" THEN [r EXCEPT !.status = "CANCELLED"]
                                         ELSE [r EXCEPT !.fulfilled = TRUE]

WorkerCommit(w) ==
  /\ worker[w].phase = "answered"
  /\ row' = [row EXCEPT ![worker[w].order] = Retried(w, @)]
  /\ \E next \in WorkingThrough(worker[w].rest) :
       worker' = [worker EXCEPT ![w] = next]
  /\ UNCHANGED <<reservation, late, req, faults>>
-----------------------------------------------------------------------------
(* COMMIT raises: the transaction is rolled back, the request ends in a    *)
(* 500, and what the B2B has done stays done.                              *)
HandlerCommitFails(r) ==
  /\ faults < MaxFaults
  /\ req[r].phase = "answered"
  /\ req' = [req EXCEPT ![r] = Idle]
  /\ faults' = faults + 1
  /\ UNCHANGED <<row, reservation, late, worker>>

(* The rollback expires the rows of the whole batch: touching the next one *)
(* raises outside the try block, so the worker sleeps till the next round. *)
WorkerCommitFails(w) ==
  /\ faults < MaxFaults
  /\ worker[w].phase = "answered"
  /\ worker' = [worker EXCEPT ![w] = Asleep]
  /\ faults' = faults + 1
  /\ UNCHANGED <<row, reservation, late, req>>

(* The process dies and is restarted: every coroutine is lost, the calls   *)
(* it was awaiting may still reach the B2B.                                *)
Outstanding ==
  {[call |-> CallOf(req[r].op), order |-> req[r].order] :
     r \in {q \in Requests : req[q].phase = "calling"}}
  \cup
  {[call |-> RetryCall(w), order |-> worker[w].order] :
     w \in {v \in Workers : worker[v].phase = "calling"}}

Crash ==
  /\ faults < MaxFaults
  /\ faults' = faults + 1
  /\ \E lost \in SUBSET Outstanding : late' = late \cup (Outstanding \ lost)
  /\ req' = [r \in Requests |-> Idle]
  /\ worker' = [w \in Workers |-> Asleep]
  /\ UNCHANGED <<row, reservation>>
-----------------------------------------------------------------------------
HandlerStep(r) ==
  \/ \E o \in Orders : BuyerCancel(r, o) \/ OperatorCancel(r, o) \/ Advance(r, o)
  \/ \E ok \in BOOLEAN : HandlerAnswered(r, ok)
  \/ CommitCancel(r)
  \/ CommitAdvance(r)
  \/ HandlerCommitFails(r)

WorkerStep(w) ==
  \/ Scan(w)
  \/ \E o \in Orders, ok \in BOOLEAN : WorkerAnswered(w, o, ok)
  \/ WorkerCommit(w)
  \/ WorkerCommitFails(w)

Next ==
  \/ \E r \in Requests : HandlerStep(r)
  \/ \E w \in Workers : WorkerStep(w)
  \/ \E m \in late : ApplyLate(m)
  \/ Crash

Spec == Init /\ [][Next]_vars
-----------------------------------------------------------------------------
(* Requests on one order that never overlap: what a shop sees whose buyers *)
(* and operators do not act on the same order in the same instant.         *)
(* Requests on different orders, the workers, late calls and faults still  *)
(* interleave freely.                                                      *)
Active(r) == req[r] # Idle
Serialised == \A r, q \in Requests :
                r # q /\ Active(r) /\ Active(q) => req[r].order # req[q].order
SerialNext == Next /\ Serialised'
SerialSpec == Init /\ [][SerialNext]_vars

(* The event loop runs every coroutine that can run, and a call returns or *)
(* times out; a commit fails at most MaxFaults times.  The B2B is not down *)
(* for ever: an order a worker keeps retrying is answered 2xx in the end.  *)
(* Nothing makes a person send a request or a lost call arrive.            *)
Fairness ==
  /\ \A r \in Requests :
       /\ WF_vars(\E ok \in BOOLEAN : HandlerAnswered(r, ok))
       /\ WF_vars(CommitCancel(r) \/ CommitAdvance(r))
  /\ \A w \in Workers :
       /\ WF_vars(Scan(w))
       /\ WF_vars(\E o \in Orders, ok \in BOOLEAN : WorkerAnswered(w, o, ok))
       /\ WF_vars(WorkerCommit(w))
       /\ \A o \in Orders : SF_vars(WorkerAnswered(w, o, TRUE))

FairSpec       == Spec /\ Fairness
FairSerialSpec == SerialSpec /\ Fairness
-----------------------------------------------------------------------------
(* Every variable has the shape its table, queue or coroutine gives it.    *)
TypeOK ==
  /\ row \in [Orders -> Rows]
  /\ reservation \in [Orders -> {"reserved", "released", "fulfilled"}]
  /\ late \in SUBSET [call : Calls, order : Orders]
  /\ req \in [Requests -> {Idle} \cup Handling]
  /\ worker \in [Workers -> {Asleep} \cup Batch]
  /\ faults \in 0 .. MaxFaults

(* An order stored as CANCELLED holds no goods any more: every path to that*)
(* status (two cancel handlers and the worker) has seen the B2B confirm the*)
(* release, whatever else ran in between.  Where an advance overlaps it    *)
(* they may have been written off instead; where requests do not overlap,  *)
(* WrittenOffIsDelivered excludes that.                                    *)
CancelledIsReleased ==
  \A o \in Orders : row[o].status = "CANCELLED" => reservation[o] # "reserved"

(* b2b_fulfilled is set only once the B2B has dealt with the reservation:  *)
(* a timed-out or crashed fulfill never leaves the flag set by mistake.    *)
FulfilledIsSettled ==
  \A o \in Orders : row[o].fulfilled => reservation[o] # "reserved"

(* A handler that read the row before the worker settled it does not undo  *)
(* the settlement when it commits its own, older, copy of the row.         *)
FulfilledIsKept ==
  [][\A o \in Orders : row[o].fulfilled => row'[o].fulfilled]_vars

(* The goods of an order that can still be cancelled are never written     *)
(* off, be it by the handler, by the worker, or by a call that arrives     *)
(* after a timeout or a crash.                                             *)
WrittenOffIsDelivered ==
  \A o \in Orders : reservation[o] = "fulfilled" =>
                      row[o].status \in {"DELIVERING", "DELIVERED"}

(* While nothing has failed, an order that is being served still has its   *)
(* goods: they are released only by a cancellation that is about to be     *)
(* stored or has been stored.                                              *)
Cancelling(o) == \E r \in Requests : /\ Active(r)
                                     /\ req[r].order = o
                                     /\ req[r].op # "advance"
GoodsAreHeld ==
  faults = 0 =>
    \A o \in Orders : reservation[o] = "released" =>
      row[o].status \in {"CANCEL_PENDING", "CANCELLED"} \/ Cancelling(o)

(* The abstract specification, read off the table.                         *)
OS == INSTANCE OrderStatus WITH
        status    <- [o \in Orders |-> row[o].status],
        fulfilled <- [o \in Orders |-> row[o].fulfilled]

(* Serialised requests keep the promise of OrderStatus, its liveness       *)
(* included: forward-only steps, no way out of CANCELLED, cancellations    *)
(* and settlements that are finished in the end.                           *)
KeepsOrderPromise == OS!Spec

(* Whatever requests race, a cancellation that could not reach the B2B     *)
(* does not stay CANCEL_PENDING for ever ...                               *)
PendingCancelIsResolved ==
  \A o \in Orders :
    row[o].status = "CANCEL_PENDING" ~> row[o].status # "CANCEL_PENDING"

(* ... and a delivered order does not stay unsettled for ever.             *)
DeliveredIsSettled ==
  \A o \in Orders :
    (row[o].status = "DELIVERED" /\ ~row[o].fulfilled) ~>
      ~(row[o].status = "DELIVERED" /\ ~row[o].fulfilled)
-----------------------------------------------------------------------------
(* What the repository says and the racing handlers do not keep.           *)

(* "Transitions of the status go strictly forward", and DELIVERED and      *)
(* CANCELLED are terminal: no step takes a stored status back.             *)
Place(status) == CASE status = "PAID"           -> 1
                   [] status = "ASSEMBLING"     -> 2
                   [] status = "DELIVERING"     -> 3
                   [] status = "DELIVERED"      -> 4
                   [] status = "CANCEL_PENDING" -> 5
                   [] status = "CANCELLED"      -> 6
StrictlyForward ==
  [][\A o \in Orders :
       /\ Place(row'[o].status) >= Place(row[o].status)
       /\ row[o].status = "DELIVERED" => row'[o].status = "DELIVERED"]_vars

(* "Add to history": the stored history ends with the stored status.       *)
HistoryIsCurrent ==
  \A o \in Orders : row[o].history[Len(row[o].history)] = row[o].status
=============================================================================

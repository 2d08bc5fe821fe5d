------------------------ MODULE OrderLifecycleProofs ------------------------
(* Safety of OrderLifecycle for any set of orders, any number of requests  *)
(* in flight and any number of faults.                                     *)
EXTENDS OrderLifecycle, TLAPS

(* A coroutine that picks its next row from a list is a well-formed worker *)
(* that starts by calling.                                                 *)
LEMMA WorkingThroughBatch ==
  ASSUME NEW todo \in SUBSET Orders, NEW next \in WorkingThrough(todo)
  PROVE  /\ next \in {Asleep} \cup Batch
         /\ next.phase # "answered"
BY DEF WorkingThrough, Asleep, Batch

(* The B2B ends every call in one of its three states, whether the answer  *)
(* arrives or not, and never reserves goods again.                         *)
LEMMA CallReturnsTyped ==
  ASSUME TypeOK, NEW call \in Calls, NEW o \in Orders, NEW ok \in BOOLEAN,
         CallReturns(call, o, ok)
  PROVE  /\ reservation' \in [Orders -> {"reserved", "released", "fulfilled"}]
         /\ late' \in SUBSET [call : Calls, order : Orders]
BY DEF TypeOK, CallReturns, Applied, Calls

LEMMA CallReturnsMonotone ==
  ASSUME TypeOK, NEW call \in Calls, NEW o \in Orders, NEW ok \in BOOLEAN,
         CallReturns(call, o, ok)
  PROVE  /\ \A p \in Orders : reservation[p] # "reserved" => reservation'[p] # "reserved"
         /\ ok => reservation'[o] # "reserved"
BY DEF TypeOK, CallReturns, Applied, Calls

(* What a commit writes is a row again.                                    *)
LEMMA FlushedIsRow ==
  ASSUME NEW stored \in Rows, NEW old \in Rows, NEW new \in Rows
  PROVE  Flushed(stored, old, new) \in Rows
BY DEF Flushed, Column, Rows

LEMMA AppendedIsRow ==
  ASSUME NEW read \in Rows, NEW s \in Statuses
  PROVE  /\ AppendedInPlace(read, s) \in Rows
         /\ AppendedInPlace(read, s).status = read.status
         /\ AppendedInPlace(read, s).fulfilled = read.fulfilled
BY DEF AppendedInPlace, Rows

(* A step to a status yields that status, and b2b_fulfilled if it was set  *)
(* or has just been confirmed.                                             *)
LEMMA SteppedIsRow ==
  ASSUME NEW loaded \in Rows, NEW s \in Statuses, NEW ok \in BOOLEAN
  PROVE  /\ Stepped(loaded, s, ok) \in Rows
         /\ Stepped(loaded, s, ok).status = s
         /\ Stepped(loaded, s, ok).fulfilled = (loaded.fulfilled \/ ok)
BY DEF Stepped, Rows

(* A worker's commit leaves a row, and what else it holds, alone.          *)
LEMMA RetriedIsRow ==
  ASSUME NEW r \in Rows, NEW w \in Workers
  PROVE  /\ Retried(w, r) \in Rows
         /\ Retried(w, r).fulfilled = (r.fulfilled \/ w = "fulfill_pending")
         /\ w # "cancel_pending" => Retried(w, r).status = r.status
<1>1. CASE w = "cancel_pending"
  BY <1>1 DEF Retried, Rows, Statuses
<1>2. CASE w = "fulfill_pending"
  BY <1>2 DEF Retried, Rows, Statuses
<1>3. QED
  BY <1>1, <1>2 DEF Workers
-----------------------------------------------------------------------------
LEMMA TypeInit == Init => TypeOK
<1>1. <<"CREATED", "PAID">> \in Seq(Statuses)
  BY DEF Statuses
<1>2. QED
  BY <1>1, FaultsAssumption
     DEF Init, TypeOK, Rows, Statuses, Workers, Asleep, Idle, Calls

LEMMA TypeStep == TypeOK /\ [Next]_vars => TypeOK'
<1> SUFFICES ASSUME TypeOK, [Next]_vars PROVE TypeOK'
  OBVIOUS
<1> USE DEF TypeOK
<1>1. ASSUME NEW r \in Requests, NEW op \in Ops, NEW o \in Orders, Load(r, op, o)
      PROVE  TypeOK'
  BY <1>1 DEF Load, Handling, Makes
<1>2. ASSUME NEW r \in Requests, NEW ok \in BOOLEAN, HandlerAnswered(r, ok)
      PROVE  TypeOK'
  <2>1. req[r] \in Handling
    BY <1>2 DEF HandlerAnswered, Idle
  <2>2. CallOf(req[r].op) \in Calls /\ req[r].order \in Orders
    BY <2>1 DEF CallOf, Calls, Handling
  <2>3. [req[r] EXCEPT !.phase = "answered", !.ok = ok] \in Handling
    BY <2>1 DEF Handling
  <2>4. req' \in [Requests -> {Idle} \cup Handling]
    BY <1>2, <2>3 DEF HandlerAnswered
  <2>5. QED
    BY <1>2, <2>2, <2>4, CallReturnsTyped DEF HandlerAnswered
<1>3. ASSUME NEW r \in Requests, CommitCancel(r) PROVE TypeOK'
  <2> DEFINE status == CancelOutcome(req[r].ok)
             loaded == AppendedInPlace(req[r].read, status)
             new    == [loaded EXCEPT !.status = status]
  <2>1. req[r] \in Handling
    BY <1>3 DEF CommitCancel, Idle
  <2>2. req[r].order \in Orders /\ req[r].read \in Rows /\ status \in Statuses
    BY <2>1 DEF Handling, Statuses, CancelOutcome
  <2>3. loaded \in Rows
    BY <2>2, AppendedIsRow
  <2>4. new \in Rows
    BY <2>2, <2>3 DEF Rows
  <2>5. Flushed(row[req[r].order], loaded, new) \in Rows
    BY <2>2, <2>3, <2>4, FlushedIsRow
  <2>6. row' \in [Orders -> Rows]
    BY <1>3, <2>5 DEF CommitCancel, Save
  <2>7. QED
    BY <1>3, <2>6 DEF CommitCancel
<1>4. ASSUME NEW r \in Requests, CommitAdvance(r) PROVE TypeOK'
  <2> DEFINE status == OPERATOR_TRANSITIONS[req[r].read.status]
             loaded == AppendedInPlace(req[r].read, status)
             new    == Stepped(loaded, status, req[r].ok)
  <2>1. req[r] \in Handling
    BY <1>4 DEF CommitAdvance, Idle
  <2>2. /\ req[r].order \in Orders /\ req[r].read \in Rows /\ status \in Statuses
        /\ req[r].ok \in BOOLEAN
    BY <1>4, <2>1 DEF CommitAdvance, Handling, Allowed, OPERATOR_TRANSITIONS, Statuses
  <2>3. loaded \in Rows
    BY <2>2, AppendedIsRow
  <2>4. new \in Rows
    BY <2>2, <2>3, SteppedIsRow
  <2>5. Flushed(row[req[r].order], loaded, new) \in Rows
    BY <2>2, <2>3, <2>4, FlushedIsRow
  <2>6. row' \in [Orders -> Rows]
    BY <1>4, <2>5 DEF CommitAdvance, Save
  <2>7. QED
    BY <1>4, <2>6 DEF CommitAdvance
<1>5. ASSUME NEW w \in Workers, Scan(w) PROVE TypeOK'
  <2>1. {o \in Orders : Due(w, row[o])} \in SUBSET Orders
    OBVIOUS
  <2>2. QED
    BY <1>5, <2>1, WorkingThroughBatch DEF Scan
<1>6. ASSUME NEW w \in Workers, NEW o \in Orders, NEW ok \in BOOLEAN,
             WorkerAnswered(w, o, ok)
      PROVE  TypeOK'
  <2>1. worker[w] \in Batch
    BY <1>6 DEF WorkerAnswered, Asleep
  <2>2. RetryCall(w) \in Calls /\ worker[w].rest \in SUBSET Orders
    BY <2>1 DEF RetryCall, Calls, Batch
  <2>3. [worker[w] EXCEPT !.phase = "answered"] \in Batch
    BY <2>1 DEF Batch
  <2>4. worker' \in [Workers -> {Asleep} \cup Batch]
    BY <1>6, <2>2, <2>3, WorkingThroughBatch DEF WorkerAnswered
  <2>5. QED
    BY <1>6, <2>2, <2>4, CallReturnsTyped DEF WorkerAnswered
<1>7. ASSUME NEW w \in Workers, WorkerCommit(w) PROVE TypeOK'
  <2>1. worker[w] \in Batch
    BY <1>7 DEF WorkerCommit, Asleep
  <2>2. worker[w].order \in Orders /\ worker[w].rest \in SUBSET Orders
    BY <2>1 DEF Batch
  <2>3. row' \in [Orders -> Rows]
    BY <1>7, <2>2, RetriedIsRow DEF WorkerCommit
  <2>4. worker' \in [Workers -> {Asleep} \cup Batch]
    BY <1>7, <2>2, WorkingThroughBatch DEF WorkerCommit
  <2>5. QED
    BY <1>7, <2>3, <2>4 DEF WorkerCommit
<1>8. ASSUME NEW r \in Requests, HandlerCommitFails(r) PROVE TypeOK'
  BY <1>8, FaultsAssumption DEF HandlerCommitFails
<1>9. ASSUME NEW w \in Workers, WorkerCommitFails(w) PROVE TypeOK'
  BY <1>9, FaultsAssumption DEF WorkerCommitFails
<1>10. ASSUME NEW m \in late, ApplyLate(m) PROVE TypeOK'
  BY <1>10 DEF ApplyLate, Applied, Calls
<1>11. ASSUME Crash PROVE TypeOK'
  <2>1. ASSUME NEW r \in Requests, req[r].phase = "calling"
        PROVE  CallOf(req[r].op) \in Calls /\ req[r].order \in Orders
    <3>1. req[r] \in Handling
      BY <2>1 DEF Idle
    <3>2. QED
      BY <3>1 DEF Handling, CallOf, Calls
  <2>2. ASSUME NEW w \in Workers, worker[w].phase = "calling"
        PROVE  RetryCall(w) \in Calls /\ worker[w].order \in Orders
    <3>1. worker[w] \in Batch
      BY <2>2 DEF Asleep
    <3>2. QED
      BY <3>1 DEF Batch, RetryCall, Calls
  <2>3. Outstanding \in SUBSET [call : Calls, order : Orders]
    BY <2>1, <2>2 DEF Outstanding
  <2>4. late' \in SUBSET [call : Calls, order : Orders]
    BY <1>11, <2>3 DEF Crash
  <2>5. QED
    BY <1>11, <2>4, FaultsAssumption DEF Crash
<1>12. ASSUME UNCHANGED vars PROVE TypeOK'
  BY <1>12 DEF vars
<1>13. QED
  BY <1>1, <1>2, <1>3, <1>4, <1>5, <1>6, <1>7, <1>8, <1>9, <1>10, <1>11, <1>12
     DEF Next, HandlerStep, WorkerStep, BuyerCancel, OperatorCancel, Advance, Ops

(* Every variable keeps its shape, and a handler in flight always holds a  *)
(* row its guards accept.                                                  *)
THEOREM TypeCorrect == Spec => []TypeOK
<1>1. Init => TypeOK
  BY TypeInit
<1>2. TypeOK /\ [Next]_vars => TypeOK'
  BY TypeStep
<1>3. QED
  BY <1>1, <1>2, PTL DEF Spec
-----------------------------------------------------------------------------
(* The two safety invariants are not inductive: a commit stores what the   *)
(* coroutine was told, so what it was told must be true of the B2B.  It    *)
(* stays true because a reservation, once given up or written off, is      *)
(* never made again.                                                       *)
Confirmed ==
  /\ \A r \in Requests : req[r].phase = "answered" /\ req[r].ok =>
       reservation[req[r].order] # "reserved"
  /\ \A w \in Workers : worker[w].phase = "answered" =>
       reservation[worker[w].order] # "reserved"

Settlement == TypeOK /\ Confirmed /\ CancelledIsReleased /\ FulfilledIsSettled

LEMMA SettlementInit == Init => Settlement
<1>1. Init => TypeOK
  BY TypeInit
<1>2. Init => Confirmed /\ CancelledIsReleased /\ FulfilledIsSettled
  BY DEF Init, Confirmed, CancelledIsReleased, FulfilledIsSettled, Idle, Asleep
<1>3. QED
  BY <1>1, <1>2 DEF Settlement

(* A step that stores nothing, re-reserves nothing and starts no coroutine *)
(* in the answered phase with a positive answer.                           *)
LEMMA SettlementKept ==
  ASSUME Settlement, TypeOK', row' = row,
         \A p \in Orders : reservation[p] # "reserved" => reservation'[p] # "reserved",
         Confirmed'
  PROVE  Settlement'
BY DEF Settlement, CancelledIsReleased, FulfilledIsSettled, TypeOK

(* A step that stores one row: it must not claim more than the B2B did.    *)
LEMMA SettlementStored ==
  ASSUME Settlement, TypeOK', reservation' = reservation, Confirmed',
         NEW o \in Orders, NEW new \in Rows,
         row' = [row EXCEPT ![o] = new],
         new.status = "CANCELLED" => reservation[o] # "reserved",
         new.fulfilled => reservation[o] # "reserved"
  PROVE  Settlement'
<1>1. \A p \in Orders : p # o => row'[p] = row[p]
  BY DEF Settlement, TypeOK
<1>2. row'[o] = new
  BY DEF Settlement, TypeOK
<1>3. QED
  BY <1>1, <1>2 DEF Settlement, CancelledIsReleased, FulfilledIsSettled

LEMMA SettlementStep == Settlement /\ [Next]_vars => Settlement'
<1> SUFFICES ASSUME Settlement, [Next]_vars PROVE Settlement'
  OBVIOUS
<1>0. TypeOK /\ TypeOK' /\ Confirmed
  BY TypeStep DEF Settlement
<1> USE <1>0
<1>1. ASSUME NEW r \in Requests, NEW op \in Ops, NEW o \in Orders, Load(r, op, o)
      PROVE  Settlement'
  <2>1. Confirmed'
    BY <1>1 DEF Load, Confirmed, TypeOK
  <2>2. QED
    BY <1>1, <2>1, SettlementKept DEF Load
<1>2. ASSUME NEW r \in Requests, NEW ok \in BOOLEAN, HandlerAnswered(r, ok)
      PROVE  Settlement'
  <2>1. req[r] \in Handling
    BY <1>2 DEF HandlerAnswered, Idle, TypeOK
  <2>2. CallOf(req[r].op) \in Calls /\ req[r].order \in Orders
    BY <2>1 DEF CallOf, Calls, Handling
  <2>3. /\ \A p \in Orders : reservation[p] # "reserved" => reservation'[p] # "reserved"
        /\ ok => reservation'[req[r].order] # "reserved"
    BY <1>2, <2>2, CallReturnsMonotone DEF HandlerAnswered
  <2>4. /\ \A q \in Requests \ {r} : req'[q] = req[q]
        /\ req'[r].order = req[r].order
        /\ req'[r].ok = ok
        /\ worker' = worker
    BY <1>2, <2>1 DEF HandlerAnswered, TypeOK, Handling
  <2>5. ASSUME NEW q \in Requests, req[q].phase = "answered" PROVE req[q].order \in Orders
    BY <2>5 DEF TypeOK, Idle, Handling
  <2>6. ASSUME NEW w \in Workers, worker[w].phase = "answered"
        PROVE  worker[w].order \in Orders
    BY <2>6 DEF TypeOK, Asleep, Batch
  <2>7. Confirmed'
    BY <2>2, <2>3, <2>4, <2>5, <2>6 DEF Confirmed
  <2>8. QED
    BY <1>2, <2>3, <2>7, SettlementKept DEF HandlerAnswered
<1>3. ASSUME NEW r \in Requests, CommitCancel(r) PROVE Settlement'
  <2> DEFINE status == CancelOutcome(req[r].ok)
             loaded == AppendedInPlace(req[r].read, status)
             new    == [loaded EXCEPT !.status = status]
             o      == req[r].order
  <2>1. req[r] \in Handling
    BY <1>3 DEF CommitCancel, Idle, TypeOK
  <2>2. o \in Orders /\ req[r].read \in Rows /\ status \in Statuses /\ row[o] \in Rows
    BY <2>1 DEF Handling, Statuses, CancelOutcome, TypeOK
  <2>3. loaded \in Rows /\ loaded.fulfilled = req[r].read.fulfilled
    BY <2>2, AppendedIsRow
  <2>4. new \in Rows /\ new.status = status /\ new.fulfilled = loaded.fulfilled
    BY <2>2, <2>3 DEF Rows
  <2> DEFINE stored == Flushed(row[o], loaded, new)
  <2>5. stored \in Rows
    BY <2>2, <2>3, <2>4, FlushedIsRow
  <2>6. stored.status \in {row[o].status, status} /\ stored.fulfilled = row[o].fulfilled
    BY <2>4 DEF Flushed, Column
  <2>7. row' = [row EXCEPT ![o] = stored]
    BY <1>3 DEF CommitCancel, Save
  <2>8. Confirmed'
    BY <1>3 DEF CommitCancel, Confirmed, Idle, TypeOK
  <2>9. status = "CANCELLED" => reservation[o] # "reserved"
    BY <1>3 DEF CommitCancel, Confirmed, CancelOutcome
  <2>10. stored.status = "CANCELLED" => reservation[o] # "reserved"
    BY <2>2, <2>6, <2>9 DEF Settlement, CancelledIsReleased
  <2>11. stored.fulfilled => reservation[o] # "reserved"
    BY <2>2, <2>6 DEF Settlement, FulfilledIsSettled
  <2>12. reservation' = reservation
    BY <1>3 DEF CommitCancel
  <2> HIDE DEF stored
  <2>13. QED
    BY <2>2, <2>5, <2>7, <2>8, <2>10, <2>11, <2>12, SettlementStored
<1>4. ASSUME NEW r \in Requests, CommitAdvance(r) PROVE Settlement'
  <2> DEFINE status == OPERATOR_TRANSITIONS[req[r].read.status]
             loaded == AppendedInPlace(req[r].read, status)
             new    == Stepped(loaded, status, req[r].ok)
             o      == req[r].order
  <2>1. req[r] \in Handling
    BY <1>4 DEF CommitAdvance, Idle, TypeOK
  <2>2. /\ o \in Orders /\ req[r].read \in Rows /\ row[o] \in Rows
        /\ status \in Statuses \ {"CANCELLED"} /\ req[r].ok \in BOOLEAN
    BY <1>4, <2>1 DEF CommitAdvance, Handling, Allowed, OPERATOR_TRANSITIONS,
                      Statuses, TypeOK
  <2>3. loaded \in Rows
    BY <2>2, AppendedIsRow
  <2>4. /\ new \in Rows /\ new.status = status
        /\ new.fulfilled = (loaded.fulfilled \/ req[r].ok)
    BY <2>2, <2>3, SteppedIsRow
  <2> DEFINE stored == Flushed(row[o], loaded, new)
  <2>5. stored \in Rows
    BY <2>2, <2>3, <2>4, FlushedIsRow
  <2>6. /\ stored.status \in {row[o].status, status}
        /\ stored.fulfilled => row[o].fulfilled \/ req[r].ok
    BY <2>2, <2>3, <2>4 DEF Flushed, Column, Rows
  <2>7. row' = [row EXCEPT ![o] = stored]
    BY <1>4 DEF CommitAdvance, Save
  <2>8. Confirmed'
    BY <1>4 DEF CommitAdvance, Confirmed, Idle, TypeOK
  <2>9. stored.status = "CANCELLED" => reservation[o] # "reserved"
    BY <2>2, <2>6 DEF Settlement, CancelledIsReleased
  <2>10. stored.fulfilled => reservation[o] # "reserved"
    BY <1>4, <2>2, <2>6 DEF Settlement, FulfilledIsSettled, CommitAdvance, Confirmed
  <2>11. reservation' = reservation
    BY <1>4 DEF CommitAdvance
  <2> HIDE DEF stored
  <2>12. QED
    BY <2>2, <2>5, <2>7, <2>8, <2>9, <2>10, <2>11, SettlementStored
<1>5. ASSUME NEW w \in Workers, Scan(w) PROVE Settlement'
  <2>1. {o \in Orders : Due(w, row[o])} \in SUBSET Orders
    OBVIOUS
  <2>2. worker'[w].phase # "answered"
    BY <1>5, <2>1, WorkingThroughBatch DEF Scan, TypeOK
  <2>3. Confirmed'
    BY <1>5, <2>2 DEF Scan, Confirmed, TypeOK
  <2>4. QED
    BY <1>5, <2>3, SettlementKept DEF Scan
<1>6. ASSUME NEW w \in Workers, NEW o \in Orders, NEW ok \in BOOLEAN,
             WorkerAnswered(w, o, ok)
      PROVE  Settlement'
  <2>1. worker[w] \in Batch
    BY <1>6 DEF WorkerAnswered, Asleep, TypeOK
  <2>2. RetryCall(w) \in Calls /\ worker[w].rest \in SUBSET Orders
    BY <2>1 DEF RetryCall, Calls, Batch
  <2>3. /\ \A p \in Orders : reservation[p] # "reserved" => reservation'[p] # "reserved"
        /\ ok => reservation'[o] # "reserved"
    BY <1>6, <2>2, CallReturnsMonotone DEF WorkerAnswered
  <2>4. /\ \A v \in Workers \ {w} : worker'[v] = worker[v]
        /\ worker'[w].phase = "answered" => ok /\ worker'[w].order = o
        /\ req' = req
    BY <1>6, <2>1, <2>2, WorkingThroughBatch DEF WorkerAnswered, TypeOK, Batch
  <2>5. ASSUME NEW q \in Requests, req[q].phase = "answered" PROVE req[q].order \in Orders
    BY <2>5 DEF TypeOK, Idle, Handling
  <2>6. ASSUME NEW v \in Workers, worker[v].phase = "answered"
        PROVE  worker[v].order \in Orders
    BY <2>6 DEF TypeOK, Asleep, Batch
  <2>7. Confirmed'
    BY <2>3, <2>4, <2>5, <2>6 DEF Confirmed
  <2>8. QED
    BY <1>6, <2>3, <2>7, SettlementKept DEF WorkerAnswered
<1>7. ASSUME NEW w \in Workers, WorkerCommit(w) PROVE Settlement'
  <2> DEFINE o      == worker[w].order
             stored == Retried(w, row[o])
  <2>1. o \in Orders /\ worker[w].rest \in SUBSET Orders /\ row[o] \in Rows
    BY <1>7 DEF WorkerCommit, Asleep, Batch, TypeOK
  <2>2. stored \in Rows
    BY <2>1, RetriedIsRow
  <2>3. reservation[o] # "reserved"
    BY <1>7 DEF WorkerCommit, Confirmed
  <2>4. worker'[w].phase # "answered"
    BY <1>7, <2>1, WorkingThroughBatch DEF WorkerCommit, TypeOK
  <2>5. Confirmed'
    BY <1>7, <2>4 DEF WorkerCommit, Confirmed, TypeOK
  <2>6. row' = [row EXCEPT ![o] = stored] /\ reservation' = reservation
    BY <1>7 DEF WorkerCommit
  <2> HIDE DEF stored
  <2>7. QED
    BY <2>1, <2>2, <2>3, <2>5, <2>6, SettlementStored
<1>8. ASSUME NEW r \in Requests, HandlerCommitFails(r) PROVE Settlement'
  <2>1. Confirmed'
    BY <1>8 DEF HandlerCommitFails, Confirmed, Idle, TypeOK
  <2>2. QED
    BY <1>8, <2>1, SettlementKept DEF HandlerCommitFails
<1>9. ASSUME NEW w \in Workers, WorkerCommitFails(w) PROVE Settlement'
  <2>1. Confirmed'
    BY <1>9 DEF WorkerCommitFails, Confirmed, Asleep, TypeOK
  <2>2. QED
    BY <1>9, <2>1, SettlementKept DEF WorkerCommitFails
<1>10. ASSUME NEW m \in late, ApplyLate(m) PROVE Settlement'
  <2>1. \A p \in Orders : reservation[p] # "reserved" => reservation'[p] # "reserved"
    BY <1>10 DEF ApplyLate, Applied, TypeOK, Calls
  <2>2. ASSUME NEW q \in Requests, req[q].phase = "answered" PROVE req[q].order \in Orders
    BY <2>2 DEF TypeOK, Idle, Handling
  <2>3. ASSUME NEW w \in Workers, worker[w].phase = "answered"
        PROVE  worker[w].order \in Orders
    BY <2>3 DEF TypeOK, Asleep, Batch
  <2>4. Confirmed'
    BY <1>10, <2>1, <2>2, <2>3 DEF ApplyLate, Confirmed
  <2>5. QED
    BY <1>10, <2>1, <2>4, SettlementKept DEF ApplyLate
<1>11. ASSUME Crash PROVE Settlement'
  <2>1. Confirmed'
    BY <1>11 DEF Crash, Confirmed, Idle, Asleep
  <2>2. QED
    BY <1>11, <2>1, SettlementKept DEF Crash
<1>12. ASSUME UNCHANGED vars PROVE Settlement'
  <2>1. Confirmed'
    BY <1>12 DEF vars, Confirmed
  <2>2. QED
    BY <1>12, <2>1, SettlementKept DEF vars
<1>13. QED
  BY <1>1, <1>2, <1>3, <1>4, <1>5, <1>6, <1>7, <1>8, <1>9, <1>10, <1>11, <1>12
     DEF Next, HandlerStep, WorkerStep, BuyerCancel, OperatorCancel, Advance, Ops

(* However many requests race, and whatever crashes or arrives late, an    *)
(* order stored as CANCELLED no longer holds goods in the B2B, and one     *)
(* stored as fulfilled does not either.                                    *)
THEOREM SettlementHolds == Spec => [](CancelledIsReleased /\ FulfilledIsSettled)
<1>1. Init => Settlement
  BY SettlementInit
<1>2. Settlement /\ [Next]_vars => Settlement'
  BY SettlementStep
<1>3. Settlement => CancelledIsReleased /\ FulfilledIsSettled
  BY DEF Settlement
<1>4. QED
  BY <1>1, <1>2, <1>3, PTL DEF Spec
-----------------------------------------------------------------------------
(* The columns a session found unchanged are not written, so a handler     *)
(* that read b2b_fulfilled = FALSE before the worker set it leaves it set. *)
LEMMA FulfilledStep ==
  ASSUME TypeOK, [Next]_vars
  PROVE  \A o \in Orders : row[o].fulfilled => row'[o].fulfilled
<1> DEFINE Kept == \A o \in Orders : row[o].fulfilled => row'[o].fulfilled
<1> SUFFICES Kept
  OBVIOUS
<1>1. ASSUME NEW o \in Orders, NEW stored, row' = [row EXCEPT ![o] = stored],
             row[o].fulfilled => stored.fulfilled
      PROVE  Kept
  BY <1>1 DEF TypeOK
<1>2. ASSUME NEW r \in Requests, CommitCancel(r) PROVE Kept
  <2> DEFINE status == CancelOutcome(req[r].ok)
             loaded == AppendedInPlace(req[r].read, status)
             new    == [loaded EXCEPT !.status = status]
             o      == req[r].order
             stored == Flushed(row[o], loaded, new)
  <2>1. req[r] \in Handling
    BY <1>2 DEF CommitCancel, Idle, TypeOK
  <2>2. o \in Orders /\ req[r].read \in Rows /\ status \in Statuses
    BY <2>1 DEF Handling, Statuses, CancelOutcome
  <2>3. loaded \in Rows
    BY <2>2, AppendedIsRow
  <2>4. new.fulfilled = loaded.fulfilled
    BY <2>3 DEF Rows
  <2>5. stored.fulfilled = row[o].fulfilled
    BY <2>4 DEF Flushed, Column
  <2>6. row' = [row EXCEPT ![o] = stored]
    BY <1>2 DEF CommitCancel, Save
  <2> HIDE DEF stored
  <2>7. QED
    BY <1>1, <2>2, <2>5, <2>6
<1>3. ASSUME NEW r \in Requests, CommitAdvance(r) PROVE Kept
  <2> DEFINE status == OPERATOR_TRANSITIONS[req[r].read.status]
             loaded == AppendedInPlace(req[r].read, status)
             new    == Stepped(loaded, status, req[r].ok)
             o      == req[r].order
             stored == Flushed(row[o], loaded, new)
  <2>1. req[r] \in Handling
    BY <1>3 DEF CommitAdvance, Idle, TypeOK
  <2>2. /\ o \in Orders /\ req[r].read \in Rows /\ status \in Statuses
        /\ req[r].ok \in BOOLEAN
    BY <1>3, <2>1 DEF CommitAdvance, Handling, Allowed, OPERATOR_TRANSITIONS, Statuses
  <2>3. loaded \in Rows
    BY <2>2, AppendedIsRow
  <2>4. new.fulfilled = (loaded.fulfilled \/ req[r].ok)
    BY <2>2, <2>3, SteppedIsRow
  <2>5. /\ loaded.fulfilled => new.fulfilled
        /\ loaded.fulfilled \in BOOLEAN /\ new.fulfilled \in BOOLEAN
    BY <2>2, <2>3, <2>4 DEF Rows
  <2>6. row[o].fulfilled => stored.fulfilled
    BY <2>5 DEF Flushed, Column
  <2>7. row' = [row EXCEPT ![o] = stored]
    BY <1>3 DEF CommitAdvance, Save
  <2> HIDE DEF stored
  <2>8. QED
    BY <1>1, <2>2, <2>6, <2>7
<1>4. ASSUME NEW w \in Workers, WorkerCommit(w) PROVE Kept
  <2>1. worker[w].order \in Orders /\ row[worker[w].order] \in Rows
    BY <1>4 DEF WorkerCommit, Asleep, Batch, TypeOK
  <2>2. row[worker[w].order].fulfilled => Retried(w, row[worker[w].order]).fulfilled
    BY <2>1, RetriedIsRow
  <2>3. QED
    BY <1>1, <1>4, <2>1, <2>2 DEF WorkerCommit
<1>5. CASE row' = row
  BY <1>5
<1>6. QED
  BY <1>2, <1>3, <1>4, <1>5
     DEF Next, HandlerStep, WorkerStep, BuyerCancel, OperatorCancel, Advance, Load,
         HandlerAnswered, HandlerCommitFails, Scan, WorkerAnswered, WorkerCommitFails,
         ApplyLate, Crash, vars

(* No step of any coroutine takes back a settlement.                       *)
THEOREM FulfilledKept == Spec => FulfilledIsKept
<1>1. TypeOK /\ [Next]_vars =>
        [\A o \in Orders : row[o].fulfilled => row'[o].fulfilled]_vars
  BY FulfilledStep
<1>2. QED
  BY <1>1, TypeCorrect, PTL DEF Spec, FulfilledIsKept
-----------------------------------------------------------------------------
(***************************************************************************)
(* What OrderLifecycle promises where requests on one order do not         *)
(* overlap: it implements the safety part of OrderStatus, and the goods in *)
(* the B2B are where the status says.                                      *)
(*                                                                         *)
(* Nothing locks a row, so what keeps the copy a coroutine holds up to     *)
(* date is only that nobody else moves an order in that status: a request  *)
(* and the two workers each hold orders in statuses of their own.          *)
(***************************************************************************)
(* The orders a worker still has to do in this round.                      *)
ToDo(w) == IF worker[w] = Asleep THEN {} ELSE {worker[w].order} \cup worker[w].rest

(* What a coroutine read is still so.                                      *)
ReadIsCurrent ==
  \A r \in Requests : Active(r) => row[req[r].order].status = req[r].read.status
BatchIsDue ==
  \A w \in Workers : /\ \A o \in ToDo(w) : Due(w, row[o])
                     /\ worker[w] # Asleep => worker[w].order \notin worker[w].rest

(* A handler is told that goods were written off only on the last step.    *)
LastStepCalls ==
  \A r \in Requests :
    Active(r) /\ req[r].op = "advance" /\ (req[r].phase = "calling" \/ req[r].ok) =>
      req[r].read.status = "DELIVERING"

RowsMakeSense ==
  \A o \in Orders : /\ row[o].status # "CREATED"
                    /\ row[o].fulfilled => row[o].status = "DELIVERED"

Served(o) == row[o].status \in {"DELIVERING", "DELIVERED"}
Given(o)  == row[o].status \in {"CANCEL_PENDING", "CANCELLED"} \/ Cancelling(o)

(* Calls nobody waits for any more arrive at orders they still fit, a      *)
(* release while nothing has crashed.                                      *)
LateFits ==
  \A m \in late : /\ m.call = "fulfill" => Served(m.order)
                  /\ m.call = "unreserve" /\ faults = 0 => Given(m.order)

InStep == /\ TypeOK /\ Serialised /\ ReadIsCurrent /\ BatchIsDue
          /\ LastStepCalls /\ RowsMakeSense
-----------------------------------------------------------------------------
(* What the record of a request in flight, and of a worker at work, holds. *)
LEMMA Handled ==
  ASSUME TypeOK, NEW r \in Requests, req[r] # Idle
  PROVE  /\ req[r] \in Handling
         /\ req[r].order \in Orders /\ req[r].read \in Rows /\ req[r].ok \in BOOLEAN
         /\ req[r].op \in Ops /\ req[r].read.status \in Allowed(req[r].op)
         /\ req[r].phase \in {"calling", "answered"}
         /\ row[req[r].order] \in Rows
<1>1. req[r] \in Handling
  BY DEF TypeOK
<1> QED
  BY <1>1 DEF TypeOK, Handling

LEMMA AtWork ==
  ASSUME TypeOK, NEW w \in Workers, worker[w] # Asleep
  PROVE  /\ worker[w] \in Batch
         /\ worker[w].order \in Orders /\ worker[w].rest \in SUBSET Orders
         /\ ToDo(w) = {worker[w].order} \cup worker[w].rest
<1>1. worker[w] \in Batch
  BY DEF TypeOK
<1> QED
  BY <1>1 DEF Batch, ToDo

(* Only coroutines in flight have a phase other than the resting ones.     *)
LEMMA Resting ==
  /\ \A r \in Requests : req[r].phase \in {"calling", "answered"} => req[r] # Idle
  /\ \A w \in Workers : worker[w].phase \in {"calling", "answered"} => worker[w] # Asleep
BY DEF Idle, Asleep

(* A worker that goes on has some of what it had to do, each row once.     *)
LEMMA GoesOn ==
  ASSUME NEW todo \in SUBSET Orders, NEW next \in WorkingThrough(todo)
  PROVE  \/ next = Asleep
         \/ /\ next # Asleep /\ next.order \notin next.rest
            /\ {next.order} \cup next.rest = todo
BY DEF WorkingThrough, Asleep
-----------------------------------------------------------------------------
(* A step that stores nothing and changes one request, or one worker.      *)
LEMMA RequestMoves ==
  ASSUME InStep, TypeOK', Serialised', row' = row, worker' = worker,
         NEW r \in Requests, NEW new, req' = [req EXCEPT ![r] = new],
         new # Idle => row[new.order].status = new.read.status,
         new # Idle /\ new.op = "advance" /\ (new.phase = "calling" \/ new.ok) =>
           new.read.status = "DELIVERING"
  PROVE  InStep'
<1>1. req'[r] = new /\ \A q \in Requests \ {r} : req'[q] = req[q]
  BY DEF InStep, TypeOK
<1>2. ReadIsCurrent'
  BY <1>1 DEF InStep, ReadIsCurrent, Active
<1>3. LastStepCalls'
  BY <1>1 DEF InStep, LastStepCalls, Active
<1>4. BatchIsDue' /\ RowsMakeSense'
  BY DEF InStep, BatchIsDue, ToDo, RowsMakeSense
<1> QED
  BY <1>2, <1>3, <1>4 DEF InStep

LEMMA WorkerMoves ==
  ASSUME InStep, TypeOK', Serialised', row' = row, req' = req,
         NEW w \in Workers, NEW new, worker' = [worker EXCEPT ![w] = new],
         new # Asleep => /\ new.order \notin new.rest
                         /\ \A o \in {new.order} \cup new.rest : Due(w, row[o])
  PROVE  InStep'
<1>1. worker'[w] = new /\ \A v \in Workers \ {w} : worker'[v] = worker[v]
  BY DEF InStep, TypeOK
<1>2. BatchIsDue'
  BY <1>1 DEF InStep, BatchIsDue, ToDo
<1>3. ReadIsCurrent' /\ LastStepCalls' /\ RowsMakeSense'
  BY DEF InStep, ReadIsCurrent, LastStepCalls, Active, RowsMakeSense
<1> QED
  BY <1>2, <1>3 DEF InStep

(* A step that stores one row: whoever is still in flight is about others. *)
LEMMA OneIsStored ==
  ASSUME InStep, TypeOK', Serialised', NEW o \in Orders, NEW new \in Rows,
         row' = [row EXCEPT ![o] = new],
         \A r \in Requests : req'[r] # Idle => req'[r] = req[r] /\ req[r].order # o,
         \A w \in Workers :
           /\ o \notin ToDo(w)'
           /\ ToDo(w)' \subseteq ToDo(w)
           /\ worker'[w] # Asleep => worker'[w].order \notin worker'[w].rest,
         new.status # "CREATED",
         new.fulfilled => new.status = "DELIVERED"
  PROVE  InStep'
<1>1. row'[o] = new /\ \A p \in Orders \ {o} : row'[p] = row[p]
  BY DEF InStep, TypeOK
<1>2. ReadIsCurrent'
  <2>1. ASSUME NEW r \in Requests, req'[r] # Idle
        PROVE  row'[req'[r].order].status = req'[r].read.status
    <3>1. req[r] # Idle /\ req'[r] = req[r] /\ req[r].order # o
      BY <2>1
    <3>2. req[r].order \in Orders
      BY <3>1, Handled DEF InStep
    <3>3. row[req[r].order].status = req[r].read.status
      BY <3>1 DEF InStep, ReadIsCurrent, Active
    <3> QED
      BY <1>1, <3>1, <3>2, <3>3
  <2> QED
    BY <2>1 DEF ReadIsCurrent, Active
<1>3. LastStepCalls'
  BY DEF InStep, LastStepCalls, Active
<1>4. BatchIsDue'
  <2>1. ASSUME NEW w \in Workers, NEW p \in ToDo(w)' PROVE Due(w, row'[p])
    <3>1. p \in ToDo(w) /\ p # o
      BY <2>1
    <3>2. p \in Orders
      BY <3>1, AtWork DEF InStep, ToDo
    <3>3. Due(w, row[p])
      BY <3>1 DEF InStep, BatchIsDue
    <3> QED
      BY <1>1, <3>1, <3>2, <3>3
  <2> QED
    BY <2>1 DEF BatchIsDue, Due
<1>5. RowsMakeSense'
  BY <1>1 DEF InStep, RowsMakeSense
<1> QED
  BY <1>2, <1>3, <1>4, <1>5 DEF InStep
-----------------------------------------------------------------------------
(* A request on an order keeps the workers, and other requests, away.      *)
LEMMA NobodyElse ==
  ASSUME InStep, NEW r \in Requests, req[r] # Idle
  PROVE  /\ row[req[r].order].status \in Allowed(req[r].op)
         /\ row[req[r].order].status = req[r].read.status
         /\ \A q \in Requests : q # r /\ req[q] # Idle => req[q].order # req[r].order
         /\ \A w \in Workers : req[r].order \notin ToDo(w)
<1>1. row[req[r].order].status = req[r].read.status
  BY DEF InStep, ReadIsCurrent, Active
<1>2. req[r].read.status \in Allowed(req[r].op) /\ req[r].op \in Ops
  BY Handled DEF InStep
<1>3. req[r].read.status \notin {"CANCEL_PENDING", "DELIVERED"}
  BY <1>2 DEF Ops, Allowed, BuyerCancelAllowed, OPERATOR_CANCEL_ALLOWED, OPERATOR_TRANSITIONS
<1>4. ASSUME NEW w \in Workers, req[r].order \in ToDo(w) PROVE FALSE
  <2>1. Due(w, row[req[r].order])
    BY <1>4 DEF InStep, BatchIsDue
  <2> QED
    BY <2>1, <1>1, <1>3 DEF Due, Workers
<1> QED
  BY <1>1, <1>2, <1>4 DEF InStep, Serialised, Active

(* What the three commits store, given that the copies are current.        *)
LEMMA CancelStores ==
  ASSUME InStep, NEW r \in Requests, CommitCancel(r)
  PROVE  LET o == req[r].order
         IN  /\ req[r] # Idle /\ req[r].op # "advance"
             /\ o \in Orders
             /\ row[o].status \in {"PAID", "ASSEMBLING"}
             /\ \E new \in Rows : /\ row' = [row EXCEPT ![o] = new]
                                  /\ new.status = CancelOutcome(req[r].ok)
                                  /\ new.fulfilled = row[o].fulfilled
<1> DEFINE o      == req[r].order
           status == CancelOutcome(req[r].ok)
           loaded == AppendedInPlace(req[r].read, status)
           new    == [loaded EXCEPT !.status = status]
           stored == Flushed(row[o], loaded, new)
<1>1. req[r] # Idle /\ req[r].op # "advance"
  BY Resting DEF CommitCancel
<1>2. /\ o \in Orders /\ req[r].read \in Rows /\ row[o] \in Rows /\ req[r].op \in Ops
      /\ row[o].status \in Allowed(req[r].op) /\ row[o].status = req[r].read.status
  BY <1>1, Handled, NobodyElse DEF InStep
<1>3. row[o].status \in {"PAID", "ASSEMBLING"}
  BY <1>1, <1>2 DEF Allowed, BuyerCancelAllowed, OPERATOR_CANCEL_ALLOWED, Ops, InStep, RowsMakeSense
<1>4. status \in {"CANCELLED", "CANCEL_PENDING"} /\ status \in Statuses
  BY DEF CancelOutcome, Statuses
<1>5. loaded \in Rows /\ loaded.status = row[o].status
  BY <1>2, <1>4, AppendedIsRow
<1>6. new \in Rows /\ new.status = status /\ new.fulfilled = loaded.fulfilled
  BY <1>4, <1>5 DEF Rows
<1>7. stored \in Rows
  BY <1>2, <1>5, <1>6, FlushedIsRow
<1>8. stored.status = status /\ stored.fulfilled = row[o].fulfilled
  BY <1>3, <1>4, <1>5, <1>6 DEF Flushed, Column
<1>9. row' = [row EXCEPT ![o] = stored]
  BY DEF CommitCancel, Save
<1> HIDE DEF stored, status
<1> QED
  BY <1>1, <1>2, <1>3, <1>7, <1>8, <1>9 DEF status

LEMMA AdvanceStores ==
  ASSUME InStep, NEW r \in Requests, CommitAdvance(r)
  PROVE  LET o == req[r].order
         IN  /\ req[r] # Idle /\ req[r].op = "advance"
             /\ o \in Orders
             /\ row[o].status \in DOMAIN OPERATOR_TRANSITIONS
             /\ ~row[o].fulfilled
             /\ \E new \in Rows :
                  /\ row' = [row EXCEPT ![o] = new]
                  /\ new.status = OPERATOR_TRANSITIONS[row[o].status]
                  /\ new.fulfilled => row[o].status = "DELIVERING"
<1> DEFINE o      == req[r].order
           status == OPERATOR_TRANSITIONS[req[r].read.status]
           loaded == AppendedInPlace(req[r].read, status)
           new    == Stepped(loaded, status, req[r].ok)
           stored == Flushed(row[o], loaded, new)
<1>1. req[r] # Idle /\ req[r].op = "advance"
  BY Resting DEF CommitAdvance
<1>2. /\ o \in Orders /\ req[r].read \in Rows /\ row[o] \in Rows /\ req[r].ok \in BOOLEAN
      /\ row[o].status \in Allowed(req[r].op) /\ row[o].status = req[r].read.status
  BY <1>1, Handled, NobodyElse DEF InStep
<1>3. row[o].status \in DOMAIN OPERATOR_TRANSITIONS
  BY <1>1, <1>2 DEF Allowed
<1>4. status \in Statuses /\ status # row[o].status
  BY <1>2, <1>3 DEF OPERATOR_TRANSITIONS, Statuses
<1>5. ~row[o].fulfilled
  BY <1>2, <1>3 DEF InStep, RowsMakeSense, OPERATOR_TRANSITIONS
<1>6. loaded \in Rows /\ loaded.status = row[o].status
  BY <1>2, <1>4, AppendedIsRow
<1>7. new \in Rows /\ new.status = status /\ new.fulfilled = (loaded.fulfilled \/ req[r].ok)
  BY <1>2, <1>4, <1>6, SteppedIsRow
<1>8. stored \in Rows
  BY <1>2, <1>6, <1>7, FlushedIsRow
<1>9. stored.status = status
  BY <1>4, <1>6, <1>7 DEF Flushed, Column
<1>10. req[r].ok => row[o].status = "DELIVERING"
  BY <1>1, <1>2 DEF InStep, LastStepCalls, Active
<1>11. loaded.fulfilled \in BOOLEAN
  BY <1>6 DEF Rows
<1>12. stored.fulfilled => req[r].ok
  BY <1>2, <1>5, <1>7, <1>11 DEF Flushed, Column
<1>13. row' = [row EXCEPT ![o] = stored]
  BY DEF CommitAdvance, Save
<1> HIDE DEF stored
<1> QED
  BY <1>1, <1>2, <1>3, <1>5, <1>8, <1>9, <1>10, <1>12, <1>13

LEMMA WorkerStores ==
  ASSUME InStep, NEW w \in Workers, WorkerCommit(w)
  PROVE  LET o == worker[w].order
         IN  /\ worker[w] # Asleep
             /\ o \in ToDo(w) /\ o \in Orders
             /\ Due(w, row[o])
             /\ Retried(w, row[o]) \in Rows
             /\ row' = [row EXCEPT ![o] = Retried(w, row[o])]
<1>1. worker[w] # Asleep
  BY Resting DEF WorkerCommit
<1>2. /\ worker[w].order \in Orders /\ worker[w].order \in ToDo(w)
      /\ row[worker[w].order] \in Rows
  BY <1>1, AtWork DEF InStep, TypeOK
<1> QED
  BY <1>1, <1>2, RetriedIsRow DEF WorkerCommit, InStep, BatchIsDue
-----------------------------------------------------------------------------
LEMMA InStepInit == Init => InStep
<1> SUFFICES ASSUME Init PROVE InStep
  OBVIOUS
<1>1. TypeOK
  BY TypeInit
<1> QED
  BY <1>1 DEF Init, InStep, Serialised, ReadIsCurrent, BatchIsDue, LastStepCalls,
              RowsMakeSense, Active, ToDo

LEMMA InStepStep == InStep /\ [SerialNext]_vars => InStep'
<1> SUFFICES ASSUME InStep, [SerialNext]_vars PROVE InStep'
  OBVIOUS
<1>0. TypeOK /\ TypeOK' /\ Serialised /\ Serialised'
  <2>1. TypeOK /\ Serialised
    BY DEF InStep
  <2>2. TypeOK'
    BY <2>1, TypeStep DEF SerialNext
  <2>3. Serialised'
    BY <2>1 DEF SerialNext, Serialised, Active, vars
  <2> QED
    BY <2>1, <2>2, <2>3
<1>1. ASSUME NEW r \in Requests, NEW op \in Ops, NEW o \in Orders, Load(r, op, o)
      PROVE  InStep'
  <2> DEFINE new == [phase |-> IF Makes(op, row[o].status) THEN "calling" ELSE "answered",
                     op |-> op, order |-> o, read |-> row[o], ok |-> FALSE]
  <2>1. req' = [req EXCEPT ![r] = new] /\ row' = row /\ worker' = worker
    BY <1>1 DEF Load
  <2>2. new.op = "advance" /\ (new.phase = "calling" \/ new.ok) =>
          new.read.status = "DELIVERING"
    BY DEF Makes
  <2>3. row[new.order].status = new.read.status
    OBVIOUS
  <2> HIDE DEF new
  <2> QED
    BY <1>0, <2>1, <2>2, <2>3, RequestMoves
<1>2. ASSUME NEW r \in Requests, NEW ok \in BOOLEAN, HandlerAnswered(r, ok)
      PROVE  InStep'
  <2> DEFINE new == [req[r] EXCEPT !.phase = "answered", !.ok = ok]
  <2>1. req[r] # Idle /\ req[r].phase = "calling"
    BY <1>2, Resting DEF HandlerAnswered
  <2>2. req' = [req EXCEPT ![r] = new] /\ row' = row /\ worker' = worker
    BY <1>2 DEF HandlerAnswered
  <2>3. new.order = req[r].order /\ new.read = req[r].read /\ new.op = req[r].op
    BY <1>0, <2>1, Handled DEF Handling
  <2>4. row[new.order].status = new.read.status
    BY <2>1, <2>3, NobodyElse
  <2>5. new.op = "advance" => new.read.status = "DELIVERING"
    BY <2>1, <2>3 DEF InStep, LastStepCalls, Active
  <2> HIDE DEF new
  <2> QED
    BY <1>0, <2>2, <2>4, <2>5, RequestMoves
<1>3. ASSUME NEW r \in Requests, CommitCancel(r) PROVE InStep'
  <2> DEFINE o == req[r].order
  <2>1. PICK new \in Rows : /\ row' = [row EXCEPT ![o] = new]
                            /\ new.status = CancelOutcome(req[r].ok)
                            /\ new.fulfilled = row[o].fulfilled
    BY <1>3, CancelStores
  <2>2. req[r] # Idle /\ o \in Orders /\ ~row[o].fulfilled
    BY <1>3, CancelStores DEF InStep, RowsMakeSense
  <2>3. new.status # "CREATED" /\ ~new.fulfilled
    BY <2>1, <2>2 DEF CancelOutcome
  <2>4. worker' = worker /\ req' = [req EXCEPT ![r] = Idle]
    BY <1>3 DEF CommitCancel
  <2>5. \A q \in Requests : req'[q] # Idle => req'[q] = req[q] /\ req[q].order # o
    BY <1>0, <2>2, <2>4, NobodyElse DEF TypeOK
  <2>6. \A w \in Workers :
          /\ o \notin ToDo(w)' /\ ToDo(w)' \subseteq ToDo(w)
          /\ worker'[w] # Asleep => worker'[w].order \notin worker'[w].rest
    BY <2>2, <2>4, NobodyElse DEF ToDo, InStep, BatchIsDue
  <2> QED
    BY <1>0, <2>1, <2>2, <2>3, <2>5, <2>6, OneIsStored
<1>4. ASSUME NEW r \in Requests, CommitAdvance(r) PROVE InStep'
  <2> DEFINE o == req[r].order
  <2>1. PICK new \in Rows : /\ row' = [row EXCEPT ![o] = new]
                            /\ new.status = OPERATOR_TRANSITIONS[row[o].status]
                            /\ new.fulfilled => row[o].status = "DELIVERING"
    BY <1>4, AdvanceStores
  <2>2. req[r] # Idle /\ o \in Orders /\ row[o].status \in DOMAIN OPERATOR_TRANSITIONS
    BY <1>4, AdvanceStores
  <2>3. new.status # "CREATED" /\ (new.fulfilled => new.status = "DELIVERED")
    BY <2>1, <2>2 DEF OPERATOR_TRANSITIONS
  <2>4. worker' = worker /\ req' = [req EXCEPT ![r] = Idle]
    BY <1>4 DEF CommitAdvance
  <2>5. \A q \in Requests : req'[q] # Idle => req'[q] = req[q] /\ req[q].order # o
    BY <1>0, <2>2, <2>4, NobodyElse DEF TypeOK
  <2>6. \A w \in Workers :
          /\ o \notin ToDo(w)' /\ ToDo(w)' \subseteq ToDo(w)
          /\ worker'[w] # Asleep => worker'[w].order \notin worker'[w].rest
    BY <2>2, <2>4, NobodyElse DEF ToDo, InStep, BatchIsDue
  <2> QED
    BY <1>0, <2>1, <2>2, <2>3, <2>5, <2>6, OneIsStored
<1>5. ASSUME NEW w \in Workers, Scan(w) PROVE InStep'
  <2> DEFINE todo == {o \in Orders : Due(w, row[o])}
  <2>1. PICK next \in WorkingThrough(todo) : worker' = [worker EXCEPT ![w] = next]
    BY <1>5 DEF Scan
  <2>2. next # Asleep => /\ next.order \notin next.rest
                         /\ \A o \in {next.order} \cup next.rest : Due(w, row[o])
    BY GoesOn
  <2> QED
    BY <1>0, <1>5, <2>1, <2>2, WorkerMoves DEF Scan
<1>6. ASSUME NEW w \in Workers, NEW o \in Orders, NEW ok \in BOOLEAN,
             WorkerAnswered(w, o, ok)
      PROVE  InStep'
  <2>1. worker[w] # Asleep
    BY <1>6, Resting DEF WorkerAnswered
  <2>2. worker[w] \in Batch /\ worker[w].rest \in SUBSET Orders
    BY <1>0, <2>1, AtWork
  <2>3. /\ worker[w].order \notin worker[w].rest
        /\ \A p \in {worker[w].order} \cup worker[w].rest : Due(w, row[p])
    BY <1>0, <2>1, AtWork DEF InStep, BatchIsDue
  <2>4. row' = row /\ req' = req
    BY <1>6 DEF WorkerAnswered
  <2>5. CASE ok
    <3> DEFINE new == [worker[w] EXCEPT !.phase = "answered"]
    <3>1. worker' = [worker EXCEPT ![w] = new]
      BY <1>6, <2>5 DEF WorkerAnswered
    <3>2. new.order = worker[w].order /\ new.rest = worker[w].rest
      BY <2>2 DEF Batch
    <3> HIDE DEF new
    <3> QED
      BY <1>0, <2>3, <2>4, <3>1, <3>2, WorkerMoves
  <2>6. CASE ~ok
    <3>1. PICK next \in WorkingThrough(worker[w].rest) :
            worker' = [worker EXCEPT ![w] = next]
      BY <1>6, <2>6 DEF WorkerAnswered
    <3>2. next # Asleep => /\ next.order \notin next.rest
                           /\ \A p \in {next.order} \cup next.rest : Due(w, row[p])
      BY <2>2, <2>3, <3>1, GoesOn
    <3> QED
      BY <1>0, <2>4, <3>1, <3>2, WorkerMoves
  <2> QED
    BY <2>5, <2>6
<1>7. ASSUME NEW w \in Workers, WorkerCommit(w) PROVE InStep'
  <2> DEFINE o == worker[w].order
             new == Retried(w, row[o])
  <2>1. /\ worker[w] # Asleep /\ o \in ToDo(w) /\ o \in Orders
        /\ Due(w, row[o]) /\ new \in Rows /\ row' = [row EXCEPT ![o] = new]
    BY <1>7, WorkerStores
  <2>2. new.status # "CREATED" /\ (new.fulfilled => new.status = "DELIVERED")
    <3>1. row[o] \in Rows
      BY <1>0, <2>1 DEF TypeOK
    <3>2. row[o].status # "CREATED" /\ (row[o].fulfilled => row[o].status = "DELIVERED")
      BY <2>1 DEF InStep, RowsMakeSense
    <3>3. CASE w = "cancel_pending"
      BY <2>1, <3>1, <3>2, <3>3 DEF Retried, Due, Rows
    <3>4. CASE w = "fulfill_pending"
      BY <2>1, <3>1, <3>2, <3>4 DEF Retried, Due, Rows
    <3> QED
      BY <3>3, <3>4 DEF Workers
  <2>3. PICK next \in WorkingThrough(worker[w].rest) :
          worker' = [worker EXCEPT ![w] = next]
    BY <1>7 DEF WorkerCommit
  <2>4. /\ worker[w].rest \in SUBSET Orders /\ o \notin worker[w].rest
        /\ ToDo(w) = {o} \cup worker[w].rest
    BY <1>0, <2>1, AtWork DEF InStep, BatchIsDue
  <2>5. \A q \in Requests : req'[q] # Idle => req'[q] = req[q] /\ req[q].order # o
    BY <1>7, <2>1, NobodyElse DEF WorkerCommit
  <2>6. ASSUME NEW v \in Workers
        PROVE  /\ o \notin ToDo(v)' /\ ToDo(v)' \subseteq ToDo(v)
               /\ worker'[v] # Asleep => worker'[v].order \notin worker'[v].rest
    <3>1. CASE v = w
      <4>1. worker'[v] = next
        BY <1>0, <2>3, <3>1 DEF TypeOK
      <4>2. next = Asleep \/ (/\ next # Asleep /\ next.order \notin next.rest
                              /\ {next.order} \cup next.rest = worker[w].rest)
        BY <2>3, <2>4, GoesOn
      <4> QED
        BY <2>4, <3>1, <4>1, <4>2 DEF ToDo
    <3>2. CASE v # w
      <4>1. worker'[v] = worker[v]
        BY <1>0, <2>3, <3>2 DEF TypeOK
      <4>2. ~Due(v, row[o])
        BY <2>1, <3>2 DEF Due, Workers
      <4>3. o \notin ToDo(v)
        BY <4>2 DEF InStep, BatchIsDue
      <4> QED
        BY <4>1, <4>3 DEF ToDo, InStep, BatchIsDue
    <3> QED
      BY <3>1, <3>2
  <2> HIDE DEF new
  <2> QED
    BY <1>0, <2>1, <2>2, <2>5, <2>6, OneIsStored
<1>8. ASSUME NEW r \in Requests, HandlerCommitFails(r) PROVE InStep'
  BY <1>0, <1>8, RequestMoves DEF HandlerCommitFails
<1>9. ASSUME NEW w \in Workers, WorkerCommitFails(w) PROVE InStep'
  BY <1>0, <1>9, WorkerMoves DEF WorkerCommitFails
<1>10. ASSUME NEW m \in late, ApplyLate(m) PROVE InStep'
  BY <1>0, <1>10 DEF ApplyLate, InStep, ReadIsCurrent, BatchIsDue, LastStepCalls,
                    RowsMakeSense, Active, ToDo
<1>11. CASE Crash
  BY <1>0, <1>11 DEF Crash, InStep, ReadIsCurrent, BatchIsDue, LastStepCalls,
                    RowsMakeSense, Active, ToDo
<1>12. CASE UNCHANGED vars
  BY <1>0, <1>12 DEF vars, InStep, ReadIsCurrent, BatchIsDue, LastStepCalls,
                    RowsMakeSense, Active, ToDo
<1> QED
  BY <1>1, <1>2, <1>3, <1>4, <1>5, <1>6, <1>7, <1>8, <1>9, <1>10, <1>11, <1>12
     DEF SerialNext, Next, HandlerStep, WorkerStep, BuyerCancel, OperatorCancel, Advance, Ops
-----------------------------------------------------------------------------
(* What OrderStatus sees of the table, and of a commit that stores one row. *)
StatusSeen    == [o \in Orders |-> row[o].status]
FulfilledSeen == [o \in Orders |-> row[o].fulfilled]

LEMMA SeenOfCommit ==
  ASSUME TypeOK, NEW o \in Orders, NEW new \in Rows, row' = [row EXCEPT ![o] = new]
  PROVE  /\ StatusSeen' = [StatusSeen EXCEPT ![o] = new.status]
         /\ FulfilledSeen' = [FulfilledSeen EXCEPT ![o] = new.fulfilled]
         /\ new.fulfilled = row[o].fulfilled => FulfilledSeen' = FulfilledSeen
         /\ new.status = row[o].status => StatusSeen' = StatusSeen
BY DEF TypeOK, StatusSeen, FulfilledSeen

LEMMA ImplementsInit == Init => OS!Init
BY DEF Init, OS!Init

LEMMA AbstractStep ==
  ASSUME NEW o \in Orders,
         OS!Forward(o) \/ OS!Cancel(o) \/ OS!FinishCancel(o) \/ OS!Settle(o)
  PROVE  OS!Next
BY Zenon DEF OS!Next

(* Each commit is one step of OrderStatus; nothing else shows.             *)
LEMMA ImplementsStep == InStep /\ [SerialNext]_vars => [OS!Next]_OS!svars
<1> SUFFICES ASSUME InStep, [SerialNext]_vars PROVE [OS!Next]_OS!svars
  OBVIOUS
<1>0. TypeOK
  BY DEF InStep
<1>1. ASSUME NEW r \in Requests, CommitCancel(r) PROVE OS!Next
  <2>0. PICK o \in Orders : o = req[r].order
    BY <1>1, CancelStores
  <2>1. PICK new \in Rows : /\ row' = [row EXCEPT ![o] = new]
                            /\ new.status = CancelOutcome(req[r].ok)
                            /\ new.fulfilled = row[o].fulfilled
    BY <1>1, <2>0, CancelStores
  <2>2. o \in Orders /\ row[o].status \in {"PAID", "ASSEMBLING"}
    BY <1>1, <2>0, CancelStores
  <2>3. new.status \in {"CANCELLED", "CANCEL_PENDING"}
    BY <2>1 DEF CancelOutcome
  <2>4. /\ StatusSeen' = [StatusSeen EXCEPT ![o] = new.status]
        /\ FulfilledSeen' = FulfilledSeen
    BY <1>0, <2>1, <2>2, SeenOfCommit
  <2>5. OS!Cancel(o)
    BY <2>2, <2>3, <2>4 DEF OS!Cancel, OS!CancellableIn, StatusSeen, FulfilledSeen
  <2> QED
    BY <2>2, <2>5, AbstractStep
<1>2. ASSUME NEW r \in Requests, CommitAdvance(r) PROVE OS!Next
  <2>0. PICK o \in Orders : o = req[r].order
    BY <1>2, AdvanceStores
  <2>1. PICK new \in Rows : /\ row' = [row EXCEPT ![o] = new]
                            /\ new.status = OPERATOR_TRANSITIONS[row[o].status]
                            /\ new.fulfilled => row[o].status = "DELIVERING"
    BY <1>2, <2>0, AdvanceStores
  <2>2. o \in Orders /\ row[o].status \in DOMAIN OPERATOR_TRANSITIONS /\ ~row[o].fulfilled
    BY <1>2, <2>0, AdvanceStores
  <2>3. /\ row[o].status \in OS!OpenStatuses
        /\ new.status = OS!StepFrom[row[o].status]
    BY <2>1, <2>2 DEF OPERATOR_TRANSITIONS, OS!OpenStatuses, OS!StepFrom
  <2>4. /\ StatusSeen' = [StatusSeen EXCEPT ![o] = new.status]
        /\ FulfilledSeen' = [FulfilledSeen EXCEPT ![o] = new.fulfilled]
        /\ new.fulfilled = row[o].fulfilled => FulfilledSeen' = FulfilledSeen
    BY <1>0, <2>1, <2>2, SeenOfCommit
  <2>5. new.fulfilled \in BOOLEAN /\ row[o].fulfilled \in BOOLEAN
    BY <1>0, <2>2 DEF Rows, TypeOK
  <2>6. \/ FulfilledSeen' = FulfilledSeen
        \/ /\ row[o].status = "DELIVERING"
           /\ FulfilledSeen' = [FulfilledSeen EXCEPT ![o] = TRUE]
    <3>1. CASE new.fulfilled
      <4>1. new.fulfilled = TRUE
        BY <2>5, <3>1
      <4> QED
        BY <2>1, <2>4, <3>1, <4>1
    <3>2. CASE ~new.fulfilled
      <4>1. new.fulfilled = row[o].fulfilled
        BY <2>2, <2>5, <3>2
      <4> QED
        BY <2>4, <4>1
    <3> QED
      BY <3>1, <3>2
  <2>7. OS!Forward(o)
    BY <2>2, <2>3, <2>4, <2>6 DEF OS!Forward, StatusSeen, FulfilledSeen
  <2> QED
    BY <2>2, <2>7, AbstractStep
<1>3. ASSUME NEW w \in Workers, WorkerCommit(w) PROVE OS!Next
  <2>0. PICK o \in Orders : o = worker[w].order
    BY <1>3, WorkerStores
  <2> DEFINE new == Retried(w, row[o])
  <2>1. /\ o \in Orders /\ Due(w, row[o])
        /\ new \in Rows /\ row' = [row EXCEPT ![o] = new]
    BY <1>3, <2>0, WorkerStores
  <2>2. row[o] \in Rows
    BY <1>0, <2>1 DEF TypeOK
  <2>3. /\ StatusSeen' = [StatusSeen EXCEPT ![o] = new.status]
        /\ FulfilledSeen' = [FulfilledSeen EXCEPT ![o] = new.fulfilled]
        /\ new.fulfilled = row[o].fulfilled => FulfilledSeen' = FulfilledSeen
        /\ new.status = row[o].status => StatusSeen' = StatusSeen
    <3> HIDE DEF new
    <3> QED
      BY <1>0, <2>1, SeenOfCommit
  <2>4. CASE w = "cancel_pending"
    <3>1. /\ row[o].status = "CANCEL_PENDING" /\ new.status = "CANCELLED"
          /\ new.fulfilled = row[o].fulfilled
      BY <2>1, <2>2, <2>4 DEF Due, Retried, Rows
    <3>2. OS!FinishCancel(o)
      BY <2>1, <2>3, <3>1 DEF OS!FinishCancel, StatusSeen, FulfilledSeen
    <3> QED
      BY <2>1, <3>2, AbstractStep
  <2>5. CASE w = "fulfill_pending"
    <3>1. /\ row[o].status = "DELIVERED" /\ ~row[o].fulfilled
          /\ new.status = row[o].status /\ new.fulfilled = TRUE
      BY <2>1, <2>2, <2>5 DEF Due, Retried, Rows
    <3>2. OS!Settle(o)
      BY <2>1, <2>3, <3>1 DEF OS!Settle, StatusSeen, FulfilledSeen
    <3> QED
      BY <2>1, <3>2, AbstractStep
  <2> QED
    BY <2>4, <2>5 DEF Workers
<1>4. CASE row' = row
  BY <1>4 DEF OS!svars
<1> QED
  BY <1>1, <1>2, <1>3, <1>4
     DEF SerialNext, Next, HandlerStep, WorkerStep, BuyerCancel, OperatorCancel, Advance, Load,
         HandlerAnswered, HandlerCommitFails, Scan, WorkerAnswered, WorkerCommitFails,
         ApplyLate, Crash, vars

(* What this means for one order.                                          *)
Moves == {<<"PAID", "ASSEMBLING">>, <<"ASSEMBLING", "DELIVERING">>,
          <<"DELIVERING", "DELIVERED">>, <<"CANCEL_PENDING", "CANCELLED">>}
            \cup ({"PAID", "ASSEMBLING"} \X {"CANCEL_PENDING", "CANCELLED"})

LEMMA StatusMoves ==
  ASSUME InStep, [SerialNext]_vars, NEW o \in Orders
  PROVE  \/ row'[o].status = row[o].status
         \/ <<row[o].status, row'[o].status>> \in Moves
<1> DEFINE Moved(s, t) == t[o] = s[o] \/ <<s[o], t[o]>> \in Moves
<1>1. Moved(StatusSeen, StatusSeen')
  <2>1. [OS!Next]_OS!svars
    BY ImplementsStep
  <2>2. CASE UNCHANGED OS!svars
    BY <2>2 DEF OS!svars, StatusSeen
  <2>3. ASSUME NEW p \in Orders, OS!Forward(p) PROVE Moved(StatusSeen, StatusSeen')
    BY <2>3 DEF OS!Forward, OS!OpenStatuses, OS!StepFrom, StatusSeen, Moves
  <2>4. ASSUME NEW p \in Orders, OS!Cancel(p) PROVE Moved(StatusSeen, StatusSeen')
    BY <2>4 DEF OS!Cancel, OS!CancellableIn, StatusSeen, Moves
  <2>5. ASSUME NEW p \in Orders, OS!FinishCancel(p) PROVE Moved(StatusSeen, StatusSeen')
    BY <2>5 DEF OS!FinishCancel, StatusSeen, Moves
  <2>6. ASSUME NEW p \in Orders, OS!Settle(p) PROVE Moved(StatusSeen, StatusSeen')
    BY <2>6 DEF OS!Settle, StatusSeen
  <2> QED
    BY <2>1, <2>2, <2>3, <2>4, <2>5, <2>6 DEF OS!Next
<1> QED
  BY <1>1 DEF StatusSeen
-----------------------------------------------------------------------------
(* A cancellation in flight ends by storing its outcome, unless a fault    *)
(* ends it.                                                                *)
LEMMA CancellationEnds ==
  ASSUME InStep, [SerialNext]_vars, faults' = faults, NEW r \in Requests,
         req[r] # Idle, req[r].op # "advance"
  PROVE  \/ /\ req'[r] # Idle /\ req'[r].order = req[r].order /\ req'[r].op = req[r].op
         \/ row'[req[r].order].status \in {"CANCEL_PENDING", "CANCELLED"}
<1> DEFINE Same == req'[r] # Idle /\ req'[r].order = req[r].order /\ req'[r].op = req[r].op
           Done == row'[req[r].order].status \in {"CANCEL_PENDING", "CANCELLED"}
<1>0. TypeOK /\ faults \in Nat /\ req[r] \in Handling
  BY Handled DEF InStep, TypeOK
<1>1. ASSUME NEW q \in Requests, NEW op \in Ops, NEW o \in Orders, Load(q, op, o) PROVE Same
  BY <1>1 DEF Load, InStep, TypeOK
<1>2. ASSUME NEW q \in Requests, NEW ok \in BOOLEAN, HandlerAnswered(q, ok) PROVE Same
  BY <1>0, <1>2 DEF HandlerAnswered, Handling, Idle, TypeOK
<1>3. ASSUME NEW q \in Requests, CommitCancel(q) PROVE Same \/ Done
  <2>1. CASE q = r
    <3>1. PICK new \in Rows : /\ row' = [row EXCEPT ![req[r].order] = new]
                              /\ new.status = CancelOutcome(req[r].ok)
      BY <1>3, <2>1, CancelStores
    <3>2. req[r].order \in Orders
      BY <1>3, <2>1, CancelStores
    <3>3. row'[req[r].order] = new
      BY <1>0, <3>1, <3>2 DEF TypeOK
    <3> QED
      BY <3>1, <3>3 DEF CancelOutcome
  <2>2. CASE q # r
    BY <1>0, <1>3, <2>2 DEF CommitCancel, TypeOK
  <2> QED
    BY <2>1, <2>2
<1>4. ASSUME NEW q \in Requests, CommitAdvance(q) PROVE Same
  BY <1>0, <1>4 DEF CommitAdvance, TypeOK
<1>5. CASE req' = req
  BY <1>5
<1>6. ASSUME \/ \E q \in Requests : HandlerCommitFails(q)
             \/ \E w \in Workers : WorkerCommitFails(w)
             \/ Crash
      PROVE  FALSE
  BY <1>0, <1>6 DEF HandlerCommitFails, WorkerCommitFails, Crash
<1> QED
  BY <1>1, <1>2, <1>3, <1>4, <1>5, <1>6
     DEF SerialNext, Next, HandlerStep, WorkerStep, BuyerCancel, OperatorCancel, Advance, Ops,
         Scan, WorkerAnswered, WorkerCommit, ApplyLate, vars

(* An order on its way to the buyer stays so; an order given back stays so *)
(* while nothing fails.                                                    *)
LEMMA ServedAndGivenStay ==
  ASSUME InStep, [SerialNext]_vars, NEW o \in Orders
  PROVE  /\ Served(o) => Served(o)'
         /\ faults' = 0 => faults = 0
         /\ faults' = 0 /\ Given(o) => Given(o)'
<1>1. Served(o) => Served(o)'
  BY StatusMoves DEF Served, Moves
<1>2. row[o].status \in {"CANCEL_PENDING", "CANCELLED"} =>
        row'[o].status \in {"CANCEL_PENDING", "CANCELLED"}
  BY StatusMoves DEF Moves
<1>3. faults \in Nat /\ (faults' = faults \/ faults' = faults + 1)
  <2>1. faults \in Nat
    BY DEF InStep, TypeOK
  <2>2. ASSUME NEW r \in Requests, HandlerStep(r) PROVE faults' = faults \/ faults' = faults + 1
    BY <2>2 DEF HandlerStep, BuyerCancel, OperatorCancel, Advance, Load, HandlerAnswered,
                CommitCancel, CommitAdvance, HandlerCommitFails
  <2>3. ASSUME NEW w \in Workers, WorkerStep(w) PROVE faults' = faults \/ faults' = faults + 1
    BY <2>3 DEF WorkerStep, Scan, WorkerAnswered, WorkerCommit, WorkerCommitFails
  <2> QED
    BY <2>1, <2>2, <2>3 DEF SerialNext, Next, ApplyLate, Crash, vars
<1>4. ASSUME faults' = 0, Cancelling(o) PROVE Given(o)'
  <2>1. PICK r \in Requests : req[r] # Idle /\ req[r].order = o /\ req[r].op # "advance"
    BY <1>4 DEF Cancelling, Active
  <2>2. faults' = faults
    BY <1>3, <1>4
  <2> QED
    BY <2>1, <2>2, CancellationEnds DEF Given, Cancelling, Active
<1> QED
  BY <1>1, <1>2, <1>3, <1>4 DEF Given
-----------------------------------------------------------------------------
(* Every call somebody waits for fits the status of its order.             *)
LEMMA CallsFit ==
  ASSUME InStep
  PROVE  \A c \in Outstanding : /\ c.call = "fulfill" => Served(c.order)
                                /\ c.call = "unreserve" => Given(c.order)
                                /\ c.order \in Orders /\ c.call \in Calls
<1>1. ASSUME NEW r \in Requests, req[r].phase = "calling"
      PROVE  /\ CallOf(req[r].op) = "fulfill" => Served(req[r].order)
             /\ CallOf(req[r].op) = "unreserve" => Given(req[r].order)
             /\ req[r].order \in Orders /\ CallOf(req[r].op) \in Calls
  <2>1. req[r] # Idle /\ req[r].order \in Orders
    BY <1>1, Resting, Handled DEF InStep
  <2>2. req[r].op = "advance" => row[req[r].order].status = "DELIVERING"
    BY <1>1, <2>1, NobodyElse DEF InStep, LastStepCalls, Active
  <2> QED
    BY <2>1, <2>2 DEF CallOf, Served, Given, Cancelling, Active, Calls
<1>2. ASSUME NEW w \in Workers, worker[w].phase = "calling"
      PROVE  /\ RetryCall(w) = "fulfill" => Served(worker[w].order)
             /\ RetryCall(w) = "unreserve" => Given(worker[w].order)
             /\ worker[w].order \in Orders /\ RetryCall(w) \in Calls
  <2>1. worker[w].order \in Orders /\ Due(w, row[worker[w].order])
    BY <1>2, Resting, AtWork DEF InStep, BatchIsDue
  <2>2. CASE w = "cancel_pending"
    BY <2>1, <2>2 DEF RetryCall, Due, Given, Calls
  <2>3. CASE w = "fulfill_pending"
    BY <2>1, <2>3 DEF RetryCall, Due, Served, Calls
  <2> QED
    BY <2>2, <2>3 DEF Workers
<1> QED
  BY <1>1, <1>2 DEF Outstanding

GoodsFit == LateFits /\ WrittenOffIsDelivered /\ GoodsAreHeld

(* A step that makes only fitting calls late, and changes reservations     *)
(* only by calls that fit.                                                 *)
LEMMA GoodsKept ==
  ASSUME InStep, GoodsFit, [SerialNext]_vars,
         \A m \in late' : m \in late \/ m \in Outstanding,
         \A p \in Orders :
           \/ reservation'[p] = reservation[p]
           \/ reservation'[p] = "fulfilled" /\ Served(p)
           \/ reservation'[p] = "released" /\ (faults = 0 => Given(p))
  PROVE  GoodsFit'
<1>1. LateFits'
  <2>1. ASSUME NEW m \in late'
        PROVE  /\ m.call = "fulfill" => Served(m.order)'
               /\ m.call = "unreserve" /\ faults' = 0 => Given(m.order)'
    <3>1. /\ m.order \in Orders
          /\ m.call = "fulfill" => Served(m.order)
          /\ m.call = "unreserve" /\ faults = 0 => Given(m.order)
      <4>1. CASE m \in late
        BY <4>1 DEF InStep, TypeOK, GoodsFit, LateFits
      <4>2. CASE m \in Outstanding
        BY <4>2, CallsFit
      <4> QED
        BY <2>1, <4>1, <4>2
    <3> QED
      BY <3>1, ServedAndGivenStay
  <2> QED
    BY <2>1 DEF LateFits
<1>2. WrittenOffIsDelivered'
  BY ServedAndGivenStay DEF GoodsFit, WrittenOffIsDelivered, Served
<1>3. GoodsAreHeld'
  BY ServedAndGivenStay DEF GoodsFit, GoodsAreHeld, Given
<1> QED
  BY <1>1, <1>2, <1>3 DEF GoodsFit

(* What the B2B does with a call changes one reservation, or makes the     *)
(* call late.                                                              *)
LEMMA CallLands ==
  ASSUME TypeOK, NEW call \in Calls, NEW o \in Orders, NEW ok \in BOOLEAN,
         CallReturns(call, o, ok)
  PROVE  /\ \A m \in late' : m \in late \/ m = [call |-> call, order |-> o]
         /\ \A p \in Orders :
              \/ reservation'[p] = reservation[p]
              \/ p = o /\ call = "fulfill" /\ reservation'[p] = "fulfilled"
              \/ p = o /\ call = "unreserve" /\ reservation'[p] = "released"
BY DEF CallReturns, Applied, TypeOK, Calls

LEMMA GoodsInit == Init => GoodsFit
BY DEF Init, GoodsFit, LateFits, WrittenOffIsDelivered, GoodsAreHeld

LEMMA GoodsStep == InStep /\ GoodsFit /\ [SerialNext]_vars => GoodsFit'
<1> SUFFICES ASSUME InStep, GoodsFit, [SerialNext]_vars PROVE GoodsFit'
  OBVIOUS
<1>0. TypeOK
  BY DEF InStep
<1> DEFINE Fits(call, o) == /\ call = "fulfill" => Served(o)
                            /\ call = "unreserve" => Given(o)
                            /\ o \in Orders /\ call \in Calls
(* A call that somebody waits for and that returns. *)
<1>1. ASSUME NEW call, NEW o, NEW ok \in BOOLEAN, Fits(call, o),
             [call |-> call, order |-> o] \in Outstanding, CallReturns(call, o, ok)
      PROVE  GoodsFit'
  <2>1. /\ \A m \in late' : m \in late \/ m = [call |-> call, order |-> o]
        /\ \A p \in Orders :
              \/ reservation'[p] = reservation[p]
              \/ p = o /\ call = "fulfill" /\ reservation'[p] = "fulfilled"
              \/ p = o /\ call = "unreserve" /\ reservation'[p] = "released"
    BY <1>0, <1>1, CallLands
  <2> QED
    BY <1>1, <2>1, GoodsKept
<1>2. ASSUME NEW r \in Requests, NEW ok \in BOOLEAN, HandlerAnswered(r, ok)
      PROVE  GoodsFit'
  <2>1. PICK call, o : call = CallOf(req[r].op) /\ o = req[r].order
    OBVIOUS
  <2>2. [call |-> call, order |-> o] \in Outstanding
    BY <1>2, <2>1 DEF HandlerAnswered, Outstanding
  <2> QED
    BY <1>1, <1>2, <2>1, <2>2, CallsFit DEF HandlerAnswered
<1>3. ASSUME NEW w \in Workers, NEW o \in Orders, NEW ok \in BOOLEAN,
             WorkerAnswered(w, o, ok)
      PROVE  GoodsFit'
  <2>1. PICK call : call = RetryCall(w)
    OBVIOUS
  <2>2. [call |-> call, order |-> o] \in Outstanding
    BY <1>3, <2>1 DEF WorkerAnswered, Outstanding
  <2> QED
    BY <1>1, <1>3, <2>1, <2>2, CallsFit DEF WorkerAnswered
<1>4. ASSUME NEW m \in late, ApplyLate(m) PROVE GoodsFit'
  <2>1. /\ m.order \in Orders /\ m.call \in Calls
        /\ m.call = "fulfill" => Served(m.order)
        /\ m.call = "unreserve" /\ faults = 0 => Given(m.order)
    BY <1>0 DEF GoodsFit, LateFits, TypeOK
  <2>2. late' \subseteq late
    BY <1>4 DEF ApplyLate
  <2>3. \A p \in Orders :
           \/ reservation'[p] = reservation[p]
           \/ reservation'[p] = "fulfilled" /\ Served(p)
           \/ reservation'[p] = "released" /\ (faults = 0 => Given(p))
    BY <1>0, <1>4, <2>1 DEF ApplyLate, Applied, TypeOK, Calls
  <2> QED
    BY <2>2, <2>3, GoodsKept
<1>5. CASE Crash
  BY <1>5, GoodsKept DEF Crash
<1>6. CASE late' = late /\ reservation' = reservation
  BY <1>6, GoodsKept
<1> QED
  BY <1>2, <1>3, <1>4, <1>5, <1>6
     DEF SerialNext, Next, HandlerStep, WorkerStep, BuyerCancel, OperatorCancel, Advance, Load,
         CommitCancel, CommitAdvance, HandlerCommitFails, Scan, WorkerCommit,
         WorkerCommitFails, vars
-----------------------------------------------------------------------------
(* While requests on one order do not overlap, every copy a coroutine      *)
(* works on is up to date, without any lock.                               *)
THEOREM CopiesAreCurrent == SerialSpec => []InStep
<1>1. Init => InStep
  BY InStepInit
<1>2. InStep /\ [SerialNext]_vars => InStep'
  BY InStepStep
<1> QED
  BY <1>1, <1>2, PTL DEF SerialSpec

(* Goods are written off only for orders on their way to the buyer, and    *)
(* given back, while nothing has failed, only for orders that are being or *)
(* have been cancelled: whatever is retried, timed out or arrives late.    *)
THEOREM GoodsFollowStatus == SerialSpec => [](WrittenOffIsDelivered /\ GoodsAreHeld)
<1>1. Init => GoodsFit
  BY GoodsInit
<1>2. InStep /\ GoodsFit /\ [SerialNext]_vars => GoodsFit'
  BY GoodsStep
<1>3. GoodsFit => WrittenOffIsDelivered /\ GoodsAreHeld
  BY DEF GoodsFit
<1> QED
  BY <1>1, <1>2, <1>3, CopiesAreCurrent, PTL DEF SerialSpec

(* Each commit of the handlers and workers is one step of the abstract     *)
(* order: no order is advanced twice by one request, revived after its     *)
(* cancellation or settled before its delivery.                            *)
THEOREM KeepsOrderPromiseSafely == SerialSpec => OS!SafeSpec
<1>1. Init => OS!Init
  BY ImplementsInit
<1>2. InStep /\ [SerialNext]_vars => [OS!Next]_OS!svars
  BY ImplementsStep
<1> QED
  BY <1>1, <1>2, CopiesAreCurrent, PTL DEF SerialSpec, OS!SafeSpec

(* What the racing handlers break (StrictlyForward is refuted for Spec)    *)
(* holds as soon as requests on one order do not overlap.                  *)
THEOREM ForwardWhenSerialised == SerialSpec => StrictlyForward
<1> DEFINE Forward == \A o \in Orders :
                        /\ Place(row'[o].status) >= Place(row[o].status)
                        /\ row[o].status = "DELIVERED" => row'[o].status = "DELIVERED"
<1>1. InStep /\ [SerialNext]_vars => Forward
  <2> SUFFICES ASSUME InStep, [SerialNext]_vars, NEW o \in Orders
               PROVE  /\ Place(row'[o].status) >= Place(row[o].status)
                      /\ row[o].status = "DELIVERED" => row'[o].status = "DELIVERED"
    OBVIOUS
  <2>1. Place(row[o].status) \in Nat
    <3>1. row[o].status \in Statuses \ {"CREATED"}
      BY DEF InStep, TypeOK, RowsMakeSense, Rows
    <3> QED
      BY <3>1 DEF Statuses, Place
  <2>2. CASE row'[o].status = row[o].status
    BY <2>1, <2>2
  <2>3. CASE <<row[o].status, row'[o].status>> \in Moves
    BY <2>3 DEF Moves, Place
  <2> QED
    BY <2>2, <2>3, StatusMoves
<1>2. InStep /\ [SerialNext]_vars => [Forward]_vars
  BY <1>1
<1> QED
  BY <1>2, CopiesAreCurrent, PTL DEF SerialSpec, StrictlyForward
=============================================================================

------------------------------- MODULE Banners -------------------------------
(***************************************************************************)
(* Banners and what their viewers report of them (BannersService).  A      *)
(* banner is created once and never changed or deleted; it is shown inside *)
(* its window, which time moves past.  A report is a batch of events; it   *)
(* looks up the banners it names, awaits, and inserts all of them in one   *)
(* transaction:                                                            *)
(*                                                                         *)
(*   Reported -> Looked (SELECT) -> Recorded (INSERT, COMMIT)              *)
(***************************************************************************)
EXTENDS Naturals, FiniteSets

CONSTANTS Users,
          Ids,       \* ids of banners, never used twice
          Reports,   \* batches sent, each once
          MaxTime,   \* bound on the time that passes
          MaxBatch,  \* bound on the events of a batch
          Null       \* no time, no user, no answer

ASSUME BannersAssumption == MaxTime \in Nat /\ Null # 201

VARIABLES banners,  \* id -> its row, or Unused
          events,   \* banner_events
          report,   \* coroutines of reports
          now,
          shown     \* banners that some answer has shown

bannerVars == <<banners, events, report, now, shown>>

Unused  == [is |-> "unused"]
NotSent == [phase |-> "not sent"]
Times   == 0 .. MaxTime

Created == {b \in Ids : banners[b] # Unused}

(* An event names a banner and carries a time, with an offset from UTC     *)
(* ("zoned") or without.                                                   *)
Event   == [banner : Ids, zoned : BOOLEAN]
Batches == {batch \in SUBSET Event : Cardinality(batch) <= MaxBatch}

BannersInit ==
  /\ banners = [b \in Ids |-> Unused]
  /\ events = {}
  /\ report = [r \in Reports |-> NotSent]
  /\ now = 0
  /\ shown = {}

(* create_banner; that a window ends before it starts is not refused.      *)
Create(b) ==
  /\ banners[b] = Unused
  /\ \E active \in BOOLEAN, start, end \in Times \cup {Null} :
       banners' = [banners EXCEPT ![b] =
                     [is_active |-> active, start_at |-> start, end_at |-> end]]
  /\ UNCHANGED <<events, report, now, shown>>

(* get_active_banners, in the order of their priorities, which nothing     *)
(* else depends on.                                                        *)
Active(row) ==
  /\ row.is_active
  /\ row.start_at = Null \/ row.start_at <= now
  /\ row.end_at = Null \/ row.end_at >= now

Showing == {b \in Created : Active(banners[b])}

Show ==
  /\ shown' = shown \cup Showing
  /\ UNCHANGED <<banners, events, report, now>>

Tick ==
  /\ now < MaxTime
  /\ now' = now + 1
  /\ UNCHANGED <<banners, events, report, shown>>
-----------------------------------------------------------------------------
Becomes(r, new)    == report' = [report EXCEPT ![r] = new]
Answered(r, status) ==
  Becomes(r, [phase |-> "answered", batch |-> report[r].batch, status |-> status,
              valid |-> report[r].valid])

(* create_banner_events: an empty batch is refused at once (EMPTY_EVENTS). *)
(* "valid" is for properties: every banner had been shown when it was sent.*)
Reported(r, user, batch) ==
  /\ report[r] = NotSent
  /\ LET valid == \A e \in batch : e.banner \in shown
     IN  Becomes(r, IF batch = {}
           THEN [phase |-> "answered", batch |-> batch, status |-> 400, valid |-> FALSE]
           ELSE [phase |-> "look", user |-> user, batch |-> batch, valid |-> valid])
  /\ UNCHANGED <<banners, events, now, shown>>

LookedUnchecked(r) ==
  /\ report[r].phase = "look"
  /\ Becomes(r, [report[r] EXCEPT !.phase = "insert"])
  /\ UNCHANGED <<banners, events, now, shown>>

LookedAmongActive(r) ==
  /\ report[r].phase = "look"
  /\ IF \A e \in report[r].batch : e.banner \in Showing
     THEN Becomes(r, [report[r] EXCEPT !.phase = "insert"])
     ELSE Answered(r, 400)
  /\ UNCHANGED <<banners, events, now, shown>>

(* One banner that does not exist refuses the batch (BANNER_NOT_FOUND).    *)
Looked(r) ==
  /\ report[r].phase = "look"
  /\ IF \A e \in report[r].batch : e.banner \in Created
     THEN Becomes(r, [report[r] EXCEPT !.phase = "insert"])
     ELSE Answered(r, 400)
  /\ UNCHANGED <<banners, events, now, shown>>

RowsOf(r) == {[report |-> r, user |-> report[r].user, banner |-> e.banner] :
                e \in report[r].batch}

RecordedOneByOne(r) ==
  /\ report[r].phase = "insert"
  /\ events' = events \cup {[report |-> r, user |-> report[r].user, banner |-> e.banner] :
                              e \in {f \in report[r].batch : ~f.zoned}}
  /\ Answered(r, IF \E e \in report[r].batch : e.zoned THEN 500 ELSE 201)
  /\ UNCHANGED <<banners, now, shown>>

(* One transaction.  A time with an offset does not fit the column, which  *)
(* is without time zone: the INSERT raises, and the answer is a 500.       *)
Recorded(r) ==
  /\ report[r].phase = "insert"
  /\ IF \E e \in report[r].batch : e.zoned
     THEN Answered(r, 500) /\ UNCHANGED events
     ELSE events' = events \cup RowsOf(r) /\ Answered(r, 201)
  /\ UNCHANGED <<banners, now, shown>>

(* The process stops, or loses the database, before the transaction is     *)
(* committed, or after it and before the answer.                           *)
Stopped(r) ==
  /\ report[r].phase \in {"look", "insert"}
  /\ Answered(r, Null)
  /\ \/ UNCHANGED events
     \/ /\ report[r].phase = "insert" /\ \A e \in report[r].batch : ~e.zoned
        /\ events' = events \cup RowsOf(r)
  /\ UNCHANGED <<banners, now, shown>>

BannersNext ==
  \/ \E b \in Ids : Create(b)
  \/ Show
  \/ Tick
  \/ \E r \in Reports, user \in Users \cup {Null}, batch \in Batches : Reported(r, user, batch)
  \/ \E r \in Reports : Looked(r) \/ Recorded(r) \/ Stopped(r)

BannersSpec == BannersInit /\ [][BannersNext]_bannerVars
-----------------------------------------------------------------------------
Row == [is_active : BOOLEAN, start_at : Times \cup {Null}, end_at : Times \cup {Null}]
StoredEvent == [report : Reports, user : Users \cup {Null}, banner : Ids]

(* Events refer to banners that exist (the foreign key), and windows are   *)
(* pairs of times or open ends.                                            *)
BannersTypeOK ==
  /\ banners \in [Ids -> Row \cup {Unused}]
  /\ events \subseteq StoredEvent
  /\ \A e \in events : e.banner \in Created
  /\ \A r \in Reports : report[r].phase \in {"not sent", "look", "insert", "answered"}
  /\ now \in Times
  /\ shown \subseteq Created

(* A viewer who reports only what was shown, in times the column takes, is *)
(* never told that a banner is unknown or that the server failed, however  *)
(* late the report: a click after the window has closed still counts.      *)
LateClicksCount ==
  \A r \in Reports :
    report[r].phase = "answered" /\ report[r].valid /\ report[r].batch # {}
      /\ (\A e \in report[r].batch : ~e.zoned) => report[r].status \in {201, Null}

(* A batch is stored whole or not at all, wherever the process stops: whole*)
(* if the answer was 201, not at all if it was any other.                  *)
WholeOrNothing ==
  \A r \in Reports :
    LET stored == {e.banner : e \in {f \in events : f.report = r}}
        batch  == {e.banner : e \in report[r].batch}
    IN  IF report[r].phase # "answered" THEN stored = {}
        ELSE IF report[r].status = 201 THEN stored = batch
        ELSE IF report[r].status = Null THEN stored \in {{}, batch}
        ELSE stored = {}
=============================================================================

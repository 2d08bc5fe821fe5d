---------------------------- MODULE BannersProofs ---------------------------
(***************************************************************************)
(* Theorems about Banners for any users, banners and reports, and however  *)
(* late a report is.  The invariant Counting is the conjunction of         *)
(*   Shaped    the shape of every variable; what has been shown exists,    *)
(*             and so does what stored events refer to,                    *)
(*   Viewed    a report made of what was shown is still that when it is    *)
(*             looked up: banners are never deleted,                       *)
(*   Checked   what is about to be inserted exists,                        *)
(*   Untouched a report that is not answered yet has stored nothing.       *)
(***************************************************************************)
EXTENDS Banners, TLAPS

Pending == [phase : {"look", "insert"}, user : Users \cup {Null}, batch : Batches,
            valid : BOOLEAN]
Closed  == [phase : {"answered"}, batch : Batches, status : {201, 400, 500, Null},
            valid : BOOLEAN]

Shaped ==
  /\ banners \in [Ids -> Row \cup {Unused}]
  /\ events \subseteq StoredEvent
  /\ \A e \in events : e.banner \in Created
  /\ report \in [Reports -> {NotSent} \cup Pending \cup Closed]
  /\ now \in Times
  /\ shown \subseteq Created

Viewed == \A r \in Reports :
  report[r].phase = "look" /\ report[r].valid = TRUE =>
    \A e \in report[r].batch : e.banner \in shown

Checked == \A r \in Reports :
  report[r].phase = "insert" => \A e \in report[r].batch : e.banner \in Created

Untouched == \A r \in Reports :
  report[r].phase # "answered" => \A e \in events : e.report # r

Counting == Shaped /\ Viewed /\ Checked /\ Untouched /\ LateClicksCount

LEMMA NotSentPhase == NotSent.phase = "not sent"
BY DEF NotSent

(* A report in flight is one that was sent.                                *)
LEMMA InFlightIsPending ==
  ASSUME Counting, NEW r \in Reports, report[r].phase \in {"look", "insert"}
  PROVE  report[r] \in Pending
<1>1. report[r] \in {NotSent} \cup Pending \cup Closed
  BY DEF Counting, Shaped
<1>2. report[r] # NotSent
  BY NotSentPhase
<1>3. report[r] \notin Closed
  BY DEF Closed
<1>. QED  BY <1>1, <1>2, <1>3

(* A step of one report that stores nothing.                               *)
LEMMA StepCounts ==
  ASSUME Counting, NEW r \in Reports, NEW new \in Pending \cup Closed,
         report[r].phase # "answered", Becomes(r, new),
         UNCHANGED <<banners, events, now, shown>>,
         new.phase = "look" /\ new.valid = TRUE =>
           \A e \in new.batch : e.banner \in shown,
         new.phase = "insert" => \A e \in new.batch : e.banner \in Created,
         /\ new.phase = "answered" /\ new.valid = TRUE /\ new.batch # {}
         /\ \A e \in new.batch : ~e.zoned
         => new.status \in {201, Null}
  PROVE  Counting'
<1>1. /\ report' \in [Reports -> {NotSent} \cup Pending \cup Closed]
      /\ report'[r] = new
      /\ \A q \in Reports \ {r} : report'[q] = report[q]
  BY DEF Counting, Shaped, Becomes
<1>2. Created' = Created
  BY DEF Created
<1>3. Shaped'
  BY <1>1, <1>2 DEF Counting, Shaped
<1>4. Viewed'
  BY <1>1 DEF Counting, Viewed
<1>5. Checked'
  BY <1>1, <1>2 DEF Counting, Checked
<1>6. Untouched'
  BY <1>1 DEF Counting, Untouched
<1>7. LateClicksCount'
  BY <1>1 DEF Counting, LateClicksCount
<1>. QED  BY <1>3, <1>4, <1>5, <1>6, <1>7 DEF Counting

LEMMA InitCounts ==
  BannersInit => Counting
<1>. SUFFICES ASSUME BannersInit PROVE Counting
  OBVIOUS
<1>1. \A r \in Reports : report[r] = NotSent /\ report[r].phase = "not sent"
  BY NotSentPhase DEF BannersInit
<1>2. Shaped
  BY BannersAssumption DEF BannersInit, Shaped, Times
<1>3. Viewed /\ Checked /\ LateClicksCount
  BY <1>1 DEF Viewed, Checked, LateClicksCount
<1>4. Untouched
  BY DEF BannersInit, Untouched
<1>. QED  BY <1>2, <1>3, <1>4 DEF Counting

(* Banners come and are shown, time passes; none of it takes a banner away.*)
LEMMA ShopCounts ==
  ASSUME Counting,
         (\E b \in Ids : Create(b)) \/ Show \/ Tick
  PROVE  Counting'
<1>1. UNCHANGED <<events, report>>
  BY DEF Create, Show, Tick
<1>2. Created \subseteq Created'
  BY DEF Create, Show, Tick, Created, Counting, Shaped
<1>3. banners' \in [Ids -> Row \cup {Unused}]
  BY DEF Create, Show, Tick, Counting, Shaped, Row
<1>4. now' \in Times
  BY BannersAssumption DEF Create, Show, Tick, Counting, Shaped, Times
<1>5. shown \subseteq shown' /\ shown' \subseteq Created'
  BY <1>2 DEF Create, Show, Tick, Counting, Shaped, Showing
<1>6. Shaped'
  BY <1>1, <1>2, <1>3, <1>4, <1>5 DEF Counting, Shaped
<1>7. Viewed' /\ Checked' /\ Untouched' /\ LateClicksCount'
  BY <1>1, <1>2, <1>5 DEF Counting, Viewed, Checked, Untouched, LateClicksCount
<1>. QED  BY <1>6, <1>7 DEF Counting

LEMMA ReportedCounts ==
  ASSUME Counting, NEW r \in Reports, NEW user \in Users \cup {Null}, NEW batch \in Batches,
         Reported(r, user, batch)
  PROVE  Counting'
<1>. DEFINE shownAll == \A e \in batch : e.banner \in shown
            refused == [phase |-> "answered", batch |-> batch, status |-> 400, valid |-> FALSE]
            pending == [phase |-> "look", user |-> user, batch |-> batch, valid |-> shownAll]
<1>1. report[r].phase # "answered"
  BY NotSentPhase DEF Reported
<1>2. CASE batch = {}
  <2>1. refused \in Closed /\ refused.phase = "answered" /\ refused.valid = FALSE
    BY DEF Closed
  <2>2. Becomes(r, refused)
    BY <1>2 DEF Reported
  <2>. QED  BY <1>1, <2>1, <2>2, StepCounts DEF Reported
<1>3. CASE batch # {}
  <2>1. shownAll \in BOOLEAN
    OBVIOUS
  <2>2. pending \in Pending /\ pending.phase = "look"
        /\ pending.batch = batch /\ pending.valid = shownAll
    BY <2>1 DEF Pending
  <2>3. pending.valid = TRUE => \A e \in pending.batch : e.banner \in shown
    BY <2>2
  <2>4. Becomes(r, pending)
    BY <1>3 DEF Reported
  <2>. QED  BY <1>1, <2>2, <2>3, <2>4, StepCounts DEF Reported
<1>. QED  BY <1>2, <1>3

(* What an answer is made of.                                              *)
LEMMA AnsweredIsClosed ==
  ASSUME Counting, NEW r \in Reports, report[r].phase \in {"look", "insert"},
         NEW status \in {201, 400, 500, Null}, NEW new,
         new = [phase |-> "answered", batch |-> report[r].batch, status |-> status,
                valid |-> report[r].valid]
  PROVE  /\ new \in Closed /\ new.phase = "answered" /\ new.status = status
         /\ new.batch = report[r].batch /\ new.valid = report[r].valid
         /\ report[r] \in Pending
         /\ \A e \in report[r].batch : e \in Event
<1>1. report[r] \in Pending
  BY InFlightIsPending
<1>2. report[r].batch \in Batches /\ report[r].valid \in BOOLEAN
  BY <1>1 DEF Pending
<1>. QED  BY <1>1, <1>2 DEF Closed, Batches

LEMMA LookedCounts ==
  ASSUME Counting, NEW r \in Reports, Looked(r)
  PROVE  Counting'
<1>1. report[r] \in Pending /\ report[r].phase = "look"
  BY InFlightIsPending DEF Looked
<1>2. CASE \A e \in report[r].batch : e.banner \in Created
  <2>. DEFINE new == [report[r] EXCEPT !.phase = "insert"]
  <2>1. new \in Pending /\ new.phase = "insert" /\ new.batch = report[r].batch
    BY <1>1 DEF Pending
  <2>2. Becomes(r, new)
    BY <1>2 DEF Looked
  <2>. QED  BY <1>1, <1>2, <2>1, <2>2, StepCounts DEF Looked
<1>3. CASE ~\A e \in report[r].batch : e.banner \in Created
  <2>. DEFINE new == [phase |-> "answered", batch |-> report[r].batch, status |-> 400,
                      valid |-> report[r].valid]
  <2>1. new \in Closed /\ new.phase = "answered" /\ new.batch = report[r].batch
        /\ new.valid = report[r].valid
    BY <1>1, AnsweredIsClosed
  <2>2. ~(report[r].valid = TRUE)
    BY <1>1, <1>3 DEF Counting, Viewed, Shaped
  <2>3. Becomes(r, new)
    BY <1>3 DEF Looked, Answered
  <2>. QED  BY <1>1, <2>1, <2>2, <2>3, StepCounts DEF Looked
<1>. QED  BY <1>2, <1>3

(* The rows of a report are events of it, for banners that exist.          *)
LEMMA RowsAreStored ==
  ASSUME Counting, NEW r \in Reports, report[r].phase = "insert"
  PROVE  /\ RowsOf(r) \subseteq StoredEvent
         /\ \A e \in RowsOf(r) : e.banner \in Created /\ e.report = r
         /\ {e.banner : e \in RowsOf(r)} = {e.banner : e \in report[r].batch}
<1>1. report[r] \in Pending
  BY InFlightIsPending
<1>2. report[r].user \in Users \cup {Null} /\ report[r].batch \subseteq Event
  BY <1>1 DEF Pending, Batches
<1>3. \A e \in report[r].batch : e.banner \in Ids /\ e.banner \in Created
  BY <1>2 DEF Counting, Checked, Event
<1>4. \A f : f \in RowsOf(r) <=> \E e \in report[r].batch :
               f = [report |-> r, user |-> report[r].user, banner |-> e.banner]
  BY DEF RowsOf
<1>5. \A e \in report[r].batch :
        LET f == [report |-> r, user |-> report[r].user, banner |-> e.banner]
        IN  f \in StoredEvent /\ f.report = r /\ f.banner = e.banner
  BY <1>2, <1>3 DEF StoredEvent
<1>6. RowsOf(r) \subseteq StoredEvent
  BY <1>4, <1>5
<1>7. \A e \in RowsOf(r) : e.banner \in Created /\ e.report = r
  BY <1>3, <1>4, <1>5
<1>8. {e.banner : e \in RowsOf(r)} = {e.banner : e \in report[r].batch}
  <2>1. \A f \in RowsOf(r) : \E e \in report[r].batch : f.banner = e.banner
    BY <1>4
  <2>2. ASSUME NEW e \in report[r].batch
        PROVE  \E f \in RowsOf(r) : f.banner = e.banner
    <3>. DEFINE f == [report |-> r, user |-> report[r].user, banner |-> e.banner]
    <3>1. f \in RowsOf(r) /\ f.banner = e.banner
      BY DEF RowsOf
    <3>. QED  BY <3>1
  <2>. QED  BY <2>1, <2>2
<1>. QED  BY <1>6, <1>7, <1>8

(* An answer that stores the rows of a report.                             *)
LEMMA StoringCounts ==
  ASSUME Counting, NEW r \in Reports, report[r].phase = "insert",
         NEW status \in {201, Null}, Answered(r, status),
         events' = events \cup RowsOf(r), UNCHANGED <<banners, now, shown>>
  PROVE  Counting'
<1>. DEFINE new == [phase |-> "answered", batch |-> report[r].batch, status |-> status,
                    valid |-> report[r].valid]
<1>1. /\ new \in Closed /\ new.phase = "answered" /\ new.status = status
      /\ new.batch = report[r].batch
  BY AnsweredIsClosed
<1>2. Becomes(r, new)
  BY DEF Answered
<1>. HIDE DEF new
<1>3. /\ report' \in [Reports -> {NotSent} \cup Pending \cup Closed]
      /\ report'[r] = new
      /\ \A q \in Reports \ {r} : report'[q] = report[q]
  BY <1>1, <1>2 DEF Counting, Shaped, Becomes
<1>4. Created' = Created
  BY DEF Created
<1>5. Shaped'
  BY <1>3, <1>4, RowsAreStored DEF Counting, Shaped
<1>6. Viewed'
  BY <1>1, <1>3 DEF Counting, Viewed
<1>7. Checked'
  BY <1>1, <1>3, <1>4 DEF Counting, Checked
<1>8. Untouched'
  BY <1>1, <1>3, RowsAreStored DEF Counting, Untouched
<1>9. LateClicksCount'
  BY <1>1, <1>3 DEF Counting, LateClicksCount
<1>. QED  BY <1>5, <1>6, <1>7, <1>8, <1>9 DEF Counting

(* An answer that stores nothing, where it may be what it is.              *)
LEMMA ClosingCounts ==
  ASSUME Counting, NEW r \in Reports, report[r].phase \in {"look", "insert"},
         NEW status \in {500, Null}, Answered(r, status),
         status = Null \/ \E e \in report[r].batch : e.zoned,
         UNCHANGED <<banners, events, now, shown>>
  PROVE  Counting'
<1>. DEFINE new == [phase |-> "answered", batch |-> report[r].batch, status |-> status,
                    valid |-> report[r].valid]
<1>1. /\ new \in Closed /\ new.phase = "answered" /\ new.status = status
      /\ new.batch = report[r].batch
  BY AnsweredIsClosed
<1>2. Becomes(r, new)
  BY DEF Answered
<1>. HIDE DEF new
<1>3. (\A e \in new.batch : ~e.zoned) => new.status \in {201, Null}
  BY <1>1
<1>. QED  BY <1>1, <1>2, <1>3, StepCounts

LEMMA RecordedCounts ==
  ASSUME Counting, NEW r \in Reports, Recorded(r)
  PROVE  Counting'
BY StoringCounts, ClosingCounts DEF Recorded

LEMMA StoppedCounts ==
  ASSUME Counting, NEW r \in Reports, Stopped(r)
  PROVE  Counting'
<1>1. CASE UNCHANGED events
  BY <1>1, ClosingCounts DEF Stopped
<1>2. CASE report[r].phase = "insert" /\ events' = events \cup RowsOf(r)
  BY <1>2, StoringCounts DEF Stopped
<1>. QED  BY <1>1, <1>2 DEF Stopped

LEMMA NextCounts ==
  ASSUME Counting, [BannersNext]_bannerVars
  PROVE  Counting'
<1>1. CASE UNCHANGED bannerVars
  BY <1>1 DEF bannerVars, Counting, Shaped, Viewed, Checked, Untouched, LateClicksCount, Created
<1>2. CASE BannersNext
  BY <1>2, ShopCounts, ReportedCounts, LookedCounts, RecordedCounts, StoppedCounts DEF BannersNext
<1>. QED  BY <1>1, <1>2

THEOREM AlwaysCounting == BannersSpec => []Counting
BY InitCounts, NextCounts, PTL DEF BannersSpec

(* Stored events refer to banners that exist, and have the shape the code  *)
(* gives them.                                                             *)
THEOREM TypeCorrect == BannersSpec => []BannersTypeOK
<1>1. Counting => BannersTypeOK
  <2>. SUFFICES ASSUME Counting PROVE BannersTypeOK
    OBVIOUS
  <2>1. \A r \in Reports : report[r].phase \in {"not sent", "look", "insert", "answered"}
    BY NotSentPhase DEF Counting, Shaped, Pending, Closed
  <2>. QED  BY <2>1 DEF Counting, Shaped, BannersTypeOK
<1>. QED  BY <1>1, AlwaysCounting, PTL

(* A viewer who reports only what was shown, in times the column takes, is *)
(* not told that a banner is unknown or that the server failed, however    *)
(* late the report is.                                                     *)
THEOREM LateClicksAlwaysCount == BannersSpec => []LateClicksCount
<1>1. Counting => LateClicksCount
  BY DEF Counting
<1>. QED  BY <1>1, AlwaysCounting, PTL
-----------------------------------------------------------------------------

(* What a report has stored, by a set of events, and how it must stand to  *)
(* the report's record.                                                    *)
StoredOf(rows, r) == {e.banner : e \in {f \in rows : f.report = r}}
WholeFor(stored, record) ==
  LET batch == {e.banner : e \in record.batch}
  IN  IF record.phase # "answered" THEN stored = {}
      ELSE IF record.status = 201 THEN stored = batch
      ELSE IF record.status = Null THEN stored \in {{}, batch}
      ELSE stored = {}

LEMMA WholeForEach ==
  WholeOrNothing <=> \A r \in Reports : WholeFor(StoredOf(events, r), report[r])
BY DEF WholeOrNothing, WholeFor, StoredOf

(* A step of a report that stores nothing and is not answered 201.         *)
LEMMA NothingIsWhole ==
  ASSUME Counting, WholeOrNothing, NEW r \in Reports, report[r].phase # "answered",
         events' = events,
         report'[r].phase = "answered" => report'[r].status # 201,
         \A q \in Reports \ {r} : report'[q] = report[q]
  PROVE  WholeOrNothing'
<1>1. StoredOf(events, r) = {}
  BY DEF Counting, Untouched, StoredOf
<1>2. WholeFor({}, report'[r])
  BY DEF WholeFor
<1>3. \A q \in Reports : WholeFor(StoredOf(events', q), report'[q])
  BY <1>1, <1>2, WholeForEach
<1>. QED  BY <1>3 DEF WholeOrNothing, WholeFor, StoredOf

(* A step of a report that stores all of its rows.                         *)
LEMMA AllIsWhole ==
  ASSUME Counting, WholeOrNothing, NEW r \in Reports, report[r].phase = "insert",
         NEW status \in {201, Null}, Answered(r, status), events' = events \cup RowsOf(r)
  PROVE  WholeOrNothing'
<1>1. /\ report'[r].phase = "answered" /\ report'[r].status = status
      /\ report'[r].batch = report[r].batch
      /\ \A q \in Reports \ {r} : report'[q] = report[q]
  BY DEF Answered, Becomes, Counting, Shaped
<1>2. \A e \in events : e.report # r
  BY DEF Counting, Untouched
<1>3. \A e \in RowsOf(r) : e.report = r
  BY RowsAreStored
<1>4. {f \in events' : f.report = r} = RowsOf(r)
  BY <1>2, <1>3
<1>5. StoredOf(events', r) = {e.banner : e \in report'[r].batch}
  BY <1>1, <1>4, RowsAreStored DEF StoredOf
<1>6. \A q \in Reports \ {r} : {f \in events' : f.report = q} = {f \in events : f.report = q}
  BY <1>3
<1>7. \A q \in Reports \ {r} : StoredOf(events', q) = StoredOf(events, q)
  BY <1>6 DEF StoredOf
<1>8. WholeFor(StoredOf(events', r), report'[r])
  BY <1>1, <1>5 DEF WholeFor
<1>9. \A q \in Reports : WholeFor(StoredOf(events', q), report'[q])
  BY <1>1, <1>7, <1>8, WholeForEach
<1>. QED  BY <1>9 DEF WholeOrNothing, WholeFor, StoredOf

(* What an answer leaves in the report's record.                           *)
LEMMA AnswerRecorded ==
  ASSUME Counting, NEW r \in Reports, NEW status, Answered(r, status)
  PROVE  /\ report'[r].phase = "answered" /\ report'[r].status = status
         /\ \A q \in Reports \ {r} : report'[q] = report[q]
BY DEF Answered, Becomes, Counting, Shaped

LEMMA StepIsWhole ==
  ASSUME Counting, WholeOrNothing, [BannersNext]_bannerVars
  PROVE  WholeOrNothing'
<1>1. CASE (\E b \in Ids : Create(b)) \/ Show \/ Tick \/ UNCHANGED bannerVars
  <2>1. UNCHANGED <<events, report>>
    BY <1>1 DEF Create, Show, Tick, bannerVars
  <2>. QED  BY <2>1 DEF WholeOrNothing
<1>2. ASSUME NEW r \in Reports, NEW user \in Users \cup {Null}, NEW batch \in Batches,
             Reported(r, user, batch)
      PROVE  WholeOrNothing'
  <2>1. report[r].phase # "answered"
    BY <1>2, NotSentPhase DEF Reported
  <2>2. report'[r].phase = "answered" => report'[r].status = 400
    BY <1>2 DEF Reported, Becomes, Counting, Shaped
  <2>3. \A q \in Reports \ {r} : report'[q] = report[q]
    BY <1>2 DEF Reported, Becomes, Counting, Shaped
  <2>. QED  BY <1>2, <2>1, <2>2, <2>3, NothingIsWhole DEF Reported
<1>3. ASSUME NEW r \in Reports, Looked(r)
      PROVE  WholeOrNothing'
  <2>1. CASE Becomes(r, [report[r] EXCEPT !.phase = "insert"])
    <3>1. report[r] \in Pending
      BY <1>3, InFlightIsPending DEF Looked
    <3>2. [report[r] EXCEPT !.phase = "insert"].phase = "insert"
      BY <3>1 DEF Pending
    <3>3. report'[r].phase = "insert" /\ \A q \in Reports \ {r} : report'[q] = report[q]
      BY <2>1, <3>2 DEF Becomes, Counting, Shaped
    <3>. QED  BY <1>3, <3>3, NothingIsWhole DEF Looked
  <2>2. CASE Answered(r, 400)
    BY <1>3, <2>2, AnswerRecorded, NothingIsWhole DEF Looked
  <2>. QED  BY <1>3, <2>1, <2>2 DEF Looked
<1>4. ASSUME NEW r \in Reports, Recorded(r)
      PROVE  WholeOrNothing'
  <2>1. CASE Answered(r, 500) /\ UNCHANGED events
    BY <1>4, <2>1, AnswerRecorded, NothingIsWhole DEF Recorded
  <2>2. CASE events' = events \cup RowsOf(r) /\ Answered(r, 201)
    BY <1>4, <2>2, AllIsWhole DEF Recorded
  <2>. QED  BY <1>4, <2>1, <2>2 DEF Recorded
<1>5. ASSUME NEW r \in Reports, Stopped(r)
      PROVE  WholeOrNothing'
  <2>1. CASE UNCHANGED events
    BY <1>5, <2>1, AnswerRecorded, NothingIsWhole, BannersAssumption DEF Stopped
  <2>2. CASE report[r].phase = "insert" /\ events' = events \cup RowsOf(r)
    BY <1>5, <2>2, AllIsWhole DEF Stopped
  <2>. QED  BY <1>5, <2>1, <2>2 DEF Stopped
<1>. QED  BY <1>1, <1>2, <1>3, <1>4, <1>5 DEF BannersNext

(* A batch is stored whole if the answer was 201, not at all if it was any *)
(* other, and one or the other if the process stopped and gave none (Null, *)
(* which is no status).                                                    *)
THEOREM BatchesAreWhole == BannersSpec => []WholeOrNothing
<1>1. BannersInit => WholeOrNothing
  <2>. SUFFICES ASSUME BannersInit PROVE WholeOrNothing
    OBVIOUS
  <2>1. \A r \in Reports : report[r].phase = "not sent" /\ {f \in events : f.report = r} = {}
    BY NotSentPhase DEF BannersInit
  <2>. QED  BY <2>1 DEF WholeOrNothing
<1>2. Counting /\ WholeOrNothing /\ [BannersNext]_bannerVars => WholeOrNothing'
  BY StepIsWhole
<1>. QED  BY <1>1, <1>2, AlwaysCounting, PTL DEF BannersSpec
=============================================================================

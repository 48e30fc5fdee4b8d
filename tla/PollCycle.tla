----------------------------- MODULE PollCycle -----------------------------
(***************************************************************************)
(* tracker.poll_once and tracker._poll_airtag: the polls of the scheduler  *)
(* thread, of the dashboard's "refresh now" and of the command line, with  *)
(* the reports and alerts they write to Postgres.                          *)
(*                                                                         *)
(* Every function of db.py commits on its own, and the calls to Apple and  *)
(* to the notifiers take real time, so a poll is a sequence of steps: one  *)
(* per commit or network call.  The queries a step makes before its commit *)
(* are part of the step.                                                   *)
(*                                                                         *)
(* Abstractions.  One setting record, Cfg, holds throughout.  The owner    *)
(* device phase of a poll (module OwnerDevices) is one step that may       *)
(* record a reading of the primary device, or raise.  The session file is  *)
(* module AppleSession's: whether it exists is a choice here.              *)
(***************************************************************************)
EXTENDS Readings

CONSTANTS
    Pollers,        \* threads that may run poll_once
    Processes,
    ProcessOf,      \* the process each poller runs in
    AirTags,
    Times,          \* the timestamps, 0 .. MaxTime
    MaxTime,        \* bound: the clock stops there
    AppleReports,   \* per AirTag, every report Apple may come to hold
    HistoryWindow,  \* how long Apple answers with a report
    OwnerTrack,     \* where the primary device is at each time
    AwayAlertFor,   \* the AirTags with away_alert_enabled
    NamedPlaces,    \* positions within a named place's radius
    Cfg,
    NotifyOn,       \* alert reasons with their notify_on_* switch on
    Faults          \* what may go wrong in this instance

ASSUME PollersAssumption == ProcessOf \in [Pollers -> Processes]
ASSUME NoneAssumption == None \notin Pollers
ASSUME TimesAssumption == MaxTime \in Nat /\ Times = 0 .. MaxTime
ASSUME AirTagsAssumption == IsFiniteSet(AirTags)
ASSUME ReportsAssumption == \A a \in AirTags : \A r \in AppleReports[a] : r.t \in Times
ASSUME WindowAssumption == HistoryWindow \in Nat
ASSUME FaultsAssumption == Faults \subseteq {"crash", "database", "apple", "late"}

VARIABLES
    lock,       \* per process: the holder of _poll_lock
    pc,         \* per poller: the next step of poll_once
    poll,       \* per poller: the local variables of its poll
    airtags,    \* per AirTag: its row in airtags
    stored,     \* per AirTag: its rows in location_reports
    alerts,     \* per AirTag, timestamp and reason: the number of alerts rows
    pushed,     \* the notifications sent: <<AirTag, timestamp, reason>>
    owner,      \* the primary device's rows in owner_device_locations
    apple,      \* per AirTag: the reports Apple has held so far
    now

vars == <<lock, pc, poll, airtags, stored, alerts, pushed, owner, apple, now>>
-----------------------------------------------------------------------------
MovementReasons == {"distance_threshold", "stillstand_movement"}

AwayReasons == {"left_behind", "autonomous_movement"}

Reasons == MovementReasons \cup AwayReasons

(* fetch_reports_before: the kept reports of an AirTag before a time.  Two *)
(* rows never share a timestamp, so there is only one order.               *)
ReportsBefore(a, t) ==
    CHOOSE s \in InTimeOrder({r \in stored[a] : r.t < t /\ ~r.isOutlier}) : TRUE

(* The reading a live fetch of the owner's devices records.                *)
ReadingAt(t) == [t |-> t, pos |-> OwnerTrack[t], acc |-> None, conf |-> None]

FreshReading == ReadingAt(now)

(* The row of a report: dataclasses.replace with its flag.                 *)
Row(report, isOutlier) ==
    [t |-> report.t, pos |-> report.pos, acc |-> report.acc, conf |-> report.conf,
     isOutlier |-> isOutlier]

ASSUME RowsAssumption ==
    \A a \in AirTags : \A r \in AppleReports[a] : None \notin {r, Row(r, TRUE), Row(r, FALSE)}

(* The flagging loop: each report of the batch is compared with the last   *)
(* one that was kept, starting from what is stored before the batch.       *)
FlagOutliers(batch, baseline) ==
    LET kept[i \in 0 .. Len(batch)] ==
          IF i = 0 THEN baseline
          ELSE IF IsSpeedOutlier(batch[i], kept[i - 1], Cfg)
               THEN kept[i - 1]
               ELSE batch[i]
    IN  [i \in 1 .. Len(batch) |-> Row(batch[i], IsSpeedOutlier(batch[i], kept[i - 1], Cfg))]

(* insert_reports: ON CONFLICT (airtag_id, timestamp) DO NOTHING, so of    *)
(* two reports with one timestamp the first of the batch is inserted.      *)
NewlyInserted(a, batch) ==
    {i \in DOMAIN batch : /\ \A r \in stored[a] : r.t # batch[i].t
                          /\ \A j \in 1 .. i - 1 : batch[j].t # batch[i].t}

(* Apple answers with the reports of the last days (README.md:267).        *)
Answer(a) == {x \in apple[a] : now =< x.t + HistoryWindow}

(* fetch_location_history, sorted by timestamp.                            *)
History(a) == InTimeOrder(Answer(a))

(* A mutant: the answer is flagged as if nothing came before it.           *)
NoBaseline(a, t) == None

(* The report that the first of the answer is compared with: the last one  *)
(* kept of those that Apple no longer answers with.                        *)
Baseline(a, t) == LastOf(ReportsBefore(a, t))

(* A mutant: ON CONFLICT DO UPDATE, a newer verdict on a report wins.      *)
Upserted(a, batch) ==
    {r \in stored[a] : \A i \in DOMAIN batch : batch[i].t # r.t}
      \cup {batch[i] : i \in DOMAIN batch}

(* The rows of an AirTag after an insert.                                  *)
Inserted(a, batch) ==
    stored[a] \cup {batch[i] : i \in NewlyInserted(a, batch)}

(* Mutants: the backfill is evaluated; only the newest report is.          *)
EvaluateBackfill(newReports, wasEmpty) == newReports

EvaluateNewest(newReports, wasEmpty) ==
    IF newReports = <<>> \/ (wasEmpty /\ ~Cfg.alertOnBackfill)
    THEN <<>>
    ELSE <<LastOf(newReports)>>

(* The new reports to evaluate: none of a backfill, unless it is switched  *)
(* on.                                                                     *)
ToEvaluate(newReports, wasEmpty) ==
    IF wasEmpty /\ ~Cfg.alertOnBackfill THEN <<>> ELSE newReports

(* Reports that raise no alert.                                            *)
Untrusted(report) == report.isOutlier \/ IsLowConfidence(report, Cfg)

(* A mutant: every report that is away is an alert.                        *)
NeverAlreadyAway(previous, near) == FALSE

(* The transition check: was the tag away at its previous report?          *)
AlreadyAway(previous, near) == previous # None /\ IsAway(previous, near, Cfg)

IdlePoll == [queue |-> <<>>, batch |-> <<>>, wasEmpty |-> FALSE, todo |-> <<>>,
             previous |-> None, ownerLocation |-> None, reason |-> None,
             aborted |-> FALSE]

Current(p) == Head(poll[p].queue)

Report(p) == Head(poll[p].todo)

Goto(p, step) == pc' = [pc EXCEPT ![p] = step]

At(p, step) == pc[p] = step

dbVars == <<airtags, stored, alerts>>

worldVars == <<apple, now>>
-----------------------------------------------------------------------------
Init ==
    /\ lock = [x \in Processes |-> None]
    /\ pc = [p \in Pollers |-> "idle"]
    /\ poll = [p \in Pollers |-> IdlePoll]
    /\ airtags = [a \in AirTags |-> "enabled"]
    /\ stored = [a \in AirTags |-> {}]
    /\ alerts = [a \in AirTags |-> [x \in Times \X Reasons |-> 0]]
    /\ pushed = {}
    /\ owner = {}
    /\ apple = [a \in AirTags |-> {}]
    /\ now = 0

(* A mutant: the poll does not mind the lock.                              *)
AcquireRegardless(p) ==
    /\ At(p, "idle")
    /\ lock' = [lock EXCEPT ![ProcessOf[p]] = p]
    /\ Goto(p, "owner")
    /\ UNCHANGED <<poll, dbVars, pushed, owner, worldVars>>

(* The non-blocking acquire.  A poller that finds the lock held returns    *)
(* False and changes nothing.                                              *)
Acquire(p) ==
    /\ At(p, "idle")
    /\ lock[ProcessOf[p]] = None
    /\ lock' = [lock EXCEPT ![ProcessOf[p]] = p]
    /\ Goto(p, "owner")
    /\ UNCHANGED <<poll, dbVars, pushed, owner, worldVars>>

(* _update_owner_devices and _evaluate_device_away_alerts: a failed fetch  *)
(* records nothing; a failed write leaves poll_once.                       *)
OwnerPhase(p) ==
    /\ At(p, "owner")
    /\ \/ owner' = owner \cup {FreshReading} /\ Goto(p, "list")
       \/ "apple" \in Faults /\ UNCHANGED owner /\ Goto(p, "list")
       \/ "database" \in Faults /\ UNCHANGED owner /\ Goto(p, "release")
    /\ UNCHANGED <<lock, poll, dbVars, pushed, worldVars>>

(* is_connected, restore_account and list_airtags(only_enabled).           *)
ListAirtags(p) ==
    /\ At(p, "list")
    /\ \/ /\ \E q \in [1 .. Cardinality({a \in AirTags : airtags[a] = "enabled"})
                         -> {a \in AirTags : airtags[a] = "enabled"}] :
               /\ \A i, j \in DOMAIN q : i # j => q[i] # q[j]
               /\ poll' = [poll EXCEPT ![p].queue = q]
          /\ Goto(p, "airtag")
       \/ "apple" \in Faults /\ UNCHANGED poll /\ Goto(p, "release")
    /\ UNCHANGED <<lock, dbVars, pushed, owner, worldVars>>

(* The head of _poll_airtag: Apple's history of the AirTag, sorted, with   *)
(* its outliers flagged, and whether anything is stored yet.               *)
FetchHistory(p) ==
    /\ At(p, "airtag")
    /\ poll[p].queue # <<>>
    /\ ~poll[p].aborted
    /\ LET a == Current(p)
       IN  IF Answer(a) = {}
           THEN UNCHANGED poll /\ Goto(p, "save")
           ELSE /\ \E s \in History(a) :
                     poll' = [poll EXCEPT
                       ![p].batch = FlagOutliers(s, Baseline(a, s[1].t)),
                       ![p].wasEmpty = (stored[a] = {})]
                /\ Goto(p, "insert")
    /\ UNCHANGED <<lock, dbVars, pushed, owner, worldVars>>

(* No key, or Apple does not answer; or the connection is still in a       *)
(* transaction that an earlier error aborted, since nothing rolls it back. *)
FetchFails(p) ==
    /\ At(p, "airtag")
    /\ poll[p].queue # <<>>
    /\ poll[p].aborted \/ "apple" \in Faults
    /\ Goto(p, "save")
    /\ UNCHANGED <<lock, poll, dbVars, pushed, owner, worldVars>>

(* An exception leaves _poll_airtag: what is left of the batch is dropped. *)
Abandon(p) ==
    /\ poll' = [poll EXCEPT ![p] = [IdlePoll EXCEPT !.queue = poll[p].queue,
                                                    !.aborted = TRUE]]
    /\ Goto(p, "save")

(* insert_reports, in one transaction.  The rows of a deleted AirTag       *)
(* violate the foreign key.                                                *)
InsertReports(p) ==
    /\ At(p, "insert")
    /\ LET a == Current(p)
           batch == poll[p].batch
           rows == {batch[i] : i \in NewlyInserted(a, batch)}
       IN  IF airtags[a] = "deleted"
           THEN Abandon(p) /\ UNCHANGED stored
           ELSE /\ stored' = [stored EXCEPT ![a] = Inserted(a, batch)]
                /\ \E s \in InTimeOrder(rows) :
                     poll' = [poll EXCEPT ![p].batch = <<>>,
                                          ![p].wasEmpty = FALSE,
                                          ![p].todo = ToEvaluate(s, poll[p].wasEmpty)]
                /\ Goto(p, "evaluate")
    /\ UNCHANGED <<lock, airtags, alerts, pushed, owner, worldVars>>

(* A mutant: one alert per report, whatever its reasons.                   *)
RecordFirstAlert(p, reason, previous, next) ==
    LET a == Current(p)
        r == Report(p)
        recorded == \E x \in Reasons : alerts[a][<<r.t, x>>] > 0
    IN  IF airtags[a] = "deleted"
        THEN Abandon(p) /\ UNCHANGED alerts
        ELSE /\ alerts' = IF recorded
                          THEN alerts
                          ELSE [alerts EXCEPT ![a][<<r.t, reason>>] = @ + 1]
             /\ poll' = [poll EXCEPT ![p].reason = reason, ![p].previous = previous]
             /\ Goto(p, next)

(* record_alert: the row refers to the report, which is gone if the AirTag *)
(* has been deleted.                                                       *)
RecordAlert(p, reason, previous, next) ==
    LET a == Current(p)
        r == Report(p)
    IN  IF airtags[a] = "deleted"
        THEN Abandon(p) /\ UNCHANGED alerts
        ELSE /\ alerts' = [alerts EXCEPT ![a][<<r.t, reason>>] = @ + 1]
             /\ poll' = [poll EXCEPT ![p].reason = reason, ![p].previous = previous]
             /\ Goto(p, next)

NextReport(p) ==
    /\ poll' = [poll EXCEPT ![p].todo = Tail(@), ![p].reason = None,
                            ![p].previous = None, ![p].ownerLocation = None]
    /\ Goto(p, "evaluate")

NoMoreReports(p) ==
    /\ At(p, "evaluate")
    /\ poll[p].todo = <<>>
    /\ Goto(p, "save")
    /\ UNCHANGED <<lock, poll, dbVars, pushed, owner, worldVars>>

(* An outlier or a low-confidence report raises no alert.                  *)
SkipReport(p) ==
    /\ At(p, "evaluate")
    /\ poll[p].todo # <<>>
    /\ Untrusted(Report(p))
    /\ NextReport(p)
    /\ UNCHANGED <<lock, dbVars, pushed, owner, worldVars>>

(* evaluate_movement against the reports stored before this one; the last  *)
(* of them is what the away check compares with.                           *)
EvaluateReport(p) ==
    /\ At(p, "evaluate")
    /\ poll[p].todo # <<>>
    /\ ~Untrusted(Report(p))
    /\ LET prior == ReportsBefore(Current(p), Report(p).t)
           reason == EvaluateMovement(Report(p), prior, Cfg)
       IN  IF reason = None
           THEN /\ poll' = [poll EXCEPT ![p].previous = LastOf(prior)]
                /\ Goto(p, "away")
                /\ UNCHANGED alerts
           ELSE RecordAlert(p, reason, LastOf(prior), "push")
    /\ UNCHANGED <<lock, airtags, stored, pushed, owner, worldVars>>

(* notify_all for a movement alert, if its switch is on.                   *)
PushMovement(p) ==
    /\ At(p, "push")
    /\ pushed' = IF poll[p].reason \in NotifyOn
                 THEN pushed \cup {<<Current(p), Report(p).t, poll[p].reason>>}
                 ELSE pushed
    /\ Goto(p, "away")
    /\ UNCHANGED <<lock, poll, dbVars, owner, worldVars>>

(* _owner_location_for_away_check: the nearest reading, if it is close     *)
(* enough; otherwise the nearest one after a live fetch, or without it.    *)
LocateOwner(p) ==
    /\ At(p, "away")
    /\ IF Current(p) \notin AwayAlertFor
       THEN NextReport(p) /\ UNCHANGED owner
       ELSE \E near \in NearestReadings(owner, Report(p).t) :
              /\ IF near # None /\ Abs(Report(p).t - near.t) =< Cfg.ownerMaxAge
                 THEN /\ poll' = [poll EXCEPT ![p].ownerLocation = near]
                      /\ UNCHANGED owner
                 ELSE \/ /\ owner' = owner \cup {FreshReading}
                         /\ \E x \in NearestReadings(owner', Report(p).t) :
                              poll' = [poll EXCEPT ![p].ownerLocation = x]
                      \/ /\ "apple" \in Faults
                         /\ poll' = [poll EXCEPT ![p].ownerLocation = near]
                         /\ UNCHANGED owner
              /\ Goto(p, "judge")
    /\ UNCHANGED <<lock, dbVars, pushed, worldVars>>

(* evaluate_away; an alert only on the transition into "away".             *)
JudgeAway(p) ==
    /\ At(p, "judge")
    /\ LET r == Report(p)
           previous == poll[p].previous
       IN  \E near \in NearestReadings(owner, IF previous = None THEN r.t ELSE previous.t) :
             IF \/ ~IsAway(r, poll[p].ownerLocation, Cfg)
                \/ AlreadyAway(previous, near)
             THEN NextReport(p) /\ UNCHANGED alerts
             ELSE RecordAlert(p, AwayReason(r, previous, Cfg), previous, "pushAway")
    /\ UNCHANGED <<lock, airtags, stored, pushed, owner, worldVars>>

(* The push of an away alert, unless it is muted, the owner is already     *)
(* back, or the tag was left at a named place.                             *)
PushAway(p) ==
    /\ At(p, "pushAway")
    /\ LET r == Report(p)
           reason == poll[p].reason
           send == /\ reason \in NotifyOn
                   /\ ~AlreadyReunited(r, LatestReading(owner), Cfg)
                   /\ ~(reason = "left_behind" /\ r.pos \in NamedPlaces)
       IN  pushed' = IF send THEN pushed \cup {<<Current(p), r.t, reason>>} ELSE pushed
    /\ NextReport(p)
    /\ UNCHANGED <<lock, dbVars, owner, worldVars>>

(* A statement of _poll_airtag fails, of the notifiers and of the checks   *)
(* before an away push included.                                           *)
DatabaseError(p) ==
    /\ "database" \in Faults
    /\ pc[p] \in {"airtag", "insert", "evaluate", "push", "away", "judge", "pushAway"}
    /\ poll[p].queue # <<>>
    /\ Abandon(p)
    /\ UNCHANGED <<lock, dbVars, pushed, owner, worldVars>>

(* A mutant: the loop stays at its AirTag.                                 *)
SaveSessionAndRetry(p) ==
    /\ At(p, "save")
    /\ poll' = [poll EXCEPT ![p] = [IdlePoll EXCEPT !.queue = poll[p].queue]]
    /\ Goto(p, "airtag")
    /\ UNCHANGED <<lock, dbVars, pushed, owner, worldVars>>

(* The finally clause saves the session and the loop goes on.              *)
SaveSession(p) ==
    /\ At(p, "save")
    /\ poll' = [poll EXCEPT ![p] = [IdlePoll EXCEPT !.queue = Tail(poll[p].queue),
                                                    !.aborted = poll[p].aborted]]
    /\ Goto(p, "airtag")
    /\ UNCHANGED <<lock, dbVars, pushed, owner, worldVars>>

NoMoreAirtags(p) ==
    /\ At(p, "airtag")
    /\ poll[p].queue = <<>>
    /\ Goto(p, "release")
    /\ UNCHANGED <<lock, poll, dbVars, pushed, owner, worldVars>>

(* A mutant: one connection serves every poll.                             *)
ReleaseKeepingConnection(p) ==
    /\ At(p, "release")
    /\ lock' = [lock EXCEPT ![ProcessOf[p]] = None]
    /\ poll' = [poll EXCEPT ![p] = [IdlePoll EXCEPT !.aborted = poll[p].aborted]]
    /\ Goto(p, "idle")
    /\ UNCHANGED <<dbVars, pushed, owner, worldVars>>

(* The connection is closed and the lock given back.                       *)
Release(p) ==
    /\ At(p, "release")
    /\ lock' = [lock EXCEPT ![ProcessOf[p]] = None]
    /\ poll' = [poll EXCEPT ![p] = IdlePoll]
    /\ Goto(p, "idle")
    /\ UNCHANGED <<dbVars, pushed, owner, worldVars>>
-----------------------------------------------------------------------------
(* The process stops, and comes back with nothing but the database.        *)
Crash(x) ==
    /\ "crash" \in Faults
    /\ lock[x] # None
    /\ lock' = [lock EXCEPT ![x] = None]
    /\ pc' = [p \in Pollers |-> IF ProcessOf[p] = x THEN "idle" ELSE pc[p]]
    /\ poll' = [p \in Pollers |-> IF ProcessOf[p] = x THEN IdlePoll ELSE poll[p]]
    /\ UNCHANGED <<dbVars, pushed, owner, worldVars>>

(* delete_airtag cascades to the reports and the alerts.                   *)
DeleteAirtag(a) ==
    /\ airtags[a] # "deleted"
    /\ airtags' = [airtags EXCEPT ![a] = "deleted"]
    /\ stored' = [stored EXCEPT ![a] = {}]
    /\ alerts' = [alerts EXCEPT ![a] = [x \in Times \X Reasons |-> 0]]
    /\ UNCHANGED <<lock, pc, poll, pushed, owner, worldVars>>

SetAirtagEnabled(a) ==
    /\ airtags[a] # "deleted"
    /\ airtags' = [airtags EXCEPT ![a] = IF @ = "enabled" THEN "disabled" ELSE "enabled"]
    /\ UNCHANGED <<lock, pc, poll, stored, alerts, pushed, owner, worldVars>>

(* Apple comes to hold a report: a crowd-sourced one may arrive after      *)
(* reports that are newer.  The window of its answers moves on with Tick.  *)
Publish(a) ==
    /\ \E r \in AppleReports[a] \ apple[a] :
         /\ r.t =< now
         /\ "late" \in Faults \/ \A x \in apple[a] : x.t =< r.t
         /\ apple' = [apple EXCEPT ![a] = @ \cup {r}]
    /\ UNCHANGED <<lock, pc, poll, dbVars, pushed, owner, now>>

Tick ==
    /\ now < MaxTime
    /\ now' = now + 1
    /\ UNCHANGED <<lock, pc, poll, dbVars, pushed, owner, apple>>

PollStep(p) ==
    \/ Acquire(p) \/ OwnerPhase(p) \/ ListAirtags(p)
    \/ FetchHistory(p) \/ FetchFails(p) \/ InsertReports(p)
    \/ NoMoreReports(p) \/ SkipReport(p) \/ EvaluateReport(p) \/ PushMovement(p)
    \/ LocateOwner(p) \/ JudgeAway(p) \/ PushAway(p) \/ DatabaseError(p)
    \/ SaveSession(p) \/ NoMoreAirtags(p) \/ Release(p)

Environment ==
    \/ \E x \in Processes : Crash(x)
    \/ \E a \in AirTags : DeleteAirtag(a) \/ SetAirtagEnabled(a) \/ Publish(a)
    \/ Tick

Next == (\E p \in Pollers : PollStep(p)) \/ Environment

Spec == Init /\ [][Next]_vars
-----------------------------------------------------------------------------
(* The scheduler runs one poll after another and no step blocks: the locks *)
(* are tried, never awaited, and every network call has a timeout.         *)
Fairness == \A p \in Pollers : WF_vars(PollStep(p))

LiveSpec == Spec /\ Fairness
-----------------------------------------------------------------------------
Steps == {"idle", "owner", "list", "airtag", "insert", "evaluate", "push",
          "away", "judge", "pushAway", "save", "release"}

(* _poll_lock does what its comment says: no two polls of one process      *)
(* overlap, whatever crashes and exceptions happen, and no exception path  *)
(* leaves the lock held by a poll that has ended (tracker.py:368-422).     *)
OnePollPerProcess ==
    \A p \in Pollers : pc[p] # "idle" <=> lock[ProcessOf[p]] = p

(* The alerts by what raises them: a report is evaluated once for each.    *)
Alarms ==
    [a \in AirTags |->
       [x \in Times \X {"movement", "away"} |->
          IF x[2] = "movement"
          THEN alerts[a][<<x[1], "distance_threshold">>]
                 + alerts[a][<<x[1], "stillstand_movement">>]
          ELSE alerts[a][<<x[1], "left_behind">>]
                 + alerts[a][<<x[1], "autonomous_movement">>]]]

Log == INSTANCE ReportLog WITH
         Kinds <- {"movement", "away"},
         rows <- stored,
         alarms <- Alarms,
         removed <- {a \in AirTags : airtags[a] = "deleted"}

(* Whatever polls overlap, crash or fail, the history is the log that      *)
(* ReportLog promises: a row is never rewritten or doubled, though every   *)
(* later poll fetches and flags its report anew, and no report is ever     *)
(* evaluated twice (tracker.py:472-577, insert_reports, db.py:376-409).    *)
KeepsReportLog == Log!Spec

(* Nothing is pushed that the alert history does not hold, unless the      *)
(* AirTag has been deleted in the meantime (tracker.py:530-625).           *)
PushedAlertsAreRecorded ==
    \A x \in pushed :
       airtags[x[1]] = "deleted" \/ alerts[x[1]][<<x[2], x[3]>>] > 0

(* An alert always refers to a stored report that was kept and trusted: an *)
(* outlier or a low-confidence fix never drives one, and no alert survives *)
(* its report (tracker.py:509-524, the foreign keys of alerts).            *)
AlertsRestOnTrustedReports ==
    \A a \in AirTags, t \in Times, reason \in Reasons :
       alerts[a][<<t, reason>>] > 0 =>
          \E r \in stored[a] : /\ r.t = t
                               /\ ~r.isOutlier
                               /\ ~IsLowConfidence(r, Cfg)

(* Every push has its record and every record its report: the two above,   *)
(* through any number of polls that overlap, crash or fail                 *)
(* (tracker.py:509-625).                                                   *)
AlertsAreBacked == AlertsRestOnTrustedReports /\ PushedAlertsAreRecorded

(* An AirTag has one row per timestamp, whichever polls inserted at once   *)
(* (the unique constraint and ON CONFLICT DO NOTHING, db.py:376-409).      *)
OneRowPerTimestamp ==
    \A a \in AirTags : \A r, s \in stored[a] : r.t = s.t => r = s

(* Once inserted, a report keeps its position and its outlier flag for as  *)
(* long as its AirTag exists, although every later poll flags it anew      *)
(* against another baseline (tracker.py:472-483).                          *)
RowsAreImmutable ==
    [][\A a \in AirTags : airtags'[a] = "deleted" \/ stored[a] \subseteq stored'[a]]_vars

(* The kept reports of an AirTag form a trail it can have travelled, and   *)
(* none that fits was dropped: a stored report is flagged if and only if   *)
(* it is a speed outlier after the kept report before it.  Every poll      *)
(* flags the window of Apple's answer anew, from the stored reports that   *)
(* have left it.  Holds when Apple publishes in order (tracker.py:466-480).*)
KeptTrailIsPlausible ==
    \A a \in AirTags : \A r \in stored[a] :
       r.isOutlier <=> IsSpeedOutlier(r, LastOf(ReportsBefore(a, r.t)), Cfg)

Pending(a, r) ==
    \E p \in Pollers :
       /\ poll[p].queue # <<>> /\ Current(p) = a
       /\ \E i \in DOMAIN poll[p].todo : poll[p].todo[i] = r

(* Every stored report that moved, measured against the reports stored     *)
(* before it, has its movement alert in the history, unless a poll is      *)
(* still on its way to it (README.md:280: every alert reason is always     *)
(* recorded; stated for movement_alert_on_backfill on).                    *)
MovementAlertsComplete ==
    \A a \in AirTags : \A r \in stored[a] :
       LET reason == EvaluateMovement(r, ReportsBefore(a, r.t), Cfg)
       IN  \/ r.isOutlier \/ IsLowConfidence(r, Cfg)
           \/ reason = None
           \/ alerts[a][<<r.t, reason>>] > 0
           \/ Pending(a, r)

AwayAlerted(a, t) == \E reason \in AwayReasons : alerts[a][<<t, reason>>] > 0

(* What tracker.py:565-571 says: of several reports that describe the same *)
(* away episode, together or across polls, only the transition into away   *)
(* alerts.  So of two consecutive kept reports at most one has an away     *)
(* alert.                                                                  *)
OneAlertPerAwayEpisode ==
    \A a \in AirTags : \A r \in stored[a] :
       LET previous == LastOf(ReportsBefore(a, r.t))
       IN  (previous # None /\ AwayAlerted(a, r.t)) => ~AwayAlerted(a, previous.t)

(* The poll that puts the first reports into an empty history evaluates    *)
(* none of them while movement_alert_on_backfill is off, also when another *)
(* process polls the same AirTag (tracker.py:482-507).                     *)
BackfillIsSilent ==
    [][\A a \in AirTags, p \in Pollers :
         (stored[a] = {} /\ InsertReports(p) /\ Current(p) = a) => poll'[p].todo = <<>>]_vars

(* Every poll ends and gives the lock back, whatever fails in it           *)
(* (the finally clauses of poll_once, tracker.py:391-421).                 *)
PollsEnd == \A p \in Pollers : At(p, "owner") ~> At(p, "idle")

(* The steps that make a poll miss an AirTag: a crash, an error before the *)
(* loop, or one within it.                                                 *)
Fault ==
    \E p \in Pollers :
       \/ pc[p] \notin {"idle", "release"} /\ pc'[p] = "idle"
       \/ pc[p] \in {"owner", "list"} /\ pc'[p] = "release"
       \/ DatabaseError(p) /\ ~poll[p].aborted
       \/ FetchFails(p) /\ ~poll[p].aborted /\ Answer(Current(p)) # {}

(* Whatever crashes and errors there have been, once they are over a       *)
(* report Apple holds for a tracked AirTag reaches the history, as long as *)
(* Apple answers with it: nothing a fault leaves behind, neither a lock    *)
(* nor an aborted transaction, keeps later polls from making up for it     *)
(* (tracker.py:388-421).                                                   *)
ReportsArrive ==
    <>[][~Fault]_vars =>
       \A a \in AirTags : \A x \in AppleReports[a] :
          (x \in Answer(a)) ~> \/ airtags[a] # "enabled" \/ x \notin Answer(a)
                                \/ \E r \in stored[a] : r.t = x.t
=============================================================================

-------------------------- MODULE PollCycleProofs --------------------------
(***************************************************************************)
(* What the polls guarantee for any number of threads, processes, AirTags  *)
(* and reports: with every fault, that polls exclude each other, that rows *)
(* are unique and final, that no report is evaluated twice and that each   *)
(* alert rests on a report that was kept and trusted; with reports that    *)
(* come in order, that the kept trail is plausible, no movement is missed  *)
(* and an absence raises one alert.                                        *)
(*                                                                         *)
(* The reports a poll still has to evaluate are its own: the poll has      *)
(* inserted them, nobody had alerts for them before, and ON CONFLICT DO    *)
(* NOTHING has given them to no other poll.                                *)
(***************************************************************************)
EXTENDS PollCycle, Counting, FiniteSetTheorems

(* The lock and the program counters, as far as the lock needs them.       *)
LockTypes ==
    /\ lock \in [Processes -> Pollers \cup {None}]
    /\ pc \in [Pollers -> Steps]

LockInv == LockTypes /\ OnePollPerProcess

(* A step of a running poll that does not end it leaves the lock alone.    *)
LEMMA RunningStep ==
    ASSUME NEW p \in Pollers, NEW s \in Steps \ {"idle"}, LockInv,
           pc[p] # "idle", Goto(p, s), lock' = lock
    PROVE  LockInv'
BY PollersAssumption DEF LockInv, LockTypes, OnePollPerProcess, Goto, Steps

LEMMA AcquireInv ==
    ASSUME NEW p \in Pollers, LockInv, Acquire(p)
    PROVE  LockInv'
BY PollersAssumption, NoneAssumption
   DEF LockInv, LockTypes, OnePollPerProcess, Acquire, Goto, Steps, At

LEMMA ReleaseInv ==
    ASSUME NEW p \in Pollers, LockInv, Release(p)
    PROVE  LockInv'
BY PollersAssumption, NoneAssumption
   DEF LockInv, LockTypes, OnePollPerProcess, Release, Goto, Steps, At

LEMMA CrashInv ==
    ASSUME NEW x \in Processes, LockInv, Crash(x)
    PROVE  LockInv'
BY PollersAssumption, NoneAssumption
   DEF LockInv, LockTypes, OnePollPerProcess, Crash, Steps

(* What a step of a poll other than its first and its last does to pc.     *)
LEMMA StepsGoOn ==
    ASSUME NEW p \in Pollers, PollStep(p), ~Acquire(p), ~Release(p)
    PROVE  /\ lock' = lock
           /\ pc[p] # "idle"
           /\ \/ pc' = pc
              \/ \E s \in Steps \ {"idle"} : Goto(p, s)
<1>1. CASE OwnerPhase(p)
  BY <1>1 DEF OwnerPhase, At, Steps
<1>2. CASE ListAirtags(p)
  BY <1>2 DEF ListAirtags, At, Steps
<1>3. CASE FetchHistory(p)
  BY <1>3 DEF FetchHistory, At, Steps
<1>4. CASE FetchFails(p)
  BY <1>4 DEF FetchFails, At, Steps
<1>5. CASE InsertReports(p)
  BY <1>5 DEF InsertReports, Abandon, At, Steps
<1>6. CASE NoMoreReports(p)
  BY <1>6 DEF NoMoreReports, At, Steps
<1>7. CASE SkipReport(p)
  BY <1>7 DEF SkipReport, NextReport, At, Steps
<1>8. CASE EvaluateReport(p)
  BY <1>8 DEF EvaluateReport, RecordAlert, Abandon, At, Steps
<1>9. CASE PushMovement(p)
  BY <1>9 DEF PushMovement, At, Steps
<1>10. CASE LocateOwner(p)
  BY <1>10 DEF LocateOwner, NextReport, At, Steps
<1>11. CASE JudgeAway(p)
  BY <1>11 DEF JudgeAway, NextReport, RecordAlert, Abandon, At, Steps
<1>12. CASE PushAway(p)
  BY <1>12 DEF PushAway, NextReport, At, Steps
<1>13. CASE DatabaseError(p)
  BY <1>13 DEF DatabaseError, Abandon, Steps
<1>14. CASE SaveSession(p)
  BY <1>14 DEF SaveSession, At, Steps
<1>15. CASE NoMoreAirtags(p)
  BY <1>15 DEF NoMoreAirtags, At, Steps
<1> QED BY <1>1, <1>2, <1>3, <1>4, <1>5, <1>6, <1>7, <1>8, <1>9, <1>10, <1>11,
          <1>12, <1>13, <1>14, <1>15 DEF PollStep

LEMMA LockStep == LockInv /\ [Next]_vars => LockInv'
<1> SUFFICES ASSUME LockInv, [Next]_vars
             PROVE  LockInv'
  OBVIOUS
<1>1. ASSUME NEW p \in Pollers, PollStep(p)
      PROVE  LockInv'
  <2>1. CASE Acquire(p)
    BY <2>1, AcquireInv
  <2>2. CASE Release(p)
    BY <2>2, ReleaseInv
  <2>3. CASE ~Acquire(p) /\ ~Release(p)
    <3>1. /\ lock' = lock
          /\ pc[p] # "idle"
          /\ \/ pc' = pc
             \/ \E s \in Steps \ {"idle"} : Goto(p, s)
      BY <1>1, <2>3, StepsGoOn
    <3>2. CASE pc' = pc
      BY <3>1, <3>2 DEF LockInv, LockTypes, OnePollPerProcess
    <3>3. CASE \E s \in Steps \ {"idle"} : Goto(p, s)
      BY <3>1, <3>3, RunningStep
    <3> QED BY <3>1, <3>2, <3>3
  <2> QED BY <2>1, <2>2, <2>3
<1>2. ASSUME NEW x \in Processes, Crash(x)
      PROVE  LockInv'
  BY <1>2, CrashInv
<1>3. CASE UNCHANGED <<lock, pc>>
  BY <1>3 DEF LockInv, LockTypes, OnePollPerProcess
<1>4. Environment => (\E x \in Processes : Crash(x)) \/ UNCHANGED <<lock, pc>>
  BY DEF Environment, DeleteAirtag, SetAirtagEnabled, Publish, Tick
<1> QED BY <1>1, <1>2, <1>3, <1>4 DEF Next, vars

(* The invariant of the lock holds throughout.                             *)
LEMMA LockInvariant == Spec => []LockInv
<1>1. Init => LockInv
  BY PollersAssumption, NoneAssumption
     DEF Init, LockInv, LockTypes, OnePollPerProcess, Steps
<1> QED BY <1>1, LockStep, PTL DEF Spec

(* No two polls of one process overlap, and every poll that has ended has  *)
(* given the lock back: the comment on _poll_lock (tracker.py:368-373).    *)
THEOREM PollsExcludeEachOther == Spec => []OnePollPerProcess
<1>1. LockInv => OnePollPerProcess
  BY DEF LockInv
<1> QED BY <1>1, LockInvariant, PTL
-----------------------------------------------------------------------------
(* The reports of a poll's batch are numbered from 1: what deduplicating a *)
(* batch rests on.                                                         *)
Numbered(x) == "batch" \in DOMAIN x /\ DOMAIN x.batch \subseteq Nat \ {0}

RowTypes ==
    /\ DOMAIN stored = AirTags
    /\ DOMAIN airtags = AirTags
    /\ DOMAIN poll = Pollers
    /\ \A p \in Pollers : Numbered(poll[p])

RowInv == RowTypes /\ OneRowPerTimestamp

LEMMA IdlePollNumbered ==
    ASSUME NEW queue, NEW aborted
    PROVE  /\ Numbered(IdlePoll)
           /\ Numbered([[IdlePoll EXCEPT !.queue = queue] EXCEPT !.aborted = aborted])
           /\ Numbered([[IdlePoll EXCEPT !.queue = queue] EXCEPT !.aborted = TRUE])
BY DEF Numbered, IdlePoll

LEMMA InsertedRows ==
    ASSUME NEW a, NEW batch, DOMAIN batch \subseteq Nat \ {0}, RowInv,
           stored' = [stored EXCEPT ![a] = @ \cup {batch[i] : i \in NewlyInserted(a, batch)}]
    PROVE  OneRowPerTimestamp'
<1> DEFINE new == NewlyInserted(a, batch)
<1>1. ASSUME NEW b \in AirTags, NEW r \in stored'[b], NEW s \in stored'[b], r.t = s.t
      PROVE  r = s
  <2>1. CASE b # a
    BY <1>1, <2>1 DEF RowInv, RowTypes, OneRowPerTimestamp
  <2>2. CASE b = a
    <3>1. stored'[a] = stored[a] \cup {batch[i] : i \in new}
      BY <2>2 DEF RowInv, RowTypes
    <3>2. CASE r \in stored[a] /\ s \in stored[a]
      BY <1>1, <3>2 DEF RowInv, OneRowPerTimestamp
    <3>3. ASSUME NEW x \in stored[a], NEW i \in new
          PROVE  x.t # batch[i].t
      BY <3>3 DEF NewlyInserted
    <3>4. ASSUME NEW i \in new, NEW j \in new, batch[i].t = batch[j].t
          PROVE  i = j
      <4>1. i \in Nat \ {0} /\ j \in Nat \ {0} /\ i \in DOMAIN batch /\ j \in DOMAIN batch
        BY DEF NewlyInserted
      <4>2. \A k \in 1 .. i - 1 : batch[k].t # batch[i].t
        BY DEF NewlyInserted
      <4>3. \A k \in 1 .. j - 1 : batch[k].t # batch[j].t
        BY DEF NewlyInserted
      <4> QED BY <3>4, <4>1, <4>2, <4>3
    <3> QED BY <1>1, <2>2, <3>1, <3>2, <3>3, <3>4
  <2> QED BY <2>1, <2>2
<1> QED BY <1>1 DEF OneRowPerTimestamp

LEMMA FlaggedNumbered ==
    ASSUME NEW batch, NEW baseline
    PROVE  DOMAIN FlagOutliers(batch, baseline) \subseteq Nat \ {0}
BY DEF FlagOutliers

(* Assigning to one field of a record leaves it numbered, if the field is  *)
(* not the batch.                                                          *)
LEMMA OtherFieldNumbered ==
    ASSUME NEW x, NEW field, field # "batch", NEW value, Numbered(x)
    PROVE  Numbered([x EXCEPT ![field] = value])
BY DEF Numbered

LEMMA BatchFieldNumbered ==
    ASSUME NEW x, NEW value, DOMAIN value \subseteq Nat \ {0}, Numbered(x)
    PROVE  Numbered([x EXCEPT !.batch = value])
BY DEF Numbered

(* A step that only changes the local variables of one poll.               *)
LEMMA LocalStep ==
    ASSUME NEW p \in Pollers, RowInv,
           DOMAIN poll' = DOMAIN poll, Numbered(poll'[p]),
           \A q \in Pollers \ {p} : poll'[q] = poll[q],
           airtags' = airtags, stored' = stored
    PROVE  RowInv'
BY DEF RowInv, RowTypes, OneRowPerTimestamp

LEMMA UnchangedRows ==
    ASSUME RowInv, UNCHANGED <<poll, airtags, stored>>
    PROVE  RowInv'
BY DEF RowInv, RowTypes, OneRowPerTimestamp, Numbered

LEMMA NextReportRows ==
    ASSUME NEW p \in Pollers, RowInv, NextReport(p), airtags' = airtags, stored' = stored
    PROVE  RowInv'
BY Zenon DEF NextReport, RowInv, RowTypes, OneRowPerTimestamp, Numbered

LEMMA AbandonRows ==
    ASSUME NEW p \in Pollers, RowInv, Abandon(p), airtags' = airtags, stored' = stored
    PROVE  RowInv'
<1>1. poll' = [poll EXCEPT ![p] = [[IdlePoll EXCEPT !.queue = poll[p].queue]
                                       EXCEPT !.aborted = TRUE]]
  BY DEF Abandon
<1>2. DOMAIN poll' = DOMAIN poll /\ \A q \in Pollers \ {p} : poll'[q] = poll[q]
  BY <1>1 DEF RowInv, RowTypes
<1>3. poll'[p] = [[IdlePoll EXCEPT !.queue = poll[p].queue] EXCEPT !.aborted = TRUE]
  BY Zenon, <1>1 DEF RowInv, RowTypes
<1>4. Numbered(poll'[p])
  BY Zenon, <1>3, IdlePollNumbered
<1> QED BY <1>2, <1>4, LocalStep

LEMMA FetchHistoryRows ==
    ASSUME NEW p \in Pollers, RowInv, FetchHistory(p)
    PROVE  RowInv'
<1>1. airtags' = airtags /\ stored' = stored
  BY DEF FetchHistory, dbVars
<1>2. \/ poll' = poll
      \/ \E s \in History(Current(p)) :
            poll' = [poll EXCEPT
                       ![p].batch = FlagOutliers(s, Baseline(Current(p), s[1].t)),
                       ![p].wasEmpty = (stored[Current(p)] = {})]
  <2>1. CASE Answer(Current(p)) = {}
    BY <2>1 DEF FetchHistory
  <2>2. CASE Answer(Current(p)) # {}
    BY <2>2 DEF FetchHistory
  <2> QED BY <2>1, <2>2
<1>3. CASE \E s \in History(Current(p)) :
             poll' = [poll EXCEPT
                       ![p].batch = FlagOutliers(s, Baseline(Current(p), s[1].t)),
                       ![p].wasEmpty = (stored[Current(p)] = {})]
  <2>1. PICK s \in History(Current(p)) :
             poll' = [poll EXCEPT
                       ![p].batch = FlagOutliers(s, Baseline(Current(p), s[1].t)),
                       ![p].wasEmpty = (stored[Current(p)] = {})]
    BY Zenon, <1>3
  <2> DEFINE flagged == FlagOutliers(s, Baseline(Current(p), s[1].t))
             fetched == [poll[p] EXCEPT !.batch = flagged]
  <2>2. DOMAIN flagged \subseteq Nat \ {0}
    BY FlaggedNumbered
  <2> HIDE DEF flagged
  <2>3. Numbered(fetched)
    BY <2>2, BatchFieldNumbered DEF RowInv, RowTypes
  <2> HIDE DEF fetched
  <2>4. Numbered([fetched EXCEPT !.wasEmpty = (stored[Current(p)] = {})])
    BY <2>3 DEF Numbered
  <2>5. DOMAIN poll' = DOMAIN poll /\ \A q \in Pollers \ {p} : poll'[q] = poll[q]
    BY <2>1 DEF RowInv, RowTypes
  <2>6. poll'[p] = [fetched EXCEPT !.wasEmpty = (stored[Current(p)] = {})]
    BY Zenon, <2>1 DEF RowInv, RowTypes, fetched, flagged
  <2>7. Numbered(poll'[p])
    BY Zenon, <2>4, <2>6
  <2> QED BY <1>1, <2>5, <2>7, LocalStep
<1> QED BY <1>1, <1>2, <1>3, UnchangedRows

(* A step that assigns one or two fields other than the batch.             *)
LEMMA FieldStep ==
    ASSUME NEW p \in Pollers, RowInv, airtags' = airtags, stored' = stored,
           NEW f, NEW v, f # "batch", poll' = [poll EXCEPT ![p] = [poll[p] EXCEPT ![f] = v]]
    PROVE  RowInv'
<1>1. Numbered([poll[p] EXCEPT ![f] = v])
  BY OtherFieldNumbered DEF RowInv, RowTypes
<1>2. poll'[p] = [poll[p] EXCEPT ![f] = v]
  BY Zenon DEF RowInv, RowTypes
<1>3. Numbered(poll'[p])
  BY Zenon, <1>1, <1>2
<1>4. DOMAIN poll' = DOMAIN poll /\ \A q \in Pollers \ {p} : poll'[q] = poll[q]
  BY DEF RowInv, RowTypes
<1> QED BY <1>3, <1>4, LocalStep

LEMMA FieldsStep ==
    ASSUME NEW p \in Pollers, RowInv, airtags' = airtags, stored' = stored,
           NEW f, NEW v, f # "batch", NEW g, NEW w, g # "batch",
           poll' = [poll EXCEPT ![p] = [[poll[p] EXCEPT ![f] = v] EXCEPT ![g] = w]]
    PROVE  RowInv'
<1> DEFINE x == [poll[p] EXCEPT ![f] = v]
<1>1. Numbered(x)
  BY OtherFieldNumbered DEF RowInv, RowTypes
<1>2. poll'[p] = [x EXCEPT ![g] = w]
  BY Zenon DEF RowInv, RowTypes
<1>3. DOMAIN poll' = DOMAIN poll /\ \A q \in Pollers \ {p} : poll'[q] = poll[q]
  BY DEF RowInv, RowTypes
<1> HIDE DEF x
<1>4. Numbered([x EXCEPT ![g] = w])
  BY <1>1, OtherFieldNumbered
<1>5. Numbered(poll'[p])
  BY Zenon, <1>2, <1>4
<1> QED BY <1>3, <1>5, LocalStep

LEMMA RecordAlertRows ==
    ASSUME NEW p \in Pollers, RowInv, airtags' = airtags, stored' = stored,
           NEW reason, NEW previous, NEW next, RecordAlert(p, reason, previous, next)
    PROVE  RowInv'
<1>1. CASE airtags[Current(p)] = "deleted"
  BY <1>1, AbandonRows DEF RecordAlert
<1>2. CASE airtags[Current(p)] # "deleted"
  <2>1. poll' = [poll EXCEPT ![p] = [[poll[p] EXCEPT !.reason = reason]
                                        EXCEPT !.previous = previous]]
    BY Zenon, <1>2 DEF RecordAlert
  <2> QED BY <2>1, FieldsStep
<1> QED BY <1>1, <1>2

LEMMA InsertReportsRows ==
    ASSUME NEW p \in Pollers, RowInv, InsertReports(p)
    PROVE  RowInv'
<1>1. airtags' = airtags
  BY DEF InsertReports
<1>2. CASE airtags[Current(p)] = "deleted"
  BY <1>1, <1>2, AbandonRows DEF InsertReports
<1>3. CASE airtags[Current(p)] # "deleted"
  <2> DEFINE a == Current(p)
             batch == poll[p].batch
             rows == {batch[i] : i \in NewlyInserted(a, batch)}
  <2>1. stored' = [stored EXCEPT ![a] = @ \cup rows]
    BY <1>3 DEF InsertReports, Inserted
  <2>2. DOMAIN batch \subseteq Nat \ {0}
    BY DEF RowInv, RowTypes, Numbered
  <2>3. OneRowPerTimestamp'
    BY <2>1, <2>2, InsertedRows
  <2>4. PICK todo : poll' = [poll EXCEPT ![p].batch = <<>>,
                                         ![p].wasEmpty = FALSE,
                                         ![p].todo = todo]
    BY <1>3 DEF InsertReports
  <2> DEFINE emptied == [poll[p] EXCEPT !.batch = <<>>]
  <2>5. Numbered(emptied)
    BY BatchFieldNumbered DEF RowInv, RowTypes
  <2> HIDE DEF emptied
  <2>6. Numbered([[emptied EXCEPT !.wasEmpty = FALSE] EXCEPT !.todo = todo])
    BY <2>5, OtherFieldNumbered
  <2>7. poll'[p] = [[emptied EXCEPT !.wasEmpty = FALSE] EXCEPT !.todo = todo]
    BY Zenon, <2>4 DEF RowInv, RowTypes, emptied
  <2>8. Numbered(poll'[p])
    BY Zenon, <2>6, <2>7
  <2>9. DOMAIN poll' = Pollers /\ \A q \in Pollers \ {p} : poll'[q] = poll[q]
    BY <2>4 DEF RowInv, RowTypes
  <2>10. DOMAIN stored' = AirTags
    BY <2>1 DEF RowInv, RowTypes
  <2>11. \A q \in Pollers : Numbered(poll'[q])
    BY <2>8, <2>9 DEF RowInv, RowTypes
  <2> QED BY <1>1, <2>3, <2>9, <2>10, <2>11 DEF RowInv, RowTypes, Numbered
<1> QED BY <1>2, <1>3

LEMMA PollStepRows ==
    ASSUME NEW p \in Pollers, RowInv, PollStep(p)
    PROVE  RowInv'
<1>1. CASE Acquire(p) \/ OwnerPhase(p) \/ FetchFails(p) \/ NoMoreReports(p)
             \/ PushMovement(p) \/ NoMoreAirtags(p)
  <2>1. UNCHANGED <<poll, airtags, stored>>
    BY <1>1 DEF Acquire, OwnerPhase, FetchFails, NoMoreReports, PushMovement,
                NoMoreAirtags, dbVars
  <2> QED BY <2>1, UnchangedRows
<1>2. CASE ListAirtags(p)
  <2>1. airtags' = airtags /\ stored' = stored
    BY <1>2 DEF ListAirtags, dbVars
  <2>2. poll' = poll \/ \E q : poll' = [poll EXCEPT ![p].queue = q]
    BY Zenon, <1>2 DEF ListAirtags
  <2>3. ASSUME NEW q, poll' = [poll EXCEPT ![p].queue = q]
        PROVE  RowInv'
    BY <2>1, <2>3, FieldStep
  <2> QED BY <2>1, <2>2, <2>3, UnchangedRows
<1>3. CASE FetchHistory(p)
  BY <1>3, FetchHistoryRows
<1>4. CASE InsertReports(p)
  BY <1>4, InsertReportsRows
<1>5. CASE SkipReport(p) \/ PushAway(p)
  <2>1. NextReport(p) /\ airtags' = airtags /\ stored' = stored
    BY <1>5 DEF SkipReport, PushAway, dbVars
  <2> QED BY <2>1, NextReportRows
<1>6. CASE EvaluateReport(p)
  <2>1. airtags' = airtags /\ stored' = stored
    BY <1>6 DEF EvaluateReport
  <2>2. \/ \E x : poll' = [poll EXCEPT ![p].previous = x]
        \/ \E r, x : RecordAlert(p, r, x, "push")
    BY Zenon, <1>6 DEF EvaluateReport
  <2>3. ASSUME NEW x, poll' = [poll EXCEPT ![p].previous = x]
        PROVE  RowInv'
    BY <2>1, <2>3, FieldStep
  <2> QED BY <2>1, <2>2, <2>3, RecordAlertRows
<1>7. CASE LocateOwner(p)
  <2>1. airtags' = airtags /\ stored' = stored
    BY <1>7 DEF LocateOwner, dbVars
  <2>2. NextReport(p) \/ \E x : poll' = [poll EXCEPT ![p].ownerLocation = x]
    BY Zenon, <1>7 DEF LocateOwner
  <2>3. ASSUME NEW x, poll' = [poll EXCEPT ![p].ownerLocation = x]
        PROVE  RowInv'
    BY <2>1, <2>3, FieldStep
  <2> QED BY <2>1, <2>2, <2>3, NextReportRows
<1>8. CASE JudgeAway(p)
  <2>1. airtags' = airtags /\ stored' = stored
    BY <1>8 DEF JudgeAway
  <2>2. NextReport(p) \/ \E r, x : RecordAlert(p, r, x, "pushAway")
    BY Zenon, <1>8 DEF JudgeAway
  <2> QED BY <2>1, <2>2, NextReportRows, RecordAlertRows
<1>9. CASE DatabaseError(p)
  <2>1. Abandon(p) /\ airtags' = airtags /\ stored' = stored
    BY <1>9 DEF DatabaseError, dbVars
  <2> QED BY <2>1, AbandonRows
<1>10. CASE SaveSession(p)
  <2>1. airtags' = airtags /\ stored' = stored
    BY <1>10 DEF SaveSession, dbVars
  <2>2. poll' = [poll EXCEPT ![p] = [[IdlePoll EXCEPT !.queue = Tail(poll[p].queue)]
                                        EXCEPT !.aborted = poll[p].aborted]]
    BY Zenon, <1>10 DEF SaveSession
  <2>3. DOMAIN poll' = DOMAIN poll /\ \A q \in Pollers \ {p} : poll'[q] = poll[q]
    BY <2>2 DEF RowInv, RowTypes
  <2> DEFINE requeued == [IdlePoll EXCEPT !.queue = Tail(poll[p].queue)]
  <2>4. poll'[p] = [requeued EXCEPT !.aborted = poll[p].aborted]
    BY Zenon, <2>2 DEF RowInv, RowTypes, requeued
  <2> HIDE DEF IdlePoll
  <2>5. Numbered(requeued)
    BY IdlePollNumbered, OtherFieldNumbered
  <2> HIDE DEF requeued
  <2>6. Numbered(poll'[p])
    BY <2>4, <2>5, OtherFieldNumbered
  <2> QED BY <2>1, <2>3, <2>6, LocalStep
<1>11. CASE Release(p)
  <2>1. /\ airtags' = airtags /\ stored' = stored
        /\ poll' = [poll EXCEPT ![p] = IdlePoll]
    BY <1>11 DEF Release, dbVars
  <2> HIDE DEF IdlePoll
  <2>2. DOMAIN poll' = DOMAIN poll /\ \A q \in Pollers \ {p} : poll'[q] = poll[q]
    BY <2>1 DEF RowInv, RowTypes
  <2>3. poll'[p] = IdlePoll
    BY <2>1 DEF RowInv, RowTypes
  <2> QED BY <2>1, <2>2, <2>3, IdlePollNumbered, LocalStep
<1> QED BY <1>1, <1>2, <1>3, <1>4, <1>5, <1>6, <1>7, <1>8, <1>9, <1>10, <1>11
        DEF PollStep

LEMMA EnvironmentRows ==
    ASSUME RowInv, Environment
    PROVE  RowInv'
<1>1. ASSUME NEW x \in Processes, Crash(x)
      PROVE  RowInv'
  <2>1. airtags' = airtags /\ stored' = stored
    BY <1>1 DEF Crash, dbVars
  <2>2. /\ DOMAIN poll' = Pollers
        /\ \A q \in Pollers : poll'[q] = IdlePoll \/ poll'[q] = poll[q]
    BY <1>1 DEF Crash
  <2>3. \A q \in Pollers : Numbered(poll'[q])
    BY <2>2, IdlePollNumbered DEF RowInv, RowTypes
  <2> QED BY <2>1, <2>2, <2>3 DEF RowInv, RowTypes, OneRowPerTimestamp, Numbered
<1>2. ASSUME NEW a \in AirTags, DeleteAirtag(a)
      PROVE  RowInv'
  BY <1>2 DEF DeleteAirtag, RowInv, RowTypes, OneRowPerTimestamp, Numbered
<1>3. ASSUME NEW a \in AirTags, SetAirtagEnabled(a)
      PROVE  RowInv'
  BY <1>3 DEF SetAirtagEnabled, RowInv, RowTypes, OneRowPerTimestamp, Numbered
<1>4. CASE (\E a \in AirTags : Publish(a)) \/ Tick
  BY <1>4, UnchangedRows DEF Publish, Tick, dbVars
<1> QED BY <1>1, <1>2, <1>3, <1>4 DEF Environment

LEMMA RowStep == RowInv /\ [Next]_vars => RowInv'
BY PollStepRows, EnvironmentRows, UnchangedRows DEF Next, vars

LEMMA RowInit == Init => RowInv
BY IdlePollNumbered DEF Init, RowInv, RowTypes, OneRowPerTimestamp

(* However many processes poll at once and whatever fails, an AirTag never *)
(* has two rows with one timestamp (insert_reports, db.py:376-409).        *)
THEOREM RowsAreUnique == Spec => []OneRowPerTimestamp
<1>1. RowInv => OneRowPerTimestamp
  BY DEF RowInv
<1> QED BY <1>1, RowInit, RowStep, PTL DEF Spec

LEMMA RowsKept ==
    RowTypes /\ [Next]_vars =>
      \A a \in AirTags : airtags'[a] = "deleted" \/ stored[a] \subseteq stored'[a]
<1> SUFFICES ASSUME RowTypes, [Next]_vars, NEW a \in AirTags
             PROVE  airtags'[a] = "deleted" \/ stored[a] \subseteq stored'[a]
  OBVIOUS
<1>1. ASSUME NEW p \in Pollers, PollStep(p)
      PROVE  stored[a] \subseteq stored'[a]
  <2>1. CASE InsertReports(p)
    BY <2>1 DEF InsertReports, Inserted, RowTypes
  <2>2. CASE ~InsertReports(p)
    <3>1. stored' = stored
      BY <1>1, <2>2
         DEF PollStep, Acquire, OwnerPhase, ListAirtags, FetchHistory, FetchFails,
             NoMoreReports, SkipReport, EvaluateReport, PushMovement, LocateOwner,
             JudgeAway, PushAway, DatabaseError, SaveSession, NoMoreAirtags, Release,
             dbVars
    <3> QED BY <3>1
  <2> QED BY <2>1, <2>2
<1>2. ASSUME NEW b \in AirTags, DeleteAirtag(b)
      PROVE  airtags'[a] = "deleted" \/ stored[a] \subseteq stored'[a]
  BY <1>2 DEF DeleteAirtag, RowTypes
<1>3. CASE (\E x \in Processes : Crash(x)) \/ Tick
             \/ \E b \in AirTags : SetAirtagEnabled(b) \/ Publish(b)
  BY <1>3 DEF Crash, Tick, SetAirtagEnabled, Publish, dbVars
<1>4. CASE UNCHANGED vars
  BY <1>4 DEF vars
<1> QED BY <1>1, <1>2, <1>3, <1>4 DEF Next, Environment

(* A stored report is never rewritten or lost while its AirTag exists, in  *)
(* particular not by a poll that flags it differently (db.py:376-409).     *)
THEOREM RowsNeverChange == Spec => RowsAreImmutable
<1>1. RowInv => RowTypes
  BY DEF RowInv
<1> QED BY <1>1, RowInit, RowStep, RowsKept, PTL DEF Spec, RowsAreImmutable
-----------------------------------------------------------------------------
Evaluating == {"evaluate", "push", "away", "judge", "pushAway"}

(* The steps that are about an AirTag of the queue.                        *)
Busy == Evaluating \cup {"insert", "save"}

Fields == {"queue", "batch", "wasEmpty", "todo", "previous", "ownerLocation",
           "reason", "aborted"}

Shape(x) ==
    /\ DOMAIN x = Fields
    /\ x.queue \in Seq(AirTags)
    /\ \E n \in Nat : DOMAIN x.batch = 1 .. n
    /\ \A i \in DOMAIN x.batch : x.batch[i].t \in Times

PollTypes ==
    /\ pc \in [Pollers -> Steps]
    /\ DOMAIN poll = Pollers
    /\ \A p \in Pollers : Shape(poll[p])
    /\ \A p \in Pollers : pc[p] \in Busy => poll[p].queue # <<>>
    /\ now \in Nat
    /\ DOMAIN apple = AirTags
    /\ \A a \in AirTags : IsFiniteSet(apple[a]) /\ apple[a] \subseteq AppleReports[a]

(* A poll evaluates reports of an AirTag that still exists.                *)
Live(p) == pc[p] \in Evaluating /\ airtags[Current(p)] # "deleted"

Todo(p) == poll[p].todo

(* Its reports are rows, no two of them with one timestamp.                *)
TodoIsStored(p) ==
    /\ Todo(p) \in Seq(stored[Current(p)])
    /\ \A i, j \in DOMAIN Todo(p) : i # j => Todo(p)[i].t # Todo(p)[j].t

(* Within the evaluation of a report, the report is trusted.               *)
TodoIsTrusted(p) ==
    pc[p] # "evaluate" => Todo(p) # <<>> /\ ~Untrusted(Report(p))

(* None of them has an alert it has yet to be evaluated for.               *)
TodoIsClear(p) ==
    \A i \in DOMAIN Todo(p), x \in Reasons :
       \/ i > 1
       \/ pc[p] = "evaluate"
       \/ pc[p] \in {"push", "away", "judge"} /\ x \in AwayReasons
       => alerts[Current(p)][<<Todo(p)[i].t, x>>] = 0

(* What is about to be pushed has been recorded.                           *)
ReasonIsRecorded(p) ==
    pc[p] \in {"push", "pushAway"} =>
       /\ poll[p].reason \in Reasons
       /\ alerts[Current(p)][<<Report(p).t, poll[p].reason>>] > 0

(* Two polls never have the same report.                                   *)
TodosAreDisjoint(p, q) ==
    Current(p) = Current(q) =>
       \A i \in DOMAIN Todo(p), j \in DOMAIN Todo(q) : Todo(p)[i].t # Todo(q)[j].t

OwnTodo(p) ==
    TodoIsStored(p) /\ TodoIsTrusted(p) /\ TodoIsClear(p) /\ ReasonIsRecorded(p)

TodoInv ==
    /\ \A p \in Pollers : Live(p) => OwnTodo(p)
    /\ \A p, q \in Pollers : p # q /\ Live(p) /\ Live(q) => TodosAreDisjoint(p, q)

AlertTypes ==
    /\ alerts \in [AirTags -> [Times \X Reasons -> Nat]]
    /\ \A a \in AirTags : \A r \in stored[a] : r.t \in Times
    /\ \A x \in pushed :
          /\ x[1] \in AirTags
          /\ airtags[x[1]] = "deleted" \/ (x[2] \in Times /\ x[3] \in Reasons)

AlertInv ==
    /\ AlertTypes
    /\ AlertsRestOnTrustedReports
    /\ PushedAlertsAreRecorded

LogInv == RowInv /\ PollTypes /\ TodoInv /\ AlertInv
-----------------------------------------------------------------------------
(* A finite set of reports in order: each of them once.                    *)
LEMMA Enumerated ==
    ASSUME NEW S, IsFiniteSet(S), NEW s \in InTimeOrder(S)
    PROVE  /\ s \in Seq(S)
           /\ \E n \in Nat : DOMAIN s = 1 .. n
           /\ \A i, j \in DOMAIN s : i # j => s[i] # s[j]
<1> DEFINE n == Cardinality(S)
<1>1. n \in Nat
  BY FS_CardinalityType
<1>2. s \in [1 .. n -> S] /\ \A x \in S : \E i \in 1 .. n : s[i] = x
  BY DEF InTimeOrder
<1>3. IsFiniteSet(1 .. n) /\ Cardinality(1 .. n) = n
  BY <1>1, FS_Interval
<1>4. s \in Surjection(1 .. n, S)
  BY <1>2 DEF Surjection
<1>5. s \in Injection(1 .. n, S)
  BY <1>3, <1>4, FS_SurjSameCardinalityImpliesInj
<1>6. \A i, j \in 1 .. n : i # j => s[i] # s[j]
  BY <1>5 DEF Injection, IsInjective
<1>7. s \in Seq(S)
  BY <1>1, <1>2
<1> QED BY <1>1, <1>2, <1>6, <1>7

LEMMA IdleShape ==
    ASSUME NEW queue \in Seq(AirTags), NEW aborted
    PROVE  /\ Shape([[IdlePoll EXCEPT !.queue = queue] EXCEPT !.aborted = aborted])
           /\ [[IdlePoll EXCEPT !.queue = queue] EXCEPT !.aborted = aborted].queue = queue
           /\ Shape(IdlePoll)
<1> DEFINE queued == [IdlePoll EXCEPT !.queue = queue]
<1>1. DOMAIN <<>> = 1 .. 0 /\ <<>> \in Seq(AirTags)
  OBVIOUS
<1>2. Shape(IdlePoll)
  BY <1>1 DEF Shape, Fields, IdlePoll
<1>3. DOMAIN queued = Fields /\ queued.queue = queue /\ queued.batch = <<>>
  BY DEF IdlePoll, Fields
<1>4. /\ DOMAIN [queued EXCEPT !.aborted = aborted] = Fields
      /\ [queued EXCEPT !.aborted = aborted].queue = queue
      /\ [queued EXCEPT !.aborted = aborted].batch = <<>>
  BY <1>3 DEF Fields
<1> QED BY <1>1, <1>2, <1>4 DEF Shape

LEMMA FieldShape ==
    ASSUME NEW x, Shape(x), NEW f \in {"wasEmpty", "todo", "previous", "ownerLocation", "reason"}, NEW v
    PROVE  /\ Shape([x EXCEPT ![f] = v])
           /\ [x EXCEPT ![f] = v].queue = x.queue
           /\ [x EXCEPT ![f] = v][f] = v
           /\ \A g \in Fields \ {f} : [x EXCEPT ![f] = v][g] = x[g]
<1>1. DOMAIN [x EXCEPT ![f] = v] = Fields /\ f \in Fields
  BY DEF Shape, Fields
<1>2. \A g \in Fields \ {f} : [x EXCEPT ![f] = v][g] = x[g]
  BY DEF Shape
<1>3. [x EXCEPT ![f] = v][f] = v
  BY <1>1 DEF Shape
<1>4. /\ [x EXCEPT ![f] = v].queue = x.queue
      /\ [x EXCEPT ![f] = v].batch = x.batch
  BY <1>2 DEF Fields
<1> QED BY <1>1, <1>2, <1>3, <1>4 DEF Shape

(* A poll goes on with another AirTag or ends; its rest is left.           *)
Aside(p) ==
    /\ pc'[p] \in Steps \ Evaluating
    /\ UNCHANGED <<stored, alerts, pushed>>

(* The rest of a batch that has been inserted is what is to be evaluated.  *)
Insertion(p) ==
    LET a == Current(p)
        batch == poll[p].batch
        rows == {batch[i] : i \in NewlyInserted(a, batch)}
    IN  /\ airtags[a] # "deleted"
        /\ pc[p] = "insert" /\ pc'[p] = "evaluate"
        /\ poll'[p].queue = poll[p].queue
        /\ stored' = [stored EXCEPT ![a] = @ \cup rows]
        /\ poll'[p].todo = <<>> \/ poll'[p].todo \in InTimeOrder(rows)
        /\ UNCHANGED <<alerts, pushed>>

Pushed(p) ==
    pushed' \in {pushed, pushed \cup {<<Current(p), Report(p).t, poll[p].reason>>}}

(* The next report.                                                        *)
Advance(p) ==
    /\ pc[p] \in Evaluating /\ pc'[p] = "evaluate"
    /\ pc[p] = "evaluate" => Todo(p) # <<>>
    /\ poll'[p].queue = poll[p].queue
    /\ poll'[p].todo = Tail(Todo(p))
    /\ pushed' = pushed \/ (pc[p] = "pushAway" /\ Pushed(p))
    /\ UNCHANGED <<stored, alerts>>

(* The next step of the evaluation of a report.                            *)
Proceed(p) ==
    /\ \/ /\ pc[p] = "evaluate" /\ pc'[p] = "away"
          /\ Todo(p) # <<>> /\ ~Untrusted(Report(p))
          /\ UNCHANGED pushed
       \/ pc[p] = "push" /\ pc'[p] = "away" /\ Pushed(p)
       \/ pc[p] = "away" /\ pc'[p] = "judge" /\ UNCHANGED pushed
    /\ poll'[p].queue = poll[p].queue /\ poll'[p].todo = Todo(p)
    /\ UNCHANGED <<stored, alerts>>

Record(p, reason) ==
    /\ \/ /\ pc[p] = "evaluate" /\ pc'[p] = "push"
          /\ Todo(p) # <<>> /\ ~Untrusted(Report(p))
          /\ reason \in MovementReasons
       \/ pc[p] = "judge" /\ pc'[p] = "pushAway" /\ reason \in AwayReasons
    /\ airtags[Current(p)] # "deleted"
    /\ alerts' = [alerts EXCEPT ![Current(p)][<<Report(p).t, reason>>] = @ + 1]
    /\ poll'[p].queue = poll[p].queue /\ poll'[p].todo = Todo(p)
    /\ poll'[p].reason = reason
    /\ UNCHANGED <<stored, pushed>>

Others(p) ==
    /\ DOMAIN poll' = Pollers
    /\ pc' \in [Pollers -> Steps]
    /\ \A q \in Pollers \ {p} : poll'[q] = poll[q] /\ pc'[q] = pc[q]
    /\ UNCHANGED <<airtags, apple, now>>

(* What every step of a poll preserves, and what it does to the alerts.    *)
Effect(p) ==
    /\ Others(p)
    /\ Shape(poll'[p])
    /\ pc'[p] \in Busy => poll'[p].queue # <<>>
    /\ \/ Aside(p) \/ Insertion(p) \/ Advance(p) \/ Proceed(p)
       \/ \E reason \in Reasons : Record(p, reason)

LEMMA GotoOthers ==
    ASSUME NEW p \in Pollers, PollTypes, NEW step \in Steps, Goto(p, step),
           UNCHANGED <<airtags, apple, now>>,
           poll' = poll \/ \E x : poll' = [poll EXCEPT ![p] = x]
    PROVE  Others(p) /\ pc'[p] = step
BY DEF PollTypes, Goto, Others

LEMMA AbandonEffect ==
    ASSUME NEW p \in Pollers, PollTypes, pc[p] \in Busy \/ poll[p].queue # <<>>, Abandon(p),
           UNCHANGED <<airtags, apple, now, stored, alerts, pushed>>
    PROVE  Effect(p)
<1> DEFINE x == [[IdlePoll EXCEPT !.queue = poll[p].queue] EXCEPT !.aborted = TRUE]
<1>1. poll' = [poll EXCEPT ![p] = x] /\ Goto(p, "save")
  BY DEF Abandon
<1>2. poll[p].queue \in Seq(AirTags) /\ poll[p].queue # <<>>
  BY DEF PollTypes, Shape
<1>3. Shape(x) /\ x.queue = poll[p].queue
  BY <1>2, IdleShape
<1> HIDE DEF x
<1>4. poll'[p] = x
  BY <1>1 DEF PollTypes
<1>5. Others(p) /\ pc'[p] = "save"
  BY <1>1, GotoOthers DEF Steps
<1> QED BY <1>2, <1>3, <1>4, <1>5 DEF Effect, Aside, Steps, Evaluating

LEMMA NextReportEffect ==
    ASSUME NEW p \in Pollers, PollTypes, pc[p] \in Evaluating, NextReport(p),
           pc[p] = "evaluate" => Todo(p) # <<>>,
           pushed' = pushed \/ (pc[p] = "pushAway" /\ Pushed(p)),
           UNCHANGED <<airtags, apple, now, stored, alerts>>
    PROVE  Effect(p)
<1> DEFINE rest == Tail(Todo(p))
           x == [poll[p] EXCEPT !.todo = rest]
           y == [x EXCEPT !.reason = None]
           w == [y EXCEPT !.previous = None]
           z == [w EXCEPT !.ownerLocation = None]
<1>1. Shape(poll[p]) /\ poll[p].queue # <<>>
  BY DEF PollTypes, Busy
<1> HIDE DEF rest
<1>2. Shape(x) /\ x.queue = poll[p].queue /\ x.todo = rest
  BY <1>1, FieldShape
<1> HIDE DEF x
<1>3. Shape(y) /\ y.queue = x.queue /\ y.todo = x.todo
  BY <1>2, FieldShape DEF Fields
<1> HIDE DEF y
<1>4. Shape(w) /\ w.queue = y.queue /\ w.todo = y.todo
  BY <1>3, FieldShape DEF Fields
<1> HIDE DEF w
<1>5. Shape(z) /\ z.queue = w.queue /\ z.todo = w.todo
  BY <1>4, FieldShape DEF Fields
<1>6. poll' = [poll EXCEPT ![p] = z] /\ Goto(p, "evaluate")
  BY Zenon DEF NextReport, x, y, w, rest, Todo
<1> HIDE DEF z
<1>7. poll'[p] = z
  BY <1>6 DEF PollTypes
<1>8. Others(p) /\ pc'[p] = "evaluate"
  BY <1>6, GotoOthers DEF Steps
<1> QED BY <1>1, <1>2, <1>3, <1>4, <1>5, <1>7, <1>8 DEF Effect, Advance, rest

LEMMA FieldEffect ==
    ASSUME NEW p \in Pollers, PollTypes,
           NEW f \in {"wasEmpty", "previous", "ownerLocation", "reason"}, NEW v,
           poll' = poll \/ poll' = [poll EXCEPT ![p] = [poll[p] EXCEPT ![f] = v]]
    PROVE  /\ Shape(poll'[p])
           /\ poll'[p].queue = poll[p].queue
           /\ poll'[p].todo = Todo(p)
           /\ poll' # poll => poll'[p][f] = v
<1> DEFINE x == [poll[p] EXCEPT ![f] = v]
<1>1. Shape(poll[p]) /\ "todo" \in Fields \ {f}
  BY DEF PollTypes, Fields
<1>2. /\ Shape(x) /\ x.queue = poll[p].queue /\ x[f] = v
      /\ \A g \in Fields \ {f} : x[g] = poll[p][g]
  BY <1>1, FieldShape
<1> HIDE DEF x
<1>3. x.todo = Todo(p)
  BY <1>1, <1>2 DEF Todo
<1>4. poll' = [poll EXCEPT ![p] = x] => poll'[p] = x
  BY DEF PollTypes
<1>5. poll' = poll \/ poll' = [poll EXCEPT ![p] = x]
  BY Zenon DEF x
<1> QED BY <1>1, <1>2, <1>3, <1>4, <1>5 DEF Todo

LEMMA RecordAlertEffect ==
    ASSUME NEW p \in Pollers, PollTypes, NEW reason \in Reasons, NEW previous,
           NEW step \in Steps, RecordAlert(p, reason, previous, step),
           \/ /\ pc[p] = "evaluate" /\ step = "push"
              /\ Todo(p) # <<>> /\ ~Untrusted(Report(p))
              /\ reason \in MovementReasons
           \/ pc[p] = "judge" /\ step = "pushAway" /\ reason \in AwayReasons,
           UNCHANGED <<airtags, apple, now, stored, pushed>>
    PROVE  Effect(p)
<1>1. CASE airtags[Current(p)] = "deleted"
  BY <1>1, AbandonEffect DEF RecordAlert, Busy, Evaluating
<1>2. CASE airtags[Current(p)] # "deleted"
  <2> DEFINE y == [poll[p] EXCEPT !.reason = reason]
             x == [y EXCEPT !.previous = previous]
  <2>1. /\ alerts' = [alerts EXCEPT ![Current(p)][<<Report(p).t, reason>>] = @ + 1]
        /\ poll' = [poll EXCEPT ![p] = x]
        /\ Goto(p, step)
    BY Zenon, <1>2 DEF RecordAlert
  <2>2. Shape(x) /\ x.queue = poll[p].queue /\ x.todo = Todo(p) /\ x.reason = reason
    <3>1. Shape(y) /\ y.queue = poll[p].queue /\ y.todo = Todo(p) /\ y.reason = reason
      <4>1. Shape(poll[p]) /\ {"queue", "todo"} \subseteq Fields \ {"reason"}
        BY DEF PollTypes, Fields
      <4> QED BY <4>1, FieldShape DEF Todo
    <3> HIDE DEF y
    <3>2. {"todo", "reason"} \subseteq Fields \ {"previous"}
      BY DEF Fields
    <3> QED BY <3>1, <3>2, FieldShape
  <2> HIDE DEF x
  <2>3. poll'[p] = x
    BY <2>1 DEF PollTypes
  <2>4. Others(p) /\ pc'[p] = step
    BY <2>1, GotoOthers
  <2>5. poll[p].queue # <<>>
    BY DEF PollTypes, Busy, Evaluating
  <2>6. Record(p, reason)
    BY <1>2, <2>1, <2>2, <2>3, <2>4 DEF Record
  <2> QED BY <2>2, <2>3, <2>4, <2>5, <2>6 DEF Effect
<1> QED BY <1>1, <1>2

LEMMA InsertReportsEffect ==
    ASSUME NEW p \in Pollers, PollTypes, InsertReports(p)
    PROVE  Effect(p)
<1> DEFINE a == Current(p)
           batch == poll[p].batch
           rows == {batch[i] : i \in NewlyInserted(a, batch)}
<1>1. CASE airtags[a] = "deleted"
  BY <1>1, AbandonEffect DEF InsertReports, worldVars, At, Busy
<1>2. CASE airtags[a] # "deleted"
  <2>1. /\ stored' = [stored EXCEPT ![a] = @ \cup rows]
        /\ UNCHANGED <<airtags, apple, now, alerts, pushed>>
        /\ Goto(p, "evaluate")
        /\ pc[p] = "insert"
    BY <1>2 DEF InsertReports, Inserted, worldVars, At
  <2>2. PICK s \in InTimeOrder(rows) :
          poll' = [poll EXCEPT ![p].batch = <<>>, ![p].wasEmpty = FALSE,
                               ![p].todo = ToEvaluate(s, poll[p].wasEmpty)]
    BY <1>2 DEF InsertReports
  <2> DEFINE todo == ToEvaluate(s, poll[p].wasEmpty)
             x == [poll[p] EXCEPT !.batch = <<>>]
             y == [x EXCEPT !.wasEmpty = FALSE]
             z == [y EXCEPT !.todo = todo]
  <2>3. Shape(poll[p])
    BY DEF PollTypes
  <2>4. Shape(x) /\ x.queue = poll[p].queue
    <3>1. DOMAIN x = Fields /\ x.queue = poll[p].queue /\ x.batch = <<>>
      BY <2>3 DEF Shape, Fields
    <3>2. DOMAIN <<>> = 1 .. 0
      OBVIOUS
    <3> HIDE DEF x
    <3> QED BY <2>3, <3>1, <3>2 DEF Shape
  <2> HIDE DEF x, todo
  <2>5. Shape(y) /\ y.queue = x.queue
    BY <2>4, FieldShape
  <2> HIDE DEF y
  <2>6. Shape(z) /\ z.queue = y.queue /\ z.todo = todo
    BY <2>5, FieldShape
  <2>7. poll' = [poll EXCEPT ![p] = z]
    BY Zenon, <2>2 DEF x, y, todo
  <2> HIDE DEF z
  <2>8. poll'[p] = z
    BY <2>7 DEF PollTypes
  <2>9. Others(p) /\ pc'[p] = "evaluate"
    BY <2>1, <2>7, GotoOthers DEF Steps
  <2>10. poll[p].queue # <<>>
    BY <2>1 DEF PollTypes, Busy
  <2>11. todo = <<>> \/ todo \in InTimeOrder(rows)
    BY DEF todo, ToEvaluate
  <2>12. Insertion(p)
    BY <1>2, <2>1, <2>4, <2>5, <2>6, <2>8, <2>9, <2>11 DEF Insertion
  <2> QED BY <2>4, <2>5, <2>6, <2>8, <2>9, <2>10, <2>12 DEF Effect
<1> QED BY <1>1, <1>2

LEMMA FetchHistoryEffect ==
    ASSUME NEW p \in Pollers, PollTypes, FetchHistory(p)
    PROVE  Effect(p)
<1> DEFINE a == Current(p)
<1>1. /\ UNCHANGED <<airtags, apple, now, stored, alerts, pushed>>
      /\ poll[p].queue # <<>>
      /\ Shape(poll[p])
      /\ pc[p] = "airtag"
  BY DEF FetchHistory, dbVars, worldVars, PollTypes, At
<1>2. CASE Answer(a) = {}
  <2>1. poll' = poll /\ Goto(p, "save")
    BY <1>2 DEF FetchHistory
  <2>2. Others(p) /\ pc'[p] = "save"
    BY <1>1, <2>1, GotoOthers DEF Steps
  <2> QED BY <1>1, <2>1, <2>2 DEF Effect, Aside, Steps, Evaluating
<1>3. CASE Answer(a) # {}
  <2>1. Goto(p, "insert")
    BY <1>3 DEF FetchHistory
  <2>2. PICK s \in History(a) :
          poll' = [poll EXCEPT
                    ![p].batch = FlagOutliers(s, Baseline(a, s[1].t)),
                    ![p].wasEmpty = (stored[a] = {})]
    BY Zenon, <1>3 DEF FetchHistory
  <2> DEFINE batch == FlagOutliers(s, Baseline(a, s[1].t))
             x == [poll[p] EXCEPT !.batch = batch]
             y == [x EXCEPT !.wasEmpty = (stored[a] = {})]
  <2>3. a \in AirTags
    BY <1>1 DEF Shape, Current
  <2>4. s \in Seq(Answer(a)) /\ \A i \in DOMAIN s : s[i].t \in Times
    <3>1. IsFiniteSet(Answer(a)) /\ \A r \in Answer(a) : r.t \in Times
      BY <2>3, ReportsAssumption, FS_Subset DEF PollTypes, Answer
    <3>2. s \in Seq(Answer(a))
      BY <3>1, Enumerated DEF History
    <3> QED BY <3>1, <3>2
  <2>5. DOMAIN batch = 1 .. Len(s) /\ Len(s) \in Nat
    BY <2>4 DEF FlagOutliers
  <2>6. \A i \in DOMAIN batch : batch[i].t \in Times
    BY <2>4, <2>5 DEF FlagOutliers, Row
  <2> HIDE DEF batch
  <2>7. Shape(x) /\ x.queue = poll[p].queue
    <3>1. DOMAIN x = Fields /\ x.queue = poll[p].queue /\ x.batch = batch
      BY <1>1 DEF Shape, Fields
    <3> HIDE DEF x
    <3> QED BY <1>1, <2>5, <2>6, <3>1 DEF Shape
  <2> HIDE DEF x
  <2>8. Shape(y) /\ y.queue = x.queue
    BY <2>7, FieldShape
  <2>9. poll' = [poll EXCEPT ![p] = y]
    BY Zenon, <2>2 DEF x, batch
  <2> HIDE DEF y
  <2>10. poll'[p] = y
    BY <2>9 DEF PollTypes
  <2>11. Others(p) /\ pc'[p] = "insert"
    BY <1>1, <2>1, <2>9, GotoOthers DEF Steps
  <2> QED BY <1>1, <2>7, <2>8, <2>10, <2>11 DEF Effect, Aside, Steps, Evaluating
<1> QED BY <1>2, <1>3

LEMMA ListAirtagsEffect ==
    ASSUME NEW p \in Pollers, PollTypes, ListAirtags(p)
    PROVE  Effect(p)
<1>1. UNCHANGED <<airtags, apple, now, stored, alerts, pushed>>
  BY DEF ListAirtags, dbVars, worldVars
<1>2. Shape(poll[p])
  BY DEF PollTypes
<1>3. CASE poll' = poll /\ Goto(p, "release")
  <2>1. Others(p) /\ pc'[p] = "release"
    BY <1>1, <1>3, GotoOthers DEF Steps
  <2> QED BY <1>1, <1>2, <1>3, <2>1 DEF Effect, Aside, Steps, Evaluating, Busy
<1>4. CASE /\ Goto(p, "airtag")
           /\ \E q \in [1 .. Cardinality({a \in AirTags : airtags[a] = "enabled"})
                          -> {a \in AirTags : airtags[a] = "enabled"}] :
                 poll' = [poll EXCEPT ![p].queue = q]
  <2> DEFINE enabled == {a \in AirTags : airtags[a] = "enabled"}
  <2>1. PICK q \in [1 .. Cardinality(enabled) -> enabled] :
               poll' = [poll EXCEPT ![p] = [poll[p] EXCEPT !.queue = q]]
    BY <1>4
  <2>2. Cardinality(enabled) \in Nat
    BY AirTagsAssumption, FS_Subset, FS_CardinalityType
  <2>3. q \in Seq(AirTags)
    <3> DEFINE n == Cardinality(enabled)
    <3>1. q \in [1 .. n -> AirTags] /\ n \in Nat
      BY <2>1, <2>2
    <3> HIDE DEF n
    <3> QED BY <3>1
  <2> DEFINE x == [poll[p] EXCEPT !.queue = q]
  <2>4. DOMAIN x = Fields /\ x.queue = q /\ x.batch = poll[p].batch
    BY <1>2 DEF Shape, Fields
  <2> HIDE DEF x
  <2>5. Shape(x)
    BY <1>2, <2>3, <2>4 DEF Shape
  <2>6. poll' = [poll EXCEPT ![p] = x]
    BY Zenon, <2>1 DEF x
  <2>7. poll'[p] = x
    BY <2>6 DEF PollTypes
  <2>8. Others(p) /\ pc'[p] = "airtag"
    BY <1>1, <1>4, <2>6, GotoOthers DEF Steps
  <2> QED BY <1>1, <2>5, <2>7, <2>8 DEF Effect, Aside, Steps, Evaluating, Busy
<1> QED BY Zenon, <1>3, <1>4 DEF ListAirtags

(* The steps of a poll that is between two AirTags.                        *)
LEMMA OuterEffect ==
    ASSUME NEW p \in Pollers, PollTypes,
           \/ Acquire(p) \/ OwnerPhase(p) \/ FetchFails(p) \/ NoMoreReports(p)
           \/ NoMoreAirtags(p)
    PROVE  Effect(p)
<1>1. UNCHANGED <<airtags, apple, now, stored, alerts, pushed, poll>>
  BY DEF Acquire, OwnerPhase, FetchFails, NoMoreReports, NoMoreAirtags, dbVars, worldVars
<1>2. PICK step \in {"owner", "list", "release", "save"} :
         Goto(p, step) /\ (step = "save" => poll[p].queue # <<>>)
  BY DEF Acquire, OwnerPhase, FetchFails, NoMoreReports, NoMoreAirtags, PollTypes, Busy,
         Evaluating, At
<1>3. Others(p) /\ pc'[p] = step
  BY <1>1, <1>2, GotoOthers DEF Steps
<1> QED BY <1>1, <1>2, <1>3 DEF Effect, Aside, Steps, Evaluating, Busy, PollTypes

LEMMA SaveSessionEffect ==
    ASSUME NEW p \in Pollers, PollTypes, SaveSession(p)
    PROVE  Effect(p)
<1> DEFINE x == [[IdlePoll EXCEPT !.queue = Tail(poll[p].queue)]
                    EXCEPT !.aborted = poll[p].aborted]
<1>1. /\ UNCHANGED <<airtags, apple, now, stored, alerts, pushed>>
      /\ Goto(p, "airtag")
      /\ pc[p] = "save"
  BY DEF SaveSession, dbVars, worldVars, At
<1>2. poll' = [poll EXCEPT ![p] = x]
  BY Zenon DEF SaveSession
<1>3. Tail(poll[p].queue) \in Seq(AirTags)
  BY <1>1 DEF PollTypes, Shape, Busy
<1>4. Shape(x)
  BY <1>3, IdleShape
<1> HIDE DEF x
<1>5. poll'[p] = x
  BY <1>2 DEF PollTypes
<1>6. Others(p) /\ pc'[p] = "airtag"
  BY <1>1, <1>2, GotoOthers DEF Steps
<1> QED BY <1>1, <1>4, <1>5, <1>6 DEF Effect, Aside, Steps, Evaluating, Busy

LEMMA ReleaseEffect ==
    ASSUME NEW p \in Pollers, PollTypes, Release(p)
    PROVE  Effect(p)
<1>1. /\ UNCHANGED <<airtags, apple, now, stored, alerts, pushed>>
      /\ Goto(p, "idle")
      /\ poll' = [poll EXCEPT ![p] = IdlePoll]
  BY DEF Release, dbVars, worldVars
<1>2. Shape(IdlePoll)
  <2>1. <<>> \in Seq(AirTags)
    OBVIOUS
  <2> QED BY <2>1, IdleShape
<1>3. poll'[p] = IdlePoll
  BY <1>1 DEF PollTypes
<1>4. Others(p) /\ pc'[p] = "idle"
  BY <1>1, GotoOthers DEF Steps
<1> QED BY <1>1, <1>2, <1>3, <1>4 DEF Effect, Aside, Steps, Evaluating, Busy

LEMMA EvaluateReportEffect ==
    ASSUME NEW p \in Pollers, PollTypes, EvaluateReport(p)
    PROVE  Effect(p)
<1> DEFINE reason == EvaluateMovement(Report(p), ReportsBefore(Current(p), Report(p).t), Cfg)
<1>1. /\ UNCHANGED <<airtags, apple, now, stored, pushed>>
      /\ pc[p] = "evaluate" /\ Todo(p) # <<>> /\ ~Untrusted(Report(p))
  BY DEF EvaluateReport, worldVars, At, Todo
<1>2. CASE reason = None
  <2>1. alerts' = alerts /\ Goto(p, "away")
    BY <1>2 DEF EvaluateReport
  <2>2. PICK v : poll' = [poll EXCEPT ![p] = [poll[p] EXCEPT !["previous"] = v]]
    BY Zenon, <1>2 DEF EvaluateReport
  <2>3. /\ Shape(poll'[p])
        /\ poll'[p].queue = poll[p].queue
        /\ poll'[p].todo = Todo(p)
    BY <2>2, FieldEffect
  <2>4. Others(p) /\ pc'[p] = "away"
    BY <1>1, <2>1, <2>2, GotoOthers DEF Steps
  <2>5. poll[p].queue # <<>>
    BY <1>1 DEF PollTypes, Busy, Evaluating
  <2> QED BY <1>1, <2>1, <2>3, <2>4, <2>5 DEF Effect, Proceed, Todo
<1>3. CASE reason # None
  <2>1. PICK previous : RecordAlert(p, reason, previous, "push")
    BY <1>3 DEF EvaluateReport
  <2>2. reason \in MovementReasons
    BY <1>3 DEF EvaluateMovement, MovementReasons
  <2> HIDE DEF reason
  <2> QED BY <1>1, <2>1, <2>2, RecordAlertEffect DEF Steps, Reasons
<1> QED BY <1>2, <1>3

LEMMA PushMovementEffect ==
    ASSUME NEW p \in Pollers, PollTypes, PushMovement(p)
    PROVE  Effect(p)
<1>1. /\ UNCHANGED <<airtags, apple, now, stored, alerts, poll>>
      /\ pc[p] = "push" /\ Goto(p, "away") /\ Pushed(p)
  BY DEF PushMovement, dbVars, worldVars, At, Pushed
<1>2. Others(p) /\ pc'[p] = "away"
  BY <1>1, GotoOthers DEF Steps
<1>3. Shape(poll[p]) /\ poll[p].queue # <<>>
  BY <1>1 DEF PollTypes, Busy, Evaluating
<1> QED BY <1>1, <1>2, <1>3 DEF Effect, Proceed, Todo

LEMMA LocateOwnerEffect ==
    ASSUME NEW p \in Pollers, PollTypes, LocateOwner(p)
    PROVE  Effect(p)
<1>1. /\ UNCHANGED <<airtags, apple, now, stored, alerts, pushed>>
      /\ pc[p] = "away"
  BY DEF LocateOwner, dbVars, worldVars, At
<1>2. CASE NextReport(p)
  BY <1>1, <1>2, NextReportEffect DEF Evaluating
<1>3. CASE Goto(p, "judge") /\ \E v : poll' = [poll EXCEPT ![p].ownerLocation = v]
  <2>1. PICK v : poll' = [poll EXCEPT ![p] = [poll[p] EXCEPT !["ownerLocation"] = v]]
    BY <1>3
  <2>2. /\ Shape(poll'[p])
        /\ poll'[p].queue = poll[p].queue
        /\ poll'[p].todo = Todo(p)
    BY <2>1, FieldEffect
  <2>3. Others(p) /\ pc'[p] = "judge"
    BY <1>1, <1>3, <2>1, GotoOthers DEF Steps
  <2>4. poll[p].queue # <<>>
    BY <1>1 DEF PollTypes, Busy, Evaluating
  <2> QED BY <1>1, <2>2, <2>3, <2>4 DEF Effect, Proceed
<1>4. NextReport(p) \/ \E v : poll' = [poll EXCEPT ![p].ownerLocation = v]
  BY Zenon DEF LocateOwner
<1>5. NextReport(p) \/ Goto(p, "judge")
  BY DEF LocateOwner
<1> QED BY Zenon, <1>2, <1>3, <1>4, <1>5

LEMMA JudgeAwayEffect ==
    ASSUME NEW p \in Pollers, PollTypes, JudgeAway(p)
    PROVE  Effect(p)
<1>1. /\ UNCHANGED <<airtags, apple, now, stored, pushed>>
      /\ pc[p] = "judge"
  BY DEF JudgeAway, worldVars, At
<1>2. CASE NextReport(p) /\ alerts' = alerts
  BY <1>1, <1>2, NextReportEffect DEF Evaluating
<1>3. CASE \E previous :
             RecordAlert(p, AwayReason(Report(p), previous, Cfg), previous, "pushAway")
  <2>1. PICK previous : RecordAlert(p, AwayReason(Report(p), previous, Cfg), previous, "pushAway")
    BY <1>3
  <2>2. AwayReason(Report(p), previous, Cfg) \in AwayReasons
    BY DEF AwayReason, AwayReasons
  <2> QED BY <1>1, <2>1, <2>2, RecordAlertEffect DEF Steps, Reasons
<1>4. \/ NextReport(p) /\ alerts' = alerts
      \/ \E previous : RecordAlert(p, AwayReason(Report(p), previous, Cfg), previous, "pushAway")
  BY Zenon DEF JudgeAway
<1> QED BY Zenon, <1>2, <1>3, <1>4

(* Every step of a poll has one of these effects.                          *)
LEMMA EffectOfStep ==
    ASSUME NEW p \in Pollers, PollTypes, PollStep(p)
    PROVE  Effect(p)
<1>1. CASE SkipReport(p)
  <2>1. /\ UNCHANGED <<airtags, apple, now, stored, alerts>>
        /\ pushed' = pushed
        /\ pc[p] = "evaluate" /\ NextReport(p) /\ Todo(p) # <<>>
    BY <1>1 DEF SkipReport, dbVars, worldVars, At, Todo
  <2>2. pc[p] \in Evaluating
    BY <2>1 DEF Evaluating
  <2> QED BY Zenon, <2>1, <2>2, NextReportEffect
<1>2. CASE PushAway(p)
  <2>1. /\ UNCHANGED <<airtags, apple, now, stored, alerts>>
        /\ pc[p] = "pushAway" /\ NextReport(p) /\ Pushed(p)
    BY <1>2 DEF PushAway, dbVars, worldVars, At, Pushed
  <2> QED BY <2>1, NextReportEffect DEF Evaluating
<1>3. CASE DatabaseError(p)
  BY <1>3, AbandonEffect DEF DatabaseError, dbVars, worldVars
<1> QED BY <1>1, <1>2, <1>3, OuterEffect, ListAirtagsEffect, FetchHistoryEffect,
          InsertReportsEffect, EvaluateReportEffect, PushMovementEffect,
          LocateOwnerEffect, JudgeAwayEffect, SaveSessionEffect, ReleaseEffect
          DEF PollStep
-----------------------------------------------------------------------------
LEMMA CurrentTag ==
    ASSUME NEW p \in Pollers, PollTypes, pc[p] \in Busy
    PROVE  Current(p) \in AirTags
BY DEF PollTypes, Shape, Current

LEMMA OtherPolls ==
    ASSUME NEW p \in Pollers, Others(p), NEW q \in Pollers \ {p}
    PROVE  /\ Todo(q)' = Todo(q) /\ Current(q)' = Current(q) /\ Report(q)' = Report(q)
           /\ pc'[q] = pc[q] /\ poll'[q].reason = poll[q].reason
           /\ Live(q)' = Live(q)
<1>1. poll'[q] = poll[q] /\ pc'[q] = pc[q] /\ airtags' = airtags
  BY DEF Others
<1> QED BY <1>1 DEF Todo, Current, Report, Live

(* The report that is evaluated is a row.                                  *)
LEMMA ReportStored ==
    ASSUME NEW p \in Pollers, PollTypes, AlertTypes, pc[p] \in Evaluating,
           TodoIsStored(p), pc[p] # "evaluate" \/ Todo(p) # <<>>, TodoIsTrusted(p)
    PROVE  /\ Current(p) \in AirTags
           /\ 1 \in DOMAIN Todo(p) /\ Report(p) = Todo(p)[1]
           /\ Report(p) \in stored[Current(p)]
           /\ Report(p).t \in Times
<1>1. Current(p) \in AirTags
  BY CurrentTag DEF Busy
<1>2. Todo(p) \in Seq(stored[Current(p)]) /\ Todo(p) # <<>>
  BY DEF TodoIsStored, TodoIsTrusted
<1>3. /\ 1 \in DOMAIN Todo(p) /\ Report(p) = Todo(p)[1]
      /\ Todo(p)[1] \in stored[Current(p)]
  BY <1>2 DEF Report, Todo
<1> QED BY <1>1, <1>3 DEF AlertTypes

(* A step that leaves the alerts of another poll's AirTag alone, as far as *)
(* that poll's reports go, and takes no row away.                          *)
LEMMA OtherTodo ==
    ASSUME NEW p \in Pollers, Others(p), NEW q \in Pollers \ {p}, TodoInv, Live(q),
           AlertTypes, PollTypes, stored[Current(q)] \subseteq stored'[Current(q)],
           \A i \in DOMAIN Todo(q), x \in Reasons :
              alerts'[Current(q)][<<Todo(q)[i].t, x>>] = alerts[Current(q)][<<Todo(q)[i].t, x>>],
           \A t \in Times, x \in Reasons :
              alerts[Current(q)][<<t, x>>] > 0 => alerts'[Current(q)][<<t, x>>] > 0
    PROVE  OwnTodo(q)'
<1>1. OwnTodo(q)
  BY DEF TodoInv
<1>2. /\ Todo(q)' = Todo(q) /\ Current(q)' = Current(q) /\ Report(q)' = Report(q)
      /\ pc'[q] = pc[q] /\ poll'[q].reason = poll[q].reason
  BY OtherPolls
<1>3. TodoIsStored(q)'
  <2>1. Todo(q) \in Seq(stored[Current(q)])
    BY <1>1 DEF OwnTodo, TodoIsStored
  <2>2. Todo(q) \in Seq(stored'[Current(q)])
    BY <2>1
  <2> QED BY <1>1, <1>2, <2>2 DEF OwnTodo, TodoIsStored
<1>4. TodoIsTrusted(q)'
  BY <1>1, <1>2 DEF OwnTodo, TodoIsTrusted, Untrusted
<1>5. TodoIsClear(q)'
  BY <1>1, <1>2 DEF OwnTodo, TodoIsClear
<1>6. ReasonIsRecorded(q)'
  <2>1. SUFFICES ASSUME pc[q] \in {"push", "pushAway"}
                 PROVE  ReasonIsRecorded(q)'
    BY <1>2 DEF ReasonIsRecorded
  <2>2. Report(q).t \in Times
    BY <1>1, <2>1, ReportStored DEF OwnTodo, Evaluating
  <2>3. poll[q].reason \in Reasons /\ alerts[Current(q)][<<Report(q).t, poll[q].reason>>] > 0
    BY <1>1, <2>1 DEF OwnTodo, ReasonIsRecorded
  <2> QED BY <1>2, <2>2, <2>3 DEF ReasonIsRecorded
<1> QED BY <1>3, <1>4, <1>5, <1>6 DEF OwnTodo

(* Two polls that go on with no more than they had stay apart.             *)
LEMMA StayDisjoint ==
    ASSUME NEW p \in Pollers, Others(p), TodoInv,
           Live(p)' => /\ OwnTodo(p)' /\ Live(p) /\ Current(p)' = Current(p)
                       /\ \A i \in DOMAIN Todo(p)' : \E j \in DOMAIN Todo(p) :
                             Todo(p)'[i] = Todo(p)[j],
           \A q \in Pollers \ {p} : Live(q) => OwnTodo(q)'
    PROVE  TodoInv'
<1>1. ASSUME NEW q \in Pollers, Live(q)'
      PROVE  OwnTodo(q)'
  BY <1>1, OtherPolls
<1>2. ASSUME NEW q \in Pollers \ {p}, NEW u \in Pollers \ {p}, u # q, Live(q)', Live(u)'
      PROVE  TodosAreDisjoint(q, u)'
  BY <1>2, OtherPolls DEF TodoInv, TodosAreDisjoint
<1>3. ASSUME NEW q \in Pollers \ {p}, Live(q)', Live(p)'
      PROVE  TodosAreDisjoint(p, q)' /\ TodosAreDisjoint(q, p)'
  <2>1. Live(q) /\ Live(p)
    BY <1>3, OtherPolls
  <2>2. TodosAreDisjoint(p, q)
    BY <2>1 DEF TodoInv
  <2>3. /\ Current(p)' = Current(p) /\ Current(q)' = Current(q) /\ Todo(q)' = Todo(q)
        /\ \A i \in DOMAIN Todo(p)' : \E j \in DOMAIN Todo(p) : Todo(p)'[i] = Todo(p)[j]
    BY <1>3, OtherPolls
  <2> QED BY <2>2, <2>3 DEF TodosAreDisjoint
<1> QED BY <1>1, <1>2, <1>3 DEF TodoInv

LEMMA AsideTodo ==
    ASSUME NEW p \in Pollers, Others(p), PollTypes, AlertTypes, TodoInv, Aside(p)
    PROVE  TodoInv'
<1>1. ~Live(p)'
  BY DEF Aside, Live
<1>2. \A q \in Pollers \ {p} : Live(q) => OwnTodo(q)'
  BY OtherTodo DEF Aside
<1> QED BY <1>1, <1>2, StayDisjoint

LEMMA AdvanceTodo ==
    ASSUME NEW p \in Pollers, Others(p), PollTypes, AlertTypes, TodoInv, Advance(p)
    PROVE  TodoInv'
<1>1. \A q \in Pollers \ {p} : Live(q) => OwnTodo(q)'
  BY OtherTodo DEF Advance
<1>2. ASSUME Live(p)'
      PROVE  /\ OwnTodo(p)' /\ Live(p) /\ Current(p)' = Current(p)
             /\ \A i \in DOMAIN Todo(p)' : \E j \in DOMAIN Todo(p) : Todo(p)'[i] = Todo(p)[j]
  <2>1. /\ Current(p)' = Current(p) /\ Todo(p)' = Tail(Todo(p))
        /\ airtags' = airtags /\ stored' = stored /\ alerts' = alerts
        /\ pc'[p] = "evaluate"
    BY DEF Advance, Current, Todo, Others
  <2>2. Live(p)
    BY <1>2, <2>1 DEF Live, Advance
  <2>3. OwnTodo(p)
    BY <2>2 DEF TodoInv
  <2>4. Todo(p) \in Seq(stored[Current(p)]) /\ Todo(p) # <<>>
    BY <2>3 DEF OwnTodo, TodoIsStored, TodoIsTrusted, Advance
  <2> DEFINE n == Len(Todo(p))
             rest == Tail(Todo(p))
  <2>5. /\ n \in Nat \ {0} /\ DOMAIN Todo(p) = 1 .. n
        /\ DOMAIN rest = 1 .. n - 1 /\ rest \in Seq(stored[Current(p)])
        /\ \A i \in 1 .. n - 1 : rest[i] = Todo(p)[i + 1]
    BY <2>4
  <2> HIDE DEF n, rest
  <2>6. TodoIsStored(p)'
    <3>1. \A i, j \in DOMAIN Todo(p) : i # j => Todo(p)[i].t # Todo(p)[j].t
      BY <2>3 DEF OwnTodo, TodoIsStored
    <3>2. ASSUME NEW i \in 1 .. n - 1, NEW j \in 1 .. n - 1, i # j
          PROVE  rest[i].t # rest[j].t
      <4>1. i + 1 \in 1 .. n /\ j + 1 \in 1 .. n /\ i + 1 # j + 1
        BY <2>5, <3>2
      <4>2. rest[i] = Todo(p)[i + 1] /\ rest[j] = Todo(p)[j + 1]
        BY <2>5
      <4>3. i + 1 \in DOMAIN Todo(p) /\ j + 1 \in DOMAIN Todo(p)
        BY <2>5, <4>1
      <4>4. Todo(p)[i + 1].t # Todo(p)[j + 1].t
        BY Zenon, <3>1, <4>1, <4>3
      <4> QED BY <4>2, <4>4
    <3> QED BY <2>1, <2>5, <3>2 DEF TodoIsStored, rest
  <2>7. TodoIsClear(p)'
    <3>1. \A i \in DOMAIN Todo(p), x \in Reasons :
             i > 1 => alerts[Current(p)][<<Todo(p)[i].t, x>>] = 0
      BY <2>3 DEF OwnTodo, TodoIsClear
    <3>2. \A i \in DOMAIN rest, x \in Reasons :
             alerts[Current(p)][<<rest[i].t, x>>] = 0
      BY <2>5, <3>1
    <3> QED BY <2>1, <3>2 DEF TodoIsClear, rest
  <2>8. TodoIsTrusted(p)' /\ ReasonIsRecorded(p)'
    BY <2>1 DEF TodoIsTrusted, ReasonIsRecorded
  <2> QED BY <2>1, <2>2, <2>5, <2>6, <2>7, <2>8 DEF OwnTodo, rest
<1> QED BY <1>1, <1>2, StayDisjoint

LEMMA ProceedTodo ==
    ASSUME NEW p \in Pollers, Others(p), PollTypes, AlertTypes, TodoInv, Proceed(p)
    PROVE  TodoInv'
<1>1. \A q \in Pollers \ {p} : Live(q) => OwnTodo(q)'
  BY OtherTodo DEF Proceed
<1>2. ASSUME Live(p)'
      PROVE  /\ OwnTodo(p)' /\ Live(p) /\ Current(p)' = Current(p)
             /\ Todo(p)' = Todo(p)
  <2>1. /\ Current(p)' = Current(p) /\ Todo(p)' = Todo(p) /\ Report(p)' = Report(p)
        /\ airtags' = airtags /\ stored' = stored /\ alerts' = alerts
        /\ \/ pc[p] = "evaluate" /\ pc'[p] = "away" /\ Todo(p) # <<>> /\ ~Untrusted(Report(p))
           \/ pc[p] \in {"push", "away"} /\ pc'[p] \in {"away", "judge"}
    BY DEF Proceed, Current, Todo, Others, Report
  <2>2. Live(p)
    BY <1>2, <2>1 DEF Live, Evaluating
  <2>3. OwnTodo(p)
    BY <2>2 DEF TodoInv
  <2>4. TodoIsStored(p)'
    BY <2>1, <2>3 DEF OwnTodo, TodoIsStored
  <2>5. TodoIsTrusted(p)'
    BY <2>1, <2>3 DEF OwnTodo, TodoIsTrusted, Untrusted
  <2>6. TodoIsClear(p)'
    BY <2>1, <2>3 DEF OwnTodo, TodoIsClear
  <2>7. ReasonIsRecorded(p)'
    BY <2>1 DEF ReasonIsRecorded
  <2> QED BY <2>1, <2>2, <2>4, <2>5, <2>6, <2>7 DEF OwnTodo
<1> QED BY <1>1, <1>2, StayDisjoint

(* The alert that is recorded is the first of its kind for its report.     *)
LEMMA RecordedAlert ==
    ASSUME NEW p \in Pollers, PollTypes, AlertTypes, TodoInv,
           NEW reason \in Reasons, Record(p, reason)
    PROVE  LET a == Current(p)
               r == Report(p)
           IN  /\ Live(p) /\ a \in AirTags
               /\ 1 \in DOMAIN Todo(p) /\ r = Todo(p)[1]
               /\ r \in stored[a] /\ r.t \in Times /\ ~Untrusted(r)
               /\ \/ reason \in AwayReasons /\ \A x \in AwayReasons : alerts[a][<<r.t, x>>] = 0
                  \/ /\ reason \in MovementReasons
                     /\ \A x \in Reasons : alerts[a][<<r.t, x>>] = 0
               /\ alerts' \in [AirTags -> [Times \X Reasons -> Nat]]
               /\ \A b \in AirTags, t \in Times, x \in Reasons :
                     alerts'[b][<<t, x>>] =
                        IF b = a /\ t = r.t /\ x = reason THEN alerts[b][<<t, x>>] + 1
                        ELSE alerts[b][<<t, x>>]
<1> DEFINE a == Current(p)
           r == Report(p)
<1>1. Live(p) /\ pc[p] \in {"evaluate", "judge"} /\ (pc[p] = "evaluate" => Todo(p) # <<>>)
  BY DEF Record, Live, Evaluating
<1>2. OwnTodo(p)
  BY <1>1 DEF TodoInv
<1>3. /\ a \in AirTags /\ 1 \in DOMAIN Todo(p) /\ r = Todo(p)[1]
      /\ r \in stored[a] /\ r.t \in Times
  BY <1>1, <1>2, ReportStored DEF OwnTodo, Live
<1>4. ~Untrusted(r)
  BY <1>2 DEF OwnTodo, TodoIsTrusted, Record
<1>5. \/ reason \in AwayReasons /\ \A x \in AwayReasons : alerts[a][<<r.t, x>>] = 0
      \/ reason \in MovementReasons /\ \A x \in Reasons : alerts[a][<<r.t, x>>] = 0
  BY <1>2, <1>3 DEF OwnTodo, TodoIsClear, Record, Reasons
<1> DEFINE k == <<r.t, reason>>
<1>6. k \in Times \X Reasons
  BY <1>3
<1>7. alerts' = [alerts EXCEPT ![a] = [alerts[a] EXCEPT ![k] = alerts[a][k] + 1]]
  BY DEF Record
<1>8. alerts \in [AirTags -> [Times \X Reasons -> Nat]]
  BY DEF AlertTypes
<1> HIDE DEF a, r
<1>9. alerts' \in [AirTags -> [Times \X Reasons -> Nat]]
  <2> HIDE DEF k
  <2> DEFINE K == Times \X Reasons
  <2>1. alerts[a] \in [K -> Nat] /\ k \in K
    BY <1>3, <1>6, <1>8
  <2>2. alerts \in [AirTags -> [K -> Nat]]
    BY <1>8
  <2> HIDE DEF K
  <2>3. [alerts[a] EXCEPT ![k] = alerts[a][k] + 1] \in [K -> Nat]
    BY <2>1
  <2>4. alerts' \in [AirTags -> [K -> Nat]]
    BY <1>7, <2>2, <2>3
  <2> QED BY <2>4 DEF K
<1>10. ASSUME NEW b \in AirTags, NEW t \in Times, NEW x \in Reasons
       PROVE  alerts'[b][<<t, x>>] =
                 IF b = a /\ t = r.t /\ x = reason THEN alerts[b][<<t, x>>] + 1
                 ELSE alerts[b][<<t, x>>]
  <2>1. <<t, x>> \in Times \X Reasons /\ (<<t, x>> = k <=> t = r.t /\ x = reason)
    OBVIOUS
  <2> HIDE DEF k
  <2> QED BY <1>3, <1>7, <1>8, <2>1
<1> QED BY <1>1, <1>3, <1>4, <1>5, <1>9, <1>10 DEF a, r

LEMMA RecordTodo ==
    ASSUME NEW p \in Pollers, Others(p), PollTypes, AlertTypes, TodoInv,
           NEW reason \in Reasons, Record(p, reason)
    PROVE  TodoInv'
<1> DEFINE a == Current(p)
           r == Report(p)
<1>1. /\ Live(p) /\ a \in AirTags
      /\ 1 \in DOMAIN Todo(p) /\ r = Todo(p)[1]
      /\ r.t \in Times /\ ~Untrusted(r)
  BY RecordedAlert
<1>2. \A b \in AirTags, t \in Times, x \in Reasons :
         alerts'[b][<<t, x>>] =
            IF b = a /\ t = r.t /\ x = reason THEN alerts[b][<<t, x>>] + 1
            ELSE alerts[b][<<t, x>>]
  BY RecordedAlert
<1>3. OwnTodo(p)
  BY <1>1 DEF TodoInv
<1>4. stored' = stored
  BY DEF Record
<1> HIDE DEF a, r
<1>5. ASSUME NEW q \in Pollers \ {p}, Live(q)
      PROVE  OwnTodo(q)'
  <2>1. Current(q) \in AirTags
    BY <1>5, CurrentTag DEF Live, Busy
  <2>2. OwnTodo(q) /\ TodosAreDisjoint(p, q)
    BY <1>1, <1>5 DEF TodoInv
  <2>3. \A i \in DOMAIN Todo(q) : Todo(q)[i].t \in Times
    BY <2>1, <2>2 DEF OwnTodo, TodoIsStored, AlertTypes
  <2>4. \A i \in DOMAIN Todo(q) : Current(q) = a => Todo(q)[i].t # r.t
    BY <1>1, <2>2 DEF TodosAreDisjoint, a
  <2>5. \A i \in DOMAIN Todo(q), x \in Reasons :
           alerts'[Current(q)][<<Todo(q)[i].t, x>>] = alerts[Current(q)][<<Todo(q)[i].t, x>>]
    BY <1>2, <2>1, <2>3, <2>4
  <2>6. \A t \in Times, x \in Reasons :
           alerts[Current(q)][<<t, x>>] > 0 => alerts'[Current(q)][<<t, x>>] > 0
    <3>1. \A t \in Times, x \in Reasons : alerts[Current(q)][<<t, x>>] \in Nat
      BY <2>1 DEF AlertTypes
    <3> QED BY <1>2, <2>1, <3>1
  <2> QED BY <1>4, <1>5, <2>5, <2>6, OtherTodo
<1>6. /\ Current(p)' = a /\ Todo(p)' = Todo(p) /\ Report(p)' = r
      /\ poll'[p].reason = reason
      /\ \/ pc[p] = "evaluate" /\ pc'[p] = "push" /\ reason \in MovementReasons
         \/ pc[p] = "judge" /\ pc'[p] = "pushAway" /\ reason \in AwayReasons
  BY DEF Record, Current, Todo, Report, a, r
<1>7. TodoIsStored(p)'
  BY <1>3, <1>4, <1>6 DEF OwnTodo, TodoIsStored, a
<1>8. TodoIsTrusted(p)'
  BY <1>1, <1>6 DEF TodoIsTrusted, Untrusted
<1>9. TodoIsClear(p)'
  <2>1. SUFFICES ASSUME NEW i \in DOMAIN Todo(p), NEW x \in Reasons,
                        i > 1 \/ (pc'[p] = "push" /\ x \in AwayReasons)
                 PROVE  alerts'[a][<<Todo(p)[i].t, x>>] = 0
    BY <1>6 DEF TodoIsClear
  <2>2. Todo(p)[i].t \in Times
    BY <1>1, <1>3 DEF OwnTodo, TodoIsStored, AlertTypes, a
  <2>3. Todo(p)[i].t # r.t \/ x # reason
    <3>1. CASE i > 1
      <4>1. i # 1
        BY <3>1
      <4> QED BY <1>1, <1>3, <4>1 DEF OwnTodo, TodoIsStored
    <3>2. CASE pc'[p] = "push" /\ x \in AwayReasons
      BY <1>6, <3>2 DEF MovementReasons, AwayReasons
    <3> QED BY <2>1, <3>1, <3>2
  <2>4. alerts[a][<<Todo(p)[i].t, x>>] = 0
    BY <1>3, <1>6, <2>1 DEF OwnTodo, TodoIsClear, a
  <2> QED BY <1>1, <1>2, <2>2, <2>3, <2>4
<1>10. ReasonIsRecorded(p)'
  <2>1. alerts[a][<<r.t, reason>>] \in Nat
    BY <1>1 DEF AlertTypes
  <2>2. alerts'[a][<<r.t, reason>>] > 0
    BY <1>1, <1>2, <2>1
  <2> QED BY <1>6, <2>2 DEF ReasonIsRecorded
<1>11. /\ OwnTodo(p)' /\ Live(p) /\ Current(p)' = Current(p)
       /\ Todo(p)' = Todo(p)
  BY <1>1, <1>6, <1>7, <1>8, <1>9, <1>10 DEF OwnTodo, a
<1> QED BY <1>5, <1>11, StayDisjoint

(* What an insertion adds: rows with new timestamps, finitely many.        *)
LEMMA InsertionRows ==
    ASSUME NEW p \in Pollers, PollTypes, RowInv, pc[p] \in Busy,
           NEW rows, rows = {poll[p].batch[i] : i \in NewlyInserted(Current(p), poll[p].batch)}
    PROVE  /\ Current(p) \in AirTags
           /\ IsFiniteSet(rows)
           /\ \A r \in rows : r.t \in Times
           /\ \A r \in rows, s \in stored[Current(p)] : r.t # s.t
<1> DEFINE batch == poll[p].batch
           new == NewlyInserted(Current(p), batch)
<1>1. PICK n \in Nat : DOMAIN batch = 1 .. n
  BY DEF PollTypes, Shape
<1>2. new \in SUBSET (1 .. n)
  BY <1>1 DEF NewlyInserted
<1>3. IsFiniteSet(new)
  <2>1. IsFiniteSet(1 .. n)
    BY FS_Interval
  <2> QED BY <1>2, <2>1, FS_Subset
<1> HIDE DEF new
<1>4. [i \in new |-> batch[i]] \in Surjection(new, rows)
  <2>1. [i \in new |-> batch[i]] \in [new -> rows]
    BY DEF new
  <2>2. \A r \in rows : \E i \in new : [j \in new |-> batch[j]][i] = r
    BY DEF new
  <2> QED BY <2>1, <2>2 DEF Surjection
<1>5. IsFiniteSet(rows)
  BY <1>3, <1>4, FS_Surjection
<1>6. \A i \in new : i \in DOMAIN batch
  BY <1>1, <1>2
<1>7. \A r \in rows : r.t \in Times
  BY <1>6 DEF PollTypes, Shape, new
<1>8. \A r \in rows, s \in stored[Current(p)] : r.t # s.t
  BY DEF NewlyInserted
<1> QED BY <1>5, <1>7, <1>8, CurrentTag

LEMMA InsertionTodo ==
    ASSUME NEW p \in Pollers, Others(p), PollTypes, AlertTypes, TodoInv, RowInv,
           AlertsRestOnTrustedReports, OneRowPerTimestamp', Insertion(p)
    PROVE  TodoInv'
<1> DEFINE a == Current(p)
           rows == {poll[p].batch[i] : i \in NewlyInserted(a, poll[p].batch)}
<1>1. /\ a \in AirTags /\ IsFiniteSet(rows)
      /\ \A r \in rows : r.t \in Times
      /\ \A r \in rows, s \in stored[a] : r.t # s.t
  BY InsertionRows DEF Busy, Insertion
<1>2. /\ Current(p)' = a /\ pc'[p] = "evaluate" /\ alerts' = alerts
      /\ stored' = [stored EXCEPT ![a] = @ \cup rows]
      /\ Todo(p)' = <<>> \/ Todo(p)' \in InTimeOrder(rows)
  BY DEF Insertion, Current, Todo
<1> HIDE DEF rows, a
<1>3. /\ stored'[a] = stored[a] \cup rows
      /\ \A b \in AirTags : stored[b] \subseteq stored'[b]
  BY <1>1, <1>2 DEF RowInv, RowTypes
<1>4. /\ Todo(p)' \in Seq(rows)
      /\ \A i, j \in DOMAIN Todo(p)' : i # j => Todo(p)'[i] # Todo(p)'[j]
  <2>1. CASE Todo(p)' = <<>>
    BY <2>1
  <2>2. CASE Todo(p)' \in InTimeOrder(rows)
    <3> DEFINE todo == Todo(p)'
    <3>1. todo \in InTimeOrder(rows)
      BY <2>2
    <3> HIDE DEF todo
    <3>2. todo \in Seq(rows) /\ \A i, j \in DOMAIN todo : i # j => todo[i] # todo[j]
      BY <1>1, <3>1, Enumerated
    <3> QED BY <3>2 DEF todo
  <2> QED BY <1>2, <2>1, <2>2
<1>5. \A i \in DOMAIN Todo(p)' : Todo(p)'[i] \in rows
  BY <1>4
<1>6. TodoIsStored(p)'
  <2>1. Todo(p)' \in Seq(stored'[a])
    BY <1>3, <1>4
  <2>2. \A r, s \in stored'[a] : r.t = s.t => r = s
    BY <1>1 DEF OneRowPerTimestamp
  <2>3. ASSUME NEW i \in DOMAIN Todo(p)', NEW j \in DOMAIN Todo(p)', i # j
        PROVE  Todo(p)'[i].t # Todo(p)'[j].t
    <3>1. Todo(p)'[i] \in stored'[a] /\ Todo(p)'[j] \in stored'[a]
      BY <1>3, <1>5
    <3> QED BY <1>4, <2>2, <2>3, <3>1
  <2> QED BY <1>2, <2>1, <2>3 DEF TodoIsStored
<1>7. TodoIsClear(p)'
  <2>1. ASSUME NEW r \in rows, NEW x \in Reasons
        PROVE  alerts[a][<<r.t, x>>] = 0
    <3>1. r.t \in Times /\ \A s \in stored[a] : s.t # r.t
      BY <1>1
    <3>2. alerts[a][<<r.t, x>>] \in Nat
      BY <1>1, <3>1 DEF AlertTypes
    <3>3. ~(alerts[a][<<r.t, x>>] > 0)
      BY <1>1, <3>1 DEF AlertsRestOnTrustedReports
    <3> QED BY <3>2, <3>3
  <2> QED BY <1>2, <1>5, <2>1 DEF TodoIsClear
<1>8. OwnTodo(p)'
  BY <1>2, <1>6, <1>7 DEF OwnTodo, TodoIsTrusted, ReasonIsRecorded
<1>9. ASSUME NEW q \in Pollers \ {p}, Live(q)
      PROVE  OwnTodo(q)'
  <2>1. Current(q) \in AirTags
    BY <1>9, CurrentTag DEF Live, Busy
  <2> QED BY <1>2, <1>3, <1>9, <2>1, OtherTodo
<1>10. ASSUME NEW q \in Pollers \ {p}, Live(q)', Current(q)' = a
       PROVE  \A i \in DOMAIN Todo(p)', j \in DOMAIN Todo(q)' : Todo(p)'[i].t # Todo(q)'[j].t
  <2>1. Live(q) /\ Current(q) = a /\ Todo(q)' = Todo(q)
    BY <1>10, OtherPolls
  <2>2. Todo(q) \in Seq(stored[a])
    BY <2>1 DEF TodoInv, OwnTodo, TodoIsStored
  <2>3. \A j \in DOMAIN Todo(q) : Todo(q)[j] \in stored[a]
    BY <2>2
  <2> QED BY <1>1, <1>5, <2>1, <2>3
<1>11. ASSUME NEW q \in Pollers \ {p}, NEW u \in Pollers \ {p}, u # q, Live(q)', Live(u)'
       PROVE  TodosAreDisjoint(q, u)'
  BY <1>11, OtherPolls DEF TodoInv, TodosAreDisjoint
<1>12. ASSUME NEW q \in Pollers \ {p}, Live(q)'
       PROVE  TodosAreDisjoint(p, q)' /\ TodosAreDisjoint(q, p)'
  BY <1>2, <1>10, <1>12 DEF TodosAreDisjoint
<1>13. \A q \in Pollers : Live(q)' => OwnTodo(q)'
  BY <1>8, <1>9, OtherPolls
<1> QED BY <1>11, <1>12, <1>13 DEF TodoInv

(* A step that records and pushes nothing and takes no row away.           *)
LEMMA SameAlerts ==
    ASSUME AlertInv, UNCHANGED <<airtags, alerts, pushed>>,
           \A a \in AirTags : \A r \in stored'[a] : r.t \in Times,
           \A a \in AirTags : stored[a] \subseteq stored'[a]
    PROVE  AlertInv'
<1>1. AlertTypes'
  BY DEF AlertInv, AlertTypes
<1>2. AlertsRestOnTrustedReports'
  BY DEF AlertInv, AlertsRestOnTrustedReports
<1>3. PushedAlertsAreRecorded'
  BY DEF AlertInv, PushedAlertsAreRecorded
<1> QED BY <1>1, <1>2, <1>3 DEF AlertInv

LEMMA PushedAlerts ==
    ASSUME NEW p \in Pollers, PollTypes, AlertInv, TodoInv, pc[p] \in {"push", "pushAway"},
           Pushed(p), UNCHANGED <<airtags, alerts, stored>>
    PROVE  AlertInv'
<1> DEFINE new == <<Current(p), Report(p).t, poll[p].reason>>
<1>1. Current(p) \in AirTags
  BY CurrentTag DEF Busy, Evaluating
<1>2. \/ airtags[Current(p)] = "deleted"
      \/ /\ alerts[Current(p)][<<Report(p).t, poll[p].reason>>] > 0
         /\ Report(p).t \in Times /\ poll[p].reason \in Reasons
  <2>1. SUFFICES ASSUME airtags[Current(p)] # "deleted"
                 PROVE  /\ alerts[Current(p)][<<Report(p).t, poll[p].reason>>] > 0
                        /\ Report(p).t \in Times /\ poll[p].reason \in Reasons
    OBVIOUS
  <2>2. OwnTodo(p)
    BY <2>1 DEF TodoInv, Live, Evaluating
  <2> QED BY <2>2, ReportStored DEF OwnTodo, ReasonIsRecorded, Evaluating, AlertInv
<1>3. new[1] = Current(p) /\ new[2] = Report(p).t /\ new[3] = poll[p].reason
  OBVIOUS
<1>4. \A x \in pushed' : x \in pushed \/ x = new
  BY DEF Pushed
<1> HIDE DEF new
<1>5. AlertTypes' /\ AlertsRestOnTrustedReports'
  BY <1>1, <1>2, <1>3, <1>4 DEF AlertInv, AlertTypes, AlertsRestOnTrustedReports
<1>6. PushedAlertsAreRecorded'
  BY <1>2, <1>3, <1>4 DEF AlertInv, PushedAlertsAreRecorded
<1> QED BY <1>5, <1>6 DEF AlertInv

LEMMA RecordAlerts ==
    ASSUME NEW p \in Pollers, PollTypes, AlertInv, TodoInv, Others(p),
           NEW reason \in Reasons, Record(p, reason)
    PROVE  AlertInv'
<1> DEFINE a == Current(p)
           r == Report(p)
<1>1. AlertTypes
  BY DEF AlertInv
<1>2. /\ a \in AirTags /\ r \in stored[a] /\ r.t \in Times /\ ~Untrusted(r)
      /\ alerts' \in [AirTags -> [Times \X Reasons -> Nat]]
      /\ \A b \in AirTags, t \in Times, x \in Reasons :
            alerts'[b][<<t, x>>] =
               IF b = a /\ t = r.t /\ x = reason THEN alerts[b][<<t, x>>] + 1
               ELSE alerts[b][<<t, x>>]
  BY <1>1, RecordedAlert
<1>3. UNCHANGED <<airtags, stored, pushed>>
  BY DEF Record, Others
<1> HIDE DEF a, r
<1>4. AlertTypes'
  BY <1>1, <1>2, <1>3 DEF AlertTypes
<1>5. AlertsRestOnTrustedReports'
  <2>1. SUFFICES ASSUME NEW b \in AirTags, NEW t \in Times, NEW x \in Reasons,
                        alerts'[b][<<t, x>>] > 0
                 PROVE  \E s \in stored[b] : s.t = t /\ ~s.isOutlier /\ ~IsLowConfidence(s, Cfg)
    BY <1>3 DEF AlertsRestOnTrustedReports
  <2>2. CASE b = a /\ t = r.t
    BY <1>2, <2>2 DEF Untrusted
  <2>3. CASE ~(b = a /\ t = r.t)
    <3>1. alerts[b][<<t, x>>] > 0
      BY <1>2, <2>1, <2>3
    <3> QED BY <3>1 DEF AlertInv, AlertsRestOnTrustedReports
  <2> QED BY <2>2, <2>3
<1>6. PushedAlertsAreRecorded'
  <2>1. SUFFICES ASSUME NEW x \in pushed, airtags[x[1]] # "deleted"
                 PROVE  alerts'[x[1]][<<x[2], x[3]>>] > 0
    BY <1>3 DEF PushedAlertsAreRecorded
  <2>2. x[1] \in AirTags /\ x[2] \in Times /\ x[3] \in Reasons
    BY <1>1, <2>1 DEF AlertTypes
  <2>3. alerts[x[1]][<<x[2], x[3]>>] > 0
    BY <2>1 DEF AlertInv, PushedAlertsAreRecorded
  <2>4. alerts[x[1]][<<x[2], x[3]>>] \in Nat
    BY <1>1, <2>2 DEF AlertTypes
  <2> QED BY <1>2, <2>2, <2>3, <2>4
<1> QED BY <1>4, <1>5, <1>6 DEF AlertInv

LEMMA PollTypesStep == PollTypes /\ [Next]_vars => PollTypes'
<1> SUFFICES ASSUME PollTypes, [Next]_vars
             PROVE  PollTypes'
  OBVIOUS
<1>1. ASSUME NEW p \in Pollers, PollStep(p)
      PROVE  PollTypes'
  <2>1. Effect(p)
    BY <1>1, EffectOfStep
  <2> QED BY <2>1 DEF Effect, Others, PollTypes
<1>2. ASSUME NEW x \in Processes, Crash(x)
      PROVE  PollTypes'
  <2>1. Shape(IdlePoll)
    <3>1. <<>> \in Seq(AirTags)
      OBVIOUS
    <3> QED BY <3>1, IdleShape
  <2>2. /\ apple' = apple /\ now' = now /\ DOMAIN poll' = Pollers /\ pc' \in [Pollers -> Steps]
        /\ \A p \in Pollers : \/ poll'[p] = IdlePoll /\ pc'[p] = "idle"
                              \/ poll'[p] = poll[p] /\ pc'[p] = pc[p]
    BY <1>2 DEF Crash, worldVars, PollTypes, Steps
  <2> QED BY <2>1, <2>2 DEF PollTypes, Busy, Evaluating
<1>3. ASSUME NEW a \in AirTags, Publish(a)
      PROVE  PollTypes'
  <2>1. PICK r \in AppleReports[a] : apple' = [apple EXCEPT ![a] = @ \cup {r}]
    BY <1>3 DEF Publish
  <2>2. IsFiniteSet(apple[a] \cup {r})
    BY FS_AddElement DEF PollTypes
  <2>3. pc' = pc /\ poll' = poll /\ now' = now
    BY <1>3 DEF Publish
  <2> QED BY <2>1, <2>2, <2>3 DEF PollTypes
<1>4. CASE UNCHANGED <<pc, poll, apple>> /\ (now' = now \/ now' = now + 1)
  BY <1>4 DEF PollTypes
<1>5. \/ \E p \in Pollers : PollStep(p)
      \/ \E x \in Processes : Crash(x)
      \/ \E a \in AirTags : Publish(a)
      \/ UNCHANGED <<pc, poll, apple>> /\ (now' = now \/ now' = now + 1)
  BY DEF Next, Environment, DeleteAirtag, SetAirtagEnabled, Tick, vars, worldVars
<1> QED BY <1>1, <1>2, <1>3, <1>4, <1>5
-----------------------------------------------------------------------------
LEMMA PollStepLog ==
    ASSUME NEW p \in Pollers, LogInv, PollStep(p), RowInv'
    PROVE  TodoInv' /\ AlertInv'
<1> USE DEF LogInv
<1>1. Effect(p) /\ Others(p)
  BY EffectOfStep DEF Effect
<1>2. AlertTypes /\ AlertsRestOnTrustedReports
  BY DEF AlertInv
<1>3. CASE Aside(p)
  <2>1. AlertInv'
    BY <1>1, <1>2, <1>3, SameAlerts DEF Aside, Others, AlertTypes
  <2> QED BY <1>1, <1>2, <1>3, <2>1, AsideTodo
<1>4. CASE Insertion(p)
  <2> DEFINE rows == {poll[p].batch[i] : i \in NewlyInserted(Current(p), poll[p].batch)}
  <2>1. \A r \in rows : r.t \in Times
    BY <1>4, InsertionRows DEF Insertion, Busy
  <2> HIDE DEF rows
  <2>2. stored' = [stored EXCEPT ![Current(p)] = @ \cup rows]
    BY <1>4 DEF Insertion, rows
  <2>3. \A a \in AirTags : stored[a] \subseteq stored'[a] /\ \A r \in stored'[a] : r.t \in Times
    BY <1>2, <2>1, <2>2 DEF RowInv, RowTypes, AlertTypes
  <2>4. AlertInv'
    BY <1>1, <1>4, <2>3, SameAlerts DEF Insertion, Others
  <2>5. OneRowPerTimestamp'
    BY DEF RowInv
  <2> QED BY <1>1, <1>2, <1>4, <2>4, <2>5, InsertionTodo
<1>5. CASE Advance(p)
  <2>1. AlertInv'
    <3>1. UNCHANGED <<airtags, alerts, stored>>
      BY <1>1, <1>5 DEF Advance, Others
    <3>2. CASE pushed' = pushed
      BY <1>2, <3>1, <3>2, SameAlerts DEF AlertTypes
    <3>3. CASE pc[p] = "pushAway" /\ Pushed(p)
      BY <3>1, <3>3, PushedAlerts
    <3> QED BY <1>5, <3>2, <3>3 DEF Advance
  <2> QED BY <1>1, <1>2, <1>5, <2>1, AdvanceTodo
<1>6. CASE Proceed(p)
  <2>1. AlertInv'
    <3>1. UNCHANGED <<airtags, alerts, stored>>
      BY <1>1, <1>6 DEF Proceed, Others
    <3>2. CASE pushed' = pushed
      BY <1>2, <3>1, <3>2, SameAlerts DEF AlertTypes
    <3>3. CASE pc[p] = "push" /\ Pushed(p)
      BY <3>1, <3>3, PushedAlerts
    <3> QED BY <1>6, <3>2, <3>3 DEF Proceed
  <2> QED BY <1>1, <1>2, <1>6, <2>1, ProceedTodo
<1>7. ASSUME NEW reason \in Reasons, Record(p, reason)
      PROVE  TodoInv' /\ AlertInv'
  BY <1>1, <1>2, <1>7, RecordTodo, RecordAlerts
<1> QED BY <1>1, <1>3, <1>4, <1>5, <1>6, <1>7 DEF Effect

(* What is not a step of a poll leaves the evaluations as they are.        *)
LEMMA BystanderTodo ==
    ASSUME TodoInv,
           \A p \in Pollers : Live(p)' =>
              /\ Live(p) /\ poll'[p] = poll[p] /\ pc'[p] = pc[p]
              /\ stored'[Current(p)] = stored[Current(p)]
              /\ alerts'[Current(p)] = alerts[Current(p)]
    PROVE  TodoInv'
<1>1. ASSUME NEW p \in Pollers, Live(p)'
      PROVE  OwnTodo(p)'
  <2>1. /\ OwnTodo(p)
        /\ Todo(p)' = Todo(p) /\ Current(p)' = Current(p) /\ Report(p)' = Report(p)
        /\ pc'[p] = pc[p] /\ poll'[p].reason = poll[p].reason
        /\ stored'[Current(p)] = stored[Current(p)]
        /\ alerts'[Current(p)] = alerts[Current(p)]
    BY <1>1 DEF TodoInv, Todo, Current, Report
  <2>2. TodoIsStored(p)' /\ TodoIsClear(p)'
    BY <2>1 DEF OwnTodo, TodoIsStored, TodoIsClear
  <2>3. TodoIsTrusted(p)' /\ ReasonIsRecorded(p)'
    BY <2>1 DEF OwnTodo, TodoIsTrusted, ReasonIsRecorded, Untrusted
  <2> QED BY <2>2, <2>3 DEF OwnTodo
<1>2. ASSUME NEW p \in Pollers, NEW q \in Pollers, p # q, Live(p)', Live(q)'
      PROVE  TodosAreDisjoint(p, q)'
  BY <1>2 DEF TodoInv, TodosAreDisjoint, Todo, Current
<1> QED BY <1>1, <1>2 DEF TodoInv

LEMMA EnvironmentLog ==
    ASSUME LogInv, Environment
    PROVE  TodoInv' /\ AlertInv'
<1> USE DEF LogInv
<1>1. ASSUME NEW x \in Processes, Crash(x)
      PROVE  TodoInv' /\ AlertInv'
  <2>1. /\ UNCHANGED <<airtags, stored, alerts, pushed>>
        /\ \A p \in Pollers : pc'[p] = "idle" \/ (poll'[p] = poll[p] /\ pc'[p] = pc[p])
    BY <1>1 DEF Crash, dbVars
  <2>2. \A p \in Pollers : Live(p)' => Live(p) /\ poll'[p] = poll[p] /\ pc'[p] = pc[p]
    BY <2>1 DEF Live, Evaluating, Current
  <2>3. AlertInv'
    BY <2>1, SameAlerts DEF AlertInv, AlertTypes
  <2> QED BY <2>1, <2>2, <2>3, BystanderTodo
<1>2. ASSUME NEW a \in AirTags, DeleteAirtag(a)
      PROVE  TodoInv' /\ AlertInv'
  <2> DEFINE none == [x \in Times \X Reasons |-> 0]
  <2>1. /\ airtags' = [airtags EXCEPT ![a] = "deleted"]
        /\ stored' = [stored EXCEPT ![a] = {}]
        /\ alerts' = [alerts EXCEPT ![a] = none]
        /\ UNCHANGED <<pc, poll, pushed>>
    BY <1>2 DEF DeleteAirtag
  <2>2. none \in [Times \X Reasons -> Nat] /\ \A t \in Times, x \in Reasons : none[<<t, x>>] = 0
    OBVIOUS
  <2> HIDE DEF none
  <2>3. /\ airtags'[a] = "deleted" /\ stored'[a] = {} /\ alerts'[a] = none
        /\ \A b \in AirTags \ {a} : /\ airtags'[b] = airtags[b] /\ stored'[b] = stored[b]
                                    /\ alerts'[b] = alerts[b]
    BY <2>1 DEF RowInv, RowTypes, AlertInv, AlertTypes
  <2>4. \A p \in Pollers : Live(p)' =>
              /\ Live(p) /\ poll'[p] = poll[p] /\ pc'[p] = pc[p]
              /\ stored'[Current(p)] = stored[Current(p)]
              /\ alerts'[Current(p)] = alerts[Current(p)]
    <3>1. SUFFICES ASSUME NEW p \in Pollers, Live(p)'
                   PROVE  /\ Live(p)
                          /\ stored'[Current(p)] = stored[Current(p)]
                          /\ alerts'[Current(p)] = alerts[Current(p)]
      BY <2>1
    <3>2. pc[p] \in Evaluating /\ airtags'[Current(p)] # "deleted"
      BY <2>1, <3>1 DEF Live, Current
    <3>3. Current(p) \in AirTags \ {a}
      BY <2>3, <3>2, CurrentTag DEF Busy
    <3> QED BY <2>3, <3>2, <3>3 DEF Live
  <2>5. AlertTypes'
    BY <2>1, <2>2, <2>3 DEF AlertInv, AlertTypes
  <2>6. AlertsRestOnTrustedReports'
    BY <2>2, <2>3 DEF AlertInv, AlertsRestOnTrustedReports
  <2>7. PushedAlertsAreRecorded'
    BY <2>1, <2>3 DEF AlertInv, AlertTypes, PushedAlertsAreRecorded
  <2> QED BY <2>4, <2>5, <2>6, <2>7, BystanderTodo DEF AlertInv
<1>3. ASSUME NEW a \in AirTags, SetAirtagEnabled(a)
      PROVE  TodoInv' /\ AlertInv'
  <2>1. /\ UNCHANGED <<pc, poll, stored, alerts, pushed>>
        /\ \A b \in AirTags : airtags'[b] = "deleted" <=> airtags[b] = "deleted"
    BY <1>3 DEF SetAirtagEnabled, RowInv, RowTypes
  <2>2. \A p \in Pollers : Live(p)' => Live(p)
    <3>1. SUFFICES ASSUME NEW p \in Pollers, Live(p)'
                   PROVE  Live(p)
      OBVIOUS
    <3>2. pc[p] \in Evaluating /\ airtags'[Current(p)] # "deleted"
      BY <2>1, <3>1 DEF Live, Current
    <3>3. Current(p) \in AirTags
      BY <3>2, CurrentTag DEF Busy
    <3> QED BY <2>1, <3>2, <3>3 DEF Live
  <2>3. AlertInv'
    BY <2>1 DEF AlertInv, AlertTypes, AlertsRestOnTrustedReports, PushedAlertsAreRecorded
  <2> QED BY <2>1, <2>2, <2>3, BystanderTodo
<1>4. CASE UNCHANGED <<pc, poll, airtags, stored, alerts, pushed>>
  <2>1. \A p \in Pollers : Live(p)' => Live(p)
    BY <1>4 DEF Live, Current
  <2>2. AlertInv'
    BY <1>4, SameAlerts DEF AlertInv, AlertTypes
  <2> QED BY <1>4, <2>1, <2>2, BystanderTodo
<1>5. \/ \E x \in Processes : Crash(x)
      \/ \E a \in AirTags : DeleteAirtag(a) \/ SetAirtagEnabled(a)
      \/ UNCHANGED <<pc, poll, airtags, stored, alerts, pushed>>
  BY DEF Environment, Publish, Tick, dbVars
<1> QED BY <1>1, <1>2, <1>3, <1>4, <1>5

LEMMA LogInvInit == Init => LogInv
<1> SUFFICES ASSUME Init
             PROVE  LogInv
  OBVIOUS
<1>1. Shape(IdlePoll)
  <2>1. <<>> \in Seq(AirTags)
    OBVIOUS
  <2> QED BY <2>1, IdleShape
<1>2. PollTypes
  BY <1>1, FS_EmptySet DEF Init, PollTypes, Steps, Busy, Evaluating
<1>3. TodoInv
  BY DEF Init, TodoInv, Live, Evaluating
<1> DEFINE none == [x \in Times \X Reasons |-> 0]
<1>4. none \in [Times \X Reasons -> Nat] /\ \A t \in Times, x \in Reasons : none[<<t, x>>] = 0
  OBVIOUS
<1>5. alerts = [a \in AirTags |-> none]
  BY DEF Init
<1> HIDE DEF none
<1>6. AlertInv
  BY <1>4, <1>5
     DEF Init, AlertInv, AlertTypes, AlertsRestOnTrustedReports, PushedAlertsAreRecorded
<1> QED BY <1>2, <1>3, <1>6, RowInit DEF LogInv

LEMMA LogInvStep == LogInv /\ [Next]_vars => LogInv'
<1> SUFFICES ASSUME LogInv, [Next]_vars
             PROVE  LogInv'
  OBVIOUS
<1>1. RowInv' /\ PollTypes'
  BY RowStep, PollTypesStep DEF LogInv
<1>2. CASE UNCHANGED vars
  <2>1. \A p \in Pollers : Live(p)' => Live(p)
    BY <1>2 DEF vars, Live, Current
  <2>2. TodoInv'
    BY <1>2, <2>1, BystanderTodo DEF LogInv, vars
  <2>3. AlertInv'
    BY <1>2, SameAlerts DEF LogInv, AlertInv, AlertTypes, vars
  <2> QED BY <1>1, <2>2, <2>3 DEF LogInv
<1>3. CASE Environment
  BY <1>1, <1>3, EnvironmentLog DEF LogInv
<1>4. CASE \E p \in Pollers : PollStep(p)
  BY <1>1, <1>4, PollStepLog DEF LogInv
<1> QED BY <1>2, <1>3, <1>4 DEF Next

(* However many polls overlap, crash or fail, what has been pushed is in   *)
(* the alert history for as long as its AirTag exists, and what is there   *)
(* rests on a stored report that was neither an outlier nor of low         *)
(* confidence (tracker.py:509-625).                                        *)
THEOREM AlertsAreTrusted == Spec => []AlertsAreBacked
<1>1. LogInv => AlertsAreBacked
  BY DEF LogInv, AlertInv, AlertsAreBacked
<1> QED BY <1>1, LogInvInit, LogInvStep, PTL DEF Spec
-----------------------------------------------------------------------------
Kinds == {"movement", "away"}

Removed == {a \in AirTags : airtags[a] = "deleted"}

(* The alarms of a report, by its alerts.                                  *)
AlarmCount(a, t, kind) ==
    IF kind = "movement"
    THEN alerts[a][<<t, "distance_threshold">>] + alerts[a][<<t, "stillstand_movement">>]
    ELSE alerts[a][<<t, "left_behind">>] + alerts[a][<<t, "autonomous_movement">>]

LEMMA AlarmsShape ==
    /\ DOMAIN Alarms = AirTags
    /\ Alarms = [a \in AirTags |-> Alarms[a]]
    /\ \A a \in AirTags :
          /\ Alarms[a] = [x \in Times \X Kinds |-> AlarmCount(a, x[1], x[2])]
          /\ \A t \in Times, kind \in Kinds : Alarms[a][<<t, kind>>] = AlarmCount(a, t, kind)
<1>1. Alarms = [a \in AirTags |-> [x \in Times \X Kinds |-> AlarmCount(a, x[1], x[2])]]
  BY DEF Alarms, Kinds, AlarmCount
<1>2. ASSUME NEW a \in AirTags, NEW t \in Times, NEW kind \in Kinds
      PROVE  [x \in Times \X Kinds |-> AlarmCount(a, x[1], x[2])][<<t, kind>>]
                = AlarmCount(a, t, kind)
  <2>1. <<t, kind>> \in Times \X Kinds /\ <<t, kind>>[1] = t /\ <<t, kind>>[2] = kind
    OBVIOUS
  <2> QED BY <2>1
<1> QED BY <1>1, <1>2

LEMMA AlarmsShapeNext ==
    /\ DOMAIN Alarms' = AirTags
    /\ Alarms' = [a \in AirTags |-> Alarms'[a]]
    /\ \A a \in AirTags :
          Alarms'[a] = [x \in Times \X Kinds |-> AlarmCount(a, x[1], x[2])']
BY DEF Alarms, Kinds, AlarmCount

(* The step of the log that a recorded alert is.                           *)
LEMMA RecordIsAlert ==
    ASSUME NEW p \in Pollers, LogInv, Others(p), NEW reason \in Reasons, Record(p, reason)
    PROVE  Log!Next
<1> DEFINE a == Current(p)
           r == Report(p)
           kind == IF reason \in MovementReasons THEN "movement" ELSE "away"
<1>1. /\ a \in AirTags /\ r \in stored[a] /\ r.t \in Times /\ ~Untrusted(r)
      /\ \/ reason \in AwayReasons /\ \A x \in AwayReasons : alerts[a][<<r.t, x>>] = 0
         \/ reason \in MovementReasons /\ \A x \in Reasons : alerts[a][<<r.t, x>>] = 0
      /\ \A b \in AirTags, t \in Times, x \in Reasons :
            alerts'[b][<<t, x>>] =
               IF b = a /\ t = r.t /\ x = reason THEN alerts[b][<<t, x>>] + 1
               ELSE alerts[b][<<t, x>>]
  BY RecordedAlert DEF LogInv, AlertInv
<1>2. /\ kind \in Kinds
      /\ kind = "movement" => reason \in {"distance_threshold", "stillstand_movement"}
      /\ kind = "away" => reason \in {"left_behind", "autonomous_movement"}
  BY <1>1 DEF Kinds, MovementReasons, AwayReasons
<1>3. UNCHANGED <<stored, Removed>>
  BY DEF Record, Others, Removed
<1> HIDE DEF a, r
<1>4. AlarmCount(a, r.t, kind) = 0
  <2>1. CASE kind = "movement"
    BY <1>1, <1>2, <2>1 DEF AlarmCount, Reasons, MovementReasons, AwayReasons
  <2>2. CASE kind = "away"
    BY <1>1, <1>2, <2>2 DEF AlarmCount, Reasons, MovementReasons, AwayReasons
  <2> QED BY <1>2, <2>1, <2>2 DEF Kinds
<1>5. ASSUME NEW b \in AirTags, NEW t \in Times, NEW k \in Kinds
      PROVE  AlarmCount(b, t, k)' =
                IF b = a /\ t = r.t /\ k = kind THEN 1 ELSE AlarmCount(b, t, k)
  <2> HIDE DEF kind
  <2>1. CASE b = a /\ t = r.t /\ k = kind
    <3>1. CASE k = "movement"
      <4>1. /\ reason \in MovementReasons
            /\ \A x \in MovementReasons : alerts[a][<<r.t, x>>] = 0
        BY <1>1, <1>2, <2>1, <3>1 DEF Reasons, MovementReasons, AwayReasons
      <4>2. \A x \in MovementReasons :
               alerts'[b][<<t, x>>] = IF x = reason THEN 1 ELSE 0
        BY <1>1, <2>1, <4>1 DEF Reasons
      <4>3. /\ alerts'[b][<<t, "distance_threshold">>] =
                  (IF "distance_threshold" = reason THEN 1 ELSE 0)
            /\ alerts'[b][<<t, "stillstand_movement">>] =
                  (IF "stillstand_movement" = reason THEN 1 ELSE 0)
        BY <4>2 DEF MovementReasons
      <4>4. AlarmCount(b, t, k)' = 1
        BY <3>1, <4>1, <4>3 DEF AlarmCount, MovementReasons
      <4> QED BY <2>1, <4>4
    <3>2. CASE k = "away"
      <4>1. /\ reason \in AwayReasons
            /\ \A x \in AwayReasons : alerts[a][<<r.t, x>>] = 0
        BY <1>1, <1>2, <2>1, <3>2 DEF Reasons, MovementReasons, AwayReasons
      <4>2. \A x \in AwayReasons :
               alerts'[b][<<t, x>>] = IF x = reason THEN 1 ELSE 0
        BY <1>1, <2>1, <4>1 DEF Reasons
      <4>3. /\ alerts'[b][<<t, "left_behind">>] =
                  (IF "left_behind" = reason THEN 1 ELSE 0)
            /\ alerts'[b][<<t, "autonomous_movement">>] =
                  (IF "autonomous_movement" = reason THEN 1 ELSE 0)
        BY <4>2 DEF AwayReasons
      <4>4. AlarmCount(b, t, k)' = 1
        BY <3>2, <4>1, <4>3 DEF AlarmCount, AwayReasons
      <4> QED BY <2>1, <4>4
    <3>3. k = "movement" \/ k = "away"
      BY DEF Kinds
    <3> QED BY <3>1, <3>2, <3>3
  <2>2. CASE ~(b = a /\ t = r.t /\ k = kind)
    <3>1. CASE k = "movement"
      <4>1. /\ alerts'[b][<<t, "distance_threshold">>] = alerts[b][<<t, "distance_threshold">>]
            /\ alerts'[b][<<t, "stillstand_movement">>] = alerts[b][<<t, "stillstand_movement">>]
        BY <1>1, <1>2, <2>2, <3>1 DEF Reasons, MovementReasons, Kinds
      <4> QED BY <2>2, <3>1, <4>1 DEF AlarmCount
    <3>2. CASE k = "away"
      <4>1. /\ alerts'[b][<<t, "left_behind">>] = alerts[b][<<t, "left_behind">>]
            /\ alerts'[b][<<t, "autonomous_movement">>] = alerts[b][<<t, "autonomous_movement">>]
        BY <1>1, <1>2, <2>2, <3>2 DEF Reasons, AwayReasons, Kinds
      <4> QED BY <2>2, <3>2, <4>1 DEF AlarmCount
    <3> QED BY <3>1, <3>2 DEF Kinds
  <2> QED BY <2>1, <2>2
<1> HIDE DEF kind
<1>6. Alarms' = [Alarms EXCEPT ![a][<<r.t, kind>>] = 1]
  <2> DEFINE K == Times \X Kinds
             next == [Alarms EXCEPT ![a][<<r.t, kind>>] = 1]
  <2>1. /\ DOMAIN Alarms' = AirTags
        /\ \A b \in AirTags : Alarms'[b] = [x \in K |-> AlarmCount(b, x[1], x[2])']
    BY AlarmsShapeNext
  <2>2. /\ DOMAIN next = AirTags
        /\ \A b \in AirTags : next[b] = IF b = a THEN [Alarms[a] EXCEPT ![<<r.t, kind>>] = 1]
                                        ELSE Alarms[b]
    BY <1>1, AlarmsShape
  <2>3. ASSUME NEW b \in AirTags
        PROVE  Alarms'[b] = next[b]
    <3>1. Alarms[b] = [x \in K |-> AlarmCount(b, x[1], x[2])]
      BY AlarmsShape
    <3>2. \A x \in K : x[1] \in Times /\ x[2] \in Kinds /\ x = <<x[1], x[2]>>
      OBVIOUS
    <3>3. \A x \in K : AlarmCount(b, x[1], x[2])' =
                          IF b = a /\ x = <<r.t, kind>> THEN 1 ELSE AlarmCount(b, x[1], x[2])
      BY <1>5, <3>2
    <3> HIDE DEF K, next
    <3>4. CASE b # a
      BY <2>1, <2>2, <3>1, <3>3, <3>4
    <3>5. CASE b = a
      BY <2>1, <2>2, <3>1, <3>3, <3>5
    <3> QED BY <3>4, <3>5
  <2>4. Alarms' = [b \in AirTags |-> Alarms'[b]] /\ next = [b \in AirTags |-> next[b]]
    BY AlarmsShape, AlarmsShapeNext
  <2> HIDE DEF next
  <2>5. Alarms' = next
    BY <2>3, <2>4
  <2> QED BY <2>5 DEF next
<1>7. Alarms[a][<<r.t, kind>>] = 0
  BY <1>1, <1>2, <1>4, AlarmsShape
<1>8. Log!Alert(a, kind)
  BY <1>1, <1>3, <1>6, <1>7 DEF Log!Alert, Untrusted, Removed
<1> QED BY <1>1, <1>2, <1>8 DEF Log!Next, Kinds

logVars == <<stored, Alarms, Removed>>

LEMMA SameLog ==
    ASSUME UNCHANGED <<stored, alerts>>,
           \A a \in AirTags : airtags'[a] = "deleted" <=> airtags[a] = "deleted"
    PROVE  UNCHANGED logVars
<1>1. Alarms' = Alarms
  BY DEF Alarms
<1>2. Removed' = Removed
  BY DEF Removed
<1> QED BY <1>1, <1>2 DEF logVars

LEMMA PollStepIsLogStep ==
    ASSUME NEW p \in Pollers, LogInv, PollStep(p), RowInv'
    PROVE  Log!Next \/ UNCHANGED logVars
<1>1. Effect(p) /\ Others(p)
  BY EffectOfStep DEF Effect, LogInv
<1>2. CASE Aside(p) \/ Advance(p) \/ Proceed(p)
  BY <1>1, <1>2, SameLog DEF Aside, Advance, Proceed, Others
<1>3. CASE Insertion(p)
  <2> DEFINE a == Current(p)
             rows == {poll[p].batch[i] : i \in NewlyInserted(a, poll[p].batch)}
  <2>1. /\ a \in AirTags /\ airtags[a] # "deleted"
        /\ stored' = [stored EXCEPT ![a] = @ \cup rows]
        /\ UNCHANGED <<airtags, alerts>>
    BY <1>1, <1>3, CurrentTag DEF Insertion, Others, LogInv, Busy
  <2> HIDE DEF a, rows
  <2>2. stored' = [stored EXCEPT ![a] = stored'[a]] /\ stored[a] \subseteq stored'[a]
    BY <2>1 DEF LogInv, RowInv, RowTypes
  <2>3. \A r, s \in stored'[a] : r.t = s.t => r = s
    BY <2>1 DEF RowInv, OneRowPerTimestamp
  <2>4. Alarms' = Alarms /\ Removed' = Removed /\ a \notin Removed
    BY <2>1 DEF Alarms, Removed
  <2>5. Log!Store(a)
    BY <2>2, <2>3, <2>4 DEF Log!Store, Removed
  <2> QED BY <2>1, <2>5 DEF Log!Next
<1>4. ASSUME NEW reason \in Reasons, Record(p, reason)
      PROVE  Log!Next
  BY <1>1, <1>4, RecordIsAlert
<1> QED BY <1>1, <1>2, <1>3, <1>4 DEF Effect

LEMMA DeleteIsRemove ==
    ASSUME LogInv, NEW a \in AirTags, DeleteAirtag(a)
    PROVE  Log!Next
<1> DEFINE none == [x \in Times \X Reasons |-> 0]
           silent == [x \in Times \X Kinds |-> 0]
<1>1. /\ airtags[a] # "deleted"
      /\ airtags' = [airtags EXCEPT ![a] = "deleted"]
      /\ stored' = [stored EXCEPT ![a] = {}]
      /\ alerts' = [alerts EXCEPT ![a] = none]
  BY DEF DeleteAirtag
<1>2. \A t \in Times, x \in Reasons : none[<<t, x>>] = 0
  OBVIOUS
<1> HIDE DEF none
<1>3. alerts'[a] = none /\ \A b \in AirTags \ {a} : alerts'[b] = alerts[b]
  BY <1>1 DEF LogInv, AlertInv, AlertTypes
<1>4. Removed' = Removed \cup {a} /\ a \notin Removed
  BY <1>1 DEF Removed, LogInv, RowInv, RowTypes
<1>5. \A t \in Times, kind \in Kinds : AlarmCount(a, t, kind)' = 0
  BY <1>2, <1>3 DEF AlarmCount, Reasons, MovementReasons, AwayReasons
<1>6. \A b \in AirTags \ {a} : \A t, kind : AlarmCount(b, t, kind)' = AlarmCount(b, t, kind)
  BY <1>3 DEF AlarmCount
<1>7. Alarms'[a] = silent
  <2>1. \A x \in Times \X Kinds : AlarmCount(a, x[1], x[2])' = 0
    BY <1>5
  <2> QED BY <2>1, AlarmsShapeNext
<1>8. \A b \in AirTags \ {a} : Alarms'[b] = Alarms[b]
  BY <1>6, AlarmsShape, AlarmsShapeNext
<1>9. Alarms' = [Alarms EXCEPT ![a] = silent]
  <2> HIDE DEF silent
  <2>1. \A b \in AirTags : Alarms'[b] = [Alarms EXCEPT ![a] = silent][b]
    BY <1>7, <1>8, AlarmsShape
  <2>2. [Alarms EXCEPT ![a] = silent] = [b \in AirTags |-> [Alarms EXCEPT ![a] = silent][b]]
    BY AlarmsShape
  <2> QED BY <2>1, <2>2, AlarmsShapeNext
<1>10. Log!NoAlarms = silent
  BY DEF Log!NoAlarms, Kinds
<1>11. Log!Remove(a)
  BY <1>1, <1>4, <1>9, <1>10 DEF Log!Remove, Removed
<1> QED BY <1>11 DEF Log!Next

LEMMA StepIsLogStep ==
    LogInv /\ [Next]_vars /\ LogInv' => [Log!Next]_logVars
<1> SUFFICES ASSUME LogInv, [Next]_vars, LogInv'
             PROVE  Log!Next \/ UNCHANGED logVars
  OBVIOUS
<1>1. CASE \E p \in Pollers : PollStep(p)
  BY <1>1, PollStepIsLogStep DEF LogInv
<1>2. CASE \E a \in AirTags : DeleteAirtag(a)
  BY <1>2, DeleteIsRemove
<1>3. CASE \E a \in AirTags : SetAirtagEnabled(a)
  BY <1>3, SameLog DEF SetAirtagEnabled, LogInv, RowInv, RowTypes
<1>4. CASE UNCHANGED <<airtags, stored, alerts>>
  BY <1>4, SameLog
<1>5. \/ \E p \in Pollers : PollStep(p)
      \/ \E a \in AirTags : DeleteAirtag(a) \/ SetAirtagEnabled(a)
      \/ UNCHANGED <<airtags, stored, alerts>>
  BY DEF Next, Environment, Crash, Publish, Tick, dbVars, vars
<1> QED BY <1>1, <1>2, <1>3, <1>4, <1>5

(* Whatever polls overlap, crash or fail, the history they write is the    *)
(* log of module ReportLog: rows are added and never changed, one for each *)
(* timestamp, and no report raises two alerts of a kind                    *)
(* (tracker.py:472-577, insert_reports, db.py:376-409).                    *)
THEOREM PollsKeepTheLog == Spec => KeepsReportLog
<1>1. Init => Log!Init
  <2> SUFFICES ASSUME Init
               PROVE  Log!Init
    OBVIOUS
  <2> DEFINE none == [x \in Times \X Reasons |-> 0]
             silent == [x \in Times \X Kinds |-> 0]
  <2>1. alerts = [a \in AirTags |-> none] /\ \A t \in Times, x \in Reasons : none[<<t, x>>] = 0
    BY DEF Init
  <2> HIDE DEF none
  <2>2. ASSUME NEW a \in AirTags
        PROVE  Alarms[a] = silent
    <3>1. \A t \in Times, kind \in Kinds : AlarmCount(a, t, kind) = 0
      BY <2>1 DEF AlarmCount, Reasons, MovementReasons, AwayReasons
    <3>2. \A x \in Times \X Kinds : AlarmCount(a, x[1], x[2]) = 0
      BY <3>1
    <3>3. Alarms[a] = [x \in Times \X Kinds |-> AlarmCount(a, x[1], x[2])]
      BY AlarmsShape
    <3> QED BY <3>2, <3>3
  <2> HIDE DEF silent
  <2>3. Alarms = [a \in AirTags |-> silent]
    BY <2>2, AlarmsShape
  <2>4. Log!NoAlarms = silent
    BY DEF Log!NoAlarms, Kinds, silent
  <2>5. Removed = {}
    BY DEF Init, Removed
  <2> QED BY <2>3, <2>4, <2>5 DEF Init, Log!Init, Removed
<1>2. Spec => []LogInv
  BY LogInvInit, LogInvStep, PTL DEF Spec
<1> QED BY <1>1, <1>2, StepIsLogStep, PTL DEF Spec, KeepsReportLog, Log!Spec, logVars, Removed
-----------------------------------------------------------------------------
(* A poll about to insert into an empty history has seen that it is empty. *)
EmptySeen(p) ==
    pc[p] = "insert" /\ airtags[Current(p)] # "deleted" /\ stored[Current(p)] = {}
       => poll[p].wasEmpty

EmptyInv == \A p \in Pollers : EmptySeen(p)

LEMMA OnlyFetchInserts ==
    ASSUME NEW p \in Pollers, pc \in [Pollers -> Steps], PollStep(p), pc'[p] = "insert"
    PROVE  FetchHistory(p)
<1>1. ASSUME NEW step \in Steps \ {"insert"}, Goto(p, step)
      PROVE  FALSE
  BY <1>1 DEF Goto
<1>2. ~Abandon(p) /\ ~NextReport(p)
  BY <1>1 DEF Abandon, NextReport, Steps
<1>3. ASSUME NEW reason, NEW previous, NEW next \in {"push", "pushAway"},
             RecordAlert(p, reason, previous, next)
      PROVE  FALSE
  BY <1>1, <1>2, <1>3 DEF RecordAlert, Steps
<1>4. ~Acquire(p) /\ ~OwnerPhase(p) /\ ~ListAirtags(p)
  BY <1>1 DEF Acquire, OwnerPhase, ListAirtags, Steps
<1>5. ~FetchFails(p) /\ ~NoMoreReports(p) /\ ~PushMovement(p) /\ ~NoMoreAirtags(p) /\ ~Release(p)
  BY <1>1 DEF FetchFails, NoMoreReports, PushMovement, NoMoreAirtags, Release, Steps
<1>6. ~InsertReports(p)
  BY <1>1, <1>2 DEF InsertReports, Steps
<1>7. ~SkipReport(p) /\ ~PushAway(p) /\ ~DatabaseError(p)
  BY <1>2 DEF SkipReport, PushAway, DatabaseError
<1>8. ~EvaluateReport(p)
  BY <1>1, <1>3 DEF EvaluateReport, Steps
<1>9. ~LocateOwner(p)
  BY <1>1, <1>2 DEF LocateOwner, Steps
<1>10. ~JudgeAway(p)
  BY <1>2, <1>3 DEF JudgeAway
<1>11. ~SaveSession(p)
  BY <1>1 DEF SaveSession, Steps
<1> QED BY <1>4, <1>5, <1>6, <1>7, <1>8, <1>9, <1>10, <1>11 DEF PollStep

LEMMA FetchSeesEmpty ==
    ASSUME NEW p \in Pollers, PollTypes, FetchHistory(p)
    PROVE  EmptySeen(p)'
<1>1. CASE Answer(Current(p)) = {}
  <2>1. Goto(p, "save")
    BY <1>1 DEF FetchHistory
  <2> QED BY <2>1 DEF Goto, PollTypes, EmptySeen
<1>2. CASE Answer(Current(p)) # {}
  <2>1. PICK x : poll' = [poll EXCEPT ![p].batch = x,
                                      ![p].wasEmpty = (stored[Current(p)] = {})]
    BY <1>2 DEF FetchHistory
  <2>2. DOMAIN poll = Pollers /\ DOMAIN poll[p] = Fields
    BY DEF PollTypes, Shape
  <2>3. poll'[p].wasEmpty = (stored[Current(p)] = {}) /\ poll'[p].queue = poll[p].queue
    BY <2>1, <2>2 DEF Fields
  <2>4. stored' = stored
    BY DEF FetchHistory, dbVars
  <2> QED BY <2>3, <2>4 DEF EmptySeen, Current
<1> QED BY <1>1, <1>2

LEMMA PollStepEmpty ==
    ASSUME NEW p \in Pollers, LogInv, EmptyInv, PollStep(p)
    PROVE  EmptyInv'
<1>1. Effect(p) /\ Others(p)
  BY EffectOfStep DEF Effect, LogInv
<1>2. \A a \in AirTags : stored[a] \subseteq stored'[a]
  BY <1>1 DEF Effect, Aside, Insertion, Advance, Proceed, Record, LogInv, RowInv, RowTypes
<1>3. ASSUME NEW q \in Pollers \ {p}
      PROVE  EmptySeen(q)'
  <2>1. poll'[q] = poll[q] /\ pc'[q] = pc[q] /\ airtags' = airtags
    BY <1>1 DEF Others
  <2>2. pc[q] = "insert" => Current(q) \in AirTags
    BY CurrentTag DEF LogInv, Busy
  <2> QED BY <1>2, <2>1, <2>2 DEF EmptyInv, EmptySeen, Current
<1>4. EmptySeen(p)'
  BY OnlyFetchInserts, FetchSeesEmpty DEF EmptySeen, LogInv, PollTypes
<1> QED BY <1>3, <1>4 DEF EmptyInv

LEMMA EnvironmentEmpty ==
    ASSUME LogInv, EmptyInv, Environment
    PROVE  EmptyInv'
<1>1. CASE \E x \in Processes : Crash(x)
  <2>1. /\ UNCHANGED <<airtags, stored>>
        /\ \A p \in Pollers : pc'[p] = "idle" \/ (poll'[p] = poll[p] /\ pc'[p] = pc[p])
    BY <1>1 DEF Crash, dbVars, LogInv, PollTypes
  <2> QED BY <2>1 DEF EmptyInv, EmptySeen, Current
<1>2. ASSUME NEW a \in AirTags, DeleteAirtag(a) \/ SetAirtagEnabled(a)
      PROVE  EmptyInv'
  <2>1. UNCHANGED <<pc, poll>>
    BY <1>2 DEF DeleteAirtag, SetAirtagEnabled
  <2>2. \A b \in AirTags : airtags'[b] # "deleted" => airtags[b] # "deleted" /\ stored'[b] = stored[b]
    BY <1>2 DEF DeleteAirtag, SetAirtagEnabled, LogInv, RowInv, RowTypes
  <2>3. \A p \in Pollers : pc[p] = "insert" => Current(p) \in AirTags
    BY CurrentTag DEF LogInv, Busy
  <2> QED BY <2>1, <2>2, <2>3 DEF EmptyInv, EmptySeen, Current
<1>3. CASE (\E a \in AirTags : Publish(a)) \/ Tick
  BY <1>3 DEF Publish, Tick, dbVars, EmptyInv, EmptySeen, Current
<1> QED BY <1>1, <1>2, <1>3 DEF Environment

(* With movement_alert_on_backfill off, and whatever other polls, crashes  *)
(* and deletions come between: the poll that puts the first reports into   *)
(* an empty history evaluates none of them (tracker.py:482-507).           *)
THEOREM NoAlertsOnBackfill ==
    ASSUME ~Cfg.alertOnBackfill
    PROVE  Spec => BackfillIsSilent
<1>1. Init => EmptyInv
  BY DEF Init, EmptyInv, EmptySeen
<1>2. LogInv /\ EmptyInv /\ [Next]_vars => EmptyInv'
  <2>1. LogInv /\ EmptyInv /\ UNCHANGED vars => EmptyInv'
    BY DEF vars, dbVars, EmptyInv, EmptySeen, Current
  <2> QED BY <2>1, PollStepEmpty, EnvironmentEmpty DEF Next
<1>3. ASSUME LogInv, EmptyInv, NEW p \in Pollers, stored[Current(p)] = {}, InsertReports(p)
      PROVE  poll'[p].todo = <<>>
  <2>1. DOMAIN poll = Pollers /\ DOMAIN poll[p] = Fields
    BY <1>3 DEF LogInv, PollTypes, Shape
  <2>2. CASE airtags[Current(p)] = "deleted"
    <3>1. poll' = [poll EXCEPT ![p] = [IdlePoll EXCEPT !.queue = poll[p].queue, !.aborted = TRUE]]
      BY <1>3, <2>2 DEF InsertReports, Abandon
    <3> QED BY <2>1, <3>1 DEF IdlePoll
  <2>3. CASE airtags[Current(p)] # "deleted"
    <3>1. poll[p].wasEmpty
      BY <1>3, <2>3 DEF EmptyInv, EmptySeen, InsertReports, At
    <3>2. PICK s : poll' = [poll EXCEPT ![p].batch = <<>>, ![p].wasEmpty = FALSE,
                                        ![p].todo = ToEvaluate(s, poll[p].wasEmpty)]
      BY <1>3, <2>3 DEF InsertReports
    <3>3. ToEvaluate(s, poll[p].wasEmpty) = <<>>
      BY <3>1 DEF ToEvaluate
    <3> QED BY <2>1, <3>2, <3>3 DEF Fields
  <2> QED BY <2>2, <2>3
<1>4. LogInv /\ EmptyInv =>
        [\A a \in AirTags, p \in Pollers :
           (stored[a] = {} /\ InsertReports(p) /\ Current(p) = a) => poll'[p].todo = <<>>]_vars
  BY <1>3
<1>5. Spec => []LogInv
  BY LogInvInit, LogInvStep, PTL DEF Spec
<1> QED BY <1>1, <1>2, <1>4, <1>5, PTL DEF Spec, BackfillIsSilent
-----------------------------------------------------------------------------
(* No two reports of one timestamp.                                        *)
OnePerTimestamp(S) == \A r, s \in S : r.t = s.t => r = s

KeptBefore(R, t) == {r \in R : r.t < t /\ ~r.isOutlier}

(* R are rows of reports of P, each of them flagged by the last that was   *)
(* kept before it.                                                         *)
FlaggedRows(R, P) ==
    /\ OnePerTimestamp(R)
    /\ \A r \in R : \E x \in P : r = Row(x, TRUE) \/ r = Row(x, FALSE)
    /\ \A r \in R : r.isOutlier <=> IsSpeedOutlier(r, LatestReading(KeptBefore(R, r.t)), Cfg)

(* No report of A is missing between the rows of R.                        *)
Gapless(R, A) == \A r \in R, x \in A : x.t =< r.t => \E q \in R : q.t = x.t

(* The rows of J that are not in R are later than all of R.                *)
Extends(J, R) == R \subseteq J /\ \A q \in J \ R, r \in R : r.t < q.t

(* The rows that S becomes by an insert of a batch, and what Apple answers *)
(* with at the time n when it has published P.                             *)
New(S, batch) ==
    {i \in DOMAIN batch : /\ \A r \in S : r.t # batch[i].t
                          /\ \A j \in 1 .. i - 1 : batch[j].t # batch[i].t}

Joined(S, batch) == S \cup {batch[i] : i \in New(S, batch)}

Window(P, n) == {x \in P : n =< x.t + HistoryWindow}

(* The batch can join the rows.                                            *)
Fits(S, batch, P, n) ==
    /\ FlaggedRows(Joined(S, batch), P)
    /\ Gapless(Joined(S, batch), Window(P, n))
    /\ Extends(Joined(S, batch), S)

(* The rows of an AirTag are flagged by the rows before them, and still    *)
(* will be with the batch that is to join them.                            *)
PlausibleInv ==
    /\ \A a \in AirTags :
          FlaggedRows(stored[a], apple[a]) /\ Gapless(stored[a], Window(apple[a], now))
    /\ \A p \in Pollers :
          pc[p] = "insert" /\ airtags[Current(p)] # "deleted" =>
             Fits(stored[Current(p)], poll[p].batch, apple[Current(p)], now)

LEMMA InsertedIsJoined ==
    ASSUME NEW a, NEW batch
    PROVE  Inserted(a, batch) = Joined(stored[a], batch)
BY DEF Inserted, NewlyInserted, Joined, New

LEMMA AnswerIsWindow == \A a : Answer(a) = Window(apple[a], now)
BY DEF Answer, Window

(* Of reports with different timestamps, the one with the last is the one  *)
(* that LatestReading chooses, and the last of their sequence.             *)
LEMMA LatestOf ==
    ASSUME NEW S, OnePerTimestamp(S), NEW x \in S, \A y \in S : y.t \in Nat /\ y.t =< x.t
    PROVE  LatestReading(S) = x
<1>1. LatestReading(S) \in S /\ \A y \in S : y.t =< LatestReading(S).t
  BY DEF LatestReading
<1>2. LatestReading(S).t = x.t
  BY <1>1
<1> QED BY <1>1, <1>2 DEF OnePerTimestamp

LEMMA LastIsLatest ==
    ASSUME NEW S, IsFiniteSet(S), OnePerTimestamp(S), \A y \in S : y.t \in Nat,
           NEW s \in InTimeOrder(S)
    PROVE  LastOf(s) = LatestReading(S)
<1> DEFINE n == Cardinality(S)
<1>1. n \in Nat
  BY FS_CardinalityType
<1>2. /\ s \in [1 .. n -> S] /\ \A x \in S : \E i \in 1 .. n : s[i] = x
      /\ \A i, j \in 1 .. n : i < j => s[i].t =< s[j].t
  BY DEF InTimeOrder
<1> HIDE DEF n
<1>3. s \in Seq(S) /\ Len(s) = n
  BY <1>1, <1>2
<1>4. CASE n = 0
  <2>1. s = <<>> /\ S = {}
    BY <1>2, <1>3, <1>4
  <2> QED BY <2>1 DEF LastOf, LatestReading
<1>5. CASE n > 0
  <2>1. s # <<>> /\ n \in 1 .. n /\ s[n] \in S
    BY <1>1, <1>2, <1>3, <1>5
  <2>2. \A y \in S : y.t =< s[n].t
    <3> SUFFICES ASSUME NEW y \in S PROVE y.t =< s[n].t
      OBVIOUS
    <3>1. PICK i \in 1 .. n : s[i] = y
      BY <1>2
    <3> QED BY <1>1, <1>2, <2>1, <3>1
  <2> QED BY <1>3, <2>1, <2>2, LatestOf DEF LastOf
<1> QED BY <1>1, <1>4, <1>5

(* Finitely many reports can be put in order.                              *)
LEMMA Latest ==
    ASSUME NEW S, IsFiniteSet(S), S # {}, \A y \in S : y.t \in Nat
    PROVE  \E x \in S : \A y \in S : y.t =< x.t
<1> DEFINE Sorted == {n \in Nat : \A T \in SUBSET S : T # {} /\ Cardinality(T) = n =>
                                     \E x \in T : \A y \in T : y.t =< x.t}
<1>1. 0 \in Sorted
  <2>1. \A T \in SUBSET S : Cardinality(T) = 0 => T = {}
    BY FS_EmptySet, FS_Subset
  <2> QED BY <2>1
<1>2. \A n \in Nat : n \in Sorted => n + 1 \in Sorted
  <2> SUFFICES ASSUME NEW n \in Nat, n \in Sorted,
                      NEW T \in SUBSET S, T # {}, Cardinality(T) = n + 1
               PROVE  \E x \in T : \A y \in T : y.t =< x.t
    OBVIOUS
  <2>1. PICK z \in T : TRUE
    OBVIOUS
  <2>2. IsFiniteSet(T)
    BY FS_Subset
  <2>3. Cardinality(T \ {z}) = n /\ T \ {z} \in SUBSET S
    <3>1. Cardinality(T \ {z}) = Cardinality(T) - 1
      BY <2>1, <2>2, FS_RemoveElement
    <3> QED BY <3>1
  <2>4. CASE T \ {z} = {}
    BY <2>1, <2>4
  <2>5. CASE T \ {z} # {}
    <3>1. PICK x \in T \ {z} : \A y \in T \ {z} : y.t =< x.t
      BY <2>3, <2>5
    <3>2. x.t \in Nat /\ z.t \in Nat /\ \A y \in T : y.t \in Nat
      BY <2>1
    <3>3. CASE z.t =< x.t
      BY <3>1, <3>3
    <3>4. CASE x.t =< z.t
      BY <2>1, <3>1, <3>2, <3>4
    <3> QED BY <3>2, <3>3, <3>4
  <2> QED BY <2>4, <2>5
<1>3. Cardinality(S) \in Sorted
  <2>1. Nat \subseteq Sorted
    <3> HIDE DEF Sorted
    <3> QED BY <1>1, <1>2, Counting
  <2> QED BY <2>1, FS_CardinalityType
<1> QED BY <1>3

LEMMA OrderExists ==
    ASSUME NEW U, IsFiniteSet(U), \A y \in U : y.t \in Nat
    PROVE  InTimeOrder(U) # {}
<1> DEFINE Sorted == {n \in Nat : \A S \in SUBSET U : Cardinality(S) = n => InTimeOrder(S) # {}}
<1>1. 0 \in Sorted
  <2> SUFFICES ASSUME NEW S \in SUBSET U, Cardinality(S) = 0
               PROVE  InTimeOrder(S) # {}
    OBVIOUS
  <2>1. S = {}
    BY FS_EmptySet, FS_Subset
  <2>2. <<>> \in [1 .. Cardinality(S) -> S] /\ DOMAIN <<>> = {}
    OBVIOUS
  <2> QED BY <2>1, <2>2 DEF InTimeOrder
<1>2. \A n \in Nat : n \in Sorted => n + 1 \in Sorted
  <2> SUFFICES ASSUME NEW n \in Nat, n \in Sorted, NEW S \in SUBSET U, Cardinality(S) = n + 1
               PROVE  InTimeOrder(S) # {}
    OBVIOUS
  <2>1. IsFiniteSet(S) /\ S # {}
    BY FS_Subset, FS_EmptySet
  <2>2. PICK x \in S : \A y \in S : y.t =< x.t
    BY <2>1, Latest
  <2>3. Cardinality(S \ {x}) = n /\ S \ {x} \in SUBSET U
    <3>1. Cardinality(S \ {x}) = Cardinality(S) - 1
      BY <2>1, <2>2, FS_RemoveElement
    <3> QED BY <3>1
  <2>4. PICK s : s \in InTimeOrder(S \ {x})
    BY <2>3
  <2>5. /\ s \in [1 .. n -> S \ {x}] /\ \A y \in S \ {x} : \E i \in 1 .. n : s[i] = y
        /\ \A i, j \in 1 .. n : i < j => s[i].t =< s[j].t
    BY <2>3, <2>4 DEF InTimeOrder
  <2> DEFINE r == [i \in 1 .. n + 1 |-> IF i = n + 1 THEN x ELSE s[i]]
  <2>6. r \in [1 .. n + 1 -> S] /\ DOMAIN r = 1 .. n + 1
    BY <2>2, <2>5
  <2>7. r[n + 1] = x /\ \A i \in 1 .. n : r[i] = s[i]
    OBVIOUS
  <2> HIDE DEF r
  <2>8. \A y \in S : \E i \in 1 .. n + 1 : r[i] = y
    BY <2>5, <2>7
  <2>9. ASSUME NEW i \in 1 .. n + 1, NEW j \in 1 .. n + 1, i < j
        PROVE  r[i].t =< r[j].t
    <3>1. i \in 1 .. n /\ r[i] = s[i] /\ s[i] \in S
      BY <2>5, <2>7, <2>9
    <3>2. CASE j = n + 1
      BY <2>2, <2>7, <3>1, <3>2
    <3>3. CASE j \in 1 .. n
      BY <2>5, <2>7, <2>9, <3>1, <3>3
    <3> QED BY <3>2, <3>3
  <2>10. r \in InTimeOrder(S)
    BY <2>6, <2>8, <2>9 DEF InTimeOrder
  <2> QED BY <2>10
<1>3. Cardinality(U) \in Sorted
  <2>1. Nat \subseteq Sorted
    <3> HIDE DEF Sorted
    <3> QED BY <1>1, <1>2, Counting
  <2> QED BY <2>1, FS_CardinalityType
<1> QED BY <1>3

-----------------------------------------------------------------------------
(* The reports of a set, as far as the flags need them.                    *)
Sound(P) ==
    /\ OnePerTimestamp(P)
    /\ \A x \in P : x.t \in Nat /\ None \notin {x, Row(x, TRUE), Row(x, FALSE)}

LEMMA RowFields ==
    ASSUME NEW x, NEW f
    PROVE  Row(x, f).t = x.t /\ Row(x, f).isOutlier = f
BY DEF Row

(* A flag depends on the report and on where and when the one before was,  *)
(* not on their own flags.                                                 *)
LEMMA FlagOfRow ==
    ASSUME NEW x, NEW f, NEW y
    PROVE  IsSpeedOutlier(Row(x, f), y, Cfg) <=> IsSpeedOutlier(x, y, Cfg)
<1> DEFINE r == Row(x, f)
<1>1. r.t = x.t /\ r.pos = x.pos /\ r.conf = x.conf
  BY DEF Row
<1> HIDE DEF r
<1>2. IsSpeedOutlier(r, y, Cfg) <=> IsSpeedOutlier(x, y, Cfg)
  BY <1>1 DEF IsSpeedOutlier, IsLowConfidence
<1> QED BY <1>2 DEF r

LEMMA FlagAfterRow ==
    ASSUME NEW x, NEW y, NEW f, y # None, Row(y, f) # None
    PROVE  IsSpeedOutlier(x, Row(y, f), Cfg) <=> IsSpeedOutlier(x, y, Cfg)
<1> DEFINE q == Row(y, f)
<1>1. q.t = y.t /\ q.pos = y.pos /\ q # None
  BY DEF Row
<1> HIDE DEF q
<1>2. IsSpeedOutlier(x, q, Cfg) <=> IsSpeedOutlier(x, y, Cfg)
  BY <1>1 DEF IsSpeedOutlier
<1> QED BY <1>2 DEF q

(* The step of the flagging loop.                                          *)
FlagStep(s, i, kept) == IF IsSpeedOutlier(s[i], kept, Cfg) THEN kept ELSE s[i]

(* The loop keeps, up to each report, the last that is no outlier.         *)
KeepsLast(s, baseline, kept) ==
    /\ kept[0] = baseline
    /\ \A i \in 1 .. Len(s) : kept[i] = FlagStep(s, i, kept[i - 1])
    /\ FlagOutliers(s, baseline) =
         [i \in 1 .. Len(s) |-> Row(s[i], IsSpeedOutlier(s[i], kept[i - 1], Cfg))]

LEMMA FlaggingLoop ==
    ASSUME NEW P, NEW s \in Seq(P), NEW baseline
    PROVE  \E kept : KeepsLast(s, baseline, kept)
<1> DEFINE n == Len(s)
           V == P \cup {baseline}
           Loop(f) == [i \in 0 .. Len(s) |->
                         IF i = 0 THEN baseline
                         ELSE IF IsSpeedOutlier(s[i], f[i - 1], Cfg) THEN f[i - 1] ELSE s[i]]
           kept == CHOOSE f : f = Loop(f)
           G == [i \in 1 .. n |-> [v \in V |-> FlagStep(s, i, v)]]
<1>1. n \in Nat /\ \A i \in 1 .. n, v \in V : FlagStep(s, i, v) \in V
  BY DEF FlagStep
<1>2. G \in [1 .. n -> [V -> V]] /\ \A i \in 1 .. n, v \in V : G[i][v] = FlagStep(s, i, v)
  <2> HIDE DEF V, n
  <2> QED BY <1>1
<1>3. PICK g : Follows(g, n, V, baseline, G)
  <2>1. baseline \in V
    OBVIOUS
  <2> HIDE DEF n, V, G
  <2> QED BY <1>1, <1>2, <2>1, RecursionTo
<1>4. \A f : Loop(f) = [i \in 0 .. n |-> IF i = 0 THEN baseline ELSE FlagStep(s, i, f[i - 1])]
  BY DEF FlagStep
<1>5. g = [i \in 0 .. n |-> IF i = 0 THEN baseline ELSE FlagStep(s, i, g[i - 1])]
  <2> HIDE DEF n, V, G
  <2>1. g \in [0 .. n -> V] /\ g[0] = baseline
    BY <1>3 DEF Follows
  <2>2. \A i \in 1 .. n : g[i] = FlagStep(s, i, g[i - 1])
    <3> SUFFICES ASSUME NEW i \in 1 .. n PROVE g[i] = FlagStep(s, i, g[i - 1])
      OBVIOUS
    <3>1. g[i - 1] \in V
      BY <1>1, <2>1
    <3> QED BY <1>2, <1>3, <3>1 DEF Follows
  <2> QED BY <1>1, <2>1, <2>2
<1>6. kept = [i \in 0 .. n |-> IF i = 0 THEN baseline ELSE FlagStep(s, i, kept[i - 1])]
  <2> HIDE DEF Loop, n
  <2>1. g = Loop(g)
    BY <1>4, <1>5
  <2>2. kept = Loop(kept)
    BY <2>1
  <2> QED BY <1>4, <2>2
<1>7. FlagOutliers(s, baseline) =
        [i \in 1 .. n |-> Row(s[i], IsSpeedOutlier(s[i], kept[i - 1], Cfg))]
  BY DEF FlagOutliers
<1>8. kept[0] = baseline /\ \A i \in 1 .. n : kept[i] = FlagStep(s, i, kept[i - 1])
  <2> HIDE DEF kept, n
  <2>1. n \in Nat
    BY <1>1
  <2>2. \A i \in 0 .. n : kept[i] = IF i = 0 THEN baseline ELSE FlagStep(s, i, kept[i - 1])
    BY <1>6
  <2> QED BY <2>1, <2>2
<1>9. KeepsLast(s, baseline, kept)
  <2> HIDE DEF kept
  <2> QED BY <1>7, <1>8 DEF KeepsLast
<1> QED BY <1>9

(* A row stands for a report of P.                                         *)
LEMMA RowOf ==
    ASSUME NEW P, Sound(P), NEW R, FlaggedRows(R, P), NEW r \in R
    PROVE  /\ \E x \in P, f \in BOOLEAN : r = Row(x, f) /\ r.t = x.t /\ r.isOutlier = f
           /\ r.t \in Nat /\ r # None
<1>1. PICK x \in P : r = Row(x, TRUE) \/ r = Row(x, FALSE)
  BY DEF FlaggedRows
<1>2. PICK f \in BOOLEAN : r = Row(x, f)
  BY <1>1
<1>3. r.t = x.t /\ r.isOutlier = f
  BY <1>2, RowFields
<1>4. x.t \in Nat /\ r # None
  BY <1>1 DEF Sound
<1> QED BY <1>2, <1>3, <1>4

(* Flagged rows are finitely many.                                         *)
LEMMA RowsAreFinite ==
    ASSUME NEW P, IsFiniteSet(P), Sound(P), NEW R, FlaggedRows(R, P)
    PROVE  IsFiniteSet(R)
<1>1. \A r, s \in R : r.t = s.t => r = s
  BY DEF FlaggedRows, OnePerTimestamp
<1> DEFINE report == [r \in R |-> CHOOSE x \in P : x.t = r.t]
<1>2. \A r \in R : report[r] \in P /\ report[r].t = r.t
  <2>1. \A r \in R : \E x \in P : x.t = r.t
    BY RowOf
  <2> QED BY <2>1
<1>3. DOMAIN report = R /\ report = [r \in R |-> report[r]]
  OBVIOUS
<1> HIDE DEF report
<1>4. report \in [R -> P]
  BY <1>2, <1>3
<1>5. report \in Injection(R, P)
  BY <1>1, <1>2, <1>4 DEF Injection, IsInjective
<1> QED BY <1>5, FS_Injection

(* What the queries of a poll find before a time.                          *)
LEMMA LastReportBefore ==
    ASSUME NEW P, IsFiniteSet(P), Sound(P), NEW a, FlaggedRows(stored[a], P), NEW t
    PROVE  LastOf(ReportsBefore(a, t)) = LatestReading(KeptBefore(stored[a], t))
<1> DEFINE K == KeptBefore(stored[a], t)
<1>1. K \subseteq stored[a]
  BY DEF KeptBefore
<1>2. \A r \in stored[a] : r.t \in Nat
  BY RowOf
<1>3. OnePerTimestamp(stored[a]) /\ IsFiniteSet(stored[a])
  BY RowsAreFinite DEF FlaggedRows
<1>4. OnePerTimestamp(K) /\ IsFiniteSet(K) /\ \A r \in K : r.t \in Nat
  BY <1>1, <1>2, <1>3, FS_Subset DEF OnePerTimestamp
<1>5. ReportsBefore(a, t) = CHOOSE s \in InTimeOrder(K) : TRUE
  BY DEF ReportsBefore, KeptBefore
<1> HIDE DEF K
<1>6. ReportsBefore(a, t) \in InTimeOrder(K)
  BY <1>4, <1>5, OrderExists
<1>7. LastOf(ReportsBefore(a, t)) = LatestReading(K)
  BY <1>4, <1>6, LastIsLatest
<1> QED BY <1>7 DEF K

(* Rows that are added at the end leave what comes before a row.           *)
LEMMA SameKept ==
    ASSUME NEW J, NEW R, Extends(J, R), \A q \in J : q.t \in Nat, NEW r \in R
    PROVE  KeptBefore(J, r.t) = KeptBefore(R, r.t)
<1>1. \A q \in J : q.t < r.t => q \in R
  BY DEF Extends
<1> QED BY <1>1 DEF Extends, KeptBefore

(* z is y, or its row: a report is an outlier after both or after neither. *)
Stands(z, y) ==
    /\ z = None <=> y = None
    /\ y # None => z \in {y, Row(y, TRUE), Row(y, FALSE)}

LEMMA FlagAfter ==
    ASSUME NEW x, NEW y, NEW z, Stands(z, y)
    PROVE  IsSpeedOutlier(x, z, Cfg) <=> IsSpeedOutlier(x, y, Cfg)
<1>1. CASE z = y
  BY <1>1
<1>2. CASE z # y
  <2>1. y # None /\ z # None /\ (z = Row(y, TRUE) \/ z = Row(y, FALSE))
    BY <1>2 DEF Stands
  <2> QED BY <2>1, FlagAfterRow
<1> QED BY <1>1, <1>2

(* What an insert makes of the rows of an AirTag.                          *)
LEMMA InsertedBatch ==
    ASSUME NEW R, NEW batch, NEW n \in Nat, DOMAIN batch = 1 .. n,
           \A i, j \in 1 .. n : i # j => batch[i].t # batch[j].t
    PROVE  /\ R \subseteq Joined(R, batch)
           /\ \A u \in Joined(R, batch) \ R : \E i \in 1 .. n :
                 u = batch[i] /\ \A r \in R : r.t # batch[i].t
           /\ \A i \in 1 .. n : (\A r \in R : r.t # batch[i].t)
                                   => batch[i] \in Joined(R, batch)
<1> DEFINE new == New(R, batch)
<1>1. \A i \in 1 .. n : i \in new <=> \A r \in R : r.t # batch[i].t
  <2> SUFFICES ASSUME NEW i \in 1 .. n, \A r \in R : r.t # batch[i].t
               PROVE  \A j \in 1 .. i - 1 : batch[j].t # batch[i].t
    BY DEF New
  <2> QED OBVIOUS
<1>2. new \subseteq 1 .. n
  BY DEF New
<1>3. Joined(R, batch) = R \cup {batch[i] : i \in new}
  BY DEF Joined
<1> HIDE DEF new
<1> QED BY <1>1, <1>2, <1>3

(* A poll flags the end of a history that Apple still answers with, from   *)
(* the last row it kept of what comes before: the rows it finds stored it  *)
(* flags as they are, and what it adds comes after them.                   *)
LEMMA FlaggedBatch ==
    ASSUME NEW a, NEW P, IsFiniteSet(P), Sound(P), NEW A \in SUBSET P, A # {},
           \A x \in P, y \in A : y.t =< x.t => x \in A,
           FlaggedRows(stored[a], P), Gapless(stored[a], A), NEW s \in InTimeOrder(A)
    PROVE  LET rows == Joined(stored[a], FlagOutliers(s, Baseline(a, s[1].t)))
           IN  FlaggedRows(rows, P) /\ Gapless(rows, A) /\ Extends(rows, stored[a])
<1> DEFINE n == Len(s)
           R == stored[a]
           baseline == Baseline(a, s[1].t)
           batch == FlagOutliers(s, baseline)
           J == Joined(stored[a], batch)
<1>1. /\ s \in Seq(A) /\ n \in Nat /\ DOMAIN s = 1 .. n
      /\ \A i \in 1 .. n : s[i] \in A /\ s[i] \in P /\ s[i].t \in Nat
      /\ \A x \in A : \E i \in 1 .. n : s[i] = x
      /\ 1 \in 1 .. n
  <2>1. s \in Seq(A) /\ \A x \in A : \E i \in DOMAIN s : s[i] = x
    BY FS_Subset, Enumerated DEF InTimeOrder
  <2>2. PICK x \in A : TRUE
    OBVIOUS
  <2>3. \A x2 \in P : x2.t \in Nat
    BY DEF Sound
  <2>4. n \in Nat /\ DOMAIN s = 1 .. n /\ \A i \in 1 .. n : s[i] \in A
    BY <2>1
  <2>5. \E i \in 1 .. n : s[i] = x
    BY <2>1, <2>2, <2>4
  <2> QED BY <2>1, <2>3, <2>4, <2>5
<1>2. \A i, j \in 1 .. n : i < j => s[i].t < s[j].t
  <2> SUFFICES ASSUME NEW i \in 1 .. n, NEW j \in 1 .. n, i < j PROVE s[i].t < s[j].t
    OBVIOUS
  <2>1. s[i] # s[j]
    <3>1. IsFiniteSet(A)
      BY FS_Subset
    <3>2. \A k, l \in DOMAIN s : k # l => s[k] # s[l]
      BY <3>1, Enumerated
    <3> QED BY <1>1, <3>2
  <2>2. s[i].t =< s[j].t
    BY <1>1 DEF InTimeOrder
  <2>3. s[i].t # s[j].t
    BY <1>1, <2>1 DEF Sound, OnePerTimestamp
  <2> QED BY <1>1, <2>2, <2>3
<1>3. PICK kept : KeepsLast(s, baseline, kept)
  BY <1>1, FlaggingLoop
<1>4. /\ DOMAIN batch = 1 .. n
      /\ \A i \in 1 .. n : batch[i] = Row(s[i], IsSpeedOutlier(s[i], kept[i - 1], Cfg))
  BY <1>3 DEF KeepsLast
<1>5. baseline = LatestReading(KeptBefore(R, s[1].t))
  BY LastReportBefore DEF Baseline
<1> HIDE DEF batch, baseline
<1>6. \A i \in 1 .. n : /\ batch[i] \in {Row(s[i], TRUE), Row(s[i], FALSE)}
                        /\ batch[i].t = s[i].t /\ batch[i] # None
                        /\ batch[i].isOutlier \in BOOLEAN
                        /\ batch[i].isOutlier <=> IsSpeedOutlier(s[i], kept[i - 1], Cfg)
                        /\ batch[i] = Row(s[i], batch[i].isOutlier)
  <2> SUFFICES ASSUME NEW i \in 1 .. n
               PROVE  /\ batch[i] \in {Row(s[i], TRUE), Row(s[i], FALSE)}
                      /\ batch[i].t = s[i].t /\ batch[i] # None
                      /\ batch[i].isOutlier \in BOOLEAN
                      /\ batch[i].isOutlier <=> IsSpeedOutlier(s[i], kept[i - 1], Cfg)
                      /\ batch[i] = Row(s[i], batch[i].isOutlier)
    OBVIOUS
  <2> DEFINE flag == IsSpeedOutlier(s[i], kept[i - 1], Cfg)
  <2>1. flag \in BOOLEAN
    BY DEF IsSpeedOutlier
  <2>2. batch[i] = Row(s[i], flag)
    BY <1>4
  <2> HIDE DEF flag
  <2>3. batch[i].t = s[i].t /\ batch[i].isOutlier = flag
    BY <2>2, RowFields
  <2>4. batch[i] = Row(s[i], TRUE) \/ batch[i] = Row(s[i], FALSE)
    BY <2>1, <2>2
  <2>5. batch[i] # None
    BY <1>1, <2>4 DEF Sound
  <2> QED BY <2>1, <2>2, <2>3, <2>4, <2>5 DEF flag
<1>6a. \A i \in 1 .. n : batch[i].t = s[i].t
  BY <1>6
<1>6b. \A i \in 1 .. n : batch[i] = Row(s[i], TRUE) \/ batch[i] = Row(s[i], FALSE)
  BY <1>6
<1>7. \A i, j \in 1 .. n : i # j => s[i].t # s[j].t
  <2> SUFFICES ASSUME NEW i \in 1 .. n, NEW j \in 1 .. n, i # j PROVE s[i].t # s[j].t
    OBVIOUS
  <2>1. i < j \/ j < i
    OBVIOUS
  <2> QED BY <1>1, <1>2, <2>1
<1>8. /\ R \subseteq J
      /\ \A u \in J \ R : \E i \in 1 .. n : u = batch[i] /\ \A r \in R : r.t # s[i].t
      /\ \A i \in 1 .. n : (\A r \in R : r.t # s[i].t) => batch[i] \in J
  <2>1. \A i, j \in 1 .. n : i # j => batch[i].t # batch[j].t
    BY <1>6, <1>7
  <2>2. /\ R \subseteq J
        /\ \A u \in J \ R : \E i \in 1 .. n : u = batch[i] /\ \A r \in R : r.t # batch[i].t
        /\ \A i \in 1 .. n : (\A r \in R : r.t # batch[i].t) => batch[i] \in J
    BY <1>1, <1>4, <2>1, InsertedBatch
  <2> HIDE DEF J, R, n
  <2> QED BY <1>6a, <2>2
<1>9. \A r \in R : r.t \in Nat /\ r # None
  BY RowOf
<1> HIDE DEF J, n
<1>10. Extends(J, R)
  <2> SUFFICES ASSUME NEW q \in J \ R, NEW r \in R PROVE r.t < q.t
    BY <1>8 DEF Extends
  <2>1. PICK i \in 1 .. n : q = batch[i] /\ \A x \in R : x.t # s[i].t
    BY <1>8
  <2>2. ~(s[i].t =< r.t)
    BY <1>1, <2>1 DEF Gapless
  <2>3. q.t = s[i].t /\ s[i].t \in Nat
    BY <1>1, <1>6a, <2>1
  <2>4. r.t \in Nat
    BY <1>9
  <2> QED BY <2>2, <2>3, <2>4
<1>11. \A u \in J : u.t \in Nat
  <2> SUFFICES ASSUME NEW u \in J PROVE u.t \in Nat
    OBVIOUS
  <2>1. CASE u \in R
    BY <1>9, <2>1
  <2>2. CASE u \notin R
    <3>1. PICK i \in 1 .. n : u = batch[i]
      BY <1>8, <2>2
    <3> QED BY <1>1, <1>6a, <3>1
  <2> QED BY <2>1, <2>2
<1>12. OnePerTimestamp(J)
  <2> SUFFICES ASSUME NEW u \in J, NEW v \in J, u.t = v.t PROVE u = v
    BY DEF OnePerTimestamp
  <2>1. CASE u \in R /\ v \in R
    BY <2>1 DEF FlaggedRows, OnePerTimestamp
  <2>2. CASE u \notin R /\ v \notin R
    <3>1. PICK i \in 1 .. n : u = batch[i]
      BY <1>8, <2>2
    <3>2. PICK j \in 1 .. n : v = batch[j]
      BY <1>8, <2>2
    <3>3. s[i].t = s[j].t
      BY <1>6a, <3>1, <3>2
    <3> QED BY <1>7, <3>1, <3>2, <3>3
  <2>3. ~(u.t < v.t) /\ ~(v.t < u.t)
    BY <1>11
  <2> QED BY <1>10, <2>1, <2>2, <2>3 DEF Extends
<1>13. \A r \in R : KeptBefore(J, r.t) = KeptBefore(R, r.t)
  BY <1>10, <1>11, SameKept
<1>14. \A r \in R : s[1].t =< r.t =>
          \E i \in 1 .. n, f \in BOOLEAN : r = Row(s[i], f) /\ r.t = s[i].t /\ r.isOutlier = f
  <2> SUFFICES ASSUME NEW r \in R, s[1].t =< r.t
               PROVE  \E i \in 1 .. n, f \in BOOLEAN :
                         r = Row(s[i], f) /\ r.t = s[i].t /\ r.isOutlier = f
    OBVIOUS
  <2>1. PICK x \in P, f \in BOOLEAN : r = Row(x, f) /\ r.t = x.t /\ r.isOutlier = f
    BY RowOf
  <2>2. x \in A
    BY <1>1, <2>1
  <2> QED BY <1>1, <2>1, <2>2
<1>15. \A i \in 1 .. n : s[1].t =< s[i].t
  <2> SUFFICES ASSUME NEW i \in 1 .. n PROVE s[1].t =< s[i].t
    OBVIOUS
  <2>1. 1 = i \/ 1 < i
    OBVIOUS
  <2> QED BY <1>1, <1>2, <2>1
(* The loop has at hand what is the last kept row in the end.              *)
<1> DEFINE Last(i) == LatestReading(KeptBefore(J, s[i].t))
           Right == {m \in 0 .. n : m = n \/ Stands(Last(m + 1), kept[m])}
<1>16. ASSUME NEW i \in 1 .. n, Stands(Last(i), kept[i - 1])
       PROVE  batch[i] \in J /\ (batch[i].isOutlier <=> IsSpeedOutlier(s[i], Last(i), Cfg))
  <2>1. IsSpeedOutlier(s[i], Last(i), Cfg) <=> IsSpeedOutlier(s[i], kept[i - 1], Cfg)
    BY <1>16, FlagAfter
  <2>2. batch[i].isOutlier <=> IsSpeedOutlier(s[i], Last(i), Cfg)
    BY <1>6, <2>1
  <2>3. CASE \A r \in R : r.t # s[i].t
    BY <1>8, <2>2, <2>3
  <2>4. ASSUME NEW r \in R, r.t = s[i].t
        PROVE  batch[i] \in J
    <3>1. PICK j \in 1 .. n, f \in BOOLEAN : r = Row(s[j], f) /\ r.t = s[j].t /\ r.isOutlier = f
      BY <1>14, <1>15, <2>4
    <3>2. j = i
      BY <1>7, <2>4, <3>1
    <3>3. r.isOutlier <=> IsSpeedOutlier(r, LatestReading(KeptBefore(R, r.t)), Cfg)
      BY DEF FlaggedRows
    <3>4. KeptBefore(R, r.t) = KeptBefore(J, s[i].t)
      BY <1>13, <2>4
    <3>5. r.isOutlier <=> IsSpeedOutlier(r, Last(i), Cfg)
      BY <3>3, <3>4
    <3> HIDE DEF Last
    <3>6. r.isOutlier <=> IsSpeedOutlier(s[i], Last(i), Cfg)
      BY <3>1, <3>2, <3>5, FlagOfRow
    <3>7. f = batch[i].isOutlier
      BY <1>6, <2>2, <3>1, <3>6
    <3>8. r = batch[i]
      BY <1>6, <3>1, <3>2, <3>7
    <3> QED BY <1>8, <3>8
  <2> QED BY <2>2, <2>3, <2>4
<1>17. 0 .. n \subseteq Right
  <2>1. 0 \in Right
    <3>1. \A u \in J : u.t < s[1].t => u \in R
      <4> SUFFICES ASSUME NEW u \in J, u.t < s[1].t, u \notin R PROVE FALSE
        OBVIOUS
      <4>1. PICK i \in 1 .. n : u = batch[i]
        BY <1>8
      <4>2. u.t = s[i].t /\ s[1].t =< s[i].t /\ s[i].t \in Nat /\ s[1].t \in Nat
        BY <1>1, <1>6a, <1>15, <4>1
      <4> QED BY <4>2
    <3>2. KeptBefore(J, s[1].t) = KeptBefore(R, s[1].t)
      BY <1>8, <3>1 DEF KeptBefore
    <3>3. Last(1) = kept[0]
      BY <1>3, <1>5, <3>2 DEF KeepsLast
    <3>4. 0 + 1 = 1 /\ 0 \in 0 .. n
      BY <1>1
    <3> HIDE DEF Last
    <3> QED BY <3>3, <3>4 DEF Stands
  <2>2. ASSUME NEW i \in 1 .. n, i - 1 \in Right
        PROVE  i \in Right
    <3>1. i \in 0 .. n /\ (i - 1) + 1 = i /\ i - 1 # n /\ kept[i] = FlagStep(s, i, kept[i - 1])
      BY <1>1, <1>3 DEF KeepsLast, n
    <3>2. Stands(Last(i), kept[i - 1])
      <4> HIDE DEF Last
      <4> QED BY <2>2, <3>1
    <3>3. batch[i] \in J /\ (batch[i].isOutlier <=> IsSpeedOutlier(s[i], kept[i - 1], Cfg))
      BY <1>6, <1>16, <3>2
    <3>4. CASE i = n
      BY <3>1, <3>4
    <3>5. CASE i # n
      <4>1. i + 1 \in 1 .. n /\ s[i].t < s[i + 1].t
        BY <1>1, <1>2, <3>5
      <4>2. ASSUME NEW u \in J
            PROVE  u.t < s[i + 1].t <=> u.t < s[i].t \/ u = batch[i]
        <5>1. u = batch[i] => u.t < s[i + 1].t
          BY <1>6, <4>1
        <5>2. u.t < s[i].t => u.t < s[i + 1].t
          BY <1>1, <1>11, <4>1
        <5>3. ASSUME u.t < s[i + 1].t, ~(u.t < s[i].t)
              PROVE  u = batch[i]
          <6>1. PICK j \in 1 .. n : u.t = s[j].t
            <7>1. CASE u \in R
              <8>1. s[1].t =< u.t
                BY <1>1, <1>11, <1>15, <5>3
              <8> QED BY <1>14, <7>1, <8>1
            <7>2. CASE u \notin R
              <8>1. PICK j \in 1 .. n : u = batch[j]
                BY <1>8, <7>2
              <8> QED BY <1>6a, <8>1
            <7> QED BY <7>1, <7>2
          <6>2. ~(j < i) /\ ~(i + 1 < j) /\ j # i + 1
            <7>1. j < i => s[j].t < s[i].t
              BY <1>2
            <7>2. i + 1 < j => s[i + 1].t < s[j].t
              BY <1>2, <4>1
            <7>3. u.t = s[j].t /\ s[i].t \in Nat /\ s[i + 1].t \in Nat /\ s[j].t \in Nat
              BY <1>1, <4>1, <6>1
            <7>4. ~(s[j].t < s[i].t) /\ s[j].t < s[i + 1].t
              BY <5>3, <7>3
            <7>5. ~(s[i + 1].t < s[j].t) /\ s[j].t # s[i + 1].t
              BY <7>3, <7>4
            <7> QED BY <7>1, <7>2, <7>4, <7>5
          <6>3. j = i
            BY <6>2
          <6>4. u.t = batch[i].t
            BY <1>6, <6>1, <6>3
          <6> QED BY <1>12, <3>3, <6>4 DEF OnePerTimestamp
        <5> QED BY <5>1, <5>2, <5>3
      <4>3. CASE batch[i].isOutlier
        <5>1. kept[i] = kept[i - 1]
          BY <3>1, <3>3, <4>3 DEF FlagStep
        <5>2. KeptBefore(J, s[i + 1].t) = KeptBefore(J, s[i].t)
          BY <4>2, <4>3 DEF KeptBefore
        <5> QED BY <3>1, <3>2, <5>1, <5>2
      <4>4. CASE ~batch[i].isOutlier
        <5>1. kept[i] = s[i]
          BY <3>1, <3>3, <4>4 DEF FlagStep
        <5> DEFINE K == KeptBefore(J, s[i + 1].t)
        <5>2. batch[i] \in K /\ K \subseteq J
          BY <3>3, <4>2, <4>4 DEF KeptBefore
        <5>3. \A u \in K : u.t \in Nat /\ u.t =< batch[i].t
          <6>1. \A u \in K : u.t < s[i].t \/ u = batch[i]
            BY <4>2 DEF KeptBefore
          <6>2. \A u \in K : u.t \in Nat
            BY <1>11, <5>2
          <6> HIDE DEF K
          <6>3. batch[i].t = s[i].t /\ s[i].t \in Nat
            BY <1>1, <1>6a
          <6> QED BY <6>1, <6>2, <6>3
        <5>4. OnePerTimestamp(K)
          BY <1>12, <5>2 DEF OnePerTimestamp
        <5> HIDE DEF K
        <5>5. LatestReading(K) = batch[i]
          BY <5>2, <5>3, <5>4, LatestOf
        <5>6. Last(i + 1) = batch[i]
          BY <5>5 DEF K
        <5>7. s[i] # None
          BY <1>1 DEF Sound
        <5> HIDE DEF Last
        <5>8. Stands(Last(i + 1), kept[i])
          BY <1>6, <5>1, <5>6, <5>7 DEF Stands
        <5> QED BY <3>1, <5>8
      <4> QED BY <4>3, <4>4
    <3> QED BY <3>4, <3>5
  <2> HIDE DEF Right
  <2> QED BY <1>1, <2>1, <2>2, CountingTo
<1>18. \A i \in 1 .. n : batch[i] \in J /\ (batch[i].isOutlier <=> IsSpeedOutlier(s[i], Last(i), Cfg))
  <2> SUFFICES ASSUME NEW i \in 1 .. n
               PROVE  batch[i] \in J /\ (batch[i].isOutlier <=> IsSpeedOutlier(s[i], Last(i), Cfg))
    OBVIOUS
  <2>1. i - 1 \in 0 .. n /\ i - 1 # n /\ (i - 1) + 1 = i
    BY <1>1
  <2>2. Stands(Last(i), kept[i - 1])
    <3> HIDE DEF Last
    <3> QED BY <1>17, <2>1
  <2> QED BY <1>16, <2>2
<1>19. \A u \in J : u.isOutlier <=> IsSpeedOutlier(u, LatestReading(KeptBefore(J, u.t)), Cfg)
  <2> SUFFICES ASSUME NEW u \in J
               PROVE  u.isOutlier <=> IsSpeedOutlier(u, LatestReading(KeptBefore(J, u.t)), Cfg)
    OBVIOUS
  <2>1. CASE u \in R
    BY <1>13, <2>1 DEF FlaggedRows
  <2>2. CASE u \notin R
    <3>1. PICK i \in 1 .. n : u = batch[i]
      BY <1>8, <2>2
    <3>2. LatestReading(KeptBefore(J, u.t)) = Last(i)
      BY <1>6, <3>1
    <3> HIDE DEF Last
    <3>3. IsSpeedOutlier(u, Last(i), Cfg) <=> IsSpeedOutlier(s[i], Last(i), Cfg)
      BY <1>6, <3>1, FlagOfRow
    <3> QED BY <1>18, <3>1, <3>2, <3>3
  <2> QED BY <2>1, <2>2
<1>20. \A u \in J : \E x \in P : u = Row(x, TRUE) \/ u = Row(x, FALSE)
  <2> SUFFICES ASSUME NEW u \in J PROVE \E x \in P : u = Row(x, TRUE) \/ u = Row(x, FALSE)
    OBVIOUS
  <2>1. CASE u \in R
    BY <2>1 DEF FlaggedRows
  <2>2. CASE u \notin R
    <3>1. PICK i \in 1 .. n : u = batch[i]
      BY <1>8, <2>2
    <3>2. s[i] \in P
      BY <1>1
    <3> QED BY <1>6b, <3>1, <3>2
  <2> QED BY <2>1, <2>2
<1>21. Gapless(J, A)
  <2> SUFFICES ASSUME NEW x \in A PROVE \E q \in J : q.t = x.t
    BY DEF Gapless
  <2>1. PICK i \in 1 .. n : s[i] = x
    BY <1>1
  <2> QED BY <1>6, <1>18, <2>1
<1> QED BY <1>10, <1>12, <1>19, <1>20, <1>21 DEF FlaggedRows, J, batch, baseline

-----------------------------------------------------------------------------
(* Apple publishes the reports of an AirTag in the order of their          *)
(* timestamps, no two with the same, and the polls are those of one        *)
(* process, which take turns.                                              *)
InOrder ==
    /\ "late" \notin Faults
    /\ \A a \in AirTags : OnePerTimestamp(AppleReports[a])
    /\ \A p, q \in Pollers : ProcessOf[p] = ProcessOf[q]

LEMMA AppleIsSound ==
    ASSUME InOrder, PollTypes, NEW a \in AirTags
    PROVE  IsFiniteSet(apple[a]) /\ Sound(apple[a])
<1>1. IsFiniteSet(apple[a]) /\ apple[a] \subseteq AppleReports[a]
  BY DEF PollTypes
<1>2. \A x \in AppleReports[a] : x.t \in Nat
  BY ReportsAssumption, TimesAssumption
<1>3. \A x \in AppleReports[a] : None \notin {x, Row(x, TRUE), Row(x, FALSE)}
  BY RowsAssumption
<1>4. OnePerTimestamp(apple[a])
  BY <1>1 DEF InOrder, OnePerTimestamp
<1> QED BY <1>1, <1>2, <1>3, <1>4 DEF Sound

(* So while one poll is about to insert, no other is.                      *)
LEMMA OneInserts ==
    ASSUME InOrder, LockInv, NEW p \in Pollers, NEW q \in Pollers,
           pc[p] # "idle", pc[q] # "idle"
    PROVE  p = q
<1>1. lock[ProcessOf[p]] = p /\ lock[ProcessOf[q]] = q
  BY DEF LockInv, OnePollPerProcess
<1> QED BY <1>1 DEF InOrder

LEMMA FetchFlags ==
    ASSUME InOrder, PollTypes, PlausibleInv, NEW p \in Pollers, FetchHistory(p),
           pc'[p] = "insert"
    PROVE  /\ Current(p)' = Current(p) /\ Current(p) \in AirTags
           /\ Fits(stored[Current(p)], poll'[p].batch, apple[Current(p)], now)
<1> DEFINE a == Current(p)
           P == apple[a]
           A == Window(P, now)
<1>1. a \in AirTags
  BY DEF FetchHistory, PollTypes, Shape, Current
<1>2. IsFiniteSet(P) /\ Sound(P) /\ FlaggedRows(stored[a], P) /\ Gapless(stored[a], A)
  BY <1>1, AppleIsSound DEF PlausibleInv
<1>3. A # {}
  BY AnswerIsWindow DEF FetchHistory, Goto, PollTypes
<1>4. PICK s \in InTimeOrder(A) :
        poll' = [poll EXCEPT ![p].batch = FlagOutliers(s, Baseline(a, s[1].t)),
                             ![p].wasEmpty = (stored[a] = {})]
  BY <1>3, AnswerIsWindow DEF FetchHistory, History
<1> DEFINE batch == FlagOutliers(s, Baseline(a, s[1].t))
           empty == (stored[a] = {})
<1>5. poll'[p].batch = batch /\ Current(p)' = a
  <2>1. poll' = [poll EXCEPT ![p].batch = batch, ![p].wasEmpty = empty]
    BY <1>4
  <2>2. DOMAIN poll = Pollers /\ DOMAIN poll[p] = Fields
    BY DEF PollTypes, Shape
  <2> HIDE DEF batch, empty
  <2>3. poll'[p].batch = batch /\ poll'[p].queue = poll[p].queue
    BY <2>1, <2>2 DEF Fields
  <2> QED BY <2>3 DEF Current
<1>6. A \subseteq P /\ \A x \in P, y \in A : y.t =< x.t => x \in A
  <2>1. \A x \in P : x.t \in Nat
    BY <1>2 DEF Sound
  <2>2. now \in Nat /\ HistoryWindow \in Nat
    BY WindowAssumption DEF PollTypes
  <2>3. A = {x \in P : now =< x.t + HistoryWindow}
    BY DEF Window
  <2> HIDE DEF A, P
  <2> QED BY <2>1, <2>2, <2>3
<1>7. Fits(stored[a], batch, P, now)
  <2>1. \A x \in P, y \in A : y.t =< x.t => x \in A
    BY <1>6
  <2>2. A \in SUBSET P
    BY <1>6
  <2> HIDE DEF a, P, A
  <2>3. /\ FlaggedRows(Joined(stored[a], batch), P)
        /\ Gapless(Joined(stored[a], batch), A)
        /\ Extends(Joined(stored[a], batch), stored[a])
    BY <1>2, <1>3, <1>4, <2>1, <2>2, FlaggedBatch DEF batch
  <2> QED BY <2>3 DEF Fits, A
<1> QED BY <1>1, <1>5, <1>7

LEMMA PollStepPlausible ==
    ASSUME InOrder, LockInv, RowInv, PollTypes, PlausibleInv, NEW p \in Pollers, PollStep(p)
    PROVE  PlausibleInv'
<1>1. Effect(p) /\ Others(p)
  BY EffectOfStep DEF Effect
<1>2. airtags' = airtags /\ apple' = apple /\ now' = now
  BY <1>1 DEF Others
<1>3. CASE Insertion(p)
  <2> DEFINE b == Current(p)
  <2>1. pc[p] = "insert" /\ pc'[p] = "evaluate" /\ airtags[b] # "deleted" /\ b \in AirTags
    BY <1>3, CurrentTag DEF Insertion, Busy
  <2>2. /\ stored'[b] = Joined(stored[b], poll[p].batch)
        /\ \A a \in AirTags \ {b} : stored'[a] = stored[a]
    BY <1>3, <2>1 DEF Insertion, Joined, New, NewlyInserted, RowInv, RowTypes
  <2>3. Fits(stored[b], poll[p].batch, apple[b], now)
    BY <2>1 DEF PlausibleInv
  <2> HIDE DEF b
  <2>4. \A a \in AirTags :
          FlaggedRows(stored'[a], apple'[a]) /\ Gapless(stored'[a], Window(apple'[a], now'))
    BY <1>2, <2>2, <2>3 DEF PlausibleInv, Fits
  <2>5. \A q \in Pollers : pc'[q] # "insert"
    <3> SUFFICES ASSUME NEW q \in Pollers, q # p, pc[q] = "insert" PROVE FALSE
      BY <1>1, <2>1 DEF Others
    <3> QED BY <2>1, OneInserts
  <2> QED BY <2>4, <2>5 DEF PlausibleInv
<1>4. CASE stored' = stored
  <2>1. \A a \in AirTags :
          FlaggedRows(stored'[a], apple'[a]) /\ Gapless(stored'[a], Window(apple'[a], now'))
    BY <1>2, <1>4 DEF PlausibleInv
  <2>2. ASSUME NEW q \in Pollers, pc'[q] = "insert", airtags'[Current(q)'] # "deleted"
        PROVE  Fits(stored'[Current(q)'], poll'[q].batch, apple'[Current(q)'], now')
    <3>1. CASE q # p
      <4>1. poll'[q] = poll[q] /\ pc[q] = "insert"
        BY <1>1, <2>2, <3>1 DEF Others
      <4>2. Current(q)' = Current(q)
        BY <4>1 DEF Current
      <4>3. Fits(stored[Current(q)], poll[q].batch, apple[Current(q)], now)
        BY <1>2, <2>2, <4>1, <4>2 DEF PlausibleInv
      <4> QED BY <1>2, <1>4, <4>1, <4>2, <4>3
    <3>2. CASE q = p
      <4>1. FetchHistory(p)
        BY <2>2, <3>2, OnlyFetchInserts DEF PollTypes
      <4>2. /\ Current(p)' = Current(p)
            /\ Fits(stored[Current(p)], poll'[p].batch, apple[Current(p)], now)
        BY <2>2, <3>2, <4>1, FetchFlags
      <4> QED BY <1>2, <1>4, <3>2, <4>2
    <3> QED BY <3>1, <3>2
  <2> QED BY <2>1, <2>2 DEF PlausibleInv
<1> QED BY <1>1, <1>3, <1>4 DEF Effect, Aside, Advance, Proceed, Record

(* A report that is later than all before it leaves the rows as they are.  *)
LEMMA PublishPlausible ==
    ASSUME InOrder, PollTypes, PlausibleInv, NEW a \in AirTags, Publish(a)
    PROVE  PlausibleInv'
<1>1. PICK x \in AppleReports[a] \ apple[a] :
         /\ \A y \in apple[a] : y.t =< x.t
         /\ apple' = [apple EXCEPT ![a] = @ \cup {x}]
  BY DEF Publish, InOrder
<1>2. UNCHANGED <<pc, poll, stored, airtags, now>>
  BY DEF Publish, dbVars
<1>3. Sound(apple[a]) /\ apple[a] \subseteq AppleReports[a]
  BY AppleIsSound DEF PollTypes
<1>4. x.t \in Nat /\ \A y \in apple[a] : y.t < x.t
  <2>1. x.t \in Nat
    BY ReportsAssumption, TimesAssumption
  <2>2. ASSUME NEW y \in apple[a]
        PROVE  y.t < x.t
    <3>1. y.t # x.t
      BY <1>1, <1>3 DEF InOrder, OnePerTimestamp
    <3>2. y.t \in Nat
      BY <1>3 DEF Sound
    <3> QED BY <1>1, <2>1, <3>1, <3>2
  <2> QED BY <2>1, <2>2
<1>5. apple'[a] = apple[a] \cup {x} /\ \A b \in AirTags \ {a} : apple'[b] = apple[b]
  BY <1>1 DEF PollTypes
<1>6. /\ Window(apple'[a], now) \subseteq Window(apple[a], now) \cup {x}
  BY <1>5 DEF Window
<1>7. ASSUME NEW b \in AirTags, NEW R,
             FlaggedRows(R, apple[b]), Gapless(R, Window(apple[b], now))
      PROVE  FlaggedRows(R, apple'[b]) /\ Gapless(R, Window(apple'[b], now))
  <2>1. CASE b # a
    BY <1>5, <1>7, <2>1
  <2>2. CASE b = a
    <3>1. ASSUME NEW r \in R
          PROVE  ~(x.t =< r.t)
      <4>1. PICK y \in apple[a] : r.t = y.t
        BY <1>3, <1>7, <2>2, RowOf
      <4>2. y.t < x.t /\ y.t \in Nat
        BY <1>3, <1>4, <4>1 DEF Sound
      <4> QED BY <1>4, <4>1, <4>2
    <3>2. Gapless(R, Window(apple'[a], now))
      BY <1>6, <1>7, <2>2, <3>1 DEF Gapless
    <3>3. FlaggedRows(R, apple'[a])
      BY <1>5, <1>7, <2>2 DEF FlaggedRows
    <3> QED BY <2>2, <3>2, <3>3
  <2> QED BY <2>1, <2>2
<1>8. \A b \in AirTags :
        FlaggedRows(stored'[b], apple'[b]) /\ Gapless(stored'[b], Window(apple'[b], now'))
  BY <1>2, <1>7 DEF PlausibleInv
<1>9. ASSUME NEW p \in Pollers, pc'[p] = "insert", airtags'[Current(p)'] # "deleted"
      PROVE  Fits(stored'[Current(p)'], poll'[p].batch, apple'[Current(p)'], now')
  <2>1. Current(p)' = Current(p) /\ Current(p) \in AirTags
    BY <1>2, <1>9, CurrentTag DEF Current, Busy
  <2>2. Fits(stored[Current(p)], poll[p].batch, apple[Current(p)], now)
    BY <1>2, <1>9, <2>1 DEF PlausibleInv
  <2>3. Fits(stored[Current(p)], poll[p].batch, apple'[Current(p)], now)
    BY <1>7, <2>1, <2>2 DEF Fits
  <2> QED BY <1>2, <2>1, <2>3
<1> QED BY <1>8, <1>9 DEF PlausibleInv

(* A deletion takes all rows, so a batch that was to join them will not.   *)
LEMMA DeletePlausible ==
    ASSUME RowInv, PollTypes, PlausibleInv, NEW a \in AirTags, DeleteAirtag(a)
    PROVE  PlausibleInv'
<1>1. /\ UNCHANGED <<pc, poll, apple, now>> /\ stored' = [stored EXCEPT ![a] = {}]
      /\ airtags' = [airtags EXCEPT ![a] = "deleted"]
  BY DEF DeleteAirtag, worldVars
<1>2. /\ stored'[a] = {} /\ airtags'[a] = "deleted"
      /\ \A b \in AirTags \ {a} : stored'[b] = stored[b] /\ airtags'[b] = airtags[b]
  BY <1>1 DEF RowInv, RowTypes
<1>3. \A P, A : FlaggedRows({}, P) /\ Gapless({}, A)
  BY DEF FlaggedRows, Gapless, OnePerTimestamp
<1>4. \A b \in AirTags :
        FlaggedRows(stored'[b], apple'[b]) /\ Gapless(stored'[b], Window(apple'[b], now'))
  BY <1>1, <1>2, <1>3 DEF PlausibleInv
<1>5. ASSUME NEW p \in Pollers, pc'[p] = "insert", airtags'[Current(p)'] # "deleted"
      PROVE  Fits(stored'[Current(p)'], poll'[p].batch, apple'[Current(p)'], now')
  <2>1. Current(p)' = Current(p) /\ Current(p) \in AirTags
    BY <1>1, <1>5, CurrentTag DEF Current, Busy
  <2>2. Current(p) \in AirTags \ {a}
    BY <1>2, <1>5, <2>1
  <2>3. Fits(stored[Current(p)], poll[p].batch, apple[Current(p)], now)
    BY <1>1, <1>2, <1>5, <2>1, <2>2 DEF PlausibleInv
  <2> QED BY <1>1, <1>2, <2>1, <2>2, <2>3
<1> QED BY <1>4, <1>5 DEF PlausibleInv

(* Other steps leave the rows and what Apple has held; the clock takes     *)
(* reports out of its answer.                                              *)
LEMMA BystanderPlausible ==
    ASSUME PollTypes, PlausibleInv, UNCHANGED <<stored, apple>>, now' \in Nat, now =< now',
           \A p \in Pollers : pc'[p] = "idle" \/ (pc'[p] = pc[p] /\ poll'[p] = poll[p]),
           \A a \in AirTags : airtags'[a] # "deleted" => airtags[a] # "deleted"
    PROVE  PlausibleInv'
<1>1. ASSUME NEW a \in AirTags
      PROVE  Window(apple[a], now') \subseteq Window(apple[a], now)
  <2>1. \A x \in apple[a] : x.t \in Nat
    BY ReportsAssumption, TimesAssumption DEF PollTypes
  <2>2. now \in Nat /\ HistoryWindow \in Nat
    BY WindowAssumption DEF PollTypes
  <2> QED BY <2>1, <2>2 DEF Window
<1>2. \A R, A, B : Gapless(R, A) /\ B \subseteq A => Gapless(R, B)
  BY DEF Gapless
<1>3. \A R : \A a \in AirTags :
         Gapless(R, Window(apple[a], now)) => Gapless(R, Window(apple[a], now'))
  BY <1>1, <1>2
<1>4. \A a \in AirTags :
        FlaggedRows(stored'[a], apple'[a]) /\ Gapless(stored'[a], Window(apple'[a], now'))
  BY <1>3 DEF PlausibleInv
<1>5. ASSUME NEW p \in Pollers, pc'[p] = "insert", airtags'[Current(p)'] # "deleted"
      PROVE  Fits(stored'[Current(p)'], poll'[p].batch, apple'[Current(p)'], now')
  <2>1. pc[p] = "insert" /\ poll'[p] = poll[p]
    BY <1>5
  <2>2. Current(p)' = Current(p) /\ Current(p) \in AirTags
    BY <2>1, CurrentTag DEF Current, Busy
  <2>3. Fits(stored[Current(p)], poll[p].batch, apple[Current(p)], now)
    BY <1>5, <2>1, <2>2 DEF PlausibleInv
  <2>4. Fits(stored[Current(p)], poll[p].batch, apple[Current(p)], now')
    BY <1>3, <2>2, <2>3 DEF Fits
  <2> QED BY <2>1, <2>2, <2>4
<1> QED BY <1>4, <1>5 DEF PlausibleInv


LEMMA PlausibleStep ==
    ASSUME InOrder, LockInv, RowInv, PollTypes, PlausibleInv, [Next]_vars
    PROVE  PlausibleInv'
<1>1. CASE \E p \in Pollers : PollStep(p)
  BY <1>1, PollStepPlausible
<1>2. CASE \E a \in AirTags : Publish(a)
  BY <1>2, PublishPlausible
<1>3. CASE \E a \in AirTags : DeleteAirtag(a)
  BY <1>3, DeletePlausible
<1>4. CASE \E x \in Processes : Crash(x)
  <2>1. UNCHANGED <<stored, apple, airtags, now>>
    BY <1>4 DEF Crash, dbVars, worldVars
  <2>2. \A p \in Pollers : pc'[p] = "idle" \/ (pc'[p] = pc[p] /\ poll'[p] = poll[p])
    BY <1>4 DEF Crash
  <2> QED BY <2>1, <2>2, BystanderPlausible DEF PollTypes
<1>5. CASE \E a \in AirTags : SetAirtagEnabled(a)
  <2>1. PICK a \in AirTags : SetAirtagEnabled(a)
    BY <1>5
  <2>2. UNCHANGED <<stored, apple, now, pc, poll>> /\ airtags[a] # "deleted"
    BY <2>1 DEF SetAirtagEnabled, worldVars
  <2>3. \A b \in AirTags : airtags'[b] # "deleted" => airtags[b] # "deleted"
    BY <2>1 DEF SetAirtagEnabled, RowInv, RowTypes
  <2> QED BY <2>2, <2>3, BystanderPlausible DEF PollTypes
<1>6. CASE Tick
  <2>1. now' = now + 1 /\ UNCHANGED <<stored, apple, airtags, pc, poll>>
    BY <1>6 DEF Tick, dbVars
  <2> QED BY <2>1, BystanderPlausible DEF PollTypes
<1>7. CASE UNCHANGED vars
  BY <1>7, BystanderPlausible DEF vars, PollTypes
<1> QED BY <1>1, <1>2, <1>3, <1>4, <1>5, <1>6, <1>7 DEF Next, Environment

(* As long as Apple publishes in order and the polls are those of one      *)
(* process: a stored report is flagged if and only if it is a speed        *)
(* outlier after the kept report before it, although every poll flags the  *)
(* window of Apple's answer anew, from a baseline that is stored, and      *)
(* polls crash, fail or come too late for a report (tracker.py:466-480).   *)
THEOREM TheTrailIsPlausible ==
    ASSUME InOrder
    PROVE  Spec => []KeptTrailIsPlausible
<1>1. Init => PlausibleInv
  BY DEF Init, PlausibleInv, FlaggedRows, Gapless, OnePerTimestamp, Steps
<1>2. LockInv /\ LogInv /\ PlausibleInv /\ [Next]_vars => PlausibleInv'
  BY PlausibleStep DEF LogInv
<1>3. LogInv /\ PlausibleInv => KeptTrailIsPlausible
  <2> SUFFICES ASSUME LogInv, PlausibleInv, NEW a \in AirTags, NEW r \in stored[a]
               PROVE  r.isOutlier <=> IsSpeedOutlier(r, LastOf(ReportsBefore(a, r.t)), Cfg)
    BY DEF KeptTrailIsPlausible
  <2>1. FlaggedRows(stored[a], apple[a]) /\ IsFiniteSet(apple[a]) /\ Sound(apple[a])
    BY AppleIsSound DEF PlausibleInv, LogInv
  <2>2. LastOf(ReportsBefore(a, r.t)) = LatestReading(KeptBefore(stored[a], r.t))
    BY <2>1, LastReportBefore
  <2> QED BY <2>1, <2>2 DEF FlaggedRows
<1>4. Spec => []LogInv
  BY LogInvInit, LogInvStep, PTL DEF Spec
<1>5. Spec => []LockInv
  BY LockInvariant
<1> QED BY <1>1, <1>2, <1>3, <1>4, <1>5, PTL DEF Spec

-----------------------------------------------------------------------------
(* Rows that are added are later than those that are there.                *)
LEMMA SameBefore ==
    ASSUME InOrder, RowInv, PollTypes, PlausibleInv, PlausibleInv', apple' = apple,
           NEW p \in Pollers, Insertion(p) \/ stored' = stored,
           NEW a \in AirTags, NEW r \in stored[a]
    PROVE  ReportsBefore(a, r.t)' = ReportsBefore(a, r.t)
<1>1. \A R : KeptBefore(R, r.t) = {q \in R : q.t < r.t /\ ~q.isOutlier}
  BY DEF KeptBefore
<1>2. ReportsBefore(a, r.t) = CHOOSE s \in InTimeOrder(KeptBefore(stored[a], r.t)) : TRUE
  BY DEF ReportsBefore, KeptBefore
<1>3. ReportsBefore(a, r.t)' = CHOOSE s \in InTimeOrder(KeptBefore(stored'[a], r.t)) : TRUE
  BY DEF ReportsBefore, KeptBefore
<1>4. KeptBefore(stored'[a], r.t) = KeptBefore(stored[a], r.t)
  <2>1. CASE stored'[a] = stored[a]
    BY <2>1
  <2>2. CASE Insertion(p) /\ Current(p) = a
    <3>1. pc[p] = "insert" /\ airtags[a] # "deleted"
      BY <2>2 DEF Insertion
    <3>2. stored'[a] = Joined(stored[a], poll[p].batch)
      BY <2>2 DEF Insertion, Joined, New, NewlyInserted, RowInv, RowTypes
    <3>3. Extends(stored'[a], stored[a])
      BY <2>2, <3>1, <3>2 DEF PlausibleInv, Fits
    <3>4. FlaggedRows(stored'[a], apple[a]) /\ Sound(apple[a])
      <4>1. FlaggedRows(stored'[a], apple'[a])
        BY DEF PlausibleInv
      <4> QED BY <4>1, AppleIsSound
    <3>5. \A q \in stored'[a] : q.t \in Nat
      BY <3>4, RowOf
    <3> QED BY <3>3, <3>5, SameKept
  <2>3. stored'[a] = stored[a] \/ (Insertion(p) /\ Current(p) = a)
    <3>1. Insertion(p) => Current(p) \in AirTags
      BY CurrentTag DEF Insertion, Busy
    <3> QED BY <3>1 DEF Insertion, RowInv, RowTypes
  <2> QED BY <2>1, <2>2, <2>3
<1> QED BY <1>2, <1>3, <1>4

(* Nothing a poll has passed by is left to be alerted.                     *)
Settled(a, r) ==
    LET reason == EvaluateMovement(r, ReportsBefore(a, r.t), Cfg)
    IN  Untrusted(r) \/ reason = None \/ alerts[a][<<r.t, reason>>] > 0

Owed(a, r) ==
    \E p \in Pollers :
       /\ pc[p] \in Evaluating /\ Current(p) = a
       /\ \E i \in DOMAIN Todo(p) : Todo(p)[i] = r /\ (i > 1 \/ pc[p] = "evaluate")

(* What is stored is settled, or a poll is still to come to it.            *)
SettledInv ==
    /\ \A a \in AirTags : airtags[a] = "deleted" => stored[a] = {}
    /\ \A a \in AirTags : \A r \in stored[a] : Settled(a, r) \/ Owed(a, r)

LEMMA MovementReasonOrNone ==
    ASSUME NEW r, NEW prior
    PROVE  EvaluateMovement(r, prior, Cfg) \in MovementReasons \cup {None}
BY DEF EvaluateMovement, MovementReasons

(* What is settled stays so while its alerts are kept.                     *)
LEMMA SettledStays ==
    ASSUME AlertTypes, NEW a \in AirTags, NEW r \in stored[a], Settled(a, r),
           ReportsBefore(a, r.t)' = ReportsBefore(a, r.t),
           \A t \in Times, x \in Reasons :
              alerts[a][<<t, x>>] > 0 => alerts'[a][<<t, x>>] > 0
    PROVE  Settled(a, r)'
<1> DEFINE reason == EvaluateMovement(r, ReportsBefore(a, r.t), Cfg)
<1>1. r.t \in Times
  BY DEF AlertTypes
<1>2. reason = None \/ reason \in Reasons
  BY MovementReasonOrNone DEF Reasons
<1>3. reason' = reason
  OBVIOUS
<1>4. Untrusted(r) \/ reason = None \/ alerts[a][<<r.t, reason>>] > 0
  BY DEF Settled
<1>5. Settled(a, r)' = (Untrusted(r) \/ reason' = None \/ alerts'[a][<<r.t, reason'>>] > 0)
  BY DEF Settled, Untrusted
<1> HIDE DEF reason
<1> QED BY <1>1, <1>2, <1>3, <1>4, <1>5

(* No step of a poll takes an alert back.                                  *)
LEMMA AlertsStay ==
    ASSUME LogInv, NEW p \in Pollers, PollStep(p), NEW a \in AirTags, NEW t \in Times,
           NEW x \in Reasons, alerts[a][<<t, x>>] > 0
    PROVE  alerts'[a][<<t, x>>] > 0
<1>1. Effect(p)
  BY EffectOfStep DEF LogInv
<1>2. CASE alerts' = alerts
  BY <1>2
<1>3. ASSUME NEW reason \in Reasons, Record(p, reason)
      PROVE  alerts'[a][<<t, x>>] > 0
  <2>1. alerts[a][<<t, x>>] \in Nat
    BY DEF LogInv, AlertInv, AlertTypes
  <2>2. \/ alerts'[a][<<t, x>>] = alerts[a][<<t, x>>] + 1
        \/ alerts'[a][<<t, x>>] = alerts[a][<<t, x>>]
    BY <1>3, RecordedAlert DEF LogInv, AlertInv
  <2> QED BY <2>1, <2>2
<1> QED BY <1>1, <1>2, <1>3 DEF Effect, Aside, Insertion, Advance, Proceed

(* The steps of an evaluation: the report that is left behind has been     *)
(* found untrusted or at rest, or its alert is recorded.                   *)
LEMMA EvaluationStep ==
    ASSUME NEW p \in Pollers, PollTypes, PollStep(p), pc[p] \in Evaluating,
           "database" \notin Faults
    PROVE  LET reason == EvaluateMovement(Report(p), ReportsBefore(Current(p), Report(p).t), Cfg)
           IN  /\ pc'[p] \notin Evaluating => Todo(p) = <<>> \/ airtags[Current(p)] = "deleted"
               /\ (pc[p] = "evaluate" /\ pc'[p] \in Evaluating) =>
                     \/ Untrusted(Report(p)) \/ reason = None
                     \/ /\ reason \in Reasons /\ airtags[Current(p)] # "deleted"
                        /\ \E previous : RecordAlert(p, reason, previous, "push")
<1> DEFINE reason == EvaluateMovement(Report(p), ReportsBefore(Current(p), Report(p).t), Cfg)
<1>1. ASSUME NEW step \in Steps, Goto(p, step)
      PROVE  pc'[p] = step
  BY <1>1 DEF Goto, PollTypes
<1>2. NextReport(p) => pc'[p] \in Evaluating
  BY <1>1 DEF NextReport, Steps, Evaluating
<1>3. ASSUME NEW x, NEW y, NEW step \in {"push", "pushAway"}, RecordAlert(p, x, y, step)
      PROVE  pc'[p] \in Evaluating \/ airtags[Current(p)] = "deleted"
  BY <1>1, <1>3 DEF RecordAlert, Steps, Evaluating
<1>4. CASE NoMoreReports(p)
  <2>1. Todo(p) = <<>> /\ pc'[p] = "save"
    BY <1>1, <1>4 DEF NoMoreReports, Todo, Steps
  <2> QED BY <2>1 DEF Evaluating
<1>5. CASE SkipReport(p)
  BY <1>2, <1>5 DEF SkipReport
<1>6. CASE EvaluateReport(p)
  <2>1. CASE reason = None
    <3>1. pc'[p] = "away"
      BY <1>1, <1>6, <2>1 DEF EvaluateReport, Steps
    <3> QED BY <2>1, <3>1 DEF Evaluating
  <2>2. CASE reason # None
    <3>1. PICK previous : RecordAlert(p, reason, previous, "push")
      BY <1>6, <2>2 DEF EvaluateReport
    <3>2. reason \in Reasons
      BY <2>2, MovementReasonOrNone DEF Reasons
    <3>3. airtags[Current(p)] = "deleted" => pc'[p] = "save"
      BY <1>1, <3>1 DEF RecordAlert, Abandon, Steps
    <3> HIDE DEF reason
    <3>4. pc'[p] \notin Evaluating => airtags[Current(p)] = "deleted"
      BY <1>3, <3>1
    <3>5. pc'[p] \in Evaluating => airtags[Current(p)] # "deleted"
      BY <3>3 DEF Evaluating
    <3> QED BY <3>1, <3>2, <3>4, <3>5 DEF reason
  <2> QED BY <2>1, <2>2
<1>7. CASE PushMovement(p)
  <2>1. pc'[p] = "away" /\ pc[p] = "push"
    BY <1>1, <1>7 DEF PushMovement, Steps, At
  <2> QED BY <2>1 DEF Evaluating
<1>8. CASE LocateOwner(p)
  <2>1. NextReport(p) \/ Goto(p, "judge")
    BY <1>8 DEF LocateOwner
  <2>2. pc'[p] \in Evaluating /\ pc[p] = "away"
    BY <1>1, <1>2, <1>8, <2>1 DEF LocateOwner, Steps, At, Evaluating
  <2> QED BY <2>2
<1>9. CASE JudgeAway(p)
  <2>1. pc[p] = "judge"
    BY <1>9 DEF JudgeAway, At
  <2>2. NextReport(p) \/ \E x, y : RecordAlert(p, x, y, "pushAway")
    BY Zenon, <1>9 DEF JudgeAway
  <2> QED BY <1>2, <1>3, <2>1, <2>2
<1>10. CASE PushAway(p)
  <2>1. pc[p] = "pushAway" /\ NextReport(p)
    BY <1>10 DEF PushAway, At
  <2> QED BY <1>2, <2>1
<1>11. ~Acquire(p) /\ ~OwnerPhase(p) /\ ~ListAirtags(p) /\ ~FetchHistory(p) /\ ~FetchFails(p)
  BY DEF Acquire, OwnerPhase, ListAirtags, FetchHistory, FetchFails, At, Evaluating
<1>12. ~InsertReports(p) /\ ~SaveSession(p) /\ ~NoMoreAirtags(p) /\ ~Release(p)
  BY DEF InsertReports, SaveSession, NoMoreAirtags, Release, At, Evaluating
<1>13. ~DatabaseError(p)
  BY DEF DatabaseError
<1> QED BY <1>4, <1>5, <1>6, <1>7, <1>8, <1>9, <1>10, <1>11, <1>12, <1>13 DEF PollStep

(* With alerts on a backfill, every row that is inserted is to be          *)
(* evaluated.                                                              *)
LEMMA InsertedAreTodo ==
    ASSUME NEW p \in Pollers, PollTypes, RowInv, Cfg.alertOnBackfill, InsertReports(p),
           Insertion(p)
    PROVE  \A r \in stored'[Current(p)] \ stored[Current(p)] :
              \E i \in DOMAIN Todo(p)' : Todo(p)'[i] = r
<1> DEFINE a == Current(p)
           rows == {poll[p].batch[i] : i \in NewlyInserted(a, poll[p].batch)}
<1>1. airtags[a] # "deleted" /\ stored' = [stored EXCEPT ![a] = @ \cup rows] /\ pc[p] \in Busy
  BY DEF Insertion, Busy
<1>2. PICK s \in InTimeOrder(rows) :
        poll' = [poll EXCEPT ![p].batch = <<>>, ![p].wasEmpty = FALSE,
                             ![p].todo = ToEvaluate(s, poll[p].wasEmpty)]
  BY <1>1 DEF InsertReports
<1>3. ToEvaluate(s, poll[p].wasEmpty) = s
  BY DEF ToEvaluate
<1>4. Todo(p)' = s
  <2>1. DOMAIN poll = Pollers /\ DOMAIN poll[p] = Fields
    BY DEF PollTypes, Shape
  <2> QED BY <1>2, <1>3, <2>1 DEF Fields, Todo
<1>5. \A r \in rows : \E i \in DOMAIN s : s[i] = r
  BY DEF InTimeOrder
<1>6. a \in AirTags
  BY <1>1, CurrentTag
<1> HIDE DEF rows, a
<1>7. stored'[a] = stored[a] \cup rows
  BY <1>1, <1>6 DEF RowInv, RowTypes
<1> QED BY <1>4, <1>5, <1>7 DEF a

(* Nothing stops a poll within the evaluation of an AirTag that exists,    *)
(* and everything that is inserted is evaluated.                           *)
Unbroken == InOrder /\ Faults \cap {"crash", "database"} = {} /\ Cfg.alertOnBackfill

(* What p leaves behind of its evaluation is settled, the rest still owed. *)
LEMMA OwedByPoll ==
    ASSUME Unbroken, LogInv, SettledInv, NEW p \in Pollers, PollStep(p),
           pc[p] \in Evaluating, NEW a \in AirTags, Current(p) = a, NEW r \in stored[a],
           NEW i \in DOMAIN Todo(p), Todo(p)[i] = r, i > 1 \/ pc[p] = "evaluate"
    PROVE  (Settled(a, r) \/ Owed(a, r))'
<1> DEFINE reason == EvaluateMovement(Report(p), ReportsBefore(a, Report(p).t), Cfg)
<1>1. Effect(p) /\ PollTypes /\ AlertTypes /\ TodoInv
  BY EffectOfStep DEF LogInv, AlertInv
<1>2. "database" \notin Faults
  BY DEF Unbroken
<1>3. /\ pc'[p] \notin Evaluating => Todo(p) = <<>> \/ airtags[a] = "deleted"
      /\ (pc[p] = "evaluate" /\ pc'[p] \in Evaluating) =>
            \/ Untrusted(Report(p)) \/ reason = None
            \/ /\ reason \in Reasons /\ airtags[a] # "deleted"
               /\ \E previous : RecordAlert(p, reason, previous, "push")
  BY <1>1, <1>2, EvaluationStep
<1>4. airtags[a] # "deleted"
  BY <1>1 DEF SettledInv
<1>5. OwnTodo(p)
  BY <1>4 DEF LogInv, TodoInv, Live
<1>6. Todo(p) \in Seq(stored[a]) /\ Todo(p) # <<>>
  BY <1>5 DEF OwnTodo, TodoIsStored
<1>7. pc'[p] \in Evaluating
  BY <1>3, <1>4, <1>6
<1>8. stored' = stored /\ Current(p)' = a
  <2>1. pc[p] # "insert" /\ ~Aside(p)
    BY <1>7 DEF Evaluating, Aside
  <2> QED BY <1>1, <2>1 DEF Effect, Aside, Insertion, Advance, Proceed, Record, Current
<1>9. CASE i > 1
  <2>1. /\ \/ Todo(p)' = Todo(p)
           \/ Todo(p)' = Tail(Todo(p)) /\ pc'[p] = "evaluate"
    <3>1. pc[p] # "insert" /\ ~Aside(p)
      BY <1>7 DEF Evaluating, Aside
    <3> QED BY <1>1, <3>1 DEF Effect, Aside, Insertion, Advance, Proceed, Record, Todo
  <2>2. CASE Todo(p)' = Todo(p)
    BY <1>7, <1>8, <1>9, <2>2 DEF Owed
  <2>3. CASE Todo(p)' = Tail(Todo(p)) /\ pc'[p] = "evaluate"
    <3> DEFINE todo == Todo(p)
    <3>1. todo \in Seq(stored[a]) /\ todo # <<>> /\ i \in DOMAIN todo /\ i > 1 /\ todo[i] = r
      BY <1>6, <1>9
    <3> HIDE DEF todo
    <3>2. i - 1 \in DOMAIN Tail(todo) /\ Tail(todo)[i - 1] = r
      BY <3>1
    <3>3. i - 1 \in DOMAIN Todo(p)' /\ Todo(p)'[i - 1] = r
      BY <2>3, <3>2 DEF todo
    <3> QED BY <1>7, <1>8, <2>3, <3>3 DEF Owed
  <2> QED BY <2>1, <2>2, <2>3
<1>10. CASE i = 1 /\ pc[p] = "evaluate"
  <2>1. r = Report(p)
    BY <1>6, <1>10 DEF Report, Todo
  <2>2. ReportsBefore(a, r.t)' = ReportsBefore(a, r.t)
    BY <1>8 DEF ReportsBefore
  <2>3. CASE Untrusted(r)
    BY <2>3 DEF Settled, Untrusted
  <2>4. CASE reason = None
    <3>1. EvaluateMovement(r, ReportsBefore(a, r.t)', Cfg) = None
      BY <2>1, <2>2, <2>4
    <3> QED BY <1>8, <3>1 DEF Settled
  <2>5. CASE reason \in Reasons /\ \E previous : RecordAlert(p, reason, previous, "push")
    <3>1. alerts' = [alerts EXCEPT ![a][<<Report(p).t, reason>>] = @ + 1]
      BY <1>4, <2>5 DEF RecordAlert
    <3>2. r.t \in Times /\ <<r.t, reason>> \in Times \X Reasons
      BY <1>1, <2>5 DEF AlertTypes
    <3> HIDE DEF reason
    <3> DEFINE k == <<r.t, reason>>
    <3>3. alerts[a] \in [Times \X Reasons -> Nat]
      BY <1>1 DEF AlertTypes
    <3>4. k \in Times \X Reasons /\ alerts' = [alerts EXCEPT ![a][k] = @ + 1] /\ a \in DOMAIN alerts
      BY <1>1, <2>1, <3>1, <3>2 DEF AlertTypes
    <3> HIDE DEF k
    <3>5. alerts[a][k] \in Nat /\ DOMAIN alerts[a] = Times \X Reasons
      BY <3>3, <3>4
    <3>6. alerts'[a][k] = alerts[a][k] + 1
      BY <3>4, <3>5
    <3>7. alerts'[a][<<r.t, reason>>] > 0
      BY <3>5, <3>6 DEF k
    <3>8. reason = EvaluateMovement(r, ReportsBefore(a, r.t)', Cfg)
      BY <2>1, <2>2 DEF reason
    <3> QED BY <1>8, <3>7, <3>8 DEF Settled
  <2> QED BY <1>3, <1>7, <1>10, <2>1, <2>3, <2>4, <2>5
<1>11. DOMAIN Todo(p) \subseteq Nat \ {0}
  <2> DEFINE todo == Todo(p)
  <2>1. todo \in Seq(stored[a])
    BY <1>6
  <2> HIDE DEF todo
  <2>2. DOMAIN todo \subseteq Nat \ {0}
    BY <2>1
  <2> QED BY <2>2 DEF todo
<1> QED BY <1>9, <1>10, <1>11

LEMMA PollStepSettled ==
    ASSUME Unbroken, LogInv, PlausibleInv, PlausibleInv', SettledInv,
           NEW p \in Pollers, PollStep(p)
    PROVE  SettledInv'
<1>1. Effect(p) /\ Others(p) /\ PollTypes /\ AlertTypes
  BY EffectOfStep DEF Effect, LogInv, AlertInv
<1>2. airtags' = airtags /\ apple' = apple
  BY <1>1 DEF Others
<1>3. stored' = stored \/ Insertion(p)
  BY <1>1 DEF Effect, Aside, Advance, Proceed, Record
<1>4. Insertion(p) => Current(p) \in AirTags
  BY <1>1, CurrentTag DEF Insertion, Busy
<1>5. ASSUME NEW a \in AirTags
      PROVE  /\ stored[a] \subseteq stored'[a]
             /\ stored'[a] # stored[a] => Insertion(p) /\ Current(p) = a
  BY <1>3, <1>4 DEF Insertion, LogInv, RowInv, RowTypes
<1>6. ASSUME NEW a \in AirTags, airtags'[a] = "deleted"
      PROVE  stored'[a] = {}
  <2>1. airtags[a] = "deleted" /\ stored[a] = {}
    BY <1>2, <1>6 DEF SettledInv
  <2> QED BY <1>5, <2>1 DEF Insertion
<1>7. ASSUME NEW a \in AirTags, NEW r \in stored'[a]
      PROVE  (Settled(a, r) \/ Owed(a, r))'
  <2>1. CASE r \in stored[a]
    <3>1. CASE Settled(a, r)
      <4>1. ReportsBefore(a, r.t)' = ReportsBefore(a, r.t)
        BY <1>1, <1>2, <1>3, <2>1, SameBefore DEF LogInv, Unbroken
      <4>2. \A t \in Times, x \in Reasons :
              alerts[a][<<t, x>>] > 0 => alerts'[a][<<t, x>>] > 0
        BY AlertsStay
      <4>3. Settled(a, r)'
        BY <1>1, <2>1, <3>1, <4>1, <4>2, SettledStays
      <4> QED BY <4>3
    <3>2. ASSUME NEW q \in Pollers, pc[q] \in Evaluating, Current(q) = a,
                 NEW i \in DOMAIN Todo(q), Todo(q)[i] = r, i > 1 \/ pc[q] = "evaluate"
          PROVE  (Settled(a, r) \/ Owed(a, r))'
      <4>1. CASE q = p
        BY <2>1, <3>2, <4>1, OwedByPoll
      <4>2. CASE q # p
        <5>1. Todo(q)' = Todo(q) /\ Current(q)' = Current(q) /\ pc'[q] = pc[q]
          BY <1>1, <4>2, OtherPolls
        <5> QED BY <3>2, <5>1 DEF Owed
      <4> QED BY <4>1, <4>2
    <3> QED BY <2>1, <3>1, <3>2 DEF SettledInv, Owed
  <2>2. CASE r \notin stored[a]
    <3>1. Insertion(p) /\ Current(p) = a
      BY <1>5, <1>7, <2>2
    <3>2. pc[p] = "insert" /\ pc'[p] = "evaluate" /\ Current(p)' = a
      BY <3>1 DEF Insertion, Current
    <3>3. InsertReports(p)
      <4>1. pc[p] = "insert" /\ pc'[p] = "evaluate"
        BY <3>2
      <4>2. ~DatabaseError(p)
        BY DEF Unbroken, DatabaseError
      <4>3. \A step \in Steps : At(p, step) => step = "insert"
        BY <4>1 DEF At
      <4> QED BY <4>2, <4>3
              DEF PollStep, Steps, Acquire, OwnerPhase, ListAirtags, FetchHistory, FetchFails,
                  NoMoreReports, SkipReport, EvaluateReport, PushMovement, LocateOwner,
                  JudgeAway, PushAway, SaveSession, NoMoreAirtags, Release
    <3>4. PICK i \in DOMAIN Todo(p)' : Todo(p)'[i] = r
      BY <1>1, <1>7, <2>2, <3>1, <3>3, InsertedAreTodo DEF LogInv, Unbroken
    <3>5. Owed(a, r)'
      BY <3>2, <3>4 DEF Owed, Evaluating
    <3> QED BY <3>5
  <2> QED BY <2>1, <2>2
<1> QED BY <1>6, <1>7 DEF SettledInv

(* What is not a step of a poll takes back no alert of a row that stays.   *)
LEMMA BystanderSettled ==
    ASSUME AlertTypes, SettledInv,
           UNCHANGED <<pc, poll>>,
           \A a \in AirTags :
              \/ stored'[a] = {}
              \/ /\ stored'[a] = stored[a] /\ alerts'[a] = alerts[a]
                 /\ airtags'[a] = "deleted" => airtags[a] = "deleted"
    PROVE  SettledInv'
<1>1. ASSUME NEW a \in AirTags, NEW r \in stored'[a]
      PROVE  (Settled(a, r) \/ Owed(a, r))'
  <2>1. CASE Settled(a, r)
    <3>1. ReportsBefore(a, r.t)' = ReportsBefore(a, r.t)
      BY DEF ReportsBefore
    <3>2. Settled(a, r)'
      BY <2>1, <3>1, SettledStays
    <3> QED BY <3>2
  <2>2. CASE Owed(a, r)
    <3>1. \A p \in Pollers : Todo(p)' = Todo(p) /\ Current(p)' = Current(p)
      BY DEF Todo, Current
    <3>2. Owed(a, r)'
      BY <2>2, <3>1 DEF Owed
    <3> QED BY <3>2
  <2> QED BY <1>1, <2>1, <2>2 DEF SettledInv
<1>2. \A a \in AirTags : airtags'[a] = "deleted" => stored'[a] = {}
  BY DEF SettledInv
<1>3. \A a \in AirTags : \A r \in stored'[a] : (Settled(a, r) \/ Owed(a, r))'
  BY <1>1
<1> QED BY <1>2, <1>3 DEF SettledInv

LEMMA SettledStep ==
    ASSUME Unbroken, LogInv, PlausibleInv, PlausibleInv', SettledInv, [Next]_vars
    PROVE  SettledInv'
<1>1. AlertTypes
  BY DEF LogInv, AlertInv
<1>2. CASE \E p \in Pollers : PollStep(p)
  BY <1>2, PollStepSettled
<1>3. ASSUME NEW b \in AirTags, DeleteAirtag(b)
      PROVE  SettledInv'
  <2>1. /\ UNCHANGED <<pc, poll>> /\ stored'[b] = {}
        /\ \A a \in AirTags \ {b} : /\ stored'[a] = stored[a] /\ alerts'[a] = alerts[a]
                                    /\ airtags'[a] = airtags[a]
    BY <1>1, <1>3 DEF DeleteAirtag, LogInv, RowInv, RowTypes, AlertTypes
  <2> QED BY <1>1, <2>1, BystanderSettled
<1>4. ASSUME \/ \E b \in AirTags : SetAirtagEnabled(b)
             \/ UNCHANGED <<pc, poll, airtags, stored, alerts>>
      PROVE  SettledInv'
  <2>1. /\ UNCHANGED <<pc, poll, stored, alerts>>
        /\ \A a \in AirTags : airtags'[a] = "deleted" => airtags[a] = "deleted"
    BY <1>4 DEF SetAirtagEnabled, LogInv, RowInv, RowTypes
  <2> QED BY <1>1, <2>1, BystanderSettled
<1>5. \A x \in Processes : ~Crash(x)
  BY DEF Unbroken, Crash
<1>6. \/ \E p \in Pollers : PollStep(p)
      \/ \E b \in AirTags : DeleteAirtag(b)
      \/ \E b \in AirTags : SetAirtagEnabled(b)
      \/ UNCHANGED <<pc, poll, airtags, stored, alerts>>
  BY <1>5 DEF Next, Environment, Publish, Tick, dbVars, vars
<1> QED BY <1>2, <1>3, <1>4, <1>6

(* However many polls overlap and however often Apple does not answer:     *)
(* unless a crash or a failed statement cuts an evaluation short, every    *)
(* stored report that moved has its alert, or a poll is on its way to it   *)
(* (README.md:280; for reports published in order, with                    *)
(* movement_alert_on_backfill on).                                         *)
THEOREM NoMovementIsMissed ==
    ASSUME Unbroken
    PROVE  Spec => []MovementAlertsComplete
<1>1. Init => PlausibleInv /\ SettledInv
  BY DEF Init, PlausibleInv, FlaggedRows, Gapless, OnePerTimestamp, SettledInv
<1>2. LockInv /\ LogInv /\ PlausibleInv /\ [Next]_vars => PlausibleInv'
  BY PlausibleStep DEF LogInv, Unbroken
<1>3. LogInv /\ PlausibleInv /\ PlausibleInv' /\ SettledInv /\ [Next]_vars => SettledInv'
  BY SettledStep
<1>4. LogInv /\ SettledInv => MovementAlertsComplete
  <2> SUFFICES ASSUME LogInv, SettledInv, NEW a \in AirTags, NEW r \in stored[a], Owed(a, r)
               PROVE  Pending(a, r)
    BY DEF SettledInv, Settled, Untrusted, MovementAlertsComplete
  <2> QED BY DEF Owed, Pending, Todo, LogInv, PollTypes, Busy
<1>5. Spec => []LogInv
  BY LogInvInit, LogInvStep, PTL DEF Spec
<1>6. Spec => []LockInv
  BY LockInvariant
<1> QED BY <1>1, <1>2, <1>3, <1>4, <1>5, <1>6, PTL DEF Spec
=============================================================================

------------------------------- MODULE Scheduler -------------------------------
(***************************************************************************)
(* The polling loop (scheduler.py): one job of APScheduler that runs once  *)
(* and, when it has run, adds itself again.  When it is due is read from   *)
(* the database.                                                           *)
(***************************************************************************)

VARIABLES
    serving,    \* the process is up
    job,        \* "scheduled", "running", "rescheduling" or "none"
    reachable,  \* the database can be reached
    forgotten   \* the job has been lost by a read that failed, or as too late

schedulerVars == <<serving, job, reachable, forgotten>>
-----------------------------------------------------------------------------
SchedulerInit ==
    /\ serving = FALSE /\ job = "none"
    /\ reachable = TRUE /\ forgotten = FALSE

StartScheduler ==
    /\ ~serving
    /\ serving' = TRUE /\ job' = "scheduled" /\ forgotten' = FALSE
    /\ UNCHANGED reachable

(* A job with a date is taken from the list when its time has come.        *)
RunPoll ==
    /\ job = "scheduled"
    /\ job' = "running"
    /\ UNCHANGED <<serving, reachable, forgotten>>

PollReturns ==
    /\ job = "running"
    /\ job' = "rescheduling"
    /\ UNCHANGED <<serving, reachable, forgotten>>

(* A mutant: without the except and the finally.                           *)
PollRaisesThrough ==
    /\ job = "running"
    /\ job' = "none"
    /\ UNCHANGED <<serving, reachable, forgotten>>

(* Logged; the finally goes on.                                            *)
PollRaises ==
    /\ job = "running"
    /\ job' = "rescheduling"
    /\ UNCHANGED <<serving, reachable, forgotten>>

ScheduleNext ==
    /\ job = "rescheduling" /\ reachable
    /\ job' = "scheduled"
    /\ UNCHANGED <<serving, reachable, forgotten>>

(* get_conn or get_settings raises, in the finally.                        *)
ScheduleNextRaises ==
    /\ job = "rescheduling" /\ ~reachable
    /\ job' = "none" /\ forgotten' = TRUE
    /\ UNCHANGED <<serving, reachable>>

(* APScheduler drops a job that it comes to more than a second late.       *)
Misfire ==
    /\ job = "scheduled"
    /\ job' = "none" /\ forgotten' = TRUE
    /\ UNCHANGED <<serving, reachable>>

(* The process stops, at any time.                                         *)
Shutdown ==
    /\ serving
    /\ serving' = FALSE /\ job' = "none"
    /\ UNCHANGED <<reachable, forgotten>>

DatabaseChanges ==
    /\ reachable' = ~reachable
    /\ UNCHANGED <<serving, job, forgotten>>

SchedulerNext ==
    \/ StartScheduler \/ RunPoll \/ PollReturns \/ PollRaises
    \/ ScheduleNext \/ ScheduleNextRaises \/ Misfire \/ Shutdown \/ DatabaseChanges

(* The thread of the scheduler goes on; a poll ends (PollCycle!PollsEnd).  *)
SchedulerFairness ==
    /\ WF_schedulerVars(RunPoll)
    /\ WF_schedulerVars(PollReturns \/ PollRaises)
    /\ WF_schedulerVars(ScheduleNext \/ ScheduleNextRaises)

SchedulerSpec == SchedulerInit /\ [][SchedulerNext]_schedulerVars /\ SchedulerFairness
-----------------------------------------------------------------------------
Off == ~serving \/ forgotten

(* Polls that fail do not end the polling: as long as the process is up    *)
(* and no job has been forgotten, a poll follows, and after it another     *)
(* (scheduler.py:27-48).                                                   *)
PollingGoesOn == (serving /\ ~forgotten) ~> (job = "running" \/ Off)
=============================================================================

------------------------------- MODULE MCThreads -------------------------------
(***************************************************************************)
(* What has to happen in the end: the polls, the look-ups at a host that   *)
(* share its limiter, and the scheduler.  They share no state and are      *)
(* explored one at a time: subject says which, and only that one moves.    *)
(***************************************************************************)
EXTENDS MCPollCycle, RateLimiter, Scheduler

VARIABLE subject

threadVars == <<vars, limiterVars, schedulerVars, subject>>
-----------------------------------------------------------------------------
ThreadsInit ==
    /\ subject \in {"polls", "limiter", "scheduler"}
    /\ Init /\ LimiterInit /\ SchedulerInit
    /\ subject # "limiter" => host = "osrm"

ThreadsNext ==
    /\ \/ subject = "polls" /\ Next /\ UNCHANGED <<limiterVars, schedulerVars>>
       \/ subject = "limiter" /\ LimiterNext /\ UNCHANGED <<vars, schedulerVars>>
       \/ subject = "scheduler" /\ SchedulerNext /\ UNCHANGED <<vars, limiterVars>>
    /\ UNCHANGED subject

(* The fairness of PollCycle where polls are the subject.  What the other  *)
(* two ask for is not enabled in the first state of the limiter or the     *)
(* scheduler, so they say nothing where these are not the subject.         *)
PollFairness == \A p \in Pollers : WF_vars(subject = "polls" /\ PollStep(p))

ThreadsSpec ==
    /\ ThreadsInit /\ [][ThreadsNext]_threadVars
    /\ PollFairness /\ LimiterFairness /\ SchedulerFairness
=============================================================================

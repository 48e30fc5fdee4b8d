------------------------------ MODULE RateLimiter ------------------------------
(***************************************************************************)
(* Look-ups at a public host that wants at most one request a second:      *)
(* Nominatim (geocode.py) or OSRM (routing.py).  The poller and the        *)
(* requests of the dashboard look up from threads of their own; one lock   *)
(* and one time, _last_call, stand between them and the host, and what has *)
(* been answered is kept: by Nominatim in the table geocoded_points, by    *)
(* OSRM in an LRU cache.                                                   *)
(*                                                                         *)
(* A query stands for whatever is looked up: a rounded position, or the    *)
(* waypoints of a trail.  Time passes in ticks; only what is younger than  *)
(* the interval counts, so times are ages of at most Interval.             *)
(***************************************************************************)
EXTENDS Naturals

CONSTANTS
    Threads,    \* those that look up
    Queries,
    Interval,   \* _MIN_INTERVAL_SECONDS
    NoThread

ASSUME LimiterAssumption == Interval \in Nat \ {0} /\ NoThread \notin Threads

VARIABLES
    host,       \* "nominatim" or "osrm"
    stage,      \* where the look-up of each thread is
    about,      \* the point of each look-up
    direct,     \* the threads whose look-up has nothing to do with what is kept
    result,     \* what each look-up has got: "answer" or "failure"
    holder,     \* who holds _lock
    pause,      \* the age of _last_call
    quiet,      \* the age of the last request that was sent
    raised,     \* and whether it raised
    kept        \* geocoded_points, or the LRU cache: what it has of each point

lookup == <<stage, about, direct, result>>
limiterVars == <<host, lookup, holder, pause, quiet, raised, kept>>

Older(age) == IF age < Interval THEN age + 1 ELSE age
-----------------------------------------------------------------------------
LimiterInit ==
    /\ host \in {"nominatim", "osrm"}
    /\ stage = [t \in Threads |-> "idle"]
    /\ about = [t \in Threads |-> CHOOSE p \in Queries : TRUE] /\ direct = {}
    /\ result = [t \in Threads |-> "failure"]
    /\ holder = NoThread
    /\ pause = Interval /\ quiet = Interval /\ raised = FALSE
    /\ kept = [p \in Queries |-> "nothing"]

(* get_or_fetch_geocode, _geocode_new_points, _fetch_route_cached: a point *)
(* that is not kept.  One that is kept is answered at once.                *)
LookUp(t, p) ==
    /\ stage[t] = "idle" /\ kept[p] = "nothing"
    /\ stage' = [stage EXCEPT ![t] = "waiting"]
    /\ about' = [about EXCEPT ![t] = p]
    /\ direct' = direct \ {t}
    /\ UNCHANGED <<host, result, holder, pause, quiet, raised, kept>>

(* search_address, and the addresses in the text of an alert.              *)
LookUpDirectly(t) ==
    /\ host = "nominatim" /\ stage[t] = "idle"
    /\ stage' = [stage EXCEPT ![t] = "waiting"]
    /\ direct' = direct \cup {t}
    /\ UNCHANGED <<host, about, result, holder, pause, quiet, raised, kept>>

(* A mutant: the age of _last_call is looked at without the lock.          *)
TakeNothing(t) ==
    /\ stage[t] = "waiting"
    /\ holder' = t
    /\ stage' = [stage EXCEPT ![t] = "sleeping"]
    /\ UNCHANGED <<host, about, direct, result, pause, quiet, raised, kept>>

(* The lock, and the sleep if _last_call is too young.                     *)
TakeLock(t) ==
    /\ stage[t] = "waiting" /\ holder = NoThread
    /\ holder' = t
    /\ stage' = [stage EXCEPT ![t] = "sleeping"]
    /\ UNCHANGED <<host, about, direct, result, pause, quiet, raised, kept>>

Send(t) ==
    /\ stage[t] = "sleeping" /\ pause = Interval
    /\ stage' = [stage EXCEPT ![t] = "asking"]
    /\ quiet' = 0
    /\ UNCHANGED <<host, about, direct, result, holder, pause, raised, kept>>

(* The host answers; what it says may be an error.                         *)
Answers(t) ==
    /\ stage[t] = "asking"
    /\ pause' = 0 /\ raised' = FALSE
    /\ \E r \in {"answer", "failure"} : result' = [result EXCEPT ![t] = r]
    /\ stage' = [stage EXCEPT ![t] = "keeping"]
    /\ holder' = NoThread
    /\ UNCHANGED <<host, about, direct, quiet, kept>>

(* A mutant: a look-up that raises is tried again until it does not.       *)
RaisesRetrying(t) ==
    /\ stage[t] = "asking"
    /\ raised' = TRUE
    /\ result' = [result EXCEPT ![t] = "failure"]
    /\ stage' = [stage EXCEPT ![t] = "waiting"]
    /\ holder' = NoThread
    /\ UNCHANGED <<host, about, direct, pause, quiet, kept>>

(* requests.get raises: no connection, no answer in time.  _last_call      *)
(* stays as it was.                                                        *)
Raises(t) ==
    /\ stage[t] = "asking"
    /\ raised' = TRUE
    /\ result' = [result EXCEPT ![t] = "failure"]
    /\ stage' = [stage EXCEPT ![t] = "keeping"]
    /\ holder' = NoThread
    /\ UNCHANGED <<host, about, direct, pause, quiet, kept>>

(* The table keeps answers, the cache whatever the function returned.      *)
Keep(t) ==
    /\ stage[t] = "keeping"
    /\ stage' = [stage EXCEPT ![t] = "idle"]
    /\ kept' = IF t \notin direct /\ (host = "osrm" \/ result[t] = "answer")
               THEN [kept EXCEPT ![about[t]] = result[t]]
               ELSE kept
    /\ UNCHANGED <<host, about, direct, result, holder, pause, quiet, raised>>

(* The cache keeps 64 trails.                                              *)
Evict(p) ==
    /\ host = "osrm" /\ kept[p] # "nothing"
    /\ kept' = [kept EXCEPT ![p] = "nothing"]
    /\ UNCHANGED <<host, lookup, holder, pause, quiet, raised>>

TimePasses ==
    /\ pause < Interval \/ quiet < Interval
    /\ pause' = Older(pause) /\ quiet' = Older(quiet)
    /\ UNCHANGED <<host, lookup, holder, raised, kept>>

LimiterNext ==
    \/ \E t \in Threads :
        \/ \E p \in Queries : LookUp(t, p)
        \/ LookUpDirectly(t) \/ TakeLock(t) \/ Send(t) \/ Answers(t) \/ Raises(t) \/ Keep(t)
    \/ \E p \in Queries : Evict(p)
    \/ TimePasses

(* A thread that waits for the lock gets it in the end; a request is       *)
(* answered or gives up after its timeout; time passes.                    *)
LimiterFairness ==
    /\ WF_limiterVars(TimePasses)
    /\ \A t \in Threads :
        /\ SF_limiterVars(TakeLock(t))
        /\ WF_limiterVars(Send(t))
        /\ WF_limiterVars(Answers(t) \/ Raises(t))
        /\ WF_limiterVars(Keep(t))

LimiterSpec == LimiterInit /\ [][LimiterNext]_limiterVars /\ LimiterFairness
-----------------------------------------------------------------------------
Sends(t) == stage[t] # "asking" /\ stage'[t] = "asking"

(* After a request that was answered, however late and from whichever      *)
(* thread, the host is left alone for a second (geocode.py:56-68,          *)
(* routing.py:72-83).                                                      *)
AnswersAreFollowedByAPause ==
    [][\A t \in Threads : Sends(t) => quiet = Interval \/ raised]_limiterVars

(* A look-up ends, however many wait for the lock and however the requests *)
(* before it have failed: a dead host holds up neither the poller nor the  *)
(* dashboard for good.                                                     *)
LookUpsEnd == \A t \in Threads : (stage[t] # "idle") ~> (stage[t] = "idle")
=============================================================================

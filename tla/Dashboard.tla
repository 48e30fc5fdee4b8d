------------------------------ MODULE Dashboard ------------------------------
(***************************************************************************)
(* How App.tsx keeps what it shows in step with the server: a refresh of   *)
(* everything by a timer or by hand, a load by the effect of each change   *)
(* of the selection, and the loads that follow a change made here.         *)
(*                                                                         *)
(* A load that has been asked for is a record that holds the answer the    *)
(* server gave, or ok = FALSE if it gave none before the timeout; it is    *)
(* handled at any later time, in any order.  version counts the changes of *)
(* the positions the server has stored.  The loads that swallow their      *)
(* failures (the owner's devices, settings, places, the feed) are taken as *)
(* answered at once: nothing else here depends on when they are.           *)
(***************************************************************************)
EXTENDS Naturals, Sequences

CONSTANTS
    AirTags,
    Refreshes,      \* bound: how many refreshes may overlap
    MaxActs,        \* bound: changes at the server, of the network, by the user
    InitialList,    \* the AirTags the server has at first
    None

ASSUME DashboardAssumption ==
    /\ MaxActs \in Nat
    /\ None \notin AirTags
    /\ {"effect", "save"} \cap Refreshes = {}

VARIABLES
    list,               \* the server's enabled AirTags, in their order
    version,            \* the server's positions
    up,                 \* the server can be reached
    acts,               \* how many changes there have been
    airtags,            \* airtags
    currentId,          \* currentId
    currentIdRef,       \* currentIdRef.current
    trail,              \* reports: [of |-> AirTag, version |-> version]
    devices,            \* the owner's devices are loaded, not emptied by a failure
    offline,            \* offline
    manualRefreshing,   \* manualRefreshing
    lists,              \* answers to getAirtags to be handled
    reports,            \* answers to getReports to be handled
    phase,              \* per refresh: what it waits for
    reachable,          \* per refresh: no load of it has failed so far
    closure,            \* per refresh: the currentId of the render it belongs to
    save                \* the change being saved: [op, id, stage]

server == <<list, version, up, acts>>
shown == <<airtags, currentId, currentIdRef, trail, devices>>
flags == <<offline, manualRefreshing>>
loads == <<lists, reports>>
refresh == <<phase, reachable, closure>>
vars == <<server, shown, flags, loads, refresh, save>>
-----------------------------------------------------------------------------
Listed == {airtags[i] : i \in DOMAIN airtags}
In(id, seq) == \E i \in DOMAIN seq : seq[i] = id
Without(id, seq) == SelectSeq(seq, LAMBDA x : x # id)
Reversed(seq) == [i \in DOMAIN seq |-> seq[Len(seq) + 1 - i]]

NoTrail == [of |-> None, version |-> 0]
Idle == [op |-> "none", id |-> None, stage |-> "idle"]

(* The loads as they leave, already with the answer they will get.         *)
GetAirtags(by) == [by |-> by, ok |-> up, list |-> list]
GetReports(by, id) == [by |-> by, ok |-> up, of |-> id, version |-> version]

(* The effects of the first render ask for everything.                     *)
Init ==
    /\ list = InitialList
    /\ version = 1
    /\ up \in BOOLEAN
    /\ acts = 0
    /\ airtags = <<>> /\ currentId = None /\ currentIdRef = None
    /\ trail = NoTrail /\ devices = up
    /\ offline = FALSE /\ manualRefreshing = FALSE
    /\ lists = {GetAirtags("effect")}
    /\ reports = {}
    /\ phase = [r \in Refreshes |-> "idle"]
    /\ reachable = [r \in Refreshes |-> TRUE]
    /\ closure = [r \in Refreshes |-> None]
    /\ save = Idle
-----------------------------------------------------------------------------
(* The server: it stores a position, another client adds or removes an     *)
(* AirTag, and the network comes and goes.                                 *)
ServerChanges ==
    /\ acts < MaxActs
    /\ acts' = acts + 1
    /\ \/ version' = version + 1 /\ UNCHANGED list
       \/ \E a \in AirTags :
            /\ list' = IF In(a, list) THEN Without(a, list) ELSE Append(list, a)
            /\ UNCHANGED version
    /\ UNCHANGED <<up, shown, flags, loads, refresh, save>>

NetworkChanges ==
    /\ acts < MaxActs
    /\ acts' = acts + 1
    /\ up' = ~up
    /\ UNCHANGED <<list, version, shown, flags, loads, refresh, save>>

(* handleSelect: the effect of a change made by a tap runs with it.        *)
HandleSelect(id) ==
    /\ acts < MaxActs
    /\ acts' = acts + 1
    /\ id \in Listed \ {currentId}
    /\ currentId' = id /\ currentIdRef' = id
    /\ reports' = reports \cup {GetReports("effect", id)}
    /\ UNCHANGED <<list, version, up, airtags, trail, devices, flags, lists,
                   refresh, save>>

(* The effects of a change made by an answer run a little later.           *)
EffectsRun ==
    /\ currentIdRef # currentId
    /\ currentIdRef' = currentId
    /\ IF currentId = None
       THEN trail' = NoTrail /\ UNCHANGED reports
       ELSE reports' = reports \cup {GetReports("effect", currentId)} /\ UNCHANGED trail
    /\ UNCHANGED <<server, airtags, currentId, devices, flags, lists, refresh, save>>
-----------------------------------------------------------------------------
(* fullRefresh as refresh r, on behalf of tick or of handleManualRefresh;  *)
(* id is the selection of the render whose callback runs.                  *)
FullRefresh(r, next, id) ==
    /\ phase' = [phase EXCEPT ![r] = next]
    /\ reachable' = [reachable EXCEPT ![r] = TRUE]
    /\ closure' = [closure EXCEPT ![r] = None]
    /\ lists' = lists \cup {GetAirtags(r)}
    /\ devices' = up       \* refreshOwnerDevices: a failure empties its lists
    /\ IF id = None
       THEN trail' = NoTrail /\ UNCHANGED reports
       ELSE reports' = reports \cup {GetReports(r, id)} /\ UNCHANGED trail

(* A refresh begins with a call of its own.                                *)
Begin(r, next, id) ==
    /\ phase' = [phase EXCEPT ![r] = next]
    /\ closure' = [closure EXCEPT ![r] = id]
    /\ UNCHANGED <<reachable, loads, trail, devices>>

GiveUp(r) ==
    /\ phase' = [phase EXCEPT ![r] = "idle"]
    /\ closure' = [closure EXCEPT ![r] = None]
    /\ UNCHANGED <<reachable, loads, trail, devices>>

(* Every 20 seconds, or when the page becomes visible.                     *)
Tick(r) ==
    /\ phase[r] = "idle"
    /\ IF offline THEN Begin(r, "ping", currentIdRef) ELSE FullRefresh(r, "loading", currentIdRef)
    /\ UNCHANGED <<server, airtags, currentId, currentIdRef, flags, save>>

(* A mutant: no refresh follows the first answer to a ping.                *)
PingClears(r) ==
    /\ phase[r] = "ping"
    /\ GiveUp(r)
    /\ UNCHANGED <<server, airtags, currentId, currentIdRef, flags, save>>

PingAnswered(r) ==
    /\ phase[r] = "ping"
    /\ IF up THEN FullRefresh(r, "loading", closure[r]) ELSE GiveUp(r)
    /\ UNCHANGED <<server, airtags, currentId, currentIdRef, flags, save>>

HandleManualRefresh(r) ==
    /\ acts < MaxActs
    /\ acts' = acts + 1
    /\ phase[r] = "idle"
    /\ ~manualRefreshing
    /\ manualRefreshing' = TRUE
    /\ Begin(r, "poll", currentId)
    /\ UNCHANGED <<list, version, up, airtags, currentId, currentIdRef, offline, save>>

(* pollNow has returned or raised.                                         *)
PollAnswered(r) ==
    /\ phase[r] = "poll"
    /\ FullRefresh(r, "manual", closure[r])
    /\ UNCHANGED <<server, airtags, currentId, currentIdRef, flags, save>>

(* Promise.allSettled: load is the answer now handled, failed whether it   *)
(* counts as a failure of the refresh that asked for it.                   *)
Settle(load, failed, rest) ==
    IF load.by \notin Refreshes
    THEN UNCHANGED <<phase, reachable, flags>>
    ELSE LET r == load.by
             ok == reachable[r] /\ ~failed
             over == r \notin rest
         IN /\ reachable' = [reachable EXCEPT ![r] = ok]
            /\ phase' = IF over THEN [phase EXCEPT ![r] = "idle"] ELSE phase
            /\ offline' = IF over THEN ~ok ELSE offline
            /\ manualRefreshing' =
                 IF over /\ phase[r] = "manual" THEN FALSE ELSE manualRefreshing

AskedBy(answers) == {answer.by : answer \in answers}

(* Who still waits for an answer.                                          *)
Waiting(l, r) == AskedBy(l) \cup AskedBy(r)

(* A mutant: the selection stays, listed or not.                           *)
ShowListOnly(answer) ==
    /\ airtags' = answer
    /\ currentId' = IF currentId = None /\ answer # <<>> THEN answer[1] ELSE currentId

(* refreshAirtags: the selection stays while it is listed.                 *)
ShowList(answer) ==
    /\ airtags' = answer
    /\ currentId' = IF In(currentId, answer) THEN currentId
                    ELSE IF answer = <<>> THEN None ELSE answer[1]

(* An answer to getAirtags, also to the one that follows a save: after a   *)
(* creation the new AirTag is selected.                                    *)
AirtagsAnswered(load) ==
    /\ load \in lists
    /\ lists' = lists \ {load}
    /\ IF load.by = "save" /\ load.ok /\ save.op = "create"
       THEN airtags' = load.list /\ currentId' = save.id
       ELSE IF load.ok THEN ShowList(load.list) ELSE UNCHANGED <<airtags, currentId>>
    /\ Settle(load, ~load.ok, Waiting(lists', reports))
    /\ UNCHANGED closure
    /\ save' = IF load.by = "save" THEN Idle ELSE save
    /\ UNCHANGED <<server, currentIdRef, trail, devices, reports>>

(* A mutant: whatever is answered is shown.                                *)
AnyReportsAnswered(load) ==
    /\ load \in reports
    /\ reports' = reports \ {load}
    /\ trail' = IF load.ok THEN [of |-> load.of, version |-> load.version] ELSE trail
    /\ Settle(load, ~load.ok, Waiting(lists, reports'))
    /\ UNCHANGED closure
    /\ UNCHANGED <<server, airtags, currentId, currentIdRef, devices, lists, save>>

(* refreshReports: only for the AirTag that is current by then.            *)
ReportsAnswered(load) ==
    /\ load \in reports
    /\ reports' = reports \ {load}
    /\ trail' = IF load.ok /\ load.of = currentIdRef
                THEN [of |-> load.of, version |-> load.version] ELSE trail
    /\ Settle(load, ~load.ok, Waiting(lists, reports'))
    /\ UNCHANGED closure
    /\ UNCHANGED <<server, airtags, currentId, currentIdRef, devices, lists, save>>
-----------------------------------------------------------------------------
(* handleCreate, handleDelete of the detail screen, handleReorderAirtags,  *)
(* which shows the new order before it is saved.                           *)
SaveStarts(op, id) ==
    /\ acts < MaxActs
    /\ acts' = acts + 1
    /\ save = Idle
    /\ CASE op = "create" -> id \in AirTags \ Listed
         [] op = "delete" -> id = currentId /\ id \in Listed
         [] op = "reorder" -> id = None /\ Len(airtags) > 1
    /\ save' = [op |-> op, id |-> id, stage |-> "sent"]
    /\ airtags' = IF op = "reorder" THEN Reversed(airtags) ELSE airtags
    /\ UNCHANGED <<list, version, up, currentId, currentIdRef, trail, devices, flags,
                   loads, refresh>>

(* The answer.  A failure ends a creation or a deletion; a reorder loads   *)
(* the list in any case.                                                   *)
SaveAnswered ==
    /\ save.stage = "sent"
    /\ list' = CASE ~up -> list
                 [] up /\ save.op = "create" ->
                      IF In(save.id, list) THEN list ELSE Append(list, save.id)
                 [] up /\ save.op = "delete" -> Without(save.id, list)
                 [] up /\ save.op = "reorder" -> Reversed(list)
    /\ IF up \/ save.op = "reorder"
       THEN /\ save' = [save EXCEPT !.stage = "reload"]
            /\ lists' = lists \cup {[GetAirtags("save") EXCEPT !.list = list']}
       ELSE save' = Idle /\ UNCHANGED lists
    /\ UNCHANGED <<version, up, acts, shown, flags, reports, refresh>>

Answer ==
    \/ \E load \in lists : AirtagsAnswered(load)
    \/ \E load \in reports : ReportsAnswered(load)

Next ==
    \/ ServerChanges \/ NetworkChanges
    \/ \E id \in AirTags : HandleSelect(id)
    \/ EffectsRun
    \/ \E r \in Refreshes :
         Tick(r) \/ PingAnswered(r) \/ HandleManualRefresh(r) \/ PollAnswered(r)
    \/ Answer
    \/ \E op \in {"create", "delete", "reorder"}, id \in AirTags \cup {None} :
         SaveStarts(op, id)
    \/ SaveAnswered

(* Every call is given up after a timeout, effects run, timers fire.       *)
Fairness ==
    /\ WF_vars(EffectsRun) /\ WF_vars(SaveAnswered)
    /\ \A r \in Refreshes : WF_vars(Tick(r)) /\ WF_vars(PingAnswered(r)) /\ WF_vars(PollAnswered(r))
    /\ WF_vars(\E load \in lists : AirtagsAnswered(load))
    /\ WF_vars(\E load \in reports : ReportsAnswered(load))

Spec == Init /\ [][Next]_vars /\ Fairness
-----------------------------------------------------------------------------
(* A trail that belongs to the selected AirTag is not replaced by that of  *)
(* another while the selection stays, however late answers for others come *)
(* (App.tsx:284-313).  Only a refresh that began when nothing was selected *)
(* may empty it.                                                           *)
TrailStaysOnTheSelection ==
    [][trail.of = currentIdRef /\ currentIdRef' = currentIdRef
         => trail'.of \in {trail.of, None}]_vars

(* The guard is there against a slow answer "landing after a fresher one   *)
(* already resolved" (App.tsx:284-286): the positions of an AirTag on      *)
(* screen are not replaced by older ones of the same AirTag.               *)
FreshTrailStays ==
    [][trail'.of = trail.of => trail'.version >= trail.version]_vars

(* Once the server can be reached for good, the dashboard shows what it    *)
(* has and keeps showing it, whatever answers came late, failed or crossed *)
(* before (App.tsx:373-404).                                               *)
InSync ==
    /\ airtags = list
    /\ IF list = <<>> THEN trail = NoTrail
       ELSE In(currentId, list) /\ trail = [of |-> currentId, version |-> version]
    /\ devices

CatchesUp == <>[]up => <>[]InSync

(* The banner ends up telling whether the server can be reached            *)
(* (App.tsx:104-110, 350-362, 378-394).                                    *)
BannerFollowsServer ==
    /\ <>[]up => <>[]~offline
    /\ <>[]~up => <>[]offline

(* A refresh by hand comes to an end, also if its poll or any of its loads *)
(* fails (App.tsx:406-419).                                                *)
RefreshingEnds == manualRefreshing ~> ~manualRefreshing

(* Neither the banner nor the spinner is left behind by what has failed    *)
(* (App.tsx:350-419).                                                      *)
IndicatorsTellTheTruth == BannerFollowsServer /\ RefreshingEnds
=============================================================================

------------------------------- MODULE ReportLog -------------------------------
(***************************************************************************)
(* What the polls promise of the history they keep: for each AirTag the    *)
(* rows of location_reports, which are added and never changed, one for    *)
(* each timestamp, and the alerts, at most one of each kind for a row,     *)
(* until the AirTag is removed with all it has.  Nothing here says how     *)
(* many polls there are, where they run or what fails in them.             *)
(***************************************************************************)
EXTENDS Naturals

CONSTANTS
    AirTags,
    Times,
    Kinds           \* the kinds of alert a report may raise one each of

VARIABLES
    rows,           \* per AirTag: the stored reports
    alarms,         \* per AirTag, timestamp and kind: how many alerts
    removed         \* the AirTags that have been removed

NoAlarms == [x \in Times \X Kinds |-> 0]

Init ==
    /\ rows = [a \in AirTags |-> {}]
    /\ alarms = [a \in AirTags |-> NoAlarms]
    /\ removed = {}

(* Reports are added in one transaction, any number of them.               *)
Store(a) ==
    /\ a \notin removed
    /\ rows' = [rows EXCEPT ![a] = rows'[a]]
    /\ rows[a] \subseteq rows'[a]
    /\ \A r, s \in rows'[a] : r.t = s.t => r = s
    /\ UNCHANGED <<alarms, removed>>

(* A row that was kept raises an alert, the first of its kind.             *)
Alert(a, kind) ==
    /\ \E r \in rows[a] :
         /\ ~r.isOutlier
         /\ alarms[a][<<r.t, kind>>] = 0
         /\ alarms' = [alarms EXCEPT ![a][<<r.t, kind>>] = 1]
    /\ UNCHANGED <<rows, removed>>

Remove(a) ==
    /\ a \notin removed
    /\ rows' = [rows EXCEPT ![a] = {}]
    /\ alarms' = [alarms EXCEPT ![a] = NoAlarms]
    /\ removed' = removed \cup {a}

Next == \E a \in AirTags : Store(a) \/ Remove(a) \/ \E kind \in Kinds : Alert(a, kind)

Spec == Init /\ [][Next]_<<rows, alarms, removed>>
=============================================================================

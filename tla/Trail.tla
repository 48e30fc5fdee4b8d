------------------------------- MODULE Trail -------------------------------
(***************************************************************************)
(* The history of one AirTag as the rules of movement.py and stays.py see  *)
(* it: location_reports in the order of their timestamps, oldest first,    *)
(* without the outliers (fetch_reports).  It grows by one report at a      *)
(* time, which may be older than others that are there, and goes with its  *)
(* AirTag; every trail the constants allow is a state, so that an          *)
(* invariant compares a rule with its reference on all of them.            *)
(***************************************************************************)
EXTENDS Movement, SequencesExt

CONSTANTS
    Positions,
    Fixes,          \* the quality of a fix: [acc, conf], even radii and 1 .. 3, or None
    Timestamps,     \* of reports
    MaxLength       \* bound: the length of the history

ASSUME LengthAssumption == MaxLength \in Nat

ASSUME ReportAssumption ==
    /\ None \notin Nat
    /\ Positions \subseteq Int /\ Timestamps \subseteq Nat
    /\ Fixes \subseteq [acc : Nat \cup {None}, conf : 1 .. 3 \cup {None}]

VARIABLE trail

TrailInit == trail = <<>>

(* db.insert_reports: a report finds its place by its timestamp, at the    *)
(* end or, if it is late, among the others; one whose timestamp is there   *)
(* is skipped.                                                             *)
InsertReport ==
    /\ Len(trail) < MaxLength
    /\ \E t \in Timestamps, pos \in Positions, fix \in Fixes, k \in 1 .. Len(trail) + 1 :
         /\ \A i \in DOMAIN trail : IF i < k THEN trail[i].t < t ELSE t < trail[i].t
         /\ trail' = InsertAt(trail, k, [t |-> t, pos |-> pos, acc |-> fix.acc, conf |-> fix.conf])

(* db.delete_airtag.                                                       *)
DeleteAirtag == trail # <<>> /\ trail' = <<>>

TrailNext == InsertReport \/ DeleteAirtag

TrailSpec == TrailInit /\ [][TrailNext]_trail
=============================================================================

------------------------------ MODULE Readings ------------------------------
(***************************************************************************)
(* The queries of db.py over readings: rows with a timestamp, read in the  *)
(* order of time or by their distance from a point in time.                *)
(***************************************************************************)
EXTENDS Movement, FiniteSets

(* The sequences of the elements of S in the order of their timestamps.    *)
InTimeOrder(S) ==
    {s \in [1 .. Cardinality(S) -> S] :
        /\ \A x \in S : \E i \in DOMAIN s : s[i] = x
        /\ \A i, j \in DOMAIN s : i < j => s[i].t =< s[j].t}

LastOf(s) == IF s = <<>> THEN None ELSE s[Len(s)]

(* primary_owner_device_location_near: a reading as close in time to t as  *)
(* any; nothing orders two that are equally close.                         *)
NearestReadings(readings, t) ==
    IF readings = {}
    THEN {None}
    ELSE {x \in readings : \A y \in readings : Abs(x.t - t) =< Abs(y.t - t)}

(* primary_owner_device_latest_location, and the first row of the history. *)
LatestReading(readings) ==
    IF readings = {}
    THEN None
    ELSE CHOOSE x \in readings : \A y \in readings : y.t =< x.t
=============================================================================

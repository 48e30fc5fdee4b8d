------------------------------ MODULE MCHistory -----------------------------
(***************************************************************************)
(* What is made of a history, by the server and on the screen: the rules   *)
(* of movement.py and stays.py, and the ways from one object and stay to   *)
(* another.  The parts share no state and are explored one at a time:      *)
(* subject says which.                                                     *)
(*                                                                         *)
(* The rules see all histories of four positions, whose distances are all  *)
(* those up to 6, and fixes of four kinds.  The handle of the sheet is     *)
(* explored apart from the rest of the screen: the two share sheetState    *)
(* only, which the rest writes and never reads, so the handle is given     *)
(* those writes as SetSheetState.                                          *)
(***************************************************************************)
EXTENDS MovementRules, Stays, Navigation

CONSTANTS a, b, c

VARIABLE subject
-----------------------------------------------------------------------------
MCCfg == [distanceThreshold |-> 2, stillstandMovement |-> 1, stillstandTime |-> 2,
          alertOnBackfill |-> TRUE, awayDistance |-> 3, ownerMaxAge |-> 1,
          maxSpeed |-> 6, minConfidence |-> 2]

MCFixes == {[acc |-> None, conf |-> None], [acc |-> 4, conf |-> None],
            [acc |-> 2, conf |-> 2], [acc |-> None, conf |-> 1]}

MCPlaces == {[pos |-> 0, radius |-> 0], [pos |-> 0, radius |-> 2],
             [pos |-> 3, radius |-> 2], [pos |-> 2, radius |-> 5]}

(* No action tells two AirTags apart.                                      *)
Symmetry == Permutations({a, b})
-----------------------------------------------------------------------------
HistoryInit ==
    /\ subject \in {"trail", "screen", "handle"}
    /\ TrailInit /\ Init

HistoryNext ==
    /\ \/ subject = "trail" /\ TrailNext /\ UNCHANGED vars
       \/ subject = "screen" /\ (Load \/ Select \/ Move) /\ UNCHANGED trail
       \/ subject = "handle" /\ SheetNext /\ UNCHANGED <<trail, navVars>>
    /\ UNCHANGED subject

HistorySpec == HistoryInit /\ [][HistoryNext]_<<trail, vars, subject>>
=============================================================================

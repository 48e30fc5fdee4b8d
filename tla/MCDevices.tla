------------------------------ MODULE MCDevices ------------------------------
(***************************************************************************)
(* The registry of the owner's devices, and the away alerts of those that  *)
(* are in it.  The two share no state and are explored one at a time:      *)
(* subject says which.  The fairness is that of the registry, of which     *)
(* alone a liveness property is asked.                                     *)
(***************************************************************************)
EXTENDS MCOwnerDevices, MCDeviceAway

VARIABLE subject
-----------------------------------------------------------------------------
MCBackfillCfg == [MCCfg EXCEPT !.alertOnBackfill = TRUE]

DevicesInit ==
    /\ subject \in {"registry", "away"}
    /\ Init /\ AwayInit
    /\ subject = "away" => account = {}

DevicesNext ==
    /\ \/ subject = "registry" /\ Next /\ UNCHANGED awayVars
       \/ subject = "away" /\ AwayNext /\ UNCHANGED vars
    /\ UNCHANGED subject

DevicesSpec ==
    DevicesInit /\ [][DevicesNext]_<<vars, awayVars, subject>> /\ Fairness
=============================================================================

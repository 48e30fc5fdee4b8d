---------------------------- MODULE MCDeviceAway ----------------------------
(* A phone, which is the primary device, and a laptop between home and the *)
(* office.                                                                 *)
EXTENDS DeviceAway

CONSTANTS phone, laptop, pods

MCCfg == [distanceThreshold |-> 2, stillstandMovement |-> 0, stillstandTime |-> 2,
          alertOnBackfill |-> FALSE, awayDistance |-> 2, ownerMaxAge |-> 1,
          maxSpeed |-> 6, minConfidence |-> 2]

MCReasons == {"left_behind", "autonomous_movement"}
=============================================================================

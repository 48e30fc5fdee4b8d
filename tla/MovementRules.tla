--------------------------- MODULE MovementRules ---------------------------
(***************************************************************************)
(* What the rules of movement.py promise about any history.  The newest    *)
(* report of the trail is the one under evaluation.                        *)
(***************************************************************************)
EXTENDS Trail

CONSTANT Cfg

ASSUME CfgAssumption ==
    {Cfg.distanceThreshold, Cfg.stillstandMovement, Cfg.stillstandTime, Cfg.awayDistance} \subseteq Nat

ASSUME ReasonAssumption == None \notin {"distance_threshold", "stillstand_movement"}

Newest == trail[Len(trail)]

Earlier == SubSeq(trail, 1, Len(trail) - 1)

Reason(report) == EvaluateMovement(report, Earlier, Cfg)

(* The report under evaluation, with another accuracy radius.              *)
Blurred(report, acc) == [report EXCEPT !.acc = acc]

(* A report says that the object was within its radius of a position.      *)
CouldBeAt(report, p) == HaversineDistance(report.pos, p) =< Radius(report.acc)

(* The walk finds the earliest report of the longest run, ending with the  *)
(* newest report, in which no report is displaced from the one before it   *)
(* (movement.py:136-148).                                                  *)
AnchorStartsTheStreak ==
    trail # <<>> =>
       LET n == Len(trail)
           Steady(i) == \A j \in i .. n - 1 : ~IsObjectDisplaced(trail[j], trail[j + 1], Cfg)
       IN  \E i \in 1 .. n : /\ StillstandAnchor(trail, Cfg) = trail[i]
                             /\ Steady(i)
                             /\ \A k \in 1 .. i - 1 : ~Steady(k)

(* An object that could have been in one place all along raises no alert,  *)
(* however long it lay there and however its fixes scatter: movement is    *)
(* what the error margins do not explain (movement.py:67-75).              *)
NoiseNeverAlerts ==
    (trail # <<>> /\ \E p \in Positions : \A i \in DOMAIN trail : CouldBeAt(trail[i], p))
       => Reason(Newest) = None

(* A less accurate fix never makes an alert where a more accurate fix of   *)
(* the same place makes none (movement.py:67-75: missing accuracy gets no  *)
(* discount, never a more permissive read).                                *)
BlurNeverAlerts ==
    trail # <<>> =>
       \A x, y \in {fix.acc : fix \in Fixes} :
          (Radius(x) =< Radius(y) /\ Reason(Blurred(Newest, x)) = None)
             => Reason(Blurred(Newest, y)) = None

(* The report that ends a long rest raises an alert: the reports before it *)
(* are of one place, it is not, and they span the stillstand time          *)
(* (movement.py:174-178).                                                  *)
LeavingARestAlerts ==
    LET rest == TrustedReports(Earlier, Cfg)
        n == Len(rest)
    IN  (/\ trail # <<>> /\ n > 0
         /\ \A i \in 1 .. n : rest[i].pos = rest[n].pos
         /\ Newest.t - rest[1].t >= Cfg.stillstandTime
         /\ Separation(Newest, rest[n]) > Cfg.stillstandMovement)
       => Reason(Newest) # None

(* A reading that is away from the owner is not at the same time already   *)
(* reunited with the owner, as long as the owner has not moved             *)
(* (movement.py:217, 243): an alert is not suppressed by the very reading  *)
(* that raised it.                                                         *)
AwayIsNotReunited ==
    Len(trail) > 1 =>
       \A i, j \in DOMAIN trail :
          IsAway(trail[i], trail[j], Cfg) => ~AlreadyReunited(trail[i], trail[j], Cfg)

(* Alerts tell movement from noise: a rest is measured from where it       *)
(* began, nothing that fits in the error margins alerts, more blur makes   *)
(* no more alerts, what ends a rest alerts, and no alert is taken back by  *)
(* the reading that raised it (movement.py:67-75, 136-243).                *)
AlertsTellMovementFromNoise ==
    AnchorStartsTheStreak /\ NoiseNeverAlerts /\ BlurNeverAlerts /\ LeavingARestAlerts /\ AwayIsNotReunited
=============================================================================

------------------------------ MODULE Movement ------------------------------
(***************************************************************************)
(* The pure decision rules of airtag_sentry/movement.py.                   *)
(*                                                                         *)
(* A position is a point of a line (an integer), so the haversine distance *)
(* is the absolute difference: the rules only compare distances with       *)
(* thresholds.  Times, distances, speeds and accuracies share integer      *)
(* units; accuracies are even, so that the factor 1.5 stays exact.         *)
(*                                                                         *)
(* A reading is a record with the fields t (timestamp), pos (position),    *)
(* acc (accuracy radius or None) and conf (confidence 1..3 or None; always *)
(* None for an owner device).  A configuration is a record with the fields *)
(* of MovementConfig.                                                      *)
(***************************************************************************)
EXTENDS Integers, Sequences

CONSTANT None

Abs(n) == IF n < 0 THEN -n ELSE n

HaversineDistance(p, q) == Abs(p - q)

Radius(acc) == IF acc = None THEN 0 ELSE acc

(* A mutant: only the larger radius counts.                                *)
LargerRadiusAdjusted(distance, acc1, acc2) ==
    LET slack == IF Radius(acc1) > Radius(acc2) THEN Radius(acc1) ELSE Radius(acc2)
    IN  IF distance < slack THEN 0 ELSE distance - slack

AccuracyAdjustedDistance(distance, acc1, acc2) ==
    LET adjusted == distance - (Radius(acc1) + Radius(acc2))
    IN  IF adjusted < 0 THEN 0 ELSE adjusted

(* Halves: 2 is a factor of 1.0, 3 of 1.5 and 4 of 2.0. *)
ConfidenceAccuracyFactor(conf) ==
    IF conf = 1 THEN 4 ELSE IF conf = 2 THEN 3 ELSE 2

EffectiveAccuracy(report) ==
    IF report.acc = None
    THEN None
    ELSE (report.acc * ConfidenceAccuracyFactor(report.conf)) \div 2

IsLowConfidence(report, cfg) ==
    report.conf # None /\ report.conf < cfg.minConfidence

(* The discounted distance between two readings of AirTags or devices.  An *)
(* owner device has no confidence, so its effective accuracy is its own.   *)
Separation(r, s) ==
    AccuracyAdjustedDistance(HaversineDistance(r.pos, s.pos),
                             EffectiveAccuracy(r), EffectiveAccuracy(s))

IsObjectDisplaced(r, s, cfg) == Separation(r, s) > cfg.distanceThreshold

(* Speed is distance over elapsed time; an elapsed time of zero is an      *)
(* infinite speed whatever the distance.  Half the limit holds for a       *)
(* low-confidence report.                                                  *)
IsSpeedOutlier(new, prior, cfg) ==
    /\ prior # None
    /\ LET elapsed == Abs(new.t - prior.t)
           distance == HaversineDistance(new.pos, prior.pos)
       IN  \/ elapsed = 0
           \/ IF IsLowConfidence(new, cfg)
              THEN 2 * distance > cfg.maxSpeed * elapsed
              ELSE distance > cfg.maxSpeed * elapsed

(* The backward walk of _stillstand_anchor: it moves the anchor to the     *)
(* report before it for as long as that report is within the threshold of  *)
(* the anchor itself.                                                      *)
StillstandAnchor(prior, cfg) ==
    LET walk[i \in 1 .. Len(prior)] ==
          IF i = 1 \/ IsObjectDisplaced(prior[i - 1], prior[i], cfg)
          THEN i
          ELSE walk[i - 1]
    IN  prior[walk[Len(prior)]]

(* The reports that may serve as a baseline or as an anchor, in order.     *)
TrustedReports(reports, cfg) ==
    LET kept[i \in 0 .. Len(reports)] ==
          IF i = 0 THEN <<>>
          ELSE IF IsLowConfidence(reports[i], cfg) THEN kept[i - 1]
          ELSE Append(kept[i - 1], reports[i])
    IN  kept[Len(reports)]

(* The reason of the movement alert a new report raises, or None.          *)
EvaluateMovement(new, priorReports, cfg) ==
    LET prior == TrustedReports(priorReports, cfg)
        distance == Separation(new, prior[Len(prior)])
        stillFor == new.t - StillstandAnchor(prior, cfg).t
    IN  IF prior = <<>> THEN None
        ELSE IF distance > cfg.distanceThreshold THEN "distance_threshold"
        ELSE IF /\ distance > cfg.stillstandMovement
                /\ stillFor >= cfg.stillstandTime
             THEN "stillstand_movement"
             ELSE None

(* evaluate_away and evaluate_device_away: is the object away from the     *)
(* primary device, as far as a reading close enough in time can tell?      *)
IsAway(reading, owner, cfg) ==
    /\ owner # None
    /\ Abs(reading.t - owner.t) =< cfg.ownerMaxAge
    /\ Separation(reading, owner) > cfg.awayDistance

(* owner_already_reunited and device_already_reunited.                     *)
AlreadyReunited(reading, currentOwner, cfg) ==
    /\ currentOwner # None
    /\ Separation(reading, currentOwner) =< cfg.awayDistance

(* The reason of an away alert: has the object itself moved since its      *)
(* previous reading (None if there is none)?                               *)
AwayReason(reading, previous, cfg) ==
    IF previous # None /\ IsObjectDisplaced(reading, previous, cfg)
    THEN "autonomous_movement"
    ELSE "left_behind"
=============================================================================

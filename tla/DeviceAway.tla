----------------------------- MODULE DeviceAway -----------------------------
(***************************************************************************)
(* tracker._evaluate_device_away_alerts: once per poll, the latest reading *)
(* of each of the owner's other devices is compared with the primary       *)
(* device's, and an alert is recorded when the device has become "away".   *)
(*                                                                         *)
(* A fetch from Apple stamps every reading it brings with its own time, so *)
(* the clock advances with the fetches.  All devices are enabled (module   *)
(* OwnerDevices has their registry) and one setting record, AwayCfg, holds.*)
(***************************************************************************)
EXTENDS Readings

CONSTANTS
    Devices,
    Primary,        \* the device with is_primary set
    AwayAlertFor,   \* the devices with away_alert_enabled
    Spots,         \* where a device may be
    NamedPlaces,    \* those within a named place's radius
    Offline,        \* the devices Apple may have no fresh location for
    FetchMayFail,   \* may a call to Apple raise?
    MaxTime,        \* bound: the number of fetches
    AwayCfg,
    NotifyOn        \* alert reasons with their notify_on_* switch on

ASSUME PrimaryAssumption ==
    Primary \in Devices /\ AwayAlertFor \subseteq Devices /\ Offline \subseteq Devices
ASSUME FetchAssumption == FetchMayFail \in BOOLEAN
ASSUME MaxTimeAssumption == MaxTime \in Nat
ASSUME AgeAssumption == AwayCfg.ownerMaxAge \in Nat

VARIABLES
    readings,   \* per device: its rows in owner_device_locations
    alerts,     \* per device and reading time: the number of alerts rows
    pushed,     \* the notifications sent: <<device, reading time, reason>>
    todo,       \* the readings latest_owner_device_locations returned, still to judge
    pending,    \* the alert whose push is due, or None
    step,       \* the next step of the poll
    now,        \* the time of the last fetch
    complete    \* history: has every fetch brought a reading of every device?

awayVars == <<readings, alerts, pushed, todo, pending, step, now, complete>>

Times == 0 .. MaxTime

(* Bound: alerts are counted up to two, one more than there should be.     *)
MaxAlerts == 2

Capped(n) == IF n > MaxAlerts THEN MaxAlerts ELSE n
-----------------------------------------------------------------------------
Located(place, t) == [t |-> t, pos |-> place, acc |-> None, conf |-> None]

ASSUME ReadingAssumption == \A x \in Spots : \A t \in Times : Located(x, t) # None

(* What a fetch adds: a reading of every device Apple has a fix of.        *)
Fetches ==
    {rows \in [Devices -> {{Located(x, now + 1)} : x \in Spots} \cup {{}}] :
        \A d \in Devices \ Offline : rows[d] # {}}

Record(rows) ==
    /\ readings' = [d \in Devices |-> readings[d] \cup rows[d]]
    /\ complete' = (complete /\ \A d \in Devices : rows[d] # {})

(* A mutant: history[0].                                                   *)
LatestAsPrevious(d) == LatestReading(readings[d])

(* fetch_owner_device_location_history(limit=2): the row before the latest.*)
PreviousReading(d) ==
    LatestReading(readings[d] \ {LatestReading(readings[d])})

Latest(d) == [device |-> d, reading |-> LatestReading(readings[d])]

AwayInit ==
    /\ readings = [d \in Devices |-> {}]
    /\ alerts = [d \in Devices |-> [t \in Times |-> 0]]
    /\ pushed = {}
    /\ todo = {}
    /\ pending = None
    /\ step = "refresh"
    /\ now = 0
    /\ complete = TRUE

(* _update_owner_devices: a fetch that fails records nothing.              *)
Refresh ==
    /\ step = "refresh"
    /\ \/ /\ now < MaxTime
          /\ \E rows \in Fetches : Record(rows)
          /\ now' = now + 1
       \/ FetchMayFail /\ complete' = FALSE /\ UNCHANGED <<readings, now>>
    /\ step' = "select"
    /\ UNCHANGED <<alerts, pushed, todo, pending>>

(* latest_owner_device_locations, read once before the loop.               *)
Select ==
    /\ step = "select"
    /\ todo' = {Latest(d) : d \in {c \in Devices : readings[c] # {}}}
    /\ step' = "judge"
    /\ UNCHANGED <<readings, alerts, pushed, pending, now, complete>>

(* The skips before the primary's position matters: the primary itself, a  *)
(* device that is not opted in, a first reading, and a device that was     *)
(* already away at its previous reading, as far as the primary's reading   *)
(* closest to that one tells.                                              *)
AlreadyHandled(item, near) ==
    LET previous == PreviousReading(item.device)
    IN  \/ item.device = Primary
        \/ item.device \notin AwayAlertFor
        \/ previous = None /\ ~AwayCfg.alertOnBackfill
        \/ previous # None /\ IsAway(previous, near, AwayCfg)

NearPrevious(item) ==
    LET previous == PreviousReading(item.device)
    IN  NearestReadings(readings[Primary],
                        IF previous = None THEN item.reading.t ELSE previous.t)

Skip(item) ==
    /\ step = "judge"
    /\ item \in todo
    /\ \E near \in NearPrevious(item) : AlreadyHandled(item, near)
    /\ todo' = todo \ {item}
    /\ UNCHANGED <<readings, alerts, pushed, pending, step, now, complete>>

DueForJudgement(item) ==
    /\ step = "judge"
    /\ item \in todo
    /\ \E near \in NearPrevious(item) : ~AlreadyHandled(item, near)

(* _owner_location_for_away_check: with a reading of the primary close     *)
(* enough in time there is no live fetch.                                  *)
Trusted(near, t) == near # None /\ Abs(t - near.t) =< AwayCfg.ownerMaxAge

(* A mutant: the age of the primary's reading does not matter.             *)
JudgeByAnyReading(item, near, previous) ==
    /\ todo' = todo \ {item}
    /\ IF near # None /\ Separation(item.reading, near) > AwayCfg.awayDistance
       THEN /\ alerts' = [alerts EXCEPT ![item.device][item.reading.t] = Capped(@ + 1)]
            /\ pending' = [device |-> item.device, reading |-> item.reading,
                           reason |-> AwayReason(item.reading, previous, AwayCfg)]
            /\ step' = "push"
       ELSE UNCHANGED <<alerts, pending, step>>

(* evaluate_device_away and record_alert.  The previous reading is the one *)
(* read before the live fetch.                                             *)
Judge(item, near, previous) ==
    /\ todo' = todo \ {item}
    /\ IF IsAway(item.reading, near, AwayCfg)
       THEN /\ alerts' = [alerts EXCEPT ![item.device][item.reading.t] = Capped(@ + 1)]
            /\ pending' = [device |-> item.device, reading |-> item.reading,
                           reason |-> AwayReason(item.reading, previous, AwayCfg)]
            /\ step' = "push"
       ELSE UNCHANGED <<alerts, pending, step>>

JudgeRecorded(item) ==
    /\ DueForJudgement(item)
    /\ \E near \in NearestReadings(readings[Primary], item.reading.t) :
         /\ Trusted(near, item.reading.t)
         /\ Judge(item, near, PreviousReading(item.device))
    /\ UNCHANGED <<readings, pushed, now, complete>>

(* The live fetch records a reading of every device, not only of the       *)
(* primary.                                                                *)
JudgeFetched(item) ==
    /\ DueForJudgement(item)
    /\ \E near \in NearestReadings(readings[Primary], item.reading.t) :
         ~Trusted(near, item.reading.t)
    /\ now < MaxTime
    /\ \E rows \in Fetches : Record(rows)
    /\ now' = now + 1
    /\ \E near \in NearestReadings(readings'[Primary], item.reading.t) :
         Judge(item, near, PreviousReading(item.device))
    /\ UNCHANGED pushed

(* The live fetch fails: what is recorded is used, stale or not.           *)
JudgeUnfetched(item) ==
    /\ DueForJudgement(item)
    /\ FetchMayFail
    /\ complete' = FALSE
    /\ \E near \in NearestReadings(readings[Primary], item.reading.t) :
         /\ ~Trusted(near, item.reading.t)
         /\ Judge(item, near, PreviousReading(item.device))
    /\ UNCHANGED <<readings, pushed, now>>

(* The gates of the push.                                                  *)
Push ==
    /\ step = "push"
    /\ LET send == /\ pending.reason \in NotifyOn
                   /\ ~AlreadyReunited(pending.reading, LatestReading(readings[Primary]), AwayCfg)
                   /\ ~(/\ pending.reason = "left_behind"
                        /\ pending.reading.pos \in NamedPlaces)
       IN  pushed' = IF send
                     THEN pushed \cup {<<pending.device, pending.reading.t, pending.reason>>}
                     ELSE pushed
    /\ pending' = None
    /\ step' = "judge"
    /\ UNCHANGED <<readings, alerts, todo, now, complete>>

Finish ==
    /\ step = "judge"
    /\ todo = {}
    /\ step' = "refresh"
    /\ UNCHANGED <<readings, alerts, pushed, todo, pending, now, complete>>

(* The instance ends when its clock does: before a fetch it has no time for.*)
Halt == step \in {"refresh", "judge"} /\ now = MaxTime /\ UNCHANGED awayVars

AwayNext ==
    \/ Refresh \/ Select \/ Push \/ Finish \/ Halt
    \/ \E item \in todo :
         Skip(item) \/ JudgeRecorded(item) \/ JudgeFetched(item) \/ JudgeUnfetched(item)

AwaySpec == AwayInit /\ [][AwayNext]_awayVars
-----------------------------------------------------------------------------
Before(d, r) == LatestReading({x \in readings[d] : x.t < r.t})

(* Whichever of the closest readings of the primary it is compared with.   *)
SurelyAway(r) ==
    \A near \in NearestReadings(readings[Primary], r.t) : IsAway(r, near, AwayCfg)

SurelyWithPrimary(r) ==
    \A near \in NearestReadings(readings[Primary], r.t) :
       Trusted(near, r.t) /\ ~IsAway(r, near, AwayCfg)

(* An alert's distance comes from a reading of the primary that is close   *)
(* in time, whichever fetches failed or brought only some of the devices:  *)
(* no alert rests on a stale position (tracker.py:224-247).                *)
AlertsHaveAWitness ==
    \A d \in Devices : \A t \in Times : alerts[d][t] > 0 =>
       \E r \in readings[d], near \in readings[Primary] : r.t = t /\ IsAway(r, near, AwayCfg)

(* A device that stays away is reported once: a reading never has two      *)
(* alerts, nor have two readings in a row one each (tracker.py:264-269:    *)
(* rather than re-notifying every poll for as long as it stays away).      *)
OneAlertPerStay ==
    \A d \in Devices : \A r \in readings[d] :
       /\ alerts[d][r.t] =< 1
       /\ LET previous == Before(d, r)
          IN  (previous # None /\ alerts[d][r.t] > 0) => alerts[d][previous.t] = 0

(* As long as every poll brings a new reading of every device, a stay away *)
(* is reported once (tracker.py:264-269).                                  *)
FreshReadingsAlertOnce == complete => OneAlertPerStay

(* As long as every poll brings a new reading of every device, a device    *)
(* seen with the primary and then away from it has an alert by the time    *)
(* its next reading is recorded, unless it is still to be judged           *)
(* (tracker.py:264-275: always recorded once a transition is detected).    *)
TransitionsAreAlerted ==
    complete =>
       \A d \in AwayAlertFor \ {Primary} : \A r \in readings[d] :
          LET previous == Before(d, r)
          IN  \/ previous = None \/ ~SurelyWithPrimary(previous) \/ ~SurelyAway(r)
              \/ alerts[d][r.t] > 0
              \/ r = LatestReading(readings[d])
              \/ [device |-> d, reading |-> r] \in todo

(* With complete fetches the alerts are the departures: one for each, and  *)
(* no more (tracker.py:264-275).                                           *)
AlertsFollowTransitions == FreshReadingsAlertOnce /\ TransitionsAreAlerted
=============================================================================

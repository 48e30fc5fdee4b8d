--------------------------- MODULE NavigationProofs ---------------------------
(***************************************************************************)
(* What the map, the title and the stepper are about, for any objects and  *)
(* histories of any length; and the sheet that the navigation moves.       *)
(***************************************************************************)
EXTENDS Navigation, TLAPS

NavTypes ==
    /\ airtags \subseteq AirTags /\ devices \subseteq Devices
    /\ reportTrail \in [of : AirTags \cup {NoObject}, stays : Seq(AirTags \X Nat)]
    /\ histories \in [Devices -> Seq(Nat)]
    /\ currentId \in AirTags \cup {NoObject}
    /\ selectedDevice \in Devices \cup {NoObject}

(* A key tells one stay, and that of a report its AirTag.                  *)
KeysTellStays ==
    /\ \A i, j \in DOMAIN ReportStays : ReportStays[i] = ReportStays[j] => i = j
    /\ \A i \in DOMAIN ReportStays : \E k \in Nat : ReportStays[i] = <<reportTrail.of, k>>
    /\ \A d \in Devices : \A i, j \in DOMAIN LocationStays(d) :
         LocationStays(d)[i] = LocationStays(d)[j] => i = j

(* A stay that is kept for the next AirTag is one of the current AirTag.   *)
PendingIsCurrent == pendingReport # NoObject => \E i \in Nat : pendingReport = <<currentId, i>>

AskedReport(a, key) ==
    /\ currentId = a
    /\ \/ activeTab = "objects" /\ detail = "airtag"
       \/ activeTab = "timeline" /\ timelineFilter \in AirTags
    /\ IF key = NoObject THEN \A k \in Nat : selectedReport # <<a, k>> ELSE selectedReport = key

AskedLocation(d, key) ==
    /\ selectedDevice = d
    /\ \/ activeTab = "objects" /\ detail = "device"
       \/ activeTab = "timeline" /\ timelineFilter \in Devices
    /\ selectedLocation = key

(* The selection is what was last asked for, on the screen of its object.  *)
AskedIsSelected ==
    asked # NoObject =>
        \/ \E a \in AirTags : \E key : asked = <<a, key>> /\ AskedReport(a, key)
        \/ \E d \in Devices : \E key : asked = <<d, key>> /\ AskedLocation(d, key)

NavInv == NavTypes /\ KeysTellStays /\ PendingIsCurrent /\ AskedIsSelected
-----------------------------------------------------------------------------
(* The AirTag that is selected next has no stay of the one before.         *)
LEMMA NextAirtag ==
    ASSUME NavInv, NEW id \in AirTags, id # currentId, NEW report,
           SetCurrentId(id, pendingReport, report)
    PROVE  /\ PendingIsCurrent'
           /\ \A k \in Nat : selectedReport' # <<id, k>>
BY NavigationAssumption DEF NavInv, PendingIsCurrent, SetCurrentId

LEMMA SameSelection ==
    ASSUME NavInv, NavTypes', KeysTellStays',
           UNCHANGED <<screen, selection, deviceSelection, asked>>
    PROVE  NavInv'
BY DEF NavInv, PendingIsCurrent, AskedIsSelected, AskedReport, AskedLocation, screen,
       selection, deviceSelection

LEMMA NothingAsked ==
    ASSUME NavTypes', KeysTellStays', PendingIsCurrent', asked' = NoObject
    PROVE  NavInv'
BY DEF NavInv, AskedIsSelected

LEMMA SameHistories ==
    ASSUME NavInv, UNCHANGED <<reportTrail, histories>>
    PROVE  KeysTellStays'
BY DEF NavInv, KeysTellStays, ReportStays, LocationStays

(* A load brings each key once.                                            *)
LEMMA KeysTell ==
    ASSUME NEW keys \in Keys
    PROVE  /\ keys \in Seq(Nat)
           /\ \A i, j \in DOMAIN keys : keys[i] = keys[j] => i = j
<1>1. PICK n \in 0 .. MaxStays : keys \in [1 .. n -> 1 .. MaxStays] /\ IsInjective(keys)
  BY DEF Keys
<1>2. n \in Nat /\ keys \in [1 .. n -> Nat]
  BY <1>1, NavigationAssumption
<1> QED BY <1>1, <1>2 DEF IsInjective

LEMMA LoadInv == NavInv /\ Load => NavInv'
<1> SUFFICES ASSUME NavInv, Load
             PROVE  NavInv'
  OBVIOUS
<1>1. ASSUME NEW list \in SUBSET AirTags, AirtagsLoaded(list)
      PROVE  NavInv'
  <2>1. PICK id \in AirTags \cup {NoObject} : SetCurrentId(id, pendingReport, selectedReport)
    BY <1>1 DEF AirtagsLoaded, NavInv, NavTypes
  <2>2. NavTypes' /\ KeysTellStays'
    <3>1. reportTrail' = reportTrail \/ reportTrail' = NoTrail
      BY <1>1 DEF AirtagsLoaded
    <3>2. NavTypes'
      BY <1>1, <2>1, <3>1 DEF AirtagsLoaded, SetCurrentId, NavInv, NavTypes, NoTrail, deviceSelection
    <3>3. histories' = histories
      BY <1>1 DEF AirtagsLoaded
    <3>4. CASE reportTrail' = reportTrail
      BY <3>2, <3>3, <3>4, SameHistories
    <3>5. CASE reportTrail' = NoTrail
      BY <3>2, <3>3, <3>5 DEF NavInv, KeysTellStays, ReportStays, LocationStays, NoTrail
    <3> QED BY <3>1, <3>4, <3>5, <3>2
  <2>3. CASE id = currentId
    <3>1. UNCHANGED <<screen, selection, deviceSelection, asked>>
      BY <1>1, <2>1, <2>3 DEF AirtagsLoaded, SetCurrentId, selection
    <3> QED BY <2>2, <3>1, SameSelection
  <2>4. CASE id # currentId
    <3>1. asked' = NoObject /\ pendingReport' = NoObject
      BY <1>1, <2>1, <2>4 DEF AirtagsLoaded, SetCurrentId
    <3> QED BY <2>2, <3>1, NothingAsked DEF PendingIsCurrent
  <2> QED BY <2>3, <2>4
<1>2. ASSUME NEW list \in SUBSET Devices, DevicesLoaded(list)
      PROVE  NavInv'
  <2>1. NavTypes' /\ KeysTellStays'
    BY <1>2, SameHistories DEF DevicesLoaded, NavInv, NavTypes, selection, deviceSelection
  <2> QED BY <1>2, <2>1, SameSelection DEF DevicesLoaded
<1>3. ASSUME NEW ids \in Keys, ReportsLoaded(ids)
      PROVE  NavInv'
  <2>1. currentId \in AirTags
    BY <1>3 DEF ReportsLoaded, NavInv, NavTypes
  <2> DEFINE stays == [i \in DOMAIN ids |-> <<currentId, ids[i]>>]
  <2>2. stays \in Seq(AirTags \X Nat)
    BY <2>1, KeysTell
  <2>3. reportTrail' = [of |-> currentId, stays |-> stays] /\ histories' = histories
    BY <1>3 DEF ReportsLoaded
  <2>4. NavTypes'
    BY <1>3, <2>2, <2>3 DEF ReportsLoaded, NavInv, NavTypes, selection, deviceSelection
  <2>5. \A i, j \in DOMAIN stays : stays[i] = stays[j] => i = j
    BY KeysTell
  <2>6. \A i \in DOMAIN stays : \E k \in Nat : stays[i] = <<currentId, k>>
    <3>1. \A i \in DOMAIN ids : ids[i] \in Nat
      BY KeysTell
    <3> QED BY <3>1
  <2> HIDE DEF stays
  <2>7. KeysTellStays'
    BY <2>3, <2>5, <2>6 DEF NavInv, KeysTellStays, ReportStays, LocationStays
  <2> QED BY <1>3, <2>4, <2>7, SameSelection DEF ReportsLoaded
<1>4. ASSUME NEW d \in Devices, NEW times \in Keys, HistoryLoaded(d, times)
      PROVE  NavInv'
  <2>1. NavTypes'
    BY <1>4, KeysTell DEF HistoryLoaded, NavInv, NavTypes, selection, deviceSelection
  <2>2. /\ reportTrail' = reportTrail
        /\ \A e \in Devices : histories'[e] = IF e = d THEN times ELSE histories[e]
    BY <1>4 DEF HistoryLoaded, NavInv, NavTypes
  <2>3. KeysTellStays'
    BY <2>2, KeysTell DEF NavInv, KeysTellStays, ReportStays, LocationStays
  <2> QED BY <1>4, <2>1, <2>3, SameSelection DEF HistoryLoaded
<1> QED BY <1>1, <1>2, <1>3, <1>4 DEF Load

LEMMA SelectInv == NavInv /\ Select => NavInv'
<1> SUFFICES ASSUME NavInv, Select
             PROVE  NavInv'
  OBVIOUS
<1>1. ASSUME NEW id \in AirTags, HandleSelect(id)
      PROVE  NavInv'
  <2>1. NavTypes' /\ KeysTellStays'
    BY <1>1, SameHistories DEF HandleSelect, SetCurrentId, NavInv, NavTypes, loaded, deviceSelection
  <2>2. CASE id = currentId
    BY <1>1, <2>1, <2>2, NothingAsked
       DEF HandleSelect, SetCurrentId, Latest, NavInv, PendingIsCurrent
  <2>3. CASE id # currentId
    <3>1. asked' = <<id, NoObject>>
      BY <1>1, <2>3, NavigationAssumption DEF HandleSelect, Latest
    <3>2. PendingIsCurrent' /\ \A k \in Nat : selectedReport' # <<id, k>>
      BY <1>1, <2>3, NextAirtag DEF HandleSelect
    <3>3. AskedReport(id, NoObject)'
      BY <1>1, <3>2 DEF HandleSelect, SetCurrentId, AskedReport
    <3> QED BY <2>1, <3>1, <3>2, <3>3 DEF NavInv, AskedIsSelected
  <2> QED BY <2>2, <2>3
<1>2. ASSUME NEW d \in Devices, HandleSelectDevice(d)
      PROVE  NavInv'
  <2>1. NavTypes' /\ KeysTellStays' /\ PendingIsCurrent'
    BY <1>2, SameHistories
       DEF HandleSelectDevice, SetSelectedDevice, NavInv, NavTypes, PendingIsCurrent,
           loaded, selection
  <2>2. asked' = <<d, NoObject>>
    BY <1>2, NavigationAssumption DEF HandleSelectDevice, Latest, NavInv, NavTypes
  <2>3. AskedLocation(d, NoObject)'
    BY <1>2 DEF HandleSelectDevice, SetSelectedDevice, AskedLocation
  <2> QED BY <2>1, <2>2, <2>3 DEF NavInv, AskedIsSelected
<1>3. CASE \/ \E report : HandleSelectReport(report)
           \/ \E key : HandleSelectDeviceLocation(key)
           \/ StepOlder \/ StepNewer
  <2>1. asked' = NoObject /\ UNCHANGED <<loaded, currentId, pendingReport, selectedDevice>>
    BY <1>3 DEF HandleSelectReport, HandleSelectDeviceLocation, StepOlder, StepNewer,
                selection, deviceSelection
  <2> QED BY <2>1, NothingAsked, SameHistories DEF NavInv, NavTypes, PendingIsCurrent, loaded
<1> QED BY <1>1, <1>2, <1>3 DEF Select

LEMMA FilterInv ==
    ASSUME NavInv, NEW filter \in AirTags \cup Devices \cup {NoObject}, FilterBy(filter, "timeline")
    PROVE  NavInv'
<1>1. NavTypes' /\ KeysTellStays'
  BY SameHistories
     DEF FilterBy, SetCurrentId, SetSelectedDevice, NavInv, NavTypes, loaded, selection,
         deviceSelection
<1>2. PendingIsCurrent'
  BY DEF FilterBy, SetCurrentId, NavInv, PendingIsCurrent, selection
<1>3. CASE filter \in {currentId, NoObject}
  BY <1>1, <1>2, <1>3, NothingAsked DEF FilterBy, Latest
<1>4. CASE filter \in AirTags /\ filter # currentId
  <2>1. asked' = <<filter, NoObject>>
    BY <1>4, NavigationAssumption DEF FilterBy, Latest
  <2>2. AskedReport(filter, NoObject)'
    <3>1. selectedReport' = NoObject /\ currentId' = filter
      BY <1>4 DEF FilterBy, SetCurrentId
    <3>2. \A k \in Nat : <<filter, k>> # NoObject
      BY <1>4, NavigationAssumption
    <3> QED BY <1>4, <3>1, <3>2 DEF FilterBy, AskedReport
  <2> QED BY <1>1, <1>2, <1>4, <2>1, <2>2 DEF NavInv, AskedIsSelected
<1>5. CASE filter \in Devices
  <2>1. asked' = <<filter, NoObject>>
    BY <1>5, NavigationAssumption DEF FilterBy, Latest, NavInv, NavTypes
  <2>2. AskedLocation(filter, NoObject)'
    BY <1>5 DEF FilterBy, SetSelectedDevice, AskedLocation
  <2> QED BY <1>1, <1>2, <1>5, <2>1, <2>2 DEF NavInv, AskedIsSelected
<1> QED BY <1>3, <1>4, <1>5

LEMMA VisitInv ==
    ASSUME NavInv, NEW object \in AirTags \cup Devices, NEW i \in 1 .. MaxStays,
           HandleSelectVisit(object, i)
    PROVE  NavInv'
<1> USE NavigationAssumption
<1>1. NavTypes' /\ KeysTellStays'
  BY SameHistories
     DEF HandleSelectVisit, SetCurrentId, SetSelectedDevice, NavInv, NavTypes, loaded, selection,
         deviceSelection
<1>2. i \in Nat
  OBVIOUS
<1>3. CASE object \in AirTags
  <2>1. SetCurrentId(object, <<object, i>>, <<object, i>>)
    BY <1>3 DEF HandleSelectVisit
  <2>2. PendingIsCurrent'
    BY <1>2, <2>1 DEF SetCurrentId, PendingIsCurrent
  <2>3. <<object, i>> # NoObject
    BY <1>2, <1>3
  <2>4. AskedReport(object, <<object, i>>)'
    BY <1>3, <2>1, <2>3 DEF HandleSelectVisit, SetCurrentId, AskedReport
  <2>5. asked' = <<object, <<object, i>>>>
    BY <1>3 DEF HandleSelectVisit
  <2> QED BY <1>1, <1>3, <2>2, <2>4, <2>5 DEF NavInv, AskedIsSelected
<1>4. CASE object \in Devices
  <2>1. PendingIsCurrent'
    BY <1>4 DEF HandleSelectVisit, NavInv, PendingIsCurrent, selection
  <2>2. AskedLocation(object, i)'
    BY <1>4 DEF HandleSelectVisit, SetSelectedDevice, AskedLocation
  <2>3. asked' = <<object, i>>
    BY <1>4 DEF HandleSelectVisit
  <2> QED BY <1>1, <1>4, <2>1, <2>2, <2>3 DEF NavInv, AskedIsSelected
<1> QED BY <1>3, <1>4

LEMMA MoveInv == NavInv /\ Move => NavInv'
<1> SUFFICES ASSUME NavInv, Move
             PROVE  NavInv'
  OBVIOUS
<1>1. CASE \/ \E tab \in {"objects", "timeline", "settings"} : HandleTabChange(tab)
           \/ HandleMapClick \/ HandleDeleted \/ HandleAddPlace
  <2>1. asked' = NoObject /\ UNCHANGED <<loaded, selection, deviceSelection>>
    BY <1>1 DEF HandleTabChange, HandleMapClick, HandleDeleted, HandleAddPlace
  <2> QED BY <2>1, NothingAsked, SameHistories
          DEF NavInv, NavTypes, PendingIsCurrent, loaded, selection, deviceSelection
<1>2. CASE ViewTimeline
  <2>1. SheetObject \in AirTags \cup Devices \cup {NoObject}
    BY DEF SheetObject, CurrentAirtag, SelectedDevice, NavInv, NavTypes
  <2> QED BY <1>2, <2>1, FilterInv DEF ViewTimeline
<1>3. CASE \E filter \in AirTags \cup Devices \cup {NoObject} : HandleTimelineFilterChange(filter)
  BY <1>3, FilterInv DEF HandleTimelineFilterChange
<1>4. CASE \E object \in AirTags \cup Devices, i \in 1 .. MaxStays : HandleSelectVisit(object, i)
  BY <1>4, VisitInv
<1> QED BY <1>1, <1>2, <1>3, <1>4 DEF Move

LEMMA NavInvHolds == Spec => []NavInv
<1>1. Init => NavInv
  BY DEF Init, NavInv, NavTypes, KeysTellStays, ReportStays, LocationStays, PendingIsCurrent,
         AskedIsSelected, NoTrail
<1>2. NavInv /\ [Next]_vars => NavInv'
  <2> SUFFICES ASSUME NavInv, [Next]_vars
               PROVE  NavInv'
    OBVIOUS
  <2>1. CASE UNCHANGED navVars
    BY <2>1, SameSelection, SameHistories
       DEF navVars, loaded, selection, deviceSelection, NavInv, NavTypes
  <2>2. CASE Handle \/ UNCHANGED vars
    BY <2>1, <2>2 DEF Handle, vars
  <2> QED BY <2>2, LoadInv, SelectInv, MoveInv DEF Next
<1> QED BY <1>1, <1>2, PTL DEF Spec
-----------------------------------------------------------------------------
(* The index of the stay that is selected, if one is.                      *)
LEMMA IndexOfSelected ==
    ASSUME NEW stays, NEW key, NEW latest
    PROVE  LET i == DisplayedIndex(stays, key, latest)
           IN  IF \E j \in DOMAIN stays : stays[j] = key
               THEN i \in DOMAIN stays /\ stays[i] = key
               ELSE i = latest
BY DEF DisplayedIndex, Selected

(* Whatever is loaded, tapped and filtered before, and whichever keys the  *)
(* loads bring: the map of the object that was opened last shows the stay  *)
(* that was asked for while it is loaded, and else the latest              *)
(* (App.tsx:292-299, 315-319, 511-516, 580-608).                           *)
THEOREM TheStayAskedIsShown == Spec => []MapShowsTheStayAsked
<1>1. ASSUME NavInv, asked # NoObject
      PROVE  MapShowsTheStayAsked
  <2> USE NavigationAssumption
  <2>1. ASSUME NEW a \in AirTags, NEW key, asked = <<a, key>>, AskedReport(a, key)
        PROVE  MapShowsTheStayAsked
    <3>1. MapObject \in {a, NoObject} /\ MapObject \notin Devices
      BY <2>1 DEF AskedReport, MapObject, CurrentAirtag
    <3>2. asked[1] = a /\ asked[2] = key
      BY <2>1
    <3>3. reportTrail.of = a => Selected(ReportStays, selectedReport) = Selected(ReportStays, key)
      <4>1. CASE key = NoObject
        <5>1. reportTrail.of = a => \A i \in DOMAIN ReportStays :
                ReportStays[i] # NoObject /\ ReportStays[i] # selectedReport
          BY <1>1, <2>1, <4>1 DEF NavInv, KeysTellStays, AskedReport
        <5> QED BY <4>1, <5>1 DEF Selected
      <4>2. CASE key # NoObject
        BY <2>1, <4>2 DEF AskedReport
      <4> QED BY <4>1, <4>2
    <3>4. ASSUME reportTrail.of = a
          PROVE  DisplayedIndex(ReportStays, selectedReport, Len(ReportStays))
                    = DisplayedIndex(ReportStays, key, Len(ReportStays))
      BY <3>3, <3>4 DEF DisplayedIndex
    <3> QED BY <3>1, <3>2, <3>4 DEF MapShowsTheStayAsked
  <2>2. ASSUME NEW d \in Devices, NEW key, asked = <<d, key>>, AskedLocation(d, key)
        PROVE  MapShowsTheStayAsked
    <3>1. MapObject \in {d, NoObject} /\ MapObject \notin AirTags /\ d \notin AirTags
      BY <2>2 DEF AskedLocation, MapObject, SelectedDevice
    <3>2. asked[1] = d /\ asked[2] = key /\ selectedLocation = key
      BY <2>2 DEF AskedLocation
    <3> QED BY <3>1, <3>2 DEF MapShowsTheStayAsked
  <2> QED BY <1>1, <2>1, <2>2 DEF NavInv, AskedIsSelected
<1>2. NavInv => MapShowsTheStayAsked
  BY <1>1 DEF MapShowsTheStayAsked
<1> QED BY <1>2, NavInvHolds, PTL

(* What the stepper walks is of an object there is.                        *)
LEMMA SteppedObjects ==
    ASSUME NavTypes
    PROVE  /\ SteppedAirtag \in AirTags \cup {NoObject} /\ SteppedDevice \in Devices \cup {NoObject}
           /\ SteppedAirtag # NoObject => SteppedDevice = NoObject
BY DEF NavTypes, SteppedAirtag, SteppedDevice, CurrentAirtag, SelectedDevice

LEMMA Histories ==
    ASSUME NavTypes
    PROVE  /\ Len(ReportStays) \in Nat /\ DOMAIN ReportStays = 1 .. Len(ReportStays)
           /\ \A d \in Devices : /\ Len(LocationStays(d)) \in Nat
                                /\ DOMAIN LocationStays(d) = 1 .. Len(LocationStays(d))
BY DEF NavTypes, ReportStays, LocationStays

LEMMA IndexInRange ==
    ASSUME NEW stays, NEW n \in Nat, DOMAIN stays = 1 .. n, NEW key, NEW latest \in {1, n}, n > 0
    PROVE  DisplayedIndex(stays, key, latest) \in 1 .. n
BY IndexOfSelected

LEMMA ReportIndexInRange ==
    ASSUME NavTypes, Len(ReportStays) > 0
    PROVE  ReportIndex \in 1 .. Len(ReportStays)
BY Histories, IndexInRange DEF ReportIndex

LEMMA LocationIndexInRange ==
    ASSUME NavTypes, SteppedDevice # NoObject, Len(LocationStays(SteppedDevice)) > 0
    PROVE  LocationIndex \in 1 .. Len(LocationStays(SteppedDevice))
BY SteppedObjects, Histories, IndexInRange DEF LocationIndex

(* Without stays there is nothing to step to.                              *)
LEMMA IndexOfNone ==
    ASSUME NavTypes
    PROVE  /\ Len(ReportStays) = 0 => ReportIndex = 0
           /\ SteppedDevice # NoObject /\ Len(LocationStays(SteppedDevice)) = 0 => LocationIndex = 1
<1>1. Len(ReportStays) = 0 => DOMAIN ReportStays = {}
  BY Histories
<1>2. SteppedDevice # NoObject /\ Len(LocationStays(SteppedDevice)) = 0 =>
         DOMAIN LocationStays(SteppedDevice) = {}
  BY SteppedObjects, Histories
<1> QED BY <1>1, <1>2, IndexOfSelected DEF ReportIndex, LocationIndex

LEMMA PositionInRange ==
    ASSUME NavTypes, StepTotal > 0
    PROVE  StepPosition \in 1 .. StepTotal
<1>1. CASE SteppedAirtag # NoObject
  <2>1. StepTotal = Len(ReportStays) /\ StepPosition = Len(ReportStays) - ReportIndex + 1
    BY <1>1, SteppedObjects DEF StepTotal, StepPosition
  <2> DEFINE n == Len(ReportStays)
  <2>2. n \in Nat /\ n > 0
    BY <2>1, Histories
  <2>3. ReportIndex \in 1 .. n
    BY <2>2, ReportIndexInRange
  <2> HIDE DEF n
  <2> QED BY <2>1, <2>2, <2>3 DEF n
<1>2. CASE SteppedAirtag = NoObject /\ SteppedDevice # NoObject
  BY <1>2, LocationIndexInRange DEF StepTotal, StepPosition
<1>3. CASE SteppedAirtag = NoObject /\ SteppedDevice = NoObject
  BY <1>3 DEF StepTotal
<1> QED BY <1>1, <1>2, <1>3

LEMMA PositionIsNumber ==
    ASSUME NavTypes, SteppedAirtag # NoObject \/ SteppedDevice # NoObject
    PROVE  StepPosition \in Int
<1>1. SteppedAirtag # NoObject => ReportIndex \in Int /\ Len(ReportStays) \in Nat
  BY Histories, ReportIndexInRange, IndexOfNone
<1>2. SteppedDevice # NoObject => LocationIndex \in Int
  BY SteppedObjects, Histories, LocationIndexInRange, IndexOfNone
<1> QED BY <1>1, <1>2, SteppedObjects DEF StepPosition

(* Selecting the i-th stay makes it the one that is displayed.             *)
LEMMA SelectedIndex ==
    ASSUME NEW stays, NEW i \in DOMAIN stays, NEW latest,
           \A j \in DOMAIN stays : stays[j] = stays[i] => j = i
    PROVE  DisplayedIndex(stays, stays[i], latest) = i
<1>1. Selected(stays, stays[i]) = {i}
  BY DEF Selected
<1> QED BY <1>1 DEF DisplayedIndex

LEMMA ReportSelected ==
    ASSUME NavTypes, KeysTellStays, NEW i \in 1 .. Len(ReportStays),
           reportTrail' = reportTrail, selectedReport' = ReportStays[i]
    PROVE  ReportIndex' = i
<1>1. i \in DOMAIN ReportStays
  BY Histories
<1>2. ReportStays' = ReportStays
  BY DEF ReportStays
<1>3. ReportIndex' = DisplayedIndex(ReportStays, ReportStays[i], Len(ReportStays))
  BY <1>2 DEF ReportIndex, DisplayedIndex, Selected
<1> QED BY <1>1, <1>3, SelectedIndex DEF KeysTellStays

LEMMA LocationSelected ==
    ASSUME NavTypes, KeysTellStays, SteppedDevice # NoObject,
           NEW i \in 1 .. Len(LocationStays(SteppedDevice)),
           histories' = histories, SteppedDevice' = SteppedDevice,
           selectedLocation' = LocationStays(SteppedDevice)[i]
    PROVE  LocationIndex' = i
<1> DEFINE d == SteppedDevice
<1>1. d \in Devices /\ i \in DOMAIN LocationStays(d)
  BY SteppedObjects, Histories
<1>2. LocationIndex' = DisplayedIndex(LocationStays(d), LocationStays(d)[i], 1)
  BY DEF LocationIndex, LocationStays, DisplayedIndex, Selected
<1> QED BY <1>1, <1>2, SelectedIndex DEF KeysTellStays

LEMMA StepMoves ==
    ASSUME NavTypes, KeysTellStays, NEW by \in {-1, 1},
           \/ /\ SteppedAirtag # NoObject
              /\ ReportIndex + by \in 1 .. Len(ReportStays)
              /\ selectedReport' = ReportStays[ReportIndex + by]
              /\ UNCHANGED <<currentId, pendingReport, deviceSelection>>
           \/ /\ SteppedDevice # NoObject
              /\ LocationIndex - by \in 1 .. Len(LocationStays(SteppedDevice))
              /\ selectedLocation' = LocationStays(SteppedDevice)[LocationIndex - by]
              /\ UNCHANGED <<selection, selectedDevice>>,
           UNCHANGED <<loaded, screen>>
    PROVE  StepPosition' = StepPosition - by
<1>1. SteppedAirtag' = SteppedAirtag /\ SteppedDevice' = SteppedDevice
  BY DEF SteppedAirtag, SteppedDevice, TimelineActiveAirtag, TimelineActiveDevice, CurrentAirtag,
         SelectedDevice, loaded, screen, selection, deviceSelection
<1>2. reportTrail' = reportTrail /\ histories' = histories
  BY DEF loaded
<1>3. CASE SteppedAirtag # NoObject
  <2>1. /\ ReportIndex + by \in 1 .. Len(ReportStays)
        /\ selectedReport' = ReportStays[ReportIndex + by]
    BY <1>3, SteppedObjects
  <2>2. ReportIndex' = ReportIndex + by
    BY <1>2, <2>1, ReportSelected
  <2>3. Len(ReportStays) > 0 /\ Len(ReportStays) \in Nat
    BY <2>1, Histories
  <2>4. ReportStays' = ReportStays
    BY <1>2 DEF ReportStays
  <2> QED BY <1>1, <1>3, <2>2, <2>3, <2>4, ReportIndexInRange DEF StepPosition
<1>4. CASE SteppedAirtag = NoObject
  <2>1. /\ SteppedDevice # NoObject
        /\ LocationIndex - by \in 1 .. Len(LocationStays(SteppedDevice))
        /\ selectedLocation' = LocationStays(SteppedDevice)[LocationIndex - by]
    BY <1>4
  <2>2. LocationIndex' = LocationIndex - by
    BY <1>1, <1>2, <2>1, LocationSelected
  <2> QED BY <1>1, <1>4, <2>2 DEF StepPosition
<1> QED BY <1>3, <1>4

(* Older and newer move one stay in histories of any length and in either  *)
(* order, and the stepper counts them from 1 to the total                  *)
(* (App.tsx:448-487).                                                      *)
THEOREM TheStepperCounts == Spec => StepperWalksTheStays
<1>1. ASSUME NavTypes, KeysTellStays, StepOlder
      PROVE  StepPosition' = StepPosition + 1
  <2>1. SteppedAirtag # NoObject /\ ReportIndex > 1 =>
           ReportIndex \in 1 .. Len(ReportStays) /\ ReportIndex + (-1) \in 1 .. Len(ReportStays)
                 /\ ReportIndex + (-1) = ReportIndex - 1
    BY <1>1, Histories, ReportIndexInRange, IndexOfNone
  <2>2. SteppedDevice # NoObject /\ LocationIndex < Len(LocationStays(SteppedDevice)) =>
           LocationIndex - (-1) \in 1 .. Len(LocationStays(SteppedDevice))
                 /\ LocationIndex - (-1) = LocationIndex + 1
    BY <1>1, SteppedObjects, Histories, LocationIndexInRange, IndexOfNone
  <2>3. StepPosition' = StepPosition - (-1)
    BY <1>1, <2>1, <2>2, StepMoves DEF StepOlder
  <2>4. StepPosition \in Int
    BY <1>1, PositionIsNumber DEF StepOlder
  <2> QED BY <2>3, <2>4
<1>2. ASSUME NavTypes, KeysTellStays, StepNewer
      PROVE  StepPosition' = StepPosition - 1
  <2>1. SteppedAirtag # NoObject /\ ReportIndex < Len(ReportStays) =>
           ReportIndex \in 1 .. Len(ReportStays) /\ ReportIndex + (1) \in 1 .. Len(ReportStays)
                 /\ ReportIndex + (1) = ReportIndex + 1
    BY <1>2, Histories, ReportIndexInRange, IndexOfNone
  <2>2. SteppedDevice # NoObject /\ LocationIndex > 1 =>
           LocationIndex - (1) \in 1 .. Len(LocationStays(SteppedDevice))
                 /\ LocationIndex - (1) = LocationIndex - 1
    BY <1>2, SteppedObjects, Histories, LocationIndexInRange, IndexOfNone
  <2>3. StepPosition' = StepPosition - (1)
    BY <1>2, <2>1, <2>2, StepMoves DEF StepNewer
  <2>4. StepPosition \in Int
    BY <1>2, PositionIsNumber DEF StepNewer
  <2> QED BY <2>3, <2>4
<1>3. NavInv => [/\ StepTotal > 0 => StepPosition \in 1 .. StepTotal
                 /\ StepOlder => StepPosition' = StepPosition + 1
                 /\ StepNewer => StepPosition' = StepPosition - 1]_navVars
  BY <1>1, <1>2, PositionInRange DEF NavInv
<1> QED BY <1>3, NavInvHolds, PTL DEF StepperWalksTheStays
-----------------------------------------------------------------------------
(* The navigation leaves the sheet to its handle and to SetSheetState.     *)
LEMMA NavigationIsSheetStep == [Next]_vars => [SheetNext]_sheetVars
<1> SUFFICES ASSUME [Next]_vars
             PROVE  [SheetNext]_sheetVars
  OBVIOUS
<1>1. CASE Load
  BY <1>1 DEF Load, AirtagsLoaded, DevicesLoaded, ReportsLoaded, HistoryLoaded
<1>2. CASE Select
  <2>1. ASSUME NEW report, HandleSelectReport(report) \/ HandleSelectDeviceLocation(report)
        PROVE  SheetNext
    BY <2>1 DEF HandleSelectReport, HandleSelectDeviceLocation, SheetNext
  <2> QED BY <1>2, <2>1 DEF Select, HandleSelect, HandleSelectDevice, StepOlder, StepNewer
<1>3. CASE Move
  <2>1. ASSUME NEW object, NEW i, HandleSelectVisit(object, i) \/ HandleAddPlace
        PROVE  SheetNext
    BY <2>1 DEF HandleSelectVisit, HandleAddPlace, SheetNext
  <2> QED BY <1>3, <2>1 DEF Move, HandleTabChange, HandleMapClick, HandleDeleted, ViewTimeline, FilterBy,
                            HandleTimelineFilterChange
<1>4. CASE Handle
  BY <1>4 DEF Handle, SheetNext
<1>5. CASE UNCHANGED vars
  BY <1>5 DEF vars
<1> QED BY <1>1, <1>2, <1>3, <1>4, <1>5 DEF Next

(* A drag starts from the level of the sheet; a click that is due after it *)
(* is known to be handled, and the sheet one level away at most.           *)
SheetInv ==
    /\ sheetState \in SheetStates /\ dragStartState \in SheetStates
    /\ gesture \in {"none", "pressed", "released"}
    /\ gesture = "pressed" => sheetState = dragStartState
    /\ gesture = "released" =>
         dragHandledClick /\ Level(sheetState) - Level(dragStartState) \in -1 .. 1

LEMMA OneLevel ==
    ASSUME NEW start \in SheetStates, NEW drag \in Drags
    PROVE  /\ ResolveNextSheetState(start, drag) \in SheetStates
           /\ Level(ResolveNextSheetState(start, drag)) - Level(start) \in -1 .. 1
BY DEF SheetStates, Drags, ResolveNextSheetState, Level

LEMMA SameLevel == ASSUME NEW state \in SheetStates PROVE Level(state) - Level(state) \in -1 .. 1
BY DEF SheetStates, Level

LEMMA SheetInvStep == SheetInv /\ [SheetNext]_sheetVars => SheetInv'
<1> SUFFICES ASSUME SheetInv, [SheetNext]_sheetVars
             PROVE  SheetInv'
  OBVIOUS
<1>1. ASSUME NEW drag \in Drags, HandlePointerUp(drag)
      PROVE  SheetInv'
  BY <1>1, OneLevel DEF HandlePointerUp, SheetInv
<1>2. CASE HandleHandleClick
  <2>1. sheetState' \in SheetStates
    BY <1>2 DEF HandleHandleClick, SheetInv, SheetStates
  <2> QED BY <1>2, <2>1 DEF HandleHandleClick, SheetInv
<1>3. ASSUME NEW state \in {"minimized", "expanded"}, SetSheetState(state)
      PROVE  SheetInv'
  BY <1>3 DEF SetSheetState, SheetInv, SheetStates
<1>4. CASE HandlePointerDown \/ HandlePointerCancel \/ NoClick \/ UNCHANGED sheetVars
  BY <1>4 DEF HandlePointerDown, HandlePointerCancel, NoClick, sheetVars, SheetInv
<1> QED BY <1>1, <1>2, <1>3, <1>4 DEF SheetNext

LEMMA SheetSpecHolds == Spec => SheetSpec
<1>1. Init => SheetInit
  BY DEF Init
<1> QED BY <1>1, NavigationIsSheetStep, PTL DEF Spec, SheetSpec

(* A drag of the handle with the click that ends it moves the sheet by one *)
(* level at most, whatever the navigation does in between                  *)
(* (App.tsx:52-55, 655-664).                                               *)
THEOREM OneLevelPerGesture == Spec => GestureMovesOneLevel
<1>1. SheetInit => SheetInv
  BY DEF SheetInit, SheetInv, SheetStates
<1>2. ASSUME SheetInv, [SheetNext]_sheetVars, gesture # "none", gesture' # "pressed"
      PROVE  Level(sheetState') - Level(dragStartState') \in -1 .. 1
  <2>1. ASSUME NEW drag \in Drags, HandlePointerUp(drag)
        PROVE  Level(sheetState') - Level(dragStartState') \in -1 .. 1
    BY <1>2, <2>1, OneLevel DEF HandlePointerUp, SheetInv
  <2>2. CASE HandlePointerCancel
    BY <1>2, <2>2, SameLevel DEF HandlePointerCancel, SheetInv
  <2>3. CASE NoClick \/ HandleHandleClick \/ UNCHANGED sheetVars
    <3>1. gesture = "released" /\ sheetState' = sheetState /\ dragStartState' = dragStartState
      <4>1. gesture = "released"
        BY <1>2, <2>3 DEF NoClick, HandleHandleClick, sheetVars, SheetInv
      <4>2. dragHandledClick
        BY <1>2, <4>1 DEF SheetInv
      <4> QED BY <2>3, <4>1, <4>2 DEF NoClick, HandleHandleClick, sheetVars
    <3> QED BY <1>2, <3>1 DEF SheetInv
  <2>4. CASE HandlePointerDown \/ \E state \in {"minimized", "expanded"} : SetSheetState(state)
    BY <1>2, <2>4 DEF HandlePointerDown, SetSheetState
  <2> QED BY <1>2, <2>1, <2>2, <2>3, <2>4 DEF SheetNext
<1>3. SheetInv /\ [SheetNext]_sheetVars =>
        [gesture # "none" => LET moved == Level(sheetState') - Level(dragStartState')
                             IN gesture' # "pressed" => moved \in -1 .. 1]_sheetVars
  BY <1>2
<1> QED BY <1>1, <1>3, SheetInvStep, SheetSpecHolds, PTL DEF SheetSpec, GestureMovesOneLevel
=============================================================================

----------------------------- MODULE Navigation -----------------------------
(***************************************************************************)
(* Which object and which stay App.tsx shows: the tabs, the detail screen  *)
(* of the Objects tab, the filter of the Zeitachse tab and the selections  *)
(* they share.  The map, the pane in the sheet, the title and the stepper  *)
(* each work out from the same state what they are about.                  *)
(*                                                                         *)
(* What the server answers is loaded by actions of their own; Dashboard    *)
(* models how.  A stay is told by its key: anchor_id, <<a, i>> for a       *)
(* report of the AirTag a, and anchor_recorded_at, a time, for a device.   *)
(* Every load may bring other keys, because new and late points and        *)
(* another radius anchor the stays anew: ids in any order, the stays       *)
(* oldest first; times from the latest down.                               *)
(***************************************************************************)
EXTENDS Naturals, Sequences, FiniteSets, Functions, Sheet

CONSTANTS
    AirTags,
    Devices,
    MaxStays,       \* bound: the stays of an object, and its reports
    NoObject

ASSUME NavigationAssumption ==
    /\ MaxStays \in Nat
    /\ AirTags \cap Devices = {}
    /\ NoObject \notin AirTags \cup Devices \cup (AirTags \X Nat) \cup Nat

VARIABLES
    airtags,            \* airtags
    devices,            \* ownerDevices
    reportTrail,        \* reportStays: [of |-> the AirTag, stays |-> their keys]
    histories,          \* ownerLocationStays: the keys of each device
    activeTab,
    detail,             \* detail: "airtag", "device" or NoObject
    timelineFilter,     \* timelineFilter: an AirTag, a device or NoObject
    currentId,
    selectedDevice,     \* selectedDeviceId
    selectedReport,     \* selectedReportId
    pendingReport,      \* pendingReportIdRef.current
    selectedLocation,   \* selectedDeviceLocationKey
    asked               \* history: the object and the stay last asked for; NoObject: the latest

loaded == <<airtags, devices, reportTrail, histories>>
screen == <<activeTab, detail, timelineFilter>>
selection == <<currentId, selectedReport, pendingReport>>
deviceSelection == <<selectedDevice, selectedLocation>>
navVars == <<loaded, screen, selection, deviceSelection, asked>>
vars == <<navVars, sheetVars>>
-----------------------------------------------------------------------------
(* What is derived from the state.                                         *)

CurrentAirtag == IF currentId \in airtags THEN currentId ELSE NoObject
SelectedDevice == IF selectedDevice \in devices THEN selectedDevice ELSE NoObject

TimelineActiveAirtag ==
    IF activeTab = "timeline" /\ timelineFilter \in AirTags THEN CurrentAirtag ELSE NoObject
TimelineActiveDevice ==
    IF activeTab = "timeline" /\ timelineFilter \in Devices THEN SelectedDevice ELSE NoObject

ReportStays == reportTrail.stays
LocationStays(d) == histories[d]

(* The index of the selected stay, or else of the latest one.              *)
Selected(stays, key) == {i \in DOMAIN stays : stays[i] = key}
DisplayedIndex(stays, key, latest) ==
    IF Selected(stays, key) = {} THEN latest ELSE CHOOSE i \in Selected(stays, key) : TRUE

(* The object the stepper walks, and the one the title names.              *)
SteppedAirtag ==
    IF detail = "airtag" \/ TimelineActiveAirtag # NoObject THEN CurrentAirtag ELSE NoObject
SteppedDevice ==
    IF SteppedAirtag = NoObject /\ (detail = "device" \/ TimelineActiveDevice # NoObject)
    THEN SelectedDevice ELSE NoObject

DetailName ==
    CASE detail = "airtag" -> CurrentAirtag
      [] detail = "device" /\ SelectedDevice # NoObject -> SelectedDevice
      [] OTHER -> IF TimelineActiveAirtag # NoObject THEN TimelineActiveAirtag
                                                 ELSE TimelineActiveDevice

ReportIndex == DisplayedIndex(ReportStays, selectedReport, Len(ReportStays))
LocationIndex == DisplayedIndex(LocationStays(SteppedDevice), selectedLocation, 1)

(* A mutant: both kinds of histories count from their first entry.         *)
PositionFromTheFirst ==
    IF SteppedAirtag # NoObject THEN ReportIndex ELSE LocationIndex

(* stepPosition.current: steps back from the latest stay, which is 1.      *)
StepPosition ==
    IF SteppedAirtag # NoObject THEN Len(ReportStays) - ReportIndex + 1 ELSE LocationIndex

StepTotal ==
    CASE SteppedAirtag # NoObject -> Len(ReportStays)
      [] SteppedDevice # NoObject -> Len(LocationStays(SteppedDevice))
      [] OTHER -> 0

(* The object whose map is shown; NoObject is the overview map.            *)
MapObject ==
    CASE activeTab = "objects" /\ detail = "airtag" -> CurrentAirtag
      [] activeTab = "objects" /\ detail = "device" -> SelectedDevice
      [] activeTab = "timeline" /\ timelineFilter \in AirTags -> CurrentAirtag
      [] activeTab = "timeline" /\ timelineFilter \in Devices -> SelectedDevice
      [] OTHER -> NoObject

(* The object whose detail screen the sheet shows; NoObject: another pane. *)
SheetObject ==
    CASE activeTab = "objects" /\ detail = "airtag" -> CurrentAirtag
      [] activeTab = "objects" /\ detail = "device" -> SelectedDevice
      [] OTHER -> NoObject

NoTrail == [of |-> NoObject, stays |-> <<>>]

Init ==
    /\ airtags = {} /\ devices = {}
    /\ reportTrail = NoTrail
    /\ histories = [d \in Devices |-> <<>>]
    /\ activeTab = "objects" /\ detail = NoObject /\ timelineFilter = NoObject
    /\ currentId = NoObject /\ selectedReport = NoObject /\ pendingReport = NoObject
    /\ selectedDevice = NoObject /\ selectedLocation = NoObject
    /\ asked = NoObject
    /\ SheetInit
-----------------------------------------------------------------------------
(* setCurrentId(id) in a handler that leaves pending in the ref and may    *)
(* have called setSelectedReportId(report).  If the id changes, the effect *)
(* of the change follows and has the last word on the selected report.     *)
SetCurrentId(id, pending, report) ==
    /\ currentId' = id
    /\ selectedReport' = IF id = currentId THEN report ELSE pending
    /\ pendingReport' = IF id = currentId THEN pending ELSE NoObject

(* Opening an object asks for its latest stay; an AirTag that is current   *)
(* already keeps its selection.                                            *)
Latest(object) == IF object \in {currentId, NoObject} THEN NoObject ELSE <<object, NoObject>>

(* setSelectedDeviceId and setSelectedDeviceLocationKey(key).              *)
SetSelectedDevice(d, key) == selectedDevice' = d /\ selectedLocation' = key

(* The answers.  The AirTag stays current while it is listed.              *)
AirtagsLoaded(list) ==
    /\ airtags' = list
    /\ \E id \in IF currentId \in list THEN {currentId}
                 ELSE IF list = {} THEN {NoObject} ELSE list :
         SetCurrentId(id, pendingReport, selectedReport)
    /\ reportTrail' = IF currentId' = NoObject THEN NoTrail ELSE reportTrail
    /\ asked' = IF currentId' = currentId THEN asked ELSE NoObject
    /\ UNCHANGED <<devices, histories, screen, deviceSelection, sheetVars>>

DevicesLoaded(list) ==
    /\ devices' = list
    /\ UNCHANGED <<airtags, reportTrail, histories, screen, selection, deviceSelection,
                   asked, sheetVars>>

(* refreshReports leaves the selection as it is.                           *)
ReportsLoaded(ids) ==
    /\ currentId # NoObject
    /\ reportTrail' = [of |-> currentId, stays |-> [i \in DOMAIN ids |-> <<currentId, ids[i]>>]]
    /\ UNCHANGED <<airtags, devices, histories, screen, selection, deviceSelection,
                   asked, sheetVars>>

HistoryLoaded(d, times) ==
    /\ d \in devices
    /\ histories' = [histories EXCEPT ![d] = times]
    /\ UNCHANGED <<airtags, devices, reportTrail, screen, selection, deviceSelection,
                   asked, sheetVars>>
-----------------------------------------------------------------------------
(* The user.  A tap on the active tab goes back to its root; that of the   *)
(* settings is inside SettingsPanel.                                       *)
HandleTabChange(tab) ==
    /\ activeTab' = tab
    /\ detail' = IF tab = activeTab /\ tab = "objects" THEN NoObject ELSE detail
    /\ timelineFilter' = IF tab = activeTab /\ tab = "timeline" THEN NoObject ELSE timelineFilter
    /\ asked' = NoObject
    /\ UNCHANGED <<loaded, selection, deviceSelection, sheetVars>>

(* From the list or the overview map; handleCreate ends the same way,      *)
(* wherever the user is by then.                                           *)
HandleSelect(id) ==
    /\ id \in airtags
    /\ SetCurrentId(id, pendingReport, selectedReport)
    /\ detail' = "airtag" /\ activeTab' = "objects"
    /\ asked' = Latest(id)
    /\ UNCHANGED <<loaded, timelineFilter, deviceSelection, sheetVars>>

(* A mutant: the selected time of the last device is kept.                 *)
SelectDeviceOnly(d) ==
    /\ d \in devices
    /\ selectedDevice' = d
    /\ detail' = "device" /\ activeTab' = "objects"
    /\ asked' = Latest(d)
    /\ UNCHANGED <<loaded, timelineFilter, selection, selectedLocation, sheetVars>>

(* From the list, the overview map or the map of an AirTag.                *)
HandleSelectDevice(d) ==
    /\ d \in devices
    /\ MapObject = NoObject \/ (activeTab = "objects" /\ MapObject \in AirTags)
    /\ SetSelectedDevice(d, NoObject)
    /\ detail' = "device" /\ activeTab' = "objects"
    /\ asked' = Latest(d)
    /\ UNCHANGED <<loaded, timelineFilter, selection, sheetVars>>

(* onMapClick of the maps of one object, and onBack of its detail screen.  *)
HandleMapClick ==
    /\ MapObject # NoObject
    /\ detail' = IF activeTab = "objects" THEN NoObject ELSE detail
    /\ timelineFilter' = IF activeTab = "timeline" THEN NoObject ELSE timelineFilter
    /\ asked' = NoObject
    /\ UNCHANGED <<loaded, activeTab, selection, deviceSelection, sheetVars>>

(* onDeleted: the answer to a deletion closes whatever detail is open.     *)
HandleDeleted ==
    /\ detail' = NoObject
    /\ asked' = NoObject
    /\ UNCHANGED <<loaded, activeTab, timelineFilter, selection, deviceSelection, sheetVars>>

(* From the map or the history of the object on screen.                    *)
HandleSelectReport(report) ==
    /\ MapObject \in AirTags
    /\ selectedReport' = report
    /\ SetSheetState("minimized")
    /\ asked' = NoObject
    /\ UNCHANGED <<loaded, screen, currentId, pendingReport, deviceSelection>>

HandleSelectDeviceLocation(key) ==
    /\ MapObject \in Devices
    /\ selectedLocation' = key
    /\ SetSheetState("minimized")
    /\ asked' = NoObject
    /\ UNCHANGED <<loaded, screen, selection, selectedDevice>>

(* stepOlder and stepNewer, where they are not null.                       *)
StepOlder ==
    /\ \/ /\ SteppedAirtag # NoObject
          /\ ReportIndex > 1
          /\ selectedReport' = ReportStays[ReportIndex - 1]
          /\ UNCHANGED <<currentId, pendingReport, deviceSelection>>
       \/ /\ SteppedDevice # NoObject
          /\ LocationIndex < Len(LocationStays(SteppedDevice))
          /\ selectedLocation' = LocationStays(SteppedDevice)[LocationIndex + 1]
          /\ UNCHANGED <<selection, selectedDevice>>
    /\ asked' = NoObject
    /\ UNCHANGED <<loaded, screen, sheetVars>>

StepNewer ==
    /\ \/ /\ SteppedAirtag # NoObject
          /\ ReportIndex < Len(ReportStays)
          /\ selectedReport' = ReportStays[ReportIndex + 1]
          /\ UNCHANGED <<currentId, pendingReport, deviceSelection>>
       \/ /\ SteppedDevice # NoObject
          /\ LocationIndex > 1
          /\ selectedLocation' = LocationStays(SteppedDevice)[LocationIndex - 1]
          /\ UNCHANGED <<selection, selectedDevice>>
    /\ asked' = NoObject
    /\ UNCHANGED <<loaded, screen, sheetVars>>

FilterBy(filter, tab) ==
    /\ timelineFilter' = filter
    /\ activeTab' = tab
    /\ IF filter \in AirTags THEN SetCurrentId(filter, NoObject, selectedReport)
                             ELSE UNCHANGED selection
    /\ IF filter \in Devices THEN SetSelectedDevice(filter, NoObject)
                             ELSE UNCHANGED deviceSelection
    /\ asked' = Latest(filter)
    /\ UNCHANGED <<loaded, detail, sheetVars>>

(* A chip of the feed; onViewTimeline of a detail screen.                  *)
HandleTimelineFilterChange(filter) ==
    /\ activeTab = "timeline"
    /\ filter \in airtags \cup devices \cup {NoObject}
    /\ FilterBy(filter, "timeline")

ViewTimeline ==
    /\ SheetObject # NoObject
    /\ FilterBy(SheetObject, "timeline")

(* A row of the feed, whose stays need not be those of the object's own    *)
(* history: the feed clusters a range of days.                             *)
HandleSelectVisit(object, i) ==
    /\ activeTab = "timeline"
    /\ timelineFilter \in {NoObject, object}
    /\ timelineFilter' = object
    /\ IF object \in AirTags
       THEN SetCurrentId(object, <<object, i>>, <<object, i>>) /\ UNCHANGED deviceSelection
       ELSE SetSelectedDevice(object, i) /\ UNCHANGED selection
    /\ SetSheetState("minimized")
    /\ asked' = <<object, IF object \in AirTags THEN <<object, i>> ELSE i>>
    /\ UNCHANGED <<loaded, activeTab, detail>>

(* "Ort hier hinzufügen" in the popup of a map: the editor in the settings *)
(* opens with that position and asks for the whole sheet.                  *)
HandleAddPlace ==
    /\ activeTab' = "settings"
    /\ SetSheetState("expanded")
    /\ asked' = NoObject
    /\ UNCHANGED <<loaded, detail, timelineFilter, selection, deviceSelection>>

(* The handle of the sheet.  Nothing else asks for a hand on it.           *)
Handle ==
    /\ \/ HandlePointerDown \/ HandlePointerCancel \/ HandleHandleClick \/ NoClick
       \/ \E drag \in Drags : HandlePointerUp(drag)
    /\ UNCHANGED navVars

(* Any keys without repetition; those of a device, the latest first.       *)
Keys == UNION {{k \in [1 .. n -> 1 .. MaxStays] : IsInjective(k)} : n \in 0 .. MaxStays}
LatestFirst(times) == \A i, j \in DOMAIN times : i < j => times[i] > times[j]

Load ==
    \/ \E list \in SUBSET AirTags : AirtagsLoaded(list)
    \/ \E list \in SUBSET Devices : DevicesLoaded(list)
    \/ \E ids \in Keys : ReportsLoaded(ids)
    \/ \E d \in Devices, times \in Keys : LatestFirst(times) /\ HistoryLoaded(d, times)

Select ==
    \/ \E id \in AirTags : HandleSelect(id)
    \/ \E d \in Devices : HandleSelectDevice(d)
    \/ \E i \in DOMAIN ReportStays : HandleSelectReport(ReportStays[i])
    \/ \E d \in Devices : \E i \in DOMAIN LocationStays(d) :
         d = SelectedDevice /\ HandleSelectDeviceLocation(LocationStays(d)[i])
    \/ StepOlder \/ StepNewer

Move ==
    \/ \E tab \in {"objects", "timeline", "settings"} : HandleTabChange(tab)
    \/ HandleMapClick \/ HandleDeleted \/ HandleAddPlace \/ ViewTimeline
    \/ \E filter \in AirTags \cup Devices \cup {NoObject} : HandleTimelineFilterChange(filter)
    \/ \E object \in AirTags \cup Devices, i \in 1 .. MaxStays : HandleSelectVisit(object, i)

Next == Load \/ Select \/ Move \/ Handle

Spec == Init /\ [][Next]_vars
-----------------------------------------------------------------------------
(* What the comments of App.tsx:421-425 and 448-450 say: Objects' detail   *)
(* screen and the filter of the Zeitachse drive the same title and         *)
(* stepper, which reflect whichever of the two is the thing on screen.     *)
TitleNamesTheObjectOnScreen ==
    MapObject # NoObject =>
        /\ DetailName = MapObject
        /\ (IF SteppedAirtag # NoObject THEN SteppedAirtag ELSE SteppedDevice) = MapObject

(* The position the stepper shows counts one up with each older stay and   *)
(* one down with each newer one, from 1, the latest, to the total, though  *)
(* the two kinds of histories arrive in opposite orders (App.tsx:448-487). *)
StepperWalksTheStays ==
    [][/\ StepTotal > 0 => StepPosition \in 1 .. StepTotal
       /\ StepOlder => StepPosition' = StepPosition + 1
       /\ StepNewer => StepPosition' = StepPosition - 1]_navVars

(* The map of the object last opened shows the stay that was asked for,    *)
(* the visit tapped in the feed or the latest, for as long as the loaded   *)
(* history has that stay, and the latest while it has not: never another   *)
(* stay that was selected before, of this object or of one with the same   *)
(* key, however loads anchor the stays anew in between                     *)
(* (App.tsx:292-299, 315-319, 511-516, 580-608).                           *)
MapShowsTheStayAsked ==
    asked # NoObject =>
        LET object == asked[1]
            Shows(stays, key, latest) ==
                DisplayedIndex(stays, key, latest) = DisplayedIndex(stays, asked[2], latest)
        IN /\ MapObject \in {object, NoObject}
           /\ MapObject \in AirTags /\ reportTrail.of = MapObject =>
                Shows(ReportStays, selectedReport, Len(ReportStays))
           /\ MapObject \in Devices =>
                Shows(LocationStays(MapObject), selectedLocation, 1)
=============================================================================

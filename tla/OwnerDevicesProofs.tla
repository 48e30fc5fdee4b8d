------------------------- MODULE OwnerDevicesProofs -------------------------
(***************************************************************************)
(* The registry's invariants for every set of devices, pollers and         *)
(* requests.                                                               *)
(***************************************************************************)
EXTENDS OwnerDevices, TLAPS

(* The inductive invariant: the three facts about the tables support each  *)
(* other (a device that joins the registry is not primary because whatever *)
(* is primary is already in it), and the syncs' local copies only need     *)
(* their types.                                                            *)
Inv ==
    /\ TypeOK
    /\ AtMostOnePrimary
    /\ PrimaryIsTracked
    /\ LocationsHaveADevice

LEMMA IdleSyncType == IdleSync \in SyncType
BY DEF IdleSync, SyncSteps, SyncType

(* One sync takes a step: its new locals have their types, and it holds    *)
(* work only if it is at the clean-up.                                     *)
LEMMA OneSyncSteps ==
    ASSUME SyncsType, NEW s \in Syncers, NEW x \in SyncType,
           sync' = [sync EXCEPT ![s] = x],
           x.step = "cleanup" \/ (x.toDisable = {} /\ x.toForget = {})
    PROVE  SyncsType'
BY DEF SyncsType, At

(* What both writers of the enabled flag preserve: disabling takes the     *)
(* primary mark along.                                                     *)
LEMMA WriteEnabledInv ==
    ASSUME NEW d \in AppleDevices, NEW value \in BOOLEAN, WriteEnabled(d, value),
           known' = known, enabled \subseteq AppleDevices, primary \subseteq AppleDevices,
           AtMostOnePrimary, PrimaryIsTracked, known \subseteq AppleDevices
    PROVE  /\ enabled' \subseteq AppleDevices
           /\ primary' \subseteq AppleDevices
           /\ AtMostOnePrimary'
           /\ PrimaryIsTracked'
<1>1. CASE value
  BY <1>1 DEF WriteEnabled, AtMostOnePrimary, PrimaryIsTracked
<1>2. CASE ~value
  BY <1>2 DEF WriteEnabled, AtMostOnePrimary, PrimaryIsTracked
<1> QED BY <1>1, <1>2

LEMMA DeleteRowInv ==
    ASSUME NEW d \in AppleDevices, DeleteRow(d), Inv
    PROVE  /\ known' \subseteq AppleDevices
           /\ enabled' \subseteq AppleDevices
           /\ primary' \subseteq AppleDevices
           /\ located' \subseteq AppleDevices
           /\ AtMostOnePrimary'
           /\ PrimaryIsTracked'
           /\ LocationsHaveADevice'
BY DEF DeleteRow, Inv, TypeOK, AtMostOnePrimary, PrimaryIsTracked, LocationsHaveADevice

(* The steps that only touch the credentials and a sync's local variables. *)
LEMMA LocalStepInv ==
    ASSUME Inv, UNCHANGED <<rows, account>>,
           creds' \in {NoLogin} \cup [family : BOOLEAN],
           SyncsType'
    PROVE  Inv'
BY DEF Inv, TypeOK, rows, AtMostOnePrimary, PrimaryIsTracked, LocationsHaveADevice

(* A step of a sync from a step with no work left to another.              *)
LEMMA GotoSyncsType ==
    ASSUME SyncsType, NEW s \in Syncers, NEW next \in SyncSteps,
           ~At(s, "cleanup"), sync' = [sync EXCEPT ![s].step = next]
    PROVE  SyncsType'
BY DEF SyncsType, SyncType, At

LEMMA IdleSyncsType ==
    ASSUME SyncsType, NEW s \in Syncers, NEW next \in SyncSteps,
           NEW fresh \in SUBSET AppleDevices,
           sync' = [sync EXCEPT ![s] = [IdleSync EXCEPT !.step = next, !.locations = fresh]]
    PROVE  SyncsType'
BY DEF SyncsType, SyncType, At, IdleSync

LEMMA InitInv == Init => Inv
BY IdleSyncType DEF Init, Inv, TypeOK, SyncsType, IdleSync, AtMostOnePrimary,
                    PrimaryIsTracked, LocationsHaveADevice

(* Every step of a sync keeps the registry consistent, however stale the   *)
(* list it goes by (fetch_owner_device_locations).                         *)
LEMMA SyncStepInv ==
    ASSUME Inv, NEW s \in Syncers, SyncStep(s)
    PROVE  Inv'
<1> SyncsType /\ creds \in {NoLogin} \cup [family : BOOLEAN]
  BY DEF Inv, TypeOK
<1>1. CASE Connect(s)
  <2> DEFINE x == [sync[s] EXCEPT !.step = "status", !.snapshot = Listed(creds.family)]
  <2>1. Listed(creds.family) \subseteq AppleDevices
    BY DEF Listed, Inv, TypeOK
  <2>2. x \in SyncType /\ x.toDisable = {} /\ x.toForget = {}
    BY <1>1, <2>1 DEF Connect, SyncsType, SyncType, SyncSteps, At
  <2>3. sync' = [sync EXCEPT ![s] = x]
    BY <1>1 DEF Connect, SyncsType
  <2>4. SyncsType'
    BY <2>2, <2>3, OneSyncSteps
  <2> QED BY <1>1, <2>4, LocalStepInv DEF Connect
<1>2. CASE ConnectFails(s)
  <2>1. SyncsType'
    BY <1>2, IdleSyncType, OneSyncSteps DEF ConnectFails, IdleSync
  <2> QED BY <1>2, <2>1, LocalStepInv DEF ConnectFails
<1>3. CASE MarkSynced(s)
  <2>1. SyncsType'
    BY <1>3, GotoSyncsType DEF MarkSynced, At, SyncSteps
  <2> QED BY <1>3, <2>1, LocalStepInv DEF MarkSynced
<1>4. CASE Upsert(s)
  <2>1. SyncsType'
    BY <1>4, GotoSyncsType DEF Upsert, At, SyncSteps
  <2> QED BY <1>4, <2>1 DEF Upsert, Inv, TypeOK, SyncsType, SyncType, AtMostOnePrimary,
                            PrimaryIsTracked, LocationsHaveADevice
<1>5. CASE ListDevices(s)
  <2>1. PICK fresh \in SUBSET (enabled \cap sync[s].snapshot) :
          sync' = [sync EXCEPT ![s] =
                    [IdleSync EXCEPT !.step = "cleanup",
                                     !.toDisable = enabled \ sync[s].snapshot,
                                     !.toForget = (known \ enabled) \ sync[s].snapshot,
                                     !.locations = fresh]]
    BY <1>5 DEF ListDevices
  <2>2. known \subseteq AppleDevices /\ enabled \subseteq AppleDevices
    BY DEF Inv, TypeOK
  <2>3. SyncsType'
    BY <2>1, <2>2 DEF SyncsType, SyncType, SyncSteps, IdleSync, At
  <2> QED BY <1>5, <2>3, LocalStepInv DEF ListDevices
<1>6. ASSUME NEW d \in AppleDevices, Cleanup(s, d) PROVE Inv'
  <2>1. SyncsType'
    BY <1>6 DEF Cleanup, SyncsType, SyncType, At
  <2>2. CASE WriteEnabled(d, FALSE) /\ UNCHANGED <<known, located>>
    BY <1>6, <2>1, <2>2, WriteEnabledInv
       DEF Cleanup, Inv, TypeOK, LocationsHaveADevice
  <2>3. CASE DeleteRow(d)
    BY <1>6, <2>1, <2>3, DeleteRowInv DEF Cleanup, Inv, TypeOK
  <2> QED BY <1>6, <2>2, <2>3 DEF Cleanup
<1>7. CASE Return(s)
  <2>1. SyncsType'
    <3>1. sync[s].locations \in SUBSET AppleDevices
      BY DEF SyncsType, SyncType
    <3>2. CASE s \in Pollers
      BY <1>7, <3>1, <3>2, IdleSyncsType DEF Return, SyncSteps
    <3>3. CASE s \notin Pollers
      BY <1>7, <3>3, IdleSyncType, OneSyncSteps DEF Return, IdleSync
    <3> QED BY <3>2, <3>3
  <2> QED BY <1>7, <2>1, LocalStepInv DEF Return
<1> QED BY <1>1, <1>2, <1>3, <1>4, <1>5, <1>6, <1>7 DEF SyncStep

(* A sync begins with nothing but its first step.                          *)
LEMMA BeginSyncType ==
    ASSUME SyncsType, NEW s \in Syncers, BeginSync(s)
    PROVE  SyncsType'
<1> DEFINE x == [IdleSync EXCEPT !.step = "connect"]
<1>1. x \in SyncType /\ x.toDisable = {} /\ x.toForget = {}
  BY DEF IdleSync, SyncType, SyncSteps
<1> QED BY <1>1, OneSyncSteps DEF BeginSync

LEMMA PollStepInv ==
    ASSUME Inv, NEW p \in Pollers, PollStep(p)
    PROVE  Inv'
<1> p \in Syncers /\ SyncsType /\ creds \in {NoLogin} \cup [family : BOOLEAN]
  BY DEF Syncers, Inv, TypeOK
<1>1. CASE StartPoll(p)
  <2>1. SyncsType'
    BY <1>1, BeginSyncType DEF StartPoll
  <2> QED BY <1>1, <2>1, LocalStepInv DEF StartPoll
<1>2. ASSUME NEW d \in AppleDevices, RecordLocation(p, d) PROVE Inv'
  <2>1. SyncsType'
    BY <1>2 DEF RecordLocation, SyncsType, SyncType, SyncSteps, IdleSync, At
  <2> QED BY <1>2, <2>1 DEF RecordLocation, Inv, TypeOK, AtMostOnePrimary,
                            PrimaryIsTracked, LocationsHaveADevice
<1>3. CASE EndPoll(p)
  <2>1. SyncsType'
    BY <1>3, IdleSyncType, OneSyncSteps DEF EndPoll, IdleSync
  <2> QED BY <1>3, <2>1, LocalStepInv DEF EndPoll
<1> QED BY <1>1, <1>2, <1>3 DEF PollStep

LEMMA RequestInv ==
    ASSUME Inv, Request
    PROVE  Inv'
<1> USE DEF Inv
<1>1. ASSUME NEW d \in AppleDevices, NEW value \in BOOLEAN, SetEnabled(d, value) PROVE Inv'
  BY <1>1, WriteEnabledInv DEF SetEnabled, TypeOK, SyncsType, At, LocationsHaveADevice
<1>2. ASSUME NEW d \in AppleDevices, SetPrimary(d) PROVE Inv'
  BY <1>2 DEF SetPrimary, TypeOK, SyncsType, At, AtMostOnePrimary, PrimaryIsTracked, LocationsHaveADevice
<1>3. CASE ClearPrimary
  BY <1>3 DEF ClearPrimary, TypeOK, SyncsType, At, AtMostOnePrimary, PrimaryIsTracked,
              LocationsHaveADevice
<1>4. ASSUME NEW family \in BOOLEAN, Login(family) PROVE Inv'
  BY <1>4, LocalStepInv DEF Login, TypeOK, SyncsType, At
<1>5. CASE Disconnect
  BY <1>5, LocalStepInv DEF Disconnect, TypeOK, SyncsType, At
<1>6. ASSUME NEW w \in WebThreads, NEW family \in BOOLEAN, SetIncludeFamily(w, family)
      PROVE Inv'
  <2>1. w \in Syncers
    BY DEF Syncers
  <2> QED BY <1>6, <2>1, BeginSyncType, LocalStepInv DEF SetIncludeFamily, TypeOK
<1> QED BY <1>1, <1>2, <1>3, <1>4, <1>5, <1>6 DEF Request

LEMMA NextInv == Inv /\ [Next]_vars => Inv'
<1> SUFFICES ASSUME Inv, [Next]_vars PROVE Inv'
  OBVIOUS
<1>1. ASSUME NEW s \in Syncers, SyncStep(s) PROVE Inv'
  BY <1>1, SyncStepInv
<1>2. ASSUME NEW p \in Pollers, PollStep(p) PROVE Inv'
  BY <1>2, PollStepInv
<1>3. CASE Request
  BY <1>3, RequestInv
<1>4. ASSUME NEW d \in AppleDevices, AccountChanges(d) PROVE Inv'
  BY <1>4 DEF AccountChanges, Inv, TypeOK, SyncsType, At, rows, AtMostOnePrimary, PrimaryIsTracked,
              LocationsHaveADevice
<1>5. CASE UNCHANGED vars
  BY <1>5 DEF vars, Inv, TypeOK, SyncsType, At, AtMostOnePrimary, PrimaryIsTracked, LocationsHaveADevice
<1> QED BY <1>1, <1>2, <1>3, <1>4, <1>5 DEF Next

(* The registry is consistent in every reachable state.                    *)
THEOREM RegistryInvariant == Spec => []Inv
BY InitInv, NextInv, PTL DEF Spec

THEOREM TypeCorrect == Spec => []TypeOK
BY RegistryInvariant, PTL DEF Inv

(* There is at most one primary device, and it is enabled and registered,  *)
(* in every reachable state.                                               *)
THEOREM OnePrimary == Spec => []PrimaryIsOneTrackedDevice
BY RegistryInvariant, PTL DEF Inv, PrimaryIsOneTrackedDevice

(* No location row outlives its device.                                    *)
THEOREM LocationsOwned == Spec => []LocationsHaveADevice
BY RegistryInvariant, PTL DEF Inv

(* A device enters the registry disabled: from the invariant, since        *)
(* whatever is enabled or primary is registered already.                   *)
LEMMA DiscoveryStep ==
    ASSUME Inv, [Next]_vars
    PROVE  \A d \in known' \ known : d \notin enabled' /\ d \notin primary'
<1> USE DEF Inv, PrimaryIsTracked
<1>1. ASSUME NEW s \in Syncers, Upsert(s)
      PROVE  \A d \in known' \ known : d \notin enabled' /\ d \notin primary'
  BY <1>1 DEF Upsert
<1>2. CASE known' \subseteq known
  BY <1>2
<1>3. known' \subseteq known \/ \E s \in Syncers : Upsert(s)
  <2>1. ASSUME NEW s \in Syncers, NEW d \in AppleDevices, Cleanup(s, d)
        PROVE  known' \subseteq known
    BY <2>1 DEF Cleanup, DeleteRow
  <2> QED BY <2>1 DEF Next, SyncStep, PollStep, Request, vars, rows, Connect,
       ConnectFails, MarkSynced, ListDevices, Return, StartPoll, RecordLocation,
       EndPoll, SetEnabled, SetPrimary, ClearPrimary, Login, Disconnect,
       SetIncludeFamily, AccountChanges
<1> QED BY <1>1, <1>2, <1>3

(* Only a login creates credentials.                                       *)
LEMMA OnlyLoginConnects ==
    ASSUME Next, creds = NoLogin, creds' # NoLogin
    PROVE  \E family \in BOOLEAN : Login(family)
BY DEF Next, SyncStep, PollStep, Request, rows, Connect, ConnectFails, MarkSynced,
       Upsert, ListDevices, Cleanup, Return, StartPoll, RecordLocation, EndPoll,
       SetEnabled, SetPrimary, ClearPrimary, Disconnect, SetIncludeFamily,
       AccountChanges

(* No sync brings credentials back or tracks a device.                     *)
THEOREM OnlyTheUserOptsIn == Spec => SyncsOptNobodyIn
<1>1. [Next]_vars =>
        [(creds = NoLogin /\ creds' # NoLogin) => \E family \in BOOLEAN : Login(family)]_vars
  BY OnlyLoginConnects
<1>2. Inv /\ [Next]_vars =>
        [\A d \in known' \ known : d \notin enabled' /\ d \notin primary']_vars
  BY DiscoveryStep
<1> QED BY <1>1, <1>2, RegistryInvariant, PTL
        DEF Spec, SyncsOptNobodyIn, DisconnectSticks, DiscoveryIsNotTracking
=============================================================================

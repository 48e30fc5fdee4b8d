---------------------------- MODULE OwnerDevices ----------------------------
(***************************************************************************)
(* The registry of the owner's Apple devices: owner_tracking.py and the    *)
(* owner_devices, owner_device_locations and owner_apple_credentials       *)
(* tables of db.py.                                                        *)
(*                                                                         *)
(* A sync (fetch_owner_device_locations) asks Apple for the account's      *)
(* devices and brings the tables in line with the answer, in several       *)
(* commits.  The poll thread runs syncs, and so does the request that      *)
(* changes the Family Sharing filter, under no common lock; other requests *)
(* change the same rows in between.                                        *)
(***************************************************************************)
EXTENDS Naturals, FiniteSets

CONSTANTS
    AppleDevices,    \* those an account may list
    FamilyDevices,   \* those of Family Sharing members
    Pollers,         \* threads that sync in a poll, and record what they get
    WebThreads,      \* requests that sync after changing the family filter
    NoLogin

Syncers == Pollers \cup WebThreads

ASSUME DevicesAssumption == FamilyDevices \subseteq AppleDevices
ASSUME SyncersAssumption == Pollers \cap WebThreads = {}
ASSUME LoginAssumption == NoLogin \notin [family : BOOLEAN]

VARIABLES
    known,      \* the rows of owner_devices
    enabled,    \* those with enabled set
    primary,    \* those with is_primary set
    located,    \* the devices that have rows in owner_device_locations
    creds,      \* the row of owner_apple_credentials, or NoLogin
    account,    \* the devices Apple lists, before the family filter
    sync        \* per syncer: the local variables of its sync

vars == <<known, enabled, primary, located, creds, account, sync>>

rows == <<known, enabled, primary, located>>
-----------------------------------------------------------------------------
SyncSteps == {"idle", "connect", "status", "upsert", "list", "cleanup", "record"}

IdleSync == [step |-> "idle", snapshot |-> {}, toDisable |-> {}, toForget |-> {},
             locations |-> {}]

At(s, step) == sync[s].step = step

(* A mutant: pyicloud's default, with_family.                              *)
ListedWithFamily(family) == account

(* What a listing contains under a family filter.                          *)
Listed(family) == IF family THEN account ELSE account \ FamilyDevices
-----------------------------------------------------------------------------
Init ==
    /\ known = {} /\ enabled = {} /\ primary = {} /\ located = {}
    /\ creds = NoLogin
    /\ account \in SUBSET AppleDevices
    /\ sync = [s \in Syncers |-> IdleSync]

BeginSync(s) == sync' = [sync EXCEPT ![s] = [IdleSync EXCEPT !.step = "connect"]]

(* A poll starts a sync, which returns at once if there are no credentials.*)
StartPoll(p) ==
    /\ At(p, "idle")
    /\ creds # NoLogin
    /\ BeginSync(p)
    /\ UNCHANGED <<rows, creds, account>>

(* set_include_family: the flag is committed, then the thread syncs.       *)
SetIncludeFamily(w, family) ==
    /\ At(w, "idle")
    /\ creds # NoLogin
    /\ creds' = [creds EXCEPT !.family = family]
    /\ BeginSync(w)
    /\ UNCHANGED <<rows, account>>

(* _connect and _snapshot_devices, with the credentials as they are now.   *)
Connect(s) ==
    /\ At(s, "connect")
    /\ creds # NoLogin
    /\ sync' = [sync EXCEPT ![s].step = "status", ![s].snapshot = Listed(creds.family)]
    /\ UNCHANGED <<rows, creds, account>>

(* Apple refuses or does not answer, or the credentials are gone by now.   *)
(* Both callers catch the exception.                                       *)
ConnectFails(s) ==
    /\ At(s, "connect")
    /\ sync' = [sync EXCEPT ![s] = IdleSync]
    /\ UNCHANGED <<rows, creds, account>>

(* A mutant: the status is upserted.                                       *)
MarkSyncedUpsert(s) ==
    /\ At(s, "status")
    /\ creds' = IF creds = NoLogin THEN [family |-> FALSE] ELSE creds
    /\ sync' = [sync EXCEPT ![s].step = "upsert"]
    /\ UNCHANGED <<rows, account>>

(* set_owner_apple_sync_status(conn, now, None): an UPDATE, which does not *)
(* make a row where there is none.  The columns it sets are left out.      *)
MarkSynced(s) ==
    /\ At(s, "status")
    /\ sync' = [sync EXCEPT ![s].step = "upsert"]
    /\ UNCHANGED <<rows, creds, account>>

(* upsert_owner_devices: new rows are disabled.                            *)
Upsert(s) ==
    /\ At(s, "upsert")
    /\ known' = known \cup sync[s].snapshot
    /\ sync' = [sync EXCEPT ![s].step = "list"]
    /\ UNCHANGED <<enabled, primary, located, creds, account>>

(* list_owner_devices: what the rest of the sync goes by.  Of the devices  *)
(* enabled now, those Apple gave a fresh location for will be returned.    *)
ListDevices(s) ==
    /\ At(s, "list")
    /\ \E fresh \in SUBSET (enabled \cap sync[s].snapshot) :
         sync' = [sync EXCEPT ![s] =
                   [IdleSync EXCEPT !.step = "cleanup",
                                    !.toDisable = enabled \ sync[s].snapshot,
                                    !.toForget = (known \ enabled) \ sync[s].snapshot,
                                    !.locations = fresh]]
    /\ UNCHANGED <<rows, creds, account>>

(* A mutant: the primary mark stays on a disabled device.                  *)
WriteEnabledOnly(d, value) ==
    /\ enabled' = IF value THEN enabled \cup ({d} \cap known) ELSE enabled \ {d}
    /\ UNCHANGED primary

(* set_owner_device_enabled: disabling the primary clears it, too.         *)
WriteEnabled(d, value) ==
    IF value
    THEN enabled' = enabled \cup ({d} \cap known) /\ UNCHANGED primary
    ELSE enabled' = enabled \ {d} /\ primary' = primary \ {d}

(* delete_owner_device, which cascades to the device's locations.          *)
DeleteRow(d) ==
    /\ known' = known \ {d}
    /\ enabled' = enabled \ {d}
    /\ primary' = primary \ {d}
    /\ located' = located \ {d}

(* One device that Apple no longer lists is disabled, or forgotten if the  *)
(* list the sync has read says it is disabled already.                     *)
Cleanup(s, d) ==
    /\ At(s, "cleanup")
    /\ \/ d \in sync[s].toDisable /\ WriteEnabled(d, FALSE) /\ UNCHANGED <<known, located>>
       \/ d \in sync[s].toForget /\ DeleteRow(d)
    /\ sync' = [sync EXCEPT ![s].toDisable = @ \ {d}, ![s].toForget = @ \ {d}]
    /\ UNCHANGED <<creds, account>>

(* The sync returns.  A poll goes on to record the locations; the family   *)
(* request ignores them.                                                   *)
Return(s) ==
    /\ At(s, "cleanup")
    /\ sync[s].toDisable \cup sync[s].toForget = {}
    /\ sync' = [sync EXCEPT ![s] =
                 IF s \in Pollers
                 THEN [IdleSync EXCEPT !.step = "record", !.locations = sync[s].locations]
                 ELSE IdleSync]
    /\ UNCHANGED <<rows, creds, account>>

(* record_owner_device_location.  The row refers to the device: if it is   *)
(* gone the exception leaves _update_owner_devices and ends the poll.      *)
RecordLocation(p, d) ==
    /\ At(p, "record")
    /\ d \in sync[p].locations
    /\ IF d \in known
       THEN /\ located' = located \cup {d}
            /\ sync' = [sync EXCEPT ![p].locations = @ \ {d}]
       ELSE sync' = [sync EXCEPT ![p] = IdleSync] /\ UNCHANGED located
    /\ UNCHANGED <<known, enabled, primary, creds, account>>

(* The owner device phase of the poll is over.                             *)
EndPoll(p) ==
    /\ At(p, "record")
    /\ sync[p].locations = {}
    /\ sync' = [sync EXCEPT ![p] = IdleSync]
    /\ UNCHANGED <<rows, creds, account>>
-----------------------------------------------------------------------------
SetEnabled(d, value) ==
    /\ d \in known
    /\ WriteEnabled(d, value)
    /\ UNCHANGED <<known, located, creds, account, sync>>

(* set_owner_device_primary: the old primary is cleared first, also when   *)
(* there is no row for d (any more).  Its two statements are one           *)
(* transaction; of two that overlap the later one violates the unique      *)
(* index of the primary and is undone.                                     *)
SetPrimary(d) ==
    /\ primary' = {d} \cap known
    /\ enabled' = enabled \cup ({d} \cap known)
    /\ UNCHANGED <<known, located, creds, account, sync>>

ClearPrimary ==
    /\ primary' = {}
    /\ UNCHANGED <<known, enabled, located, creds, account, sync>>

(* A login that has succeeded: set_owner_apple_credentials.                *)
Login(family) ==
    /\ creds' = [family |-> family]
    /\ UNCHANGED <<rows, account, sync>>

Disconnect ==
    /\ creds # NoLogin
    /\ creds' = NoLogin
    /\ UNCHANGED <<rows, account, sync>>

(* A device joins or leaves the Apple account.                             *)
AccountChanges(d) ==
    /\ account' = IF d \in account THEN account \ {d} ELSE account \cup {d}
    /\ UNCHANGED <<rows, creds, sync>>

SyncStep(s) ==
    \/ Connect(s) \/ ConnectFails(s) \/ MarkSynced(s) \/ Upsert(s) \/ ListDevices(s)
    \/ \E d \in AppleDevices : Cleanup(s, d)
    \/ Return(s)

PollStep(p) ==
    \/ StartPoll(p)
    \/ \E d \in AppleDevices : RecordLocation(p, d)
    \/ EndPoll(p)

Request ==
    \/ \E d \in AppleDevices, value \in BOOLEAN : SetEnabled(d, value)
    \/ \E d \in AppleDevices : SetPrimary(d)
    \/ ClearPrimary
    \/ \E family \in BOOLEAN : Login(family)
    \/ Disconnect
    \/ \E w \in WebThreads, family \in BOOLEAN : SetIncludeFamily(w, family)

Next ==
    \/ \E s \in Syncers : SyncStep(s)
    \/ \E p \in Pollers : PollStep(p)
    \/ Request
    \/ \E d \in AppleDevices : AccountChanges(d)

Spec == Init /\ [][Next]_vars

(* Polls go on for ever, no step of a sync blocks, and Apple answers the   *)
(* polls again and again.                                                  *)
Fairness ==
    /\ \A p \in Pollers : WF_vars(SyncStep(p) \/ PollStep(p)) /\ SF_vars(Connect(p))
    /\ \A w \in WebThreads : WF_vars(SyncStep(w))

LiveSpec == Spec /\ Fairness
-----------------------------------------------------------------------------
SyncType ==
    [step : SyncSteps, snapshot : SUBSET AppleDevices, toDisable : SUBSET AppleDevices,
     toForget : SUBSET AppleDevices, locations : SUBSET AppleDevices]

SyncsType ==
    /\ sync \in [Syncers -> SyncType]
    /\ \A s \in Syncers : At(s, "cleanup") \/ sync[s].toDisable \cup sync[s].toForget = {}

(* The tables hold devices, and a sync carries no work past the step that  *)
(* does it.                                                                *)
TypeOK ==
    /\ known \subseteq AppleDevices
    /\ enabled \subseteq AppleDevices
    /\ primary \subseteq AppleDevices
    /\ located \subseteq AppleDevices
    /\ account \subseteq AppleDevices
    /\ creds \in {NoLogin} \cup [family : BOOLEAN]
    /\ SyncsType

(* There is never more than one primary device, whatever syncs and         *)
(* requests interleave (db.py:923-940 and the partial unique index).       *)
AtMostOnePrimary == \A c, d \in primary : c = d

(* The primary device is always a registered device that is enabled, so it *)
(* keeps getting fresh locations: no cleanup, disabling or deletion leaves *)
(* a primary that away-correlation would silently wait for                 *)
(* (db.py:908-940).                                                        *)
PrimaryIsTracked == primary \subseteq enabled /\ enabled \subseteq known

(* The two together: requests that choose a primary and syncs that disable *)
(* or forget devices never leave two, or one that is not tracked           *)
(* (db.py:908-940).                                                        *)
PrimaryIsOneTrackedDevice == AtMostOnePrimary /\ PrimaryIsTracked

(* Location rows only exist for registered devices, even when a device is  *)
(* forgotten between the listing and the recording of its location         *)
(* (the foreign key of owner_device_locations and its cascade).            *)
LocationsHaveADevice == located \subseteq known

(* A disconnect is final: a sync that is under way when the credentials    *)
(* are deleted does not bring them back (db.py:598-608).                   *)
DisconnectSticks ==
    [][(creds = NoLogin /\ creds' # NoLogin) => \E family \in BOOLEAN : Login(family)]_vars

(* Discovering a device never opts it into tracking: a device that enters  *)
(* the registry, for the first time or again after it was forgotten, does  *)
(* so disabled and not primary (db.py:841-866).                            *)
DiscoveryIsNotTracking ==
    [][\A d \in known' \ known : d \notin enabled' /\ d \notin primary']_vars

(* Only the user opts in: no sync, however old the list it goes by, brings *)
(* credentials back or tracks a device (db.py:598-608, 841-866).           *)
SyncsOptNobodyIn == DisconnectSticks /\ DiscoveryIsNotTracking

(* Once the family filter stays off, no family device stays tracked, also  *)
(* when a poll that began under the old filter writes its listing after    *)
(* the request's own sync (owner_tracking.py:184-206).                     *)
FamilyDevicesLeave ==
    <>[](creds # NoLogin /\ ~creds.family) => []<>(FamilyDevices \cap enabled = {})

(* A device with recorded locations is never forgotten, its history is     *)
(* kept (owner_tracking.py:416-425 and db.py:894-902).                     *)
HistoryIsKept == [][located \subseteq located']_vars
=============================================================================

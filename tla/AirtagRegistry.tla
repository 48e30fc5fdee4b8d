----------------------------- MODULE AirtagRegistry -----------------------------
(***************************************************************************)
(* AirTags as rows (web/app.py, db.py): created under an id made from the  *)
(* name, given a key, polled, deleted with everything that refers to them. *)
(* An id is free again after a deletion, so each AirTag has the number of  *)
(* the request that created it, to tell it from a later one of its id.     *)
(*                                                                         *)
(* A create lists the ids and then inserts; a request for a key looks the  *)
(* id up and then inserts; a poll lists the ids, and for each fetches and  *)
(* then inserts.  Other requests may come in between.                      *)
(***************************************************************************)
EXTENDS FiniteSets, Naturals

CONSTANTS
    BaseIds,    \* what _slugify makes of the names of new AirTags
    Numbered,   \* Numbered[name, n]: the id with the suffix n
    MaxCreated, \* bound: requests to create
    Nothing

ASSUME RegistryAssumption ==
    /\ MaxCreated \in Nat
    /\ DOMAIN Numbered = BaseIds \X (2..MaxCreated + 1)
    /\ \A name \in BaseIds, m, n \in 2..MaxCreated + 1 :
        Numbered[name, m] # name /\ (Numbered[name, m] = Numbered[name, n] => m = n)

VARIABLES
    creates,    \* requests to create so far
    creating,   \* those about to insert: [id, number]
    airtags,    \* table airtags: [id, number]
    keys,       \* table airtag_keys: [id, number], the AirTag whose key it is
    trails,     \* table location_reports: [id, number], the AirTag it was fetched of
    importing,  \* a key about to be inserted: [id, number], or Nothing
    queue,      \* ids the poll has still to handle
    batch,      \* what it has fetched and not inserted: [id, number], or Nothing
    promised,   \* the AirTags whose creation was answered and that are not deleted
    reused      \* an id went to a new AirTag while a key or a batch was under way for it

registryVars == <<creates, creating, airtags, keys, trails, importing, queue, batch,
                  promised, reused>>

IdsOf(rows) == {r.id : r \in rows}
-----------------------------------------------------------------------------
RegistryInit ==
    /\ creates = 0 /\ creating = {}
    /\ airtags = {} /\ keys = {} /\ trails = {}
    /\ importing = Nothing /\ queue = {} /\ batch = Nothing
    /\ promised = {} /\ reused = FALSE

(* The name itself, or with the first suffix, from 2, that is free.        *)
Slug(name, taken) ==
    IF name \notin taken THEN name
    ELSE LET free == {n \in 2..MaxCreated + 1 : Numbered[name, n] \notin taken}
         IN  Numbered[name, CHOOSE n \in free : \A m \in free : n <= m]

ChooseId(name) ==
    /\ creates < MaxCreated
    /\ creates' = creates + 1
    /\ creating' = creating \cup
                   {[id |-> Slug(name, IdsOf(airtags)), number |-> creates + 1]}
    /\ UNCHANGED <<airtags, keys, trails, importing, queue, batch, promised, reused>>

(* A mutant: ON CONFLICT (id) DO UPDATE, as in the other tables.           *)
CreateOrUpdate(c) ==
    /\ c \in creating
    /\ creating' = creating \ {c}
    /\ airtags' = {a \in airtags : a.id # c.id} \cup {c}
    /\ promised' = promised \cup {c.number}
    /\ reused' = (reused \/ \E r \in {importing, batch} \ {Nothing} : r.id = c.id)
    /\ UNCHANGED <<creates, keys, trails, importing, queue, batch>>

(* The insert; the primary key refuses an id that has been taken since.    *)
Create(c) ==
    /\ c \in creating
    /\ creating' = creating \ {c}
    /\ IF c.id \in IdsOf(airtags)
       THEN UNCHANGED <<airtags, promised, reused>>
       ELSE /\ airtags' = airtags \cup {c}
            /\ promised' = promised \cup {c.number}
            /\ reused' = (reused \/ \E r \in {importing, batch} \ {Nothing} : r.id = c.id)
    /\ UNCHANGED <<creates, keys, trails, importing, queue, batch>>

(* A mutant: the rows that refer to it stay.                               *)
DeleteRowOnly(a) ==
    /\ a \in airtags
    /\ airtags' = airtags \ {a}
    /\ promised' = promised \ {a.number}
    /\ UNCHANGED <<creates, creating, keys, trails, importing, queue, batch, reused>>

Delete(a) ==
    /\ a \in airtags
    /\ airtags' = airtags \ {a}
    /\ keys' = {k \in keys : k.id # a.id}
    /\ trails' = {r \in trails : r.id # a.id}
    /\ promised' = promised \ {a.number}
    /\ UNCHANGED <<creates, creating, importing, queue, batch, reused>>
-----------------------------------------------------------------------------
FindForKey(a) ==
    /\ importing = Nothing /\ a \in airtags
    /\ importing' = a
    /\ UNCHANGED <<creates, creating, airtags, keys, trails, queue, batch, promised, reused>>

(* The foreign key refuses a key for an id that is gone.                   *)
SetKey ==
    /\ importing # Nothing
    /\ keys' = IF importing.id \in IdsOf(airtags)
               THEN {k \in keys : k.id # importing.id} \cup {importing}
               ELSE keys
    /\ importing' = Nothing
    /\ UNCHANGED <<creates, creating, airtags, trails, queue, batch, promised, reused>>

RemoveKey(a) ==
    /\ a \in airtags
    /\ keys' = {k \in keys : k.id # a.id}
    /\ UNCHANGED <<creates, creating, airtags, trails, importing, queue, batch, promised,
                   reused>>
-----------------------------------------------------------------------------
BeginPoll ==
    /\ queue = {} /\ batch = Nothing
    /\ queue' = IdsOf(airtags)
    /\ UNCHANGED <<creates, creating, airtags, keys, trails, importing, batch, promised,
                   reused>>

(* _load_key, which raises without a key, and the fetch.                   *)
Fetch(id) ==
    /\ id \in queue /\ batch = Nothing
    /\ queue' = queue \ {id}
    /\ batch' \in {k \in keys : k.id = id} \cup {Nothing}
    /\ UNCHANGED <<creates, creating, airtags, keys, trails, importing, promised, reused>>

InsertReports ==
    /\ batch # Nothing
    /\ trails' = IF batch.id \in IdsOf(airtags) THEN trails \cup {batch} ELSE trails
    /\ batch' = Nothing
    /\ UNCHANGED <<creates, creating, airtags, keys, importing, queue, promised, reused>>

RegistryNext ==
    \/ \E name \in BaseIds : ChooseId(name)
    \/ \E c \in creating : Create(c)
    \/ \E a \in airtags : Delete(a) \/ FindForKey(a) \/ RemoveKey(a)
    \/ SetKey \/ BeginPoll \/ InsertReports
    \/ \E id \in queue : Fetch(id)

RegistrySpec == RegistryInit /\ [][RegistryNext]_registryVars
-----------------------------------------------------------------------------
(* An AirTag that has been created is there until it is deleted, and an id *)
(* has one AirTag, although two creates may choose the same id             *)
(* (web/app.py:691-704, db.py:285-297).                                    *)
CreatedAirtagsStay ==
    /\ promised = {a.number : a \in airtags}
    /\ \A a, b \in airtags : a.id = b.id => a = b

(* Whatever is deleted while a poll or an import is under way, each key    *)
(* and each report belongs to an AirTag that is there, and was meant for   *)
(* it unless its id was given away under the request (db.py:370-374).      *)
RowsBelongToTheirAirtag ==
    \A r \in keys \cup trails :
        \E a \in airtags : a.id = r.id /\ (a = r \/ reused)
=============================================================================

------------------------------ MODULE PlaceEditor ------------------------------
(***************************************************************************)
(* The page Orte of the settings (SettingsPlaces.tsx, EditableCircle.tsx,  *)
(* useCurrentPosition.ts): the list of places, and the editor of one, in   *)
(* which the centre comes from the place, from a popup of the map (a       *)
(* seed), from a search for an address, from a drag of the circle or, if   *)
(* nobody has chosen one, from a fix of the browser that arrives late.     *)
(*                                                                         *)
(* center is what is saved, circle what the map draws: the circle takes    *)
(* over center only when the map is mounted, at first and each time        *)
(* mapGeneration changes.  The name and the radius are left out: both go   *)
(* where the centre goes.                                                  *)
(***************************************************************************)
EXTENDS FiniteSets, Naturals

CONSTANTS
    Positions,
    Addresses,      \* positions a search finds; a query is what it finds
    Here,           \* where the browser is
    Fallback,       \* FALLBACK_CENTER
    Ids,            \* identities of places
    MaxSaves,       \* bound: saves under way at once
    NoPosition

ASSUME PlacesAssumption ==
    /\ Addresses \cup {Here, Fallback} \subseteq Positions
    /\ NoPosition \notin Positions \cup Ids \cup {"new"}
    /\ "new" \notin Ids
    /\ MaxSaves \in Nat

VARIABLES
    savedPlaces,    \* the server's places: position, or None
    places,         \* places, as App.tsx has loaded them
    placeSeed,      \* placeSeed of App.tsx
    listShown,      \* SettingsPlaces is mounted
    editing,        \* editing: None, "new" or a place
    center,         \* center
    circle,         \* what EditableCircle draws
    hasUserEdited,  \* hasUserEditedRef.current
    here,           \* useCurrentPosition
    locating,       \* the browser still looks for a fix
    query,          \* query of AddressSearch; None: too short
    debounce,       \* its timer runs
    searches,       \* the searches it waits for
    results,        \* results
    saving,         \* saving
    saves,          \* [op, id, at, from]: what of it is still there
    chosen          \* the centre someone has chosen in this editor, or None

data == <<savedPlaces, places>>
map == <<center, circle, hasUserEdited, chosen>>
fix == <<here, locating>>
search == <<query, debounce, searches, results>>
placeVars == <<data, placeSeed, listShown, editing, map, fix, search, saving, saves>>

NoSearch == query' = NoPosition /\ debounce' = FALSE /\ searches' = {} /\ results' = NoPosition

(* The saves under way, now that what started them is gone.                *)
Moved(from, to) ==
    {IF s.from \in from THEN [s EXCEPT !.from = to] ELSE s : s \in saves}
-----------------------------------------------------------------------------
PlacesInit ==
    /\ \E p \in Positions : savedPlaces \in [Ids -> {NoPosition, p}]
    /\ places = savedPlaces
    /\ placeSeed = NoPosition /\ listShown = FALSE /\ editing = NoPosition
    /\ center = Fallback /\ circle = Fallback /\ hasUserEdited = FALSE
    /\ here = NoPosition /\ locating = FALSE
    /\ query = NoPosition /\ debounce = FALSE /\ searches = {} /\ results = NoPosition
    /\ saving = FALSE /\ saves = {} /\ chosen = NoPosition

(* PlaceEditor is mounted for a new place or for one of the list.          *)
MountEditor(which, seed) ==
    LET known == IF which # "new" THEN places[which] ELSE seed
        at == IF known # NoPosition THEN known ELSE Fallback
    IN /\ editing' = which
       /\ center' = at /\ circle' = at
       /\ hasUserEdited' = (which = "new" /\ seed # NoPosition)
       /\ chosen' = known
       /\ here' = NoPosition /\ locating' = TRUE
       /\ saving' = FALSE
       /\ NoSearch

(* setEditing(null) with what it unmounts.                                 *)
UnmountEditor ==
    /\ editing' = NoPosition
    /\ locating' = FALSE
    /\ NoSearch
    /\ UNCHANGED <<map, here, saving>>

(* SettingsPlaces is mounted: a seed that is still there opens the editor. *)
ShowList ==
    /\ ~listShown
    /\ listShown' = TRUE
    /\ IF placeSeed # NoPosition THEN MountEditor("new", placeSeed)
       ELSE UNCHANGED <<editing, map, fix, search, saving>>
    /\ UNCHANGED <<data, placeSeed, saves>>

LeaveList ==
    /\ listShown
    /\ listShown' = FALSE
    /\ UnmountEditor
    /\ saves' = Moved({"editor", "list"}, "elsewhere")
    /\ UNCHANGED <<data, placeSeed>>

Edit(which) ==
    /\ listShown /\ editing = NoPosition
    /\ which = "new" \/ (which \in Ids /\ places[which] # NoPosition)
    /\ MountEditor(which, IF which = "new" THEN placeSeed ELSE NoPosition)
    /\ UNCHANGED <<data, placeSeed, listShown, saves>>

(* onCancel.                                                               *)
Cancel ==
    /\ editing # NoPosition
    /\ UnmountEditor
    /\ placeSeed' = NoPosition
    /\ saves' = Moved({"editor"}, "list")
    /\ UNCHANGED <<data, listShown>>

(* handleAddPlace.  An editor that is open stays, with the centre it has,  *)
(* and becomes that of a new place: the effect of the fix then runs again, *)
(* for a place opened from the list, which counts as untouched until it is *)
(* edited.                                                                 *)
HandleAddPlace(p) ==
    /\ placeSeed' = p
    /\ listShown' = TRUE
    /\ IF editing = NoPosition THEN MountEditor("new", p)
       ELSE /\ editing' = "new"
            /\ IF editing # "new" /\ here # NoPosition /\ ~hasUserEdited
               THEN center' = here /\ circle' = here
               ELSE UNCHANGED <<center, circle>>
            /\ chosen' = IF hasUserEdited THEN chosen ELSE NoPosition
            /\ UNCHANGED <<hasUserEdited, fix, search, saving>>
    /\ UNCHANGED <<data, saves>>
-----------------------------------------------------------------------------
(* The browser's answer, and the effect it triggers.                       *)
FixArrives ==
    /\ locating
    /\ locating' = FALSE
    /\ \/ here' = NoPosition /\ UNCHANGED <<center, circle>>
       \/ /\ here' = Here
          /\ IF editing = "new" /\ ~hasUserEdited
             THEN center' = Here /\ circle' = Here
             ELSE UNCHANGED <<center, circle>>
    /\ UNCHANGED <<data, placeSeed, listShown, editing, hasUserEdited, chosen, search,
                   saving, saves>>

(* The circle is dragged: onChange.                                        *)
Drag(p) ==
    /\ editing # NoPosition
    /\ circle' = p /\ center' = p
    /\ hasUserEdited' = TRUE
    /\ chosen' = p
    /\ UNCHANGED <<data, placeSeed, listShown, editing, fix, search, saving, saves>>

(* The input of AddressSearch, and the effect of the new query.            *)
TypeQuery(q) ==
    /\ editing # NoPosition /\ q # query
    /\ query' = q
    /\ debounce' = (q # NoPosition)
    /\ results' = IF q = NoPosition THEN NoPosition ELSE results
    /\ UNCHANGED <<data, placeSeed, listShown, editing, map, fix, searches, saving, saves>>

DebounceOver ==
    /\ debounce
    /\ debounce' = FALSE
    /\ searches' = searches \cup {query}
    /\ UNCHANGED <<data, placeSeed, listShown, editing, map, fix, query, results, saving, saves>>

SearchAnswered(q) ==
    /\ q \in searches
    /\ searches' = searches \ {q}
    /\ results' \in {q, NoPosition}
    /\ UNCHANGED <<data, placeSeed, listShown, editing, map, fix, query, debounce, saving, saves>>

(* A mutant: the selection is no edit.                                     *)
SelectUnmarked ==
    /\ results # NoPosition
    /\ center' = results /\ circle' = results
    /\ chosen' = results
    /\ query' = results
    /\ debounce' = (query # results \/ debounce)
    /\ UNCHANGED <<data, placeSeed, listShown, editing, hasUserEdited, fix, searches,
                   results, saving, saves>>

(* A result is picked: handleAddressSelect, and its name becomes the query.*)
HandleAddressSelect ==
    /\ results # NoPosition
    /\ hasUserEdited' = TRUE
    /\ center' = results /\ circle' = results
    /\ chosen' = results
    /\ query' = results
    /\ debounce' = (query # results \/ debounce)
    /\ UNCHANGED <<data, placeSeed, listShown, editing, fix, searches, results, saving, saves>>
-----------------------------------------------------------------------------
Start(op, id) ==
    /\ editing # NoPosition
    /\ Cardinality(saves) < MaxSaves
    /\ saves' = saves \cup {[op |-> op, id |-> id, at |-> center, from |-> "editor"]}
    /\ saving' = TRUE
    /\ UNCHANGED <<data, placeSeed, listShown, editing, map, fix, search>>

(* Sichern is disabled while the editor saves, Ort entfernen is not.        *)
Save ==
    /\ ~saving
    /\ IF editing = "new"
       THEN \E id \in Ids : savedPlaces[id] = NoPosition /\ Start("create", id)
       ELSE Start("update", editing)

HandleDeletePlace == editing \in Ids /\ Start("delete", editing)

(* The answer to a save: onDone, also when its editor is closed by now.    *)
SaveAnswered(s) ==
    /\ s \in saves
    /\ savedPlaces' = [savedPlaces EXCEPT ![s.id] =
                    CASE s.op = "delete" -> NoPosition
                      [] s.op = "create" -> s.at
                      [] s.op = "update" -> IF @ = NoPosition THEN NoPosition ELSE s.at]
    /\ s.op = "create" => savedPlaces[s.id] = NoPosition
    /\ s.op # "create" => savedPlaces[s.id] # NoPosition
    /\ placeSeed' = NoPosition
    /\ places' \in {places, savedPlaces'}
    /\ IF s.from = "elsewhere" \/ editing = NoPosition
       THEN saves' = saves \ {s} /\ UNCHANGED <<editing, map, fix, search, saving>>
       ELSE /\ UnmountEditor
            /\ saves' = Moved({"editor"}, "list") \ {s, [s EXCEPT !.from = "list"]}
    /\ UNCHANGED listShown

(* A failure, of the request or of a place that is gone: the editor stays. *)
SaveFails(s) ==
    /\ s \in saves
    /\ saves' = saves \ {s}
    /\ saving' = (saving /\ s.from # "editor")
    /\ UNCHANGED <<data, placeSeed, listShown, editing, map, fix, search>>

(* refreshPlaces.                                                          *)
PlacesLoaded ==
    /\ places # savedPlaces
    /\ places' = savedPlaces
    /\ UNCHANGED <<savedPlaces, placeSeed, listShown, editing, map, fix, search,
                   saving, saves>>

PlacesNext ==
    \/ ShowList \/ LeaveList \/ Cancel
    \/ \E which \in Ids \cup {"new"} : Edit(which)
    \/ \E p \in Positions : HandleAddPlace(p) \/ Drag(p)
    \/ FixArrives
    \/ \E q \in Addresses \cup {NoPosition} : TypeQuery(q)
    \/ DebounceOver
    \/ \E q \in searches : SearchAnswered(q)
    \/ HandleAddressSelect
    \/ Save \/ HandleDeletePlace
    \/ \E s \in saves : SaveAnswered(s) \/ SaveFails(s)
    \/ PlacesLoaded

PlacesSpec == PlacesInit /\ [][PlacesNext]_placeVars
-----------------------------------------------------------------------------
(* The centre that Sichern sends is the one the map draws, and once        *)
(* someone has chosen one in this editor, by what it was opened with, by a *)
(* search or a drag, a fix of the browser that arrives later never         *)
(* replaces it (SettingsPlaces.tsx:186-221, EditableCircle.tsx:62-69).     *)
(* A point that a popup asks for while an editor is open and edited is not *)
(* chosen in it: the editor on screen does not take it.                    *)
EditorShowsTheChoice ==
    editing # NoPosition =>
      /\ center = circle
      /\ chosen # NoPosition => center = chosen
=============================================================================

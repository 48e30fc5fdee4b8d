----------------------------- MODULE ObjectForms -----------------------------
(***************************************************************************)
(* The forms in the detail of an object (AirtagDetail.tsx; DeviceDetail.tsx*)
(* has the same, without a key and a removal): its name, its icon and      *)
(* colour, the alert switch, the key of an AirTag, the removal of one.     *)
(*                                                                         *)
(* Each saves with one request and then has the list loaded again, which   *)
(* is what the forms show.  Icon and colour are saved as a pair, the half  *)
(* that is not picked taken from the list that is shown.                   *)
(*                                                                         *)
(* The module has one object, and any refresh of the page as a load "tick".*)
(* A request that is given up has been served by then or never is.         *)
(***************************************************************************)
EXTENDS FiniteSets, Naturals

CONSTANTS
    Icons, Colors, Names,
    DefaultObject,  \* the object at first
    MaxChanges,     \* bound: requests that change it
    Gone            \* in place of an object that is removed

Objects == [icon : Icons, color : Colors, name : Names, alert : BOOLEAN, key : BOOLEAN]

ASSUME ObjectAssumption == DefaultObject \in Objects /\ Gone \notin Objects /\ MaxChanges \in Nat

VARIABLES
    kept,           \* the object in the database
    object,         \* airtag or device, of the list last loaded
    inDetail,       \* its detail is on screen
    open,           \* the forms that are: renameOpen, appearanceOpen, keyOpen
    draft,          \* name of RenameForm
    busy,           \* what is disabled by a saving of its own
    changes,        \* [n, op, value, from, stage, got]: requests under way
    changed,        \* how many there have been
    wanted,         \* the object as the user has last asked for it
    behind          \* the page may have missed a change of its own

formVars == <<kept, object, inDetail, open, draft, busy, changes, changed,
              wanted, behind>>

Forms == {"rename", "appearance", "key"}

(* The fields of an object or of a request, those of old where new has none. *)
Over(new, old) == [f \in DOMAIN new \cup DOMAIN old |-> IF f \in DOMAIN new THEN new[f] ELSE old[f]]

(* A call whose form is closed, or whose detail is, is not heard there.    *)
Left(ops, to) ==
    {IF c.op \in ops /\ c.from # "gone" THEN [c EXCEPT !.from = to] ELSE c : c \in changes}
Freed(c) ==
    IF c.from = IF c.op = "alert" THEN "detail" ELSE "form" THEN busy \ {c.op} ELSE busy
-----------------------------------------------------------------------------
FormsInit ==
    /\ kept = DefaultObject /\ object = DefaultObject /\ wanted = DefaultObject
    /\ inDetail = FALSE /\ open = {} /\ busy = {}
    /\ draft = DefaultObject.name
    /\ changes = {} /\ changed = 0 /\ behind = FALSE

OpenDetail ==
    /\ ~inDetail /\ object # Gone
    /\ inDetail' = TRUE
    /\ UNCHANGED <<kept, object, open, draft, busy, changes, changed, wanted, behind>>

CloseDetail(remaining) ==
    /\ inDetail' = FALSE /\ open' = {} /\ busy' = {}
    /\ changes' = {[c EXCEPT !.from = "gone"] : c \in remaining}

(* onBack, another tab, a tap on the map.                                  *)
Back ==
    /\ inDetail
    /\ CloseDetail(changes)
    /\ behind' = (behind \/ \E c \in changes : c.from # "gone")
    /\ UNCHANGED <<kept, object, draft, changed, wanted>>

ToggleForm(form) ==
    /\ inDetail
    /\ IF form \in open
       THEN /\ open' = open \ {form}
            /\ busy' = busy \ {form}
            /\ changes' = Left({form}, "detail")
            /\ behind' = (behind \/ form \in busy)
            /\ UNCHANGED draft
       ELSE /\ open' = open \cup {form}
            /\ draft' = IF form = "rename" THEN object.name ELSE draft
            /\ UNCHANGED <<busy, changes, behind>>
    /\ UNCHANGED <<kept, object, inDetail, changed, wanted>>

TypeName(name) ==
    /\ "rename" \in open /\ name # draft
    /\ draft' = name
    /\ UNCHANGED <<kept, object, inDetail, open, busy, changes, changed, wanted, behind>>
-----------------------------------------------------------------------------
(* The request for value, a function on some of the fields of the object,  *)
(* of which the user has chosen those in picked.                           *)
SendChange(op, from, value, picked) ==
    /\ changed < MaxChanges
    /\ changed' = changed + 1
    /\ changes' = changes \cup {[n |-> changed + 1, op |-> op, value |-> value, from |-> from,
                                 stage |-> "sent", got |-> Gone]}
    /\ wanted' = Over(picked, wanted)
    /\ UNCHANGED <<kept, object, inDetail, open, draft, behind>>

Submit(form, value, picked) ==
    /\ form \in open /\ form \notin busy
    /\ SendChange(form, "form", value, picked)
    /\ busy' = busy \cup {form}

(* save of RenameForm, an empty name being none.                           *)
Rename == Submit("rename", [name |-> draft], [name |-> draft])

(* pick of AppearanceForm.                                                 *)
Pick(picked) ==
    Submit("appearance", Over(picked, [icon |-> object.icon, color |-> object.color]), picked)

(* handleSave of KeyForm, once a key is pasted or a file with one is read. *)
SaveKey == Submit("key", [key |-> TRUE], [key |-> TRUE])

(* handleAwayAlertToggle: the opposite of what the switch shows.           *)
HandleAwayAlertToggle ==
    /\ inDetail /\ "alert" \notin busy
    /\ SendChange("alert", "detail", [alert |-> ~object.alert], [alert |-> ~object.alert])
    /\ busy' = busy \cup {"alert"}

(* handleRemove of KeyForm and handleDelete: neither is ever disabled.     *)
HandleRemove ==
    /\ "key" \in open /\ object.key
    /\ SendChange("unkey", "form", [key |-> FALSE], [key |-> FALSE])
    /\ UNCHANGED busy

HandleDelete ==
    /\ inDetail
    /\ SendChange("delete", "detail", <<>>, <<>>)
    /\ UNCHANGED busy
-----------------------------------------------------------------------------
After(c) == IF c.op = "delete" THEN Gone ELSE Over(c.value, kept)
Reloading(c) == [c EXCEPT !.stage = "asked"]

(* A mutant: the form does not wait for the list.                          *)
ServedUnawaited(c) ==
    /\ c.stage = "sent" /\ kept # Gone
    /\ kept' = After(c)
    /\ open' = open \ (IF c.op = "rename" /\ c.from # "gone" THEN {"rename"} ELSE {})
    /\ busy' = Freed(c)
    /\ changes' = (changes \ {c}) \cup {Reloading(c)}
    /\ UNCHANGED <<object, inDetail, draft, changed, wanted, behind>>

(* The server has done it, and the page hears so: a rename closes its form,*)
(* and the list is asked for.                                              *)
Served(c) ==
    /\ c.stage = "sent" /\ kept # Gone
    /\ kept' = After(c)
    /\ IF c.op = "rename" /\ c.from # "gone"
       THEN /\ open' = open \ {"rename"}
            /\ busy' = busy \ {"rename"}
            /\ changes' = (Left({"rename"}, "detail") \ {c, [c EXCEPT !.from = "detail"]})
                            \cup {[Reloading(c) EXCEPT !.from = "detail"]}
       ELSE /\ changes' = (changes \ {c}) \cup {Reloading(c)}
            /\ UNCHANGED <<open, busy>>
    /\ UNCHANGED <<object, inDetail, draft, changed, wanted, behind>>

(* An error or a timeout: the form is as before, whatever was picked.      *)
Refused(c) ==
    /\ c.stage = "sent"
    /\ \/ UNCHANGED <<kept, behind>>
       \/ kept # Gone /\ kept' = After(c) /\ behind' = TRUE
    /\ wanted' = IF kept' = Gone THEN wanted
                 ELSE Over([f \in DOMAIN c.value |-> kept'[f]], wanted)
    /\ busy' = Freed(c)
    /\ changes' = changes \ {c}
    /\ UNCHANGED <<object, inDetail, open, draft, changed>>

(* The page is refreshed for another reason.                               *)
Tick ==
    /\ \A c \in changes : c.op # "tick"
    /\ changes' = changes \cup {[n |-> 0, op |-> "tick", value |-> <<>>, from |-> "gone",
                                 stage |-> "asked", got |-> Gone]}
    /\ UNCHANGED <<kept, object, inDetail, open, draft, busy, changed, wanted, behind>>

ListServed(c) ==
    /\ c.stage = "asked"
    /\ changes' = (changes \ {c}) \cup {[c EXCEPT !.stage = "read", !.got = kept]}
    /\ UNCHANGED <<kept, object, inDetail, open, draft, busy, changed, wanted, behind>>

(* The list is shown.  After a removal, and without the object, so is the  *)
(* list of the objects.                                                    *)
ListLoaded(c) ==
    /\ c.stage = "read"
    /\ object' = c.got
    /\ behind' = (behind \/ c.got # kept)
    /\ IF c.got = Gone \/ c.op = "delete"
       THEN CloseDetail(changes \ {c})
       ELSE /\ busy' = Freed(c)
            /\ changes' = changes \ {c}
            /\ UNCHANGED <<inDetail, open>>
    /\ UNCHANGED <<kept, draft, changed, wanted>>

ListFails(c) ==
    /\ c.stage \in {"asked", "read"}
    /\ changes' = changes \ {c}
    /\ busy' = Freed(c)
    /\ behind' = (behind \/ (c.op # "tick" /\ object # kept))
    /\ UNCHANGED <<kept, object, inDetail, open, draft, changed, wanted>>

FormsNext ==
    \/ OpenDetail \/ Back
    \/ \E form \in Forms : ToggleForm(form)
    \/ \E name \in Names : TypeName(name)
    \/ Rename \/ SaveKey \/ HandleAwayAlertToggle \/ HandleRemove \/ HandleDelete
    \/ \E icon \in Icons : Pick([icon |-> icon])
    \/ \E color \in Colors : Pick([color |-> color])
    \/ Tick
    \/ \E c \in changes : Served(c) \/ Refused(c) \/ ListServed(c) \/ ListLoaded(c) \/ ListFails(c)

FormsSpec == FormsInit /\ [][FormsNext]_formVars
-----------------------------------------------------------------------------
(* Once its requests are served, the object has the name, the icon, the    *)
(* colour and the alert the user has asked for last, in whatever order the *)
(* answers come: picking one half of the appearance never undoes the other *)
(* (AirtagDetail.tsx:186-194, 342-351, 379-389; DeviceDetail.tsx:275-285). *)
(* Not so once the page is behind: a form is closed while it saves, a      *)
(* change or the list after it fails, an older list arrives after a newer. *)
ChangesAreKept ==
    ~behind /\ kept # Gone /\ (\A c \in changes : c.stage # "sent") =>
        \A f \in {"name", "icon", "color", "alert"} : kept[f] = wanted[f]
=============================================================================

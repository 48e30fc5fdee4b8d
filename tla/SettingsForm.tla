----------------------------- MODULE SettingsForm -----------------------------
(***************************************************************************)
(* The settings page (SettingsPanel.tsx with the fields of                 *)
(* SettingsTracking.tsx and the switches of SettingsNotifications.tsx):    *)
(* its own stack of pages, a copy of the server's settings that is edited, *)
(* and the PUTs of the whole copy that save it, at once after a click and  *)
(* 600 ms after the last key.                                              *)
(*                                                                         *)
(* The settings are one field that is typed, 0 standing for every number   *)
(* the form refuses, and one that is clicked.  The panel is unmounted when *)
(* another tab is chosen: what it has sent goes on without it.             *)
(***************************************************************************)
EXTENDS Naturals

CONSTANTS
    Thresholds,     \* the values of the field that is typed, 0 among them
    Palettes,       \* the values of the field that is clicked
    DefaultSettings,  \* the settings stored at first
    MaxPuts,        \* bound: PUTs
    MaxVisits,      \* bound: times the panel is mounted
    NoSettings,
    GetAsked        \* a GET without its answer

Settings == [threshold : Thresholds, palette : Palettes]

ASSUME SettingsAssumption ==
    /\ MaxPuts \in Nat /\ MaxVisits \in Nat
    /\ DefaultSettings \in Settings /\ DefaultSettings.threshold # 0
    /\ NoSettings \notin Settings /\ GetAsked \notin Settings \cup {NoSettings}

VARIABLES
    savedSettings,  \* the server's settings
    applied,        \* settings of App.tsx, what the dashboard is drawn with
    page,           \* page, or "closed": the panel is not mounted
    visit,          \* which mount of the panel this is
    loading,        \* its GET: Asked, then the answer, then NoSettings
    settings,       \* settings
    invalid,        \* errors is not empty
    saveStatus,     \* saveStatus
    timer,          \* debounceRef: the settings it will save, or NoSettings
    puts,           \* [n, value, served, by]: by = 0 when nobody waits for it
    sent,           \* how many PUTs there have been
    crossed,        \* a request has ended before an earlier one
    gaveUp          \* a PUT has failed

server == <<savedSettings, puts, sent, crossed, gaveUp>>
formState == <<settings, invalid, saveStatus, timer>>
settingsVars == <<server, formState, applied, page, visit, loading>>

Pages == {"root", "notifications", "apple", "tracking", "places"}
-----------------------------------------------------------------------------
SettingsInit ==
    /\ savedSettings = DefaultSettings /\ applied = DefaultSettings
    /\ page = "closed" /\ visit = 0 /\ loading = NoSettings
    /\ settings = NoSettings /\ invalid = FALSE
    /\ saveStatus = "idle" /\ timer = NoSettings
    /\ puts = {} /\ sent = 0
    /\ crossed = FALSE /\ gaveUp = FALSE

(* The Einstellungen tab, or a seed for a place, which opens Orte.         *)
OpenPanel(first) ==
    /\ page = "closed" /\ visit < MaxVisits
    /\ page' = first
    /\ visit' = visit + 1
    /\ loading' = GetAsked
    /\ settings' = NoSettings /\ invalid' = FALSE
    /\ saveStatus' = "idle" /\ timer' = NoSettings
    /\ UNCHANGED <<server, applied>>

(* Another tab: the cleanup clears the timer.                              *)
ClosePanel ==
    /\ page # "closed"
    /\ page' = "closed"
    /\ timer' = NoSettings
    /\ UNCHANGED <<server, applied, visit, loading, settings, invalid, saveStatus>>

(* A row of the root page, Einstellungen in the header of another, the tab *)
(* tapped again (resetSignal), a seed.                                     *)
GoTo(next) ==
    /\ page # "closed" /\ next # page
    /\ page = "root" \/ next \in {"root", "places"}
    /\ page' = next
    /\ UNCHANGED <<server, formState, applied, visit, loading>>

GetServed ==
    /\ loading = GetAsked
    /\ loading' = savedSettings
    /\ crossed' = (crossed \/ \E p \in puts : ~p.served)
    /\ UNCHANGED <<savedSettings, puts, sent, gaveUp, formState, applied, page, visit>>

Loaded ==
    /\ loading \notin {GetAsked, NoSettings}
    /\ loading' = NoSettings
    /\ settings' = IF page = "closed" THEN settings ELSE loading
    /\ UNCHANGED <<server, invalid, saveStatus, timer, applied, page, visit>>

(* Nobody catches a GET that fails: the page says "Lädt…" until it is left.*)
LoadFails ==
    /\ loading # NoSettings
    /\ loading' = NoSettings
    /\ UNCHANGED <<server, formState, applied, page, visit>>
-----------------------------------------------------------------------------
(* persist, up to its await.                                               *)
PersistSettings(value) ==
    /\ sent < MaxPuts
    /\ sent' = sent + 1
    /\ saveStatus' = "saving"
    /\ puts' = puts \cup {[n |-> sent + 1, value |-> value, served |-> FALSE, by |-> visit]}
    /\ UNCHANGED <<savedSettings, crossed, gaveUp>>

(* update: the new settings are shown in any case, saved if they are valid.*)
Update(next, immediate) ==
    /\ settings # NoSettings /\ page # "closed"
    /\ next \in Settings
    /\ settings' = next
    /\ invalid' = (next.threshold = 0)
    /\ IF next.threshold # 0 /\ immediate
       THEN PersistSettings(next) /\ timer' = NoSettings
       ELSE /\ timer' = IF next.threshold # 0 THEN next ELSE NoSettings
            /\ UNCHANGED <<server, saveStatus>>
    /\ UNCHANGED <<applied, page, visit, loading>>

(* A Field of Tracking; a switch or an option of root, Benachrichtigungen  *)
(* or Tracking.                                                            *)
TypeThreshold(threshold) ==
    /\ page = "tracking"
    /\ settings # NoSettings
    /\ Update([settings EXCEPT !.threshold = threshold], FALSE)

ClickOption(palette) ==
    /\ page \in {"root", "notifications", "tracking"}
    /\ settings # NoSettings
    /\ Update([settings EXCEPT !.palette = palette], TRUE)

TimerFires ==
    /\ timer # NoSettings
    /\ PersistSettings(timer)
    /\ timer' = NoSettings
    /\ UNCHANGED <<settings, invalid, applied, page, visit, loading>>

(* The server stores the settings of a PUT and answers with them.          *)
PutServed(p) ==
    /\ p \in puts /\ ~p.served
    /\ savedSettings' = p.value
    /\ crossed' = (crossed \/ \E q \in puts : q.n < p.n /\ ~q.served)
    /\ puts' = (puts \ {p}) \cup IF p.by = 0 THEN {} ELSE {[p EXCEPT !.served = TRUE]}
    /\ UNCHANGED <<sent, gaveUp, formState, applied, page, visit, loading>>

(* The panel that sent it is still there.                                  *)
Awaited(p) == page # "closed" /\ p.by = visit

PutAnswered(p) ==
    /\ p \in puts /\ p.served
    /\ puts' = puts \ {p}
    /\ applied' = p.value
    /\ crossed' = (crossed \/ \E q \in puts : q.n < p.n)
    /\ settings' = IF Awaited(p) THEN p.value ELSE settings
    /\ saveStatus' = IF Awaited(p) THEN "saved" ELSE saveStatus
    /\ UNCHANGED <<savedSettings, sent, gaveUp, invalid, timer, page, visit, loading>>

(* A mutant: a failure looks like nothing to save.                         *)
PutFailsQuietly(p) ==
    /\ p \in puts /\ p.by # 0
    /\ puts' = (puts \ {p}) \cup IF p.served THEN {} ELSE {[p EXCEPT !.by = 0]}
    /\ gaveUp' = TRUE
    /\ crossed' = (crossed \/ \E q \in puts : q.n < p.n)
    /\ saveStatus' = IF Awaited(p) THEN "idle" ELSE saveStatus
    /\ UNCHANGED <<savedSettings, sent, settings, invalid, timer, applied, page, visit, loading>>

(* An error or a timeout.  The server may serve the request all the same,  *)
(* before or after.                                                        *)
PutFails(p) ==
    /\ p \in puts /\ p.by # 0
    /\ \/ puts' = puts \ {p}
       \/ ~p.served /\ puts' = (puts \ {p}) \cup {[p EXCEPT !.by = 0]}
    /\ gaveUp' = TRUE
    /\ crossed' = (crossed \/ \E q \in puts : q.n < p.n)
    /\ saveStatus' = IF Awaited(p) THEN "error" ELSE saveStatus
    /\ UNCHANGED <<savedSettings, sent, settings, invalid, timer, applied, page, visit, loading>>

(* 1.5 seconds after a save.                                               *)
StatusFades ==
    /\ saveStatus = "saved"
    /\ saveStatus' = "idle"
    /\ UNCHANGED <<server, settings, invalid, timer, applied, page, visit, loading>>

SettingsNext ==
    \/ \E first \in {"root", "places"} : OpenPanel(first)
    \/ ClosePanel
    \/ \E next \in Pages : GoTo(next)
    \/ GetServed \/ Loaded \/ LoadFails
    \/ \E threshold \in Thresholds : TypeThreshold(threshold)
    \/ \E palette \in Palettes : ClickOption(palette)
    \/ TimerFires
    \/ \E p \in puts : PutServed(p) \/ PutAnswered(p) \/ PutFails(p)
    \/ StatusFades

SettingsSpec == SettingsInit /\ [][SettingsNext]_settingsVars
-----------------------------------------------------------------------------
(* Settings on screen that differ from the stored ones are about to be     *)
(* saved or are marked: a timer or a PUT is due, or the form holds an      *)
(* error of a field or of a save.  The mark outlives every page of the     *)
(* panel; only Tracking draws it (SettingsPanel.tsx:294-305), so on        *)
(* another page nothing is seen of it.  And the dashboard is drawn with    *)
(* the stored settings unless a PUT is due or has failed.  Both as long as *)
(* requests end in the order they are made (SettingsPanel.tsx:221-257).    *)
UnsavedIsMarked ==
    ~crossed =>
      /\ page # "closed" /\ settings # NoSettings =>
           \/ settings = savedSettings
           \/ timer # NoSettings \/ puts # {}
           \/ invalid \/ saveStatus = "error"
      /\ applied = savedSettings \/ puts # {} \/ gaveUp
=============================================================================

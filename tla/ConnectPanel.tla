----------------------------- MODULE ConnectPanel -----------------------------
(***************************************************************************)
(* The panel that connects an Apple account (AppleConnectPanel.tsx), for   *)
(* the AirTags (adapter "airtag": a session can be imported and a method   *)
(* is selected before the code) or for the owner's devices ("owner").      *)
(*                                                                         *)
(* Of the server it has what the panel can see: whether an account is      *)
(* connected, and what its login wizard waits for.  AppleSession has the   *)
(* wizard of the AirTags in full.  A request is served and answered in one *)
(* step; the status that most are followed by is read and shown in two.  A *)
(* request that is given up, after ten seconds or because the page is      *)
(* left, may still be served.  The switch for the family's devices is left *)
(* out.                                                                    *)
(***************************************************************************)
EXTENDS FiniteSets, Naturals

CONSTANTS MaxRequests  \* bound: requests of the user

ASSUME RequestsAssumption == MaxRequests \in Nat

VARIABLES
    adapter,        \* which adapter the panel has
    hasAccount,     \* the server has a connected account
    waitsFor,       \* what its wizard waits for: "none", "method" or "code"
    shown,          \* connected, or "unknown"
    unfolded,       \* open
    panelStep,      \* step
    waiting,        \* saving
    requests,       \* [n, op, stage]: "sent", its status "asked" and read,
                    \* "left" with the page or "late", given up by it
    requested,      \* how many there have been
    disturbed       \* since the page was opened: see PanelFollowsServer

panel == <<shown, unfolded, panelStep, waiting>>
panelVars == <<adapter, hasAccount, waitsFor, panel, requests, requested, disturbed>>

Seen == IF hasAccount THEN "yes" ELSE "no"
Status == [n |-> 0, op |-> "status", stage |-> "asked"]
-----------------------------------------------------------------------------
PanelInit ==
    /\ adapter \in {"airtag", "owner"}
    /\ hasAccount = FALSE /\ waitsFor = "none"
    /\ shown = "unknown" /\ unfolded = FALSE
    /\ panelStep = "credentials" /\ waiting = FALSE
    /\ requests = {Status} /\ requested = 0
    /\ disturbed = FALSE

(* The page waits for it.                                                  *)
Current(q) == q.stage \notin {"left", "late"}

(* The page is left and opened again.                                      *)
Remount ==
    /\ shown' = "unknown" /\ unfolded' = FALSE
    /\ panelStep' = "credentials" /\ waiting' = FALSE
    /\ requests' = {Status} \cup {q \in requests : ~Current(q)}
                     \cup {[q EXCEPT !.stage = "left"] : q \in {p \in requests : p.stage = "sent"}}
    /\ disturbed' = FALSE
    /\ UNCHANGED <<adapter, hasAccount, waitsFor, requested>>

(* The row, and reset().                                                   *)
ToggleRow ==
    /\ shown # "yes"
    /\ unfolded' = ~unfolded
    /\ panelStep' = "credentials"
    /\ UNCHANGED <<adapter, hasAccount, waitsFor, shown, waiting, requests, requested, disturbed>>

Ask(op) ==
    /\ requested < MaxRequests
    /\ requested' = requested + 1
    /\ requests' = requests \cup {[n |-> requested + 1, op |-> op, stage |-> "sent"]}
    /\ disturbed' = (disturbed \/ \E q \in requests : Current(q) /\ q.op # "status")
    /\ UNCHANGED <<adapter, hasAccount, waitsFor, shown, unfolded, panelStep>>

At(which) == unfolded /\ shown # "yes" /\ panelStep = which

(* Enter in the field of the password or of the code asks for it also when *)
(* the button is disabled.                                                 *)
HandleLogin == At("credentials") /\ Ask("login") /\ waiting' = TRUE
HandleSubmitCode == At("code") /\ Ask("submit") /\ waiting' = TRUE

HandleImportSession ==
    At("credentials") /\ adapter = "airtag" /\ ~waiting /\ Ask("import") /\ waiting' = TRUE
HandleSelectMethod == At("select-method") /\ ~waiting /\ Ask("select") /\ waiting' = TRUE

(* The switch of a connected account, which nothing disables.              *)
HandleDisconnect == shown = "yes" /\ Ask("disconnect") /\ UNCHANGED waiting
-----------------------------------------------------------------------------
To(q, op, stage) == requests' = (requests \ {q}) \cup {[q EXCEPT !.op = op, !.stage = stage]}

LoginServed(q) ==
    /\ q.op = "login" /\ q.stage = "sent"
    /\ \/ /\ hasAccount' = TRUE                        \* no second factor
          /\ To(q, "login", "asked")
          /\ UNCHANGED <<waitsFor, panelStep, waiting>>
       \/ /\ adapter = "airtag"                     \* several methods
          /\ waitsFor' = "method"
          /\ panelStep' = "select-method" /\ waiting' = FALSE
          /\ requests' = requests \ {q}
          /\ UNCHANGED hasAccount
       \/ /\ adapter = "airtag"                     \* one, selected at once
          /\ waitsFor' = "method"
          /\ To(q, "select", "sent")
          /\ UNCHANGED <<hasAccount, panelStep, waiting>>
       \/ /\ adapter = "owner"
          /\ waitsFor' = "code"
          /\ panelStep' = "code" /\ waiting' = FALSE
          /\ requests' = requests \ {q}
          /\ UNCHANGED hasAccount
    /\ UNCHANGED <<adapter, shown, unfolded, requested, disturbed>>

SelectServed(q) ==
    /\ q.op = "select" /\ q.stage = "sent"
    /\ waitsFor # "none"
    /\ waitsFor' = "code"
    /\ panelStep' = "code" /\ waiting' = FALSE
    /\ requests' = requests \ {q}
    /\ UNCHANGED <<adapter, hasAccount, shown, unfolded, requested, disturbed>>

(* A code, a session file, an account that is disconnected: the status     *)
(* follows.                                                                *)
ChangeServed(q) ==
    /\ q.op \in {"submit", "import", "disconnect"} /\ q.stage = "sent"
    /\ q.op = "submit" => waitsFor = "code"
    /\ q.op = "disconnect" => hasAccount
    /\ hasAccount' = (q.op # "disconnect")
    /\ waitsFor' = IF q.op = "submit" THEN "none" ELSE waitsFor
    /\ To(q, q.op, "asked")
    /\ UNCHANGED <<adapter, panel, requested, disturbed>>

(* A mutant: the step follows the click, not the answer.                   *)
FailsForward(q) ==
    /\ q.stage = "sent" /\ requests' = requests \ {q}
    /\ waiting' = (waiting /\ q.op = "disconnect")
    /\ panelStep' = IF q.op = "select" THEN "code" ELSE panelStep
    /\ UNCHANGED <<adapter, hasAccount, waitsFor, shown, unfolded, requested, disturbed>>

(* The server refuses, or cannot be reached: the error is shown.           *)
RequestFails(q) ==
    /\ q.stage = "sent" /\ requests' = requests \ {q}
    /\ waiting' = (waiting /\ q.op = "disconnect")
    /\ UNCHANGED <<adapter, hasAccount, waitsFor, shown, unfolded, panelStep, requested, disturbed>>

(* Ten seconds are over: an error as well, but the server may do it yet.   *)
TimesOut(q) ==
    /\ q.stage = "sent"
    /\ To(q, q.op, "late")
    /\ waiting' = (waiting /\ q.op = "disconnect")
    /\ UNCHANGED <<adapter, hasAccount, waitsFor, shown, unfolded, panelStep, requested, disturbed>>

(* A status is asked for, or has been read.                                *)
Shows(q) == q.stage \in {"asked", "yes", "no"}

(* The server does, or refuses, what nobody on screen waits for.  The page *)
(* that is gone still selects the only method of a login.                  *)
LeftServed(q) ==
    /\ ~Current(q)
    /\ \/ UNCHANGED <<hasAccount, waitsFor>> /\ requests' = requests \ {q}
       \/ q.op \in {"login", "import"} /\ hasAccount' = TRUE /\ UNCHANGED waitsFor
                                      /\ requests' = requests \ {q}
       \/ /\ q.op = "login" /\ waitsFor' = (IF adapter = "airtag" THEN "method" ELSE "code")
          /\ requests' = requests \ {q} \/ (adapter = "airtag" /\ q.stage = "left" /\ To(q, "select", "left"))
          /\ UNCHANGED hasAccount
       \/ q.op = "select" /\ waitsFor # "none" /\ waitsFor' = "code" /\ UNCHANGED hasAccount
                         /\ requests' = requests \ {q}
       \/ q.op = "submit" /\ waitsFor = "code" /\ hasAccount' = TRUE /\ waitsFor' = "none"
                         /\ requests' = requests \ {q}
       \/ q.op = "disconnect" /\ hasAccount' = FALSE /\ UNCHANGED waitsFor
                             /\ requests' = requests \ {q}
    /\ disturbed' = \/ disturbed
                    \/ hasAccount' # hasAccount /\ ~\E other \in requests : Shows(other)
                    \/ waitsFor' # waitsFor /\ panelStep # "credentials"
    /\ UNCHANGED <<adapter, panel, requested>>

StatusServed(q) ==
    /\ q.stage = "asked"
    /\ To(q, q.op, Seen)
    /\ UNCHANGED <<adapter, hasAccount, waitsFor, panel, requested, disturbed>>

(* refreshStatus, and what follows it: the wizard is closed and reset.     *)
StatusShown(q) ==
    /\ q.stage \in {"yes", "no"}
    /\ shown' = q.stage
    /\ requests' = requests \ {q}
    /\ IF q.op \in {"login", "submit", "import"}
       THEN unfolded' = FALSE /\ panelStep' = "credentials" /\ waiting' = FALSE
       ELSE UNCHANGED <<unfolded, panelStep, waiting>>
    /\ disturbed' = (disturbed \/ q.stage # Seen)
    /\ UNCHANGED <<adapter, hasAccount, waitsFor, requested>>

(* The error takes the place of what the user has just done.               *)
StatusFails(q) ==
    /\ Shows(q)
    /\ requests' = requests \ {q}
    /\ waiting' = (waiting /\ q.op \in {"status", "disconnect"})
    /\ disturbed' = TRUE
    /\ UNCHANGED <<adapter, hasAccount, waitsFor, shown, unfolded, panelStep, requested>>

(* The wizard of the server is in memory, the account is not.              *)
ServerRestarts ==
    /\ waitsFor # "none"
    /\ waitsFor' = "none" /\ disturbed' = TRUE
    /\ UNCHANGED <<adapter, hasAccount, panel, requests, requested>>

PanelNext ==
    \/ Remount \/ ToggleRow \/ ServerRestarts
    \/ HandleLogin \/ HandleSubmitCode \/ HandleImportSession \/ HandleSelectMethod
    \/ HandleDisconnect
    \/ \E q \in requests :
         \/ LoginServed(q) \/ SelectServed(q) \/ ChangeServed(q) \/ RequestFails(q)
         \/ TimesOut(q) \/ LeftServed(q)
         \/ StatusServed(q) \/ StatusShown(q) \/ StatusFails(q)

PanelSpec == PanelInit /\ [][PanelNext]_panelVars
-----------------------------------------------------------------------------
(* Once it waits for nothing the panel says whether an account is          *)
(* connected, asks for a code or a method only while the server waits for  *)
(* one, and has its buttons enabled: whatever is refused or timed out,     *)
(* whenever the row is folded and the page left, and also with requests    *)
(* given up that the server is still to serve                              *)
(* (AppleConnectPanel.tsx:72-196, 217-224).  Until the page is opened      *)
(* again that ends with two requests at once, a status that is lost or     *)
(* stale, a restart of the server in the middle of a login, or a request   *)
(* given up that the server serves with no status due or the wizard open.  *)
PanelFollowsServer ==
    ~disturbed /\ (\A q \in requests : ~Current(q)) =>
        /\ shown = Seen
        /\ ~waiting
        /\ At("select-method") => waitsFor # "none"
        /\ At("code") => waitsFor = "code"
=============================================================================

---------------------------- MODULE AppleSession ----------------------------
(***************************************************************************)
(* The AirTag-tracking Apple session: the login wizard of auth.py, driven  *)
(* by requests to the dashboard, the session file it writes, and the polls *)
(* that restore and save that file.                                        *)
(*                                                                         *)
(* The partially authenticated account is held in three variables of the   *)
(* process.  A call to Apple takes real time and other requests run in the *)
(* meantime, so a request that makes one is two actions, before and after  *)
(* the call.  Assignments with no call between them are one action.        *)
(*                                                                         *)
(* An account object is a number: the attempt that made it.                *)
(***************************************************************************)
EXTENDS Naturals

CONSTANTS
    Requests,       \* threads that serve requests to /api/apple/*
    MaxAttempts,    \* bound: how many account objects are made
    None

ASSUME AttemptsAssumption == MaxAttempts \in Nat
ASSUME NoneAssumption == None \notin 1 .. MaxAttempts

VARIABLES
    file,           \* the account in the file at APPLE_STORE_PATH, or None
    attempts,       \* how many account objects there have been
    loggedIn,       \* the accounts Apple has fully authenticated
    pendingAccount, \* _pending_account
    pendingMethods, \* _pending_methods: the account whose methods they are
    chosenMethod,   \* _pending_chosen_method: the account it belongs to
    step,           \* per request: the call it waits for
    target,         \* per request: the account the call is about
    restored,       \* the account the running poll has restored, or None
    polling,        \* the step of poll_once
    connected,      \* the session the user last connected, None if disconnected
    imported,       \* the accounts of imported sessions
    overtaken       \* a login has reset the wizard under a call of another one

wizard == <<pendingAccount, pendingMethods, chosenMethod>>
calls == <<step, target>>
polls == <<restored, polling>>
ghosts == <<connected, imported, overtaken>>
vars == <<file, attempts, loggedIn, wizard, calls, polls, ghosts>>
-----------------------------------------------------------------------------
Accounts == 1 .. MaxAttempts

Init ==
    /\ file = None
    /\ attempts = 0
    /\ loggedIn = {}
    /\ pendingAccount = None /\ pendingMethods = None /\ chosenMethod = None
    /\ step = [r \in Requests |-> "idle"]
    /\ target = [r \in Requests |-> None]
    /\ restored = None
    /\ polling = "idle"
    /\ connected = None /\ imported = {} /\ overtaken = FALSE

Call(r, name, account) ==
    /\ step[r] = "idle"
    /\ step' = [step EXCEPT ![r] = name]
    /\ target' = [target EXCEPT ![r] = account]

Return(r, name) ==
    /\ step[r] = name
    /\ step' = [step EXCEPT ![r] = "idle"]
    /\ target' = [target EXCEPT ![r] = None]

(* account.to_json(cfg.apple.store_path) by something the user did.        *)
Persist(account) ==
    /\ file' = account /\ connected' = account
    /\ UNCHANGED overtaken

(* A call to Apple that raises, or a code it rejects: nothing is assigned. *)
CallFails(r) ==
    /\ \E name \in {"login", "select", "submit"} : Return(r, name)
    /\ UNCHANGED <<file, attempts, loggedIn, wizard, polls, ghosts>>

StartLogin(r) ==
    /\ attempts < MaxAttempts
    /\ attempts' = attempts + 1
    /\ Call(r, "login", attempts + 1)
    /\ UNCHANGED <<file, loggedIn, wizard, polls, ghosts>>

(* No second factor: the session is saved at once and the variables of the *)
(* wizard keep what an earlier attempt left in them.                       *)
LoginCompletes(r) ==
    /\ Return(r, "login")
    /\ loggedIn' = loggedIn \cup {target[r]}
    /\ Persist(target[r])
    /\ UNCHANGED <<attempts, wizard, polls, imported>>

(* A mutant: the session is saved before the second factor.                *)
LoginSavesEarly(r) ==
    /\ Return(r, "login")
    /\ Persist(target[r])
    /\ pendingAccount' = target[r] /\ pendingMethods' = target[r]
    /\ chosenMethod' = None
    /\ UNCHANGED <<attempts, loggedIn, polls, imported>>

(* The account waits for its second factor, in the wizard's variables.  A  *)
(* call another request waits for is then about an account they no longer  *)
(* hold.                                                                   *)
LoginNeedsCode(r) ==
    /\ Return(r, "login")
    /\ pendingAccount' = target[r]
    /\ pendingMethods' = target[r]
    /\ chosenMethod' = None
    /\ overtaken' = (overtaken \/ \E other \in Requests : step[other] \in {"select", "submit"})
    /\ UNCHANGED <<file, attempts, loggedIn, polls, connected, imported>>

RequestCode(r) ==
    /\ pendingMethods # None
    /\ Call(r, "select", pendingMethods)
    /\ UNCHANGED <<file, attempts, loggedIn, wizard, polls, ghosts>>

CodeRequested(r) ==
    /\ Return(r, "select")
    /\ chosenMethod' = target[r]
    /\ UNCHANGED <<file, attempts, loggedIn, pendingAccount, pendingMethods,
                   polls, ghosts>>

SubmitCode(r) ==
    /\ pendingAccount # None /\ chosenMethod # None
    /\ Call(r, "submit", chosenMethod)
    /\ UNCHANGED <<file, attempts, loggedIn, wizard, polls, ghosts>>

(* The code authenticates the account of the method; _pending_account is   *)
(* read again and saved.  It is None if another request has finished the   *)
(* wizard meanwhile: the attribute lookup raises.                          *)
CodeAccepted(r) ==
    /\ Return(r, "submit")
    /\ loggedIn' = loggedIn \cup {target[r]}
    /\ IF pendingAccount = None
       THEN UNCHANGED <<file, connected, overtaken, wizard>>
       ELSE /\ Persist(pendingAccount)
            /\ pendingAccount' = None /\ pendingMethods' = None /\ chosenMethod' = None
    /\ UNCHANGED <<attempts, polls, imported>>

(* import_session: a session made elsewhere, of whatever state.            *)
ImportSession(r) ==
    /\ step[r] = "idle"
    /\ attempts < MaxAttempts
    /\ attempts' = attempts + 1
    /\ imported' = imported \cup {attempts + 1}
    /\ Persist(attempts + 1)
    /\ UNCHANGED <<loggedIn, wizard, calls, polls>>

Disconnect(r) ==
    /\ step[r] = "idle"
    /\ file # None
    /\ file' = None
    /\ connected' = None
    /\ UNCHANGED <<attempts, loggedIn, wizard, calls, polls, imported, overtaken>>
-----------------------------------------------------------------------------
(* is_connected in poll_once.                                              *)
PollStarts ==
    /\ polling = "idle"
    /\ file # None
    /\ polling' = "restore"
    /\ UNCHANGED <<file, attempts, loggedIn, wizard, calls, restored, ghosts>>

(* restore_account: without a file it raises and the poll is over.         *)
PollRestores ==
    /\ polling = "restore"
    /\ restored' = file
    /\ polling' = IF file = None THEN "idle" ELSE "fetch"
    /\ UNCHANGED <<file, attempts, loggedIn, wizard, calls, ghosts>>

(* account.to_json after each AirTag.                                      *)
PollSaves ==
    /\ polling = "fetch"
    /\ file' = restored
    /\ UNCHANGED <<attempts, loggedIn, wizard, calls, polls, ghosts>>

PollEnds ==
    /\ polling = "fetch"
    /\ polling' = "idle"
    /\ restored' = None
    /\ UNCHANGED <<file, attempts, loggedIn, wizard, calls, ghosts>>

(* The process restarts: only the file is left.                            *)
Restart ==
    /\ pendingAccount' = None /\ pendingMethods' = None /\ chosenMethod' = None
    /\ step' = [r \in Requests |-> "idle"]
    /\ target' = [r \in Requests |-> None]
    /\ restored' = None
    /\ polling' = "idle"
    /\ UNCHANGED <<file, attempts, loggedIn, ghosts>>

Request(r) ==
    \/ StartLogin(r) \/ LoginCompletes(r) \/ LoginNeedsCode(r)
    \/ RequestCode(r) \/ CodeRequested(r) \/ SubmitCode(r) \/ CodeAccepted(r)
    \/ CallFails(r) \/ ImportSession(r) \/ Disconnect(r)

Next ==
    \/ \E r \in Requests : Request(r)
    \/ PollStarts \/ PollRestores \/ PollSaves \/ PollEnds
    \/ Restart

Spec == Init /\ [][Next]_vars
-----------------------------------------------------------------------------
(* Every variable holds an account that has been made, or None.            *)
TypeOK ==
    /\ attempts \in 0 .. MaxAttempts
    /\ loggedIn \cup imported \subseteq 1 .. attempts
    /\ {file, restored, connected, pendingAccount, pendingMethods, chosenMethod}
         \subseteq (1 .. attempts) \cup {None}
    /\ step \in [Requests -> {"idle", "login", "select", "submit"}]
    /\ target \in [Requests -> (1 .. attempts) \cup {None}]
    /\ polling \in {"idle", "restore", "fetch"}
    /\ polling = "fetch" <=> restored # None
    /\ overtaken \in BOOLEAN

(* The file never holds an account of the wizard that has not completed    *)
(* its login, whatever fails, restarts, is given up or runs at the same    *)
(* time (auth.py:70-114): a code that is accepted logs the account in that *)
(* is then saved.  A login that replaces the account of the wizard while a *)
(* method is selected or a code is submitted breaks it: the three          *)
(* variables are then of two attempts.                                     *)
SavedSessionsAreLoggedIn ==
    ~overtaken => {file, restored} \subseteq loggedIn \cup imported \cup {None}

(* A poll only ever restores the session the user has connected, and none  *)
(* once they have disconnected (tracker.py:380-381: only restored or       *)
(* polled if one has actually been connected via the dashboard).           *)
OnlyPollsConnectedSessions ==
    [][(PollRestores /\ restored' # None) => restored' = connected]_vars
=============================================================================

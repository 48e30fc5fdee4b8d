------------------------------ MODULE TelegramBot ------------------------------
(***************************************************************************)
(* The bot that answers in Telegram: the panel that connects it and        *)
(* switches its commands on and off (TelegramPanel.tsx), the requests      *)
(* behind it (web/app.py), and the webhook Telegram keeps of each bot.     *)
(*                                                                         *)
(* A bot stands for a token with its chat; messages of other chats are     *)
(* ignored.  A request is numbered, and the number of a request to enable  *)
(* stands for the secret it draws.                                         *)
(***************************************************************************)
EXTENDS Naturals

CONSTANTS
    Bots,
    NoBot,
    MaxCalls    \* bound: requests that change something

ASSUME BotAssumption == NoBot \notin Bots /\ MaxCalls \in Nat

VARIABLES
    row,        \* telegram_settings; its bot is NoBot if there is no row
    webhook,    \* the secret Telegram has of each bot's webhook, or 0
    calls,      \* requests under way
    sent,       \* how many have been sent
    panel,      \* what the panel shows: [connected, enabled]
    told,       \* it shows an error
    crossed,    \* two changes overlapped at the server, or it stopped in one
    missed,     \* the page read the status during a change, or an error was not shown
    halfway     \* the second of the two calls of an enable has failed

flags == <<crossed, missed, halfway>>
botVars == <<row, webhook, calls, sent, panel, told, flags>>
-----------------------------------------------------------------------------
NoRow == [bot |-> NoBot, enabled |-> FALSE, secret |-> 0]

Unknown == [connected |-> FALSE, enabled |-> FALSE]
Status == [connected |-> row.bot # NoBot, enabled |-> row.enabled]

(* A request: what it is, where it is, the bot it is about, whether the    *)
(* page still waits for it, and the status that has been read for it.      *)
Call(n, op, stage, bot) ==
    [n |-> n, op |-> op, stage |-> stage, bot |-> bot, waits |-> TRUE, got |-> Unknown]

AtServer(c) == c.stage \in {"sent", "telegram", "commit"}
AtRest == ~\E c \in calls : AtServer(c)
Become(c, next) == calls' = (calls \ {c}) \cup {next}

BotInit ==
    /\ row = NoRow
    /\ webhook = [b \in Bots |-> 0]
    /\ calls = {Call(0, "load", "asked", NoBot)} /\ sent = 0
    /\ panel = Unknown /\ told = FALSE
    /\ crossed = FALSE /\ missed = FALSE /\ halfway = FALSE
-----------------------------------------------------------------------------
(* The panel.                                                              *)
Ask(op, bot) ==
    /\ sent < MaxCalls
    /\ sent' = sent + 1
    /\ calls' = calls \cup {Call(sent + 1, op, "sent", bot)}
    /\ crossed' = (crossed \/ ~AtRest) /\ missed' = (missed \/ calls # {})
    /\ UNCHANGED <<row, webhook, panel, halfway>>

Busy(ops) == \E c \in calls : c.op \in ops /\ c.waits

HandleToggleCommands ==
    /\ panel.connected /\ ~Busy({"enable", "disable"})
    /\ Ask(IF panel.enabled THEN "disable" ELSE "enable", NoBot)
    /\ told' = FALSE

(* Enter in the field asks also while another is being saved.              *)
HandleSave(b) == ~panel.connected /\ Ask("connect", b) /\ told' = FALSE

HandleDisconnect == panel.connected /\ Ask("disconnect", NoBot) /\ UNCHANGED told

(* A mutant: the status is not asked for again.                            *)
RequestDoneOnly(c) ==
    /\ c.stage = "done" /\ c.waits
    /\ calls' = calls \ {c}
    /\ UNCHANGED <<row, webhook, sent, panel, told, flags>>

(* The request is done: refreshStatus.  Or it has failed, or the page has  *)
(* given it up, wherever it is: the error is shown, except that of         *)
(* handleDisconnect, which nobody catches.                                 *)
RequestDone(c) ==
    /\ c.stage = "done" /\ c.waits
    /\ Become(c, [c EXCEPT !.stage = "asked"])
    /\ UNCHANGED <<row, webhook, sent, panel, told, flags>>

StatusRead(c) ==
    /\ c.stage = "asked"
    /\ Become(c, [c EXCEPT !.stage = "read", !.got = Status])
    /\ UNCHANGED <<row, webhook, sent, panel, told, flags>>

StatusShown(c) ==
    /\ c.stage = "read"
    /\ panel' = c.got
    /\ calls' = calls \ {c}
    /\ UNCHANGED <<row, webhook, sent, told, flags>>

Fails(c) ==
    /\ c.waits
    /\ calls' = IF AtServer(c) THEN (calls \ {c}) \cup {[c EXCEPT !.waits = FALSE]}
                               ELSE calls \ {c}
    /\ told' = (told \/ c.op \in {"enable", "disable", "connect"})
    /\ missed' = (missed \/ c.op = "disconnect")
    /\ UNCHANGED <<row, webhook, sent, panel, crossed, halfway>>

(* The settings are left and opened again.                                 *)
Reopen ==
    /\ panel' = Unknown /\ told' = FALSE
    /\ calls' = {[c EXCEPT !.waits = FALSE] : c \in {d \in calls : AtServer(d)}}
                \cup {Call(0, "load", "asked", NoBot)}
    /\ missed' = (missed \/ ~AtRest)
    /\ UNCHANGED <<row, webhook, sent, crossed, halfway>>
-----------------------------------------------------------------------------
(* The requests.  What nobody waits for any more ends without an answer.   *)
Serve(c, stage, bot) ==
    calls' = (calls \ {c}) \cup
        (IF stage \in {"done", "refused"} /\ ~c.waits THEN {}
         ELSE {[c EXCEPT !.stage = stage, !.bot = bot]})

(* get_telegram_credentials, and what Telegram need not be asked for.      *)
ReadCredentials(c) ==
    /\ c.stage = "sent" /\ c.op # "connect"
    /\ LET asks == IF c.op = "enable" THEN row.bot # NoBot ELSE row.enabled
       IN  Serve(c, IF asks THEN "telegram" ELSE IF c.op = "enable" THEN "refused" ELSE "commit",
                 row.bot)
    /\ UNCHANGED <<row, webhook, sent, panel, told, flags>>

(* set_webhook: setWebhook, then setMyCommands.                            *)
SetWebhook(c) ==
    /\ c.stage = "telegram" /\ c.op = "enable"
    /\ webhook' = [webhook EXCEPT ![c.bot] = c.n]
    /\ Serve(c, "commit", c.bot)
    /\ UNCHANGED <<row, sent, panel, told, flags>>

SetWebhookFails(c) ==
    /\ c.stage = "telegram" /\ c.op = "enable"
    /\ \/ webhook' = [webhook EXCEPT ![c.bot] = c.n] /\ halfway' = TRUE
       \/ UNCHANGED <<webhook, halfway>>
    /\ Serve(c, "refused", c.bot)
    /\ UNCHANGED <<row, sent, panel, told, crossed, missed>>

(* delete_webhook; its failure is logged.                                  *)
DeleteWebhook(c) ==
    /\ c.stage = "telegram" /\ c.op \in {"disable", "disconnect"}
    /\ webhook' \in {webhook, [webhook EXCEPT ![c.bot] = 0]}
    /\ Serve(c, "commit", c.bot)
    /\ UNCHANGED <<row, sent, panel, told, flags>>

(* set_telegram_bot_commands, which updates nothing without a row, or      *)
(* delete_telegram_credentials.                                            *)
CommitRequest(c) ==
    /\ c.stage = "commit"
    /\ row' = IF c.op = "disconnect" \/ row.bot = NoBot THEN NoRow
              ELSE [row EXCEPT !.enabled = (c.op = "enable"),
                               !.secret = IF c.op = "enable" THEN c.n ELSE 0]
    /\ Serve(c, "done", c.bot)
    /\ UNCHANGED <<webhook, sent, panel, told, flags>>

(* A mutant: a new token keeps the switch and the secret of the old one.   *)
ConnectOnly(c) ==
    /\ c.stage = "sent" /\ c.op = "connect"
    /\ row' = [row EXCEPT !.bot = c.bot]
    /\ Serve(c, "done", c.bot)
    /\ UNCHANGED <<webhook, sent, panel, told, flags>>

(* set_telegram_credentials.                                               *)
Connect(c) ==
    /\ c.stage = "sent" /\ c.op = "connect"
    /\ row' = [bot |-> c.bot, enabled |-> FALSE, secret |-> 0]
    /\ Serve(c, "done", c.bot)
    /\ UNCHANGED <<webhook, sent, panel, told, flags>>

(* The process stops; the page waits for an answer until it gives up.      *)
ServerStops ==
    /\ ~AtRest
    /\ calls' = {IF AtServer(c) THEN [c EXCEPT !.stage = "refused"] ELSE c :
                 c \in {d \in calls : d.waits}}
    /\ crossed' = TRUE
    /\ UNCHANGED <<row, webhook, sent, panel, told, missed, halfway>>
-----------------------------------------------------------------------------
(* telegram_webhook answers updates that carry the stored secret, and      *)
(* Telegram sends what the webhook was registered with.                    *)
Heard == row.enabled /\ webhook[row.bot] = row.secret

BotNext ==
    \/ HandleToggleCommands \/ HandleDisconnect \/ Reopen \/ ServerStops
    \/ \E b \in Bots : HandleSave(b)
    \/ \E c \in calls :
        \/ RequestDone(c) \/ StatusRead(c) \/ StatusShown(c) \/ Fails(c)
        \/ ReadCredentials(c) \/ SetWebhook(c) \/ SetWebhookFails(c) \/ DeleteWebhook(c)
        \/ CommitRequest(c) \/ Connect(c)

BotSpec == BotInit /\ [][BotNext]_botVars
-----------------------------------------------------------------------------
(* When the table says that the bot answers, it does: Telegram has the     *)
(* secret of the table, through any number of requests that enable,        *)
(* disable, change the bot or fail, one after the other                    *)
(* (web/app.py:1365-1426).                                                 *)
EnabledBotHears == AtRest /\ row.enabled /\ ~crossed /\ ~halfway => Heard

(* A panel that waits for nothing and shows no error shows what is stored  *)
(* (TelegramPanel.tsx:26-89).                                              *)
PanelIsTruthful ==
    (\A c \in calls : ~c.waits) /\ AtRest /\ ~told /\ ~crossed /\ ~missed /\ panel # Unknown
        => panel = Status
=============================================================================

------------------------------ MODULE MCPolls ------------------------------
(***************************************************************************)
(* Two instances of PollCycle and the Telegram bot in one run; subject     *)
(* says which.  The first is that of the .cfg, the polls of two processes  *)
(* to which everything happens.  In the second a single thread polls, a    *)
(* report that comes is the newest, and only Apple may fail.  The bot      *)
(* shares nothing with the polls.                                          *)
(***************************************************************************)
EXTENDS MCPollCycle, TelegramBot

CONSTANTS one, other

VARIABLE subject
-----------------------------------------------------------------------------
Ordered ==
    INSTANCE PollCycle WITH
        Pollers <- MCOneThread, Processes <- MCOneProcess, ProcessOf <- MCOneThreadOf,
        Times <- 0 .. 4, MaxTime <- 4, OwnerTrack <- [t \in 0 .. 4 |-> 0],
        AppleReports <- MCTagReports, Faults <- {"apple"}

PollsInit ==
    /\ subject \in {"faulty", "ordered", "bot"}
    /\ IF subject = "ordered" THEN Ordered!Init ELSE Init
    /\ BotInit

PollsNext ==
    /\ \/ subject = "faulty" /\ Next /\ UNCHANGED botVars
       \/ subject = "ordered" /\ Ordered!Next /\ UNCHANGED botVars
       \/ subject = "bot" /\ BotNext /\ UNCHANGED vars
    /\ UNCHANGED subject

PollsSpec == PollsInit /\ [][PollsNext]_<<vars, botVars, subject>>
-----------------------------------------------------------------------------
(* What PollCycle says of polls to which reports come in order.            *)

(* A stored report is an outlier if and only if it does not fit the kept   *)
(* reports before it, although the window of Apple's answers moves on      *)
(* (tracker.py:466-480).                                                   *)
OrderedTrailIsPlausible == subject = "ordered" => Ordered!KeptTrailIsPlausible

(* No movement between stored reports goes without its alert               *)
(* (tracker.py:482-540).                                                   *)
OrderedAlertsComplete == subject = "ordered" => Ordered!MovementAlertsComplete
=============================================================================

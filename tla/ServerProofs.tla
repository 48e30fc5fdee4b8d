----------------------------- MODULE ServerProofs -----------------------------
(***************************************************************************)
(* Four parts of the server.                                               *)
(*                                                                         *)
(* The limiter, for any threads, points and interval.  The table of        *)
(* AirTags, for any names and any number of requests.  The Telegram bot,   *)
(* for any bots and requests.  The away alerts of the owner's devices, for *)
(* any devices, positions, settings and clock.                             *)
(***************************************************************************)
EXTENDS RateLimiter, AirtagRegistry, TelegramBot, DeviceAway, WellFoundedInduction, TLAPS

(* The thread that sleeps or asks is the one that holds the lock, and from *)
(* the answer on, _last_call is no older than the request.                 *)
LimiterInv ==
    /\ DOMAIN stage = Threads
    /\ pause \in 0..Interval /\ quiet \in 0..Interval
    /\ \A t \in Threads : stage[t] \in {"sleeping", "asking"} => holder = t
    /\ raised \/ (\E t \in Threads : stage[t] = "asking") \/ pause <= quiet

LEMMA LimiterInvStep ==
    ASSUME LimiterInv, [LimiterNext]_limiterVars
    PROVE  LimiterInv'
<1> USE LimiterAssumption DEF LimiterInv, lookup
<1>1. ASSUME NEW t \in Threads, NEW p \in Queries, LookUp(t, p)
      PROVE  LimiterInv'
  BY <1>1 DEF LookUp
<1>2. ASSUME NEW t \in Threads, LookUpDirectly(t)
      PROVE  LimiterInv'
  BY <1>2 DEF LookUpDirectly
<1>3. ASSUME NEW t \in Threads, TakeLock(t)
      PROVE  LimiterInv'
  BY <1>3 DEF TakeLock
<1>4. ASSUME NEW t \in Threads, Send(t)
      PROVE  LimiterInv'
  BY <1>4 DEF Send
<1>5. ASSUME NEW t \in Threads, Answers(t)
      PROVE  LimiterInv'
  BY <1>5 DEF Answers
<1>6. ASSUME NEW t \in Threads, Raises(t)
      PROVE  LimiterInv'
  BY <1>6 DEF Raises
<1>7. ASSUME NEW t \in Threads, Keep(t)
      PROVE  LimiterInv'
  BY <1>7 DEF Keep
<1>8. ASSUME NEW p \in Queries, Evict(p)
      PROVE  LimiterInv'
  BY <1>8 DEF Evict
<1>9. CASE TimePasses
  BY <1>9 DEF TimePasses, Older
<1>10. CASE UNCHANGED limiterVars
  BY <1>10 DEF limiterVars
<1> QED BY <1>1, <1>2, <1>3, <1>4, <1>5, <1>6, <1>7, <1>8, <1>9, <1>10 DEF LimiterNext

(* Only Send sends, and while it holds the lock nobody else has asked.     *)
LEMMA SendsAfterAPause ==
    ASSUME LimiterInv, [LimiterNext]_limiterVars, NEW t \in Threads, Sends(t)
    PROVE  quiet = Interval \/ raised
<1> USE LimiterAssumption DEF LimiterInv, Sends, lookup
<1>1. ASSUME NEW s \in Threads, Send(s)
      PROVE  quiet = Interval \/ raised
  BY <1>1 DEF Send
<1>2. ASSUME NEW s \in Threads,
             TakeLock(s) \/ Answers(s) \/ Raises(s) \/ Keep(s) \/ LookUpDirectly(s)
      PROVE  FALSE
  BY <1>2 DEF TakeLock, Answers, Raises, Keep, LookUpDirectly
<1>3. ASSUME NEW s \in Threads, NEW p \in Queries, LookUp(s, p)
      PROVE  FALSE
  BY <1>3 DEF LookUp
<1>4. ASSUME NEW p \in Queries, Evict(p)
      PROVE  FALSE
  BY <1>4 DEF Evict
<1>5. CASE TimePasses \/ UNCHANGED limiterVars
  BY <1>5 DEF TimePasses, limiterVars
<1> QED BY <1>1, <1>2, <1>3, <1>4, <1>5 DEF LimiterNext

(* Whatever the threads look up, the host is left alone for the interval   *)
(* after every request it has answered (geocode.py:56-68).                 *)
THEOREM TheHostIsLeftAlone == LimiterSpec => AnswersAreFollowedByAPause
<1>1. LimiterInit => LimiterInv
  BY LimiterAssumption DEF LimiterInit, LimiterInv
<1>2. LimiterInv /\ [LimiterNext]_limiterVars => LimiterInv'
  BY LimiterInvStep
<1>3. LimiterInv /\ [LimiterNext]_limiterVars =>
        [\A t \in Threads : Sends(t) => quiet = Interval \/ raised]_limiterVars
  BY SendsAfterAPause
<1> QED BY <1>1, <1>2, <1>3, PTL DEF LimiterSpec, AnswersAreFollowedByAPause
-----------------------------------------------------------------------------
(* Numbers tell AirTags apart, those about to be inserted too.             *)
NumbersAreUnique ==
    /\ creates \in Nat
    /\ \A a \in airtags \cup creating : a.number \in 1..creates
    /\ \A a, b \in airtags \cup creating : a.number = b.number => a = b
    /\ airtags \cap creating = {}

(* What is about to be inserted was meant for the AirTag that has its id,  *)
(* if there is one and the id has not been given away since.               *)
UnderWayInv ==
    \A r \in {importing, batch} \ {Nothing}, a \in airtags :
        a.id = r.id => a = r \/ reused

RegistryInv ==
    NumbersAreUnique /\ CreatedAirtagsStay /\ UnderWayInv /\ RowsBelongToTheirAirtag

LEMMA RegistryInvStep ==
    ASSUME RegistryInv, [RegistryNext]_registryVars
    PROVE  RegistryInv'
<1> USE DEF RegistryInv, NumbersAreUnique, CreatedAirtagsStay, UnderWayInv,
            RowsBelongToTheirAirtag
<1>1. ASSUME NEW name \in BaseIds, ChooseId(name)
      PROVE  RegistryInv'
  <2> DEFINE new == [id |-> Slug(name, IdsOf(airtags)), number |-> creates + 1]
  <2>1. new.number = creates + 1 /\ new \notin airtags \cup creating
    OBVIOUS
  <2> HIDE DEF new
  <2>2. creating' = creating \cup {new} /\ creates' = creates + 1
    BY <1>1 DEF ChooseId, new
  <2> QED BY <1>1, <2>1, <2>2 DEF ChooseId
<1>2. ASSUME NEW c \in creating, Create(c)
      PROVE  RegistryInv'
  <2>1. CASE c.id \in IdsOf(airtags)
    BY <1>2, <2>1 DEF Create
  <2>2. CASE c.id \notin IdsOf(airtags)
    <3>1. \A a \in airtags : a.id # c.id
      BY <2>2 DEF IdsOf
    <3>2. /\ airtags' = airtags \cup {c} /\ creating' = creating \ {c}
          /\ promised' = promised \cup {c.number}
          /\ UNCHANGED <<creates, keys, trails, importing, batch>>
      BY <1>2, <2>2 DEF Create
    <3>3. reused => reused'
      BY <1>2, <2>2 DEF Create
    <3>4. ASSUME NEW r \in {importing, batch} \ {Nothing}, r.id = c.id
          PROVE  reused'
      BY <1>2, <2>2, <3>4 DEF Create
    <3>5. NumbersAreUnique'
      BY <3>2
    <3>6. CreatedAirtagsStay'
      BY <3>1, <3>2
    <3>7. UnderWayInv'
      BY <3>2, <3>3, <3>4
    <3>8. RowsBelongToTheirAirtag'
      BY <3>2, <3>3
    <3> QED BY <3>5, <3>6, <3>7, <3>8
  <2> QED BY <2>1, <2>2
<1>3. ASSUME NEW a \in airtags, Delete(a)
      PROVE  RegistryInv'
  BY <1>3 DEF Delete
<1>4. ASSUME NEW a \in airtags, FindForKey(a)
      PROVE  RegistryInv'
  BY <1>4 DEF FindForKey
<1>5. ASSUME NEW a \in airtags, RemoveKey(a)
      PROVE  RegistryInv'
  BY <1>5 DEF RemoveKey
<1>6. CASE SetKey
  BY <1>6 DEF SetKey, IdsOf
<1>7. CASE BeginPoll
  BY <1>7 DEF BeginPoll
<1>8. CASE InsertReports
  BY <1>8 DEF InsertReports, IdsOf
<1>9. ASSUME NEW id \in queue, Fetch(id)
      PROVE  RegistryInv'
  BY <1>9 DEF Fetch
<1>10. CASE UNCHANGED registryVars
  BY <1>10 DEF registryVars
<1> QED BY <1>1, <1>2, <1>3, <1>4, <1>5, <1>6, <1>7, <1>8, <1>9, <1>10 DEF RegistryNext

LEMMA RegistryInvInit == RegistryInit => RegistryInv
BY DEF RegistryInit, RegistryInv, NumbersAreUnique, CreatedAirtagsStay, UnderWayInv,
       RowsBelongToTheirAirtag

(* However many creates choose the same id, every AirTag whose creation    *)
(* was answered stays until it is deleted (web/app.py:691-704).            *)
THEOREM CreatesDoNotCollide == RegistrySpec => []CreatedAirtagsStay
<1>1. RegistryInv => CreatedAirtagsStay
  BY DEF RegistryInv
<1>2. RegistryInv /\ [RegistryNext]_registryVars => RegistryInv'
  BY RegistryInvStep
<1> QED BY <1>1, <1>2, RegistryInvInit, PTL DEF RegistrySpec

(* Deletions leave no key and no report behind, and none reaches an AirTag *)
(* it was not meant for unless an id is given away under it (db.py:371).   *)
THEOREM NoOrphanRows == RegistrySpec => []RowsBelongToTheirAirtag
<1>1. RegistryInv => RowsBelongToTheirAirtag
  BY DEF RegistryInv
<1>2. RegistryInv /\ [RegistryNext]_registryVars => RegistryInv'
  BY RegistryInvStep
<1> QED BY <1>1, <1>2, RegistryInvInit, PTL DEF RegistrySpec
-----------------------------------------------------------------------------
(* The bot: what a request may look like on its way.                       *)
CallShapes ==
    [n : Nat, op : {"load", "enable", "disable", "connect", "disconnect"},
     stage : {"sent", "telegram", "commit", "refused", "done", "asked", "read"},
     bot : Bots \cup {NoBot}, waits : BOOLEAN,
     got : [connected : BOOLEAN, enabled : BOOLEAN]]

BotTypes ==
    /\ row \in [bot : Bots \cup {NoBot}, enabled : BOOLEAN, secret : Nat]
    /\ row.enabled => row.bot # NoBot
    /\ webhook \in [Bots -> Nat]
    /\ calls \subseteq CallShapes
    /\ sent \in Nat
    /\ \A c \in calls : /\ c.op = "load" => c.stage \in {"asked", "read"}
                        /\ c.op = "connect" => c.bot \in Bots /\ c.stage # "commit"

OneAtServer == \A c, d \in calls : AtServer(c) /\ AtServer(d) => c = d

(* Without overlaps the one request at the server is about the bot of the  *)
(* table, an enable that is about to commit has registered its secret, and *)
(* the table is only ahead of Telegram while a commit is due.              *)
HearingInv ==
    ~crossed =>
       /\ OneAtServer
       /\ \A c \in calls : c.stage = "telegram" => c.bot = row.bot /\ row.bot # NoBot
       /\ \A c \in calls : c.stage = "commit" /\ c.op = "enable" =>
             row.bot # NoBot /\ webhook[row.bot] = c.n
       /\ row.enabled /\ ~halfway => Heard \/ \E c \in calls : c.stage = "commit"

(* While the page misses nothing it has one request at most, awaits it,    *)
(* and the status it has read is the stored one.                           *)
ShowingInv ==
    ~missed =>
       /\ \A c, d \in calls : c = d
       /\ ~told /\ ~crossed =>
            /\ calls = {} => panel \in {Unknown, Status}
            /\ \A c \in calls : /\ c.waits
                                /\ c.op = "load" => panel = Unknown
                                /\ c.stage = "read" => c.got = Status

LEMMA NewCall ==
    ASSUME NEW n \in Nat, NEW op \in {"load", "enable", "disable", "connect", "disconnect"},
           NEW goal \in {"sent", "asked"}, NEW bot \in Bots \cup {NoBot}
    PROVE  /\ Call(n, op, goal, bot) \in CallShapes
           /\ Call(n, op, goal, bot).op = op
           /\ Call(n, op, goal, bot).stage = goal
           /\ Call(n, op, goal, bot).bot = bot
           /\ Call(n, op, goal, bot).waits
BY DEF Call, CallShapes, Unknown

LEMMA AskTypes ==
    ASSUME BotTypes, NEW op \in {"enable", "disable", "connect", "disconnect"},
           NEW bot \in Bots \cup {NoBot}, op = "connect" => bot \in Bots, Ask(op, bot)
    PROVE  BotTypes'
<1> DEFINE new == Call(sent + 1, op, "sent", bot)
<1>1. /\ new \in CallShapes /\ new.op = op /\ new.stage = "sent" /\ new.bot = bot
  <2>1. sent + 1 \in Nat
    BY DEF BotTypes
  <2> QED BY <2>1, NewCall
<1>2. calls' = calls \cup {new} /\ sent' = sent + 1 /\ UNCHANGED <<row, webhook>>
  BY DEF Ask
<1> HIDE DEF new
<1> QED BY <1>1, <1>2 DEF BotTypes

(* A request goes on at the server, or is over.                            *)
LEMMA ServeTypes ==
    ASSUME BotTypes, NEW c \in calls,
           NEW goal \in {"telegram", "commit", "refused", "done"},
           NEW bot \in Bots \cup {NoBot}, Serve(c, goal, bot),
           c.op # "load", c.op = "connect" => bot \in Bots /\ goal # "commit"
    PROVE  calls' \subseteq CallShapes
           /\ \A d \in calls' : /\ d.op = "load" => d.stage \in {"asked", "read"}
                                /\ d.op = "connect" => d.bot \in Bots /\ d.stage # "commit"
<1> DEFINE next == [c EXCEPT !.stage = goal, !.bot = bot]
<1>1. next \in CallShapes /\ next.op = c.op /\ next.stage = goal /\ next.bot = bot
  BY DEF BotTypes, CallShapes
<1>2. calls' \subseteq (calls \ {c}) \cup {next}
  BY DEF Serve
<1> HIDE DEF next
<1> QED BY <1>1, <1>2 DEF BotTypes

LEMMA BotTypesStep == BotTypes /\ [BotNext]_botVars => BotTypes'
<1> SUFFICES ASSUME BotTypes, [BotNext]_botVars
             PROVE  BotTypes'
  OBVIOUS
<1>1. CASE HandleToggleCommands \/ HandleDisconnect \/ \E b \in Bots : HandleSave(b)
  BY <1>1, AskTypes DEF HandleToggleCommands, HandleDisconnect, HandleSave
<1>2. ASSUME NEW c \in calls, RequestDone(c) \/ StatusRead(c)
      PROVE  BotTypes'
  <2>1. Status \in [connected : BOOLEAN, enabled : BOOLEAN]
    BY DEF Status, BotTypes
  <2> DEFINE asked == [c EXCEPT !.stage = "asked"]
             read == [c EXCEPT !.stage = "read", !.got = Status]
  <2>2. /\ asked \in CallShapes /\ asked.op = c.op /\ asked.bot = c.bot /\ asked.stage = "asked"
        /\ read \in CallShapes /\ read.op = c.op /\ read.bot = c.bot /\ read.stage = "read"
    BY <2>1 DEF BotTypes, CallShapes
  <2>3. calls' \subseteq calls \cup {asked, read} /\ UNCHANGED <<row, webhook, sent>>
    BY <1>2 DEF RequestDone, StatusRead, Become
  <2> HIDE DEF asked, read
  <2> QED BY <2>2, <2>3 DEF BotTypes
<1>3. ASSUME NEW c \in calls, StatusShown(c)
      PROVE  BotTypes'
  BY <1>3 DEF StatusShown, BotTypes
<1>4. ASSUME NEW c \in calls, Fails(c)
      PROVE  BotTypes'
  <2> DEFINE deaf == [c EXCEPT !.waits = FALSE]
  <2>1. deaf \in CallShapes /\ deaf.op = c.op /\ deaf.stage = c.stage /\ deaf.bot = c.bot
    BY DEF BotTypes, CallShapes
  <2>2. calls' \subseteq calls \cup {deaf} /\ UNCHANGED <<row, webhook, sent>>
    BY <1>4 DEF Fails
  <2> HIDE DEF deaf
  <2> QED BY <2>1, <2>2 DEF BotTypes
<1>5. CASE Reopen
  <2> DEFINE deaf(c) == [c EXCEPT !.waits = FALSE]
  <2>1. \A c \in calls : deaf(c) \in CallShapes /\ deaf(c).op = c.op
                         /\ deaf(c).stage = c.stage /\ deaf(c).bot = c.bot
    BY DEF BotTypes, CallShapes
  <2>2. /\ calls' = {deaf(c) : c \in {d \in calls : AtServer(d)}} \cup {Call(0, "load", "asked", NoBot)}
        /\ UNCHANGED <<row, webhook, sent>>
    BY <1>5 DEF Reopen
  <2> HIDE DEF deaf
  <2>3. PICK load \in CallShapes : load = Call(0, "load", "asked", NoBot) /\ load.op = "load"
                                  /\ load.stage = "asked"
    BY NewCall
  <2> QED BY <2>1, <2>2, <2>3 DEF BotTypes
<1>6. CASE ServerStops
  <2> DEFINE stopped(c) == IF AtServer(c) THEN [c EXCEPT !.stage = "refused"] ELSE c
  <2>1. \A c \in calls : /\ stopped(c) \in CallShapes /\ stopped(c).op = c.op
                         /\ stopped(c).bot = c.bot
                         /\ stopped(c).stage = c.stage \/ (AtServer(c) /\ stopped(c).stage = "refused")
    BY DEF BotTypes, CallShapes
  <2>2. /\ calls' = {stopped(c) : c \in {d \in calls : d.waits}} /\ UNCHANGED <<row, webhook, sent>>
    BY <1>6 DEF ServerStops
  <2> HIDE DEF stopped
  <2> QED BY <2>1, <2>2 DEF BotTypes, AtServer
<1>7. ASSUME NEW c \in calls, ReadCredentials(c)
      PROVE  BotTypes'
  <2>1. PICK goal \in {"telegram", "commit", "refused"} : Serve(c, goal, row.bot)
    BY <1>7 DEF ReadCredentials
  <2>2. c.op \notin {"load", "connect"} /\ row.bot \in Bots \cup {NoBot}
    BY <1>7 DEF ReadCredentials, BotTypes
  <2>3. UNCHANGED <<row, webhook, sent>>
    BY <1>7 DEF ReadCredentials
  <2> QED BY <2>1, <2>2, <2>3, ServeTypes DEF BotTypes
<1>8. ASSUME NEW c \in calls, SetWebhook(c) \/ SetWebhookFails(c) \/ DeleteWebhook(c)
      PROVE  BotTypes'
  <2>1. PICK goal \in {"commit", "refused"} : Serve(c, goal, c.bot)
    BY <1>8 DEF SetWebhook, SetWebhookFails, DeleteWebhook
  <2>2. c.op \notin {"load", "connect"} /\ c.bot \in Bots \cup {NoBot} /\ c.n \in Nat
    BY <1>8 DEF SetWebhook, SetWebhookFails, DeleteWebhook, BotTypes, CallShapes
  <2>3. webhook' \in [Bots -> Nat] /\ UNCHANGED <<row, sent>>
    BY <1>8, <2>2 DEF SetWebhook, SetWebhookFails, DeleteWebhook, BotTypes
  <2> QED BY <2>1, <2>2, <2>3, ServeTypes DEF BotTypes
<1>9. ASSUME NEW c \in calls, CommitRequest(c) \/ Connect(c)
      PROVE  BotTypes'
  <2>1. c.op # "load" /\ (c.op = "connect" => c.bot \in Bots) /\ c.bot \in Bots \cup {NoBot}
        /\ c.n \in Nat /\ Serve(c, "done", c.bot)
    BY <1>9 DEF CommitRequest, Connect, BotTypes, CallShapes
  <2>2. row' \in [bot : Bots \cup {NoBot}, enabled : BOOLEAN, secret : Nat]
        /\ (row'.enabled => row'.bot # NoBot)
    <3>1. CASE Connect(c)
      BY <2>1, <3>1 DEF Connect
    <3>2. CASE CommitRequest(c) /\ row' = NoRow
      BY <3>2 DEF NoRow
    <3>3. CASE CommitRequest(c) /\ row' # NoRow
      BY <2>1, <3>3 DEF CommitRequest, BotTypes
    <3> QED BY <1>9, <3>1, <3>2, <3>3
  <2>3. UNCHANGED <<webhook, sent>>
    BY <1>9 DEF CommitRequest, Connect
  <2> QED BY <2>1, <2>2, <2>3, ServeTypes DEF BotTypes
<1>10. CASE UNCHANGED botVars
  BY <1>10 DEF botVars, BotTypes
<1> QED BY <1>1, <1>2, <1>3, <1>4, <1>5, <1>6, <1>7, <1>8, <1>9, <1>10 DEF BotNext

LEMMA OneGoesOn ==
    ASSUME OneAtServer, NEW c \in calls, NEW next, AtServer(next) => AtServer(c),
           calls' \subseteq (calls \ {c}) \cup {next}
    PROVE  OneAtServer'
BY DEF OneAtServer, AtServer

LEMMA HearingInvStep == BotTypes /\ HearingInv /\ [BotNext]_botVars => HearingInv'
<1> SUFFICES ASSUME BotTypes, HearingInv, [BotNext]_botVars, ~crossed'
             PROVE  HearingInv'
  BY DEF HearingInv
<1>1. ASSUME NEW op \in {"enable", "disable", "connect", "disconnect"}, NEW bot, Ask(op, bot)
      PROVE  HearingInv'
  <2>1. ~crossed /\ AtRest
    BY <1>1 DEF Ask
  <2>2. calls' = calls \cup {Call(sent + 1, op, "sent", bot)} /\ UNCHANGED <<row, webhook, halfway>>
    BY <1>1 DEF Ask
  <2>3. Call(sent + 1, op, "sent", bot).stage = "sent"
    BY DEF Call
  <2> QED BY <2>1, <2>2, <2>3 DEF AtRest, HearingInv, OneAtServer, AtServer, Heard
<1>2. CASE HandleToggleCommands \/ HandleDisconnect \/ \E b \in Bots : HandleSave(b)
  BY <1>1, <1>2 DEF HandleToggleCommands, HandleDisconnect, HandleSave
<1>3. CASE Reopen
  <2> DEFINE deaf(c) == [c EXCEPT !.waits = FALSE]
             load == Call(0, "load", "asked", NoBot)
  <2>1. \A c \in calls : deaf(c).op = c.op /\ deaf(c).stage = c.stage /\ deaf(c).bot = c.bot
                         /\ deaf(c).n = c.n
    BY DEF BotTypes, CallShapes
  <2>2. load.stage = "asked"
    BY DEF Call
  <2>3. /\ calls' = {deaf(c) : c \in {d \in calls : AtServer(d)}} \cup {load}
        /\ UNCHANGED <<row, webhook, crossed, halfway>>
    BY <1>3 DEF Reopen
  <2> HIDE DEF deaf, load
  <2> QED BY <2>1, <2>2, <2>3 DEF HearingInv, OneAtServer, AtServer, Heard
<1>4. CASE ServerStops
  BY <1>4 DEF ServerStops
<1>5. ASSUME NEW c \in calls, RequestDone(c) \/ StatusRead(c) \/ StatusShown(c)
      PROVE  HearingInv'
  <2>1. ~AtServer(c)
    BY <1>5 DEF RequestDone, StatusRead, StatusShown, AtServer
  <2>2. /\ calls' \subseteq (calls \ {c}) \cup {d \in calls' : ~AtServer(d)}
        /\ \A d \in calls : AtServer(d) => d \in calls'
    <3> DEFINE asked == [c EXCEPT !.stage = "asked"]
               read == [c EXCEPT !.stage = "read", !.got = Status]
    <3>1. asked.stage = "asked" /\ read.stage = "read"
      BY DEF BotTypes, CallShapes
    <3>2. calls \ {c} \subseteq calls' /\ calls' \subseteq (calls \ {c}) \cup {asked, read}
      BY <1>5 DEF RequestDone, StatusRead, StatusShown, Become
    <3> HIDE DEF asked, read
    <3> QED BY <2>1, <3>1, <3>2 DEF AtServer
  <2>3. UNCHANGED <<row, webhook, crossed, halfway>>
    BY <1>5 DEF RequestDone, StatusRead, StatusShown, flags
  <2> QED BY <2>1, <2>2, <2>3 DEF HearingInv, OneAtServer, AtServer, Heard
<1>6. ASSUME NEW c \in calls, Fails(c)
      PROVE  HearingInv'
  <2> DEFINE deaf == [c EXCEPT !.waits = FALSE]
  <2>1. deaf.op = c.op /\ deaf.stage = c.stage /\ deaf.bot = c.bot /\ deaf.n = c.n
    BY DEF BotTypes, CallShapes
  <2>2. calls' = IF AtServer(c) THEN (calls \ {c}) \cup {deaf} ELSE calls \ {c}
    BY <1>6 DEF Fails
  <2>3. UNCHANGED <<row, webhook, crossed, halfway>>
    BY <1>6 DEF Fails
  <2> HIDE DEF deaf
  <2> QED BY <2>1, <2>2, <2>3 DEF HearingInv, OneAtServer, AtServer, Heard
<1>7. ASSUME NEW c \in calls, NEW goal, NEW bot, Serve(c, goal, bot), AtServer(c),
             crossed' = crossed
      PROVE  /\ OneAtServer' /\ OneAtServer
             /\ \A d \in calls' : AtServer(d) =>
                  d.op = c.op /\ d.n = c.n /\ d.stage = goal /\ d.bot = bot
             /\ goal = "commit" => \E d \in calls' : d.stage = "commit"
             /\ \A d \in calls : AtServer(d) => d = c
  <2> DEFINE next == [c EXCEPT !.stage = goal, !.bot = bot]
  <2>1. next.op = c.op /\ next.n = c.n /\ next.stage = goal /\ next.bot = bot
    BY DEF BotTypes, CallShapes
  <2>2. /\ calls' \subseteq (calls \ {c}) \cup {next}
        /\ goal = "commit" => next \in calls'
    BY <1>7 DEF Serve
  <2>3. OneAtServer
    BY <1>7 DEF HearingInv
  <2> HIDE DEF next
  <2>4. OneAtServer'
    BY <1>7, <2>2, <2>3, OneGoesOn
  <2> QED BY <1>7, <2>1, <2>2, <2>3, <2>4 DEF OneAtServer, AtServer
<1>8. ASSUME NEW c \in calls, ReadCredentials(c)
      PROVE  HearingInv'
  <2>1. PICK goal \in {"telegram", "commit", "refused"} :
           /\ Serve(c, goal, row.bot)
           /\ goal = "telegram" => row.bot # NoBot
           /\ goal = "commit" => c.op # "enable" /\ ~row.enabled
    BY <1>8 DEF ReadCredentials, BotTypes
  <2>2. AtServer(c) /\ c.stage = "sent" /\ UNCHANGED <<row, webhook, crossed, halfway>>
    BY <1>8 DEF ReadCredentials, AtServer, flags
  <2>3. ~halfway' /\ row'.enabled => Heard'
    BY <2>1, <2>2, <1>7 DEF HearingInv, AtServer, Heard
  <2> QED BY <2>1, <2>2, <2>3, <1>7 DEF HearingInv, AtServer
<1>9. ASSUME NEW c \in calls, SetWebhook(c)
      PROVE  HearingInv'
  <2>1. /\ Serve(c, "commit", c.bot) /\ c.stage = "telegram" /\ AtServer(c)
        /\ UNCHANGED <<row, crossed, halfway>>
        /\ webhook' = [webhook EXCEPT ![c.bot] = c.n]
    BY <1>9 DEF SetWebhook, AtServer, flags
  <2>2. c.bot = row.bot /\ row.bot # NoBot /\ row.bot \in Bots
    BY <2>1 DEF HearingInv, BotTypes
  <2>3. webhook'[row'.bot] = c.n
    BY <2>1, <2>2 DEF BotTypes
  <2> QED BY <2>1, <2>2, <2>3, <1>7 DEF HearingInv, AtServer
<1>10. ASSUME NEW c \in calls, SetWebhookFails(c)
      PROVE  HearingInv'
  <2>1. /\ Serve(c, "refused", c.bot) /\ c.stage = "telegram" /\ AtServer(c)
        /\ UNCHANGED <<row, crossed>>
        /\ halfway' \/ UNCHANGED <<webhook, halfway>>
    BY <1>10 DEF SetWebhookFails, AtServer
  <2> QED BY <2>1, <1>7 DEF HearingInv, AtServer, Heard
<1>11. ASSUME NEW c \in calls, DeleteWebhook(c)
      PROVE  HearingInv'
  <2>1. /\ Serve(c, "commit", c.bot) /\ c.stage = "telegram" /\ AtServer(c)
        /\ UNCHANGED <<row, crossed, halfway>> /\ c.op # "enable"
    BY <1>11 DEF DeleteWebhook, AtServer, flags
  <2> QED BY <2>1, <1>7 DEF HearingInv, AtServer
<1>12. ASSUME NEW c \in calls, CommitRequest(c)
      PROVE  HearingInv'
  <2>1. /\ Serve(c, "done", c.bot) /\ c.stage = "commit" /\ AtServer(c)
        /\ UNCHANGED <<webhook, crossed, halfway>>
    BY <1>12 DEF CommitRequest, AtServer, flags
  <2>2. row'.enabled => Heard'
    <3>1. CASE row' = NoRow
      BY <3>1 DEF NoRow
    <3>2. CASE row' # NoRow
      <4>1. row' = [row EXCEPT !.enabled = (c.op = "enable"),
                               !.secret = IF c.op = "enable" THEN c.n ELSE 0]
        BY <1>12, <3>2 DEF CommitRequest
      <4>2. row'.enabled = (c.op = "enable") /\ row'.bot = row.bot
            /\ (c.op = "enable" => row'.secret = c.n)
        BY <4>1 DEF BotTypes
      <4> QED BY <2>1, <4>2 DEF HearingInv, Heard
    <3> QED BY <3>1, <3>2
  <2> QED BY <2>1, <2>2, <1>7 DEF HearingInv, AtServer
<1>13. ASSUME NEW c \in calls, Connect(c)
      PROVE  HearingInv'
  <2>1. /\ Serve(c, "done", c.bot) /\ AtServer(c) /\ ~row'.enabled /\ UNCHANGED crossed
    BY <1>13 DEF Connect, AtServer, flags
  <2> QED BY <2>1, <1>7 DEF HearingInv, AtServer
<1>14. CASE UNCHANGED botVars
  <2>1. UNCHANGED <<calls, row, webhook, crossed, halfway>>
    BY <1>14 DEF botVars, flags
  <2> QED BY <2>1 DEF HearingInv, OneAtServer, AtServer, Heard
<1> QED BY <1>2, <1>3, <1>4, <1>5, <1>6, <1>8, <1>9, <1>10, <1>11, <1>12, <1>13, <1>14
        DEF BotNext

LEMMA ShowingInvStep == BotTypes /\ ShowingInv /\ [BotNext]_botVars => ShowingInv'
<1> SUFFICES ASSUME BotTypes, ShowingInv, [BotNext]_botVars, ~missed'
             PROVE  ShowingInv'
  BY DEF ShowingInv
<1>1. ASSUME NEW op \in {"enable", "disable", "connect", "disconnect"}, NEW bot, Ask(op, bot)
      PROVE  ShowingInv'
  <2>1. calls = {} /\ calls' = calls \cup {Call(sent + 1, op, "sent", bot)}
    BY <1>1 DEF Ask
  <2>2. \A c \in calls' : c.op = op /\ c.stage = "sent" /\ c.waits
    BY <2>1 DEF Call
  <2> QED BY <2>1, <2>2 DEF ShowingInv
<1>2. CASE HandleToggleCommands \/ HandleDisconnect \/ \E b \in Bots : HandleSave(b)
  BY <1>1, <1>2 DEF HandleToggleCommands, HandleDisconnect, HandleSave
<1>3. CASE Reopen
  <2>1. calls' = {Call(0, "load", "asked", NoBot)} /\ panel' = Unknown
    BY <1>3 DEF Reopen, AtRest
  <2> QED BY <2>1 DEF ShowingInv, Call
<1>4. CASE ServerStops
  BY <1>4 DEF ServerStops, ShowingInv
<1>5. ASSUME NEW c \in calls, RequestDone(c)
      PROVE  ShowingInv'
  BY <1>5 DEF RequestDone, Become, ShowingInv, BotTypes, CallShapes, flags, Status
<1>6. ASSUME NEW c \in calls, StatusRead(c)
      PROVE  ShowingInv'
  <2>1. Status' = Status
    BY <1>6 DEF StatusRead, Status
  <2>2. c \in CallShapes
    BY DEF BotTypes
  <2>3. [c EXCEPT !.stage = "read", !.got = Status].waits = c.waits
        /\ [c EXCEPT !.stage = "read", !.got = Status].op = c.op
        /\ [c EXCEPT !.stage = "read", !.got = Status].got = Status
    BY <2>2 DEF CallShapes
  <2> QED BY <1>6, <2>1, <2>3 DEF StatusRead, Become, ShowingInv, flags
<1>7. ASSUME NEW c \in calls, StatusShown(c)
      PROVE  ShowingInv'
  <2>1. Status' = Status
    BY <1>7 DEF StatusShown, Status
  <2> QED BY <1>7, <2>1 DEF StatusShown, ShowingInv, flags
<1>8. ASSUME NEW c \in calls, Fails(c)
      PROVE  ShowingInv'
  <2>1. c.op \in {"enable", "disable", "connect"} => told'
    BY <1>8 DEF Fails
  <2>2. c.op # "disconnect" /\ ~missed
    BY <1>8 DEF Fails
  <2>3. CASE c.op = "load"
    <3>1. ~AtServer(c) /\ calls' = calls \ {c} /\ UNCHANGED <<panel, row, crossed>>
      BY <1>8, <2>3 DEF Fails, AtServer, BotTypes
    <3>2. ~told' => ~told
      BY <1>8 DEF Fails
    <3> QED BY <2>2, <2>3, <3>1, <3>2 DEF ShowingInv
  <2>4. CASE c.op # "load"
    <3>1. told'
      BY <2>1, <2>2, <2>4 DEF BotTypes, CallShapes
    <3>2. calls' \subseteq (calls \ {c}) \cup {[c EXCEPT !.waits = FALSE]}
      BY <1>8 DEF Fails
    <3> QED BY <2>2, <3>1, <3>2 DEF ShowingInv
  <2> QED BY <2>3, <2>4
<1>9. ASSUME NEW c \in calls, NEW goal, NEW bot, Serve(c, goal, bot), AtServer(c),
             goal \in {"telegram", "commit", "refused", "done"},
             UNCHANGED <<panel, told, crossed, missed>>
      PROVE  ShowingInv'
  <2> DEFINE next == [c EXCEPT !.stage = goal, !.bot = bot]
  <2>1. next.op = c.op /\ next.waits = c.waits /\ next.stage = goal
    BY DEF BotTypes, CallShapes
  <2>2. calls' = (calls \ {c}) \cup (IF goal \in {"done", "refused"} /\ ~c.waits THEN {} ELSE {next})
    BY <1>9 DEF Serve
  <2>3. c.op # "load"
    BY <1>9 DEF AtServer, BotTypes
  <2> HIDE DEF next
  <2> QED BY <1>9, <2>1, <2>2, <2>3 DEF ShowingInv
<1>10. ASSUME NEW c \in calls,
              \/ ReadCredentials(c) \/ SetWebhook(c) \/ SetWebhookFails(c) \/ DeleteWebhook(c)
              \/ CommitRequest(c) \/ Connect(c)
       PROVE  ShowingInv'
  <2>1. UNCHANGED <<panel, told, crossed, missed>> /\ AtServer(c)
    BY <1>10 DEF ReadCredentials, SetWebhook, SetWebhookFails, DeleteWebhook, CommitRequest, Connect,
                 flags, AtServer
  <2>2. PICK goal \in {"telegram", "commit", "refused", "done"}, bot \in {row.bot, c.bot} :
           Serve(c, goal, bot)
    BY <1>10 DEF ReadCredentials, SetWebhook, SetWebhookFails, DeleteWebhook, CommitRequest, Connect
  <2> QED BY <2>1, <2>2, <1>9
<1>11. CASE UNCHANGED botVars
  <2>1. UNCHANGED <<calls, row, panel, told, crossed, missed>>
    BY <1>11 DEF botVars, flags
  <2>2. Status' = Status
    BY <2>1 DEF Status
  <2> QED BY <2>1, <2>2 DEF ShowingInv
<1> QED BY <1>2, <1>3, <1>4, <1>5, <1>6, <1>7, <1>8, <1>10, <1>11 DEF BotNext

BotInv == BotTypes /\ HearingInv /\ ShowingInv

LEMMA BotInvHolds == BotSpec => []BotInv
<1>1. BotInit => BotInv
  <2> SUFFICES ASSUME BotInit
               PROVE  BotInv
    OBVIOUS
  <2>1. calls = {Call(0, "load", "asked", NoBot)} /\ panel = Unknown /\ row = NoRow
    BY DEF BotInit
  <2>2. PICK load \in CallShapes : calls = {load} /\ load.op = "load" /\ load.stage = "asked"
                                  /\ load.waits
    BY <2>1, NewCall
  <2>3. BotTypes
    BY <2>2, BotAssumption DEF BotInit, BotTypes, NoRow
  <2> QED BY <2>1, <2>2, <2>3 DEF BotInv, HearingInv, ShowingInv, OneAtServer, NoRow
<1> QED BY <1>1, BotTypesStep, HearingInvStep, ShowingInvStep, PTL DEF BotSpec, BotInv

(* For any bots and any number of requests: a bot that the table says is  *)
(* enabled is, with no request under way, one whose webhook has the stored *)
(* secret, as long as no two requests that change it have overlapped and   *)
(* of no enable the second call to Telegram alone has failed               *)
(* (web/app.py:1365-1426).                                                 *)
THEOREM TheBotIsHeard == BotSpec => []EnabledBotHears
<1>1. BotInv => EnabledBotHears
  BY DEF BotInv, HearingInv, EnabledBotHears, AtRest, AtServer
<1> QED BY <1>1, BotInvHolds, PTL

(* For any bots and any number of requests: a panel that waits for nothing *)
(* and shows no error shows what is stored, as long as no two requests     *)
(* have overlapped at the server, the status was never read during a       *)
(* change, and no error went unshown (TelegramPanel.tsx:26-89).            *)
THEOREM ThePanelIsTruthful == BotSpec => []PanelIsTruthful
<1>1. BotInv => PanelIsTruthful
  BY DEF BotInv, ShowingInv, PanelIsTruthful
<1> QED BY <1>1, BotInvHolds, PTL
-----------------------------------------------------------------------------
Rows == [Devices -> SUBSET [t : Times, pos : Spots, acc : {None}, conf : {None}]]

(* What is still to be judged has been recorded.                           *)
TodoIsRecorded ==
    \A item \in todo : item.device \in Devices /\ item.reading \in readings[item.device]

(* Nothing deletes a reading, so the reading and the witness of an alert   *)
(* remain.                                                                 *)
WitnessInv ==
    /\ readings \in Rows
    /\ now \in Times
    /\ alerts \in [Devices -> [Times -> Nat]]
    /\ TodoIsRecorded
    /\ AlertsHaveAWitness

LEMMA LatestIsLast ==
    ASSUME NEW S, S # {}, \A r \in S : r.t \in Times
    PROVE  LatestReading(S) \in S /\ \A r \in S : r.t =< LatestReading(S).t
<1> DEFINE Ages == {MaxTime - r.t : r \in S}
<1>1. Ages \subseteq Nat /\ Ages # {}
  BY MaxTimeAssumption DEF Times
<1>2. PICK age \in Ages : \A other \in Ages : ~ (<<other, age>> \in OpToRel(<, Nat))
  BY <1>1, NatLessThanWellFounded, WFMin
<1>3. \A other \in Ages : ~ (other < age)
  BY <1>1, <1>2 DEF OpToRel
<1>4. PICK last \in S : age = MaxTime - last.t
  OBVIOUS
<1>5. \A r \in S : r.t =< last.t
  <2> SUFFICES ASSUME NEW r \in S
               PROVE  r.t =< last.t
    OBVIOUS
  <2>1. MaxTime - r.t \in Ages
    OBVIOUS
  <2>2. ~ (MaxTime - r.t < MaxTime - last.t)
    BY <1>3, <1>4, <2>1
  <2>3. r.t \in 0 .. MaxTime /\ last.t \in 0 .. MaxTime
    BY DEF Times
  <2> QED BY <2>2, <2>3, MaxTimeAssumption
<1> QED BY <1>5 DEF LatestReading

(* An object is only away from a reading there is.                         *)
LEMMA AwayNeedsAReading ==
    ASSUME NEW S, NEW t, NEW near \in NearestReadings(S, t), NEW r, IsAway(r, near, AwayCfg)
    PROVE  near \in S
BY DEF NearestReadings, IsAway

LEMMA RecordedStays ==
    ASSUME readings \in Rows, now \in Times, now < MaxTime, NEW rows \in Fetches, Record(rows)
    PROVE  readings' \in Rows /\ \A d \in Devices : readings[d] \subseteq readings'[d]
<1>1. now + 1 \in Times
  BY MaxTimeAssumption DEF Times
<1>2. rows \in [Devices -> {{Located(x, now + 1)} : x \in Spots} \cup {{}}]
  BY DEF Fetches
<1>3. rows \in Rows
  BY <1>1, <1>2 DEF Rows, Located
<1> QED BY <1>3 DEF Record, Rows

(* Alerts are kept; their witnesses are, when readings are only added.     *)
LEMMA WitnessStays ==
    ASSUME AlertsHaveAWitness, alerts' = alerts,
           \A d \in Devices : readings[d] \subseteq readings'[d]
    PROVE  AlertsHaveAWitness'
BY PrimaryAssumption DEF AlertsHaveAWitness

LEMMA JudgedWithWitness ==
    ASSUME WitnessInv, NEW item \in todo, NEW near, NEW previous, NEW t,
           near \in NearestReadings(readings'[Primary], t),
           Judge(item, near, previous),
           readings' \in Rows,
           \A d \in Devices : readings[d] \subseteq readings'[d],
           now' \in Times
    PROVE  WitnessInv'
<1> DEFINE d == item.device
           at == item.reading.t
<1>1. /\ d \in Devices /\ item.reading \in readings[d] /\ item.reading \in readings'[d]
      /\ at \in Times
  BY DEF WitnessInv, TodoIsRecorded, Rows
<1>2. TodoIsRecorded'
  BY DEF Judge, WitnessInv, TodoIsRecorded
<1>3. CASE IsAway(item.reading, near, AwayCfg)
  <2>1. near \in readings'[Primary]
    BY <1>3, AwayNeedsAReading
  <2>2. alerts' = [alerts EXCEPT ![d][at] = Capped(@ + 1)]
    BY <1>3 DEF Judge
  <2>3. alerts' \in [Devices -> [Times -> Nat]]
    <3>1. Capped(alerts[d][at] + 1) \in Nat
      BY <1>1 DEF Capped, MaxAlerts, WitnessInv
    <3> QED BY <1>1, <2>2, <3>1 DEF WitnessInv
  <2>4. \A e \in Devices : \A u \in Times :
           e # d \/ u # at => alerts'[e][u] = alerts[e][u]
    BY <1>1, <2>2 DEF WitnessInv
  <2>5. AlertsHaveAWitness'
    <3> SUFFICES ASSUME NEW e \in Devices, NEW u \in Times, alerts'[e][u] > 0
                 PROVE  \E r \in readings'[e], w \in readings'[Primary] :
                           r.t = u /\ IsAway(r, w, AwayCfg)
      BY DEF AlertsHaveAWitness
    <3>1. CASE e = d /\ u = at
      BY <1>1, <1>3, <2>1, <3>1
    <3>2. CASE e # d \/ u # at
      BY <2>4, <3>2, PrimaryAssumption DEF WitnessInv, AlertsHaveAWitness
    <3> QED BY <3>1, <3>2
  <2> QED BY <1>2, <2>3, <2>5 DEF WitnessInv
<1>4. CASE ~IsAway(item.reading, near, AwayCfg)
  <2>1. alerts' = alerts
    BY <1>4 DEF Judge
  <2> QED BY <1>2, <2>1, WitnessStays DEF WitnessInv
<1> QED BY <1>3, <1>4

LEMMA WitnessInvStep == WitnessInv /\ [AwayNext]_awayVars => WitnessInv'
<1> SUFFICES ASSUME WitnessInv, [AwayNext]_awayVars
             PROVE  WitnessInv'
  OBVIOUS
<1>1. CASE Refresh
  <2>1. CASE now < MaxTime /\ (\E rows \in Fetches : Record(rows)) /\ now' = now + 1
    <3>1. now' \in Times
      BY <2>1, MaxTimeAssumption DEF WitnessInv, Times
    <3>2. readings' \in Rows /\ \A d \in Devices : readings[d] \subseteq readings'[d]
      BY <2>1, RecordedStays DEF WitnessInv
    <3>3. alerts' = alerts /\ todo' = todo
      BY <1>1 DEF Refresh
    <3> QED BY <3>1, <3>2, <3>3, WitnessStays DEF WitnessInv, TodoIsRecorded
  <2>2. CASE UNCHANGED <<readings, now>>
    BY <1>1, <2>2 DEF Refresh, WitnessInv, TodoIsRecorded, AlertsHaveAWitness
  <2> QED BY <1>1, <2>1, <2>2 DEF Refresh
<1>2. CASE Select
  <2>1. UNCHANGED <<readings, alerts, now>>
    BY <1>2 DEF Select
  <2>2. ASSUME NEW d \in Devices, readings[d] # {}
        PROVE  LatestReading(readings[d]) \in readings[d]
    BY <2>2, LatestIsLast DEF WitnessInv, Rows
  <2>3. TodoIsRecorded'
    BY <1>2, <2>1, <2>2 DEF Select, Latest, TodoIsRecorded
  <2> QED BY <2>1, <2>3 DEF WitnessInv, AlertsHaveAWitness
<1>3. ASSUME NEW item \in todo, Skip(item)
      PROVE  WitnessInv'
  BY <1>3 DEF Skip, WitnessInv, TodoIsRecorded, AlertsHaveAWitness
<1>4. ASSUME NEW item \in todo, JudgeRecorded(item) \/ JudgeUnfetched(item)
      PROVE  WitnessInv'
  <2>1. UNCHANGED <<readings, now>>
    BY <1>4 DEF JudgeRecorded, JudgeUnfetched
  <2>2. PICK near \in NearestReadings(readings[Primary], item.reading.t) :
           Judge(item, near, PreviousReading(item.device))
    BY <1>4 DEF JudgeRecorded, JudgeUnfetched
  <2> QED BY <2>1, <2>2, JudgedWithWitness DEF WitnessInv
<1>5. ASSUME NEW item \in todo, JudgeFetched(item)
      PROVE  WitnessInv'
  <2>1. now' \in Times
    BY <1>5, MaxTimeAssumption DEF JudgeFetched, WitnessInv, Times
  <2>2. readings' \in Rows /\ \A d \in Devices : readings[d] \subseteq readings'[d]
    BY <1>5, RecordedStays DEF JudgeFetched, WitnessInv
  <2>3. PICK near \in NearestReadings(readings'[Primary], item.reading.t) :
           Judge(item, near, PreviousReading(item.device))
    BY <1>5 DEF JudgeFetched
  <2> QED BY <2>1, <2>2, <2>3, JudgedWithWitness
<1>6. CASE Push \/ Finish \/ Halt \/ UNCHANGED awayVars
  BY <1>6 DEF Push, Finish, Halt, awayVars, WitnessInv, TodoIsRecorded, AlertsHaveAWitness
<1> QED BY <1>1, <1>2, <1>3, <1>4, <1>5, <1>6 DEF AwayNext

(* Whichever fetches fail, come late or bring only some of the devices: an *)
(* alert says that a device was away from a reading of the primary close   *)
(* in time to its own, never that it was from a stale one                  *)
(* (tracker.py:224-247, 289-312).                                          *)
THEOREM AlertsAreWitnessed == AwaySpec => []AlertsHaveAWitness
<1>1. AwayInit => WitnessInv
  BY MaxTimeAssumption DEF AwayInit, WitnessInv, Rows, Times, TodoIsRecorded, AlertsHaveAWitness
<1>2. WitnessInv => AlertsHaveAWitness
  BY DEF WitnessInv
<1> QED BY <1>1, <1>2, WitnessInvStep, PTL DEF AwaySpec
-----------------------------------------------------------------------------
(* Every fetch has brought one reading of every device.                    *)
OnePerFetch ==
    \A d \in Devices :
       /\ \A r \in readings[d] : r.t \in 1 .. now
       /\ \A t \in 1 .. now : \E r \in readings[d] : r.t = t
       /\ \A r, s \in readings[d] : r.t = s.t => r = s

(* What is still to be judged are the readings of the last fetch.          *)
TodoIsLatest ==
    /\ step \in {"refresh", "select"} => todo = {}
    /\ \A item \in todo : /\ item = [device |-> item.device, reading |-> item.reading]
                          /\ item.device \in Devices /\ item.reading \in readings[item.device]
                          /\ item.reading.t = now

Judged(d, r) ==
    ~(step = "select" /\ r.t = now) /\ [device |-> d, reading |-> r] \notin todo

(* The alerts are the departures among the readings that are judged.       *)
AlertsAreDepartures ==
    \A d \in Devices :
       /\ \A t \in Times : t \notin 1 .. now => alerts[d][t] = 0
       /\ \A r \in readings[d] :
            /\ alerts[d][r.t] =< 1
            /\ alerts[d][r.t] > 0 => SurelyAway(r) /\ Judged(d, r)

OnlyDepartures ==
    \A d \in Devices : \A r, s \in readings[d] :
       alerts[d][r.t] > 0 /\ s.t = r.t - 1 => ~SurelyAway(s)

AllDepartures ==
    \A d \in AwayAlertFor \ {Primary} : \A r, s \in readings[d] :
       s.t = r.t - 1 /\ ~SurelyAway(s) /\ SurelyAway(r) /\ Judged(d, r) => alerts[d][r.t] > 0

DepartureInv ==
    complete => OnePerFetch /\ TodoIsLatest /\ AlertsAreDepartures /\ OnlyDepartures /\ AllDepartures

(* Of readings at different times the one at a time is the closest to it,  *)
(* and the latest but one is the latest of the others.                     *)
OnePerTime(S) == (\A r \in S : r.t \in Times) /\ \A r, s \in S : r.t = s.t => r = s

LEMMA NearestAt ==
    ASSUME NEW S, OnePerTime(S), NEW x \in S
    PROVE  NearestReadings(S, x.t) = {x}
<1>1. \A y \in S : y.t \in Nat
  BY MaxTimeAssumption DEF OnePerTime, Times
<1>2. \A y \in S : Abs(x.t - x.t) =< Abs(y.t - x.t) /\ (y # x => ~ (Abs(y.t - x.t) =< Abs(x.t - x.t)))
  BY <1>1 DEF Abs, OnePerTime
<1> QED BY <1>2 DEF NearestReadings

LEMMA LatestAt ==
    ASSUME NEW S, OnePerTime(S), NEW x \in S, \A y \in S : y.t =< x.t
    PROVE  LatestReading(S) = x
<1>1. LatestReading(S) \in S /\ x.t =< LatestReading(S).t
  BY LatestIsLast DEF OnePerTime
<1>2. LatestReading(S).t =< x.t /\ LatestReading(S).t \in Nat /\ x.t \in Nat
  BY <1>1, MaxTimeAssumption DEF OnePerTime, Times
<1> QED BY <1>1, <1>2 DEF OnePerTime

LEMMA OneFetch ==
    ASSUME WitnessInv, OnePerFetch, NEW d \in Devices
    PROVE  /\ OnePerTime(readings[d])
           /\ \A r \in readings[d] : r # None /\ r.t \in Nat
           /\ now \in Nat
<1>1. /\ readings[d] \subseteq [t : Times, pos : Spots, acc : {None}, conf : {None}]
      /\ now \in Nat
  BY MaxTimeAssumption DEF WitnessInv, Rows, Times
<1>2. ASSUME NEW r \in readings[d]
      PROVE  r # None
  <2>1. r = Located(r.pos, r.t) /\ r.pos \in Spots /\ r.t \in Times
    BY <1>1 DEF Located
  <2> QED BY <2>1, ReadingAssumption
<1> QED BY <1>1, <1>2, MaxTimeAssumption DEF OnePerFetch, OnePerTime, Times

(* Each reading is compared with that of the primary of the same fetch.    *)
LEMMA SameFetch ==
    ASSUME WitnessInv, OnePerFetch, NEW d \in Devices, NEW r \in readings[d]
    PROVE  \E x \in readings[Primary] : x.t = r.t /\ NearestReadings(readings[Primary], r.t) = {x}
<1>1. PICK x \in readings[Primary] : x.t = r.t
  BY PrimaryAssumption DEF OnePerFetch
<1> QED BY <1>1, NearestAt, OneFetch, PrimaryAssumption

LEMMA IsSurelyAway ==
    ASSUME WitnessInv, OnePerFetch, NEW d \in Devices, NEW r \in readings[d],
           NEW near \in NearestReadings(readings[Primary], r.t)
    PROVE  /\ SurelyAway(r) <=> IsAway(r, near, AwayCfg)
           /\ Trusted(near, r.t)
<1>1. PICK x \in readings[Primary] : x.t = r.t /\ NearestReadings(readings[Primary], r.t) = {x}
  BY SameFetch
<1>2. near = x /\ (SurelyAway(r) <=> IsAway(r, x, AwayCfg))
  BY <1>1 DEF SurelyAway
<1>3. x # None /\ x.t \in Nat
  BY OneFetch, PrimaryAssumption
<1> QED BY <1>1, <1>2, <1>3, AgeAssumption DEF Trusted, Abs

(* The reading of the fetch before, or none.                               *)
LEMMA PreviousFetch ==
    ASSUME WitnessInv, OnePerFetch, NEW d \in Devices, NEW r \in readings[d]
    PROVE  /\ r.t = 1 => Before(d, r) = None
           /\ r.t # 1 => Before(d, r) \in readings[d] /\ Before(d, r).t = r.t - 1
           /\ r.t = now => LatestReading(readings[d]) = r /\ PreviousReading(d) = Before(d, r)
<1> DEFINE earlier == {x \in readings[d] : x.t < r.t}
<1>1. /\ OnePerTime(readings[d]) /\ OnePerTime(earlier) /\ now \in Nat
      /\ \A x \in readings[d] : x.t \in 1 .. now /\ x.t \in Nat
  BY OneFetch DEF OnePerTime, OnePerFetch
<1>0. Before(d, r) = LatestReading(earlier)
  BY DEF Before
<1>2. ASSUME r.t = 1
      PROVE  Before(d, r) = None
  <2>1. earlier = {}
    BY <1>1, <1>2
  <2> HIDE DEF earlier
  <2> QED BY <1>0, <1>2, <2>1 DEF LatestReading
<1>3. ASSUME r.t # 1
      PROVE  Before(d, r) \in readings[d] /\ Before(d, r).t = r.t - 1
  <2>1. r.t - 1 \in 1 .. now
    BY <1>1, <1>3
  <2>2. PICK s \in readings[d] : s.t = r.t - 1
    BY <2>1 DEF OnePerFetch
  <2>3. s \in earlier /\ \A x \in earlier : x.t =< s.t
    BY <1>1, <2>2
  <2>4. LatestReading(earlier) = s
    BY <1>1, <2>3, LatestAt
  <2> HIDE DEF earlier
  <2> QED BY <1>0, <1>3, <2>2, <2>4
<1>4. ASSUME r.t = now
      PROVE  LatestReading(readings[d]) = r /\ PreviousReading(d) = Before(d, r)
  <2>1. \A x \in readings[d] : x.t =< r.t
    BY <1>1, <1>4
  <2>2. LatestReading(readings[d]) = r
    BY <1>1, <2>1, LatestAt
  <2>3. readings[d] \ {r} = earlier
    BY <1>1, <2>1 DEF OnePerTime
  <2> QED BY <1>0, <2>2, <2>3 DEF PreviousReading
<1> QED BY <1>2, <1>3, <1>4

LEMMA InvSuffices == WitnessInv /\ DepartureInv => AlertsFollowTransitions
<1> SUFFICES ASSUME WitnessInv, DepartureInv, complete
             PROVE  AlertsFollowTransitions
  BY DEF AlertsFollowTransitions, FreshReadingsAlertOnce, TransitionsAreAlerted
<1>1. OnePerFetch /\ TodoIsLatest /\ AlertsAreDepartures /\ OnlyDepartures /\ AllDepartures
  BY DEF DepartureInv
<1>2. ASSUME NEW d \in Devices, NEW r \in readings[d]
      PROVE  /\ alerts[d][r.t] =< 1
             /\ (Before(d, r) # None /\ alerts[d][r.t] > 0) => alerts[d][Before(d, r).t] = 0
  <2>1. alerts[d][r.t] =< 1
    BY <1>1 DEF AlertsAreDepartures
  <2>2. ASSUME Before(d, r) # None, alerts[d][r.t] > 0
        PROVE  alerts[d][Before(d, r).t] = 0
    <3>1. Before(d, r) \in readings[d] /\ Before(d, r).t = r.t - 1
      BY <1>1, <2>2, PreviousFetch
    <3>2. ~SurelyAway(Before(d, r))
      BY <1>1, <2>2, <3>1 DEF OnlyDepartures
    <3>3. ~(alerts[d][Before(d, r).t] > 0)
      BY <1>1, <3>1, <3>2 DEF AlertsAreDepartures
    <3>4. Before(d, r).t \in Times
      BY <1>1, <3>1, OneFetch DEF OnePerTime
    <3>5. alerts[d][Before(d, r).t] \in Nat
      BY <3>4 DEF WitnessInv
    <3> QED BY <3>3, <3>5
  <2> QED BY <2>1, <2>2
<1>3. OneAlertPerStay
  BY <1>2 DEF OneAlertPerStay
<1>4. ASSUME NEW d \in AwayAlertFor \ {Primary}, NEW r \in readings[d]
      PROVE  LET previous == Before(d, r)
             IN  \/ previous = None \/ ~SurelyWithPrimary(previous) \/ ~SurelyAway(r)
                 \/ alerts[d][r.t] > 0
                 \/ r = LatestReading(readings[d])
                 \/ [device |-> d, reading |-> r] \in todo
  <2>0. d \in Devices
    BY PrimaryAssumption
  <2> DEFINE s == Before(d, r)
  <2> SUFFICES ASSUME s # None, SurelyWithPrimary(s), SurelyAway(r), r # LatestReading(readings[d]),
                      [device |-> d, reading |-> r] \notin todo
               PROVE  alerts[d][r.t] > 0
    OBVIOUS
  <2>1. s \in readings[d] /\ s.t = r.t - 1 /\ r.t # now
    BY <1>1, <2>0, PreviousFetch
  <2>2. ~SurelyAway(s)
    <3>1. PICK x \in readings[Primary] : NearestReadings(readings[Primary], s.t) = {x}
      BY <1>1, <2>0, <2>1, SameFetch
    <3> QED BY <3>1 DEF SurelyAway, SurelyWithPrimary
  <2>3. Judged(d, r)
    BY <2>1 DEF Judged
  <2> QED BY <1>1, <1>4, <2>1, <2>2, <2>3 DEF AllDepartures
<1> QED BY <1>3, <1>4 DEF AlertsFollowTransitions, FreshReadingsAlertOnce, TransitionsAreAlerted

(* What the parts of the invariant say of a state that is complete.        *)
Departures == OnePerFetch /\ TodoIsLatest /\ AlertsAreDepartures /\ OnlyDepartures /\ AllDepartures

LEMMA FetchInv ==
    ASSUME WitnessInv, WitnessInv', DepartureInv, Refresh, complete'
    PROVE  Departures'
<1>1. PICK rows \in Fetches : Record(rows) /\ now' = now + 1
  BY DEF Refresh
<1>2. complete /\ Departures /\ step = "refresh" /\ step' = "select" /\ todo = {} /\ todo' = {}
      /\ alerts' = alerts
  BY <1>1 DEF Refresh, Record, DepartureInv, Departures, TodoIsLatest
<1>3. ASSUME NEW d \in Devices
      PROVE  \E x : x.t = now + 1 /\ readings'[d] = readings[d] \cup {x}
  <2>1. rows[d] # {} /\ rows[d] \in {{Located(x, now + 1)} : x \in Spots} \cup {{}}
    BY <1>1, <1>2 DEF Record, Fetches
  <2>2. PICK x \in Spots : rows[d] = {Located(x, now + 1)}
    BY <2>1
  <2>3. Located(x, now + 1).t = now + 1 /\ readings'[d] = readings[d] \cup {Located(x, now + 1)}
    BY <1>1, <2>2 DEF Record, Located
  <2> QED BY <2>3
<1>4. now \in Nat /\ now' = now + 1
  BY <1>1, MaxTimeAssumption DEF WitnessInv, Times
<1>5. OnePerFetch'
  <2> SUFFICES ASSUME NEW d \in Devices
               PROVE  /\ \A r \in readings'[d] : r.t \in 1 .. now'
                      /\ \A t \in 1 .. now' : \E r \in readings'[d] : r.t = t
                      /\ \A r, s \in readings'[d] : r.t = s.t => r = s
    BY DEF OnePerFetch
  <2>1. PICK x : x.t = now + 1 /\ readings'[d] = readings[d] \cup {x}
    BY <1>3
  <2>2. /\ \A r \in readings[d] : r.t \in 1 .. now
        /\ \A t \in 1 .. now : \E r \in readings[d] : r.t = t
        /\ \A r, s \in readings[d] : r.t = s.t => r = s
    BY <1>2 DEF Departures, OnePerFetch
  <2>3. \A t \in 1 .. now' : t \in 1 .. now \/ t = now + 1
    BY <1>4
  <2> QED BY <1>4, <2>1, <2>2, <2>3
<1>6. ASSUME NEW d \in Devices, NEW r \in readings'[d]
      PROVE  /\ r \notin readings[d] => r.t = now + 1
             /\ r \in readings[d] => r.t \in 1 .. now
  BY <1>2, <1>3 DEF Departures, OnePerFetch
<1>7. ASSUME NEW d \in Devices, NEW r \in readings[d]
      PROVE  SurelyAway(r)' <=> SurelyAway(r)
  <2>1. PICK x \in readings[Primary] : x.t = r.t /\ NearestReadings(readings[Primary], r.t) = {x}
    BY <1>2, SameFetch DEF Departures
  <2>2. x \in readings'[Primary] /\ OnePerTime(readings'[Primary])
    <3>1. x \in readings'[Primary]
      BY <1>3, PrimaryAssumption
    <3>2. OnePerTime(readings'[Primary])
      BY <1>5, PrimaryAssumption DEF WitnessInv, Rows, OnePerFetch, OnePerTime
    <3> QED BY <3>1, <3>2
  <2>3. NearestReadings(readings'[Primary], r.t) = {x}
    BY <2>1, <2>2, NearestAt
  <2> QED BY <2>1, <2>3 DEF SurelyAway
<1>8. TodoIsLatest'
  BY <1>2 DEF TodoIsLatest
<1>9. ASSUME NEW d \in Devices, NEW r \in readings[d]
      PROVE  Judged(d, r) /\ Judged(d, r)'
  BY <1>2, <1>4, <1>6, <1>3 DEF Judged, Departures, OnePerFetch
<1>10. \A d \in Devices : alerts[d][now + 1] = 0
  <2>1. now + 1 \in Times /\ now + 1 \notin 1 .. now
    BY <1>4 DEF WitnessInv
  <2> QED BY <1>2, <2>1 DEF Departures, AlertsAreDepartures
<1>11. AlertsAreDepartures'
  <2>1. ASSUME NEW d \in Devices, NEW t \in Times, t \notin 1 .. now'
        PROVE  alerts'[d][t] = 0
    <3>1. t \notin 1 .. now
      BY <1>4, <2>1
    <3> QED BY <1>2, <3>1 DEF Departures, AlertsAreDepartures
  <2>2. ASSUME NEW d \in Devices, NEW r \in readings'[d]
        PROVE  /\ alerts'[d][r.t] =< 1
               /\ alerts'[d][r.t] > 0 => SurelyAway(r)' /\ Judged(d, r)'
    <3>1. CASE r \in readings[d]
      BY <1>2, <1>7, <1>9, <3>1 DEF Departures, AlertsAreDepartures
    <3>2. CASE r \notin readings[d]
      BY <1>2, <1>6, <1>10, <3>2
    <3> QED BY <3>1, <3>2
  <2> QED BY <2>1, <2>2 DEF AlertsAreDepartures
<1>12. OnlyDepartures'
  <2> SUFFICES ASSUME NEW d \in Devices, NEW r \in readings'[d], NEW s \in readings'[d],
                      alerts'[d][r.t] > 0, s.t = r.t - 1
               PROVE  ~SurelyAway(s)'
    BY DEF OnlyDepartures
  <2>1. r \in readings[d] /\ s \in readings[d]
    BY <1>2, <1>4, <1>6, <1>10
  <2> QED BY <1>2, <1>7, <2>1 DEF Departures, OnlyDepartures
<1>13. AllDepartures'
  <2> SUFFICES ASSUME NEW d \in AwayAlertFor \ {Primary}, NEW r \in readings'[d], NEW s \in readings'[d],
                      s.t = r.t - 1, ~SurelyAway(s)', SurelyAway(r)', Judged(d, r)'
               PROVE  alerts'[d][r.t] > 0
    BY DEF AllDepartures
  <2>1. d \in Devices
    BY PrimaryAssumption
  <2>2. r \in readings[d]
    BY <1>2, <1>4, <1>6, <2>1 DEF Judged
  <2>3. s \in readings[d]
    BY <1>4, <1>6, <2>1, <2>2
  <2> QED BY <1>2, <1>7, <1>9, <2>1, <2>2, <2>3 DEF Departures, AllDepartures
<1> QED BY <1>5, <1>8, <1>11, <1>12, <1>13 DEF Departures

(* Selecting the latest readings, and skipping one, changes no reading.    *)
LEMMA SelectInv ==
    ASSUME WitnessInv, WitnessInv', DepartureInv, Select, complete'
    PROVE  Departures'
<1>1. /\ complete /\ Departures /\ step = "select" /\ step' = "judge" /\ todo = {}
      /\ UNCHANGED <<readings, alerts, now>>
      /\ todo' = {Latest(d) : d \in {c \in Devices : readings[c] # {}}}
  BY DEF Select, DepartureInv, Departures, TodoIsLatest
<1>2. \A r : SurelyAway(r)' <=> SurelyAway(r)
  BY <1>1 DEF SurelyAway
<1>3. ASSUME NEW d \in Devices, readings[d] # {}
      PROVE  LatestReading(readings[d]) \in readings[d] /\ LatestReading(readings[d]).t = now
  <2>1. now \in Nat /\ now >= 1
    BY <1>1, <1>3, OneFetch DEF Departures, OnePerFetch
  <2>2. PICK r \in readings[d] : r.t = now
    BY <1>1, <2>1 DEF Departures, OnePerFetch
  <2> QED BY <1>1, <2>2, PreviousFetch DEF Departures
<1>4. TodoIsLatest'
  BY <1>1, <1>3 DEF TodoIsLatest, Latest
<1>5. ASSUME NEW d \in Devices, NEW r \in readings[d]
      PROVE  Judged(d, r) <=> Judged(d, r)'
  <2>1. r.t = now => [device |-> d, reading |-> r] \in todo'
    BY <1>1, PreviousFetch DEF Departures, Latest
  <2>2. [device |-> d, reading |-> r] \in todo' => r.t = now
    BY <1>4, <1>1 DEF TodoIsLatest
  <2> QED BY <1>1, <2>1, <2>2 DEF Judged
<1>6. OnePerFetch' /\ AlertsAreDepartures' /\ OnlyDepartures'
  BY <1>1, <1>2, <1>5 DEF Departures, OnePerFetch, AlertsAreDepartures, OnlyDepartures
<1>7. AllDepartures'
  BY <1>1, <1>2, <1>5, PrimaryAssumption DEF Departures, AllDepartures
<1> QED BY <1>4, <1>6, <1>7 DEF Departures

(* A reading is judged, and has an alert if it is a departure.             *)
LEMMA JudgedInv ==
    ASSUME WitnessInv, WitnessInv', DepartureInv, complete, complete', NEW item \in todo,
           step = "judge", step' \in {"judge", "push"},
           todo' = todo \ {item}, UNCHANGED <<readings, now>>,
           NEW departs \in BOOLEAN,
           alerts' = IF departs
                     THEN [alerts EXCEPT ![item.device][item.reading.t] = Capped(@ + 1)] ELSE alerts,
           departs =>
               /\ SurelyAway(item.reading)
               /\ \A s \in readings[item.device] : s.t = now - 1 => ~SurelyAway(s),
           ~departs =>
               \/ item.device \notin AwayAlertFor \ {Primary}
               \/ ~SurelyAway(item.reading)
               \/ \A s \in readings[item.device] : s.t # now - 1 \/ SurelyAway(s)
    PROVE  Departures'
<1> DEFINE e == item.device
           q == item.reading
<1>1. /\ Departures /\ item = [device |-> e, reading |-> q] /\ e \in Devices /\ q \in readings[e]
      /\ q.t = now /\ now \in Times
  BY DEF DepartureInv, Departures, TodoIsLatest, WitnessInv
<1>2. \A r : SurelyAway(r)' <=> SurelyAway(r)
  BY DEF SurelyAway
<1>3. \A d \in Devices : \A r \in readings[d] :
        Judged(d, r)' <=> Judged(d, r) \/ (d = e /\ r = q)
  BY <1>1 DEF Judged
<1>4. ~Judged(e, q) /\ alerts[e][now] = 0
  <2>1. ~Judged(e, q)
    BY <1>1 DEF Judged
  <2>2. ~(alerts[e][now] > 0) /\ alerts[e][now] \in Nat
    BY <1>1, <2>1 DEF Departures, AlertsAreDepartures, WitnessInv
  <2> QED BY <2>1, <2>2
<1>5. /\ \A d \in Devices, t \in Times : d # e \/ t # now => alerts'[d][t] = alerts[d][t]
      /\ alerts'[e][now] = IF departs THEN 1 ELSE 0
  BY <1>1, <1>4 DEF Capped, MaxAlerts, WitnessInv
<1>6. \A d \in Devices : \A r \in readings[d] : r.t \in Times /\ r.t \in 1 .. now /\ (d = e /\ r.t = now => r = q)
  BY <1>1 DEF WitnessInv, Rows, Departures, OnePerFetch
<1> HIDE DEF e, q
<1>7. OnePerFetch' /\ TodoIsLatest'
  BY <1>1 DEF Departures, OnePerFetch, TodoIsLatest
<1>8. AlertsAreDepartures'
  <2>1. ASSUME NEW d \in Devices, NEW t \in Times, t \notin 1 .. now
        PROVE  alerts'[d][t] = 0
    <3>1. d # e \/ t # now
      BY <1>1, <1>6, <2>1
    <3> QED BY <1>1, <1>5, <2>1, <3>1 DEF Departures, AlertsAreDepartures
  <2>2. ASSUME NEW d \in Devices, NEW r \in readings[d]
        PROVE  /\ alerts'[d][r.t] =< 1
               /\ alerts'[d][r.t] > 0 => SurelyAway(r)' /\ Judged(d, r)'
    <3>1. CASE d = e /\ r.t = now
      BY <1>2, <1>3, <1>5, <1>6, <3>1 DEF q
    <3>2. CASE d # e \/ r.t # now
      BY <1>1, <1>2, <1>3, <1>5, <1>6, <3>2 DEF Departures, AlertsAreDepartures
    <3> QED BY <3>1, <3>2
  <2> QED BY <2>1, <2>2 DEF AlertsAreDepartures
<1>9. OnlyDepartures'
  <2> SUFFICES ASSUME NEW d \in Devices, NEW r \in readings[d], NEW s \in readings[d],
                      alerts'[d][r.t] > 0, s.t = r.t - 1
               PROVE  ~SurelyAway(s)
    BY <1>2 DEF OnlyDepartures
  <2>1. CASE d = e /\ r.t = now
    BY <1>5, <2>1 DEF e
  <2>2. CASE d # e \/ r.t # now
    BY <1>1, <1>5, <1>6, <2>2 DEF Departures, OnlyDepartures
  <2> QED BY <2>1, <2>2
<1>10. AllDepartures'
  <2> SUFFICES ASSUME NEW d \in AwayAlertFor \ {Primary}, NEW r \in readings[d], NEW s \in readings[d],
                      s.t = r.t - 1, ~SurelyAway(s), SurelyAway(r), Judged(d, r)'
               PROVE  alerts'[d][r.t] > 0
    BY <1>2 DEF AllDepartures
  <2>0. d \in Devices
    BY PrimaryAssumption
  <2>1. CASE d = e /\ r = q
    <3>1. \A x \in readings[e] : x.t = now - 1 => x = s
      BY <1>1, <2>1 DEF Departures, OnePerFetch
    <3> QED BY <1>1, <1>5, <2>1, <3>1 DEF e, q
  <2>2. CASE ~(d = e /\ r = q)
    <3>1. Judged(d, r) /\ (d # e \/ r.t # now)
      BY <1>3, <1>6, <2>0, <2>2
    <3> QED BY <1>1, <1>5, <1>6, <2>0, <3>1 DEF Departures, AllDepartures
  <2> QED BY <2>1, <2>2
<1> QED BY <1>7, <1>8, <1>9, <1>10 DEF Departures

(* A poll with complete fetches never asks again: the reading of the       *)
(* primary that was fetched with the one under judgement is trusted.       *)
LEMMA ItemInv ==
    ASSUME WitnessInv, WitnessInv', DepartureInv, complete', NEW item \in todo,
           Skip(item) \/ JudgeRecorded(item) \/ JudgeFetched(item) \/ JudgeUnfetched(item)
    PROVE  Departures'
<1> DEFINE d == item.device
           r == item.reading
           previous == PreviousReading(d)
<1>1. complete /\ step = "judge"
  BY DEF Skip, JudgeRecorded, JudgeFetched, JudgeUnfetched, DueForJudgement, Record
<1>2. Departures /\ d \in Devices /\ r \in readings[d] /\ r.t = now
  BY <1>1 DEF DepartureInv, Departures, TodoIsLatest
<1>3. previous = Before(d, r)
  BY <1>2, PreviousFetch DEF Departures
<1>4. ASSUME NEW s \in readings[d], s.t = now - 1
      PROVE  previous = s /\ s # None
             /\ \A near \in NearPrevious(item) : SurelyAway(s) <=> IsAway(s, near, AwayCfg)
  <2>1. s # None /\ s.t \in 1 .. now /\ now \in Nat
    BY <1>2, OneFetch DEF Departures, OnePerFetch
  <2>2. previous \in readings[d] /\ previous.t = s.t
    BY <1>2, <1>3, <1>4, <2>1, PreviousFetch DEF Departures
  <2>3. previous = s
    BY <1>2, <2>2 DEF Departures, OnePerFetch
  <2>4. NearPrevious(item) = NearestReadings(readings[Primary], s.t)
    BY <2>1, <2>3 DEF NearPrevious
  <2> QED BY <1>2, <2>1, <2>3, <2>4, IsSurelyAway DEF Departures
<1>5. \A near \in NearestReadings(readings[Primary], r.t) :
        Trusted(near, r.t) /\ (SurelyAway(r) <=> IsAway(r, near, AwayCfg))
  BY <1>2, IsSurelyAway DEF Departures
<1>6. CASE Skip(item)
  <2>1. PICK near \in NearPrevious(item) : AlreadyHandled(item, near)
    BY <1>6 DEF Skip
  <2>2. \/ d \notin AwayAlertFor \ {Primary}
        \/ previous = None
        \/ previous # None /\ IsAway(previous, near, AwayCfg)
    BY <2>1 DEF AlreadyHandled
  <2>3. \/ d \notin AwayAlertFor \ {Primary}
        \/ \A s \in readings[d] : s.t # now - 1 \/ SurelyAway(s)
    BY <1>4, <2>1, <2>2
  <2>4. UNCHANGED <<readings, alerts, now, step>> /\ todo' = todo \ {item}
    BY <1>6 DEF Skip
  <2> QED BY <1>1, <2>3, <2>4, JudgedInv
<1>7. CASE JudgeRecorded(item)
  <2>1. PICK near \in NearestReadings(readings[Primary], r.t) : Judge(item, near, previous)
    BY <1>7 DEF JudgeRecorded
  <2>2. PICK far \in NearPrevious(item) : ~AlreadyHandled(item, far)
    BY <1>7 DEF JudgeRecorded, DueForJudgement
  <2>3. \A s \in readings[d] : s.t = now - 1 => ~SurelyAway(s)
    BY <1>4, <2>2 DEF AlreadyHandled
  <2>4. SurelyAway(r) <=> IsAway(r, near, AwayCfg)
    BY <1>5, <2>1
  <2>5. /\ todo' = todo \ {item} /\ UNCHANGED <<readings, now>> /\ step' \in {"judge", "push"}
        /\ alerts' = IF IsAway(r, near, AwayCfg)
                     THEN [alerts EXCEPT ![item.device][item.reading.t] = Capped(@ + 1)] ELSE alerts
    BY <1>1, <1>7, <2>1 DEF JudgeRecorded, Judge
  <2> DEFINE departs == IsAway(r, near, AwayCfg)
  <2>6. departs \in BOOLEAN
    BY DEF IsAway
  <2> HIDE DEF departs
  <2> QED BY <1>1, <2>3, <2>4, <2>5, <2>6, JudgedInv DEF departs
<1>8. CASE JudgeFetched(item) \/ JudgeUnfetched(item)
  BY <1>5, <1>8 DEF JudgeFetched, JudgeUnfetched
<1> QED BY <1>6, <1>7, <1>8

LEMMA DepartureInvStep == WitnessInv /\ WitnessInv' /\ DepartureInv /\ [AwayNext]_awayVars => DepartureInv'
<1> SUFFICES ASSUME WitnessInv, WitnessInv', DepartureInv, [AwayNext]_awayVars, complete'
             PROVE  Departures'
  BY DEF DepartureInv, Departures
<1>1. CASE Push \/ Finish \/ Halt \/ UNCHANGED awayVars
  <2>1. UNCHANGED <<readings, alerts, todo, now, complete>>
    BY <1>1 DEF Push, Finish, Halt, awayVars
  <2>2. Departures
    BY <2>1 DEF DepartureInv, Departures
  <2>3. (step = "select") = (step' = "select") /\ (step' \in {"refresh", "select"} => todo = {})
    BY <1>1, <2>2 DEF Push, Finish, Halt, awayVars, Departures, TodoIsLatest
  <2>4. \A r : SurelyAway(r)' <=> SurelyAway(r)
    BY <2>1 DEF SurelyAway
  <2>5. \A d, r : Judged(d, r)' <=> Judged(d, r)
    BY <2>1, <2>3 DEF Judged
  <2> QED BY <2>1, <2>2, <2>3, <2>4, <2>5
          DEF Departures, OnePerFetch, TodoIsLatest, AlertsAreDepartures, OnlyDepartures, AllDepartures
<1> QED BY <1>1, FetchInv, SelectInv, ItemInv DEF AwayNext

(* If no fetch lacks a device, an alert is raised for exactly the          *)
(* departures: the readings that are away from the primary and whose       *)
(* previous reading was not, for any devices, positions, settings and      *)
(* clock (tracker.py:264-275).                                             *)
THEOREM AlertsAreTheDepartures == AwaySpec => []AlertsFollowTransitions
<1>1. AwayInit => WitnessInv
  BY MaxTimeAssumption DEF AwayInit, WitnessInv, Rows, Times, TodoIsRecorded, AlertsHaveAWitness
<1>2. AwayInit => DepartureInv
  <2> SUFFICES ASSUME AwayInit PROVE DepartureInv
    OBVIOUS
  <2>1. now = 0 /\ todo = {} /\ \A d \in Devices : readings[d] = {} /\ \A t \in Times : alerts[d][t] = 0
    BY DEF AwayInit
  <2>2. OnePerFetch /\ TodoIsLatest /\ AlertsAreDepartures /\ OnlyDepartures
    BY <2>1 DEF OnePerFetch, TodoIsLatest, AlertsAreDepartures, OnlyDepartures
  <2>3. AllDepartures
    BY <2>1, PrimaryAssumption DEF AllDepartures
  <2> QED BY <2>2, <2>3 DEF DepartureInv
<1> QED BY <1>1, <1>2, WitnessInvStep, DepartureInvStep, InvSuffices, PTL DEF AwaySpec
=============================================================================

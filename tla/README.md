# A formal model of AirTag Sentry

AirTag Sentry polls Apple's Find My network for the location reports of a few
AirTags, keeps them in Postgres, and alerts when a tag moves or when the owner
and the tag part. This directory holds TLA+ modules that model the parts of it
whose correctness depends on order, interleaving and failure, TLC
configurations that check them on small instances, and TLAPS proofs of the
properties that matter most.

Paths below are relative to the repository (`src/`); Python paths omit
`airtag_sentry/`.

- [The system](#the-system)
- [Modules](#modules)
- [Runs](#runs)
- [Proofs](#proofs)
- [Where code and documentation disagree](#where-code-and-documentation-disagree)
- [What is not modelled](#what-is-not-modelled)
- [Plan](#plan)

## The system

One process runs the dashboard (FastAPI; every request handler runs in a thread
of a pool) and the poller (APScheduler, one background thread). `cli.py` can
poll from a second process. They share Postgres, one session file for the
AirTags' Apple account, and a cookie directory for the owner's Apple account.
Every function of `db.py` commits on its own; there is no transaction around a
poll, a sync or most requests.

| Component | State | Operations | Hard behaviour | What makes it correct |
|---|---|---|---|---|
| AirTag poll (`tracker.py`) | `_poll_lock`, tables `location_reports`, `alerts` | `poll_once`, `_poll_airtag` | two polls at once, a stop between two commits, late reports, an error in the middle | one poll per process; each report judged once; alerts complete, recorded before they are pushed and backed by a trusted report |
| Movement rules (`movement.py`) | none | outliers, accuracy discount, stillstand anchor, movement and away decisions | thresholds, missing values, long histories | noise is no movement; leaving a rest is |
| Owner away alerts (`tracker.py`) | `owner_device_locations`, `device alerts` | `_evaluate_device_away_alerts`, live fetch | old readings judged anew, readings recorded behind the loop's back | one alert per stay away, none missed, none from a stale position |
| Owner devices (`owner_tracking.py`) | tables `owner_devices`, `owner_apple_credentials` | sync, enable, primary, family filter, disconnect | syncs interleave with requests and with each other | one primary, which is tracked; history kept; a disconnect is final |
| Apple session (`auth.py`) | session file, three module globals | two-factor wizard, import, disconnect, restore and save by polls | overlapping attempts, a poll that saves after a disconnect | only logged-in sessions are saved; only connected ones polled |
| Stays and places (`stays.py`) | none | clustering, place matching | direction, late reports | a partition; past stays final |
| Scheduler (`scheduler.py`) | one job | run, reschedule | an error while rescheduling, a job that comes late | polling goes on |
| Geocoding, routing (`geocode.py`, `routing.py`) | rate limiter, caches | look-ups | failing hosts, threads | one request a second; every look-up ends |
| Notifiers (`notifiers/`) | push subscriptions, MQTT connection | `notify_all`, publish | a dead channel among several | others still get the message |
| Telegram bot (`telegram_bot.py`, routes in `web/app.py`, `TelegramPanel.tsx`) | bot settings, webhook secret, the panel's status | connect, enable, disable, answers in the chat | two calls to Telegram of which either fails, requests the page has given up, stale menu buttons | secret and webhook agree; the panel shows what is stored |
| AirTag management (`web/app.py`, `keystore.py`) | table `airtags`, encrypted keys | create, import, edit, delete | slug races, deletion during a poll | unique ids; no orphan rows |
| Corrections, places, timeline (`db.py`, `web/app.py`) | their tables | set, clear, list | a correction of a stay that changes | the correction that applies is the user's last |
| Web authentication (`web/app.py`) | session cookie | password, OIDC, tokens | ordering of redirects | no route without a session |
| Dashboard: navigation (`App.tsx`) | tab, detail, selection, filter, sheet | taps, stepper, gestures | trails that arrive after the tap, selections set by several handlers | map, sheet and stepper speak of one object and stay |
| Dashboard: loads (`App.tsx`, `api.ts`) | AirTags, reports, banner, spinner | refresh by timer and by hand, reload after a change | answers out of order, callbacks of an older render, network failures | a trail belongs to the selection; in the end the page shows the server's state |
| Settings form (`SettingsPanel.tsx`) | a copy of the settings, a timer | edit, click, save, leave | debounced and immediate PUTs overlap | what differs from the server is about to be saved or marked |
| Places editor (`SettingsPlaces.tsx`) | centre, search, drag | choose, search, save, remove | the browser's position arrives late | what is saved is what was chosen and what is drawn |
| Map of an object (`MapCard.tsx`, hooks) | view, pin, popup, caches | draw, pan, look up | look-ups outlive what they were for; refreshes every 20 s | address and route belong to what is shown; a refresh moves nothing |
| Push subscription (`usePushNotifications.ts`, `sw.ts`) | browser's subscription, server's rows | enable, disable, prune | two calls each, either may fail | no row of a subscription the page has ended |
| Object forms (`AirtagDetail.tsx`, `DeviceDetail.tsx`) | drafts, open forms | rename, appearance, alert, key, remove | saves built on a list that is older than the last save | the last choice of each field is what is kept |
| Apple connect panel (`AppleConnectPanel.tsx`) | step, status | log in, select, submit, import, disconnect | refusals, time-outs, folding the row | it asks for what the server waits for |

### How they interact

A poll takes the lock or gives up. It first syncs the owner's devices and judges
them, then, if the session file exists, restores the session and handles each
enabled AirTag in turn: fetch the history, flag outliers, insert, evaluate the
new rows, record and push alerts, save the session. Judging an AirTag may
trigger another sync, if no reading of the owner is close enough in time.
Requests change the rows and the file under a running poll: enabling, deleting,
changing the primary, disconnecting. The bot, the dashboard and Home Assistant
read the results.

The dashboard is one React page. `App.tsx` holds the lists, the selection and
the sheet and hands them to the panels; each panel calls the server by itself
and then asks `App.tsx` to load the list again. A tick every 20 seconds loads
everything. Nothing is ever cancelled: an answer is handled whenever it comes,
by the callbacks of the render that asked for it.

## Modules

| Module | Models | Extends / used by |
|---|---|---|
| `Movement` | `movement.py`, as operators | — |
| `Readings` | the queries of `db.py` that order readings or find the nearest one | extends `Movement` |
| `PollCycle` | `tracker.poll_once`, `_poll_airtag`, `db.insert_reports`, `record_alert`, `delete_airtag` | extends `Readings`; implements `ReportLog` |
| `ReportLog` | what the polls promise of the stored reports and alerts | abstract; instantiated by `PollCycle` |
| `DeviceAway` | `_update_owner_devices`, `_evaluate_device_away_alerts`, `_owner_location_for_away_check` | extends `Readings` |
| `OwnerDevices` | `owner_tracking.fetch_owner_device_locations` and the owner requests | — |
| `AppleSession` | `auth.py` and the session's use in `poll_once` | — |
| `Trail`, `MovementRules` | every short history; promises of the rules about it | `MovementRules` extends `Trail` extends `Movement` |
| `Stays` | `stays.py` over the same histories | extends `Trail` |
| `Sheet` | the grab handle and the levels of the sheet (`App.tsx`) | — |
| `Navigation` | tabs, details, selections, filter, stepper (`App.tsx`) | extends `Sheet` |
| `Dashboard` | loads, refreshes, banner (`App.tsx`, `api.ts`) | — |
| `SettingsForm`, `PlaceEditor`, `TrailMap`, `PushSubscription`, `ObjectForms`, `ConnectPanel` | one part of the dashboard each | all extended by `MCPages` |
| `RateLimiter` | the limiter of `geocode.py` and `routing.py`, what they keep | — |
| `Scheduler` | `scheduler.py`, the lifespan of the app | — |
| `TelegramBot` | `TelegramPanel.tsx`, the bot's requests in `web/app.py`, the calls to Telegram of `telegram_bot.py` | — |
| `AirtagRegistry` | creating and deleting AirTags and keys (`web/app.py`, `db.py`) next to a poll | — |
| `Counting` | induction over numbers, and that a recursion has a solution | extends `TLAPS`; used by the next and by `MovementProofs` |
| `PollCycleProofs` | theorems about the polls and the log they implement | extends `PollCycle` and `Counting` |
| `PagesProofs` | theorems about `PushSubscription`, `PlaceEditor`, `TrailMap`, `SettingsForm`, `ObjectForms`, `ConnectPanel` and `AppleSession` | extends the seven |
| `ServerProofs` | theorems about `RateLimiter`, `AirtagRegistry`, `TelegramBot` and `DeviceAway` | extends the four |
| `MovementProofs` | theorems about `Movement`'s rules and `Stays` | extends `MovementRules`, `Stays` and `Counting` |
| `OwnerDevicesProofs`, `NavigationProofs`, `DashboardProofs` | theorems | each extends the module of its name |
| `MC…` | constants of the instances | each extends its module; `MCPolls`, `MCThreads`, `MCDevices`, `MCHistory` and `MCPages` extend several |

`Movement`'s operators are the very ones `PollCycle` and `DeviceAway` decide
with, so what `MovementRules` checks about a rule holds of the polls.

Definitions whose comment starts with "A mutant" are plausible bugs; no action
uses them. Each is there to show that a property notices the bug.

### How state and steps correspond to the code

**PollCycle.** One step per commit or call to another machine, with the reads
that precede it. `lock` is `_poll_lock` of each process. `pc` is the point
`poll_once` has reached; `poll` holds its local variables (`queue` the AirTags
still to do, `batch` the flagged reports between fetch and insert, `todo` the
new reports still to evaluate, `aborted` whether an error left the connection in
an aborted transaction, `previous` the report before the one under evaluation,
which is read once and used twice). `stored`, `alerts` and `airtags` are tables; `pushed`
is what left through `notify_all`. `apple` is what Apple holds, `now` its
clock, and `Answer` what it answers with: the reports of the last
`HistoryWindow`, the code's seven days. A report leaves the answer when the clock
moves on, and from then on the stored one is the `Baseline` of those after it. `OwnerPhase` stands for everything the owner modules model in
detail: it records a reading of the primary device, or nothing, or raises.
Every exception inside `_poll_airtag` is `Abandon`: the loop logs it, saves the
session and goes on, but nothing rolls the transaction back, so after a
database error the remaining AirTags of the poll fail as well (`FetchFails`).
`Crash` stops one process anywhere, and what runs it starts it again.

**OwnerDevices.** `sync[s]` is a sync in progress: what Apple answered
(`snapshot`), and what follows from the list it read, the devices still to
disable (`toDisable`), to forget (`toForget`) and to record (`locations`). The
steps are its commits: status of the credentials, upsert, one commit for each
missing device, one for each location recorded by a poll. Requests are single
steps because each is one transaction: of two choices of a primary that overlap
the later one violates the unique index and is undone. `account` is what Apple would list. The
stamps `last_seen_at` and `last_sync_at` are left out; no decision of the sync
reads them, only the dashboard's `on_account` badge does.

**DeviceAway.** `todo` is the loop over the latest readings, read once by
`Select`. A judgement is one of three steps, by how it gets the owner's
position: from the table, after a live fetch, or from the table after the fetch
failed. Each of them records the alert; `Push` follows. `complete` is a history
variable: whether every fetch so far succeeded and brought every device.

**AppleSession.** An account object is a number. A request that waits for Apple
is two steps, with other requests in between; the three globals are three
variables. An import takes any session, logged in or not, as `import_session`
does. `connected`, `imported` and `overtaken` are not in the code: what the user
last asked for, which accounts came as a file, and whether a login has replaced
the account of the wizard while another request of it was waiting for Apple.

**ReportLog.** Per AirTag the stored rows, the number of alerts of each kind per
row, and whether the AirTag has been removed. A step stores rows, raises the
first alert of a kind for a stored row that is no outlier, or removes an AirTag
with all it has. `PollCycle` maps its tables to these and shows, as
`KeepsReportLog`, that every step of any number of polls is one of them or
leaves them alone: no poll, crash, error or late report changes a row, stores
two for one time, alerts twice for one reason, alerts for an outlier, or leaves
a row of a removed AirTag behind.

**Navigation, Sheet.** The state is what `App.tsx` keeps: `activeTab`, `detail`,
`currentId`, `selectedReport`, `selectedDevice`, `timelineFilter`, `pendingReport`
(`pendingReportIdRef`) and the lists. What is on the map, in the sheet and in
the stepper are operators on it, translated from the JSX. One action per handler;
the loads that answer later are actions of their own. `asked` is a history
variable: the object and stay the user has last asked for. A stay is its key,
`anchor_id` or `anchor_recorded_at`, and a load may bring any keys: a history that
grows, a window that moves on or another radius anchor stays anew. `Sheet` has the
pointer events of the handle, with the click that browsers send after a
`pointerup`, or do not.

**Dashboard.** An answer under way is a record that holds what the server said
when it was asked; it is handled at any later time. A refresh is `phase[r]` with
`closure[r]`: React callbacks see the state of the render they belong to, so a
refresh that waits for a poll or a ping goes on with the `currentId` of then.
`EffectsRun` is the passive effect after a render, which may come after an
interval has fired. `Promise.allSettled` is `Settle`.

**SettingsForm, PlaceEditor, TrailMap, PushSubscription, ObjectForms,
ConnectPanel.** Each has the hooks' state of its component as variables, one
action per handler up to its first `await` and one for each answer, and an
answer may find its form closed (`by`, `from`, `live` say who still waits). A request that the page gives up, after
ten seconds or because it is left, may be served later: `late`, and `left` in the
connect panel.
History variables say what the user has asked for (`chosen`, `wanted`) and
whether requests have overlapped or crossed in a way the code does not handle
(`crossed`, `behind`, `disturbed`); the properties speak of behaviours without
that, and [below](#where-code-and-documentation-disagree) is what happens with
it.

**RateLimiter.** One host at a time, since each has a lock and a `_last_call` of
its own. `stage[t]` follows a look-up through `_rate_limited_get` or
`_fetch_route`: `waiting` for the lock, `sleeping` in it, `asking`, and `keeping`
what came back. Times are ages in ticks up to `Interval`: `pause` is that of
`_last_call`, `quiet` that of the last request really sent. `kept` is the table
or the LRU cache; only the latter keeps failures and evicts.

**Scheduler.** `job` is the one job of APScheduler. It is `rescheduling` in the
`finally` of `_run_poll`, where the settings are read. `Misfire` is the library's:
a job it comes to more than a second late is dropped. `forgotten` remembers that
a job was lost.

**TelegramBot.** A request is a record of what it wants and where it is: at the
server (`sent`, between its calls to Telegram, about to commit), refused or done,
or followed by the status that the panel reads again. A request the page has
given up goes on at the server. The number of an enable stands for the secret it
draws; `webhook[b]` is the secret Telegram has for bot `b`. `crossed`, `missed`
and `halfway` remember that changes overlapped, that the page could not know of
one, or that only the second call of an enable failed. What the chat asks and is
answered is left out.

**AirtagRegistry.** A row is its id and the number of the request that created
it, or, for keys and reports, of the AirTag it was meant for, so that a row which
ends up with a later AirTag of the same id can be told. Look-up and insert of a
request are two steps, because nothing locks in between; the keys of the tables
are in the guards.

**Trail, Movement, Stays.** `trail` is the history in the order of its timestamps;
`InsertReport` puts a report at its place, at the end or among the others. Positions
are points on a line. The rules only compare
distances with thresholds, and a line has everything they can tell apart: rest,
drift, jump and return. The haversine formula and floating point are left out.

### Abstractions that hold everywhere

- The settings do not change during an instance. A poll reads them once.
- Texts, names, icons, battery levels and the layout of messages are left out.
- A timestamp is a small number; two rows of one AirTag never share one because
  the table has a unique constraint, which `NewlyInserted` models.

## Runs

Every run finishes in at most a few minutes. "Violation" runs each show one
disagreement, described [below](#where-code-and-documentation-disagree).

| Run | Instance | Question |
|---|---|---|
| `polls` | three parts, one at a time | each part's properties, in the table below |
| `threads_live` | polls, look-ups and the scheduler, one at a time, fair | the same |
| `devices` | the registry and the away alerts, one at a time, fair | the same |
| `history` | the rules, the screen and the handle, one at a time | the same |
| `dashboard_loads` | two AirTags, one refresh at a time, 3 changes, fair | does another AirTag's trail stay away; does the page catch up; do banner and spinner tell the truth in the end? |
| `pages` | six parts of the dashboard, the Apple session and the table of AirTags, one at a time | each part's properties, in the table below |
| `owner_history` | one sync after another | violation |
| `away_repeat` | a device goes offline while away | violation |
| `late_away` | one thread, three reports that come in any order | violation |
| `session_resurrect` | a poll during a disconnect | violation |
| `dashboard_stale` | a selection that goes away and comes back | violation |
| `screen_title` | two AirTags, a device, two stays each, everything the user can tap | violation |

`MCPolls`, `MCThreads`, `MCDevices`, `MCHistory` and `MCPages` run parts that share no
state in one instance: the variable `subject` says which part moves, the others
keep their first values. A property of a part says nothing new about the
behaviours of the others; no property relates two parts.

| Part of `polls` | Property | What it rules out |
|---|---|---|
| `PollCycle`: two processes, one tag, 3 reports in any order, a window of one tick, all faults, deletion | `KeepsReportLog`, `AlertsAreBacked` | a row or an alert `ReportLog` does not allow; an alert without a trusted report, or pushed before it is recorded |
| `PollCycle` as `Ordered`: one thread, 5 reports in order, a window of one tick, Apple fails | `OrderedTrailIsPlausible`, `OrderedAlertsComplete` | a flag that depends on which days the poll fetched; a movement without its alert |
| `TelegramBot`: two bots, three changes | `EnabledBotHears`, `PanelIsTruthful` | a bot shown as enabled whose updates are refused; a panel that shows what is not so without an error |

| Part of `threads_live` | Property | What it rules out |
|---|---|---|
| `PollCycle`: two threads of one process, two tags, crashes, database errors, failures of Apple | `OnePollPerProcess`, `BackfillIsSilent`, `PollsEnd`, `ReportsArrive` | two polls at once; alerts for the first batch; a poll that keeps the lock; a report that is never stored although faults have ended and Apple still answers with it |
| `RateLimiter`: two threads, two points, one host | `AnswersAreFollowedByAPause`, `LookUpsEnd` | a request too soon after an answer; a look-up that waits for ever |
| `Scheduler`: polls that raise, a database that comes and goes | `PollingGoesOn` | a poll that ends the polling of a process that is up |

| Part of `devices` | Property | What it rules out |
|---|---|---|
| `OwnerDevices`: one poll, one family request, two devices | `PrimaryIsOneTrackedDevice`, `SyncsOptNobodyIn`, `FamilyDevicesLeave` | two primaries, or one that is not tracked; a sync that tracks a device or undoes a disconnect; a family device that stays although the filter is off |
| `DeviceAway`: three devices, two of which go offline, fetches that fail or bring a part | `AlertsHaveAWitness`, `AlertsFollowTransitions` | an away alert from a stale position; while fetches are complete, a second alert for one stay or a transition without one |

| Part of `history` | Property | What it rules out |
|---|---|---|
| `MovementRules`: every history of up to 4 fixes | `AlertsTellMovementFromNoise` | an alert for noise, blur or a tag at rest, a rest that is left without one, an anchor that is not where the rest began, a tag that is away and reunited |
| `Stays`: the same histories, nested and overlapping places, reports that come late | `StaysTellTheTrail`, `PastStaysAreFinal` | stays that do not partition the trail; an outer place that hides an inner one; a stay that was over before a report came and is changed by it |
| `Navigation`: two AirTags, a device, up to two stays each | `MapShowsTheStayAsked`, `StepperWalksTheStays` | a map that shows another stay than the one asked for; a stepper that skips or miscounts |
| `Sheet`, as part of the navigation | `GestureMovesOneLevel` | a drag whose click moves the sheet a second time |

| Part of `pages` | Property | What it rules out |
|---|---|---|
| `SettingsForm` | `UnsavedIsMarked` | settings on screen that the server does not have with no save due and no error in the form; the same of the dashboard |
| `PlaceEditor` | `EditorShowsTheChoice` | a fix of the browser that replaces a centre somebody chose in the editor; a circle that is not what will be saved |
| `PushSubscription` | `RowsAreLive` | a row of a subscription that this page has ended |
| `TrailMap` | `AddressAndRouteBelong`, `QuietRefresh` | an address or a route of another point or trail; a refresh that moves the view |
| `ObjectForms` | `ChangesAreKept` | a half of the appearance, a name or a switch that falls back to what it was before |
| `ConnectPanel` | `PanelFollowsServer` | a panel that asks for a code nobody waits for, or says connected when nobody is |
| `AppleSession`: two tabs, three attempts, a poll | `SavedSessionsAreLoggedIn` | an account of the wizard that is saved without its login |
| `AirtagRegistry`: three creates of two names, deletions, keys and a poll | `CreatedAirtagsStay`, `RowsBelongToTheirAirtag` | an AirTag that another create replaces; keys or reports of no AirTag, or of one they were not meant for |

### Bounds, and why they are enough

- `MaxTime` ends Apple's clock in `PollCycle` and bounds the reports. Three
  reports let one be an outlier between two good ones, arrive late, and be the
  previous report of an away episode; five (with a low-confidence one) let a
  rest, a step, a misplaced fix and a small step after a rest follow each other.
  Nothing in the code looks further than a report and the reports before it.
- `HistoryWindow` is one tick: a report has left Apple's answer two ticks later,
  so that a poll finds its baseline in the answer, in the table, or, when it came
  too late for a report, before one it never saw. In `late_away` it is as long as
  the run, so that only the order of the reports can be the reason.
- Two pollers are enough for every race on the lock and on inserts: each race is
  between two. Two AirTags are enough for the loop to abandon one and reach
  another.
- Two devices (one of Family Sharing) and two syncs: a sync reads the registry
  once, so one other actor is enough to make its list stale.
- `Navigation`: two AirTags and a device are one more object than a mistake
  needs; two stays (`MaxStays`) are an older and a newest one, under any keys, so
  that a load can keep, drop or anchor anew the one that is selected. The two
  AirTags are symmetric; no other part of `history` has any.
- `dashboard_loads`: three changes let the selection go and come back, or an
  AirTag vanish, while the network fails in between; one refresh at a time is what
  the timer makes, and `dashboard_stale` needs no second one either.
- `pages`: two PUTs (`MaxPuts`) and two visits (`MaxVisits`) of the settings: a
  save outlived by its panel, and one that overlaps another. One save of a place
  (`MaxSaves`) and one identity are enough for a save that is answered after its
  editor was closed and another opened. Two subscriptions: one dropped by the
  browser, one made after it. Trails of none, one and two points, two of them
  with a common end. Two changes of an object (`MaxChanges`): every property here
  relates a change to one before it. Three requests of the panel (`MaxRequests`):
  a whole login of the AirTags, or one given up that is served during another.
- `RateLimiter`: `Interval` is two ticks, so that a request can be too early by some
  and by all of it; a third thread would wait like the second.
- `TelegramBot`: three changes (`MaxCalls`) are a connect, an enable and a change of
  the bot, or an enable that is given up and repeated.
- `AirtagRegistry`: the second AirTag named "bike" and the first named "bike 2"
  want one id, `bike-2`; three creates (`MaxCreated`) let them collide, and an id
  be freed and taken again.
- `MaxAttempts` bounds the account objects in `AppleSession`: three are the pending
  one, one that replaces it, and one that is imported or restored; two requests
  let any two steps of the wizard overlap.
- `MaxTime` bounds the number of fetches in `DeviceAway`. Its `Halt` lets the
  instance stop between two polls when time is up; without it TLC would report
  that as a deadlock.
- In `MovementRules` and `Stays` a history has up to `MaxLength` fixes, four: a stay needs two, the
  run before it and the run after it one each. With as many `Timestamps` a report
  can come before, between and after the others. The positions reach from the same
  place over "within the stillstand distance" and "within the threshold" to far
  away, and the radii can explain none, part or all of a distance.

`MCPages` switches the deadlock check off: with its bounds on
requests used up, a part whose user does nothing more really stops. No other
configuration does. In `threads_live` the check is a property by itself: a
look-up that raised and kept the lock would end there.

### Fairness

`PollCycle.Fairness`: each thread takes its next step as long as it has one. The
lock is tried and not awaited, every network call has a timeout, and the
scheduler starts a poll after each poll. The last is what the code intends;
`scheduler._schedule_next` can raise and end the loop, so
`threads_live` speaks of a process whose scheduler is alive. Crashes, deletion and
disabling have no fairness. With errors at every poll nothing would ever be
stored, so `ReportsArrive` speaks of behaviours whose faults end; its
antecedent says so, and `threads_live` has behaviours with any number of faults
before that.

`Dashboard.Fairness`: effects run after a render, the interval fires, and every
request is answered or given up after ten seconds (`REQUEST_TIMEOUT_MS`), so each
answer is handled in the end. The user, the server and the network have no
fairness; `CatchesUp` and the banner's half of `IndicatorsTellTheTruth` ask only for a
network that stays up from some time on.

`RateLimiter.LimiterFairness`: a request is answered or gives up (both hosts are
asked with a timeout), the sleep ends, and a thread that waits for the lock gets
it in the end. The last is strong fairness of `TakeLock`: the lock is free again
and again, and CPython wakes waiting threads in turn. Nobody has to look
anything up. `Scheduler.SchedulerFairness`: the scheduler's thread goes on, and a
poll ends, which is `PollsEnd`; nothing makes the process start, stop or reach
the database.

`OwnerDevices.Fairness`: weak fairness of each thread's steps, and strong
fairness of a poll's `Connect`, since Apple answers again and again, though any
single attempt may fail.

## Proofs

TLC checks the instances above; these hold for any numbers of processes,
threads, AirTags, devices, syncs and requests.

**`PollCycleProofs`**

- `PollsExcludeEachOther`: `OnePollPerProcess`. The invariant `LockInv` adds the
  types of `lock` and `pc`. Every step other than `Acquire`, `Release` and
  `Crash` leaves the lock and moves between two running points (`StepsGoOn`).
- `RowsAreUnique`: `OneRowPerTimestamp`. The invariant `RowInv` adds that the
  tables and batches have their shape: a batch is a sequence, so that the
  "first of two reports with one timestamp" that `NewlyInserted` keeps exists.
- `RowsNeverChange`: `RowsAreImmutable`. Only `InsertReports` and `DeleteAirtag`
  touch `stored`; the first only adds.

These three, and the next three, hold with every fault: `FaultsAssumption` leaves
`Faults` open. They rest on the named assumptions of `PollCycle` about its
constants.

What the alerts promise, for any number of polls of one AirTag at once, with
crashes, errors and deletions at any step. The invariant `LogInv` says
whose the reports are that a poll has still to evaluate (`TodoInv`): rows that
this poll has inserted, no two of one timestamp, none of them in the list of
another poll, none of them with an alert of a kind it has yet to be evaluated
for. It needs `RowInv`, since ON CONFLICT DO NOTHING is what keeps two polls from
inserting one report, and the types of the polls' variables. Each step of a poll
has one of five effects (`EffectOfStep`): it sets its work aside, inserts, goes
on to the next report, goes on with the same report, or records an alert; the
invariant and the refinement are proved from the effects.

- `PollsKeepTheLog`: `KeepsReportLog`, the refinement. Recording an alert is
  `Alert` of `ReportLog`: the invariant says that the report has none of that
  kind. An insertion is `Store`, a deletion `Remove`, every other step a stutter.
- `AlertsAreTrusted`: `AlertsAreBacked`, whose two halves are parts of the same
  invariant.
- `NoAlertsOnBackfill`: `BackfillIsSilent`, where `movement_alert_on_backfill` is
  off. `EmptyInv` adds that a poll about to insert into an empty history has
  seen it empty: rows go only with their AirTag.

Besides the assumptions above they need that there are finitely many AirTags
and that Apple's reports lie in the instance's times (`AirTagsAssumption`,
`ReportsAssumption`).

The last two are about reports that Apple publishes in order to one process
(`InOrder`): none comes after a newer one, no two have one timestamp, and all
pollers share a lock. Each part is needed. A late report changes what a stored
flag or alert was decided by; of two reports of one timestamp the one that ON
CONFLICT drops may be the baseline of the flags of the next; and two processes
that fetch on different sides of the end of the window flag from different
baselines. The runs check the two properties of the part `Ordered` of `polls`, as
`OrderedTrailIsPlausible` and `OrderedAlertsComplete`.

- `TheTrailIsPlausible`: `KeptTrailIsPlausible`, with every other fault. Each poll
  flags anew what Apple still answers with, from the last row it kept before
  that. `PlausibleInv` says that a row is flagged if and only if it is an outlier
  after the kept row before it (`FlaggedRows`), that no report Apple still answers
  with is missing between the rows (`Gapless`; one that left the window before a
  poll came may be), and that a batch between fetch and insert will keep both
  (`Fits`). `FlaggingLoop` is what the recursion of `FlagOutliers` computes;
  `FlaggedBatch` that it flags the rows it finds as they are, so that an insertion
  adds rows at the end only (`InsertedBatch`).
- `NoMovementIsMissed`: `MovementAlertsComplete`, with Apple failing at any time
  and reports that no poll comes in time for, under `Unbroken`: besides `InOrder`,
  no crash, no failed statement, alerts on a backfill. `SettledInv` says that a row
  has its alert, needs none, or is owed by a poll: it is in the list of one that
  has not yet passed it (`Owed`). `EvaluationStep` shows that no poll passes a
  report it has not settled, and `SameBefore` that what is inserted later lies
  after it, so that it stays settled.

They need besides that `None` is no report and no row (`RowsAssumption`) and that
the window has a length (`WindowAssumption`).

**`OwnerDevicesProofs`**

`Inv` is the conjunction of `TypeOK`, `AtMostOnePrimary`, `PrimaryIsTracked` and
`LocationsHaveADevice`. The parts are inductive only together: that deleting a
device keeps the primary tracked needs the primary to be a registered device,
and that disabling one keeps at most one primary needs there to be only one.
`TypeOK` includes that a sync
carries clean-up work only in its clean-up step (`SyncsType`; the lemma
`OneSyncSteps` shows it for every step that changes one sync only).
`TypeCorrect`, `OnePrimary` (`PrimaryIsOneTrackedDevice`) and `LocationsOwned` are
its parts; no run repeats the first and the last. `OnlyTheUserOptsIn`
(`SyncsOptNobodyIn`) uses it too: a device that enters the registry was not
enabled, because enabled devices are registered ones. That a disconnect is final
needs no invariant, only that every other step leaves a missing row missing.

**`ServerProofs`**

`TheHostIsLeftAlone`: `AnswersAreFollowedByAPause`, for any threads and interval.
`LimiterInv` adds that whoever sleeps or asks holds the lock, and that after an
answer `_last_call` is no older than the request it belongs to. That is what a
request that raises breaks, and why the theorem excepts it.

`CreatesDoNotCollide` and `NoOrphanRows`: `CreatedAirtagsStay` and
`RowsBelongToTheirAirtag`, for any names and any number of requests.
`RegistryInv` adds that numbers are unique, that no AirTag appears twice, and
what is owed to requests under way: what they are about to insert was meant for
the AirTag that has its id now.

`TheBotIsHeard` and `ThePanelIsTruthful`: `EnabledBotHears` and `PanelIsTruthful`,
for any bots and any number of requests. The first is about the server:
`HearingInv` says that without overlaps one request is at the server, that an
enable about to commit has registered its secret, and that the table is ahead of
Telegram only while a commit is due. The second is about the page: `ShowingInv`
says that it has one request at most, awaits it, and that the status it has read
is the stored one. Both say nothing of requests that overlapped at the server
(`crossed`). The first excepts an enable of which only the second call to Telegram
failed (`halfway`), the second a change the page could not know of or an error it
did not show (`missed`).

`AlertsAreWitnessed`: `AlertsHaveAWitness`, for any devices, places and settings.
`WitnessInv` adds that what a poll has still to judge are recorded readings and
that readings are only added, so that the witness of an alert remains. That the
latest reading is one of the readings needs a well-founded order
(`LatestIsLast`).

`AlertsAreTheDepartures`: `AlertsFollowTransitions`, for any devices and any number
of fetches. `DepartureInv` holds while fetches are complete: every fetch has
brought one reading of each device (`OnePerFetch`), what is still to be judged
are the readings of the last one (`TodoIsLatest`), and among the readings that
are judged the alerts are exactly the departures. With one reading per fetch the
nearest reading of the primary is that of the same fetch (`NearestAt`), which is
why a later fetch cannot change what an earlier alert was decided by; a device
that misses a fetch breaks this, and `away_repeat` shows how. It needs
`AgeAssumption`, that `owner_max_age` is not negative (`web/app.py:284`).

**`MovementProofs`**

`TrailInv` is that the trail is one of the histories, in the order of its
timestamps. A report that comes late is put among the others: `InsertShape` says
what the trail is then, before, at and after its place. The theorems are about
what recursive functions compute, for every history of any length:

- `AlertsTellMovement`: `AlertsTellMovementFromNoise`, each of whose five parts
  is a lemma (`StreakInv` to `ReunionInv`). `TheWalk` says where the walk back
  from the newest report stops, `TrustedAreReports` that leaving out the
  low-confidence reports keeps the order of the others, `BlurSeparatesLess` that
  a larger radius never separates two fixes more.
- `StaysAreTheTrail`: `StaysTellTheTrail`. Clustering goes from left to right
  (`Clustered`): a point joins the last stay or begins one (`JoinShape`), which
  keeps the points (`JoinKeepsThePoints`) and the split (`JoinKeepsTheSplit`), and
  `StaysOfAHistory` follows by induction over the points.
- `ThePastIsFinal`: `PastStaysAreFinal`, also for reports that come late. Up to the
  place of the new report the walk is the same (`SamePrefix`), so all stays but the
  last one there are what they were; what comes after can only add to the last,
  whose anchor remains, or begin others (`JoinBegins`, `ClustersBegin`). What lies
  after the new report may be clustered anew, and the property does not speak of it.

The library's induction rules take an operator, which no prover here can
instantiate. `Counting` states induction by a set of numbers instead: a set with
0 and, with every number, the next has all numbers. It yields `CountingTo`, the
same up to a bound, and `RecursionTo`, that a recursion by a function of steps has
a solution. So a definition by a recursive function satisfies its equation, and
what it computes can be proved. `FlattenSeq` of the community modules is such a
definition (`Flattened`).

They rest on `ReportAssumption`, `CfgAssumption` and `PlaceAssumption`, that
positions are whole numbers and that gaps, radii and thresholds are natural ones
(the code refuses others: `web/app.py:276-284`), and on `None` not being a number
or a reason.

**`NavigationProofs`**

`NavInv` says, of every way the dashboard can be asked for an object, on which
screen the object is and what is selected (`AskedIsSelected`), that a stay kept for
the next AirTag is one of the current AirTag (`PendingIsCurrent`), which is why it
cannot be taken for a stay of the next, and that no two stays of a history have
one key (`KeysTellStays`), whichever keys a load brings. `TheStayAskedIsShown`
follows: a stay that a load has dropped or anchored anew gives way to the latest.
So does `TheStepperCounts`, from where the selected index is in a history
(`IndexOfSelected`).

`OneLevelPerGesture` (`GestureMovesOneLevel`) is proved of `Sheet` and holds of
the navigation because the navigation implements `Sheet`'s specification
(`SheetSpecHolds`). `SheetInv` adds that a drag starts from the level the sheet
has, and that a click that follows one is known to be handled already.

**`DashboardProofs`**

`OtherTrailsAreDropped`: `TrailStaysOnTheSelection`, which needs no invariant.
`SpinnerIsNotStuck` is the safety that `RefreshingEnds`, a half of
`IndicatorsTellTheTruth`, rests on: the spinner
turns only while a refresh by hand is under way, and a refresh is loading exactly
as long as an answer to it is due. Only the two together are inductive: a refresh
that is still polling must have no answer due that would end it. No run repeats
it.

**`PagesProofs`**

- `NoDeadRows`: `RowsAreLive`. `PushInv` adds what is held between the two calls:
  a subscription to be registered is known to the browser, one to be ended is no
  longer at the server. Except for `overdue` ones: a registration that the page gave
  up and the server serves afterwards leaves a row that nobody will end.
- `TheChoiceStands`: `EditorShowsTheChoice`. `EditorInv` adds that the editor of a
  new place counts as untouched only while nobody has chosen a centre in it, which
  is what a late fix asks for. What opens an editor is chosen in it; a popup that
  comes while one is open is not, since the editor does not take it.
- `LateAnswersAreDropped`, `RefreshIsQuiet`: `AddressAndRouteBelong` and
  `QuietRefresh`. `MapInv` adds that an answer somebody still waits for is about
  what is shown, and that a map on screen has been fitted to its trail.
- `UnsavedChangesAreMarked`: `UnsavedIsMarked`, for any settings and any number of
  visits and of PUTs. `FormInv` orders the PUTs: they have been served from the
  oldest on, what is stored is the value of the last one served, and one that is
  given up is the oldest (`OrderInv`). Then what is shown with nothing due and no
  error is what is stored (`AgreeInv`), by whichever visit it was sent (`VisitInv`).
  Once two PUTs have crossed only `FormTypes` and `VisitInv` are left, and the
  property says nothing. That the form holds an error does not mean that somebody
  sees it: only the page *Tracking* draws it.
- `TheLastWishIsKept`: `ChangesAreKept`, for any objects and any number of changes.
  `KeptInv` adds that a change disables what it was made with, so that no two
  changes of one field are on their way (`BusyInv`), that a change on its way
  carries the last value chosen (`WantedInv`), and that the appearance on screen,
  of which a change sends the half that was not chosen, is the stored one unless
  the list is on its way (`ShownAppearance`).
- `ThePanelFollows`: `PanelFollowsServer`, with requests that are given up and
  served later, or left with the page. `FollowsInv` adds that, unless the panel has
  been disturbed, there is one request and one status due at most (`OneRequest`),
  that what is shown is what the server has or a status that is due will show it,
  and that the step of the panel is one that the wizard of the server has reached
  or the request under way was made at (`StepOfRequest`).
- `SessionsAreLoggedIn`: `SavedSessionsAreLoggedIn`, for any number of requests that
  overlap. `WizardInv` adds `CallsMatchTheWizard`: unless a login has overtaken it
  (`overtaken`), a call under way is about the account in the wizard's variables,
  or none is there any more. An imported file is saved as it is, logged in or not;
  the property is about the accounts of the wizard. With `overtaken` it fails: the
  code goes to the account of one attempt while the account of the other is saved.

### What is only model-checked

The liveness properties: `PollsEnd`, `ReportsArrive`, `LookUpsEnd`,
`PollingGoesOn`, `FamilyDevicesLeave`, `CatchesUp` and the temporal half of
`IndicatorsTellTheTruth`. The prover has no rules for fairness. Every other
property of a passing run is stated by a theorem; those of the part `Ordered` are
`PollCycle`'s.

## Where code and documentation disagree

Each is the counterexample of a violation run; `PROJECT.json` quotes the lines.

| Run | What happens |
|---|---|
| `owner_history` | A tracked device that leaves the account is disabled by one sync and deleted, history included, by the next. |
| `away_repeat` | The last reading of a device that went offline while away is alerted at every poll. |
| `session_resurrect` | A poll writes the session file back after a disconnect, and the next poll uses it. |
| `late_away` | A report that reaches Apple late lies before one that has been alerted, and is alerted too: one episode, two alerts. |
| `dashboard_stale` | The guard against late answers compares the AirTag, not the request: when the selection has come back, or two refreshes overlap, an older answer replaces a newer one. |
| `screen_title` | With the detail of one object left open and the Zeitachse filtered to another, map and title speak of different ones. |

Met while reading the code, and not the subject of a run:

In the poller and the sync:

- A process that stops between `insert_reports` and the evaluation never
  evaluates what it inserted: the next poll finds the rows known
  (`tracker.py:483`, against `README.md:280`). With a crash
  `MovementAlertsComplete` is therefore false.
- Flags are computed again at each poll from a baseline that late reports change;
  a stored outlier then counts as good there and anchors the reports after it
  (`tracker.py:472`, against the comment at 470-471).
- An away alert needs no movement alert (`tracker.py:553-556`, on purpose);
  `README.md:274` describes the opposite.
- A device enabled after a sync has read the registry is deleted by that sync
  (`owner_tracking.py:428`).
- A failed sync stamps `last_sync_at`, so every device loses its `on_account`
  badge (`owner_tracking.py:406`, against `web/app.py:989-991`).
- A device deleted before its location is recorded raises out of
  `_update_owner_devices` and ends the poll (`tracker.py:206`, against 189-190).
- A live fetch records readings of other devices that no poll judges as their
  latest (`tracker.py:245`): a transition may be missed. `AlertsFollowTransitions`
  is about complete fetches, which need no live one.
- Two browser tabs in the login wizard: the code of one attempt can be submitted
  for the account of the other (`auth.py:110`, against the assumption of
  `auth.py:11-13`); `SavedSessionsAreLoggedIn` excepts it as `overtaken`.
- A session file that is imported need not be logged in; nothing checks it before
  the next poll (`auth.py:125-137`).
- The stillstand anchor chains along slow drift (`movement.py:136`), unlike the
  clusters that cite it as their model (`stays.py:40-42`).
- The stays of a trail depend on the direction in which it is read
  (`stays.py:48`, against 42-44). Those of a device are made newest-first
  (`web/app.py:1122-1135`), so its latest stay, and the key of it, change with every
  reading; a limit on what is read, or another radius, anchors all anew.
  `PastStaysAreFinal` is about whole trails, oldest-first.

In requests and services:

- `_last_call` is set only after `requests.get` has returned: after a request that
  raises, the next goes out at once, so a host in trouble is asked without a pause
  (`geocode.py:66-68`, against "caps unauthenticated public use at 1 request/sec"
  at 33; `routing.py:76-87` is the same). `AnswersAreFollowedByAPause` is about
  requests that were answered.
- The `finally` of a poll reads the settings before it adds the next job: if the
  database cannot be reached at that moment, nothing polls until the restart
  (`scheduler.py:38`, against "re-schedule itself after every run" at 1-2).
  `PollingGoesOn` excepts it as `forgotten`.
- An enable that is repeated registers a new secret with Telegram; if its second
  call fails, the row stays enabled with the old secret and every update is refused
  (`web/app.py:1406`, against the secret "set once in telegram_commands_enable" at
  1461-1463). `EnabledBotHears` excepts it as `halfway`.
- A deletion and a new AirTag of the same id during a poll or an import: the old
  tag's reports or key go to the new one (`db.py:371`, `tracker.py:483`);
  `RowsBelongToTheirAirtag` says it is the only way.
- Two creates of one name at once: the second is refused by the primary key and
  answered with an error, although another id was free (`web/app.py:698-704`).
- Two enables, or an enable and a new token, at once: the bot may end up deaf, or
  enabled without its token's webhook (`web/app.py:1398-1412`).
- A button of a menu sent before the list changed answers with whatever is at its
  position now (`telegram_bot.py:265-267`).
- Two look-ups of one point at once ask the host twice (`geocode.py:156-162`); the
  cache of routes keeps failures too (`routing.py:97`).
- APScheduler drops a job that is more than a second late, by default, and
  nothing adds the next (`scheduler.py:40-47`).
- A disconnect of Telegram that fails shows nothing (`TelegramPanel.tsx:81-85`).

In the dashboard:

- A refresh by hand, or one after a ping, that began before anything was selected
  empties the trail of what has been selected since: its callback still has no
  `currentId` (`App.tsx:303-307`, 390, 415). The next tick repairs it.
- The filter of the Zeitachse changes `currentId` and so the selection of the
  Objekte tab (`App.tsx:569-589`, against the comment at 138-142); an AirTag that
  is filtered or picked while it is current keeps its old stay (164-168, 575-579).
- The selected stay survives a reload of the reports, although the comment says it
  is reset then: the effect depends on `currentId` only (`App.tsx:315-319`, against
  164-167). If the reload drops its key, the map falls back to the latest.
- `pendingReportIdRef` stays set when the visit's AirTag is already current and
  then applies to the next one (`App.tsx:292-319`, 591-608).
- The answer for a range of the timeline that is no longer chosen overwrites the
  one that is (`App.tsx:331`).
- The banner speaks of a server that cannot be reached also when it answers with
  an error (`App.tsx:104-110`, 360); a failed load of the owner's devices empties
  their list (246-277).
- A drag of the handle that ends without the browser's click makes the next click
  do nothing (`App.tsx:655-665`); picking a stay minimises the sheet from
  `expanded`, two levels at once (55, 553-562).
- The point that is highlighted is not always in the middle of the map: a trail
  that grows is fitted again while the selected position has not changed
  (`MapCard.tsx:142-172`, 300-308, against 922-929).
- Settings: leaving the panel within 600 ms of the last key drops it without a
  word; the answer to a PUT overwrites what has been typed since; two PUTs that
  arrive in the other order leave the first one stored (`SettingsPanel.tsx:215-257`).
  An error of a save is drawn on *Tracking* only (294-305): on the other pages a
  switch keeps showing what was not saved, and while a threshold on *Tracking* is
  invalid nothing that is clicked elsewhere is sent (250).
- Places: a seed from the map that arrives while an editor is open does not move
  its centre, and a late fix may, although the seed should take priority over both
  (`SettingsPlaces.tsx:193-195`, 212-216, against 45-46 and 189-192); a seed whose editor is left by
  another tab opens again at the next visit (`App.tsx:155-158`, 545); the answer
  to a save closes whatever editor is open by then (63-67); *Ort entfernen* is not
  disabled while saving (240-250); the results of an older search may replace
  those of a newer (128-130).
- Push: the switch shows off after an `unsubscribe` that failed at the browser,
  and on while the server has pruned the row (`usePushNotifications.ts:15-25`,
  61-65; `webpush.py:27-34`). A subscription the browser replaces is not reported:
  there is no handler for that (`sw.ts`). A registration the page gives up after ten
  seconds and the server serves later leaves a row although the switch is off
  (`api.ts:216-228`).
- Object forms: two picks at once save one half of the appearance from a list
  older than the other pick (`AirtagDetail.tsx:379-389`), possible when a form is
  closed and opened while it saves; a name typed for one object is saved for
  another when the selection moves under the form (181-184).
- Apple panel: Enter submits also when the button is disabled, and a login that
  was given up after ten seconds goes on at the server, so two may overlap
  (`AppleConnectPanel.tsx:110-139`, 173-190; `api.ts:198-239`); a status that
  fails after an accepted code leaves the code step although connected (81-87).

## What is not modelled

- The haversine formula, floating point, time zones: arithmetic on reals.
- What Apple, Nominatim, OSRM, Telegram and browsers do beyond answering or
  failing.
- In `OwnerDevices`, choosing the primary is one step: its two statements share
  a transaction. A device id is never reused for another device.
- `PollCycle` never gives an id away again; `AirtagRegistry` does, and takes a
  poll as a fetch and an insert.
- The chat of the Telegram bot: the menu of `/where`, whose buttons
  carry a position in a list that may have changed since.
- In `TrailMap` the effects of a render are part of its step: React runs them before
  the next event of the user.
- What the host answers, how an address is put together, how a trail is thinned
  before it is routed; the polling interval.
- Configuration, command line, migrations: no state that changes.
- In the dashboard: drawing, formatting, the browser's own widgets. The panels for
  MQTT, the token of Home Assistant and the tiles have one request and
  one status each, the shape `ConnectPanel` and `SettingsForm` have in full. The
  loads that swallow failures are taken as answered at once in `Dashboard`.
- The owner's login wizard, corrections and places at the server, authentication:
  `PROJECT.json` gives the reason for each.

## Plan

Done: the polls and the abstract log they implement, the movement rules, the
owner devices, their away alerts, the Apple session, stays and places; the
dashboard's navigation, loads, settings, places, map, push subscription, object
forms and connect panel; the scheduler, the limiter, the Telegram bot and the
table of AirTags; proofs about most of them, in eight modules.

The set of runs stays small, so that the project can be checked in one go: a
module that is added gets one run for its safety and liveness properties
together, or joins one of the `MC` modules that have several parts if it shares no state with others.

Next, in this order:

1. What a poll promises of away alerts with an owner who moves: the readings that a
   decision used have to be remembered to say it. So far `late_away` shows what
   late reports do.
2. `OwnerLogin`: the pending globals and the cookie directory of
   `owner_tracking.py`, next to a sync.
3. The chat of the Telegram bot: menus that outlive the list they were made from.
4. `WebAuth`: sessions, the Home Assistant token and the redirects of a login.

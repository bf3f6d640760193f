# HomeMonit in TLA+

HomeMonit is a small fork of Beszel: a *hub* (a PocketBase application that keeps
a table of monitored systems, their statistics and their alerts) and an *agent*
on each monitored machine, which dials the hub over a WebSocket and answers its
requests for data.  These modules describe the hub's and the agent's own logic
(`internal/hub`, `internal/alerts`, `internal/records`, `agent`).  PocketBase, the WebSocket
library, the Docker engine and the Go runtime are modelled from how that code uses them.

## 1. Inventory

| Component | Source | State | Operations | Modules |
|---|---|---|---|---|
| SystemManager | `internal/hub/systems/system_manager.go`, `system.go`, `internal/hub/agent_connect.go`, `ws/ws.go` | store id -> System; each System: status, WsConn, context, updater goroutine; the agent's connections and their DownChan | AddSystem, AddRecord, AddWebSocketSystem, RemoveSystem, StartUpdater, update, setDown, record hooks, OnClose, Close | `SystemManager` |
| RequestManager and transport | `internal/hub/ws/request_manager.go`, `internal/hub/transport` | pendingReqs, nextID; a context and a one-slot channel per request | SendRequest, handleResponse, routeLegacyResponse, cancelRequest, Close | `RequestReply`, `RequestManager` |
| Realtime worker | `internal/hub/systems/system_realtime.go` | activeSubscriptions, workerRunning, tickerStopChan | subscribe, unsubscribe and disconnect handlers, the worker | `Realtime` |
| Status alerts | `internal/alerts/alerts_status.go`, `alerts_cache.go`, `alerts.go` | pendingAlerts (timers), the triggered column, its cache | HandleStatusAlerts, CancelPendingStatusAlerts, processPendingAlert, restorePendingStatusAlerts | `StatusAlerts` |
| Threshold alerts | `internal/alerts/alerts_system.go` | the triggered column, its cache, 1m rows of a period | HandleSystemAlerts, sendSystemAlert | `SystemAlerts` |
| Records | `internal/records` | statistics rows of types 1m, 10m, 20m, 120m, 480m | CreateLongerRecords, deleteOldSystemStats | `Records` |
| Agent connection | `agent/connection_manager.go`, `agent/client.go` | State, isConnecting, wsTicker, eventChan, the client's Conn, hubVerified, lastConnectAttempt | Start loop, handleEvent, connect, Connect, OnMessage, OnClose | `AgentConnection` |
| Agent data | `agent/agent.go`, `agent_cache.go`, `network.go`, `disk.go`, `system.go`, `deltatracker` | cached answers, counters of the previous call for each cache time, details | gatherStats and what it calls | `AgentData` |
| Docker statistics | `agent/docker.go` | containerStatsMap, wait group, semaphore, trackers, the shared decoder | getDockerStats, updateContainerStats, retries | `DockerStats` |
| Disk discovery | `agent/disk.go` | fsStats, fsNames | initializeDiskInfo | `DiskInfo` |
| Hub start and API | `internal/hub/hub.go`, `api.go`, `collections.go` | users, routes, cron jobs | StartHub, CreateFirstUser | only its effect on the others |
| Agent handlers | `agent/handlers.go`, `fingerprint.go` | the handler registry | GetData, CheckFingerprint, ContainerAction | in `AgentConnection` and `AgentData` |

How they interact.  The updater of a System asks the agent through its WsConn and the RequestManager, saves the
row, and the hook of that save sets the in-memory status and calls the AlertManager; the
hook of an alert's save updates the alerts' cache.  The rows the updaters store are the input of Records and of
the threshold alerts.  The realtime worker asks the same agents for the same data at another cache time, which is why the
agent keeps two sets of baselines.  In the models the seams are `FetchOk` / `FetchErr` (SystemManager) for
`RequestReply`, the actions of `Hook` (SystemManager), whose calls into the AlertManager are what `StatusAlerts` and `SystemAlerts` begin with, and the hub as
the environment of `AgentConnection` and `AgentData`.

What makes this code hard is that nothing in the hub serialises the work on one
system.  Its updater, the connect handler of its agent, the requests of users
and the start of the hub all read the row, save it and run its hooks; hooks run
after the commit, on the goroutine that saved, so their order is not the order
of the saves.  In the agent the event loop, its connect goroutines and the read loops share fields without locks,
and requests at two rates share counters.  `PROJECT.json` lists each such hazard at its line, with
the property about it or the reason why there is none.

## 2. How the modules were ordered, and what is left

The modules were written from the centre outwards: SystemManager, the transport, the realtime worker, the alerts,
the roll-up, then the agent.  Each module is small enough to be explored completely and to be proved about; no
module has a RECURSIVE operator.  Sizes are constants with named assumptions.  Bounds, in guards, are named where they occur:
`MaxId` (RequestManager), `Alive` (DockerStats), `MaxParts` (DiskInfo), `MaxMoved` (AgentData), `OneDisturbance` and `Starved`
(SystemManager), and the sets of goroutines and connections alive at a time everywhere else.

Left, in the order of their worth: one module with the hooks of SystemManager and the timers of StatusAlerts
together, where registrations replace the System under the hooks; container actions.

## 3. SystemManager

One system id: different ids share nothing but the concurrent map.  The state is
the row's status (`record`), the store entry (`store`), the System structs ever
made for the id (`sys`), the connections of the agent (`conn`), their down timers
and channels (`down`) and the goroutines (`thr`).

*Threads.*  Each goroutine has a program counter, and one step is one access to
something shared.  `<<"updater", i>>` is the updater of struct `i`; `<<"once", i>>` the
additional `go system.update()` of the pending hook; `<<"connect", c>>` the goroutine
that registers connection `c`; `<<"user", u>>` a request of the records API; `Boot`
the goroutine of `Initialize`.  A hook is a continuation of the thread that saved,
with the status it saved (`seen`).  `new` is the struct a thread is about to register, `old` the one RemoveSystem
looked up, and `next` where RemoveSystem, which is called from several places, returns to.

*Where the steps are cut.*  An update takes its answer (`FetchOk`), reads the row (`ReadRow`), saves it (`SaveUp`, `SaveErr`) and runs
the hook of that save; other goroutines run between any two of these, so an answer outlives the connection it came by and the
registration it was for.  A failed update closes the connection (`FetchErr`), looks at the status in memory and reads the row
(`SetDown`), and saves (`SaveDown`, `SaveDownErr`).  RemoveSystem is `LookUp`, `Cancel`, `CloseConn` and `Remove`; AddSystem is `Check` and `Set`; AddWebSocketSystem
reads the row (`Find`) and then runs all six.  A hook looks at the store and sets the status of what is registered
(`HookPaused`, `HookPendingLinked`, `HookPending`, `HookKnown`, `HookUnknown`); the two that call AddRecord go on at its look-up, so what others registered since
is cancelled and thrown out.  AddRecord's Has and RemoveSystem's GetOk are one look-up: nothing is removed when either
finds nothing.

*Connections.*  `open`, `closing` (the hub wrote a close frame), `gone` (after OnClose,
where `conn` is nil).  OnClose may come at any time: it stands for the agent, the network,
and the 70 s deadline.  `down` is `armed` during the 5 s sleep and `full` when the signal is
in DownChan.  A request on an open connection may fail at any time (`FetchErr`: timeout,
error answer); it may succeed only on an open one.

*Assumed of PocketBase*: a save writes the columns that differ from what was read
(`Written`), saving a row that is gone changes nothing and reports no error, and
update hooks run after the commit on the goroutine that saved.
*Assumed of Go*: a struct that nothing refers to is collected (`CollectSystem`); when `Recycle` is TRUE it is used
again, so a finite set of structs stands for any number that are alive at a time.  A signal for a connection
whose System is collected reaches nobody, which is what the weak pointer in OnClose comes to.

*Abstracted*: statistics, details and container rows, host and port, the ticker period, which
error it was, and the AlertManager that hooks call (it reads and writes nothing of this module).  *Left out*: a realtime fetch that fails closes the connection too; to
this module that looks like OnClose of an open connection.  PocketBase failing to
read a row that exists.  At most one additional update at a time per struct.

| Run | Instance | Shows |
|---|---|---|
| `user` | 2 structs, 2 connections, 1 request, collection; the request or the second connection, not both (`OneDisturbance`) | `DeadNotRegistered` (no cancelled System stays in the store), `CutOff` (a cancelled System has a usable connection only until the thread that cancelled it has closed it), `OrphansNeedOverlap` (a step orphans an updater, or puts a thread on the way to orphan one, only while two threads are between Has and Set of AddSystem or between the look-up and the removal of RemoveSystem) |
| `live` | 3 structs, 2 connections, no requests, no collection | `LossSeen` (a row does not stay "up" without an open connection, while the in-memory status agrees), `RecoverySeen` (a row does not stay "down" while the agent is connected to the registered System, although replaced updaters and old timers still report), `UpdaterStops` (the updater of a cancelled System ends) |

Bounds.  Every race here is between two registrations, so two structs alive at a
time show it; a third one is needed only when none is collected, as in `live`: registered,
replaced, and the pending hook's.  Two connections show an agent that reconnects before or after the old one's timer; a request and a
reconnection at once are covered by the proofs only.  `live` starts from a registered System that has no connection, with
two more structs, or is served by `c1`, with one more (`LiveInit`); the start-up race is left to `user`.  A registration that finds no struct waits (`Starved`, excepted in `UpdaterStops`).
`CHECK_DEADLOCK FALSE`: a deleted or paused system with no connection
rests.  Symmetry over structs and connections is used for invariants and `OrphansNeedOverlap` only.

Fairness (`Fairness`).  Weak fairness for each goroutine's next step; strong fairness for the
select's choice of DownChan or ctx.Done (Go picks at random among ready cases, and
the ticker only competes) and for saves (the database does not fail for ever).
Nothing makes an agent connect, a user act, or a connection that is open break.

*Proofs* (`SystemManager_proof`), for any sets of structs, connections and requests, collected or not:
types, the two invariants and the action property of `user`.  `RegInv` adds to the types and `DeadNotRegistered` that a struct a goroutine has made
and not yet registered is held by that goroutine only (`Held`), that a goroutine
past the check of AddSystem has one (`AtSet`), that registered or running structs
are not blank (`Used`), and that what a goroutine is removing is not blank either and is cancelled by the time its connection is closed
(`Victims`).  Without them nothing rules out that the struct about to be set in the store is one
that somebody else has cancelled.  `LinkInv` adds `CutOff` and that a connection in use has been opened (`ConnUsed`): a System gets its connection
before it is registered, so none gets one after it was cancelled.
`Orderly` says that every uncancelled updater that runs is the registered System's (`OneUpdater`), that the store is empty while a thread is
about to set (`SetIsFree`), and that what a thread removes is what it looked up (`RemovesIts`).  With `RegInv` it is
inductive as long as no two threads are between such steps (`Alone`): this is `OnlyOverlaps`, and by induction `OneAtWork` (a hub
whose registrations never overlap has one updater at most at work).
Most actions neither register nor remove: `Plain` says what such a step leaves alone, the lemmas ending in `Plain` that these
actions are such steps, and `StepKinds` that every other step is one of nine, each with a lemma of its own.

*What the code does not give.*  Has and Set of AddSystem are two steps, so two registrations can both
succeed and orphan an updater (`system_manager.go:147`), and so can a registration inside RemoveSystem (`system_manager.go:164`).
`OneUpdater` is therefore no invariant; `OrphansNeedOverlap` says that nothing else orphans an updater.  An updater whose System was replaced still saves the answer, or the failure,
it has already, for an id it no longer serves (`system.go:132`, `system.go:263`), and the hook of that save acts on the System registered by
then: `CutOff` is about new answers only, and `RecoverySeen` says that such a "down" does not last.  Two saves whose hooks run in the other order leave "down" in memory
and "up" in the row; `setDown` (`system.go:263`) then returns early for ever, which is why `LossSeen` asks that the two
agree.  A pause between the read and the save of an update is lost (`system.go:176`).

## 4. RequestReply and RequestManager

`RequestReply` is what a caller of the transport relies on: a call makes one request, the
agent carries it out at most once, and the call returns the answer to that
request or fails; a failed call says nothing about the request.  This is what
SystemManager means by `FetchOk` and `FetchErr`.

`RequestManager` is the code behind it for one connection.  Requests are known by their ids, which are
never used twice on a connection (`MaxId` bounds `nextID`; a wrap of the uint32 takes 2^32
requests).  `pending` is the map, `slot` the one-slot channels, `live` the contexts
that are not done, `watch` the cleanup goroutines, `reader` the read loop inside `handleResponse`,
`toAgent` and `toHub` the two directions of the WebSocket.

*Where the steps are cut.*  Insertion in the map (`CreateRequest`), write and start of the
watcher (`Send`, or `SendErr` with its cancelRequest), the waiter's select (`TakeAnswer` or `GiveUp`;
both may be ready), look-up (`Receive`), delivery or ctx.Done (`Deliver`, `Discard`), removal
(`deleteRequest`); the two halves of `WsConn.Close` (`WriteClose`, `Close`).  `CreateRequest` has no guard on the
connection: the transport looked at it earlier.  `nextID.Add`, `time.Now` and the insertion are one step, so the oldest
request is the one with the smallest id.  OnClose and the messages before it run on the same read loop, hence its guard.
The agent reads requests one at a time; it answers, fails to, or drops the request.  With `LegacyAgent` its answers
carry no id.  `TakeAnswer` is also the end of a call whose message turns out to be an error or not to
decode: the message was the one for this request.

Run `ids` (2 callers, 3 requests): the refinement of `RequestReply` (`ReplySpec`); `NobodyForgotten`, `PendingIsWatched`,
`ContextsEnd`; `CallEnds` and `Drained`.  Two callers give every pair of concurrent calls, and the third request comes after
one of them has timed out, when its late answer is still on the way.  Fairness: goroutines that can go on do; the context of every
request has a deadline (`SendRequest` sets 5 s when the caller has none), so `Expire` is weakly fair.  Nobody has to answer.

*Proofs* (`RequestManager_proof`).  `ManagerInv` is inductive for agents with and without ids.  A full channel belongs to a
request that is out of the map or being taken out of it (`SlotsLeaveMap`), so the next look-up
finds a request with an empty channel: `ReaderNeverStuck`, the read loop never blocks (no run checks it: with the echoed ids of `ids` it could hardly fail).  What is taken out of the map has its
message (`DeletedAnswered`): `NobodyIsForgotten`.  `PendingAlwaysWatched` is inductive with the types.
`EchoInv` adds, for agents that echo ids, that an answer travels under the id of its request (`Routed`); a request that
was not written has no answer, so when the write fails its entry is still in the map or its context done:
`ContextsAreCancelled`.  The same invariant maps each step to a step of RequestReply or a stutter: `Implements`.

For legacy agents `ContextsEnd` and the refinement do not hold: an answer goes to the oldest
request (`request_manager.go:106`, "route to first pending request of any type"), which may be another one.

## 5. Realtime

Browsers subscribe to the live metrics of systems (`subs`, kept by PocketBase's broker).  The
handlers count subscribers per system in `activeSubscriptions` (`active` and `count`, a uint8, hence
`CountMod`) and start or stop the worker.  The mutex covers the start and the stop only;
everything before them is read and written without it, so a handler is a sequence of steps, one per access:
`BeginSubscribe` (the old subscriptions), `ApplySubscribe` (`e.Next`), then for each new one `Look`, `Insert`,
`CountClient`, `onRealtimeSubscriptionAdded`, and for each one that is gone `RemoveClient`, `DeleteEntry`,
`checkSubscriptions`, `StopWorker`.  `CountNil` is the nil dereference of an entry deleted meanwhile; PocketBase
recovers from the panic and the request ends.  A worker evaluates the package variable `tickerStopChan` each time
it enters its select, so one that is already waiting (`ready`) becomes `stale` when a new channel is made.
The Go memory model allows more than this: two increments may lose one, and the runtime
stops the program when it notices concurrent writes to a map.  Neither is explored, nor is a counter that
wraps with 256 browsers on a system (`ClientsAssumption`).

Run `realtime` (2 clients, 2 handlers, 1 system, 2 workers).  `overlapped` remembers whether requests have
overlapped.  As long as they have not, the counters agree with the broker (`CountsAgree`) and a subscriber has a worker
(`Served`), in spite of workers that end by themselves and leave `workerRunning` set, and of signals that are missed.
However requests overlap, every worker ends when there are no entries (`WorkersEnd`).  Two clients and two handlers give every
pair of requests; a start waits when both workers are in use.  Fairness: handlers and workers
go on (each wait in them is bounded: the ticker, and a fetch in a goroutine of its own); browsers need not act.

*Proofs* (`Realtime_proof`): `EntriesAgree` and `SubscribersServed`, for any browsers, systems, handlers and workers.
`RequestInv` describes the one request that may be under way: the clients an entry counts are those subscribed, less what the
request has still to add, plus what it has still to remove (`Counted`, `EntryOK`); a deleted entry is one without clients
(`EntryKnown`); and the worker follows the entries with a delay the request makes good (`WorkerOK`).

*What the code does not give.*  After requests have overlapped, a lost or doubled entry is never made good, and
`checkSubscriptions` decides before it locks (`system_realtime.go:89`), so it can stop the worker under a subscription
that has just been added.

Nor is there only one worker, as the comment at `system_realtime.go:72` says: the stop signal (`:99`) is sent without waiting, a
worker that is not in its select misses it, and the next subscription starts a second one beside it.

## 6. StatusAlerts

One registered system, its Status alerts and the goroutines that work on them.  `row` and `mem` are the
status in the database and in the System; `saver` the goroutines that save the row and then run its hook (updaters, requests of
users, the registration of an agent); `triggered` and `cached` the alert's column and its copy in AlertsCache; `entry` is
`pendingAlerts`, `timer` the alertInfo structs with their goroutines.  `fell` and `overlapped` are history: the last change of
`mem` was from up to down, and the hooks of two saves overlapped when `mem` changed or have since.

*Where the steps are cut.*  Reading the row, the save and its hook (`Read`, `Save`, `Hook`), so that saves and hooks of any number of
goroutines interleave; reading the triggered alerts, saving each, and the listener that writes the cache (`FindTriggered`, `Deactivate`,
`Uncache`); the snapshot of the cache in `HandleStatusAlerts`; storing the entry and starting its timer
(`schedulePendingStatusAlert`, `Arm`); taking the entry, looking at the cache, saving the row, and the listener (`Pop`, `Refresh`,
`setAlertTriggered`, `SendDown`).  The messages that follow the last two change nothing in the hub and are left out.  A timer that
was stopped never fires; one that has fired cannot be stopped.  How long a timer runs is abstracted: it may expire at any time.
`Restart` is a crash at any point and the next start: memory is lost, the cache is read from the rows and
`restorePendingStatusAlerts` schedules what is down and not triggered.

*Simplified.*  Alerts' rows are saved without failing; alerts are not created or edited meanwhile; the System is not replaced by a
registration (then `mem` would start from the row).  `Stop` and `resolveStatusAlerts` are called by nobody.  A system that goes from "pending" to
"down" raises no alert: that is the code's condition, and why `Watched` and `Alarmed` speak of outages that began when the
system was up (`fell`).

Run `alerts` (2 savers, 1 alert, 2 timers, restarts): `Watched`, an outage has its alert triggered, believed triggered, or about to be,
unless its own hook overlapped another; hooks that overlapped earlier, with what they left behind, do not matter.  `EntryTimed`, however hooks,
cancellations and expiries overlap, no entry stays in `pendingAlerts` without a timer that runs or is about to be started.  `Alarmed`, the
alert of an outage that lasts is triggered in the end.  Two timers let the alert have one of an earlier outage, which has fired and
not yet looked at the map, beside the one of the present; when both are in use, scheduling waits.  One alert is enough for the hooks' loops to be cut between the
alert and the rest of the hook; the proofs are for any number.  Fairness: goroutines go on, timers expire, and the hub is not restarted for
ever (each restart begins the delay anew, so a hub that restarts more often than that never raises an alert).  Nobody need save.

*Proofs* (`StatusAlerts_proof`): `EntriesTimed` and `OutagesWatched`, for any number of savers, alerts and timers, with or without restarts.
`AlertInv` says for each step of the hook which status was saved (`SaverOK`), that without overlap one hook is at work and the System remembers its
status (`Lone`, `Remembered`), that an entry belongs to a timer of the same alert that is still to look (`EntryServed`) and is started by the one hook
that stored it (`StartedSoon`, `Armable`, `ArmOwn`: two hooks never hold one timer), and that in an outage the alerts its hook has visited are covered
(`OutageCovered`), which no timer of an earlier outage can undo: it may take the entry of the present one, but then it raises the alert itself.

*What the code does not give.*  Hooks do run in another order than their saves.  When the hook of a recovery runs after, or beside, the hook of the
outage that follows it, it cancels that outage's alert, and no alert is raised; when it runs before the hook of the outage it ends, the entry stays behind, is raised although the system is up, or holds back
the next outage's own for the rest of its delay.  Listeners of two saves may run in the other order as well and leave a stale `triggered` in the cache
(`alerts_cache.go:50`), which is why `Watched` speaks of what is believed.  `processPendingAlert` never looks at the status
(`alerts_status.go:124-126`), so a hook between `Pop` and `SendDown` finds nothing to cancel, and the message "down" follows a recovery or a pause.
A hub that stops between the save of a recovery and its hook leaves the alert triggered.

## 7. SystemAlerts

One threshold alert.  `window[i]` is the 1m row of `i` minutes ago, with the usage of each filesystem (one for CPU and memory); `Update` stores
a row and evaluates the alert in the goroutine that saved (`Outcome`): the present value, the greatest of the filesystems'; the coverage
of the period; the count of its rows against min/1.2; the average, which is that of the filesystem with the largest sum.  `UpdateErr` is a row
after which the query or the decoding fails, `Miss` a minute without a row, `Reevaluate` a second save in a minute.  The row stored `min` minutes
ago may be in the period or not, ten seconds of grace included (`edge`); `wide` is a query that finds an older row besides.  A change starts a
goroutine of sendSystemAlert: `Save`, then `Hook` (the cache); the message that follows changes nothing and is left out.  `Pause` is
deactivateAlerts, on the goroutine of the request: the row, then the cache.  `Restart` interrupts all of it.  `inLine` and `alone` are history:
row and cache were brought in line by a change that was alone or a restart, and no change has overlapped another since.

Run `sysalerts` (periods of 1 and 2 minutes, 2 filesystems, a value above the threshold and one below, 2 goroutines): `InStep`, row and cache agree when nobody is
at work, unless changes have overlapped since they were last in line; `Settles`, a filesystem that stays above the threshold raises the alert and all below clear
it, whatever overlapped or failed before.  `Share` scales min/1.2 down: a period may lack one row in six in the code, one in two in the run, so that the
count is met exactly; Share = 6 would need six minutes and its 7 rows.  Two minutes is then the shortest period in which the edge and a missing row
differ.  Fairness: updates go on, now and again one whose query does not fail comes when the period is covered, goroutines run, and the database does not refuse a save for ever.  A
system that is paused again and again is excepted, since each pause clears the alert.

*Proofs* (`Statistics_proof`): `ChangesInStep`, for any periods, samples, threshold and number of goroutines.  `ChangeInv` adds that a goroutine that is
alone is the only one and that only its own save has touched the row (`LoneInv`), and that as long as row and cache count as in line whoever is at work is
alone and found them so (`LineInv`).

*What the code does not give.*  After an overlap, of two changes or of a change and a pause, the row and the cache may disagree until the next change.  A pause sends no
message, so the user is not told that the alert is over.  Two filesystems that take turns above the threshold keep the present value (the
greatest of this minute) above it while neither average is: the alert does not trigger, and `Settles` speaks of one filesystem that stays above.  `stats` is reused from row to row in the
decoding loop (`alerts_system.go:118`), so a field a row lacks keeps the value of the row before; the model's rows have their values.

## 8. Records

The rows of one system and one statistic by age in minutes.  `Sample` stores a 1m row, `CreateLongerRecords` runs the levels
in order, each reading what the one below has just stored, `deleteOldSystemStats` deletes by age.  What happens in one minute happens in any
order, and a row whose age is exactly the limit of a query may be on either side of it (`edge`).  `used`, `low` and `high` are history.

Run `records` (two levels: the first allows a missing row like 1m to 10m, the second none, like 10m to 20m): `NoGap`, without
interruption every level has a row for the current period; `NoneSkipped`, every row is averaged by a longer one; `Faithful`, a peak
survives both levels and an average lies between the extremes of its samples.  The real durations are 10 to 480
minutes; the instance keeps the order of durations, retentions and the job's period.

*Assumed of the constants*, as `records.go` and `records_deletion.go` satisfy it: rows live longer than the roll-up reads them
(`RetentionAssumption`); a period is a whole number of runs of the job, level 1 needs fewer samples than its period has minutes, and every other
level needs no more rows than its period has periods of the level below (`RhythmAssumption`: 9 of 10, then 2 of 2, 6 of 6, 4 of 4).

*Proofs* (`Statistics_proof`), for any number of levels, any periods that fit, any readings and any order of samples, job and cleaner: types and
the three invariants.  None of them is inductive.  `RecordsInv` keeps time by the last run: a longer row is a whole number of runs older
than it (`Aligned`).  Without interruption each minute has its sample (`SamplesStored`), and each type has a row in *every* period the
next type reads, wherever that period starts (`AllCovered`): the current period alone, which is `NoGap`, would not give the next level
the number of rows it needs.  A row and its average are tied by their ages (`Marked`), so a row that nobody has read is young
(`SoonUsed`, `SamplesUsed`): `NoneSkipped`.  A 1m row has its greatest sample in the average, a longer one in the peak, so `TrueRows` says
that one of the two reaches it, and `AverageBounds` that an average rounded to hundredths cannot leave the extremes.  Within a run, `RunEffect` names the rows before and after every level; `RunCovers` and its lemmas carry coverage from one level to the next.
Where the argument goes by induction on the levels, on the size of a set or on a number, it is by the least counterexample: `Least` gets the
least element of a set of naturals from their well-ordering, and `NatSet` and `TypesSet` apply it to a set closed under successor.

## 9. AgentConnection

The agent's event loop (`Main`), its connect goroutines, and the read loop of each connection.  `state`, `isConnecting`, `ticker`,
`recent` (the last attempt is less than 5 s old), `client` and `hubVerified` have no lock, so connect is `Connect` (isConnecting, then whether to sleep), `Wake` after the
sleep, `CheckState` and `Check` (the state and the last attempt again), `Dial` (the time of the attempt, and the Close of the old connection), `DialOk` or `DialErr`, `Drop` (closes whatever the
client holds by then), `Failed`, `Tried` (the ticker) and `Done`.  The loop's part is `HandleConnect`, `StopTicker`, `Settled` for one event, and
`HandleDisconnect`, `Lost`, `GoConnect` for the other.  `Lost` reads isConnecting and sets it in one step (`connection_manager.go:147`, `:150`): whatever connect writes in
between leaves the same as if it had come before or after.
`events` is eventChan, with room for one: a read loop waits in `PushConnect` and `OnClose` until the loop takes it.  The hub is the
environment: it may challenge, ask, or close a connection at any time; `Lose` is also the network and the 70 s deadline.

Run `connection` (1 connect goroutine beside the loop, 2 connections): `ConnectedIsOpen`, the connected state never outlives
its connections for good; `KeepsTrying`, an agent no hub has challenged yet keeps dialling; `EventsTaken`, no read loop waits for
ever.  Two connections overlap when the old one's OnClose is late; a third would need a dial every 5 s with two OnClose blocked, while the
loop takes events.  `CHECK_DEADLOCK FALSE`: the agent of run `stuck` really stops.  Fairness: goroutines run, time passes, dials end; strong fairness for the ticker and the
events in the loop's select (`Tick`, `Take`: Go picks at random among ready cases) and for a read loop that shares the channel's slot with another; nothing is assumed of the hub.

*Proofs* (`Agent_proof`): `BelievesRightly`, for any number of connections and connect goroutines.  `LinkInv` adds that a
"connect" in the channel comes from a challenged connection that has not sent its "disconnect" (`ReportIsTrue`): the channel's one
slot keeps the order of the two.

*Also seen*: two dials may be under way at once, although `isConnecting` is there "to prevent multiple connection attempts"
(`connection_manager.go:27`); an answer is written to the connection the client holds by then, whichever asked (`client.go:224`); this
hub has no caller of `GetFingerprint` (`ws/handlers.go:60`), so whether an agent is ever challenged is left open.

## 10. AgentData, DockerStats, DiskInfo

`AgentData`: a request is one step, since the read loop serves one at a time.  `moved` is the true traffic; a baseline is a reading with the
traffic at its time, so `NotOverstated` compares what an answer says with what moved.  Differences are uint64: one of a counter that went back wraps.  The code
notices that by the size of the rate alone (over 10 GB/s, `network.go:216`; over 50,000 MB/s, `disk.go:644`), so it lets a wrapped difference pass that is spread over long enough,
about four days for a disk and three weeks for an interface; readings of that age are `loose` (`LongWhile`), and so are totals that a failed `disk.Usage` has
zeroed without their time (`disk.go:578-583`).  An impossible disk rate is dropped, and the last one stays in fsStats (`fs.rate`), which an extra
filesystem's answer then repeats, at whichever cache time it was computed.  Counters restart (`NicReset`, `DiskReset`), usage calls
fail, answers are lost or not saved, details change (`detect`) and the hub restarts.  A lost answer closes the connection, so the next one comes to a new System (`held`
is what sys.data has of the details).  One interface and one filesystem are followed: with several, an interface
that vanishes unnoticed and returns inflates the total.  Run `data`: two cache times, `MaxMoved` 2 units of traffic (enough for a
reset between two readings of either rate), `NotOverstated` and `DetailsArrive`.  Fairness: time passes, and the hub's requests at the default
rate do not all fail.  *Proof* (`AgentData_proof`): `NothingOverstated` for any cache times and traffic; `RateInv` says every baseline that is not a zeroed total is `Sound`: since it
was taken the counter has advanced by no more than what moved, also over a reset; a rate that is neither impossible nor loose then starts from a
reading that is at most the counter.

`DockerStats`: the call, its goroutines, the wait group, the semaphore (used when `goodDockerVersion` is TRUE only), the retry, and for
each cache time the counters of the DeltaTracker, abstracted to how they relate to the running container.  Run `docker` (2 containers, one of them restarting, 2 cache
times, 2 goroutines, a semaphore of 1): `CallReturns`, and `NoLeak`, no rate is computed across a restart that a call of any cache time has
seen.  One semaphore token and two goroutines make the second one wait, also for a straggler of the call before.
Fairness: requests time out
and goroutines run.  *Proof* (`DockerStats_proof`): `NoRateAcrossRestart` for any containers, cache times and goroutines; `Inv` counts the wait group
(`WaitGroup`), has a container worked on once in a round (`OncePerRound`), and says that a counter from before a restart has lost its time unless
the call has already replaced it (`CurrentFresh`, `PreviousFresh`).
*Also seen*: a straggler that took no token returns one after `goodDockerVersion` turned TRUE (`docker.go:111-117`), and takes the token of
another or waits until there is one; the one json.Decoder keeps its first syntax error, after which no call
returns containers (`docker.go:748-762`); the status code of an answer is not checked, so an error document leaves the previous container's numbers in
`apiStats` (`docker.go:524-529`).

`DiskInfo`: the steps of initializeDiskInfo over every host with up to two partitions, three device names of which two are prefix-related, and every
setting.  Run `disk`: `OneRoot`, exactly one filesystem is the root, unless an extra one was registered first under the device of the root
partition: `hasRoot` is set although `addFsStat` found the key taken (`disk.go:204-213`).  Two partitions are the root and one that can take its
key.  *Simplified*: each of EXTRA_FILESYSTEMS and /extra-filesystems has one entry at
most, where the code loops over any number (`disk.go:262`, `:290`); the device of
a Docker mount is taken to be under `/dev` (`:198`), the suffix by which an extra names a device to be its base name (`:236`), and devices have no label (`:444-448`).
`CHECK_DEADLOCK FALSE`: the initialisation ends.  The last resort overwrites an extra filesystem that has its key (`disk.go:229`).
*Proof* (`Agent_proof`): types (`DiskTypeOK`, proved only: in particular a name in fsNames has counters and a filesystem) and `RootFound`, for any partitions, settings and device names, related in any way.  `DiskInv` says what the flag
means (`RootRight`): as long as `hasRoot` is FALSE no filesystem is the root; once it is TRUE, or the last resort is over, one is, or none is
and another filesystem has the device of a root partition (`RootKnown`, `Displaced`).  It needs the step, too: FILESYSTEM is looked at while nothing is
registered, so its root always finds its key free.

## 11. Finding

Run `stuck`.  `agent/connection_manager_test.go:220`: "First disconnect should trigger reconnection logic".  A connection that is lost before
the hub's challenge is ignored by handleEvent, since the state is already Disconnected (`connection_manager.go:126`); after an
earlier loss the ticker is stopped, so nothing dials any more.  `Reconnects` is violated; `KeepsTrying` is what remains of it.

## 12. Proved, model-checked, not modelled

Proved with TLAPS, from the named assumptions of each module: types and every safety invariant of every passing run, the action property `OrphansNeedOverlap`, and the refinement
`ReplySpec`.  Each proof has the same
shape: an inductive invariant, one lemma per action or group of actions, and a temporal theorem for each conclusion.
`Statistics_proof` is about SystemAlerts and Records, `Agent_proof` about AgentConnection and DiskInfo, the other proof modules about the module
they are named for.

Model-checked only: all liveness (`LossSeen`, `UpdaterStops`, `CallEnds`, `Drained`, `WorkersEnd`, `Alarmed`, `Settles`,
`KeepsTrying`, `EventsTaken`, `CallReturns`, `DetailsArrive`), because TLAPS has no backend here for ENABLED and fairness.

Not modelled: migrations (a generated schema), entities (declarations), commands and static files, the web site (its requests are the
`Users`), battery, sensor and Windows probes (reads of the operating system; a probe that times out leaves its goroutine behind), CPU and memory
(one previous reading each), container actions and the fingerprint file, settings and collection rules, CreateFirstUser (two requests at once
are decided by the database), the deletion of containers, services, alert history and quiet hours (one DELETE each), and the content of the
data the updater, an additional update and a realtime fetch decode into one `sys.data`.  What the external parts assumed above really do is not checked.

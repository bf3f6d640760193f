---------------------------- MODULE DockerStats ----------------------------
(* getDockerStats: one call at a time lists the containers and starts a      *)
(* goroutine for each, which asks the engine for its statistics and updates  *)
(* the shared map under a mutex; failures are retried once.  Rates need the  *)
(* counter of the previous call with the same cache time, kept in a          *)
(* DeltaTracker, and are worthless across a restart of the container, which  *)
(* sets its counters to zero.  A stored counter is modelled by how it        *)
(* relates to the current one.                                               *)
EXTENDS Naturals, FiniteSets

CONSTANTS
  Ids,         \* containers
  Fickle,      \* bound: the containers that restart or vanish; only their counters
               \* are followed
  Intervals,   \* cache times in use
  Alive,       \* bound: goroutines alive at the same time
  Sem,         \* capacity of the semaphore
  NoCtr

ASSUME BoundsAssumption == Sem \in Nat \ {0} /\ Alive \in Nat \ {0}
ASSUME IdsAssumption == NoCtr \notin Ids /\ Fickle \subseteq Ids
ASSUME IntervalsAssumption == Intervals # {}

Goroutines == 1 .. Alive

\* A stored counter: of the running container; of before a restart that no call has seen;
\* of before a restart that a call has seen.
Counter == {"none", "same", "missed", "seen"}
\* An entry of containerStatsMap: from an earlier call; written by this call, reset or with
\* values; the same with a rate across a restart that a call has seen.
Entry == {"none", "old", "new", "leak"}

VARIABLES
  call,      \* the call: where it is, its cache time, validIds, the containers still to
             \* start, the ones to retry
  stats,     \* containerStatsMap
  good,      \* goodDockerVersion
  checked,   \* dockerVersionChecked
  wg, sem,   \* the wait group's counter; tokens in the semaphore
  run,       \* the goroutines
  current, previous,   \* the network DeltaTracker of each cache time
  readTime,  \* lastNetworkReadTime has an entry
  broken     \* the shared decoder's sticky error

vars == <<call, stats, good, checked, wg, sem, run, current, previous, readTime, broken>>
engine == <<good, checked>>
tracker == <<current, previous, readTime>>

CallType == [pc : {"idle", "start", "retry"}, interval : Intervals,
              validIds : SUBSET Ids, todo : SUBSET Ids, failed : SUBSET Ids]
RunType == [pc : {"off", "run", "err", "release"}, id : Ids \cup {NoCtr}]

\* The variables stay in their ranges.
TypeOK ==
  /\ call \in CallType
  /\ stats \in [Ids -> Entry]
  /\ good \in BOOLEAN /\ checked \in BOOLEAN
  /\ wg \in 0 .. Alive /\ sem \in 0 .. Sem
  /\ run \in [Goroutines -> RunType]
  /\ current \in [Intervals -> [Fickle -> Counter]] /\ previous \in [Intervals -> [Fickle -> Counter]]
  /\ readTime \in [Intervals -> SUBSET Fickle]
  /\ broken \in BOOLEAN

Off == [pc |-> "off", id |-> NoCtr]
Idle == [pc |-> "idle", interval |-> CHOOSE i \in Intervals : TRUE,
         validIds |-> {}, todo |-> {}, failed |-> {}]
Nothing == [i \in Intervals |-> [c \in Fickle |-> "none"]]

\* newDockerManager probes the version once; the probe may fail, and fail to decode.
Init ==
  /\ call = Idle
  /\ stats = [c \in Ids |-> "none"]
  /\ good \in BOOLEAN /\ checked \in BOOLEAN /\ (good => checked)
  /\ wg = 0 /\ sem = 0
  /\ run = [g \in Goroutines |-> Off]
  /\ current = Nothing /\ previous = Nothing /\ readTime = [i \in Intervals |-> {}]
  /\ broken \in BOOLEAN /\ (broken => ~checked)

----------------------------------------------------------------------------
(* The containers.                                                           *)

Stale(m, c, from, to) ==
  [i \in Intervals |-> [d \in Fickle |-> IF d = c /\ m[i][d] = from THEN to ELSE m[i][d]]]

\* Its counters start again from zero.
RestartContainer(c) ==
  /\ c \in Fickle
  /\ current' = Stale(current, c, "same", "missed")
  /\ previous' = Stale(previous, c, "same", "missed")
  /\ UNCHANGED <<call, stats, engine, wg, sem, run, readTime, broken>>

----------------------------------------------------------------------------
(* The call.                                                                 *)

setIsPodman == checked' = TRUE /\ good' = TRUE

\* The header of the list names Podman, whatever was known before; or
\* ensureDockerVersionChecked: once a probe has succeeded the answer stays.
Probe ==
  \/ setIsPodman /\ UNCHANGED broken
  \/ checked /\ UNCHANGED <<engine, broken>>
  \/ ~checked /\ broken' \in BOOLEAN /\ UNCHANGED engine
  \/ ~checked /\ checked' = TRUE /\ good' \in BOOLEAN /\ UNCHANGED broken

\* A list that does not parse ends the call, and every later one: the decoder keeps its
\* error.  A failed request ends the call with nothing changed.
ListErr ==
  /\ call.pc = "idle"
  /\ broken' = TRUE
  /\ UNCHANGED <<call, stats, engine, wg, sem, run, tracker>>

\* Bound: goroutines of earlier calls on their way out.
Stragglers == Cardinality({g \in Goroutines : run[g].pc # "off"})

\* The list, without the excluded containers, and the probe.
List(i, ids) ==
  /\ call.pc = "idle" /\ ~broken
  /\ Stragglers < Alive
  /\ call' = [pc |-> "start", interval |-> i, validIds |-> ids, todo |-> ids, failed |-> {}]
  /\ Probe
  /\ stats' = [c \in Ids |-> IF stats[c] = "none" THEN "none" ELSE "old"]
  /\ UNCHANGED <<wg, sem, run, tracker>>

\* Mutant: only the read time of this call's cache time is deleted.
deleteContainerStatsSyncOwn(c) ==
  /\ stats' = [stats EXCEPT ![c] = "none"]
  /\ readTime' = [readTime EXCEPT ![call.interval] = @ \ {c}]
  /\ current' = Stale(current, c, "missed", "seen")
  /\ previous' = Stale(previous, c, "missed", "seen")

\* The statistics and the read times go; the trackers keep their counters.
deleteContainerStatsSync(c) ==
  /\ stats' = [stats EXCEPT ![c] = "none"]
  /\ readTime' = [i \in Intervals |-> readTime[i] \ {c}]
  /\ current' = Stale(current, c, "missed", "seen")
  /\ previous' = Stale(previous, c, "missed", "seen")

\* Mutant: a token is taken without waiting for room.
QueueUnlimited(g, c) ==
  /\ run[g].pc = "off" /\ \A h \in 1 .. g - 1 : run[h].pc # "off"
  /\ wg' = wg + 1
  /\ sem' = IF good THEN sem + 1 ELSE sem
  /\ run' = [run EXCEPT ![g] = [pc |-> "run", id |-> c]]

\* queue, and the start of the goroutine, the first that is free: they differ only in name.
Queue(g, c) ==
  /\ run[g].pc = "off" /\ \A h \in 1 .. g - 1 : run[h].pc # "off"
  /\ good => sem < Sem
  /\ wg' = wg + 1
  /\ sem' = IF good THEN sem + 1 ELSE sem
  /\ run' = [run EXCEPT ![g] = [pc |-> "run", id |-> c]]

\* A container listed as up for seconds may have restarted; a minute later it is not.
Start(g, c, young) ==
  /\ call.pc = "start" /\ c \in call.todo /\ (young => c \in Fickle)
  /\ call' = [call EXCEPT !.todo = @ \ {c}]
  /\ Queue(g, c)
  /\ IF young THEN deleteContainerStatsSync(c) ELSE UNCHANGED <<stats, tracker>>
  /\ UNCHANGED <<engine, broken>>

\* wg.Wait, then the failed ones again.
Retry ==
  /\ call.pc = "start" /\ call.todo = {} /\ wg = 0 /\ call.failed # {}
  /\ call' = [call EXCEPT !.pc = "retry", !.todo = call.failed]
  /\ UNCHANGED <<stats, engine, wg, sem, run, tracker, broken>>

Restart(g, c) ==
  /\ call.pc = "retry" /\ c \in call.todo
  /\ call' = [call EXCEPT !.todo = @ \ {c}]
  /\ Queue(g, c)
  /\ UNCHANGED <<stats, engine, tracker, broken>>

\* cycleNetworkDeltasForCacheTime.
Cycle(i) ==
  /\ previous' = [previous EXCEPT ![i] = current[i]]
  /\ current' = [current EXCEPT ![i] = [c \in Fickle |-> "none"]]

\* The end: unlisted containers leave the map, the trackers of this cache time cycle.
Return ==
  /\ call.pc # "idle" /\ call.todo = {} /\ wg = 0
  /\ call.pc = "start" => call.failed = {}
  /\ stats' = [c \in Ids |-> IF c \in call.validIds THEN stats[c] ELSE "none"]
  /\ Cycle(call.interval)
  /\ call' = Idle
  /\ UNCHANGED <<engine, wg, sem, run, readTime, broken>>

----------------------------------------------------------------------------
(* A goroutine: updateContainerStats.                                        *)

\* dequeue, first half: the wait group.
Done(g) ==
  /\ wg' = wg - 1
  /\ run' = [run EXCEPT ![g].pc = "release"]

\* The request fails.
GetErr(g) ==
  /\ run[g].pc = "run"
  /\ run' = [run EXCEPT ![g].pc = "err"]
  /\ UNCHANGED <<call, stats, engine, wg, sem, tracker, broken>>

\* The entry is there, without values.
Reset(g) ==
  /\ run[g].pc = "run"
  /\ stats' = [stats EXCEPT ![run[g].id] = "new"]
  /\ run' = [run EXCEPT ![g].pc = "err"]
  /\ UNCHANGED <<call, engine, wg, sem, tracker>>

\* The answer does not arrive or parse; after one that does not parse no later one does.
BadAnswer(g) == Reset(g) /\ broken' \in {broken, TRUE}

\* The memory or the CPU value of the answer is impossible.
BadValues(g) == ~broken /\ Reset(g) /\ UNCHANGED broken

\* The counter of this call and the time of its reading.
Set(i, c, counter) ==
  /\ current' = [current EXCEPT ![i] = [d \in Fickle |-> IF d = c THEN counter ELSE @[d]]]
  /\ readTime' = [readTime EXCEPT ![i] = @ \cup ({c} \cap Fickle)]

\* The container is gone: the status code is not looked at, the error document parses, and
\* what an earlier answer left in apiStats passes for this container's; its counter is zero.
Gone(g) ==
  LET c == run[g].id
      i == call.interval
  IN
  /\ run[g].pc = "run" /\ ~broken /\ c \in Fickle
  /\ stats' = [stats EXCEPT ![c] = "new"]
  /\ Set(i, c, "missed")
  /\ Done(g)
  /\ UNCHANGED <<call, engine, sem, previous, broken>>

\* DeltaTracker.Delta, as the rate it makes: an impossible one is dropped, as a counter
\* that went back gives; one that went back and overtook the earlier one goes unnoticed.
Delta(i, c) == IF previous[i][c] = "seen" THEN {"new", "leak"} ELSE {"new"}

\* No rate without the time of an earlier reading.
calculateNetworkStats(i, c) == IF c \in readTime[i] THEN Delta(i, c) ELSE {"new"}

GoodStats(g) ==
  LET c == run[g].id
      i == call.interval
  IN
  /\ run[g].pc = "run" /\ ~broken
  /\ \E e \in calculateNetworkStats(i, c) : stats' = [stats EXCEPT ![c] = e]
  /\ Set(i, c, "same")
  /\ Done(g)
  /\ UNCHANGED <<call, engine, sem, previous, broken>>

\* Mutant: after an error the goroutine returns without dequeue.
FailedNoDone(g) ==
  /\ run[g].pc = "err"
  /\ stats' = [stats EXCEPT ![run[g].id] = "none"]
  /\ call' = [call EXCEPT !.failed = @ \cup {run[g].id}]
  /\ run' = [run EXCEPT ![g] = Off]
  /\ UNCHANGED <<engine, wg, sem, tracker, broken>>

\* The first time the entry is deleted and the container noted; the second error is logged.
Failed(g) ==
  /\ run[g].pc = "err"
  /\ IF call.pc = "start"
     THEN /\ stats' = [stats EXCEPT ![run[g].id] = "none"]
          /\ call' = [call EXCEPT !.failed = @ \cup {run[g].id}]
     ELSE UNCHANGED <<stats, call>>
  /\ Done(g)
  /\ UNCHANGED <<engine, sem, tracker, broken>>

\* dequeue, second half: the token.
Release(g) ==
  /\ run[g].pc = "release"
  /\ good => sem > 0
  /\ sem' = IF good THEN sem - 1 ELSE sem
  /\ run' = [run EXCEPT ![g] = Off]
  /\ UNCHANGED <<call, stats, engine, wg, tracker, broken>>

----------------------------------------------------------------------------
GoroutineStep(g) ==
  \/ GetErr(g) \/ BadAnswer(g) \/ BadValues(g) \/ Gone(g)
  \/ GoodStats(g) \/ Failed(g) \/ Release(g)
CallStep ==
  \/ Retry \/ Return
  \/ \E g \in Goroutines, c \in Ids : Restart(g, c) \/ \E young \in BOOLEAN : Start(g, c, young)

Next ==
  \/ \E c \in Ids : RestartContainer(c)
  \/ \E i \in Intervals, ids \in SUBSET Ids : List(i, ids)
  \/ ListErr
  \/ CallStep
  \/ \E g \in Goroutines : GoroutineStep(g)

\* Goroutines run and requests time out.
Fairness == WF_vars(CallStep) /\ \A g \in Goroutines : WF_vars(GoroutineStep(g))

Spec == Init /\ [][Next]_vars /\ Fairness

----------------------------------------------------------------------------
\* Once a call of any cache time has seen a restart, no rate is computed across it.
NoLeak == \A c \in Ids : stats[c] # "leak"

\* A call returns: it waits neither for a token nor for a goroutine that never reports.
CallReturns == call.pc # "idle" ~> call.pc = "idle"
=============================================================================

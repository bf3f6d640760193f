------------------------- MODULE DockerStats_proof -------------------------
(* For any containers, cache times, number of goroutines and of tokens.      *)
EXTENDS DockerStats, FiniteSetTheorems, TLAPS

\* Goroutines that have not left the wait group.
Working(g) == run[g].pc \in {"run", "err"}
Busy == {g \in Goroutines : Working(g)}

\* The wait group counts them, so a call that ends leaves none behind.
WaitGroup == wg = Cardinality(Busy)
QuietIdle == call.pc = "idle" => Busy = {} /\ call.todo = {}

\* A call works on a container once in each round.
OncePerRound ==
  /\ \A g, h \in Busy : run[g].id = run[h].id => g = h
  /\ \A g \in Busy : /\ run[g].id \in Ids /\ run[g].id \notin call.todo
                     /\ call.pc = "start" => run[g].id \notin call.failed
  /\ call.pc = "start" => call.failed \cap call.todo = {}

\* The counter of a reading that has a time is not one of before a restart that was seen.
CurrentFresh == \A i \in Intervals : \A c \in Fickle : c \in readTime[i] => current[i][c] # "seen"

\* The previous counter may be, until the call that has just stored the new one ends; that
\* call is done with the container.
Finished(i, c) ==
  /\ call.pc # "idle" /\ call.interval = i
  /\ c \notin call.todo /\ (call.pc = "start" => c \notin call.failed)
  /\ \A g \in Busy : run[g].id # c
PreviousFresh ==
  \A i \in Intervals : \A c \in Fickle :
    c \in readTime[i] /\ previous[i][c] = "seen" => Finished(i, c)

\* The parts about the call and its goroutines, and about the counters.
CallInv == WaitGroup /\ QuietIdle /\ OncePerRound
CounterInv == CurrentFresh /\ PreviousFresh /\ NoLeak
Inv == TypeOK /\ CallInv /\ CounterInv

Counters == [Intervals -> [Fickle -> Counter]]

----------------------------------------------------------------------------
(* Goroutines and the wait group.                                            *)

LEMMA GoroutineSets ==
  ASSUME NEW S \in SUBSET Goroutines
  PROVE  IsFiniteSet(S) /\ Cardinality(S) \in 0 .. Alive
<1>1. IsFiniteSet(Goroutines) /\ Cardinality(Goroutines) = Alive
  BY FS_Interval, BoundsAssumption DEF Goroutines
<1>2. IsFiniteSet(S) /\ Cardinality(S) <= Alive
  BY <1>1, FS_Subset
<1>3. Cardinality(S) \in Nat
  BY <1>2, FS_CardinalityType
<1>4. QED
  BY <1>2, <1>3, BoundsAssumption

\* Queue adds one to the wait group and to the goroutines at work.
LEMMA QueueBusy ==
  ASSUME Inv, NEW g \in Goroutines, NEW c \in Ids, Queue(g, c)
  PROVE  /\ run' \in [Goroutines -> RunType] /\ wg' \in 0 .. Alive /\ sem' \in 0 .. Sem
         /\ g \notin Busy /\ Busy' = Busy \cup {g}
         /\ run'[g].id = c /\ \A h \in Busy : run'[h].id = run[h].id
         /\ WaitGroup'
<1>1. TypeOK /\ WaitGroup
  BY DEF Inv, CallInv
<1>2. run' = [run EXCEPT ![g] = [pc |-> "run", id |-> c]] /\ run[g].pc = "off" /\ wg' = wg + 1
  BY DEF Queue
<1>3. run' \in [Goroutines -> RunType]
  BY <1>1, <1>2 DEF TypeOK, RunType
<1>4. g \notin Busy /\ Busy' = Busy \cup {g}
  BY <1>1, <1>2 DEF TypeOK, Busy, Working
<1>5. run'[g].id = c /\ \A h \in Busy : run'[h].id = run[h].id
  BY <1>1, <1>2, <1>4 DEF TypeOK, Busy
<1>6. Busy \in SUBSET Goroutines /\ Busy' \in SUBSET Goroutines
  BY DEF Busy
<1>7. WaitGroup'
  BY <1>1, <1>2, <1>4, <1>6, GoroutineSets, FS_AddElement DEF WaitGroup
<1>8. wg' \in 0 .. Alive
  BY <1>6, <1>7, GoroutineSets DEF WaitGroup
<1>9. sem' \in 0 .. Sem
  BY <1>1, BoundsAssumption DEF Queue, TypeOK
<1>10. QED
  BY <1>3, <1>4, <1>5, <1>7, <1>8, <1>9

\* Done takes one away.
LEMMA DoneBusy ==
  ASSUME Inv, NEW g \in Busy, Done(g)
  PROVE  /\ run' \in [Goroutines -> RunType] /\ wg' \in 0 .. Alive
         /\ Busy' = Busy \ {g} /\ \A h \in Busy : run'[h].id = run[h].id
         /\ WaitGroup'
<1>1. TypeOK /\ WaitGroup /\ g \in Goroutines
  BY DEF Inv, CallInv, Busy
<1>2. run' = [run EXCEPT ![g].pc = "release"] /\ wg' = wg - 1
  BY DEF Done
<1>3. run' \in [Goroutines -> RunType]
  BY <1>1, <1>2 DEF TypeOK, RunType
<1>4. Busy' = Busy \ {g}
  BY <1>1, <1>2 DEF TypeOK, Busy, Working
<1>5. \A h \in Busy : run'[h].id = run[h].id
  BY <1>1, <1>2 DEF TypeOK, RunType, Busy
<1>6. Busy \in SUBSET Goroutines /\ Busy' \in SUBSET Goroutines
  BY DEF Busy
<1>7. WaitGroup'
  BY <1>1, <1>2, <1>4, <1>6, GoroutineSets, FS_RemoveElement DEF WaitGroup
<1>8. wg' \in 0 .. Alive
  BY <1>6, <1>7, GoroutineSets DEF WaitGroup
<1>9. QED
  BY <1>3, <1>4, <1>5, <1>7, <1>8

\* Only a call starts goroutines, and it waits for them.
LEMMA BusyInCall ==
  ASSUME Inv, NEW g \in Goroutines, run[g].pc \in {"run", "err"}
  PROVE  /\ g \in Busy /\ call.pc # "idle"
         /\ run[g].id \in Ids /\ call.interval \in Intervals
         /\ run[g].id \notin call.todo /\ (call.pc = "start" => run[g].id \notin call.failed)
  BY DEF Inv, CallInv, QuietIdle, OncePerRound, Busy, Working, TypeOK, CallType

----------------------------------------------------------------------------
(* Counters.                                                                 *)

\* An interval has nothing to leak: its readings without a time do not count.
LEMMA StaleTypes ==
  ASSUME NEW m \in Counters, NEW c, NEW from, NEW to \in Counter
  PROVE  /\ Stale(m, c, from, to) \in Counters
         /\ \A i \in Intervals : \A d \in Fickle :
              Stale(m, c, from, to)[i][d] = IF d = c /\ m[i][d] = from THEN to ELSE m[i][d]
  BY DEF Counters, Stale

\* Where neither the counters nor the times change, the invariant of the counters depends
\* on the call only.
LEMMA CounterFrame ==
  ASSUME Inv, UNCHANGED tracker, NoLeak',
         \A i \in Intervals : \A c \in Fickle : Finished(i, c) => Finished(i, c)'
  PROVE  CounterInv'
  BY DEF Inv, CounterInv, CurrentFresh, PreviousFresh, tracker

----------------------------------------------------------------------------
(* The steps.                                                                *)

LEMMA InitInv == Init => Inv
<1> SUFFICES ASSUME Init PROVE Inv
  OBVIOUS
<1>1. call \in CallType
  BY IntervalsAssumption DEF Init, Idle, CallType
<1>2. run \in [Goroutines -> RunType] /\ Busy = {}
  BY DEF Init, RunType, Off, Busy, Working
<1>3. Nothing \in Counters /\ \A i \in Intervals : \A c \in Fickle : Nothing[i][c] = "none"
  BY DEF Nothing, Counters, Counter
<1>4. TypeOK
  BY <1>1, <1>2, <1>3, BoundsAssumption DEF Init, TypeOK, Counters, Entry
<1>5. CallInv
  BY <1>2, FS_EmptySet DEF Init, Idle, CallInv, WaitGroup, QuietIdle, OncePerRound
<1>6. CounterInv
  BY <1>3 DEF Init, CounterInv, CurrentFresh, PreviousFresh, NoLeak
<1>7. QED
  BY <1>4, <1>5, <1>6 DEF Inv

LEMMA RestartContainerInv ==
  ASSUME Inv, NEW c \in Ids, RestartContainer(c)
  PROVE  Inv'
<1>1. TypeOK /\ current \in Counters /\ previous \in Counters
  BY DEF Inv, TypeOK, Counters
<1>2. /\ current' \in Counters /\ previous' \in Counters
      /\ \A i \in Intervals : \A d \in Fickle :
           /\ current'[i][d] = "seen" => current[i][d] = "seen"
           /\ previous'[i][d] = "seen" => previous[i][d] = "seen"
  <2>1. "missed" \in Counter
    BY DEF Counter
  <2>2. QED
    BY <1>1, <2>1, StaleTypes DEF RestartContainer
<1>3. UNCHANGED <<call, stats, good, checked, wg, sem, run, readTime, broken>>
  BY DEF RestartContainer, engine
<1>4. TypeOK'
  BY <1>1, <1>2, <1>3 DEF TypeOK, Counters
<1>5. Busy' = Busy
  BY <1>3 DEF Busy, Working
<1>6. CallInv'
  BY <1>3, <1>5 DEF Inv, CallInv, WaitGroup, QuietIdle, OncePerRound
<1>7. CounterInv'
  BY <1>2, <1>3, <1>5 DEF Inv, CounterInv, CurrentFresh, PreviousFresh, Finished, NoLeak
<1>8. QED
  BY <1>4, <1>6, <1>7 DEF Inv

LEMMA ListErrInv == Inv /\ ListErr => Inv'
<1> SUFFICES ASSUME Inv, ListErr PROVE Inv'
  OBVIOUS
<1>1. UNCHANGED <<call, stats, good, checked, wg, sem, run, current, previous, readTime>>
      /\ broken' \in BOOLEAN
  BY DEF ListErr, engine, tracker
<1>2. Busy' = Busy
  BY <1>1 DEF Busy, Working
<1>3. TypeOK'
  BY <1>1 DEF Inv, TypeOK
<1>4. CallInv'
  BY <1>1, <1>2 DEF Inv, CallInv, WaitGroup, QuietIdle, OncePerRound
<1>5. CounterInv'
  BY <1>1, <1>2 DEF Inv, CounterInv, CurrentFresh, PreviousFresh, Finished, NoLeak
<1>6. QED
  BY <1>3, <1>4, <1>5 DEF Inv

LEMMA ProbeTypes == TypeOK /\ Probe => good' \in BOOLEAN /\ checked' \in BOOLEAN /\ broken' \in BOOLEAN
  BY DEF TypeOK, Probe, setIsPodman, engine

\* No goroutine of the call before is at work.
LEMMA ListInv ==
  ASSUME Inv, NEW i \in Intervals, NEW ids \in SUBSET Ids, List(i, ids)
  PROVE  Inv'
<1>0. TypeOK /\ CallInv /\ CounterInv
  BY DEF Inv
<1>1. Busy' = Busy /\ Busy = {}
  BY <1>0 DEF CallInv, QuietIdle, List, Busy, Working
<1>2. call' = [pc |-> "start", interval |-> i, validIds |-> ids, todo |-> ids, failed |-> {}]
  BY DEF List
<1>3. stats' \in [Ids -> Entry]
  BY <1>0 DEF TypeOK, List, Entry
<1>4. good' \in BOOLEAN /\ checked' \in BOOLEAN /\ broken' \in BOOLEAN
  BY <1>0, ProbeTypes DEF List
<1>5. TypeOK'
  <2>1. call' \in CallType
    BY <1>2 DEF CallType
  <2>2. QED
    BY <1>0, <1>3, <1>4, <2>1 DEF TypeOK, List, tracker
<1>6. CallInv'
  BY <1>0, <1>1, <1>2 DEF CallInv, WaitGroup, QuietIdle, OncePerRound, List
<1>7. NoLeak'
  BY <1>0 DEF NoLeak, List
<1>8. CounterInv'
  <2>1. \A j \in Intervals : \A c \in Fickle : ~Finished(j, c)
    BY DEF List, Finished
  <2>2. QED
    BY <1>7, <2>1, CounterFrame DEF List
<1>9. QED
  BY <1>5, <1>6, <1>8 DEF Inv

\* What is common to starting the goroutine for a container in either round.
LEMMA StartedInv ==
  ASSUME Inv, NEW g \in Goroutines, NEW c \in Ids, c \in call.todo, call.pc \in {"start", "retry"},
         call' = [call EXCEPT !.todo = @ \ {c}], Queue(g, c), UNCHANGED <<engine, broken>>,
         stats' \in [Ids -> Entry], current' \in Counters, previous' \in Counters,
         readTime' \in [Intervals -> SUBSET Fickle]
  PROVE  /\ TypeOK' /\ CallInv'
         /\ \A i \in Intervals : \A d \in Fickle : Finished(i, d) => Finished(i, d)'
<1>0. TypeOK /\ CallInv
  BY DEF Inv
<1>1. /\ run' \in [Goroutines -> RunType] /\ wg' \in 0 .. Alive /\ sem' \in 0 .. Sem
      /\ g \notin Busy /\ Busy' = Busy \cup {g}
      /\ run'[g].id = c /\ \A h \in Busy : run'[h].id = run[h].id
      /\ WaitGroup'
  BY QueueBusy
<1>2. /\ call' \in CallType /\ call'.pc = call.pc /\ call'.interval = call.interval
      /\ call'.failed = call.failed /\ call'.todo = call.todo \ {c}
  BY <1>0 DEF TypeOK, CallType
<1>3. TypeOK'
  BY <1>0, <1>1, <1>2 DEF TypeOK, engine, Counters
<1>4. \A h \in Busy : run[h].id # c
  BY <1>0 DEF CallInv, OncePerRound
<1>5. CallInv'
  <2>1. QuietIdle'
    BY <1>2 DEF QuietIdle
  <2>2. \A h, k \in Busy' : run'[h].id = run'[k].id => h = k
    BY <1>0, <1>1, <1>4 DEF CallInv, OncePerRound
  <2>3. \A h \in Busy' : /\ run'[h].id \in Ids /\ run'[h].id \notin call'.todo
                         /\ call'.pc = "start" => run'[h].id \notin call'.failed
    BY <1>0, <1>1, <1>2 DEF CallInv, OncePerRound
  <2>4. call'.pc = "start" => call'.failed \cap call'.todo = {}
    BY <1>0, <1>2 DEF CallInv, OncePerRound
  <2>5. QED
    BY <1>1, <2>1, <2>2, <2>3, <2>4 DEF CallInv, OncePerRound
<1>6. ASSUME NEW i \in Intervals, NEW d \in Fickle, Finished(i, d) PROVE Finished(i, d)'
  BY <1>1, <1>2, <1>6 DEF Finished
<1>7. QED
  BY <1>3, <1>5, <1>6

\* The times of the readings go with the entry: what is stale from now on has none.
LEMMA DeletedCounters ==
  ASSUME Inv, NEW c \in Ids, deleteContainerStatsSync(c)
  PROVE  /\ stats' \in [Ids -> Entry] /\ current' \in Counters /\ previous' \in Counters
         /\ readTime' \in [Intervals -> SUBSET Fickle]
         /\ \A i \in Intervals : \A d \in Fickle :
              d \in readTime'[i] => /\ d \in readTime[i]
                                    /\ current'[i][d] = current[i][d]
                                    /\ previous'[i][d] = previous[i][d]
         /\ NoLeak'
<1>1. TypeOK /\ current \in Counters /\ previous \in Counters /\ NoLeak
  BY DEF Inv, TypeOK, Counters, CounterInv
<1>2. "seen" \in Counter /\ "none" \in Entry
  BY DEF Counter, Entry
<1>3. /\ current' \in Counters /\ previous' \in Counters
      /\ \A i \in Intervals : \A d \in Fickle :
           d # c => current'[i][d] = current[i][d] /\ previous'[i][d] = previous[i][d]
  BY <1>1, <1>2, StaleTypes DEF deleteContainerStatsSync
<1>4. /\ readTime' \in [Intervals -> SUBSET Fickle]
      /\ \A i \in Intervals : readTime'[i] = readTime[i] \ {c}
  BY <1>1 DEF TypeOK, deleteContainerStatsSync
<1>5. stats' \in [Ids -> Entry] /\ NoLeak'
  BY <1>1, <1>2 DEF TypeOK, NoLeak, deleteContainerStatsSync
<1>6. QED
  BY <1>3, <1>4, <1>5

LEMMA StartInv ==
  ASSUME Inv, NEW g \in Goroutines, NEW c \in Ids, NEW young \in BOOLEAN, Start(g, c, young)
  PROVE  Inv'
<1>0. TypeOK /\ CounterInv
  BY DEF Inv
<1>1. CASE young
  <2>1. /\ stats' \in [Ids -> Entry] /\ current' \in Counters /\ previous' \in Counters
        /\ readTime' \in [Intervals -> SUBSET Fickle]
        /\ \A i \in Intervals : \A d \in Fickle :
             d \in readTime'[i] => /\ d \in readTime[i]
                                   /\ current'[i][d] = current[i][d]
                                   /\ previous'[i][d] = previous[i][d]
        /\ NoLeak'
    BY <1>1, DeletedCounters DEF Start
  <2>2. /\ TypeOK' /\ CallInv'
        /\ \A i \in Intervals : \A d \in Fickle : Finished(i, d) => Finished(i, d)'
    BY <2>1, StartedInv DEF Start
  <2>3. CurrentFresh' /\ PreviousFresh'
    BY <1>0, <2>1, <2>2 DEF CounterInv, CurrentFresh, PreviousFresh
  <2>4. QED
    BY <2>1, <2>2, <2>3 DEF Inv, CounterInv
<1>2. CASE ~young
  <2>1. /\ stats' \in [Ids -> Entry] /\ current' \in Counters /\ previous' \in Counters
        /\ readTime' \in [Intervals -> SUBSET Fickle] /\ UNCHANGED tracker /\ NoLeak'
    BY <1>0, <1>2 DEF TypeOK, Counters, Start, tracker, CounterInv, NoLeak
  <2>2. /\ TypeOK' /\ CallInv'
        /\ \A i \in Intervals : \A d \in Fickle : Finished(i, d) => Finished(i, d)'
    BY <2>1, StartedInv DEF Start
  <2>3. QED
    BY <2>1, <2>2, CounterFrame DEF Inv
<1>3. QED
  BY <1>1, <1>2

LEMMA RestartInv ==
  ASSUME Inv, NEW g \in Goroutines, NEW c \in Ids, Restart(g, c)
  PROVE  Inv'
<1>1. /\ stats' \in [Ids -> Entry] /\ current' \in Counters /\ previous' \in Counters
      /\ readTime' \in [Intervals -> SUBSET Fickle] /\ UNCHANGED tracker /\ NoLeak'
  BY DEF Inv, TypeOK, Counters, Restart, tracker, CounterInv, NoLeak
<1>2. /\ TypeOK' /\ CallInv'
      /\ \A i \in Intervals : \A d \in Fickle : Finished(i, d) => Finished(i, d)'
  BY <1>1, StartedInv DEF Restart
<1>3. QED
  BY <1>1, <1>2, CounterFrame DEF Inv

\* The second round takes what failed, and nobody is at work on that any more.
LEMMA RetryInv == Inv /\ Retry => Inv'
<1> SUFFICES ASSUME Inv, Retry PROVE Inv'
  OBVIOUS
<1>0. TypeOK /\ CallInv
  BY DEF Inv
<1>1. /\ call' \in CallType /\ call'.pc = "retry" /\ call'.interval = call.interval
      /\ call'.todo = call.failed /\ call.pc = "start"
  BY <1>0 DEF TypeOK, CallType, Retry
<1>2. UNCHANGED <<stats, good, checked, wg, sem, run, current, previous, readTime, broken>>
  BY DEF Retry, engine, tracker
<1>3. Busy' = Busy
  BY <1>2 DEF Busy, Working
<1>4. TypeOK'
  BY <1>0, <1>1, <1>2 DEF TypeOK
<1>5. CallInv'
  BY <1>0, <1>1, <1>2, <1>3 DEF CallInv, WaitGroup, QuietIdle, OncePerRound
<1>6. CounterInv'
  <2>1. \A i \in Intervals : \A c \in Fickle : Finished(i, c) => Finished(i, c)'
    BY <1>1, <1>2, <1>3 DEF Finished
  <2>2. NoLeak'
    BY <1>2 DEF Inv, CounterInv, NoLeak
  <2>3. QED
    BY <1>2, <2>1, <2>2, CounterFrame DEF tracker
<1>7. QED
  BY <1>4, <1>5, <1>6 DEF Inv

\* Cycle makes the counters of this call the previous ones, which are fresh.
LEMMA ReturnInv == Inv /\ Return => Inv'
<1> SUFFICES ASSUME Inv, Return PROVE Inv'
  OBVIOUS
<1>0. TypeOK /\ CallInv /\ CounterInv /\ call.interval \in Intervals
      /\ current \in Counters /\ previous \in Counters
  BY DEF Inv, TypeOK, CallType, Counters
<1>1. Busy = {}
  <2>1. Busy \in SUBSET Goroutines
    BY DEF Busy
  <2>2. IsFiniteSet(Busy) /\ Cardinality(Busy) = 0
    BY <1>0, <2>1, GoroutineSets DEF Return, CallInv, WaitGroup
  <2>3. QED
    BY <2>2, FS_EmptySet
<1>2. call' = Idle /\ Busy' = {} /\ UNCHANGED <<good, checked, wg, sem, run, readTime, broken>>
  BY <1>1 DEF Return, engine, Busy, Working
<1>3. /\ current' \in Counters /\ previous' \in Counters
      /\ \A i \in Intervals : \A c \in Fickle :
           /\ current'[i][c] \in {current[i][c], "none"}
           /\ previous'[i][c] = IF i = call.interval THEN current[i][c] ELSE previous[i][c]
  BY <1>0 DEF Return, Cycle, Counters, Counter
<1>4. stats' \in [Ids -> Entry] /\ NoLeak'
  BY <1>0 DEF TypeOK, CounterInv, NoLeak, Return, Entry
<1>5. TypeOK'
  <2>1. call' \in CallType
    BY <1>2, IntervalsAssumption DEF Idle, CallType
  <2>2. QED
    BY <1>0, <1>2, <1>3, <1>4, <2>1 DEF TypeOK, Counters
<1>6. CallInv'
  BY <1>0, <1>1, <1>2 DEF CallInv, WaitGroup, QuietIdle, OncePerRound, Idle
<1>7. CurrentFresh'
  BY <1>0, <1>2, <1>3 DEF CounterInv, CurrentFresh
<1>8. \A i \in Intervals : \A c \in Fickle : ~(c \in readTime'[i] /\ previous'[i][c] = "seen")
  BY <1>0, <1>2, <1>3 DEF CounterInv, CurrentFresh, PreviousFresh, Finished
<1>9. QED
  BY <1>4, <1>5, <1>6, <1>7, <1>8 DEF Inv, CounterInv, PreviousFresh

----------------------------------------------------------------------------
(* The goroutines.                                                           *)

\* GetErr, BadAnswer and BadValues: the goroutine goes on with an error.
LEMMA ErrInv ==
  ASSUME Inv, NEW g \in Goroutines, GetErr(g) \/ BadAnswer(g) \/ BadValues(g)
  PROVE  Inv'
<1>0. TypeOK /\ CallInv
  BY DEF Inv
<1>1. /\ run[g].pc = "run" /\ run' = [run EXCEPT ![g].pc = "err"]
      /\ UNCHANGED <<call, good, checked, wg, sem, current, previous, readTime>>
      /\ stats' = stats \/ stats' = [stats EXCEPT ![run[g].id] = "new"]
      /\ broken' \in BOOLEAN
  BY <1>0 DEF GetErr, BadAnswer, BadValues, Reset, engine, tracker, TypeOK
<1>2. stats' \in [Ids -> Entry] /\ NoLeak'
  BY <1>0, <1>1 DEF TypeOK, Entry, Inv, CounterInv, NoLeak
<1>3. /\ run' \in [Goroutines -> RunType] /\ Busy' = Busy
      /\ \A h \in Busy : run'[h].id = run[h].id
  BY <1>0, <1>1 DEF TypeOK, RunType, Busy, Working
<1>4. TypeOK'
  BY <1>0, <1>1, <1>2, <1>3 DEF TypeOK
<1>5. CallInv'
  BY <1>0, <1>1, <1>3 DEF CallInv, WaitGroup, QuietIdle, OncePerRound
<1>6. CounterInv'
  <2>1. \A i \in Intervals : \A c \in Fickle : Finished(i, c) => Finished(i, c)'
    BY <1>1, <1>3 DEF Finished
  <2>2. QED
    BY <1>1, <1>2, <2>1, CounterFrame DEF tracker
<1>7. QED
  BY <1>4, <1>5, <1>6 DEF Inv

\* What is common to the ends of a goroutine's work.
LEMMA EndedInv ==
  ASSUME Inv, NEW g \in Busy, Done(g), UNCHANGED <<engine, sem>>, broken' \in BOOLEAN,
         call' \in CallType, call'.pc = call.pc, call'.interval = call.interval, call'.todo = call.todo,
         call'.failed \subseteq call.failed \cup {run[g].id},
         stats' \in [Ids -> Entry], current' \in Counters, previous' \in Counters,
         readTime' \in [Intervals -> SUBSET Fickle]
  PROVE  /\ TypeOK' /\ CallInv'
         /\ \A i \in Intervals : \A c \in Fickle : Finished(i, c) => Finished(i, c)'
<1>0. TypeOK /\ CallInv
  BY DEF Inv
<1>1. /\ run' \in [Goroutines -> RunType] /\ wg' \in 0 .. Alive
      /\ Busy' = Busy \ {g} /\ \A h \in Busy : run'[h].id = run[h].id
      /\ WaitGroup'
  BY DoneBusy
<1>2. TypeOK'
  BY <1>0, <1>1 DEF TypeOK, engine, Counters
<1>3. CallInv'
  <2>1. QuietIdle'
    BY <1>0, <1>1 DEF CallInv, QuietIdle
  <2>2. \A h, k \in Busy' : run'[h].id = run'[k].id => h = k
    BY <1>0, <1>1 DEF CallInv, OncePerRound
  <2>3. \A h \in Busy' : /\ run'[h].id \in Ids /\ run'[h].id \notin call'.todo
                         /\ call'.pc = "start" => run'[h].id \notin call'.failed
    BY <1>0, <1>1 DEF CallInv, OncePerRound
  <2>4. call'.pc = "start" => call'.failed \cap call'.todo = {}
    BY <1>0 DEF CallInv, OncePerRound
  <2>5. QED
    BY <1>1, <2>1, <2>2, <2>3, <2>4 DEF CallInv, OncePerRound
<1>4. ASSUME NEW i \in Intervals, NEW c \in Fickle, Finished(i, c) PROVE Finished(i, c)'
  BY <1>1, <1>4 DEF Finished
<1>5. QED
  BY <1>2, <1>3, <1>4

LEMMA FailedInv ==
  ASSUME Inv, NEW g \in Goroutines, Failed(g)
  PROVE  Inv'
<1>0. TypeOK /\ g \in Busy /\ run[g].id \in Ids
  BY BusyInCall DEF Inv, Failed
<1>1. UNCHANGED <<engine, sem>> /\ UNCHANGED <<current, previous, readTime, broken>> /\ Done(g)
  BY DEF Failed, tracker
<1>2. /\ call' \in CallType /\ call'.pc = call.pc /\ call'.interval = call.interval
      /\ call'.todo = call.todo /\ call'.failed \subseteq call.failed \cup {run[g].id}
  BY <1>0 DEF TypeOK, CallType, Failed
<1>3. stats' \in [Ids -> Entry] /\ NoLeak'
  BY <1>0 DEF TypeOK, Entry, Inv, CounterInv, NoLeak, Failed
<1>4. /\ TypeOK' /\ CallInv'
      /\ \A i \in Intervals : \A c \in Fickle : Finished(i, c) => Finished(i, c)'
  BY <1>0, <1>1, <1>2, <1>3, EndedInv DEF TypeOK, Counters
<1>5. CounterInv'
  BY <1>1, <1>3, <1>4, CounterFrame DEF tracker
<1>6. QED
  BY <1>4, <1>5 DEF Inv

\* A reading gets its time: this call is done with the container, whose current counter is
\* of after every restart that was seen.
LEMMA SetInv ==
  ASSUME Inv, NEW g \in Goroutines, run[g].pc = "run", NEW counter \in Counter, counter # "seen",
         Set(call.interval, run[g].id, counter), Done(g),
         UNCHANGED <<call, engine, sem, previous, broken>>,
         stats' \in [Ids -> Entry], NoLeak'
  PROVE  Inv'
<1> DEFINE c == run[g].id
           i == call.interval
<1>0. TypeOK /\ CallInv /\ CounterInv
  BY DEF Inv
<1>1. /\ g \in Busy /\ call.pc # "idle" /\ c \in Ids /\ i \in Intervals
      /\ c \notin call.todo /\ (call.pc = "start" => c \notin call.failed)
  BY BusyInCall
<1>2. /\ current' \in Counters
      /\ \A j \in Intervals : \A d \in Fickle :
           current'[j][d] = IF j = i /\ d = c THEN counter ELSE current[j][d]
  BY <1>0, <1>1 DEF TypeOK, Counters, Set
<1>3. /\ readTime' \in [Intervals -> SUBSET Fickle]
      /\ \A j \in Intervals : \A d \in Fickle :
           d \in readTime'[j] => d \in readTime[j] \/ (j = i /\ d = c)
  BY <1>0, <1>1 DEF TypeOK, Set
<1>4. /\ call' \in CallType /\ previous' \in Counters /\ broken' \in BOOLEAN
  BY <1>0 DEF TypeOK, Counters
<1>5. /\ TypeOK' /\ CallInv'
      /\ \A j \in Intervals : \A d \in Fickle : Finished(j, d) => Finished(j, d)'
  BY <1>1, <1>2, <1>3, <1>4, EndedInv
<1>6. CurrentFresh'
  BY <1>0, <1>2, <1>3 DEF CounterInv, CurrentFresh
<1>7. ASSUME NEW j \in Intervals, NEW d \in Fickle, j = i, d = c PROVE Finished(j, d)'
  <2>1. Busy' = Busy \ {g} /\ \A h \in Busy : run'[h].id = run[h].id
    BY <1>1, DoneBusy
  <2>2. \A h \in Busy' : run'[h].id # d
    BY <1>0, <1>1, <1>7, <2>1 DEF CallInv, OncePerRound
  <2>3. QED
    BY <1>1, <1>7, <2>2 DEF Finished
<1>8. PreviousFresh'
  <2>1. ASSUME NEW j \in Intervals, NEW d \in Fickle, d \in readTime'[j], previous'[j][d] = "seen"
        PROVE  Finished(j, d)'
    BY <1>0, <1>3, <1>5, <1>7, <2>1 DEF CounterInv, PreviousFresh
  <2>2. QED
    BY <2>1 DEF PreviousFresh
<1>9. QED
  BY <1>5, <1>6, <1>8 DEF Inv, CounterInv

LEMMA GoneInv ==
  ASSUME Inv, NEW g \in Goroutines, Gone(g)
  PROVE  Inv'
<1>1. stats' \in [Ids -> Entry] /\ NoLeak'
  BY DEF Inv, TypeOK, Entry, CounterInv, NoLeak, Gone
<1>2. "missed" \in Counter
  BY DEF Counter
<1>3. QED
  BY <1>1, <1>2, SetInv DEF Gone

\* A container with a time of a reading, and not yet done in this call, has no stale counter.
LEMMA GoodStatsInv ==
  ASSUME Inv, NEW g \in Goroutines, GoodStats(g)
  PROVE  Inv'
<1> DEFINE c == run[g].id
           i == call.interval
<1>1. TypeOK /\ CounterInv /\ run[g].pc = "run" /\ g \in Busy /\ c \in Ids /\ i \in Intervals
  BY BusyInCall DEF Inv, GoodStats
<1>2. calculateNetworkStats(i, c) = {"new"}
  <2>1. ~Finished(i, c)
    BY <1>1 DEF Finished
  <2>2. c \in readTime[i] => c \in Fickle
    BY <1>1 DEF TypeOK
  <2>3. c \in readTime[i] => previous[i][c] # "seen"
    BY <1>1, <2>1, <2>2 DEF CounterInv, PreviousFresh
  <2>4. QED
    BY <2>3 DEF calculateNetworkStats, Delta
<1>3. stats' = [stats EXCEPT ![c] = "new"]
  BY <1>2 DEF GoodStats
<1>4. stats' \in [Ids -> Entry] /\ NoLeak'
  BY <1>1, <1>3 DEF TypeOK, Entry, CounterInv, NoLeak
<1>5. "same" \in Counter
  BY DEF Counter
<1>6. QED
  BY <1>1, <1>4, <1>5, SetInv DEF GoodStats

LEMMA ReleaseInv ==
  ASSUME Inv, NEW g \in Goroutines, Release(g)
  PROVE  Inv'
<1>0. TypeOK /\ CallInv
  BY DEF Inv
<1>1. /\ run[g].pc = "release" /\ run' = [run EXCEPT ![g] = Off]
      /\ UNCHANGED <<call, stats, good, checked, wg, current, previous, readTime, broken>>
  BY DEF Release, engine, tracker
<1>2. /\ run' \in [Goroutines -> RunType] /\ Busy' = Busy
      /\ \A h \in Busy : run'[h].id = run[h].id
  BY <1>0, <1>1 DEF TypeOK, RunType, Off, Busy, Working
<1>3. sem' \in 0 .. Sem
  BY <1>0, BoundsAssumption DEF TypeOK, Release
<1>4. TypeOK'
  BY <1>0, <1>1, <1>2, <1>3 DEF TypeOK
<1>5. CallInv'
  BY <1>0, <1>1, <1>2 DEF CallInv, WaitGroup, QuietIdle, OncePerRound
<1>6. CounterInv'
  <2>1. \A i \in Intervals : \A c \in Fickle : Finished(i, c) => Finished(i, c)'
    BY <1>1, <1>2 DEF Finished
  <2>2. NoLeak'
    BY <1>1 DEF Inv, CounterInv, NoLeak
  <2>3. QED
    BY <1>1, <2>1, <2>2, CounterFrame DEF tracker
<1>7. QED
  BY <1>4, <1>5, <1>6 DEF Inv

----------------------------------------------------------------------------
LEMMA NextInv == Inv /\ [Next]_vars => Inv'
<1> SUFFICES ASSUME Inv, [Next]_vars PROVE Inv'
  OBVIOUS
<1>1. CASE \E c \in Ids : RestartContainer(c)
  BY <1>1, RestartContainerInv
<1>2. CASE \E i \in Intervals, ids \in SUBSET Ids : List(i, ids)
  BY <1>2, ListInv
<1>3. CASE ListErr
  BY <1>3, ListErrInv
<1>4. CASE CallStep
  BY <1>4, RetryInv, ReturnInv, RestartInv, StartInv DEF CallStep
<1>5. CASE \E g \in Goroutines : GoroutineStep(g)
  BY <1>5, ErrInv, GoneInv, GoodStatsInv, FailedInv, ReleaseInv DEF GoroutineStep
<1>6. CASE UNCHANGED vars
  <2>1. Busy' = Busy
    BY <1>6 DEF vars, Busy, Working
  <2>2. QED
    BY <1>6, <2>1 DEF vars, Inv, TypeOK, CallInv, WaitGroup, QuietIdle, OncePerRound,
                      CounterInv, CurrentFresh, PreviousFresh, Finished, NoLeak
<1>7. QED
  BY <1>1, <1>2, <1>3, <1>4, <1>5, <1>6 DEF Next

\* The variables of dockerManager stay in their ranges; in particular the wait group and
\* the semaphore never go below zero or above their limits.
THEOREM TypeCorrect == Spec => []TypeOK
<1>1. Inv => TypeOK
  BY DEF Inv
<1>2. QED
  BY <1>1, InitInv, NextInv, PTL DEF Spec

\* After a call has seen a restart of a container, no call of any cache time computes a
\* rate across it: deleteContainerStatsSync drops the read times of all of them.
THEOREM NoRateAcrossRestart == Spec => []NoLeak
<1>1. Inv => NoLeak
  BY DEF Inv, CounterInv
<1>2. QED
  BY <1>1, InitInv, NextInv, PTL DEF Spec
=============================================================================

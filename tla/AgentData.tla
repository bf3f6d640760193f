----------------------------- MODULE AgentData -----------------------------
(* gatherStats: the agent's answer to a data request.  Requests come at two  *)
(* rates, the updater's (the default cache time) and the realtime worker's,  *)
(* each with its own cached answer, network baselines and disk snapshot; the *)
(* filesystem's totals are shared.  Static details travel with some of the   *)
(* default answers.  One reader goroutine handles the requests one at a      *)
(* time, so a request is one step; answers can be lost.  "moved" is what     *)
(* really went over the interface and the disk, the measure of what the      *)
(* answers say.                                                              *)
EXTENDS Naturals

CONSTANTS
  Intervals, Default,   \* cache times
  Half,                 \* half a cache time, in ticks
  MaxMoved              \* bound: traffic

ASSUME IntervalsAssumption ==
  /\ Default \in Intervals
  /\ Half \in [Intervals -> Nat \ {0}]
  /\ MaxMoved \in Nat \ {0}

Bytes == 0 .. MaxMoved
\* A counter's value and what had moved when it was read.  loose: the reading is weeks old,
\* or a failed usage call has zeroed it.
Reading == [bytes : Bytes, moved : Bytes, loose : BOOLEAN]
None == [bytes |-> MaxMoved + 1, moved |-> 0, loose |-> FALSE]

VARIABLES
  moved,        \* total traffic
  nic, disk,    \* the kernel's counters: smaller once they were reset
  age,          \* of the cached answers, up to Half
  netInterfaces,  \* the interface is followed
  netIoStats,   \* baselines of the totals
  trackers,     \* baselines of the interface
  fs,           \* fsStats: the totals' reading, whether time has passed since, and the
                \* rate that was computed last, at whichever cache time
  diskPrev,     \* snapshots
  podman, detailsDirty,        \* the details and the mark that they changed
  detailsFetched, held, told   \* the hub: some details were saved; what sys.data has of
                               \* them; the change was saved

vars == <<moved, nic, disk, age, netInterfaces, netIoStats, trackers, fs, diskPrev,
          podman, detailsDirty, detailsFetched, held, told>>
world == <<moved, nic, disk>>
net == <<netInterfaces, netIoStats, trackers>>
hub == <<detailsFetched, held, told>>
details == <<podman, detailsDirty, hub>>

\* A rate: what an answer says of it, and what really moved; loose as its baseline.  Wrapped
\* is a uint64 difference that wrapped: more than can have moved.
Wrapped == MaxMoved + 1

Rate == [says : Bytes \cup {Wrapped}, real : Bytes, loose : BOOLEAN]
Zero == [says |-> 0, real |-> 0, loose |-> FALSE]

\* The variables stay in their ranges.
TypeOK ==
  /\ moved \in Bytes /\ nic \in 0 .. moved /\ disk \in 0 .. moved
  /\ age \in [Intervals -> Nat] /\ \A i \in Intervals : age[i] <= Half[i]
  /\ netInterfaces \in BOOLEAN
  /\ netIoStats \in [Intervals -> Reading \cup {None}] /\ trackers \in [Intervals -> Reading \cup {None}]
  /\ fs \in [bytes : Bytes, moved : Bytes, loose : BOOLEAN, passed : BOOLEAN, rate : Rate]
  /\ diskPrev \in [Intervals -> Reading \cup {None}]
  /\ podman \in BOOLEAN /\ detailsDirty \in BOOLEAN /\ detailsFetched \in BOOLEAN /\ told \in BOOLEAN
  /\ held \in {"nothing", "details", "change"}

NoBaselines == [i \in Intervals |-> None]

\* NewAgent, initializeDiskIoStats.
Init ==
  /\ moved \in {0, 1} /\ nic = moved /\ disk = moved
  /\ age = Half
  /\ netInterfaces = (nic > 0) /\ netIoStats = NoBaselines /\ trackers = NoBaselines
  /\ fs = [bytes |-> disk, moved |-> moved, loose |-> FALSE, passed |-> FALSE, rate |-> Zero]
  /\ diskPrev = NoBaselines
  /\ podman = FALSE /\ detailsDirty = FALSE
  /\ detailsFetched = FALSE /\ held = "nothing" /\ told = FALSE

----------------------------------------------------------------------------
(* Around the agent.                                                         *)

Traffic ==
  /\ moved < MaxMoved
  /\ moved' = moved + 1 /\ nic' = nic + 1 /\ disk' = disk + 1
  /\ UNCHANGED <<age, net, fs, diskPrev, details>>

\* An interface or a disk goes away and comes back.
NicReset == nic > 0 /\ nic' = 0 /\ UNCHANGED <<moved, disk, age, net, fs, diskPrev, details>>
DiskReset == disk > 0 /\ disk' = 0 /\ UNCHANGED <<moved, nic, age, net, fs, diskPrev, details>>

Tick ==
  /\ age' = [i \in Intervals |-> IF age[i] < Half[i] THEN age[i] + 1 ELSE age[i]]
  /\ fs' = [fs EXCEPT !.passed = TRUE]
  /\ UNCHANGED <<world, net, diskPrev, details>>

\* Weeks pass without a request: whatever is taken for a baseline then is old.
Aged(baselines) ==
  [i \in Intervals |-> IF baselines[i] = None THEN None ELSE [baselines[i] EXCEPT !.loose = TRUE]]

LongWhile ==
  /\ age' = Half
  /\ fs' = [fs EXCEPT !.passed = TRUE, !.loose = TRUE]
  /\ netIoStats' = Aged(netIoStats) /\ diskPrev' = Aged(diskPrev)
  /\ UNCHANGED <<world, netInterfaces, trackers, details>>

HubRestart ==
  /\ detailsFetched' = FALSE /\ held' = "nothing"
  /\ UNCHANGED <<world, age, net, fs, diskPrev, podman, detailsDirty, told>>

----------------------------------------------------------------------------
(* updateNetworkStats.                                                       *)

Now(counter) == [bytes |-> counter, moved |-> moved, loose |-> FALSE]

\* Mutant: the difference is signed.
SinceSigned(base, counter) ==
  [says |-> counter - base.bytes, real |-> moved - base.moved, loose |-> base.loose]

\* The difference to a baseline, in uint64.
Since(base, counter) ==
  [says |-> IF counter < base.bytes THEN Wrapped ELSE counter - base.bytes,
   real |-> moved - base.moved, loose |-> base.loose]

\* Mutant: any rate goes.
ImpossibleNever(base, counter) == FALSE

\* A wrapped difference is an impossible rate (over 10 GB/s, over 50,000 MB/s), unless it is
\* spread over weeks.
Impossible(base, counter) == counter < base.bytes /\ ~base.loose

\* ensureNetInterfacesInitialized: with no interface every baseline is dropped.
Base(baselines, i) == IF netInterfaces THEN baselines[i] ELSE None
Followed == netInterfaces \/ nic > 0

\* sumAndTrackPerNicDeltas: a counter that went back counts from zero.
perNic(i) ==
  LET base == Base(trackers, i)
  IN IF ~Followed \/ base = None THEN Zero
     ELSE [Zero EXCEPT !.says = IF nic >= base.bytes THEN nic - base.bytes ELSE nic,
                       !.real = moved - base.moved]

Total == IF Followed THEN nic ELSE 0

\* applyNetworkTotals: an impossible rate resets everything.
Resets(i) == Base(netIoStats, i) # None /\ Impossible(Base(netIoStats, i), Total)

\* computeBytesPerSecond: without a baseline no time has passed.
computeBytesPerSecond(i) ==
  IF Base(netIoStats, i) = None \/ Resets(i) THEN Zero ELSE Since(Base(netIoStats, i), Total)

updateNetworkStats(i) ==
  IF Resets(i)
  THEN /\ netIoStats' = NoBaselines /\ trackers' = NoBaselines
       /\ netInterfaces' = (nic > 0)
  ELSE /\ netIoStats' = [j \in Intervals |-> IF j = i THEN Now(Total) ELSE Base(netIoStats, j)]
       /\ trackers' = [j \in Intervals |-> IF j # i THEN Base(trackers, j)
                                           ELSE IF Followed THEN Now(nic) ELSE None]
       /\ netInterfaces' = Followed

----------------------------------------------------------------------------
(* updateDiskUsage and updateDiskIo.                                         *)

\* A failed usage call zeroes the totals and leaves their time.
updateDiskUsage(fails) == IF fails THEN [fs EXCEPT !.bytes = 0, !.loose = TRUE] ELSE fs

\* Without a snapshot of its own an interval starts from the shared totals.
Seed(i, stats) ==
  IF diskPrev[i] # None THEN diskPrev[i]
  ELSE [bytes |-> stats.bytes, moved |-> stats.moved, loose |-> stats.loose]
Elapsed(i, stats) == diskPrev[i] # None \/ stats.passed

\* Without time nothing is computed; an impossible rate makes the totals start anew and is
\* dropped, so that the last rate stays in fsStats.
updateDiskIo(i, stats) ==
  /\ diskPrev' = [diskPrev EXCEPT ![i] = Now(disk)]
  /\ fs' = IF ~Elapsed(i, stats) THEN stats
           ELSE [bytes |-> disk, moved |-> moved, loose |-> FALSE, passed |-> FALSE,
                 rate |-> IF Impossible(Seed(i, stats), disk) THEN stats.rate
                          ELSE Since(Seed(i, stats), disk)]

----------------------------------------------------------------------------
(* gatherStats, and what the hub makes of the answer.                        *)

\* attachSystemDetails: only a fresh answer at the default rate carries details.
attachSystemDetails(i, include, dirty) == i = Default /\ (include \/ dirty)

\* sys.data after the answer: what it had stays unless the answer has details.
Data(attached) == IF ~attached THEN held ELSE IF podman' THEN "change" ELSE "details"

\* Mutant: the hub takes the details as received when it has asked for them.
ReceiveHoping(i, attached, outcome) ==
  /\ held' = IF outcome = "lost" THEN "nothing" ELSE Data(attached)
  /\ detailsFetched' = (detailsFetched \/ attached)
  /\ told' = (told \/ (outcome = "saved" /\ held' = "change"))

\* update: an answer is lost, and the connection closed, so that the next one comes to a
\* new System; or createRecords fails, or saves what sys.data has.  An answer to the
\* realtime worker is not saved.
Receive(i, attached, outcome) ==
  LET saved == i = Default /\ outcome = "saved"
  IN
  /\ held' = IF outcome = "lost" THEN "nothing" ELSE Data(attached)
  /\ detailsFetched' = (outcome # "lost" /\ (detailsFetched \/ (saved /\ held' # "nothing")))
  /\ told' = (told \/ (saved /\ held' = "change"))

\* systemDataCache.Get
Fresh(i) == age[i] < Half[i]

Cached(i, outcome) ==
  /\ Fresh(i)
  /\ UNCHANGED <<world, age, net, fs, diskPrev, podman, detailsDirty>>
  /\ Receive(i, FALSE, outcome)

\* systemDataCache.Set
Store(i) == age' = [age EXCEPT ![i] = 0]

\* What a fresh answer says of the network.
Answer(i) == [total |-> computeBytesPerSecond(i), nic |-> perNic(i)]

gatherStats(i, fails, detect, outcome) ==
  LET dirty == detailsDirty \/ (detect /\ ~podman)
      attached == attachSystemDetails(i, ~detailsFetched, dirty)
  IN
  /\ ~Fresh(i)
  /\ Store(i)
  /\ updateNetworkStats(i) /\ updateDiskIo(i, updateDiskUsage(fails))
  /\ podman' = (podman \/ detect)
  /\ detailsDirty' = (dirty /\ ~attached)
  /\ Receive(i, attached, outcome)
  /\ UNCHANGED world

Outcomes == {"saved", "unsaved", "lost"}

Request(i, outcome) ==
  Cached(i, outcome) \/ \E fails, detect \in BOOLEAN : gatherStats(i, fails, detect, outcome)

----------------------------------------------------------------------------
Next ==
  \/ Traffic \/ NicReset \/ DiskReset \/ Tick \/ LongWhile \/ HubRestart
  \/ \E i \in Intervals, outcome \in Outcomes : Request(i, outcome)

\* The hub asks at the default rate, time passes, and not every answer fails.
Fairness == WF_vars(Tick) /\ SF_vars(Request(Default, "saved"))

Spec == Init /\ [][Next]_vars /\ Fairness

----------------------------------------------------------------------------
\* No answer reports more than what really moved since the reading it starts from, whatever
\* the two rates of requests, lost answers and counters that restart do to each other's
\* baselines; and the disk's rate, which an answer may repeat, did not either when it was
\* computed.  Excepted are the total and the disk's rate from a reading that is weeks old,
\* over which a counter that went back is not noticed, and the disk's first rate from
\* totals that a failed usage call has zeroed.
NotOverstated ==
  /\ \A i \in Intervals : ~Fresh(i) =>
       LET rates == Answer(i) IN
       /\ rates.nic.says <= rates.nic.real
       /\ rates.total.loose \/ rates.total.says <= rates.total.real
  /\ fs.rate.loose \/ fs.rate.says <= fs.rate.real

\* A change of the details reaches the database, although only some answers carry them,
\* answers get lost or are not saved, and the mark is cleared when the details are sent.
DetailsArrive == podman ~> told
=============================================================================

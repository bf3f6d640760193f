-------------------------- MODULE AgentData_proof --------------------------
(* The rates of the agent's answers for any set of cache times, any number   *)
(* of ticks in them and any amount of traffic.                               *)
EXTENDS AgentData, TLAPS

\* A reading that a counter can be compared with: since it was taken the counter has not
\* advanced by more than what moved, also when it was reset meanwhile.
Sound(b, counter, m) ==
  /\ b.moved <= m
  /\ counter <= b.bytes + (m - b.moved)
  /\ counter < b.bytes => counter <= m - b.moved

AllSound(baselines, counter) ==
  \A i \in Intervals : baselines[i] # None => Sound(baselines[i], counter, moved)

\* Totals that were zeroed are loose.
FsSound(stats) == stats.moved <= moved /\ (stats.loose \/ Sound(stats, disk, moved))

\* A rate that is not loose says at most what moved.
RateSound(rate) == rate.loose \/ rate.says <= rate.real

\* The inductive invariant.
RateInv ==
  /\ TypeOK
  /\ AllSound(netIoStats, nic) /\ AllSound(trackers, nic) /\ AllSound(diskPrev, disk)
  /\ FsSound(fs) /\ RateSound(fs.rate)

Baselines == [Intervals -> Reading \cup {None}]
Totals == [bytes : Bytes, moved : Bytes, loose : BOOLEAN, passed : BOOLEAN, rate : Rate]

\* Ticks of the cache.
AgeOK == age \in [Intervals -> Nat] /\ \A i \in Intervals : age[i] <= Half[i]

\* What the arithmetic below needs of the types.
LEMMA Ranges ==
  ASSUME TypeOK
  PROVE  /\ MaxMoved \in Nat /\ moved \in Nat /\ nic \in Nat /\ disk \in Nat
         /\ moved <= MaxMoved /\ nic <= moved /\ disk <= moved
  BY IntervalsAssumption DEF TypeOK, Bytes

\* Baselines are readings of at most MaxMoved bytes, which None is not.
LEMMA ReadingFields ==
  ASSUME NEW b \in Reading \cup {None}, b # None
  PROVE  b \in Reading /\ b.bytes \in Bytes /\ b.moved \in Bytes /\ b.loose \in BOOLEAN
  BY DEF Reading

\* The total over the followed interfaces is the counter: an interface that is not followed
\* has counted nothing.
LEMMA TotalIsCounter == TypeOK => Total = nic
  BY IntervalsAssumption DEF TypeOK, Total, Followed, Bytes

\* A new reading is sound.
LEMMA NowIsSound ==
  ASSUME TypeOK, NEW counter \in 0 .. moved
  PROVE  Now(counter) \in Reading /\ Sound(Now(counter), counter, moved)
<1>1. Now(counter) \in Reading
  BY Ranges DEF Now, Reading, Bytes
<1>2. QED
  BY <1>1, Ranges DEF Now, Sound

\* A reading stays sound when traffic is counted, and when its counter is reset.
LEMMA SoundKept ==
  ASSUME NEW b, b.bytes \in Bytes, b.moved \in Bytes, NEW m \in Nat, NEW n \in Nat,
         NEW c \in Nat, NEW d \in Nat, Sound(b, c, m),
         \/ n = m + 1 /\ d = c + 1
         \/ n = m /\ d = c
         \/ n = m /\ d = 0
  PROVE  Sound(b, d, n)
  BY IntervalsAssumption DEF Sound, Bytes

LEMMA ZeroIsRate == Zero \in Rate /\ RateSound(Zero) /\ Zero.says <= Zero.real
  BY IntervalsAssumption DEF Zero, Rate, RateSound, Bytes

\* The rate from a reading to the counter: it wraps if the counter has gone back, and
\* otherwise says at most what moved.  A wrapped one is impossible or loose.
LEMMA RateFromSound ==
  ASSUME TypeOK, NEW b, b.bytes \in Bytes, b.moved \in Bytes, b.moved <= moved,
         b.loose \in BOOLEAN, NEW counter \in 0 .. moved
  PROVE  /\ Since(b, counter) \in Rate
         /\ ~Impossible(b, counter) /\ (b.loose \/ Sound(b, counter, moved))
              => RateSound(Since(b, counter))
<1>1. counter \in Nat /\ moved \in Nat /\ MaxMoved \in Nat /\ b.bytes \in Nat /\ b.moved \in Nat
  BY Ranges DEF Bytes
<1>2. moved - b.moved \in Bytes
  BY <1>1, Ranges DEF Bytes
<1>3. CASE counter < b.bytes
  <2>1. Since(b, counter) = [says |-> Wrapped, real |-> moved - b.moved, loose |-> b.loose]
    BY <1>3 DEF Since
  <2>2. QED
    BY <1>2, <1>3, <2>1 DEF Rate, RateSound, Impossible
<1>4. CASE ~(counter < b.bytes)
  <2>1. Since(b, counter) =
          [says |-> counter - b.bytes, real |-> moved - b.moved, loose |-> b.loose]
    BY <1>4 DEF Since
  <2>2. counter - b.bytes \in Bytes
    BY <1>1, <1>4, Ranges DEF Bytes
  <2>3. Sound(b, counter, moved) => counter - b.bytes <= moved - b.moved
    BY <1>1 DEF Sound
  <2>4. QED
    BY <1>2, <2>1, <2>2, <2>3 DEF Rate, RateSound
<1>5. QED
  BY <1>3, <1>4

----------------------------------------------------------------------------
(* The rates of an answer.                                                   *)

LEMMA BaseIsSound ==
  ASSUME RateInv, NEW i \in Intervals, NEW baselines \in Baselines, AllSound(baselines, nic),
         Base(baselines, i) # None
  PROVE  /\ Base(baselines, i).bytes \in Bytes /\ Base(baselines, i).moved \in Bytes
         /\ Base(baselines, i).loose \in BOOLEAN
         /\ Base(baselines, i).moved <= moved
         /\ Sound(Base(baselines, i), nic, moved)
<1>1. Base(baselines, i) = baselines[i]
  BY DEF Base
<1>2. baselines[i] \in Reading \cup {None}
  BY DEF Baselines
<1>3. QED
  BY <1>1, <1>2, ReadingFields DEF AllSound, Sound

LEMMA TotalRate ==
  ASSUME RateInv, NEW i \in Intervals
  PROVE  RateSound(computeBytesPerSecond(i))
<1> DEFINE base == Base(netIoStats, i)
<1>1. CASE base = None \/ Resets(i)
  BY <1>1, ZeroIsRate DEF computeBytesPerSecond
<1>2. CASE base # None /\ ~Resets(i)
  <2>1. /\ base.bytes \in Bytes /\ base.moved \in Bytes /\ base.loose \in BOOLEAN
        /\ base.moved <= moved /\ Sound(base, nic, moved)
    BY <1>2, BaseIsSound DEF RateInv, TypeOK, Baselines
  <2>2. TypeOK /\ Total = nic /\ nic \in 0 .. moved
    BY TotalIsCounter DEF RateInv, TypeOK
  <2>3. ~Impossible(base, nic)
    BY <1>2, <2>2 DEF Resets
  <2>4. RateSound(Since(base, nic))
    BY <2>1, <2>2, <2>3, RateFromSound
  <2>5. computeBytesPerSecond(i) = Since(base, nic)
    BY <1>2, <2>2 DEF computeBytesPerSecond
  <2>6. QED
    BY <2>4, <2>5
<1>3. QED
  BY <1>1, <1>2

LEMMA NicRate ==
  ASSUME RateInv, NEW i \in Intervals
  PROVE  perNic(i).says <= perNic(i).real
<1> DEFINE base == Base(trackers, i)
<1>0. TypeOK /\ nic \in 0 .. moved
  BY DEF RateInv, TypeOK
<1>1. CASE ~Followed \/ base = None
  BY <1>1, ZeroIsRate DEF perNic
<1>2. CASE Followed /\ base # None
  <2>1. /\ base.bytes \in Bytes /\ base.moved \in Bytes
        /\ base.moved <= moved /\ Sound(base, nic, moved)
    BY <1>2, BaseIsSound DEF RateInv, TypeOK, Baselines
  <2>2. /\ perNic(i).says = IF nic >= base.bytes THEN nic - base.bytes ELSE nic
        /\ perNic(i).real = moved - base.moved
    BY <1>2 DEF perNic, Zero
  <2>3. nic \in Nat /\ moved \in Nat /\ base.bytes \in Nat /\ base.moved \in Nat
    BY <1>0, <2>1, Ranges DEF Bytes
  <2>4. QED
    BY <2>1, <2>2, <2>3 DEF Sound
<1>3. QED
  BY <1>1, <1>2

LEMMA RatesNotOverstated == RateInv => NotOverstated
  BY TotalRate, NicRate DEF RateInv, NotOverstated, Answer, RateSound

\* A failed usage call leaves the totals a reading, which is sound or loose.
LEMMA UsageTotals ==
  ASSUME RateInv, NEW fails \in BOOLEAN
  PROVE  /\ updateDiskUsage(fails) \in Totals /\ FsSound(updateDiskUsage(fails))
         /\ RateSound(updateDiskUsage(fails).rate)
<1>1. fs \in Totals /\ FsSound(fs) /\ RateSound(fs.rate)
  BY DEF RateInv, TypeOK, Totals
<1>2. CASE fails
  <2>1. 0 \in Bytes
    BY IntervalsAssumption DEF Bytes
  <2> DEFINE zeroed == [fs EXCEPT !.bytes = 0, !.loose = TRUE]
  <2>2. zeroed \in Totals /\ zeroed.loose = TRUE /\ zeroed.moved = fs.moved /\ zeroed.rate = fs.rate
    BY <1>1, <2>1 DEF Totals
  <2>3. QED
    BY <1>1, <1>2, <2>2 DEF updateDiskUsage, FsSound
<1>3. CASE ~fails
  BY <1>1, <1>3 DEF updateDiskUsage
<1>4. QED
  BY <1>2, <1>3

LEMMA DiskRate ==
  ASSUME RateInv, NEW i \in Intervals, NEW stats \in Totals, FsSound(stats)
  PROVE  /\ Since(Seed(i, stats), disk) \in Rate
         /\ ~Impossible(Seed(i, stats), disk) => RateSound(Since(Seed(i, stats), disk))
<1> DEFINE seed == Seed(i, stats)
<1>0. TypeOK /\ disk \in 0 .. moved
  BY DEF RateInv, TypeOK
<1>1. /\ seed.bytes \in Bytes /\ seed.moved \in Bytes /\ seed.moved <= moved
      /\ seed.loose \in BOOLEAN /\ (seed.loose \/ Sound(seed, disk, moved))
  <2>1. CASE diskPrev[i] # None
    <3>1. diskPrev[i] \in Reading \cup {None} /\ Sound(diskPrev[i], disk, moved)
      BY <2>1 DEF RateInv, TypeOK, AllSound
    <3>2. QED
      BY <2>1, <3>1, ReadingFields DEF Seed, Sound
  <2>2. CASE diskPrev[i] = None
    BY <2>2 DEF Seed, Totals, FsSound, Sound
  <2>3. QED
    BY <2>1, <2>2
<1>2. QED
  BY <1>0, <1>1, RateFromSound

----------------------------------------------------------------------------
(* The baselines after an answer.                                            *)

\* A reset drops all baselines of both kinds; otherwise this interval's are new and the
\* others are kept, or dropped with the interface they were taken from.
LEMMA NetBaselines ==
  ASSUME RateInv, NEW i \in Intervals, updateNetworkStats(i), UNCHANGED world
  PROVE  /\ netInterfaces' \in BOOLEAN
         /\ netIoStats' \in Baselines /\ AllSound(netIoStats, nic)'
         /\ trackers' \in Baselines /\ AllSound(trackers, nic)'
<1>0. TypeOK /\ nic \in 0 .. moved /\ Total = nic /\ moved' = moved /\ nic' = nic
  BY TotalIsCounter DEF RateInv, TypeOK, world
<1>1. netInterfaces' \in BOOLEAN
  <2>1. (nic > 0) \in BOOLEAN
    BY <1>0, Ranges
  <2>2. Followed \in BOOLEAN
    BY Zenon DEF Followed
  <2>3. QED
    BY <2>1, <2>2, Zenon DEF updateNetworkStats
<1>2. Now(nic) \in Reading /\ Sound(Now(nic), nic, moved)
  BY <1>0, NowIsSound
<1>3. CASE Resets(i)
  BY <1>1, <1>3 DEF updateNetworkStats, NoBaselines, Baselines, AllSound
<1>4. CASE ~Resets(i)
  <2>1. ASSUME NEW j \in Intervals, NEW baselines \in Baselines, AllSound(baselines, nic)
        PROVE  /\ Base(baselines, j) \in Reading \cup {None}
               /\ Base(baselines, j) # None => Sound(Base(baselines, j), nic, moved)
    BY <2>1 DEF Base, Baselines, AllSound
  <2>2. /\ netIoStats \in Baselines /\ AllSound(netIoStats, nic)
        /\ trackers \in Baselines /\ AllSound(trackers, nic)
    BY DEF RateInv, TypeOK, Baselines
  <2>3. \A j \in Intervals :
          /\ netIoStats'[j] \in Reading \cup {None}
          /\ netIoStats'[j] # None => Sound(netIoStats'[j], nic, moved)
    BY <1>0, <1>2, <1>4, <2>1, <2>2 DEF updateNetworkStats
  <2>4. \A j \in Intervals :
          /\ trackers'[j] \in Reading \cup {None}
          /\ trackers'[j] # None => Sound(trackers'[j], nic, moved)
    BY <1>0, <1>2, <1>4, <2>1, <2>2 DEF updateNetworkStats
  <2>5. netIoStats' \in Baselines /\ trackers' \in Baselines
    BY <1>4, <2>3, <2>4 DEF updateNetworkStats, Baselines
  <2>6. QED
    BY <1>0, <1>1, <2>3, <2>4, <2>5 DEF AllSound
<1>5. QED
  BY <1>3, <1>4

LEMMA DiskBaselines ==
  ASSUME RateInv, NEW i \in Intervals, NEW stats \in Totals, FsSound(stats),
         RateSound(stats.rate), updateDiskIo(i, stats), UNCHANGED world
  PROVE  /\ diskPrev' \in Baselines /\ AllSound(diskPrev, disk)'
         /\ fs' \in Totals /\ FsSound(fs)' /\ RateSound(fs.rate)'
<1>0. TypeOK /\ disk \in 0 .. moved /\ moved \in Bytes /\ disk \in Bytes /\ moved' = moved /\ disk' = disk
  BY Ranges DEF RateInv, TypeOK, world, Bytes
<1>1. Now(disk) \in Reading /\ Sound(Now(disk), disk, moved)
  BY <1>0, NowIsSound
<1>2. diskPrev' \in Baselines /\ AllSound(diskPrev, disk)'
  <2>1. diskPrev \in Baselines /\ AllSound(diskPrev, disk)
    BY DEF RateInv, TypeOK, Baselines
  <2>2. diskPrev' = [diskPrev EXCEPT ![i] = Now(disk)]
    BY DEF updateDiskIo
  <2>3. QED
    BY <1>0, <1>1, <2>1, <2>2 DEF AllSound, Baselines
<1>3. fs' \in Totals /\ FsSound(fs)' /\ RateSound(fs.rate)'
  <2>1. CASE Elapsed(i, stats)
    <3> DEFINE rate == IF Impossible(Seed(i, stats), disk) THEN stats.rate
                       ELSE Since(Seed(i, stats), disk)
    <3>1. rate \in Rate /\ RateSound(rate)
      BY DiskRate DEF Totals
    <3>2. fs' = [bytes |-> disk, moved |-> moved, loose |-> FALSE, passed |-> FALSE, rate |-> rate]
      BY <2>1 DEF updateDiskIo
    <3> HIDE DEF rate
    <3>3. fs' \in Totals /\ fs'.rate = rate
      BY <1>0, <3>1, <3>2 DEF Totals
    <3>4. fs'.moved <= moved /\ Sound(fs', disk, moved)
      BY <1>0, <3>2, Ranges DEF Sound
    <3>5. QED
      BY <1>0, <3>1, <3>3, <3>4 DEF FsSound
  <2>2. CASE ~Elapsed(i, stats)
    BY <1>0, <2>2 DEF updateDiskIo, FsSound
  <2>3. QED
    BY <2>1, <2>2
<1>4. QED
  BY <1>2, <1>3

----------------------------------------------------------------------------
(* The steps.                                                                *)

LEMMA InitRateInv == Init => RateInv
<1> SUFFICES ASSUME Init PROVE RateInv
  OBVIOUS
<1> USE IntervalsAssumption
<1>1. moved \in Bytes /\ moved \in 0 .. moved
  BY DEF Init, Bytes
<1>2. AgeOK
  BY DEF Init, AgeOK
<1>3. NoBaselines \in Baselines /\ \A i \in Intervals : NoBaselines[i] = None
  BY DEF NoBaselines, Baselines
<1>4. fs \in Totals /\ fs.rate = Zero
  BY <1>1, ZeroIsRate DEF Init, Totals
<1>5. netInterfaces \in BOOLEAN
  <2>1. (nic > 0) \in BOOLEAN
    BY <1>1 DEF Init, Bytes
  <2>2. QED
    BY <2>1, Zenon DEF Init
<1>6. TypeOK
  BY <1>1, <1>2, <1>3, <1>4, <1>5 DEF Init, TypeOK, AgeOK, Baselines, Totals
<1>7. AllSound(netIoStats, nic) /\ AllSound(trackers, nic) /\ AllSound(diskPrev, disk)
  BY <1>3 DEF Init, AllSound
<1>8. FsSound(fs) /\ RateSound(fs.rate)
  BY <1>1, <1>4, ZeroIsRate DEF Init, FsSound, Sound, Bytes
<1>9. QED
  BY <1>6, <1>7, <1>8 DEF RateInv

\* What happens to the counters keeps the baselines sound.
LEMMA CountersRateInv ==
  ASSUME RateInv, Traffic \/ NicReset \/ DiskReset
  PROVE  RateInv'
<1>1. TypeOK /\ moved \in Nat /\ nic \in Nat /\ disk \in Nat
  BY Ranges DEF RateInv
<1>2. /\ moved' \in Nat /\ nic' \in Nat /\ disk' \in Nat
      /\ moved' \in Bytes /\ nic' \in 0 .. moved' /\ disk' \in 0 .. moved'
      /\ \/ moved' = moved + 1 /\ nic' = nic + 1 /\ disk' = disk + 1
         \/ moved' = moved /\ nic' \in {nic, 0} /\ disk' \in {disk, 0}
  BY <1>1, Ranges, IntervalsAssumption DEF Traffic, NicReset, DiskReset, Bytes
<1>3. UNCHANGED <<age, netInterfaces, netIoStats, trackers, fs, diskPrev,
                  podman, detailsDirty, detailsFetched, held, told>>
  BY DEF Traffic, NicReset, DiskReset, net, details, hub
<1>4. TypeOK'
  BY <1>1, <1>2, <1>3 DEF TypeOK
<1>5. ASSUME NEW b, b.bytes \in Bytes, b.moved \in Bytes
      PROVE  /\ Sound(b, nic, moved) => Sound(b, nic', moved')
             /\ Sound(b, disk, moved) => Sound(b, disk', moved')
  BY <1>1, <1>2, <1>5, SoundKept
<1>6. AllSound(netIoStats, nic)' /\ AllSound(trackers, nic)' /\ AllSound(diskPrev, disk)'
  <2>1. ASSUME NEW i \in Intervals
        PROVE  /\ netIoStats[i] # None => Sound(netIoStats[i], nic', moved')
               /\ trackers[i] # None => Sound(trackers[i], nic', moved')
               /\ diskPrev[i] # None => Sound(diskPrev[i], disk', moved')
    <3>1. /\ netIoStats[i] \in Reading \cup {None} /\ trackers[i] \in Reading \cup {None}
          /\ diskPrev[i] \in Reading \cup {None}
      BY <1>1 DEF TypeOK
    <3>2. QED
      BY <1>5, <3>1, ReadingFields DEF RateInv, AllSound
  <2>2. QED
    BY <1>3, <2>1 DEF AllSound
<1>7. FsSound(fs)'
  <2>1. fs.bytes \in Bytes /\ fs.moved \in Bytes /\ FsSound(fs)
    BY <1>1 DEF RateInv, TypeOK
  <2>2. fs.moved <= moved'
    BY <1>1, <1>2, <2>1, IntervalsAssumption DEF FsSound, Bytes
  <2>3. QED
    BY <1>3, <1>5, <2>1, <2>2 DEF FsSound
<1>8. RateSound(fs.rate)'
  BY <1>3 DEF RateInv, RateSound
<1>9. QED
  BY <1>4, <1>6, <1>7, <1>8 DEF RateInv

\* What the hub remembers of the details.
HubOK == detailsFetched \in BOOLEAN /\ told \in BOOLEAN /\ held \in {"nothing", "details", "change"}

\* Steps that change neither counters nor baselines; time may make baselines old.
LEMMA FrameRateInv ==
  ASSUME RateInv, UNCHANGED <<moved, nic, disk, netInterfaces, trackers>>,
         \/ UNCHANGED <<netIoStats, diskPrev>>
         \/ netIoStats' = Aged(netIoStats) /\ diskPrev' = Aged(diskPrev),
         AgeOK', fs' \in Totals,
         fs'.bytes = fs.bytes, fs'.moved = fs.moved, fs'.loose = fs.loose \/ fs'.loose = TRUE,
         fs'.rate = fs.rate,
         podman' \in BOOLEAN, detailsDirty' \in BOOLEAN, HubOK'
  PROVE  RateInv'
<1>0. TypeOK /\ AllSound(netIoStats, nic) /\ AllSound(trackers, nic) /\ AllSound(diskPrev, disk)
  BY DEF RateInv
<1>1. ASSUME NEW baselines \in Baselines, NEW counter, AllSound(baselines, counter)
      PROVE  Aged(baselines) \in Baselines /\ AllSound(Aged(baselines), counter)
  <2>1. ASSUME NEW i \in Intervals
        PROVE  /\ Aged(baselines)[i] \in Reading \cup {None}
               /\ Aged(baselines)[i] # None => Sound(Aged(baselines)[i], counter, moved)
    <3>1. CASE baselines[i] = None
      BY <3>1 DEF Aged
    <3>2. CASE baselines[i] # None
      <4> DEFINE b == baselines[i]  old == [b EXCEPT !.loose = TRUE]
      <4>1. b \in Reading /\ Sound(b, counter, moved)
        BY <1>1, <3>2 DEF Baselines, AllSound
      <4>2. old \in Reading /\ old.bytes = b.bytes /\ old.moved = b.moved
        BY <4>1 DEF Reading
      <4>3. Aged(baselines)[i] = old
        BY <3>2 DEF Aged
      <4>4. QED
        BY <4>1, <4>2, <4>3 DEF Sound
    <3>3. QED
      BY <3>1, <3>2
  <2>2. QED
    BY <2>1 DEF Aged, Baselines, AllSound
<1>2. netIoStats \in Baselines /\ diskPrev \in Baselines
  BY <1>0 DEF TypeOK, Baselines
<1>3. /\ netIoStats' \in Baselines /\ AllSound(netIoStats', nic)
      /\ diskPrev' \in Baselines /\ AllSound(diskPrev', disk)
  BY <1>0, <1>1, <1>2
<1>4. TypeOK'
  BY <1>0, <1>3 DEF TypeOK, AgeOK, HubOK, Totals, Baselines
<1>5. AllSound(netIoStats, nic)' /\ AllSound(trackers, nic)' /\ AllSound(diskPrev, disk)'
  BY <1>0, <1>3 DEF AllSound
<1>6. FsSound(fs)' /\ RateSound(fs.rate)'
  BY DEF RateInv, FsSound, Sound, RateSound
<1>7. QED
  BY <1>4, <1>5, <1>6 DEF RateInv

\* Time passes, or the hub is restarted.
LEMMA TimeRateInv ==
  ASSUME RateInv, Tick \/ LongWhile \/ HubRestart
  PROVE  RateInv'
<1>1. fs \in Totals /\ AgeOK /\ HubOK /\ podman \in BOOLEAN /\ detailsDirty \in BOOLEAN
  BY DEF RateInv, TypeOK, Totals, AgeOK, HubOK
<1>2. CASE Tick
  <2>1. AgeOK'
    BY <1>1, <1>2, IntervalsAssumption DEF Tick, AgeOK
  <2>2. /\ fs' \in Totals
        /\ fs'.bytes = fs.bytes /\ fs'.moved = fs.moved /\ fs'.loose = fs.loose /\ fs'.rate = fs.rate
    BY <1>1, <1>2 DEF Tick, Totals
  <2>3. UNCHANGED <<moved, nic, disk, netInterfaces, netIoStats, trackers, diskPrev,
                    podman, detailsDirty, detailsFetched, held, told>>
    BY <1>2 DEF Tick, world, net, details, hub
  <2>4. QED
    BY <1>1, <2>1, <2>2, <2>3, FrameRateInv DEF HubOK
<1>3. CASE LongWhile
  <2>1. AgeOK'
    BY <1>3, IntervalsAssumption DEF LongWhile, AgeOK
  <2>2. /\ fs' \in Totals
        /\ fs'.bytes = fs.bytes /\ fs'.moved = fs.moved /\ fs'.loose = TRUE /\ fs'.rate = fs.rate
    BY <1>1, <1>3 DEF LongWhile, Totals
  <2>3. /\ UNCHANGED <<moved, nic, disk, netInterfaces, trackers,
                       podman, detailsDirty, detailsFetched, held, told>>
        /\ netIoStats' = Aged(netIoStats) /\ diskPrev' = Aged(diskPrev)
    BY <1>3 DEF LongWhile, world, details, hub
  <2>4. QED
    BY <1>1, <2>1, <2>2, <2>3, FrameRateInv DEF HubOK
<1>4. CASE HubRestart
  <2>1. /\ UNCHANGED <<moved, nic, disk, age, netInterfaces, netIoStats, trackers, fs, diskPrev,
                       podman, detailsDirty, told>>
        /\ detailsFetched' = FALSE /\ held' = "nothing"
    BY <1>4 DEF HubRestart, world, net
  <2>2. AgeOK' /\ HubOK' /\ fs' \in Totals
    BY <1>1, <2>1 DEF AgeOK, HubOK
  <2>3. QED
    BY <1>1, <2>1, <2>2, FrameRateInv
<1>5. QED
  BY <1>2, <1>3, <1>4

LEMMA ReceiveTypes ==
  ASSUME TypeOK, NEW i \in Intervals, NEW attached \in BOOLEAN, NEW outcome,
         podman' \in BOOLEAN, Receive(i, attached, outcome)
  PROVE  HubOK'
<1>1. held' \in {"nothing", "details", "change"}
  BY DEF TypeOK, Receive, Data
<1>2. detailsFetched' \in BOOLEAN /\ told' \in BOOLEAN
  BY Zenon DEF TypeOK, Receive
<1>3. QED
  BY <1>1, <1>2 DEF HubOK

LEMMA CachedRateInv ==
  ASSUME RateInv, NEW i \in Intervals, NEW outcome, Cached(i, outcome)
  PROVE  RateInv'
<1>1. fs' \in Totals /\ AgeOK' /\ fs' = fs
  BY DEF RateInv, TypeOK, Totals, AgeOK, Cached
<1>2. UNCHANGED <<moved, nic, disk, netInterfaces, netIoStats, trackers, diskPrev>>
  BY DEF Cached, world, net
<1>3. podman' \in BOOLEAN /\ detailsDirty' \in BOOLEAN
  BY DEF RateInv, TypeOK, Cached
<1>4. HubOK'
  <2>1. held' \in {"nothing", "details", "change"}
    BY DEF RateInv, TypeOK, Cached, Receive, Data
  <2>2. detailsFetched' \in BOOLEAN /\ told' \in BOOLEAN
    BY Zenon DEF RateInv, TypeOK, Cached, Receive
  <2>3. QED
    BY <2>1, <2>2 DEF HubOK
<1>5. QED
  BY <1>1, <1>2, <1>3, <1>4, FrameRateInv

LEMMA GatherRateInv ==
  ASSUME RateInv, NEW i \in Intervals, NEW fails \in BOOLEAN, NEW detect \in BOOLEAN,
         NEW outcome, gatherStats(i, fails, detect, outcome)
  PROVE  RateInv'
<1> DEFINE stats == updateDiskUsage(fails)
           dirty == detailsDirty \/ (detect /\ ~podman)
           attached == attachSystemDetails(i, ~detailsFetched, dirty)
<1>1. /\ Store(i)
      /\ updateNetworkStats(i) /\ updateDiskIo(i, stats)
      /\ podman' = (podman \/ detect)
      /\ detailsDirty' = (dirty /\ ~attached)
      /\ Receive(i, attached, outcome)
      /\ UNCHANGED world
  BY DEF gatherStats
<1>2. TypeOK /\ stats \in Totals /\ FsSound(stats) /\ RateSound(stats.rate)
  BY UsageTotals DEF RateInv
<1>3. /\ netInterfaces' \in BOOLEAN
      /\ netIoStats' \in Baselines /\ AllSound(netIoStats, nic)'
      /\ trackers' \in Baselines /\ AllSound(trackers, nic)'
  BY <1>1, NetBaselines
<1>4. /\ diskPrev' \in Baselines /\ AllSound(diskPrev, disk)'
      /\ fs' \in Totals /\ FsSound(fs)' /\ RateSound(fs.rate)'
  BY <1>1, <1>2, DiskBaselines
<1>5. AgeOK'
  BY <1>1, <1>2, IntervalsAssumption DEF Store, AgeOK, TypeOK
<1>6. podman' \in BOOLEAN /\ detailsDirty' \in BOOLEAN
  BY <1>1, <1>2, Zenon DEF TypeOK
<1>7. HubOK'
  <2>1. attached \in BOOLEAN
    BY Zenon DEF attachSystemDetails
  <2>2. QED
    BY <1>1, <1>2, <1>6, <2>1, ReceiveTypes
<1>8. moved' \in Bytes /\ nic' \in 0 .. moved' /\ disk' \in 0 .. moved'
  BY <1>1, <1>2 DEF TypeOK, world
<1>9. TypeOK'
  BY <1>3, <1>4, <1>5, <1>6, <1>7, <1>8 DEF TypeOK, AgeOK, HubOK, Baselines, Totals
<1>10. QED
  BY <1>3, <1>4, <1>9 DEF RateInv

LEMMA NextRateInv == RateInv /\ [Next]_vars => RateInv'
<1> SUFFICES ASSUME RateInv, [Next]_vars PROVE RateInv'
  OBVIOUS
<1>1. CASE Traffic \/ NicReset \/ DiskReset
  BY <1>1, CountersRateInv
<1>2. CASE Tick \/ LongWhile \/ HubRestart
  BY <1>2, TimeRateInv
<1>3. CASE \E i \in Intervals, outcome \in Outcomes : Request(i, outcome)
  BY <1>3, CachedRateInv, GatherRateInv DEF Request
<1>4. CASE UNCHANGED vars
  BY <1>4 DEF vars, RateInv, TypeOK, AllSound, FsSound, Sound, RateSound
<1>5. QED
  BY <1>1, <1>2, <1>3, <1>4 DEF Next

\* The variables of gatherStats stay in their ranges; in particular the rate kept in fsStats
\* is never negative, however the counters restart.
THEOREM TypeCorrect == Spec => []TypeOK
<1>1. RateInv => TypeOK
  BY DEF RateInv
<1>2. QED
  BY <1>1, InitRateInv, NextRateInv, PTL DEF Spec

\* No answer of gatherStats reports more than what moved since the reading it starts from,
\* unless that reading is weeks old or was zeroed by a failed usage call.
THEOREM NothingOverstated == Spec => []NotOverstated
<1>1. RateInv => NotOverstated
  BY RatesNotOverstated
<1>2. QED
  BY <1>1, InitRateInv, NextRateInv, PTL DEF Spec
=============================================================================

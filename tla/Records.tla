------------------------------- MODULE Records -------------------------------
(* Roll-up and retention of the statistics of one system: every minute the   *)
(* updater stores a row of type 0 (1m); a job averages the rows of a type    *)
(* into a row of the next one (10m, 20m, 120m, 480m); a cleaner deletes rows *)
(* by age.  Time is kept as the ages of the rows, in minutes: what happens   *)
(* within a minute happens in any order, and a row whose age is exactly the  *)
(* limit of a query may be on either side of it.  One statistic is kept,     *)
(* which a sample may lack (a disk, an interface, a GPU, a container); one   *)
(* that every sample has is the case where none lacks it.  system_stats and  *)
(* container_stats obey the same rules.                                      *)
EXTENDS Integers, FiniteSets, FiniteSetsExt

CONSTANTS
  Top,          \* number of roll-up levels; the types are 0 .. Top
  Duration,     \* Duration[k]: longerTimeDuration of level k
  MinShorter,   \* MinShorter[k]: minShorterRecords of level k
  Retention,    \* Retention[k]: how long rows of type k are kept
  RunEvery,     \* minutes between two runs of CreateLongerRecords
  CleanEvery,   \* the cleaner runs at least once in so many minutes
  Readings      \* what samples may hold; 0 also stands for a sample without it

Levels == 1 .. Top
Types == 0 .. Top

ASSUME SizesAssumption ==
  /\ Top \in Nat /\ RunEvery \in Nat \ {0} /\ CleanEvery \in Nat /\ Readings \subseteq Nat
  /\ Duration \in [Levels -> Nat] /\ MinShorter \in [Levels -> Nat \ {0}]
  /\ Retention \in [Types -> Nat]
\* The cleaner leaves alone what the roll-up reads.
ASSUME RetentionAssumption == \A k \in Levels : Retention[k - 1] > Duration[k] /\ Retention[k] > Duration[k]
\* Periods are a number of runs; one sample of the first may be missing, and the rows of a
\* type, one per period, are as many as the next type needs.
ASSUME RhythmAssumption ==
  /\ \A k \in Levels : \E n \in 1 .. Duration[k] : Duration[k] = n * RunEvery
  /\ \A k \in Levels : IF k = 1 THEN MinShorter[k] < Duration[k]
                                 ELSE MinShorter[k] * Duration[k - 1] <= Duration[k]

VARIABLES
  rows,      \* rows[k]: the rows of type k
  phase,     \* minutes since the last run of the job
  sampled,   \* this minute's sample is stored, or missing for good
  steady     \* minutes since a sample or a run of the job went missing (history)

recordVars == <<rows, phase, sampled, steady>>

MaxAge(k) == Retention[k] + CleanEvery
\* The minutes without interruption after which level k has its first row.
FilledBy[k \in Types] == IF k = 0 THEN RunEvery ELSE FilledBy[k - 1] + Duration[k]
Filled == FilledBy[Top]
Horizon == Filled + Max({MaxAge(k) : k \in Types})

\* avg, peak: the statistic and its Max field.  used: averaged by a longer row; low, high:
\* the extremes of the samples the row stands for (history).
RowType(k) == [age : 0 .. MaxAge(k), has : BOOLEAN, avg : Nat, peak : Nat, used : BOOLEAN,
               low : Nat, high : Nat]

\* The variables stay in their ranges, and a type has one row of an age.
RecordsTypeOK ==
  /\ \A k \in Types :
       /\ \A r \in rows[k] : r \in RowType(k)
       /\ \A r, s \in rows[k] : r.age = s.age => r = s
  /\ phase \in 0 .. RunEvery
  /\ sampled \in BOOLEAN
  /\ steady \in 0 .. Horizon

RecordsInit ==
  /\ rows = [k \in Types |-> {}]
  /\ phase = 0 /\ sampled = FALSE /\ steady = 0

----------------------------------------------------------------------------
\* The clock: a minute ends with its sample stored or missing, and the job run when due.
NextMinute ==
  /\ sampled
  /\ phase < RunEvery
  /\ \A k \in Types : \A r \in rows[k] : r.age < MaxAge(k)
  /\ rows' = [k \in Types |-> {[r EXCEPT !.age = @ + 1] : r \in rows[k]}]
  /\ phase' = phase + 1
  /\ sampled' = FALSE
  /\ steady' = IF steady < Horizon THEN steady + 1 ELSE steady

\* createRecords stores a 1m row; its Max fields are not set.
Sample(has, v) ==
  /\ ~sampled
  /\ rows' = [rows EXCEPT ![0] = @ \cup {[age |-> 0, has |-> has, avg |-> v, peak |-> 0,
                                         used |-> FALSE, low |-> v, high |-> v]}]
  /\ sampled' = TRUE
  /\ UNCHANGED <<phase, steady>>

\* The system is down, paused or late.
NoSample ==
  /\ ~sampled
  /\ sampled' = TRUE
  /\ steady' = 0
  /\ UNCHANGED <<rows, phase>>

----------------------------------------------------------------------------
(* CreateLongerRecords.                                                      *)

\* twoDecimals, in hundredths.
twoDecimals(sum, n) == (2 * sum + n) \div (2 * n)

\* Mutant: the peaks of the rows are forgotten, their averages are not.
PeakOfAverages(S) == Max({0} \cup {r.avg : r \in {q \in S : q.has}})

\* The Max field: the peaks and the values of the rows that have the statistic.
Peak(S) == Max({0} \cup UNION {{r.peak, r.avg} : r \in {q \in S : q.has}})

\* The sum over the rows that have the statistic ...
Accumulated(S) == MapThenSumSet(LAMBDA r : IF r.has THEN r.avg ELSE 0, S)

\* ... divided by the number of all rows.  (Temperatures alone are divided by the number
\* of rows that have any.)
AverageSystemStatsSlice(S) ==
  [age |-> 0, has |-> \E r \in S : r.has,
   avg |-> twoDecimals(Accumulated(S), Cardinality(S)), peak |-> Peak(S), used |-> FALSE,
   low |-> Min({r.low : r \in S}), high |-> Max({r.high : r \in S})]

\* A longer row less than a period, with a minute of padding, old; 10m rows are not asked for.
Exists(R, k) == k > 1 /\ \E r \in R[k] : r.age < Duration[k] - 1

\* Mutant: the query is limited to as many of the newest rows as are needed.
ShorterLimited(R, k, edge) ==
  {r \in R[k - 1] : /\ r.age < Duration[k]
                    /\ Cardinality({q \in R[k - 1] : q.age < r.age}) < MinShorter[k]}

\* The shorter rows of the last period.
Shorter(R, k, edge) == {r \in R[k - 1] : r.age < Duration[k] \/ (edge /\ r.age = Duration[k])}

\* Mutant: more than the minimum is asked for.
RollUpMore(R, k, edge) ==
  LET S == Shorter(R, k, edge) IN
  IF Exists(R, k) \/ Cardinality(S) <= MinShorter[k] THEN R
  ELSE [R EXCEPT ![k] = @ \cup {AverageSystemStatsSlice(S)},
                 ![k - 1] = {[r EXCEPT !.used = @ \/ r \in S] : r \in R[k - 1]}]

\* One level: skipped when its row exists or too few shorter rows do.
RollUp(R, k, edge) ==
  LET S == Shorter(R, k, edge) IN
  IF Exists(R, k) \/ Cardinality(S) < MinShorter[k] THEN R
  ELSE [R EXCEPT ![k] = @ \cup {AverageSystemStatsSlice(S)},
                 ![k - 1] = {[r EXCEPT !.used = @ \/ r \in S] : r \in R[k - 1]}]

\* Mutant: the job may run twice in a minute.
CreateLongerRecordsAgain(up, edge) ==
  LET level[k \in Types] == IF k = 0 THEN rows ELSE RollUp(level[k - 1], k, edge[k]) IN
  /\ phase = RunEvery
  /\ phase' = IF edge[1] THEN 0 ELSE phase
  /\ rows' = IF up THEN level[Top] ELSE rows
  /\ steady' = IF up THEN steady ELSE 0
  /\ UNCHANGED sampled

\* The levels in order, each reading what the one before stored; only for a system that is up.
CreateLongerRecords(up, edge) ==
  LET level[k \in Types] == IF k = 0 THEN rows ELSE RollUp(level[k - 1], k, edge[k]) IN
  /\ phase = RunEvery
  /\ phase' = 0
  /\ rows' = IF up THEN level[Top] ELSE rows
  /\ steady' = IF up THEN steady ELSE 0
  /\ UNCHANGED sampled

----------------------------------------------------------------------------
\* deleteOldSystemStats: rows whose time is over, or over in this minute.
deleteOldSystemStats ==
  /\ rows' = [k \in Types |-> {r \in rows[k] : r.age < Retention[k]}]
  /\ rows' # rows
  /\ UNCHANGED <<phase, sampled, steady>>

RecordsNext ==
  \/ NextMinute
  \/ NoSample
  \/ Sample(FALSE, 0)
  \/ \E v \in Readings : Sample(TRUE, v)
  \/ \E up \in BOOLEAN, edge \in [Levels -> BOOLEAN] : CreateLongerRecords(up, edge)
  \/ deleteOldSystemStats

RecordsSpec == RecordsInit /\ [][RecordsNext]_recordVars

----------------------------------------------------------------------------
\* No gaps: a system that is up and sampled without interruption has a row of every type
\* for the current period, whatever the timing of samples, job and cleaner.
NoGap == steady >= Filled => \A k \in Levels : \E r \in rows[k] : r.age <= Duration[k]

\* Nothing falls between two periods: without interruption every row is averaged by a
\* row of the next type, but for a sample stored in the minute in which the job ran,
\* which both runs may leave to the other.
NoneSkipped ==
  \A k \in Levels : \A r \in rows[k - 1] :
    /\ r.age > Duration[k] /\ steady >= Filled + r.age
    /\ k = 1 => (r.age - phase) % RunEvery # 0
    => r.used

\* A longer row is true to its samples over all levels: its peak is theirs, and its
\* average is between their extremes, where a sample without the statistic counts as 0.
Faithful ==
  \A k \in Levels : \A r \in rows[k] : r.peak = r.high /\ r.low <= r.avg /\ r.avg <= r.high
=============================================================================

---------------------------- MODULE SystemAlerts ----------------------------
(* A threshold alert (CPU, memory or disk) of one system.  The hook of every *)
(* saved row of a system that is up evaluates the alert over the 1m rows of  *)
(* its period, in the goroutine that saved; a change is carried out by a     *)
(* goroutine of its own, which saves the alert, updates the cache from the   *)
(* hook of that save, and sends a message (which changes nothing here).  A   *)
(* pause clears the alert on the goroutine of its request.  Rows are a       *)
(* minute apart, give or take the seconds an update needs.                   *)
EXTENDS Integers, FiniteSets, FiniteSetsExt

CONSTANTS
  Mins,        \* periods the alert may have, in minutes
  Share,       \* a period may lack one row in so many: 6, as min / 1.2 rows are enough
  Filesystems, \* what a disk alert looks at; one for CPU and memory
  Values,      \* what a sample may be
  Threshold,
  Goroutines,  \* goroutines that change the alert, alive at the same time
  None         \* no row in that minute

ASSUME PeriodAssumption == Mins \subseteq Nat \ {0}
ASSUME ShareAssumption == Share \in Nat \ {0}
ASSUME ValueAssumption == Values \subseteq Nat /\ Threshold \in Nat

\* A 1m row: the usage of each filesystem.
Samples == [Filesystems -> Values]

ASSUME SampleAssumption == None \notin Samples

VARIABLES
  min,        \* Min of the alert
  window,     \* window[i]: the 1m row stored i minutes ago; the query looks 90 s beyond the period
  triggered,  \* column of the alert row
  cached,     \* the same in alertsCache
  run,        \* the goroutines of sendSystemAlert
  inLine      \* row and cache were brought in line, and nothing overlapped since (history)

vars == <<min, window, triggered, cached, run, inLine>>

\* "save", "hook": the goroutine is to save the alert, its hook to update the cache.
\* alone: nothing else was at work since it began (history).
RunType == [pc : {"off", "save", "hook"}, to : BOOLEAN, alone : BOOLEAN]

\* The variables stay in their ranges.
TypeOK ==
  /\ min \in Mins
  /\ window \in [0 .. min + 1 -> Samples \cup {None}]
  /\ triggered \in BOOLEAN /\ cached \in BOOLEAN /\ inLine \in BOOLEAN
  /\ run \in [Goroutines -> RunType]

Off == [pc |-> "off", to |-> FALSE, alone |-> FALSE]
Quiet == \A g \in Goroutines : run[g].pc = "off"

Init ==
  /\ min \in Mins
  /\ window = [i \in 0 .. min + 1 |-> None]
  /\ triggered = FALSE /\ cached = FALSE /\ inLine = TRUE
  /\ run = [g \in Goroutines |-> Off]

----------------------------------------------------------------------------
(* HandleSystemAlerts.  W: the window with the row just stored.  edge: the   *)
(* row stored min minutes ago is in the period still.  wide: the query finds *)
(* a row older than the period besides, because it is that row already or    *)
(* because it reaches back further for another alert.                        *)

\* The rows the average is taken over.
Period(W, edge) == {i \in 0 .. min : W[i] # None /\ (i < min \/ edge)}

\* A row is older than the period: the period is covered.
Covered(W, wide) == wide \/ W[min + 1] # None

\* The current value is the greatest of the filesystems' in this row.
Now(W) == \E f \in Filesystems : W[0][f] > Threshold

\* The average is that of the filesystem with the largest sum.
Above(W, edge) ==
  LET S == Period(W, edge) IN
  \E f \in Filesystems : MapThenSumSet(LAMBDA i : W[i][f], S) > Threshold * Cardinality(S)

\* Mutant: the average is compared the same way to raise and to clear.
OutcomeAbove(W, edge, wide) ==
  LET now == Now(W) IN
  IF \/ now = cached
     \/ min > 1 /\ \/ ~Covered(W, wide)
                   \/ Share * Cardinality(Period(W, edge)) < (Share - 1) * min
                   \/ ~Above(W, edge)
  THEN cached ELSE now

\* What the alert turns into: the current value calls for a change and, for a period of
\* more than a minute, so does the average of enough rows.
Outcome(W, edge, wide) ==
  LET now == Now(W) IN
  IF \/ now = cached
     \/ min > 1 /\ \/ ~Covered(W, wide)
                   \/ Share * Cardinality(Period(W, edge)) < (Share - 1) * min
                   \/ Above(W, edge) # now
  THEN cached ELSE now

\* Goroutine g begins with r; whatever else is at work is not alone any more.
Begin(g, r) ==
  /\ run[g].pc = "off"
  /\ run' = [h \in Goroutines |-> IF h = g THEN [r EXCEPT !.alone = Quiet]
                                ELSE [run[h] EXCEPT !.alone = FALSE]]
  /\ inLine' = (inLine /\ Quiet)

\* A change starts a goroutine.
Start(W, edge, wide) ==
  LET to == Outcome(W, edge, wide) IN
  IF to = cached THEN UNCHANGED <<run, inLine>>
  ELSE \E g \in Goroutines : Begin(g, [pc |-> "save", to |-> to, alone |-> TRUE])

\* A minute passes: the row is stored and the alert evaluated, or there is none.
Shift(v) == [i \in 0 .. min + 1 |-> IF i = 0 THEN v ELSE window[i - 1]]

Update(v, edge, wide) ==
  /\ window' = Shift(v)
  /\ Start(Shift(v), edge, wide)
  /\ UNCHANGED <<min, triggered, cached>>

\* The row is stored, but the rows of the period cannot be read, or one does not decode.
UpdateErr(v) ==
  /\ min > 1
  /\ window' = Shift(v)
  /\ UNCHANGED <<min, triggered, cached, run, inLine>>

Miss ==
  /\ window' = Shift(None)
  /\ UNCHANGED <<min, triggered, cached, run, inLine>>

\* The row is saved once more in the same minute (an edit, an additional update).
Reevaluate(edge, wide) ==
  /\ window[0] # None
  /\ Start(window, edge, wide)
  /\ UNCHANGED <<min, window, triggered, cached>>

----------------------------------------------------------------------------
(* sendSystemAlert.                                                          *)

Save(g) ==
  /\ run[g].pc = "save"
  /\ triggered' = run[g].to
  /\ run' = [run EXCEPT ![g].pc = "hook"]
  /\ UNCHANGED <<min, window, cached, inLine>>

\* setAlertTriggered fails: nothing is sent.
SaveErr(g) ==
  /\ run[g].pc = "save"
  /\ run' = [run EXCEPT ![g] = Off]
  /\ UNCHANGED <<min, window, triggered, cached, inLine>>

\* Mutant: the cache is only told of alerts that are raised.
HookRaised(g) ==
  /\ run[g].pc = "hook"
  /\ cached' = (cached \/ run[g].to)
  /\ run' = [run EXCEPT ![g] = Off]
  /\ inLine' = (inLine \/ run[g].alone)
  /\ UNCHANGED <<min, window, triggered>>

\* The listener of the save.
Hook(g) ==
  /\ run[g].pc = "hook"
  /\ cached' = run[g].to
  /\ run' = [run EXCEPT ![g] = Off]
  /\ inLine' = (inLine \/ run[g].alone)
  /\ UNCHANGED <<min, window, triggered>>

----------------------------------------------------------------------------
\* The system is paused for a while: deactivateAlerts clears an alert that is triggered.
Pause ==
  /\ window' = Shift(None)
  /\ triggered' = FALSE
  /\ IF triggered
     THEN \E g \in Goroutines : Begin(g, [pc |-> "hook", to |-> FALSE, alone |-> TRUE])
     ELSE UNCHANGED <<run, inLine>>
  /\ UNCHANGED <<min, cached>>

\* Mutant: the cache is not filled when the hub starts.
RestartEmpty ==
  /\ run' = [g \in Goroutines |-> Off]
  /\ cached' = None
  /\ inLine' = TRUE
  /\ UNCHANGED <<min, window, triggered>>

\* The hub restarts: goroutines are lost, PopulateFromDB fills the cache.
Restart ==
  /\ run' = [g \in Goroutines |-> Off]
  /\ cached' = triggered
  /\ inLine' = TRUE
  /\ UNCHANGED <<min, window, triggered>>

SomeUpdate == \E v \in Samples, edge, wide \in BOOLEAN : Update(v, edge, wide)

Next ==
  \/ SomeUpdate
  \/ \E v \in Samples : UpdateErr(v)
  \/ Miss
  \/ Pause
  \/ Restart
  \/ \E edge, wide \in BOOLEAN : Reevaluate(edge, wide)
  \/ \E g \in Goroutines : Save(g) \/ SaveErr(g) \/ Hook(g)

\* Updates go on, goroutines run, and the database neither refuses a save for ever nor
\* fails in every minute in which the period is covered.
Fairness ==
  /\ WF_vars(SomeUpdate) /\ SF_vars(SomeUpdate /\ window[min] # None)
  /\ \A g \in Goroutines : /\ WF_vars(Save(g) \/ SaveErr(g)) /\ SF_vars(Save(g))
                           /\ WF_vars(Hook(g))

Spec == Init /\ [][Next]_vars /\ Fairness

----------------------------------------------------------------------------
\* However changes have overlapped, the next change that is alone, or a restart, brings
\* row and cache in line, and they stay so until changes overlap again.
InStep == Quiet /\ inLine => triggered = cached

\* Enough minutes of the period have their row.
Enough == Share * Cardinality({i \in 0 .. min - 1 : window[i] # None}) >= (Share - 1) * min
\* The filesystem is above the threshold in every row; all of them are below.
High(f) == Enough /\ \A i \in 0 .. min + 1 : window[i] # None => window[i][f] > Threshold
Low == Enough /\ \A i \in 0 .. min + 1, f \in Filesystems :
                   window[i] # None => window[i][f] <= Threshold

\* A filesystem that stays above the threshold raises the alert, and when all stay below
\* it is cleared, with one row in Share missing and whatever overlapped before; unless
\* the system is paused, so that the alert is cleared, again and again.
Settles ==
  /\ \A f \in Filesystems :
       (<>[]High(f)) => (<>[]cached) \/ []<><<Pause /\ triggered>>_vars
  /\ (<>[]Low) => <>[]~cached
=============================================================================

-------------------------- MODULE Statistics_proof --------------------------
(* Threshold alerts (SystemAlerts): for any periods, values and threshold,   *)
(* and any number of goroutines that carry out changes, the alert row and    *)
(* the cache agree after every change that was alone, whatever overlapped    *)
(* before it.                                                                *)
(* Roll-up and retention (Records): for any number of levels and any periods *)
(* that fit the job, a system without interruption has a row of every type,  *)
(* no row falls between two periods, and longer rows are true.               *)
EXTENDS SystemAlerts, Records, FiniteSetTheorems, TLAPS

\* A goroutine that began when nothing was at work, and has stayed alone.
Lone(g) == run[g].pc # "off" /\ run[g].alone

\* It is the only one, and nothing but its own save has touched the row.
LoneInv(g) ==
  Lone(g) => /\ \A h \in Goroutines : h # g => run[h].pc = "off"
             /\ run[g].pc = "hook" => triggered = run[g].to

\* While row and cache count as in line, whoever is at work is alone and started from that.
LineInv(g) ==
  inLine /\ run[g].pc # "off" => /\ run[g].alone
                                 /\ run[g].pc = "save" => triggered = cached

\* The inductive invariant.
ChangeInv ==
  /\ TypeOK
  /\ \A g \in Goroutines : LoneInv(g) /\ LineInv(g)
  /\ InStep

LEMMA ShiftTypes ==
  ASSUME TypeOK, NEW v \in Samples \cup {None}
  PROVE  Shift(v) \in [0 .. min + 1 -> Samples \cup {None}] /\ Shift(v)[0] = v
<1>1. \A i \in 0 .. min + 1 : i # 0 => i - 1 \in 0 .. min + 1
  BY PeriodAssumption DEF TypeOK
<1>2. min + 1 \in Nat
  BY PeriodAssumption DEF TypeOK
<1>3. QED
  BY <1>1, <1>2 DEF TypeOK, Shift

\* A change is one: the other value of the alert.
LEMMA OutcomeTypes ==
  ASSUME TypeOK, NEW W, NEW edge, NEW wide
  PROVE  Outcome(W, edge, wide) \in BOOLEAN
<1>1. Now(W) \in BOOLEAN
  BY DEF Now
<1>2. QED
  BY <1>1, Zenon DEF TypeOK, Outcome

----------------------------------------------------------------------------
LEMMA InitChangeInv == Init => ChangeInv
<1> SUFFICES ASSUME Init PROVE ChangeInv
  OBVIOUS
<1>1. TypeOK
  BY DEF Init, TypeOK, RunType, Off
<1>2. QED
  BY <1>1 DEF Init, ChangeInv, Lone, LoneInv, LineInv, InStep, Off

\* A goroutine begins: it is alone if nothing is at work, and otherwise nobody is.
LEMMA BeginChangeInv ==
  ASSUME ChangeInv, NEW g \in Goroutines, NEW r \in RunType, Begin(g, r), r.pc # "off",
         min' = min, cached' = cached, triggered' \in BOOLEAN,
         window' \in [0 .. min + 1 -> Samples \cup {None}],
         r.pc = "hook" => triggered' = r.to,
         r.pc = "save" => triggered' = triggered
  PROVE  ChangeInv'
<1>0. TypeOK
  BY DEF ChangeInv
<1> DEFINE R == [r EXCEPT !.alone = Quiet]
<1>1. Quiet \in BOOLEAN
  BY DEF Quiet
<1>2. R \in RunType /\ R.pc = r.pc /\ R.to = r.to /\ R.alone = Quiet
  BY <1>1 DEF RunType
<1>3. run'[g] = R /\ \A h \in Goroutines : h # g => run'[h] = [run[h] EXCEPT !.alone = FALSE]
  BY DEF Begin
<1>4. \A h \in Goroutines : h # g => /\ run'[h] \in RunType /\ ~run'[h].alone
                                     /\ run'[h].pc = run[h].pc
  <2> SUFFICES ASSUME NEW h \in Goroutines, h # g
               PROVE  run'[h] \in RunType /\ ~run'[h].alone /\ run'[h].pc = run[h].pc
    OBVIOUS
  <2>1. run[h] \in RunType
    BY <1>0 DEF TypeOK
  <2>2. run'[h] = [run[h] EXCEPT !.alone = FALSE]
    BY <1>3
  <2>3. QED
    BY <2>1, <2>2 DEF RunType
<1>5. run' \in [Goroutines -> RunType]
  <2>1. DOMAIN run' = Goroutines /\ run' = [h \in Goroutines |-> run'[h]]
    BY DEF Begin
  <2>2. \A h \in Goroutines : run'[h] \in RunType
    BY <1>2, <1>3, <1>4
  <2>3. QED
    BY <2>1, <2>2
<1>6. inLine' = (inLine /\ Quiet)
  BY DEF Begin
<1>7. TypeOK'
  BY <1>0, <1>5, <1>6 DEF TypeOK
<1>8. ASSUME NEW h \in Goroutines PROVE LoneInv(h)' /\ LineInv(h)'
  <2>1. CASE h = g
    <3>1. Lone(h)' => \A i \in Goroutines : i # h => run'[i].pc = "off"
      BY <1>2, <1>3, <1>4, <2>1 DEF Lone, Quiet
    <3>2. LoneInv(h)'
      BY <1>2, <1>3, <2>1, <3>1 DEF LoneInv
    <3>3. inLine' => run'[h].alone /\ (r.pc = "save" => triggered' = cached')
      BY <1>2, <1>3, <1>6, <2>1 DEF ChangeInv, InStep
    <3>4. LineInv(h)'
      BY <1>2, <1>3, <2>1, <3>3 DEF LineInv
    <3>5. QED
      BY <3>2, <3>4
  <2>2. CASE h # g
    <3>1. ~Lone(h)'
      BY <1>4, <2>2 DEF Lone
    <3>2. inLine' => run'[h].pc = "off"
      BY <1>4, <1>6, <2>2 DEF Quiet
    <3>3. QED
      BY <3>1, <3>2 DEF LoneInv, LineInv
  <2>3. QED
    BY <2>1, <2>2
<1>9. InStep'
  BY <1>2, <1>3 DEF InStep, Quiet
<1>10. QED
  BY <1>7, <1>8, <1>9 DEF ChangeInv

\* Nothing but the rows changes.
LEMMA RowsChangeInv ==
  ASSUME ChangeInv, UNCHANGED <<min, triggered, cached, run, inLine>>,
         window' \in [0 .. min + 1 -> Samples \cup {None}]
  PROVE  ChangeInv'
<1>1. TypeOK'
  BY DEF ChangeInv, TypeOK
<1>2. QED
  BY <1>1 DEF ChangeInv, Lone, LoneInv, LineInv, InStep, Quiet

\* Evaluating the alert starts one goroutine at most.
LEMMA StartChangeInv ==
  ASSUME ChangeInv, NEW W, NEW edge, NEW wide, Start(W, edge, wide),
         UNCHANGED <<min, triggered, cached>>,
         window' \in [0 .. min + 1 -> Samples \cup {None}]
  PROVE  ChangeInv'
<1>0. TypeOK
  BY DEF ChangeInv
<1> DEFINE to == Outcome(W, edge, wide)
           r == [pc |-> "save", to |-> to, alone |-> TRUE]
<1>1. CASE to = cached
  BY <1>1, RowsChangeInv DEF Start
<1>2. CASE to # cached
  <2>1. PICK g \in Goroutines : Begin(g, r)
    BY <1>2 DEF Start
  <2>2. to \in BOOLEAN
    BY <1>0, OutcomeTypes
  <2>3. r \in RunType
    BY <2>2 DEF RunType
  <2>4. triggered' \in BOOLEAN
    BY <1>0 DEF TypeOK
  <2>5. QED
    BY <2>1, <2>3, <2>4, BeginChangeInv
<1>3. QED
  BY <1>1, <1>2

LEMMA UpdateChangeInv ==
  ASSUME ChangeInv, NEW v \in Samples, NEW edge, NEW wide, Update(v, edge, wide)
  PROVE  ChangeInv'
<1>1. Shift(v) \in [0 .. min + 1 -> Samples \cup {None}]
  BY ShiftTypes DEF ChangeInv
<1>2. QED
  BY <1>1, StartChangeInv DEF Update

LEMMA ReevaluateChangeInv ==
  ASSUME ChangeInv, NEW edge, NEW wide, Reevaluate(edge, wide)
  PROVE  ChangeInv'
<1>1. window' \in [0 .. min + 1 -> Samples \cup {None}]
  BY DEF ChangeInv, TypeOK, Reevaluate
<1>2. QED
  BY <1>1, StartChangeInv DEF Reevaluate

LEMMA MissChangeInv ==
  ASSUME ChangeInv, Miss \/ \E v \in Samples : UpdateErr(v)
  PROVE  ChangeInv'
<1>1. \E v \in Samples \cup {None} : window' = Shift(v)
  BY DEF Miss, UpdateErr
<1>2. window' \in [0 .. min + 1 -> Samples \cup {None}]
  BY <1>1, ShiftTypes DEF ChangeInv
<1>3. UNCHANGED <<min, triggered, cached, run, inLine>>
  BY DEF Miss, UpdateErr
<1>4. QED
  BY <1>2, <1>3, RowsChangeInv

LEMMA PauseChangeInv == ChangeInv /\ Pause => ChangeInv'
<1> SUFFICES ASSUME ChangeInv, Pause PROVE ChangeInv'
  OBVIOUS
<1> DEFINE r == [pc |-> "hook", to |-> FALSE, alone |-> TRUE]
<1>1. window' \in [0 .. min + 1 -> Samples \cup {None}]
  BY ShiftTypes DEF ChangeInv, Pause
<1>2. CASE triggered
  <2>1. PICK g \in Goroutines : Begin(g, r)
    BY <1>2 DEF Pause
  <2>2. r \in RunType
    BY DEF RunType
  <2>3. min' = min /\ cached' = cached /\ triggered' = FALSE
    BY DEF Pause
  <2>4. QED
    BY <1>1, <2>1, <2>2, <2>3, BeginChangeInv
<1>3. CASE ~triggered
  <2>1. UNCHANGED <<min, triggered, cached, run, inLine>>
    BY <1>3 DEF Pause, ChangeInv, TypeOK
  <2>2. QED
    BY <1>1, <2>1, RowsChangeInv
<1>4. QED
  BY <1>2, <1>3

LEMMA RestartChangeInv == ChangeInv /\ Restart => ChangeInv'
<1> SUFFICES ASSUME ChangeInv, Restart PROVE ChangeInv'
  OBVIOUS
<1>1. /\ run' = [g \in Goroutines |-> Off] /\ inLine' = TRUE /\ cached' = triggered
      /\ UNCHANGED <<min, window, triggered>>
  BY DEF Restart
<1>2. run' \in [Goroutines -> RunType]
  BY <1>1 DEF RunType, Off
<1>3. TypeOK'
  BY <1>1, <1>2 DEF ChangeInv, TypeOK
<1>4. \A g \in Goroutines : run'[g].pc = "off"
  BY <1>1 DEF Off
<1>5. QED
  BY <1>1, <1>3, <1>4 DEF ChangeInv, Lone, LoneInv, LineInv, InStep

----------------------------------------------------------------------------
(* sendSystemAlert.                                                          *)

\* A goroutine that goes on leaves the others where they are.
LEMMA GoroutineChangeInv ==
  ASSUME ChangeInv, NEW g \in Goroutines, Save(g) \/ SaveErr(g) \/ Hook(g)
  PROVE  ChangeInv'
<1>0. TypeOK /\ run[g] \in RunType /\ LoneInv(g) /\ LineInv(g)
  BY DEF ChangeInv, TypeOK
<1>1. \A h \in Goroutines : h # g => run'[h] = run[h]
  BY <1>0 DEF TypeOK, Save, SaveErr, Hook
<1>2. /\ run' \in [Goroutines -> RunType] /\ UNCHANGED <<min, window>>
      /\ triggered' \in BOOLEAN /\ cached' \in BOOLEAN /\ inLine' \in BOOLEAN
  <2>1. CASE Save(g)
    BY <1>0, <2>1 DEF TypeOK, RunType, Save
  <2>2. CASE SaveErr(g)
    BY <1>0, <2>2 DEF TypeOK, RunType, Off, SaveErr
  <2>3. CASE Hook(g)
    BY <1>0, <2>3 DEF TypeOK, RunType, Off, Hook
  <2>4. QED
    BY <2>1, <2>2, <2>3
<1>3. TypeOK'
  BY <1>0, <1>2 DEF TypeOK
<1>4. run[g].pc # "off"
  BY <1>0 DEF Save, SaveErr, Hook
\* Nobody else is alone, and a change counts as in line only if nobody else is at work.
<1>5. ASSUME NEW h \in Goroutines, h # g PROVE ~Lone(h)' /\ (inLine' => run'[h].pc = "off")
  <2>1. ~Lone(h)
    BY <1>4, <1>5 DEF ChangeInv, LoneInv
  <2>2. inLine => run[h].pc = "off"
    BY <2>1 DEF ChangeInv, LineInv, Lone
  <2>3. inLine' => inLine \/ Lone(g)
    BY <1>0, <1>4, Zenon DEF TypeOK, Save, SaveErr, Hook, Lone
  <2>4. Lone(g) => run[h].pc = "off"
    BY <1>0, <1>5 DEF LoneInv
  <2>5. QED
    BY <1>1, <1>5, <2>1, <2>2, <2>3, <2>4 DEF Lone
<1>6. LoneInv(g)' /\ LineInv(g)' /\ (inLine' /\ run'[g].pc = "off" => triggered' = cached')
  <2>1. CASE Save(g)
    <3>1. /\ run'[g] = [run[g] EXCEPT !.pc = "hook"] /\ triggered' = run[g].to
          /\ UNCHANGED <<cached, inLine>>
      BY <1>0, <2>1 DEF TypeOK, Save
    <3>2. run'[g].pc = "hook" /\ run'[g].to = run[g].to /\ run'[g].alone = run[g].alone
      BY <1>0, <3>1 DEF RunType
    <3>3. LoneInv(g)'
      BY <1>0, <1>1, <1>4, <3>1, <3>2 DEF LoneInv, Lone
    <3>4. QED
      BY <1>0, <1>4, <3>1, <3>2, <3>3 DEF LineInv
  <2>2. CASE SaveErr(g)
    <3>1. run[g].pc = "save" /\ run'[g].pc = "off" /\ UNCHANGED <<triggered, cached, inLine>>
      BY <1>0, <2>2 DEF TypeOK, SaveErr, Off
    <3>2. QED
      BY <1>0, <3>1 DEF LoneInv, LineInv, Lone
  <2>3. CASE Hook(g)
    <3>1. /\ run[g].pc = "hook" /\ run'[g].pc = "off" /\ cached' = run[g].to
          /\ inLine' = (inLine \/ run[g].alone) /\ triggered' = triggered
      BY <1>0, <2>3 DEF TypeOK, Hook, Off
    <3>2. inLine' => Lone(g)
      BY <1>0, <1>4, <3>1, Zenon DEF LineInv, Lone
    <3>3. inLine' => triggered = run[g].to
      BY <1>0, <3>1, <3>2 DEF LoneInv
    <3>4. QED
      BY <3>1, <3>3 DEF LoneInv, LineInv, Lone
  <2>4. QED
    BY <2>1, <2>2, <2>3
<1>7. \A h \in Goroutines : LoneInv(h)' /\ LineInv(h)'
  BY <1>5, <1>6 DEF LoneInv, LineInv
<1>8. InStep'
  BY <1>6 DEF InStep, Quiet
<1>9. QED
  BY <1>3, <1>7, <1>8 DEF ChangeInv

----------------------------------------------------------------------------
LEMMA NextChangeInv == ChangeInv /\ [Next]_vars => ChangeInv'
<1> SUFFICES ASSUME ChangeInv, [Next]_vars PROVE ChangeInv'
  OBVIOUS
<1>1. CASE SomeUpdate
  BY <1>1, UpdateChangeInv DEF SomeUpdate
<1>2. CASE Miss \/ \E v \in Samples : UpdateErr(v)
  BY <1>2, MissChangeInv
<1>3. CASE Pause
  BY <1>3, PauseChangeInv
<1>4. CASE Restart
  BY <1>4, RestartChangeInv
<1>5. CASE \E edge, wide \in BOOLEAN : Reevaluate(edge, wide)
  BY <1>5, ReevaluateChangeInv
<1>6. CASE \E g \in Goroutines : Save(g) \/ SaveErr(g) \/ Hook(g)
  BY <1>6, GoroutineChangeInv
<1>7. CASE UNCHANGED vars
  <2>1. window' \in [0 .. min + 1 -> Samples \cup {None}]
    BY <1>7 DEF vars, ChangeInv, TypeOK
  <2>2. QED
    BY <1>7, <2>1, RowsChangeInv DEF vars
<1>8. QED
  BY <1>1, <1>2, <1>3, <1>4, <1>5, <1>6, <1>7 DEF Next

\* The rows of the period, the alert and its goroutines stay in their ranges.
THEOREM TypeCorrect == Spec => []TypeOK
<1>1. ChangeInv => TypeOK
  BY DEF ChangeInv
<1>2. QED
  BY <1>1, InitChangeInv, NextChangeInv, PTL DEF Spec

\* However changes of HandleSystemAlerts and pauses have overlapped, the next one that is
\* alone, or a restart, brings the alert row and the cache in line, and they are in line
\* whenever nothing is at work until changes overlap again.
THEOREM ChangesInStep == Spec => []InStep
<1>1. ChangeInv => InStep
  BY DEF ChangeInv
<1>2. QED
  BY <1>1, InitChangeInv, NextChangeInv, PTL DEF Spec

----------------------------------------------------------------------------
(* Induction, from the well-ordering of the numbers.                         *)

LEMMA Least ==
  ASSUME NEW T, T \subseteq Nat, T # {}
  PROVE  \E n \in T : \A m \in T : n <= m
<1> DEFINE R == {ss \in Nat \X Nat : ss[1] < ss[2]}
<1>1. IsWellFoundedOn(R, Nat)
  BY NatLessThanWellFounded DEF OpToRel
<1>2. \E n \in T : \A m \in T : ~ (<<m, n>> \in R)
  <2> HIDE DEF R
  <2> QED BY <1>1, WFMin
<1>3. \A m, n \in Nat : <<m, n>> \notin R => n <= m
  OBVIOUS
<1>4. QED
  BY <1>2, <1>3

LEMMA NatSet ==
  ASSUME NEW T, 0 \in T, \A n \in Nat : n \in T => n + 1 \in T
  PROVE  Nat \subseteq T
<1> SUFFICES ASSUME Nat \ T # {} PROVE FALSE
  OBVIOUS
<1>1. PICK n \in Nat \ T : \A m \in Nat \ T : n <= m
  BY Least
<1>2. n # 0 /\ n - 1 \in Nat
  BY <1>1
<1>3. n - 1 \in T
  BY <1>1, <1>2
<1>4. QED
  BY <1>1, <1>2, <1>3

LEMMA TypesSet ==
  ASSUME NEW T, 0 \in T, \A k \in Levels : k - 1 \in T => k \in T
  PROVE  Types \subseteq T
<1> DEFINE U == {n \in Nat : n \in Types => n \in T}
<1>1. 0 \in U
  OBVIOUS
<1>2. ASSUME NEW n \in Nat, n \in U PROVE n + 1 \in U
  BY <1>2, SizesAssumption DEF Types, Levels
<1>3. Nat \subseteq U
  <2> HIDE DEF U
  <2> QED BY <1>1, <1>2, NatSet
<1>4. QED
  BY <1>3, SizesAssumption DEF Types

LEMMA LevelFacts ==
  /\ Top \in Types /\ 0 \in Types
  /\ \A k \in Types : k \in Nat /\ k <= Top /\ (k # 0 => k \in Levels) /\ (k # Top => k + 1 \in Levels)
  /\ \A k \in Levels : k \in Types /\ k - 1 \in Types /\ k # 0 /\ k \in Nat
  BY SizesAssumption DEF Types, Levels

LEMMA Sizes ==
  /\ RunEvery \in Nat /\ RunEvery > 0 /\ CleanEvery \in Nat /\ Readings \subseteq Nat
  /\ \A k \in Levels : /\ Duration[k] \in Nat /\ MinShorter[k] \in Nat /\ MinShorter[k] > 0
                       /\ Retention[k - 1] > Duration[k] /\ Retention[k] > Duration[k]
  /\ \A k \in Types : Retention[k] \in Nat /\ MaxAge(k) \in Nat
  BY SizesAssumption, RetentionAssumption DEF MaxAge

----------------------------------------------------------------------------
(* Multiples of the time between two runs.                                   *)

Multiples == {n * RunEvery : n \in Nat}

LEMMA MultipleFacts ==
  ASSUME NEW x \in Multiples
  PROVE  /\ x \in Nat
         /\ x + RunEvery \in Multiples
         /\ x # 0 => x >= RunEvery /\ x - RunEvery \in Multiples
<1>1. PICK n \in Nat : x = n * RunEvery
  BY DEF Multiples
<1>2. x \in Nat
  BY <1>1, Sizes
<1>3. x + RunEvery = (n + 1) * RunEvery
  BY <1>1, Sizes
<1>4. ASSUME x # 0 PROVE x >= RunEvery /\ x - RunEvery \in Multiples
  <2>1. n - 1 \in Nat
    BY <1>1, <1>4, Sizes
  <2>2. x - RunEvery = (n - 1) * RunEvery
    BY <1>1, Sizes
  <2>3. x - RunEvery >= 0
    BY <2>1, <2>2, Sizes
  <2>4. QED
    BY <1>2, <2>1, <2>2, <2>3, Sizes DEF Multiples
<1>5. x + RunEvery \in Multiples
  BY <1>3 DEF Multiples
<1>6. QED
  BY <1>2, <1>4, <1>5

LEMMA MultipleGap ==
  ASSUME NEW x \in Multiples, NEW y \in Multiples, x < y
  PROVE  x + RunEvery <= y
<1>1. PICK m \in Nat, n \in Nat : x = m * RunEvery /\ y = n * RunEvery
  BY DEF Multiples
<1>2. m < n
  <2> SUFFICES ASSUME n <= m PROVE FALSE
    BY <1>1
  <2>1. n * RunEvery <= m * RunEvery
    BY <1>1, Sizes
  <2>2. QED
    BY <1>1, <2>1, Sizes
<1>3. (m + 1) * RunEvery <= n * RunEvery
  BY <1>2, Sizes
<1>4. QED
  BY <1>1, <1>3, Sizes

LEMMA MultipleTimes ==
  ASSUME NEW x \in Multiples, NEW i \in Nat
  PROVE  i * x \in Multiples
<1>1. PICK n \in Nat : x = n * RunEvery
  BY DEF Multiples
<1>2. i * x = (i * n) * RunEvery
  BY <1>1, Sizes
<1>3. i * n \in Nat
  OBVIOUS
<1>4. QED
  BY <1>2, <1>3 DEF Multiples

LEMMA SmallMultiple == 0 \in Multiples /\ RunEvery \in Multiples
<1>1. 0 = 0 * RunEvery /\ RunEvery = 1 * RunEvery
  BY Sizes
<1>2. QED
  BY <1>1 DEF Multiples

\* Periods are multiples of it.
LEMMA Rhythm ==
  ASSUME NEW k \in Levels
  PROVE  Duration[k] \in Multiples /\ Duration[k] >= RunEvery
<1>1. PICK n \in 1 .. Duration[k] : Duration[k] = n * RunEvery
  BY RhythmAssumption
<1>2. n \in Nat /\ n # 0
  BY <1>1, Sizes
<1>3. Duration[k] \in Multiples
  BY <1>1, <1>2 DEF Multiples
<1>4. Duration[k] # 0
  BY <1>1, <1>2, Sizes
<1>5. QED
  BY <1>3, <1>4, MultipleFacts

----------------------------------------------------------------------------
(* FilledBy.                                                                 *)

LEMMA FilledByDef == FilledBy = [k \in Types |-> IF k = 0 THEN RunEvery ELSE FilledBy[k - 1] + Duration[k]]
<1> DEFINE F(n, f) == f = [k \in 0 .. n |-> IF k = 0 THEN RunEvery ELSE f[k - 1] + Duration[k]]
           T == {n \in Nat : \E f : F(n, f)}
<1>1. 0 \in T
  <2>1. F(0, [k \in 0 .. 0 |-> RunEvery])
    OBVIOUS
  <2>2. QED
    BY <2>1
<1>2. ASSUME NEW n \in Nat, n \in T PROVE n + 1 \in T
  <2>1. PICK f : F(n, f)
    BY <1>2
  <2>2. F(n + 1, [k \in 0 .. n + 1 |-> IF k <= n THEN f[k] ELSE f[n] + Duration[n + 1]])
    BY <2>1
  <2>3. \E g : F(n + 1, g)
    <3> HIDE DEF F
    <3> QED BY <2>2
  <2>4. QED
    BY <2>3
<1>3. Top \in T
  <2> HIDE DEF T
  <2> QED BY <1>1, <1>2, NatSet, SizesAssumption
<1>4. PICK f : F(Top, f)
  BY <1>3
<1>5. QED
  BY <1>4 DEF FilledBy, Types

LEMMA FilledFacts ==
  /\ FilledBy[0] = RunEvery
  /\ \A k \in Levels : FilledBy[k] = FilledBy[k - 1] + Duration[k]
  /\ \A k \in Types : FilledBy[k] \in Nat /\ FilledBy[k] >= RunEvery
  /\ \A k \in Types : FilledBy[k] <= Filled
<1>1. /\ FilledBy[0] = RunEvery
      /\ \A k \in Levels : FilledBy[k] = FilledBy[k - 1] + Duration[k]
  BY FilledByDef, LevelFacts
<1>2. ASSUME NEW k \in Types PROVE FilledBy[k] \in Nat /\ FilledBy[k] >= RunEvery
  <2> DEFINE T == {j \in Types : FilledBy[j] \in Nat /\ FilledBy[j] >= RunEvery}
  <2>1. 0 \in T
    BY <1>1, LevelFacts, Sizes
  <2>2. ASSUME NEW j \in Levels, j - 1 \in T PROVE j \in T
    BY <1>1, <2>2, LevelFacts, Sizes
  <2>3. Types \subseteq T
    <3> HIDE DEF T
    <3> QED BY <2>1, <2>2, TypesSet
  <2>4. QED
    BY <2>3
<1>3. ASSUME NEW k \in Types PROVE FilledBy[k] <= Filled
  <2> DEFINE T == {j \in Types : \A i \in Types : i <= j => FilledBy[i] <= FilledBy[j]}
  <2>1. 0 \in T
    BY <1>2, LevelFacts
  <2>2. ASSUME NEW j \in Levels, j - 1 \in T PROVE j \in T
    <3> SUFFICES ASSUME NEW i \in Types, i <= j PROVE FilledBy[i] <= FilledBy[j]
      BY LevelFacts
    <3>1. j - 1 \in Types /\ i \in Nat /\ j \in Nat
      BY LevelFacts
    <3>2. FilledBy[j - 1] \in Nat /\ FilledBy[i] \in Nat
      BY <1>2, <3>1
    <3>3. FilledBy[j] = FilledBy[j - 1] + Duration[j] /\ Duration[j] \in Nat
      BY <1>1, Sizes
    <3>4. CASE i = j
      BY <3>2, <3>4
    <3>5. CASE i # j
      <4>1. i <= j - 1
        BY <3>1, <3>5
      <4>2. FilledBy[i] <= FilledBy[j - 1]
        BY <2>2, <4>1
      <4>3. QED
        BY <3>2, <3>3, <4>2
    <3>6. QED
      BY <3>4, <3>5
  <2>3. Types \subseteq T
    <3> HIDE DEF T
    <3> QED BY <2>1, <2>2, TypesSet
  <2>4. QED
    BY <2>3, LevelFacts DEF Filled
<1>4. QED
  BY <1>1, <1>2, <1>3

----------------------------------------------------------------------------
(* Averages.                                                                 *)

Weight(r) == IF r.has THEN r.avg ELSE 0
Pick(s) == CHOOSE x \in s : TRUE

\* The sums over the subsets of S, as Accumulated computes them.
SumsOf(S, f) == f = [s \in SUBSET S |-> IF s = {} THEN 0 ELSE Weight(Pick(s)) + f[s \ {Pick(s)}]]

LEMMA AccumulatedDef == \A S : Accumulated(S) = (CHOOSE f : SumsOf(S, f))[S]
  BY DEF Accumulated, MapThenSumSet, MapThenFoldSet, SumsOf, Weight, Pick

LEMMA PickFacts ==
  ASSUME NEW S, IsFiniteSet(S), NEW s \in SUBSET S, s # {}
  PROVE  /\ Pick(s) \in s
         /\ s \ {Pick(s)} \in SUBSET S
         /\ Cardinality(s) \in Nat /\ Cardinality(s \ {Pick(s)}) = Cardinality(s) - 1
<1>1. Pick(s) \in s
  BY DEF Pick
<1>2. IsFiniteSet(s)
  BY FS_Subset
<1>3. QED
  BY <1>1, <1>2, FS_CardinalityType, FS_RemoveElement

LEMMA SumsExist ==
  ASSUME NEW S, IsFiniteSet(S)
  PROVE  \E f : SumsOf(S, f)
<1> DEFINE Small(n) == {s \in SUBSET S : Cardinality(s) <= n}
           F(n, f) == f = [s \in Small(n) |-> IF s = {} THEN 0 ELSE Weight(Pick(s)) + f[s \ {Pick(s)}]]
           T == {n \in Nat : \E f : F(n, f)}
<1>1. 0 \in T
  <2>1. Small(0) = {{}}
    <3>1. \A s \in SUBSET S : IsFiniteSet(s) /\ Cardinality(s) \in Nat
      BY FS_Subset, FS_CardinalityType
    <3>2. QED
      BY <3>1, FS_EmptySet
  <2>2. F(0, [s \in Small(0) |-> 0])
    BY <2>1
  <2>3. \E g : F(0, g)
    <3> HIDE DEF F
    <3> QED BY <2>2
  <2>4. QED
    BY <2>3
<1>2. ASSUME NEW n \in Nat, n \in T PROVE n + 1 \in T
  <2>1. PICK f : F(n, f)
    BY <1>2
  <2> DEFINE g == [s \in Small(n + 1) |-> IF s = {} THEN 0 ELSE Weight(Pick(s)) + f[s \ {Pick(s)}]]
  <2>2. ASSUME NEW s \in Small(n + 1), s # {} PROVE g[s \ {Pick(s)}] = f[s \ {Pick(s)}]
    <3>1. s \ {Pick(s)} \in Small(n)
      BY <2>2, PickFacts
    <3>2. s \ {Pick(s)} \in Small(n + 1)
      BY <2>2, PickFacts
    <3>3. QED
      BY <2>1, <3>1, <3>2
  <2>3. F(n + 1, g)
    BY <2>2, Zenon
  <2>4. \E h : F(n + 1, h)
    <3> HIDE DEF F, g
    <3> QED BY <2>3
  <2>5. QED
    <3> HIDE DEF F, g
    <3> QED BY <2>4
<1>3. Cardinality(S) \in Nat /\ Cardinality(S) \in T
  <2> HIDE DEF T
  <2> QED BY <1>1, <1>2, NatSet, FS_CardinalityType
<1>4. PICK f : F(Cardinality(S), f)
  BY <1>3
<1>5. Small(Cardinality(S)) = SUBSET S
  BY FS_Subset
<1>6. SumsOf(S, f)
  <2> HIDE DEF Small
  <2> QED BY <1>4, <1>5 DEF SumsOf
<1>7. QED
  BY <1>6

\* A sum is between the multiples of the bounds of its terms.
LEMMA SumBounds ==
  ASSUME NEW S, IsFiniteSet(S), NEW lo \in Nat, NEW hi \in Nat,
         \A r \in S : Weight(r) \in Nat /\ lo <= Weight(r) /\ Weight(r) <= hi
  PROVE  /\ Cardinality(S) \in Nat /\ Accumulated(S) \in Nat
         /\ Cardinality(S) * lo <= Accumulated(S) /\ Accumulated(S) <= Cardinality(S) * hi
<1> DEFINE f == CHOOSE g : SumsOf(S, g)
           Bounded(s, n) == f[s] \in Nat /\ n * lo <= f[s] /\ f[s] <= n * hi
           T == {n \in Nat : \A s \in SUBSET S : Cardinality(s) = n => Bounded(s, n)}
<1>1. /\ f[{}] = 0
      /\ \A s \in SUBSET S : s # {} => f[s] = Weight(Pick(s)) + f[s \ {Pick(s)}]
  <2>1. SumsOf(S, f)
    BY SumsExist
  <2>2. QED
    <3> HIDE DEF f
    <3> QED BY <2>1 DEF SumsOf
<1> HIDE DEF f
<1>2. \A s \in SUBSET S : IsFiniteSet(s) /\ Cardinality(s) \in Nat /\ (Cardinality(s) = 0 <=> s = {})
  BY FS_Subset, FS_CardinalityType, FS_EmptySet
<1>3. 0 \in T
  <2>1. 0 * lo = 0 /\ 0 * hi = 0
    OBVIOUS
  <2>2. \A s \in SUBSET S : Cardinality(s) = 0 => s = {}
    BY <1>2
  <2>3. QED
    BY <1>1, <2>1, <2>2
<1>4. ASSUME NEW n \in Nat, n \in T PROVE n + 1 \in T
  <2> SUFFICES ASSUME NEW s \in SUBSET S, Cardinality(s) = n + 1 PROVE Bounded(s, n + 1)
    OBVIOUS
  <2> DEFINE x == Pick(s)
             rest == s \ {Pick(s)}
  <2>1. s # {}
    BY <1>2
  <2>2. x \in S /\ rest \in SUBSET S /\ Cardinality(rest) = n
    BY <2>1, PickFacts
  <2>3. f[s] = Weight(x) + f[rest]
    BY <1>1, <2>1
  <2>4. f[rest] \in Nat /\ n * lo <= f[rest] /\ f[rest] <= n * hi
    BY <1>4, <2>2
  <2>5. Weight(x) \in Nat /\ lo <= Weight(x) /\ Weight(x) <= hi
    BY <2>2
  <2>6. (n + 1) * lo = n * lo + lo /\ (n + 1) * hi = n * hi + hi /\ n * lo \in Nat /\ n * hi \in Nat
    OBVIOUS
  <2> HIDE DEF x, rest
  <2>7. QED
    BY <2>3, <2>4, <2>5, <2>6
<1>5. Nat \subseteq T
  <2> HIDE DEF T
  <2> QED BY <1>3, <1>4, NatSet
<1>6. Bounded(S, Cardinality(S))
  BY <1>2, <1>5
<1>7. QED
  BY <1>2, <1>6, AccumulatedDef DEF f

\* A rounded average is between the bounds.
LEMMA AverageBounds ==
  ASSUME NEW sum \in Nat, NEW n \in Nat, n # 0, NEW lo \in Nat, NEW hi \in Nat,
         n * lo <= sum, sum <= n * hi
  PROVE  /\ twoDecimals(sum, n) \in Nat
         /\ lo <= twoDecimals(sum, n) /\ twoDecimals(sum, n) <= hi
<1> DEFINE q == (2 * sum + n) \div (2 * n)
           m == 2 * n
<1>1. m \in Nat /\ m > 0
  OBVIOUS
<1>2. q \in Int /\ m * q <= 2 * sum + n /\ 2 * sum + n < m * (q + 1)
  BY <1>1, Z3
<1> HIDE DEF q
<1>3. lo < q + 1
  <2> SUFFICES ASSUME q + 1 <= lo PROVE FALSE
    BY <1>2
  <2>1. m * (q + 1) <= m * lo
    BY <1>1, <1>2
  <2>2. m * lo <= 2 * sum
    OBVIOUS
  <2>3. QED
    BY <1>2, <2>1, <2>2
<1>4. q < hi + 1
  <2> SUFFICES ASSUME hi + 1 <= q PROVE FALSE
    BY <1>2
  <2>1. m * (hi + 1) <= m * q
    BY <1>1, <1>2
  <2>2. 2 * sum + n < m * (hi + 1)
    OBVIOUS
  <2>3. QED
    BY <1>2, <2>1, <2>2
<1>5. QED
  BY <1>2, <1>3, <1>4 DEF twoDecimals, q

----------------------------------------------------------------------------
(* What a run of the job does to the rows.                                   *)

IsRows(R) == R = [k \in Types |-> R[k]]

\* One row of an age.
OnePerAge(rs) == \A r, s \in rs : r.age = s.age => r = s

\* The rows among rs that the query of level k returns.
Recent(rs, k, e) == {r \in rs : r.age < Duration[k] \/ (e /\ r.age = Duration[k])}

Marking(rs, S) == {[r EXCEPT !.used = @ \/ r \in S] : r \in rs}

\* Level k has a row of its period.
HasRow(rs, k) == k > 1 /\ \E r \in rs : r.age < Duration[k] - 1

\* The job averages the rows of S into one of level k, whose rows are rs.
Makes(rs, S, k) == ~HasRow(rs, k) /\ ~(Cardinality(S) < MinShorter[k])

\* What level k makes of the rows R.
Rolled(R, S, k, new) ==
  /\ IsRows(new)
  /\ \A j \in Types : j # k /\ j # k - 1 => new[j] = R[j]
  /\ new[k] = IF Makes(R[k], S, k) THEN R[k] \cup {AverageSystemStatsSlice(S)} ELSE R[k]
  /\ new[k - 1] = IF Makes(R[k], S, k) THEN Marking(R[k - 1], S) ELSE R[k - 1]

LEMMA RollUpEffect ==
  ASSUME NEW k \in Levels, NEW e, NEW R, IsRows(R)
  PROVE  Rolled(R, Recent(R[k - 1], k, e), k, RollUp(R, k, e))
<1> DEFINE S == Shorter(R, k, e)
           made == Makes(R[k], S, k)
           A == AverageSystemStatsSlice(S)
           new == RollUp(R, k, e)
           M == Marking(R[k - 1], S)
<1>1. S = Recent(R[k - 1], k, e)
  BY DEF Shorter, Recent
<1>2. Exists(R, k) <=> HasRow(R[k], k)
  BY DEF Exists, HasRow
<1>3. made <=> ~(Exists(R, k) \/ Cardinality(S) < MinShorter[k])
  BY <1>2, Zenon DEF Makes
<1>4. new = IF made THEN [R EXCEPT ![k] = @ \cup {A}, ![k - 1] = M] ELSE R
  <2>1. new = IF Exists(R, k) \/ Cardinality(S) < MinShorter[k] THEN R
              ELSE [R EXCEPT ![k] = @ \cup {A}, ![k - 1] = M]
    BY DEF RollUp, Marking
  <2> HIDE DEF S, made, A, new, M
  <2>2. QED
    BY <1>3, <2>1
<1>5. k \in Types /\ k - 1 \in Types /\ k # k - 1
  BY LevelFacts
<1>6. /\ IsRows(new)
      /\ \A j \in Types : j # k /\ j # k - 1 => new[j] = R[j]
      /\ new[k] = IF made THEN R[k] \cup {A} ELSE R[k]
      /\ new[k - 1] = IF made THEN M ELSE R[k - 1]
  <2> HIDE DEF S, made, A, new, M
  <2>1. CASE made
    <3>1. DOMAIN R = Types
      BY DEF IsRows
    <3>2. new = [j \in Types |-> IF j = k - 1 THEN M ELSE IF j = k THEN R[j] \cup {A} ELSE R[j]]
      BY <1>4, <1>5, <2>1, <3>1
    <3>3. QED
      BY <1>5, <2>1, <3>2 DEF IsRows
  <2>2. CASE ~made
    BY <1>4, <1>5, <2>2
  <2>3. QED
    BY <2>1, <2>2
<1>7. QED
  BY <1>1, <1>6, Zenon DEF Rolled

\* The rows after each level.
LEMMA LevelsExist ==
  ASSUME NEW edge, CreateLongerRecords(TRUE, edge)
  PROVE  \E L : /\ L[0] = rows
                /\ \A k \in Levels : L[k] = RollUp(L[k - 1], k, edge[k])
                /\ rows' = L[Top]
<1> DEFINE F(n, f) == f = [k \in 0 .. n |-> IF k = 0 THEN rows ELSE RollUp(f[k - 1], k, edge[k])]
           T == {n \in Nat : \E f : F(n, f)}
<1>1. 0 \in T
  <2>1. F(0, [k \in 0 .. 0 |-> rows])
    OBVIOUS
  <2>2. \E g : F(0, g)
    <3> HIDE DEF F
    <3> QED BY <2>1
  <2>3. QED
    BY <2>2
<1>2. ASSUME NEW n \in Nat, n \in T PROVE n + 1 \in T
  <2>1. PICK f : F(n, f)
    BY <1>2
  <2> DEFINE g == [k \in 0 .. n + 1 |-> IF k <= n THEN f[k] ELSE RollUp(f[n], n + 1, edge[n + 1])]
  <2>2. F(n + 1, g)
    BY <2>1
  <2>3. \E h : F(n + 1, h)
    <3> HIDE DEF F, g
    <3> QED BY <2>2
  <2>4. QED
    <3> HIDE DEF F, g
    <3> QED BY <2>3
<1>3. Top \in T
  <2> HIDE DEF T
  <2> QED BY <1>1, <1>2, NatSet, SizesAssumption
<1> DEFINE G(f) == f = [k \in Types |-> IF k = 0 THEN rows ELSE RollUp(f[k - 1], k, edge[k])]
           L == CHOOSE f : G(f)
<1>4. G(L)
  <2>1. \E f : G(f)
    <3>1. \A f : F(Top, f) => G(f)
      BY DEF Types
    <3> HIDE DEF F, G
    <3> QED BY <1>3, <3>1
  <2> HIDE DEF G
  <2>2. QED
    BY <2>1
<1>5. rows' = L[Top]
  BY DEF CreateLongerRecords
<1> HIDE DEF L
<1>6. L[0] = rows /\ \A k \in Levels : L[k] = RollUp(L[k - 1], k, edge[k])
  BY <1>4, LevelFacts
<1>7. QED
  BY <1>5, <1>6

\* mid[k]: the rows of type k once level k is done; made: the levels that make a row.
RunChanges(edge, mid, made) ==
  LET S(k) == Recent(mid[k - 1], k, edge[k]) IN
  /\ mid[0] = rows[0]
  /\ \A k \in Levels :
       /\ k \in made <=> Makes(rows[k], S(k), k)
       /\ mid[k] = IF k \in made THEN rows[k] \cup {AverageSystemStatsSlice(S(k))} ELSE rows[k]
  /\ IsRows(rows')
  /\ \A k \in Types : rows'[k] = IF k + 1 \in made THEN Marking(mid[k], S(k + 1)) ELSE mid[k]
  /\ made \subseteq Levels

LEMMA RunEffect ==
  ASSUME IsRows(rows), NEW edge, CreateLongerRecords(TRUE, edge)
  PROVE  \E mid, made : RunChanges(edge, mid, made)
<1>1. PICK L : /\ L[0] = rows
               /\ \A k \in Levels : L[k] = RollUp(L[k - 1], k, edge[k])
               /\ rows' = L[Top]
  BY LevelsExist
<1> DEFINE mid == [k \in Types |-> L[k][k]]
           S(k) == Recent(mid[k - 1], k, edge[k])
           made == {k \in Levels : Makes(rows[k], S(k), k)}
<1>2. ASSUME NEW k \in Types PROVE IsRows(L[k]) /\ \A j \in Types : j > k => L[k][j] = rows[j]
  <2> DEFINE T == {i \in Types : IsRows(L[i]) /\ \A j \in Types : j > i => L[i][j] = rows[j]}
  <2>1. 0 \in T
    <3>1. IsRows(L[0])
      BY <1>1
    <3>2. QED
      BY <1>1, <3>1, LevelFacts
  <2>2. ASSUME NEW i \in Levels, i - 1 \in T PROVE i \in T
    <3>1. IsRows(L[i - 1]) /\ L[i] = RollUp(L[i - 1], i, edge[i])
      BY <1>1, <2>2
    <3>2. IsRows(L[i]) /\ \A j \in Types : j # i /\ j # i - 1 => L[i][j] = L[i - 1][j]
      <4>1. Rolled(L[i - 1], Recent(L[i - 1][i - 1], i, edge[i]), i, L[i])
        BY <3>1, RollUpEffect
      <4>2. QED
        BY <4>1 DEF Rolled
    <3>3. ASSUME NEW j \in Types, j > i PROVE L[i][j] = rows[j]
      <4>1. j # i /\ j # i - 1 /\ j > i - 1
        BY <3>3, LevelFacts
      <4>2. L[i - 1][j] = rows[j]
        BY <2>2, <4>1
      <4>3. QED
        BY <3>2, <4>1, <4>2
    <3>4. QED
      BY <3>2, <3>3, LevelFacts
  <2>3. Types \subseteq T
    <3> HIDE DEF T
    <3> QED BY <2>1, <2>2, TypesSet
  <2>4. QED
    BY <2>3
<1>3. ASSUME NEW k \in Levels
      PROVE  /\ L[k][k] = IF k \in made THEN rows[k] \cup {AverageSystemStatsSlice(S(k))} ELSE rows[k]
             /\ L[k][k - 1] = IF k \in made THEN Marking(mid[k - 1], S(k)) ELSE mid[k - 1]
  <2>1. k - 1 \in Types /\ k \in Types /\ k > k - 1
    BY LevelFacts
  <2>2. IsRows(L[k - 1]) /\ L[k - 1][k] = rows[k] /\ L[k - 1][k - 1] = mid[k - 1]
    BY <1>2, <2>1
  <2>3. L[k] = RollUp(L[k - 1], k, edge[k])
    BY <1>1
  <2>4. k \in made <=> Makes(rows[k], S(k), k)
    OBVIOUS
  <2>5. Rolled(L[k - 1], S(k), k, L[k])
    BY <2>2, <2>3, RollUpEffect
  <2> HIDE DEF made, mid, S
  <2>6. QED
    BY <2>2, <2>4, <2>5 DEF Rolled
<1>4. ASSUME NEW j \in Types, j # Top PROVE L[Top][j] = L[j + 1][j]
  <2> DEFINE T == {i \in Types : i > j => L[i][j] = L[j + 1][j]}
  <2>1. 0 \in T
    BY LevelFacts
  <2>2. ASSUME NEW i \in Levels, i - 1 \in T PROVE i \in T
    <3>1. i \in Types /\ i - 1 \in Types /\ i \in Nat /\ j \in Nat
      BY LevelFacts
    <3> SUFFICES ASSUME i > j PROVE L[i][j] = L[j + 1][j]
      BY <3>1
    <3>2. CASE i = j + 1
      BY <3>2
    <3>3. CASE i # j + 1
      <4>1. j # i /\ j # i - 1 /\ i - 1 > j
        BY <3>1, <3>3
      <4>2. L[i - 1][j] = L[j + 1][j]
        BY <2>2, <4>1
      <4>3. IsRows(L[i - 1]) /\ L[i] = RollUp(L[i - 1], i, edge[i])
        BY <1>1, <1>2, <3>1
      <4>4. Rolled(L[i - 1], Recent(L[i - 1][i - 1], i, edge[i]), i, L[i])
        BY <4>3, RollUpEffect
      <4>5. L[i][j] = L[i - 1][j]
        BY <4>1, <4>4 DEF Rolled
      <4>6. QED
        BY <4>2, <4>5
    <3>4. QED
      BY <3>2, <3>3
  <2>3. Types \subseteq T
    <3> HIDE DEF T
    <3> QED BY <2>1, <2>2, TypesSet
  <2>4. Top > j
    BY <1>4, LevelFacts, SizesAssumption
  <2>5. Top \in T
    BY <2>3, LevelFacts
  <2>6. QED
    BY <2>4, <2>5
<1>5. mid[0] = rows[0] /\ made \subseteq Levels /\ IsRows(rows')
  BY <1>1, <1>2, LevelFacts
<1>6. ASSUME NEW k \in Levels
      PROVE  /\ k \in made <=> Makes(rows[k], S(k), k)
             /\ mid[k] = IF k \in made THEN rows[k] \cup {AverageSystemStatsSlice(S(k))} ELSE rows[k]
  <2>1. mid[k] = L[k][k]
    BY LevelFacts
  <2>2. k \in made <=> Makes(rows[k], S(k), k)
    OBVIOUS
  <2> HIDE DEF made, mid
  <2>3. QED
    BY <1>3, <2>1, <2>2
<1>7. ASSUME NEW k \in Types
      PROVE  rows'[k] = IF k + 1 \in made THEN Marking(mid[k], S(k + 1)) ELSE mid[k]
  <2>1. CASE k = Top
    <3>1. k + 1 \notin made
      <4>1. k + 1 \notin Levels
        BY <2>1, SizesAssumption DEF Levels
      <4>2. QED
        BY <4>1
    <3>2. rows'[k] = mid[k]
      BY <1>1, <2>1
    <3>3. QED
      BY <3>1, <3>2
  <2>2. CASE k # Top
    <3> DEFINE i == k + 1
    <3>1. i \in Levels /\ i - 1 = k
      BY <2>2, LevelFacts
    <3>2. rows'[k] = L[i][k]
      BY <1>1, <1>4, <2>2
    <3> HIDE DEF made, mid, S, i
    <3>3. rows'[k] = IF i \in made THEN Marking(mid[k], S(i)) ELSE mid[k]
      BY <1>3, <3>1, <3>2
    <3>4. QED
      BY <3>3 DEF i
  <2>3. QED
    BY <2>1, <2>2
<1>8. RunChanges(edge, mid, made)
  <2> HIDE DEF mid, made
  <2>1. QED
    BY <1>5, <1>6, <1>7, Zenon DEF RunChanges
<1>9. QED
  BY <1>8

----------------------------------------------------------------------------
(* Extremes and sizes of finite sets.                                        *)

LEMMA Greatest ==
  ASSUME NEW S, S \subseteq Nat, IsFiniteSet(S), S # {}
  PROVE  Max(S) \in S /\ \A y \in S : y <= Max(S)
<1> DEFINE HasMax(s) == \E x \in s : \A y \in s : y <= x
           T == {n \in Nat : \A s \in SUBSET S : Cardinality(s) = n + 1 => HasMax(s)}
<1>1. \A s \in SUBSET S : IsFiniteSet(s) /\ Cardinality(s) \in Nat /\ (Cardinality(s) = 0 <=> s = {})
  BY FS_Subset, FS_CardinalityType, FS_EmptySet
<1>2. 0 \in T
  <2> SUFFICES ASSUME NEW s \in SUBSET S, Cardinality(s) = 1 PROVE HasMax(s)
    OBVIOUS
  <2>1. PICK x : s = {x}
    BY <1>1, FS_Singleton
  <2>2. x \in Nat
    BY <2>1
  <2>3. QED
    BY <2>1, <2>2
<1>3. ASSUME NEW n \in Nat, n \in T PROVE n + 1 \in T
  <2> SUFFICES ASSUME NEW s \in SUBSET S, Cardinality(s) = n + 1 + 1 PROVE HasMax(s)
    OBVIOUS
  <2>1. PICK x \in s : TRUE
    BY <1>1
  <2>2. s \ {x} \in SUBSET S /\ Cardinality(s \ {x}) = n + 1
    BY <1>1, <2>1, FS_RemoveElement
  <2>3. PICK m \in s \ {x} : \A y \in s \ {x} : y <= m
    BY <1>3, <2>2
  <2>4. m \in Nat /\ x \in Nat /\ \A y \in s : y \in Nat
    OBVIOUS
  <2>5. CASE x <= m
    BY <2>3, <2>4, <2>5
  <2>6. CASE m < x
    <3>1. \A y \in s : y <= x
      BY <2>3, <2>4, <2>6
    <3>2. QED
      BY <3>1
  <2>7. QED
    BY <2>4, <2>5, <2>6
<1>4. Nat \subseteq T
  <2> HIDE DEF T
  <2> QED BY <1>2, <1>3, NatSet
<1>5. PICK n \in Nat : Cardinality(S) = n + 1
  <2>1. Cardinality(S) \in Nat /\ Cardinality(S) # 0
    BY <1>1
  <2>2. Cardinality(S) - 1 \in Nat /\ Cardinality(S) = (Cardinality(S) - 1) + 1
    BY <2>1
  <2>3. QED
    BY <2>2
<1>6. HasMax(S)
  BY <1>4, <1>5
<1>7. \E x \in S : \A y \in S : x >= y
  BY <1>6
<1>8. Max(S) \in S /\ \A y \in S : Max(S) >= y
  BY <1>7, Zenon DEF Max
<1>9. QED
  BY <1>8

LEMMA Lowest ==
  ASSUME NEW S, S \subseteq Nat, S # {}
  PROVE  Min(S) \in S /\ \A y \in S : Min(S) <= y
<1>1. \E x \in S : \A y \in S : x <= y
  BY Least
<1>2. QED
  BY <1>1, Zenon DEF Min

\* A set into which n numbers can be mapped one-to-one has n members.
LEMMA CountAtLeast ==
  ASSUME NEW S, IsFiniteSet(S), NEW n \in Nat, NEW f \in [1 .. n -> S],
         \A i, j \in 1 .. n : f[i] = f[j] => i = j
  PROVE  Cardinality(S) \in Nat /\ n <= Cardinality(S)
<1>1. f \in Injection(1 .. n, S)
  BY DEF Injection, IsInjective
<1>2. Cardinality(1 .. n) <= Cardinality(S)
  BY <1>1, FS_Injection
<1>3. Cardinality(1 .. n) = n
  BY FS_Interval
<1>4. QED
  BY <1>2, <1>3, FS_CardinalityType

LEMMA HorizonIsNat == Horizon \in Nat
<1> DEFINE f == [k \in Types |-> MaxAge(k)]
           S == {MaxAge(k) : k \in Types}
<1>1. S \subseteq Nat /\ S # {}
  BY Sizes, LevelFacts
<1>2. IsFiniteSet(Types)
  BY SizesAssumption, FS_Interval DEF Types
<1>3. f \in Surjection(Types, S)
  BY DEF Surjection
<1>4. IsFiniteSet(S)
  BY <1>2, <1>3, FS_Surjection
<1>5. Max(S) \in Nat
  <2> HIDE DEF S
  <2> QED BY <1>1, <1>4, Greatest
<1>6. Filled \in Nat
  BY FilledFacts, LevelFacts DEF Filled
<1>7. QED
  BY <1>5, <1>6 DEF Horizon

----------------------------------------------------------------------------
(* The inductive invariant.                                                  *)

\* A minute's sample is not stored twice.
Fresh == \A r \in rows[0] : r.age = 0 => sampled

\* Longer rows were stored in minutes in which the job ran.
Aligned == \A k \in Levels : \A r \in rows[k] : r.age - phase \in Multiples

\* A row lies between the extremes of its samples; the greatest is its peak or its average.
TrueRow(r) ==
  /\ r.low <= r.avg /\ r.avg <= r.high /\ r.peak <= r.high
  /\ r.peak = r.high \/ r.avg = r.high
  /\ ~r.has => r.high = 0
TrueRows == \A k \in Types : \A r \in rows[k] : TrueRow(r) /\ (k # 0 => r.peak = r.high)

\* Without interruption every minute has its sample.
SamplesStored ==
  \A a \in Nat : a < steady /\ (a # 0 \/ sampled) /\ a < Retention[0] => \E r \in rows[0] : r.age = a

\* Without interruption there is a row of type k in every period that the next type reads
\* (and in the last one), wherever the period starts.
PeriodRow(k, x) ==
  /\ steady - phase + RunEvery >= FilledBy[k] + x
  /\ x = 0 \/ (k < Top /\ x + Duration[k] + phase <= Duration[k + 1])
  => \E r \in rows[k] : x <= r.age - phase /\ r.age - phase < x + Duration[k]
AllCovered == \A k \in Levels : \A x \in Multiples : PeriodRow(k, x)

\* A longer row has averaged the shorter ones of its period, ...
Marked ==
  \A k \in Levels : k # 1 =>
    \A r \in rows[k - 1], s \in rows[k] : s.age <= r.age /\ r.age < s.age + Duration[k] => r.used

\* ... and without interruption a row is averaged before its period is over,
SoonUsed ==
  \A k \in Levels : k # 1 =>
    \A r \in rows[k - 1] : ~r.used /\ steady >= FilledBy[k] + r.age => r.age - phase < Duration[k] - RunEvery

\* ... a sample that was stored between two runs already by the next run.
SamplesUsed ==
  Top # 0 =>
    \A r \in rows[0] : r.age > phase /\ r.age - phase \notin Multiples /\ steady >= FilledBy[1] + r.age => r.used

RecordsInv ==
  /\ IsRows(rows) /\ RecordsTypeOK
  /\ Fresh /\ Aligned /\ TrueRows
  /\ SamplesStored /\ AllCovered
  /\ Marked /\ SoonUsed /\ SamplesUsed

\* A row in the next minute, and one that a roll-up has read or not.
Older(r) == [r EXCEPT !.age = @ + 1]
Read(r, S) == [r EXCEPT !.used = @ \/ r \in S]

\* s is the row r, d minutes later.
Comes(r, s, d) ==
  /\ s.age = r.age + d /\ s.has = r.has /\ s.avg = r.avg /\ s.peak = r.peak
  /\ s.low = r.low /\ s.high = r.high
  /\ r.used => s.used

LEMMA OlderFields ==
  ASSUME NEW k \in Types, NEW r \in RowType(k), r.age < MaxAge(k)
  PROVE  Older(r) \in RowType(k) /\ Comes(r, Older(r), 1)
<1>1. MaxAge(k) \in Nat
  BY Sizes
<1>2. r.age + 1 \in 0 .. MaxAge(k)
  BY <1>1 DEF RowType
<1>3. QED
  BY <1>2 DEF RowType, Older, Comes

LEMMA ReadFields ==
  ASSUME NEW k \in Types, NEW r \in RowType(k), NEW S
  PROVE  Read(r, S) \in RowType(k) /\ Comes(r, Read(r, S), 0) /\ (r \in S => Read(r, S).used)
<1>1. (r.used \/ r \in S) \in BOOLEAN
  OBVIOUS
<1>2. Read(r, S).used = (r.used \/ r \in S)
  BY DEF RowType, Read
<1>3. Read(r, S) \in RowType(k)
  BY <1>1 DEF RowType, Read
<1>4. r.age + 0 = r.age
  BY DEF RowType
<1>5. QED
  BY <1>2, <1>3, <1>4 DEF RowType, Read, Comes

LEMMA RowFields ==
  ASSUME RecordsTypeOK, NEW k \in Types, NEW r \in rows[k]
  PROVE  /\ r \in RowType(k)
         /\ r.age \in Nat /\ r.avg \in Nat /\ r.peak \in Nat /\ r.low \in Nat /\ r.high \in Nat
         /\ r.has \in BOOLEAN /\ r.used \in BOOLEAN /\ r.age <= MaxAge(k)
<1>1. r \in RowType(k)
  BY DEF RecordsTypeOK
<1>2. MaxAge(k) \in Nat
  BY Sizes
<1>3. QED
  BY <1>1, <1>2 DEF RowType

LEMMA Clock ==
  ASSUME RecordsTypeOK
  PROVE  /\ phase \in Nat /\ phase <= RunEvery /\ steady \in Nat /\ steady <= Horizon
         /\ sampled \in BOOLEAN
  BY Sizes, HorizonIsNat DEF RecordsTypeOK

LEMMA RecordsInitial == RecordsInit => RecordsInv
<1> SUFFICES ASSUME RecordsInit PROVE RecordsInv
  OBVIOUS
<1>1. \A k \in Types : rows[k] = {}
  BY DEF RecordsInit
<1>2. phase = 0 /\ steady = 0 /\ sampled = FALSE
  BY DEF RecordsInit
<1>3. IsRows(rows)
  BY DEF IsRows, RecordsInit
<1>4. RecordsTypeOK
  <2>1. phase \in 0 .. RunEvery /\ steady \in 0 .. Horizon
    BY <1>2, Sizes, HorizonIsNat
  <2>2. QED
    BY <1>1, <1>2, <2>1 DEF RecordsTypeOK
<1>5. Fresh /\ Aligned /\ TrueRows /\ SamplesStored /\ Marked /\ SoonUsed /\ SamplesUsed
  BY <1>1, <1>2, LevelFacts DEF Fresh, Aligned, TrueRows, SamplesStored, Marked, SoonUsed, SamplesUsed
<1>6. ASSUME NEW k \in Levels, NEW x \in Multiples PROVE PeriodRow(k, x)
  <2>1. FilledBy[k] = FilledBy[k - 1] + Duration[k] /\ FilledBy[k - 1] \in Nat /\ FilledBy[k - 1] >= RunEvery
    BY FilledFacts, LevelFacts
  <2>2. Duration[k] \in Nat /\ Duration[k] > 0 /\ RunEvery \in Nat
    BY Rhythm, Sizes
  <2>3. x \in Nat
    BY MultipleFacts
  <2>4. ~(steady - phase + RunEvery >= FilledBy[k] + x)
    BY <1>2, <2>1, <2>2, <2>3
  <2>5. QED
    BY <2>4 DEF PeriodRow
<1>7. QED
  BY <1>3, <1>4, <1>5, <1>6 DEF RecordsInv, AllCovered

----------------------------------------------------------------------------
(* The clock and the samples.                                                *)

LEMMA NextMinuteKeeps == RecordsInv /\ NextMinute => RecordsInv'
<1> SUFFICES ASSUME RecordsInv, NextMinute PROVE RecordsInv'
  OBVIOUS
<1>1. /\ RecordsTypeOK /\ Fresh /\ Aligned /\ TrueRows /\ SamplesStored /\ AllCovered
      /\ Marked /\ SoonUsed /\ SamplesUsed
  BY DEF RecordsInv
<1>2. /\ phase \in Nat /\ phase < RunEvery /\ steady \in Nat /\ Horizon \in Nat
      /\ sampled /\ sampled' = FALSE /\ phase' = phase + 1
      /\ steady' \in Nat /\ steady' <= steady + 1 /\ steady' <= Horizon
  BY <1>1, Clock, HorizonIsNat DEF NextMinute
<1>3. IsRows(rows') /\ \A k \in Types : rows'[k] = {Older(r) : r \in rows[k]}
  BY DEF NextMinute, IsRows, Older
<1>4. ASSUME NEW k \in Types, NEW r \in rows[k]
      PROVE  Older(r) \in rows'[k] /\ Older(r) \in RowType(k) /\ Comes(r, Older(r), 1)
  <2>1. r \in RowType(k) /\ r.age < MaxAge(k)
    BY <1>1, RowFields DEF NextMinute
  <2>2. QED
    BY <1>3, <2>1, OlderFields
<1>5. ASSUME NEW k \in Types, NEW s \in rows'[k]
      PROVE  \E r \in rows[k] : s = Older(r) /\ s \in RowType(k) /\ Comes(r, s, 1)
  BY <1>3, <1>4
<1>6. RecordsTypeOK'
  <2>1. ASSUME NEW k \in Types, NEW r \in rows'[k], NEW s \in rows'[k], r.age = s.age PROVE r = s
    <3>1. PICK p \in rows[k], q \in rows[k] : /\ r = Older(p) /\ s = Older(q)
                                              /\ r.age = p.age + 1 /\ s.age = q.age + 1
      BY <1>5 DEF Comes
    <3>2. p.age = q.age
      BY <1>1, <2>1, <3>1, RowFields
    <3>3. QED
      BY <1>1, <3>1, <3>2 DEF RecordsTypeOK
  <2>2. phase' \in 0 .. RunEvery /\ steady' \in 0 .. Horizon
    BY <1>2, Sizes
  <2>3. QED
    BY <1>2, <1>5, <2>1, <2>2 DEF RecordsTypeOK, RowType, MaxAge
<1>7. Fresh'
  <2>1. ASSUME NEW s \in rows'[0] PROVE s.age # 0
    BY <1>1, <1>5, LevelFacts, RowFields DEF Comes
  <2>2. QED
    BY <2>1 DEF Fresh
<1>8. Aligned'
  <2> SUFFICES ASSUME NEW k \in Levels, NEW s \in rows'[k] PROVE s.age - phase' \in Multiples
    BY DEF Aligned, Multiples
  <2>1. PICK r \in rows[k] : s.age = r.age + 1
    BY <1>5, LevelFacts DEF Comes
  <2>2. s.age - phase' = r.age - phase
    BY <1>1, <1>2, <2>1, LevelFacts, RowFields
  <2>3. QED
    BY <1>1, <2>2 DEF Aligned
<1>9. TrueRows'
  BY <1>1, <1>5 DEF TrueRows, TrueRow, Comes
<1>10. SamplesStored'
  <2> SUFFICES ASSUME NEW a \in Nat, a < steady', a # 0, a < Retention[0]
               PROVE  \E s \in rows'[0] : s.age = a
    BY <1>2 DEF SamplesStored
  <2>1. a - 1 \in Nat /\ a - 1 < steady /\ a - 1 < Retention[0]
    BY <1>2, Sizes, LevelFacts
  <2>2. PICK r \in rows[0] : r.age = a - 1
    BY <1>1, <1>2, <2>1 DEF SamplesStored
  <2>3. Older(r) \in rows'[0] /\ Older(r).age = r.age + 1
    BY <1>4, LevelFacts DEF Comes
  <2>4. QED
    BY <2>2, <2>3
<1>11. AllCovered'
  <2> SUFFICES ASSUME NEW k \in Levels, NEW x \in Multiples,
                      steady' - phase' + RunEvery >= FilledBy[k] + x,
                      x = 0 \/ (k < Top /\ x + Duration[k] + phase' <= Duration[k + 1])
               PROVE  \E s \in rows'[k] : x <= s.age - phase' /\ s.age - phase' < x + Duration[k]
    BY DEF AllCovered, PeriodRow, Multiples, FilledBy
  <2>1. k \in Types /\ k \in Nat /\ FilledBy[k] \in Nat /\ x \in Nat /\ Duration[k] \in Nat
    BY FilledFacts, LevelFacts, MultipleFacts, Sizes
  <2>2. steady - phase + RunEvery >= FilledBy[k] + x
    BY <1>2, <2>1, Sizes
  <2>3. x = 0 \/ (k < Top /\ x + Duration[k] + phase <= Duration[k + 1])
    <3>1. k < Top => Duration[k + 1] \in Nat
      BY <2>1, LevelFacts, Sizes
    <3>2. QED
      BY <1>2, <2>1, <3>1
  <2>4. PICK r \in rows[k] : x <= r.age - phase /\ r.age - phase < x + Duration[k]
    BY <1>1, <2>2, <2>3 DEF AllCovered, PeriodRow
  <2>5. Older(r) \in rows'[k] /\ Older(r).age = r.age + 1 /\ r.age \in Nat
    BY <1>1, <1>4, <2>1, RowFields DEF Comes
  <2>6. Older(r).age - phase' = r.age - phase
    BY <1>2, <2>5
  <2>7. QED
    BY <2>4, <2>5, <2>6
<1>12. Marked'
  <2> SUFFICES ASSUME NEW k \in Levels, k # 1, NEW r \in rows'[k - 1], NEW s \in rows'[k],
                      s.age <= r.age, r.age < s.age + Duration[k]
               PROVE  r.used
    BY DEF Marked
  <2>1. k \in Types /\ k - 1 \in Types /\ Duration[k] \in Nat
    BY LevelFacts, Sizes
  <2>2. PICK p \in rows[k - 1] : Comes(p, r, 1)
    BY <1>5, <2>1
  <2>3. PICK q \in rows[k] : Comes(q, s, 1)
    BY <1>5, <2>1
  <2>4. q.age <= p.age /\ p.age < q.age + Duration[k]
    BY <1>1, <2>1, <2>2, <2>3, RowFields DEF Comes
  <2>5. QED
    BY <1>1, <2>2, <2>4 DEF Marked, Comes
<1>13. SoonUsed'
  <2> SUFFICES ASSUME NEW k \in Levels, k # 1, NEW r \in rows'[k - 1], ~r.used, steady' >= FilledBy[k] + r.age
               PROVE  r.age - phase' < Duration[k] - RunEvery
    BY DEF SoonUsed, FilledBy
  <2>1. k \in Types /\ k - 1 \in Types /\ FilledBy[k] \in Nat
    BY LevelFacts, FilledFacts
  <2>2. PICK p \in rows[k - 1] : Comes(p, r, 1)
    BY <1>5, <2>1
  <2>3. p.age \in Nat /\ r.age = p.age + 1 /\ ~p.used
    BY <1>1, <2>1, <2>2, RowFields DEF Comes
  <2>4. steady >= FilledBy[k] + p.age
    BY <1>2, <2>1, <2>3
  <2>5. p.age - phase < Duration[k] - RunEvery
    BY <1>1, <2>3, <2>4 DEF SoonUsed
  <2>6. QED
    BY <1>2, <2>3, <2>5
<1>14. SamplesUsed'
  <2> SUFFICES ASSUME Top # 0, NEW r \in rows'[0], r.age > phase', r.age - phase' \notin Multiples,
                      steady' >= FilledBy[1] + r.age
               PROVE  r.used
    BY DEF SamplesUsed, FilledBy, Multiples
  <2>1. FilledBy[1] \in Nat
    BY FilledFacts, SizesAssumption DEF Types
  <2>2. PICK p \in rows[0] : Comes(p, r, 1)
    BY <1>5, LevelFacts
  <2>3. p.age \in Nat /\ r.age = p.age + 1
    BY <1>1, <2>2, LevelFacts, RowFields DEF Comes
  <2>4. p.age > phase /\ r.age - phase' = p.age - phase /\ steady >= FilledBy[1] + p.age
    BY <1>2, <2>1, <2>3
  <2>5. QED
    BY <1>1, <2>2, <2>4 DEF SamplesUsed, Comes
<1>15. QED
  BY <1>3, <1>6, <1>7, <1>8, <1>9, <1>10, <1>11, <1>12, <1>13, <1>14 DEF RecordsInv, IsRows

LEMMA SampleKeeps ==
  ASSUME RecordsInv, NEW has \in BOOLEAN, NEW v \in Nat, ~has => v = 0, Sample(has, v)
  PROVE  RecordsInv'
<1> DEFINE N == [age |-> 0, has |-> has, avg |-> v, peak |-> 0, used |-> FALSE, low |-> v, high |-> v]
<1>1. /\ IsRows(rows) /\ RecordsTypeOK /\ Fresh /\ Aligned /\ TrueRows /\ SamplesStored /\ AllCovered
      /\ Marked /\ SoonUsed /\ SamplesUsed
  BY DEF RecordsInv
<1>2. ~sampled /\ sampled' = TRUE /\ phase' = phase /\ steady' = steady
  BY DEF Sample
<1>3. phase \in Nat /\ steady \in Nat
  BY <1>1, Clock
<1>4. /\ IsRows(rows') /\ rows'[0] = rows[0] \cup {N}
      /\ \A k \in Levels : rows'[k] = rows[k]
      /\ \A k \in Levels \ {1} : rows'[k - 1] = rows[k - 1]
  <2>1. rows' = [rows EXCEPT ![0] = @ \cup {N}]
    BY DEF Sample
  <2>2. rows' = [k \in Types |-> IF k = 0 THEN rows[0] \cup {N} ELSE rows[k]]
    <3> HIDE DEF N
    <3> QED BY <1>1, <2>1, LevelFacts DEF IsRows
  <2>3. \A k \in Levels \ {1} : k - 1 \in Types /\ k - 1 # 0
    BY LevelFacts
  <2> HIDE DEF N
  <2>4. QED
    BY <2>2, <2>3, LevelFacts DEF IsRows
<1>5. N \in RowType(0) /\ N.age = 0
  BY Sizes, LevelFacts DEF RowType
<1>6. RecordsTypeOK'
  <2>1. ASSUME NEW k \in Types
        PROVE  /\ \A r \in rows'[k] : r \in RowType(k)
               /\ \A r, s \in rows'[k] : r.age = s.age => r = s
    <3>1. CASE k = 0
      <4>1. \A r \in rows[0] : r.age # 0
        BY <1>1, <1>2 DEF Fresh
      <4> HIDE DEF N
      <4>2. QED
        BY <1>1, <1>4, <1>5, <2>1, <3>1, <4>1 DEF RecordsTypeOK
    <3>2. CASE k # 0
      BY <1>1, <1>4, <2>1, <3>2, LevelFacts DEF RecordsTypeOK
    <3>3. QED
      BY <3>1, <3>2
  <2>2. QED
    BY <1>1, <1>2, <2>1 DEF RecordsTypeOK, RowType, MaxAge
<1>7. TrueRows'
  <2>1. TrueRow(N)
    BY DEF TrueRow
  <2>2. ASSUME NEW k \in Types, NEW r \in rows'[k] PROVE TrueRow(r) /\ (k # 0 => r.peak = r.high)
    <3> HIDE DEF N
    <3>1. CASE k = 0
      BY <1>1, <1>4, <2>1, <2>2, <3>1 DEF TrueRows
    <3>2. CASE k # 0
      BY <1>1, <1>4, <2>2, <3>2, LevelFacts DEF TrueRows
    <3>3. QED
      BY <3>1, <3>2
  <2>3. QED
    BY <2>2 DEF TrueRows, TrueRow
<1>8. Fresh'
  BY <1>2 DEF Fresh
<1> HIDE DEF N
<1>9. Aligned' /\ AllCovered' /\ Marked' /\ SoonUsed'
  <2>1. Aligned'
    BY <1>1, <1>2, <1>4 DEF Aligned, Multiples
  <2>2. AllCovered'
    BY <1>1, <1>2, <1>4 DEF AllCovered, PeriodRow, Multiples, FilledBy
  <2>3. Marked'
    BY <1>1, <1>4 DEF Marked
  <2>4. SoonUsed'
    BY <1>1, <1>2, <1>4 DEF SoonUsed, FilledBy
  <2>5. QED
    BY <2>1, <2>2, <2>3, <2>4
<1>10. SamplesStored'
  <2> SUFFICES ASSUME NEW a \in Nat, a < steady, a < Retention[0]
               PROVE  \E s \in rows'[0] : s.age = a
    BY <1>2 DEF SamplesStored
  <2>1. CASE a = 0
    BY <1>4, <1>5, <2>1
  <2>2. CASE a # 0
    BY <1>1, <1>4, <2>2 DEF SamplesStored
  <2>3. QED
    BY <2>1, <2>2
<1>11. SamplesUsed'
  <2> SUFFICES ASSUME Top # 0, NEW r \in rows'[0], r.age > phase, r.age - phase \notin Multiples,
                      steady >= FilledBy[1] + r.age
               PROVE  r.used
    BY <1>2 DEF SamplesUsed, FilledBy, Multiples
  <2>1. r # N
    BY <1>3, <1>5
  <2>2. QED
    BY <1>1, <1>4, <2>1 DEF SamplesUsed
<1>12. QED
  BY <1>4, <1>6, <1>7, <1>8, <1>9, <1>10, <1>11 DEF RecordsInv, IsRows

LEMMA NoSampleKeeps == RecordsInv /\ NoSample => RecordsInv'
<1> SUFFICES ASSUME RecordsInv, NoSample PROVE RecordsInv'
  OBVIOUS
<1>1. /\ IsRows(rows) /\ RecordsTypeOK /\ Fresh /\ Aligned /\ TrueRows /\ Marked
  BY DEF RecordsInv
<1>2. sampled' = TRUE /\ phase' = phase /\ steady' = 0 /\ rows' = rows /\ phase \in Nat
  BY <1>1, Clock DEF NoSample
<1>3. RecordsTypeOK'
  <2>1. steady' \in 0 .. Horizon
    BY <1>2, HorizonIsNat
  <2>2. QED
    BY <1>1, <1>2, <2>1 DEF RecordsTypeOK, RowType, MaxAge
<1>4. Fresh' /\ Aligned' /\ TrueRows' /\ Marked' /\ SamplesStored'
  BY <1>1, <1>2 DEF Fresh, Aligned, TrueRows, TrueRow, Marked, SamplesStored, Multiples
<1>5. AllCovered'
  <2> SUFFICES ASSUME NEW k \in Levels, NEW x \in Multiples
               PROVE  ~(0 - phase + RunEvery >= FilledBy[k] + x)
    BY <1>2 DEF AllCovered, PeriodRow, Multiples, FilledBy
  <2>1. FilledBy[k] = FilledBy[k - 1] + Duration[k] /\ FilledBy[k - 1] \in Nat /\ FilledBy[k - 1] >= RunEvery
    BY FilledFacts, LevelFacts
  <2>2. Duration[k] \in Nat /\ Duration[k] > 0 /\ RunEvery \in Nat /\ x \in Nat
    BY Rhythm, Sizes, MultipleFacts
  <2>3. QED
    BY <1>2, <2>1, <2>2
<1>6. \A k \in Levels : FilledBy[k] \in Nat /\ FilledBy[k] > 0
  BY FilledFacts, LevelFacts, Sizes
<1>7. SoonUsed'
  <2> SUFFICES ASSUME NEW k \in Levels, k # 1, NEW r \in rows[k - 1]
               PROVE  ~(0 >= FilledBy[k] + r.age)
    BY <1>2 DEF SoonUsed, FilledBy
  <2>1. r.age \in Nat
    BY <1>1, LevelFacts, RowFields
  <2>2. QED
    BY <1>6, <2>1
<1>8. SamplesUsed'
  <2> SUFFICES ASSUME Top # 0, NEW r \in rows[0] PROVE ~(0 >= FilledBy[1] + r.age)
    BY <1>2 DEF SamplesUsed, FilledBy, Multiples
  <2>1. r.age \in Nat /\ 1 \in Levels
    BY <1>1, LevelFacts, RowFields, SizesAssumption DEF Levels
  <2>2. QED
    BY <1>6, <2>1
<1>9. QED
  BY <1>1, <1>2, <1>3, <1>4, <1>5, <1>7, <1>8 DEF RecordsInv, IsRows

----------------------------------------------------------------------------
(* The cleaner.                                                              *)

\* The rows that cover a period are not yet deleted.
LEMMA CoverIsKept ==
  ASSUME RecordsTypeOK, Aligned, NEW k \in Levels, NEW x \in Multiples, NEW r \in rows[k],
         r.age - phase < x + Duration[k],
         x = 0 \/ (k < Top /\ x + Duration[k] + phase <= Duration[k + 1])
  PROVE  r.age < Retention[k]
<1>1. /\ phase \in Nat /\ phase <= RunEvery /\ r.age \in Nat /\ x \in Nat
      /\ Duration[k] \in Nat /\ Retention[k] \in Nat /\ Retention[k] > Duration[k]
  BY Clock, LevelFacts, RowFields, MultipleFacts, Sizes
<1>2. CASE x = 0
  <2>1. r.age - phase \in Multiples /\ Duration[k] \in Multiples
    BY Rhythm DEF Aligned
  <2>2. r.age - phase + RunEvery <= Duration[k]
    BY <1>1, <1>2, <2>1, MultipleGap
  <2>3. QED
    BY <1>1, <2>2, Sizes
<1>3. CASE x # 0
  <2>1. k + 1 \in Levels /\ (k + 1) - 1 = k
    BY <1>3, LevelFacts
  <2>2. Duration[k + 1] \in Nat /\ Retention[k] > Duration[k + 1]
    BY <2>1, Sizes
  <2>3. QED
    BY <1>1, <1>3, <2>2
<1>4. QED
  BY <1>2, <1>3

LEMMA DeleteKeeps == RecordsInv /\ deleteOldSystemStats => RecordsInv'
<1> SUFFICES ASSUME RecordsInv, deleteOldSystemStats PROVE RecordsInv'
  OBVIOUS
<1>1. /\ IsRows(rows) /\ RecordsTypeOK /\ Fresh /\ Aligned /\ TrueRows /\ SamplesStored /\ AllCovered
      /\ Marked /\ SoonUsed /\ SamplesUsed
  BY DEF RecordsInv
<1>2. sampled' = sampled /\ phase' = phase /\ steady' = steady
  BY DEF deleteOldSystemStats
<1>3. IsRows(rows') /\ \A k \in Types : rows'[k] = {r \in rows[k] : r.age < Retention[k]}
  BY DEF deleteOldSystemStats, IsRows
<1>4. /\ \A k \in Types : rows'[k] \subseteq rows[k]
      /\ \A k \in Levels : rows'[k] \subseteq rows[k] /\ rows'[k - 1] \subseteq rows[k - 1]
      /\ rows'[0] \subseteq rows[0]
  BY <1>3, LevelFacts
<1>5. RecordsTypeOK'
  BY <1>1, <1>2, <1>4 DEF RecordsTypeOK, RowType, MaxAge
<1>6. Fresh' /\ Aligned' /\ TrueRows'
  BY <1>1, <1>2, <1>4 DEF Fresh, Aligned, TrueRows, TrueRow, Multiples
<1>7. SamplesStored'
  BY <1>1, <1>2, <1>3, LevelFacts DEF SamplesStored
<1>8. AllCovered'
  <2> SUFFICES ASSUME NEW k \in Levels, NEW x \in Multiples,
                      steady - phase + RunEvery >= FilledBy[k] + x,
                      x = 0 \/ (k < Top /\ x + Duration[k] + phase <= Duration[k + 1])
               PROVE  \E s \in rows'[k] : x <= s.age - phase /\ s.age - phase < x + Duration[k]
    BY <1>2 DEF AllCovered, PeriodRow, Multiples, FilledBy
  <2>1. PICK r \in rows[k] : x <= r.age - phase /\ r.age - phase < x + Duration[k]
    BY <1>1 DEF AllCovered, PeriodRow
  <2>2. r.age < Retention[k]
    BY <1>1, <2>1, CoverIsKept
  <2>3. QED
    BY <1>3, <2>1, <2>2, LevelFacts
<1>9. Marked'
  BY <1>1, <1>4 DEF Marked
<1>10. SoonUsed'
  BY <1>1, <1>2, <1>4 DEF SoonUsed, FilledBy
<1>11. SamplesUsed'
  BY <1>1, <1>2, <1>4 DEF SamplesUsed, FilledBy, Multiples
<1>12. QED
  BY <1>3, <1>5, <1>6, <1>7, <1>8, <1>9, <1>10, <1>11 DEF RecordsInv, IsRows

----------------------------------------------------------------------------
(* The job: the rows it makes.                                               *)

LEMMA FiniteRows ==
  ASSUME NEW k \in Types, NEW rs, \A r \in rs : r \in RowType(k), OnePerAge(rs)
  PROVE  IsFiniteSet(rs)
<1> DEFINE f == [r \in rs |-> r.age]
<1>1. \A r \in rs : r.age \in 0 .. MaxAge(k)
  BY DEF RowType
<1>2. f \in Injection(rs, 0 .. MaxAge(k))
  BY <1>1 DEF OnePerAge, Injection, IsInjective
<1>3. IsFiniteSet(0 .. MaxAge(k))
  BY Sizes, FS_Interval
<1>4. QED
  BY <1>2, <1>3, FS_Injection

\* An average of true rows is a true row, and its peak is the greatest of the samples.
LEMMA AverageIsTrue ==
  ASSUME NEW k \in Levels, NEW S, IsFiniteSet(S), S # {},
         \A r \in S : r \in RowType(k - 1) /\ TrueRow(r)
  PROVE  LET A == AverageSystemStatsSlice(S) IN
         A \in RowType(k) /\ TrueRow(A) /\ A.age = 0 /\ A.peak = A.high
<1> DEFINE A == AverageSystemStatsSlice(S)
           lows == {r.low : r \in S}
           highs == {r.high : r \in S}
           lo == Min(lows)
           hi == Max(highs)
           peaks == {0} \cup UNION {{r.peak, r.avg} : r \in {q \in S : q.has}}
           n == Cardinality(S)
           sum == Accumulated(S)
           avg == twoDecimals(sum, n)
           has == \E r \in S : r.has
<1>1. \A r \in S : /\ r.low \in Nat /\ r.high \in Nat /\ r.avg \in Nat /\ r.peak \in Nat /\ r.has \in BOOLEAN
                   /\ r.low <= r.avg /\ r.avg <= r.high /\ r.peak <= r.high
                   /\ r.peak = r.high \/ r.avg = r.high
                   /\ ~r.has => r.high = 0
  BY DEF RowType, TrueRow
<1>2. lo \in Nat /\ \A r \in S : lo <= r.low
  <2>1. lows \subseteq Nat /\ lows # {} /\ \A r \in S : r.low \in lows
    BY <1>1
  <2> HIDE DEF lows
  <2>2. QED
    BY <2>1, Lowest
<1>3. hi \in highs /\ \A r \in S : r.high <= hi
  <2>1. highs \subseteq Nat /\ highs # {} /\ \A r \in S : r.high \in highs
    BY <1>1
  <2>2. [r \in S |-> r.high] \in Surjection(S, highs)
    BY DEF Surjection
  <2> HIDE DEF highs
  <2>3. IsFiniteSet(highs)
    BY <2>2, FS_Surjection
  <2>4. QED
    BY <2>1, <2>3, Greatest
<1>4. PICK t \in S : t.high = hi
  BY <1>3
<1>5. hi \in Nat
  BY <1>1, <1>4
<1> HIDE DEF lo, hi
<1>6. lo <= avg /\ avg <= hi /\ avg \in Nat
  <2>1. \A r \in S : Weight(r) \in Nat /\ lo <= Weight(r) /\ Weight(r) <= hi
    <3> SUFFICES ASSUME NEW r \in S PROVE Weight(r) \in Nat /\ lo <= Weight(r) /\ Weight(r) <= hi
      OBVIOUS
    <3>1. CASE r.has
      BY <1>1, <1>2, <1>3, <1>5, <3>1 DEF Weight
    <3>2. CASE ~r.has
      BY <1>1, <1>2, <1>3, <1>5, <3>2 DEF Weight
    <3>3. QED
      BY <3>1, <3>2
  <2>2. n \in Nat /\ sum \in Nat /\ n * lo <= sum /\ sum <= n * hi
    BY <1>2, <1>5, <2>1, SumBounds
  <2>3. n # 0
    BY FS_EmptySet
  <2> HIDE DEF n, sum
  <2>4. QED
    BY <1>2, <1>5, <2>2, <2>3, AverageBounds
<1>7. Peak(S) = hi
  <2>1. peaks \subseteq 0 .. hi
    BY <1>1, <1>3, <1>5
  <2>2. hi \in peaks
    <3>1. CASE t.has
      BY <1>1, <1>4, <3>1
    <3>2. CASE ~t.has
      BY <1>1, <1>4, <3>2
    <3>3. QED
      BY <3>1, <3>2
  <2>3. IsFiniteSet(peaks)
    <3>1. IsFiniteSet(0 .. hi)
      BY <1>5, FS_Interval
    <3> HIDE DEF peaks
    <3>2. QED
      BY <2>1, <3>1, FS_Subset
  <2> DEFINE m == Max(peaks)
  <2>4. Peak(S) = m
    BY DEF Peak
  <2> HIDE DEF peaks
  <2>5. m \in peaks /\ hi <= m
    <3>1. peaks \subseteq Nat
      BY <1>5, <2>1
    <3>2. QED
      BY <2>2, <2>3, <3>1, Greatest
  <2> HIDE DEF m
  <2>6. m \in 0 .. hi
    BY <2>1, <2>5
  <2>7. m = hi
    BY <1>5, <2>5, <2>6
  <2>8. QED
    BY <2>4, <2>7
<1>8. has \in BOOLEAN /\ (~has => hi = 0)
  BY <1>1, <1>4
<1>9. A = [age |-> 0, has |-> has, avg |-> avg, peak |-> hi, used |-> FALSE, low |-> lo, high |-> hi]
  BY <1>7 DEF AverageSystemStatsSlice, lo, hi
<1>10. 0 \in 0 .. MaxAge(k)
  BY Sizes, LevelFacts
<1> HIDE DEF has, avg, A
<1>11. A \in RowType(k)
  BY <1>2, <1>5, <1>6, <1>8, <1>9, <1>10 DEF RowType
<1>12. TrueRow(A) /\ A.age = 0 /\ A.peak = A.high
  BY <1>2, <1>5, <1>6, <1>8, <1>9 DEF TrueRow
<1>13. QED
  BY <1>11, <1>12 DEF A

\* Rows of type k in a minute in which the job has run.
GoodRows(rs, k) ==
  /\ \A r \in rs : r \in RowType(k) /\ TrueRow(r) /\ (k # 0 => r.peak = r.high /\ r.age \in Multiples)
  /\ OnePerAge(rs)

LEMMA MarkingIsGood ==
  ASSUME NEW k \in Types, NEW rs, GoodRows(rs, k), NEW S
  PROVE  GoodRows(Marking(rs, S), k)
<1>1. ASSUME NEW s \in Marking(rs, S)
      PROVE  \E r \in rs : s = Read(r, S) /\ s \in RowType(k) /\ Comes(r, s, 0) /\ r.age \in Nat
  <2>1. PICK r \in rs : s = Read(r, S)
    BY DEF Marking, Read
  <2>2. r \in RowType(k)
    BY DEF GoodRows
  <2>3. QED
    BY <2>1, <2>2, ReadFields DEF RowType
<1>2. ASSUME NEW s \in Marking(rs, S)
      PROVE  s \in RowType(k) /\ TrueRow(s) /\ (k # 0 => s.peak = s.high /\ s.age \in Multiples)
  <2>1. PICK r \in rs : s \in RowType(k) /\ Comes(r, s, 0) /\ r.age \in Nat
    BY <1>1
  <2>2. s.age = r.age
    BY <2>1 DEF Comes
  <2>3. QED
    BY <2>1, <2>2 DEF GoodRows, TrueRow, Comes
<1>3. ASSUME NEW s \in Marking(rs, S), NEW u \in Marking(rs, S), s.age = u.age PROVE s = u
  <2>1. PICK r \in rs, q \in rs : /\ s = Read(r, S) /\ u = Read(q, S)
                                  /\ s.age = r.age + 0 /\ u.age = q.age + 0
                                  /\ r.age \in Nat /\ q.age \in Nat
    BY <1>1 DEF Comes
  <2>2. r.age = q.age
    BY <1>3, <2>1
  <2>3. QED
    BY <2>1, <2>2 DEF GoodRows, OnePerAge
<1>4. QED
  BY <1>2, <1>3 DEF GoodRows, OnePerAge

----------------------------------------------------------------------------
(* The job: what it reads and what it leaves.                                *)

ReadBy(edge, mid, k) == Recent(mid[k - 1], k, edge[k])

\* The job of a system that is up.
InRun(edge, mid, made) ==
  /\ RecordsInv /\ phase = RunEvery
  /\ edge \in [Levels -> BOOLEAN] /\ RunChanges(edge, mid, made)

LEMMA RowsBeforeRun ==
  ASSUME RecordsInv, phase = RunEvery, NEW k \in Types
  PROVE  /\ GoodRows(rows[k], k)
         /\ k # 0 => \A r \in rows[k] : r.age \in Nat /\ r.age >= RunEvery
<1>1. RecordsTypeOK /\ TrueRows /\ Aligned
  BY DEF RecordsInv
<1>2. ASSUME NEW r \in rows[k], k # 0 PROVE r.age \in Multiples /\ r.age \in Nat /\ r.age >= RunEvery
  <2>1. r.age \in Nat /\ r.age - RunEvery \in Multiples
    BY <1>1, <1>2, RowFields, LevelFacts DEF Aligned
  <2>2. r.age - RunEvery \in Nat /\ (r.age - RunEvery) + RunEvery \in Multiples
    BY <2>1, MultipleFacts
  <2>3. (r.age - RunEvery) + RunEvery = r.age
    BY <2>1, Sizes
  <2>4. QED
    BY <2>1, <2>2, <2>3, Sizes
<1>3. QED
  BY <1>1, <1>2 DEF GoodRows, RecordsTypeOK, TrueRows, OnePerAge

\* What a level makes.
LEMMA MadeRow ==
  ASSUME NEW edge, NEW mid, NEW made, InRun(edge, mid, made), NEW k \in Levels, GoodRows(mid[k - 1], k - 1)
  PROVE  /\ IsFiniteSet(ReadBy(edge, mid, k))
         /\ GoodRows(mid[k], k)
         /\ \A r \in mid[k] : r \in rows[k] \/ (k \in made /\ r.age = 0)
         /\ k \in made => \E r \in mid[k] : r.age = 0
<1> DEFINE S == ReadBy(edge, mid, k)
           A == AverageSystemStatsSlice(S)
<1>1. k \in Types /\ k - 1 \in Types /\ k # 0
  BY LevelFacts
<1>2. /\ k \in made <=> Makes(rows[k], S, k)
      /\ mid[k] = IF k \in made THEN rows[k] \cup {A} ELSE rows[k]
  BY DEF InRun, RunChanges, ReadBy
<1>3. IsFiniteSet(S) /\ S \subseteq mid[k - 1]
  <2>1. IsFiniteSet(mid[k - 1])
    BY <1>1, FiniteRows DEF GoodRows
  <2>2. S \subseteq mid[k - 1]
    BY DEF ReadBy, Recent
  <2> HIDE DEF S
  <2>3. QED
    BY <2>1, <2>2, FS_Subset
<1>4. GoodRows(rows[k], k) /\ \A r \in rows[k] : r.age \in Nat /\ r.age # 0
  BY <1>1, RowsBeforeRun, Sizes DEF InRun
<1>5. CASE k \in made
  <2>1. S # {}
    <3>1. ~(Cardinality(S) < MinShorter[k])
      BY <1>2, <1>5 DEF Makes
    <3>2. Cardinality(S) # 0
      BY <1>3, <3>1, FS_CardinalityType, Sizes
    <3>3. QED
      BY <1>3, <3>2, FS_EmptySet
  <2>2. A \in RowType(k) /\ TrueRow(A) /\ A.age = 0 /\ A.peak = A.high
    <3>1. \A r \in S : r \in RowType(k - 1) /\ TrueRow(r)
      BY <1>3 DEF GoodRows
    <3> HIDE DEF S
    <3>2. QED
      BY <1>3, <2>1, <3>1, AverageIsTrue
  <2>3. mid[k] = rows[k] \cup {A}
    BY <1>2, <1>5
  <2> HIDE DEF A, S
  <2>4. GoodRows(mid[k], k)
    <3>1. ASSUME NEW r \in mid[k], NEW s \in mid[k], r.age = s.age PROVE r = s
      BY <1>4, <2>2, <2>3, <3>1 DEF GoodRows, OnePerAge
    <3>2. QED
      BY <1>4, <2>2, <2>3, <3>1, SmallMultiple DEF GoodRows, OnePerAge
  <2>5. QED
    BY <1>3, <1>5, <2>2, <2>3, <2>4 DEF S
<1>6. CASE k \notin made
  BY <1>2, <1>3, <1>4, <1>6
<1>7. QED
  BY <1>5, <1>6

LEMMA MadeRows ==
  ASSUME NEW edge, NEW mid, NEW made, InRun(edge, mid, made)
  PROVE  /\ \A k \in Types : GoodRows(mid[k], k)
         /\ \A k \in Levels : /\ IsFiniteSet(ReadBy(edge, mid, k))
                              /\ \A r \in mid[k] : r \in rows[k] \/ (k \in made /\ r.age = 0)
                              /\ k \in made => \E r \in mid[k] : r.age = 0
<1> DEFINE T == {k \in Types : GoodRows(mid[k], k)}
<1>1. 0 \in T
  <2>1. mid[0] = rows[0]
    BY DEF InRun, RunChanges
  <2>2. GoodRows(rows[0], 0)
    BY RowsBeforeRun, LevelFacts DEF InRun
  <2>3. QED
    BY <2>1, <2>2, LevelFacts
<1>2. ASSUME NEW k \in Levels, k - 1 \in T PROVE k \in T
  BY <1>2, MadeRow, LevelFacts
<1>3. Types \subseteq T
  <2> HIDE DEF T
  <2> QED BY <1>1, <1>2, TypesSet
<1>4. QED
  BY <1>3, MadeRow, LevelFacts

LEMMA RowsAfterRun ==
  ASSUME NEW edge, NEW mid, NEW made, InRun(edge, mid, made), NEW k \in Types
  PROVE  /\ GoodRows(rows'[k], k)
         /\ \A s \in rows'[k] : \E r \in mid[k] :
              /\ Comes(r, s, 0) /\ s.age = r.age
              /\ k + 1 \in made /\ r \in ReadBy(edge, mid, k + 1) => s.used
         /\ \A r \in mid[k] : \E s \in rows'[k] : Comes(r, s, 0) /\ s.age = r.age
<1> DEFINE S == ReadBy(edge, mid, k + 1)
<1>1. GoodRows(mid[k], k)
  BY MadeRows
<1>2. rows'[k] = IF k + 1 \in made THEN Marking(mid[k], S) ELSE mid[k]
  BY DEF InRun, RunChanges, ReadBy
<1>3. \A r \in mid[k] : r \in RowType(k) /\ r.age \in Nat
  BY <1>1 DEF GoodRows, RowType
<1> HIDE DEF S
<1>4. CASE k + 1 \in made
  <2>1. rows'[k] = {Read(r, S) : r \in mid[k]}
    BY <1>2, <1>4 DEF Marking, Read
  <2>2. ASSUME NEW r \in mid[k]
        PROVE  /\ Comes(r, Read(r, S), 0) /\ Read(r, S).age = r.age
               /\ r \in S => Read(r, S).used
    BY <1>3, ReadFields DEF Comes
  <2>3. GoodRows(rows'[k], k)
    BY <1>1, <1>2, <1>4, MarkingIsGood
  <2>4. QED
    BY <2>1, <2>2, <2>3 DEF S
<1>5. CASE k + 1 \notin made
  <2>1. \A r \in mid[k] : Comes(r, r, 0)
    BY <1>3 DEF Comes
  <2>2. QED
    BY <1>1, <1>2, <1>5, <2>1
<1>6. QED
  BY <1>4, <1>5

----------------------------------------------------------------------------
(* The job: without interruption every level has the row of every period.    *)

\* Level 1: the samples of the last period are there.
LEMMA FirstLevelMade ==
  ASSUME NEW edge, NEW mid, NEW made, InRun(edge, mid, made), Top # 0, steady >= FilledBy[1] - RunEvery
  PROVE  1 \in made
<1> DEFINE S == ReadBy(edge, mid, 1)
           n == MinShorter[1]
           At(a) == CHOOSE r \in rows[0] : r.age = a
           f == [a \in 1 .. n |-> At(a)]
<1>1. 1 \in Levels
  BY SizesAssumption DEF Levels
<1>2. n \in Nat /\ Duration[1] \in Nat /\ n < Duration[1] /\ Retention[0] > Duration[1] /\ Retention[0] \in Nat
  <2>1. Retention[1 - 1] > Duration[1]
    BY <1>1, Sizes
  <2>2. 1 - 1 = 0
    OBVIOUS
  <2>3. n < Duration[1]
    BY <1>1, RhythmAssumption
  <2>4. QED
    BY <1>1, <2>1, <2>2, <2>3, Sizes, LevelFacts
<1>3. steady \in Nat /\ steady >= Duration[1]
  <2>1. FilledBy[1] = FilledBy[1 - 1] + Duration[1] /\ FilledBy[0] = RunEvery
    BY <1>1, FilledFacts
  <2>2. steady \in Nat
    BY Clock DEF InRun, RecordsInv
  <2>3. QED
    BY <1>2, <2>1, <2>2, Sizes
<1>4. ASSUME NEW a \in 1 .. n PROVE At(a) \in S /\ At(a).age = a
  <2>1. a \in Nat /\ a # 0 /\ a < steady /\ a < Retention[0] /\ a < Duration[1]
    BY <1>2, <1>3
  <2>2. \E r \in rows[0] : r.age = a
    BY <2>1 DEF InRun, RecordsInv, SamplesStored
  <2>3. At(a) \in rows[0] /\ At(a).age = a
    BY <2>2
  <2>4. mid[1 - 1] = rows[0]
    BY DEF InRun, RunChanges
  <2> HIDE DEF At
  <2>5. QED
    BY <2>1, <2>3, <2>4 DEF ReadBy, Recent
<1>5. IsFiniteSet(S)
  BY <1>1, MadeRows
<1> HIDE DEF At, S
<1>6. n <= Cardinality(S) /\ Cardinality(S) \in Nat
  <2>1. f \in [1 .. n -> S] /\ \A i, j \in 1 .. n : f[i] = f[j] => i = j
    BY <1>4
  <2> HIDE DEF f, n
  <2>2. QED
    BY <1>2, <1>5, <2>1, CountAtLeast
<1>7. ~(Cardinality(S) < n)
  BY <1>2, <1>6
<1>8. ~HasRow(rows[1], 1)
  BY DEF HasRow
<1>9. 1 \in made <=> Makes(rows[1], S, 1)
  BY <1>1 DEF InRun, RunChanges, ReadBy, S
<1>10. QED
  BY <1>7, <1>8, <1>9 DEF Makes

\* The period that starts x minutes ago, once a run is over.
CoveredBy(rs, k, x) ==
  /\ steady >= FilledBy[k] - RunEvery + x
  /\ x = 0 \/ (k < Top /\ x + Duration[k] <= Duration[k + 1])
  => \E r \in rs : x <= r.age /\ r.age < x + Duration[k]

\* Before the run it started RunEvery minutes later.
LEMMA EarlierPeriods ==
  ASSUME RecordsInv, phase = RunEvery, NEW k \in Levels, NEW x \in Multiples, x # 0
  PROVE  CoveredBy(rows[k], k, x)
<1> SUFFICES ASSUME steady >= FilledBy[k] - RunEvery + x, k < Top, x + Duration[k] <= Duration[k + 1]
             PROVE  \E r \in rows[k] : x <= r.age /\ r.age < x + Duration[k]
  BY DEF CoveredBy
<1> DEFINE y == x - RunEvery
<1>1. y \in Multiples /\ y \in Nat /\ x = y + RunEvery
  BY MultipleFacts, Sizes
<1>2. /\ FilledBy[k] \in Nat /\ Duration[k] \in Nat /\ Duration[k + 1] \in Nat /\ RunEvery \in Nat /\ steady \in Nat
      /\ \A r \in rows[k] : r.age \in Nat
  <2>1. k + 1 \in Levels /\ k \in Types
    BY LevelFacts
  <2>2. QED
    BY <2>1, FilledFacts, Sizes, Clock, RowFields DEF RecordsInv
<1> HIDE DEF y
<1>3. steady - phase + RunEvery >= FilledBy[k] + y
  BY <1>1, <1>2
<1>4. y + Duration[k] + phase <= Duration[k + 1]
  BY <1>1, <1>2
<1>5. PeriodRow(k, y)
  BY <1>1 DEF RecordsInv, AllCovered
<1>6. PICK r \in rows[k] : y <= r.age - phase /\ r.age - phase < y + Duration[k]
  BY <1>3, <1>4, <1>5 DEF PeriodRow
<1>7. x <= r.age /\ r.age < x + Duration[k]
  BY <1>1, <1>2, <1>6
<1>8. QED
  BY <1>7

\* Level k finds one row in each of the periods of the level before.
LEMMA NextLevelMade ==
  ASSUME NEW edge, NEW mid, NEW made, InRun(edge, mid, made), NEW k \in Levels, k # 1,
         \A x \in Multiples : CoveredBy(mid[k - 1], k - 1, x),
         steady >= FilledBy[k] - RunEvery
  PROVE  ~(Cardinality(ReadBy(edge, mid, k)) < MinShorter[k])
<1> DEFINE S == ReadBy(edge, mid, k)
           n == MinShorter[k]
           D == Duration[k - 1]
           In(r, i) == (i - 1) * D <= r.age /\ r.age < (i - 1) * D + D
           At(i) == CHOOSE r \in mid[k - 1] : In(r, i)
           f == [i \in 1 .. n |-> At(i)]
<1>1. /\ k - 1 \in Levels /\ k - 1 \in Types /\ k \in Nat /\ k - 1 < Top /\ (k - 1) + 1 = k
      /\ n \in Nat /\ D \in Nat /\ D > 0 /\ Duration[k] \in Nat /\ n * D <= Duration[k]
  <2>1. k - 1 \in Levels /\ k - 1 \in Types /\ k \in Nat /\ k - 1 < Top /\ (k - 1) + 1 = k
    BY SizesAssumption DEF Levels, Types
  <2>2. n * D <= Duration[k]
    BY RhythmAssumption
  <2>3. QED
    BY <2>1, <2>2, Sizes, Rhythm
<1>2. /\ steady \in Nat /\ FilledBy[k - 1] \in Nat /\ FilledBy[k] \in Nat /\ RunEvery \in Nat
      /\ FilledBy[k] = FilledBy[k - 1] + Duration[k]
  BY <1>1, FilledFacts, LevelFacts, Clock, Sizes DEF InRun, RecordsInv
<1>3. \A r \in mid[k - 1] : r.age \in Nat
  BY <1>1, MadeRows DEF GoodRows, RowType
<1> HIDE DEF n, D
<1>4. ASSUME NEW i \in 1 .. n
      PROVE  (i - 1) * D \in Multiples /\ (i - 1) * D \in Nat /\ (i - 1) * D + D <= Duration[k]
  <2>1. i - 1 \in Nat /\ i <= n /\ D \in Multiples
    BY <1>1, Rhythm DEF D
  <2>2. (i - 1) * D \in Multiples
    BY <2>1, MultipleTimes
  <2>3. (i - 1) * D + D = i * D
    BY <1>1, <2>1
  <2>4. i * D <= n * D
    BY <1>1, <2>1
  <2>5. i * D \in Nat /\ n * D \in Nat
    BY <1>1
  <2>6. QED
    BY <1>1, <2>2, <2>3, <2>4, <2>5, MultipleFacts
<1>5. ASSUME NEW i \in 1 .. n PROVE At(i) \in S /\ At(i) \in mid[k - 1] /\ In(At(i), i)
  <2> DEFINE x == (i - 1) * D
  <2>1. x \in Multiples /\ x \in Nat /\ x + D <= Duration[k]
    BY <1>4
  <2> HIDE DEF x
  <2>2. steady >= FilledBy[k - 1] - RunEvery + x /\ x + Duration[k - 1] <= Duration[(k - 1) + 1]
    BY <1>1, <1>2, <2>1 DEF D
  <2>3. \E r \in mid[k - 1] : x <= r.age /\ r.age < x + D
    BY <1>1, <2>1, <2>2 DEF CoveredBy, D
  <2>4. At(i) \in mid[k - 1] /\ In(At(i), i)
    BY <2>3 DEF x
  <2> DEFINE q == At(i)
  <2>5. q \in mid[k - 1] /\ q.age < x + D
    BY <2>4 DEF x
  <2> HIDE DEF q
  <2>6. q.age < Duration[k]
    BY <1>1, <1>3, <2>1, <2>5
  <2>7. q \in S
    BY <2>5, <2>6 DEF ReadBy, Recent
  <2>8. QED
    BY <2>4, <2>7 DEF q
<1>6. IsFiniteSet(S)
  BY MadeRows
<1>7. ASSUME NEW i \in 1 .. n, NEW j \in 1 .. n, i < j PROVE At(i) # At(j)
  <2> DEFINE p == At(i)
             q == At(j)
  <2>1. p.age < (i - 1) * D + D /\ (j - 1) * D <= q.age /\ p.age \in Nat /\ q.age \in Nat
    BY <1>3, <1>5
  <2> HIDE DEF p, q
  <2>2. (i - 1) * D + D <= (j - 1) * D
    <3>1. i <= j - 1 /\ i \in Nat /\ j - 1 \in Nat
      BY <1>7
    <3>2. i * D <= (j - 1) * D /\ (i - 1) * D + D = i * D
      BY <1>1, <3>1
    <3>3. QED
      BY <3>2
  <2>3. (i - 1) * D \in Nat /\ (j - 1) * D \in Nat
    BY <1>4
  <2>4. p # q
    BY <1>1, <2>1, <2>2, <2>3
  <2>5. QED
    BY <2>4 DEF p, q
<1> HIDE DEF At, S
<1>8. f \in [1 .. n -> S] /\ \A i, j \in 1 .. n : f[i] = f[j] => i = j
  <2>1. \A i, j \in 1 .. n : i < j \/ j < i \/ i = j
    BY <1>1
  <2>2. \A i, j \in 1 .. n : At(i) = At(j) => i = j
    BY <1>7, <2>1
  <2>3. QED
    BY <1>5, <2>2
<1>9. n <= Cardinality(S) /\ Cardinality(S) \in Nat
  <2> HIDE DEF f
  <2> QED BY <1>1, <1>6, <1>8, CountAtLeast
<1>10. ~(Cardinality(S) < n)
  BY <1>1, <1>9
<1>11. QED
  BY <1>10 DEF S, n

LEMMA RunCovers ==
  ASSUME NEW edge, NEW mid, NEW made, InRun(edge, mid, made)
  PROVE  \A k \in Levels : \A x \in Multiples : CoveredBy(mid[k], k, x)
<1> DEFINE T == {k \in Types : k # 0 => \A x \in Multiples : CoveredBy(mid[k], k, x)}
<1>1. 0 \in T
  BY LevelFacts
<1>2. ASSUME NEW k \in Levels, k - 1 \in T PROVE k \in T
  <2> SUFFICES ASSUME NEW x \in Multiples PROVE CoveredBy(mid[k], k, x)
    BY LevelFacts
  <2>1. rows[k] \subseteq mid[k]
    BY DEF InRun, RunChanges
  <2>2. CASE x # 0
    <3>1. CoveredBy(rows[k], k, x)
      BY <2>2, EarlierPeriods DEF InRun
    <3>2. QED
      BY <2>1, <3>1 DEF CoveredBy
  <2>3. CASE x = 0
    <3> SUFFICES ASSUME steady >= FilledBy[k] - RunEvery + 0
                 PROVE  \E r \in mid[k] : 0 <= r.age /\ r.age < 0 + Duration[k]
      BY <2>3 DEF CoveredBy
    <3>1. FilledBy[k] \in Nat /\ Duration[k] \in Nat /\ Duration[k] > 0 /\ RunEvery \in Nat /\ k \in Types
      BY FilledFacts, LevelFacts, Rhythm, Sizes
    <3>2. steady >= FilledBy[k] - RunEvery
      BY <3>1
    <3>3. \A r \in mid[k] : r.age \in Nat
      BY <3>1, MadeRows DEF GoodRows, RowType
    <3>4. CASE k \in made
      BY <3>1, <3>4, MadeRows
    <3>5. CASE k \notin made
      <4>1. ~Makes(rows[k], ReadBy(edge, mid, k), k)
        BY <3>5 DEF InRun, RunChanges, ReadBy
      <4>2. ~(Cardinality(ReadBy(edge, mid, k)) < MinShorter[k])
        <5>1. CASE k = 1
          BY <3>2, <3>5, <5>1, FirstLevelMade, SizesAssumption DEF Levels
        <5>2. CASE k # 1
          <6>1. k - 1 # 0
            BY <5>2, LevelFacts
          <6>2. \A y \in Multiples : CoveredBy(mid[k - 1], k - 1, y)
            BY <1>2, <6>1
          <6>3. QED
            BY <3>2, <5>2, <6>2, NextLevelMade
        <5>3. QED
          BY <5>1, <5>2
      <4>3. PICK r \in rows[k] : r.age < Duration[k] - 1
        BY <4>1, <4>2 DEF Makes, HasRow
      <4>4. QED
        BY <2>1, <3>1, <3>3, <4>3
    <3>6. QED
      BY <3>4, <3>5
  <2>4. QED
    BY <2>2, <2>3
<1>3. Types \subseteq T
  <2> HIDE DEF T
  <2> QED BY <1>1, <1>2, TypesSet
<1>4. QED
  BY <1>3, LevelFacts

----------------------------------------------------------------------------
(* The job keeps the invariant.                                              *)

\* A row of a type was there before the run, or is as new as it can be.
LEMMA OldRow ==
  ASSUME NEW edge, NEW mid, NEW made, InRun(edge, mid, made), NEW k \in Types, NEW r \in mid[k],
         r.age # 0 \/ k \notin made
  PROVE  r \in rows[k]
<1>1. CASE k = 0
  BY <1>1 DEF InRun, RunChanges
<1>2. CASE k # 0
  BY <1>2, MadeRows, LevelFacts
<1>3. QED
  BY <1>1, <1>2

LEMMA RunKeepsMarked ==
  ASSUME NEW edge, NEW mid, NEW made, InRun(edge, mid, made)
  PROVE  Marked'
<1> SUFFICES ASSUME NEW k \in Levels, k # 1, NEW r \in rows'[k - 1], NEW s \in rows'[k],
                    s.age <= r.age, r.age < s.age + Duration[k]
             PROVE  r.used
  BY DEF Marked
<1>1. k \in Types /\ k - 1 \in Types /\ k # 0 /\ (k - 1) + 1 = k /\ Duration[k] \in Nat
  BY LevelFacts, Sizes
<1>2. PICK p \in mid[k - 1] : /\ Comes(p, r, 0) /\ r.age = p.age
                              /\ k \in made /\ p \in ReadBy(edge, mid, k) => r.used
  BY <1>1, RowsAfterRun
<1>3. PICK q \in mid[k] : s.age = q.age
  BY <1>1, RowsAfterRun
<1>4. p.age \in Nat /\ q.age \in Nat
  BY <1>1, MadeRows DEF GoodRows, RowType
<1>5. CASE q.age = 0 /\ k \in made
  <2>1. p.age < Duration[k]
    BY <1>1, <1>2, <1>3, <1>4, <1>5
  <2>2. p \in ReadBy(edge, mid, k)
    BY <2>1 DEF ReadBy, Recent
  <2>3. QED
    BY <1>2, <1>5, <2>2
<1>6. CASE q.age # 0 \/ k \notin made
  <2>1. q \in rows[k]
    BY <1>1, <1>6, OldRow
  <2>2. q.age >= RunEvery
    BY <1>1, <2>1, RowsBeforeRun DEF InRun
  <2>3. p.age # 0
    BY <1>2, <1>3, <1>4, <2>2, Sizes
  <2>4. p \in rows[k - 1]
    BY <1>1, <2>3, OldRow
  <2>5. p.used
    BY <1>2, <1>3, <2>1, <2>4 DEF InRun, RecordsInv, Marked
  <2>6. QED
    BY <1>2, <2>5 DEF Comes
<1>7. QED
  BY <1>5, <1>6

LEMMA RunKeepsSoonUsed ==
  ASSUME NEW edge, NEW mid, NEW made, InRun(edge, mid, made), phase' = 0, steady' = steady
  PROVE  SoonUsed'
<1> SUFFICES ASSUME NEW k \in Levels, k # 1, NEW s \in rows'[k - 1], ~s.used, steady >= FilledBy[k] + s.age
             PROVE  s.age - 0 < Duration[k] - RunEvery
  BY DEF SoonUsed, FilledBy
<1>1. /\ k \in Types /\ k - 1 \in Types /\ k - 1 \in Levels /\ k # 0 /\ k - 1 # 0 /\ (k - 1) + 1 = k
      /\ Duration[k] \in Nat /\ FilledBy[k] \in Nat /\ RunEvery \in Nat /\ RunEvery > 0 /\ steady \in Nat
      /\ Duration[k] \in Multiples /\ Duration[k] >= RunEvery
  <2>1. k - 1 \in Levels
    BY SizesAssumption DEF Levels
  <2>2. QED
    BY <2>1, LevelFacts, Sizes, FilledFacts, Rhythm, Clock DEF InRun, RecordsInv
<1>2. PICK r \in mid[k - 1] : /\ Comes(r, s, 0) /\ s.age = r.age
                              /\ k \in made /\ r \in ReadBy(edge, mid, k) => s.used
  BY <1>1, RowsAfterRun
<1>3. r.age \in Nat /\ r.age \in Multiples /\ ~r.used
  BY <1>1, <1>2, MadeRows DEF GoodRows, RowType, Comes
<1>4. r \in rows[k - 1] => r.age < Duration[k]
  <2> SUFFICES ASSUME r \in rows[k - 1] PROVE r.age < Duration[k]
    OBVIOUS
  <2>1. r.age - phase < Duration[k] - RunEvery
    BY <1>2, <1>3 DEF InRun, RecordsInv, SoonUsed
  <2>2. QED
    BY <1>1, <1>3, <2>1 DEF InRun
<1>5. k \notin made
  <2> SUFFICES ASSUME k \in made PROVE FALSE
    OBVIOUS
  <2>1. r \notin ReadBy(edge, mid, k)
    BY <1>2
  <2>2. ~(r.age < Duration[k])
    BY <2>1 DEF ReadBy, Recent
  <2>3. r.age # 0
    BY <1>1, <2>2
  <2>4. r \in rows[k - 1]
    BY <1>1, <2>3, OldRow
  <2>5. QED
    BY <1>4, <2>2, <2>4
<1>6. PICK q \in mid[k] : 0 <= q.age /\ q.age < Duration[k]
  <2>1. CoveredBy(mid[k], k, 0)
    BY RunCovers, SmallMultiple
  <2>2. steady >= FilledBy[k] - RunEvery + 0
    BY <1>1, <1>2, <1>3
  <2>3. \E q \in mid[k] : 0 <= q.age /\ q.age < 0 + Duration[k]
    BY <2>1, <2>2 DEF CoveredBy
  <2>4. QED
    BY <1>1, <2>3
<1>7. q \in rows[k] /\ q.age \in Nat /\ q.age \in Multiples /\ q.age >= RunEvery
  <2>1. q \in rows[k]
    BY <1>1, <1>5, OldRow
  <2>2. QED
    BY <1>1, <2>1, RowsBeforeRun DEF InRun, GoodRows
<1>8. q.age + RunEvery <= Duration[k]
  BY <1>1, <1>6, <1>7, MultipleGap
<1> SUFFICES ASSUME ~(r.age < Duration[k] - RunEvery) PROVE FALSE
  BY <1>1, <1>2, <1>3
<1>9. q.age <= r.age
  BY <1>1, <1>3, <1>7, <1>8
<1>10. r.age # 0
  BY <1>1, <1>3, <1>7, <1>9
<1>11. r \in rows[k - 1]
  BY <1>1, <1>10, OldRow
<1>12. r.age < q.age + Duration[k]
  BY <1>1, <1>3, <1>4, <1>7, <1>11
<1>13. r.used
  BY <1>7, <1>9, <1>11, <1>12 DEF InRun, RecordsInv, Marked
<1>14. QED
  BY <1>3, <1>13

LEMMA RunKeepsSamplesUsed ==
  ASSUME NEW edge, NEW mid, NEW made, InRun(edge, mid, made), phase' = 0, steady' = steady
  PROVE  SamplesUsed'
<1> SUFFICES ASSUME Top # 0, NEW s \in rows'[0], s.age > 0, s.age - 0 \notin Multiples,
                    steady >= FilledBy[1] + s.age
             PROVE  s.used
  BY DEF SamplesUsed, FilledBy, Multiples
<1>1. /\ 1 \in Levels /\ 0 \in Types /\ FilledBy[1] \in Nat /\ Duration[1] \in Nat /\ Duration[1] \in Multiples
      /\ Duration[1] >= RunEvery /\ RunEvery \in Nat /\ RunEvery > 0 /\ steady \in Nat
  <2>1. 1 \in Levels
    BY SizesAssumption DEF Levels
  <2>2. QED
    BY <2>1, LevelFacts, FilledFacts, Sizes, Rhythm, Clock DEF InRun, RecordsInv
<1>2. PICK r \in mid[0] : /\ Comes(r, s, 0) /\ s.age = r.age
                          /\ 0 + 1 \in made /\ r \in ReadBy(edge, mid, 0 + 1) => s.used
  BY <1>1, RowsAfterRun
<1>3. r \in rows[0] /\ r.age \in Nat /\ mid[1 - 1] = mid[0]
  <2>1. mid[0] = rows[0]
    BY DEF InRun, RunChanges
  <2>2. QED
    BY <1>1, <2>1, RowFields DEF InRun, RecordsInv
<1>4. 1 \in made
  <2>1. steady >= FilledBy[1] - RunEvery
    BY <1>1, <1>2, <1>3
  <2>2. QED
    BY <2>1, FirstLevelMade
<1>5. CASE r.age < Duration[1]
  <2>1. r \in ReadBy(edge, mid, 1)
    BY <1>3, <1>5 DEF ReadBy, Recent
  <2>2. QED
    BY <1>2, <1>4, <2>1
<1>6. CASE ~(r.age < Duration[1])
  <2>1. r.age \notin Multiples
    BY <1>2, <1>3
  <2>2. r.age > Duration[1]
    BY <1>1, <1>3, <1>6, <2>1
  <2>3. phase = RunEvery /\ r.age > phase
    BY <1>1, <1>3, <2>2 DEF InRun
  <2>4. r.age - phase \notin Multiples
    <3> SUFFICES ASSUME r.age - RunEvery \in Multiples PROVE FALSE
      BY <2>3
    <3>1. (r.age - RunEvery) + RunEvery \in Multiples
      BY MultipleFacts
    <3>2. (r.age - RunEvery) + RunEvery = r.age
      BY <1>1, <1>3
    <3>3. QED
      BY <2>1, <3>1, <3>2
  <2>5. r.used
    BY <1>2, <1>3, <2>3, <2>4 DEF InRun, RecordsInv, SamplesUsed
  <2>6. QED
    BY <1>2, <2>5 DEF Comes
<1>7. QED
  BY <1>5, <1>6

LEMMA RunKeeps ==
  ASSUME RecordsInv, NEW edge \in [Levels -> BOOLEAN], CreateLongerRecords(TRUE, edge)
  PROVE  RecordsInv'
<1>1. phase = RunEvery /\ phase' = 0 /\ steady' = steady /\ sampled' = sampled
  BY DEF CreateLongerRecords
<1>2. PICK mid, made : RunChanges(edge, mid, made)
  BY RunEffect DEF RecordsInv
<1>3. InRun(edge, mid, made)
  BY <1>1, <1>2 DEF InRun
<1>4. RecordsTypeOK /\ IsRows(rows') /\ mid[0] = rows[0]
  BY <1>2 DEF RecordsInv, RunChanges
<1>5. \A k \in Types : GoodRows(rows'[k], k)
  BY <1>3, RowsAfterRun
<1>6. RecordsTypeOK'
  <2>1. phase' \in 0 .. RunEvery
    BY <1>1, Sizes
  <2>2. QED
    BY <1>1, <1>4, <1>5, <2>1 DEF RecordsTypeOK, GoodRows, OnePerAge, RowType, MaxAge
<1>7. Aligned' /\ TrueRows'
  <2>1. ASSUME NEW k \in Levels, NEW r \in rows'[k] PROVE r.age - phase' \in Multiples
    <3>1. r.age \in Multiples
      BY <1>5, LevelFacts DEF GoodRows
    <3>2. r.age \in Nat
      BY <3>1, MultipleFacts
    <3>3. r.age - phase' = r.age
      BY <1>1, <3>2
    <3>4. QED
      BY <3>1, <3>3
  <2>2. QED
    BY <1>5, <2>1 DEF Aligned, TrueRows, GoodRows, TrueRow, Multiples
<1>8. Fresh'
  <2> SUFFICES ASSUME NEW s \in rows'[0], s.age = 0 PROVE sampled
    BY <1>1 DEF Fresh
  <2>1. PICK r \in rows[0] : s.age = r.age
    BY <1>3, <1>4, RowsAfterRun, LevelFacts
  <2>2. QED
    BY <2>1 DEF RecordsInv, Fresh
<1>9. SamplesStored'
  <2> SUFFICES ASSUME NEW a \in Nat, a < steady, a # 0 \/ sampled, a < Retention[0]
               PROVE  \E s \in rows'[0] : s.age = a
    BY <1>1 DEF SamplesStored
  <2>1. PICK r \in rows[0] : r.age = a
    BY DEF RecordsInv, SamplesStored
  <2>2. QED
    BY <1>3, <1>4, <2>1, RowsAfterRun, LevelFacts
<1>10. AllCovered'
  <2> SUFFICES ASSUME NEW k \in Levels, NEW x \in Multiples,
                      steady - 0 + RunEvery >= FilledBy[k] + x,
                      x = 0 \/ (k < Top /\ x + Duration[k] + 0 <= Duration[k + 1])
               PROVE  \E s \in rows'[k] : x <= s.age - 0 /\ s.age - 0 < x + Duration[k]
    BY <1>1 DEF AllCovered, PeriodRow, Multiples, FilledBy
  <2>1. /\ steady \in Nat /\ FilledBy[k] \in Nat /\ x \in Nat /\ RunEvery \in Nat /\ Duration[k] \in Nat
        /\ k \in Types
    BY <1>4, Clock, FilledFacts, LevelFacts, MultipleFacts, Sizes
  <2>2. x = 0 \/ (k < Top /\ x + Duration[k] <= Duration[k + 1])
    BY <2>1
  <2>3. CoveredBy(mid[k], k, x)
    BY <1>3, RunCovers
  <2>4. steady >= FilledBy[k] - RunEvery + x
    BY <2>1
  <2>5. PICK r \in mid[k] : x <= r.age /\ r.age < x + Duration[k]
    BY <2>2, <2>3, <2>4 DEF CoveredBy
  <2>6. PICK s \in rows'[k] : s.age = r.age
    BY <1>3, <2>1, RowsAfterRun
  <2>7. s.age \in Nat
    BY <1>5, <2>1 DEF GoodRows, RowType
  <2>8. QED
    BY <2>5, <2>6, <2>7
<1>11. Marked' /\ SoonUsed' /\ SamplesUsed'
  BY <1>1, <1>3, RunKeepsMarked, RunKeepsSoonUsed, RunKeepsSamplesUsed
<1>12. QED
  BY <1>4, <1>6, <1>7, <1>8, <1>9, <1>10, <1>11 DEF RecordsInv, IsRows

\* The job of a system that is not up.
LEMMA NoRunKeeps ==
  ASSUME RecordsInv, NEW edge, CreateLongerRecords(FALSE, edge)
  PROVE  RecordsInv'
<1>1. phase = RunEvery /\ phase' = 0 /\ steady' = 0 /\ sampled' = sampled /\ rows' = rows
  BY DEF CreateLongerRecords
<1>2. IsRows(rows) /\ RecordsTypeOK /\ Fresh /\ TrueRows /\ Marked
  BY DEF RecordsInv
<1>3. RecordsTypeOK'
  <2>1. steady' \in 0 .. Horizon /\ phase' \in 0 .. RunEvery
    BY <1>1, HorizonIsNat, Sizes
  <2>2. QED
    BY <1>1, <1>2, <2>1 DEF RecordsTypeOK, RowType, MaxAge
<1>4. Fresh' /\ TrueRows' /\ Marked' /\ SamplesStored'
  BY <1>1, <1>2 DEF Fresh, TrueRows, TrueRow, Marked, SamplesStored
<1>5. Aligned'
  <2> SUFFICES ASSUME NEW k \in Levels, NEW r \in rows[k] PROVE r.age - 0 \in Multiples
    BY <1>1 DEF Aligned, Multiples
  <2>1. r.age \in Multiples /\ r.age \in Nat
    BY <1>1, RowsBeforeRun, LevelFacts DEF GoodRows
  <2>2. QED
    BY <2>1
<1>6. AllCovered'
  <2> SUFFICES ASSUME NEW k \in Levels, NEW x \in Multiples
               PROVE  ~(0 - 0 + RunEvery >= FilledBy[k] + x)
    BY <1>1 DEF AllCovered, PeriodRow, Multiples, FilledBy
  <2>1. FilledBy[k] = FilledBy[k - 1] + Duration[k] /\ FilledBy[k - 1] \in Nat /\ FilledBy[k - 1] >= RunEvery
    BY FilledFacts, LevelFacts
  <2>2. Duration[k] \in Nat /\ Duration[k] > 0 /\ RunEvery \in Nat /\ x \in Nat
    BY Rhythm, Sizes, MultipleFacts
  <2>3. QED
    BY <2>1, <2>2
<1>7. \A k \in Levels : FilledBy[k] \in Nat /\ FilledBy[k] > 0
  BY FilledFacts, LevelFacts, Sizes
<1>8. SoonUsed'
  <2> SUFFICES ASSUME NEW k \in Levels, k # 1, NEW r \in rows[k - 1] PROVE ~(0 >= FilledBy[k] + r.age)
    BY <1>1 DEF SoonUsed, FilledBy
  <2>1. r.age \in Nat
    BY <1>2, LevelFacts, RowFields
  <2>2. QED
    BY <1>7, <2>1
<1>9. SamplesUsed'
  <2> SUFFICES ASSUME Top # 0, NEW r \in rows[0] PROVE ~(0 >= FilledBy[1] + r.age)
    BY <1>1 DEF SamplesUsed, FilledBy, Multiples
  <2>1. r.age \in Nat /\ 1 \in Levels
    BY <1>2, LevelFacts, RowFields, SizesAssumption DEF Levels
  <2>2. QED
    BY <1>7, <2>1
<1>10. QED
  BY <1>1, <1>2, <1>3, <1>4, <1>5, <1>6, <1>8, <1>9 DEF RecordsInv, IsRows

----------------------------------------------------------------------------

LEMMA RecordsStep == RecordsInv /\ [RecordsNext]_recordVars => RecordsInv'
<1> SUFFICES ASSUME RecordsInv, [RecordsNext]_recordVars PROVE RecordsInv'
  OBVIOUS
<1>1. CASE NextMinute
  BY <1>1, NextMinuteKeeps
<1>2. CASE NoSample
  BY <1>2, NoSampleKeeps
<1>3. CASE Sample(FALSE, 0)
  BY <1>3, SampleKeeps
<1>4. CASE \E v \in Readings : Sample(TRUE, v)
  <2>1. PICK v \in Readings : Sample(TRUE, v)
    BY <1>4
  <2>2. v \in Nat
    BY Sizes
  <2>3. QED
    BY <2>1, <2>2, SampleKeeps
<1>5. CASE \E up \in BOOLEAN, edge \in [Levels -> BOOLEAN] : CreateLongerRecords(up, edge)
  <2>1. PICK up \in BOOLEAN, edge \in [Levels -> BOOLEAN] : CreateLongerRecords(up, edge)
    BY <1>5
  <2>2. CASE up = TRUE
    BY <2>1, <2>2, RunKeeps
  <2>3. CASE up = FALSE
    BY <2>1, <2>3, NoRunKeeps
  <2>4. QED
    BY <2>2, <2>3
<1>6. CASE deleteOldSystemStats
  BY <1>6, DeleteKeeps
<1>7. CASE UNCHANGED recordVars
  <2>1. rows' = rows /\ phase' = phase /\ sampled' = sampled /\ steady' = steady
    BY <1>7 DEF recordVars
  <2>2. IsRows(rows)' /\ RecordsTypeOK' /\ Fresh' /\ Aligned' /\ TrueRows'
    BY <2>1 DEF RecordsInv, IsRows, RecordsTypeOK, RowType, MaxAge, Fresh, Aligned, Multiples, TrueRows, TrueRow
  <2>3. SamplesStored' /\ Marked'
    BY <2>1 DEF RecordsInv, SamplesStored, Marked
  <2>4. AllCovered'
    BY <2>1 DEF RecordsInv, AllCovered, PeriodRow, FilledBy, Multiples
  <2>5. SoonUsed' /\ SamplesUsed'
    BY <2>1 DEF RecordsInv, SoonUsed, SamplesUsed, FilledBy, Multiples
  <2>6. QED
    BY <2>2, <2>3, <2>4, <2>5 DEF RecordsInv
<1>8. QED
  BY <1>1, <1>2, <1>3, <1>4, <1>5, <1>6, <1>7 DEF RecordsNext

LEMMA RecordsAlways == RecordsSpec => []RecordsInv
<1>1. QED
  BY RecordsInitial, RecordsStep, PTL DEF RecordsSpec

\* The state of the statistics keeps its types, and a type has one row of an age.
THEOREM RecordsTypeCorrect == RecordsSpec => []RecordsTypeOK
<1>1. RecordsInv => RecordsTypeOK
  BY DEF RecordsInv
<1>2. QED
  BY <1>1, RecordsAlways, PTL

\* For any number of levels, any periods that are multiples of the job's, and any minimal
\* numbers of rows that leave room for one missing sample: a system that is up and sampled
\* without interruption has a row of every type for the current period.
THEOREM NoGaps == RecordsSpec => []NoGap
<1>1. ASSUME RecordsInv, steady >= Filled, NEW k \in Levels
      PROVE  \E r \in rows[k] : r.age <= Duration[k]
  <2>1. /\ steady \in Nat /\ phase \in Nat /\ phase <= RunEvery /\ FilledBy[k] \in Nat /\ FilledBy[k] <= Filled
        /\ Filled \in Nat /\ RunEvery \in Nat /\ Duration[k] \in Nat /\ Duration[k] \in Multiples
    BY <1>1, Clock, FilledFacts, LevelFacts, Sizes, Rhythm DEF RecordsInv, Filled
  <2>2. steady - phase + RunEvery >= FilledBy[k] + 0
    BY <1>1, <2>1
  <2>3. PeriodRow(k, 0)
    BY <1>1, SmallMultiple DEF RecordsInv, AllCovered
  <2>4. PICK r \in rows[k] : 0 <= r.age - phase /\ r.age - phase < 0 + Duration[k]
    BY <2>2, <2>3 DEF PeriodRow
  <2>5. r.age - phase \in Multiples /\ r.age \in Nat
    BY <1>1, LevelFacts, RowFields DEF RecordsInv, Aligned
  <2>6. r.age - phase + RunEvery <= Duration[k]
    BY <2>1, <2>4, <2>5, MultipleGap
  <2>7. r.age <= Duration[k]
    BY <2>1, <2>5, <2>6
  <2>8. QED
    BY <2>7
<1>2. RecordsInv => NoGap
  BY <1>1 DEF NoGap
<1>3. QED
  BY <1>2, RecordsAlways, PTL

\* Under the same conditions nothing falls between two periods: every row is averaged by a
\* row of the next type before the cleaner may delete it.
THEOREM NothingSkipped == RecordsSpec => []NoneSkipped
<1>1. ASSUME RecordsInv, NEW k \in Levels, NEW r \in rows[k - 1], r.age > Duration[k],
             steady >= Filled + r.age, k = 1 => (r.age - phase) % RunEvery # 0
      PROVE  r.used
  <2>1. /\ steady \in Nat /\ phase \in Nat /\ phase <= RunEvery /\ FilledBy[k] \in Nat /\ FilledBy[k] <= Filled
        /\ Filled \in Nat /\ RunEvery \in Nat /\ RunEvery > 0 /\ Duration[k] \in Nat /\ Duration[k] >= RunEvery
        /\ r.age \in Nat /\ r.used \in BOOLEAN
    BY <1>1, Clock, FilledFacts, LevelFacts, Sizes, Rhythm, RowFields DEF RecordsInv, Filled
  <2>2. steady >= FilledBy[k] + r.age
    BY <1>1, <2>1
  <2>3. CASE k = 1
    <3>1. r.age > phase
      BY <1>1, <2>1
    <3>2. \A m \in Nat : (m * RunEvery) % RunEvery = 0
      BY <2>1, Z3
    <3>3. r.age - phase \notin Multiples
      BY <1>1, <2>3, <3>2 DEF Multiples
    <3>4. Top # 0 /\ r \in rows[0] /\ steady >= FilledBy[1] + r.age
      BY <2>2, <2>3, SizesAssumption DEF Levels
    <3>5. QED
      BY <1>1, <3>1, <3>3, <3>4 DEF RecordsInv, SamplesUsed
  <2>4. CASE k # 1
    <3> SUFFICES ASSUME ~r.used PROVE FALSE
      OBVIOUS
    <3>1. r.age - phase < Duration[k] - RunEvery
      BY <1>1, <2>2, <2>4 DEF RecordsInv, SoonUsed
    <3>2. QED
      BY <1>1, <2>1, <3>1
  <2>5. QED
    BY <2>3, <2>4
<1>2. RecordsInv => NoneSkipped
  BY <1>1 DEF NoneSkipped
<1>3. QED
  BY <1>2, RecordsAlways, PTL

\* For any samples, stored, missing or late, and any choice of the rows a query finds at its
\* limit: the peak of a longer row is that of its samples, its average between their extremes.
THEOREM RowsFaithful == RecordsSpec => []Faithful
<1>1. RecordsInv => Faithful
  BY LevelFacts DEF RecordsInv, TrueRows, TrueRow, Faithful
<1>2. QED
  BY <1>1, RecordsAlways, PTL
=============================================================================

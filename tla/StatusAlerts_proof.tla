------------------------ MODULE StatusAlerts_proof ------------------------
(* For any number of saving goroutines, alerts and timers, and restarts of   *)
(* the hub at any time: every pending alert has its timer, and an outage     *)
(* whose hook runs alone has its alerts triggered or on their way.           *)
EXTENDS StatusAlerts, TLAPS

\* Which status a goroutine saved, by the step its hook is at.
PcOK(r) ==
  /\ r.pc \in {"find", "deactivate", "uncache"} => r.status \in {"paused", "pending"}
  /\ r.pc = "cancel" => r.status = "paused"
  /\ r.pc = "notify" => r.status \in {"up", "down"}
  /\ r.pc \in {"schedule", "arm"} => r.status = "down"
  /\ r.pc \in {"resolve", "untrigger", "reply"} => r.status = "up"

SaverOK == \A s \in Savers : PcOK(saver[s])

\* Unless hooks overlap, one at most runs, and the System remembers what it saved.
Lone ==
  ~overlapped => \A s, v \in Savers : ~Free(s) /\ ~Free(v) => s = v

Remembered ==
  ~overlapped =>
    \A s \in Savers : saver[s].pc \notin {"idle", "save", "hook"} => saver[s].status = mem

\* Entries are served by timers of their own alert, which are about to run; a timer that
\* is not started yet is in the hands of one saver.
EntryServed ==
  \A a \in Alerts : entry[a] # NoTimer =>
    timer[entry[a]].alert = a /\ timer[entry[a]].pc \in {"new", "armed", "fired"}

StartedSoon ==
  \A t \in Timers : timer[t].pc = "new" =>
    \E s \in Savers : saver[s].pc = "arm" /\ saver[s].timer = t

Armable ==
  \A s \in Savers : saver[s].pc = "arm" =>
    saver[s].timer \in Timers /\ timer[saver[s].timer].pc = "new"

ArmOwn ==
  \A s, v \in Savers :
    saver[s].pc = "arm" /\ saver[v].pc = "arm" /\ saver[s].timer = saver[v].timer => s = v

\* An alert that is triggered, believed to be, or on its way.
Covered(a) ==
  \/ triggered[a] \/ cached[a] \/ entry[a] # NoTimer
  \/ \E t \in Timers : timer[t].alert = a /\ timer[t].pc \in {"popped", "set"}

\* A goroutine that is going to schedule the alert.
Scheduling(a) ==
  \E s \in Savers :
    \/ saver[s].pc = "notify"
    \/ saver[s].pc \in {"schedule", "arm"} /\ a \in saver[s].todo

OutageCovered ==
  ~overlapped /\ mem = "down" /\ fell => \A a \in Alerts : Covered(a) \/ Scheduling(a)

\* The inductive invariant, in two parts: the goroutines' and the timers'.
HookInv == SaverOK /\ Lone /\ Remembered
TimerInv == EntryServed /\ StartedSoon /\ Armable /\ ArmOwn

AlertInv == TypeOK /\ HookInv /\ TimerInv /\ OutageCovered

LEMMA AnAlertIsOne == AnAlert \in Alerts
  BY AlertsAssumption DEF AnAlert

LEMMA RestingTyped ==
  /\ Resting \in SaverType /\ Resting.pc = "idle"
  /\ Off \in TimerType /\ Off.pc = "off"
  BY AnAlertIsOne DEF Resting, SaverType, Status, Off, TimerType

LEMMA InitAlertInv == Init => AlertInv
<1> SUFFICES ASSUME Init PROVE AlertInv
  OBVIOUS
<1>1. TypeOK
  BY RestingTyped DEF Init, TypeOK, Status
<1>2. \A s \in Savers : saver[s].pc = "idle"
  BY RestingTyped DEF Init
<1>3. HookInv
  BY <1>2 DEF HookInv, SaverOK, PcOK, Lone, Remembered, Free
<1>4. TimerInv /\ OutageCovered
  BY <1>2, RestingTyped
     DEF Init, TimerInv, EntryServed, StartedSoon, Armable, ArmOwn, OutageCovered
<1>5. QED
  BY <1>1, <1>3, <1>4 DEF AlertInv

----------------------------------------------------------------------------
(* The steps of a saver.                                                     *)

LEMMA SaverTyped ==
  ASSUME TypeOK, NEW s \in Savers, NEW r \in SaverType, saver' = [saver EXCEPT ![s] = r]
  PROVE  /\ saver' \in [Savers -> SaverType] /\ saver'[s] = r
         /\ \A v \in Savers : v # s => saver'[v] = saver[v]
  BY DEF TypeOK

\* The goroutines' part, for a step after the look at the new status.
LEMMA HookStep ==
  ASSUME AlertInv, NEW s \in Savers, NEW r \in SaverType, saver' = [saver EXCEPT ![s] = r],
         UNCHANGED system, saver[s].pc \notin {"idle", "save", "hook"}, PcOK(r),
         r.pc = "idle" \/ r.status = saver[s].status
  PROVE  HookInv'
<1>1. /\ saver'[s] = r /\ \A v \in Savers : v # s => saver'[v] = saver[v]
      /\ TypeOK /\ HookInv
  BY SaverTyped DEF AlertInv
<1>2. SaverOK'
  BY <1>1 DEF HookInv, SaverOK, PcOK
<1>3. Lone'
  <2>1. ASSUME NEW v \in Savers, ~Free(v)' PROVE ~Free(v)
    BY <1>1, <2>1 DEF Free
  <2>2. QED
    BY <1>1, <2>1 DEF HookInv, Lone, system
<1>4. Remembered'
  BY <1>1 DEF HookInv, Remembered, system
<1>5. QED
  BY <1>2, <1>3, <1>4 DEF HookInv

\* The timers' part, for a step that touches neither the map nor a timer.
LEMMA TimerAside ==
  ASSUME AlertInv, NEW s \in Savers, NEW r \in SaverType, saver' = [saver EXCEPT ![s] = r],
         UNCHANGED pendingAlerts, saver[s].pc # "arm", r.pc # "arm"
  PROVE  TimerInv'
<1>1. /\ saver'[s] = r /\ \A v \in Savers : v # s => saver'[v] = saver[v]
      /\ TypeOK /\ TimerInv
  BY SaverTyped DEF AlertInv
<1>2. EntryServed' /\ StartedSoon'
  BY <1>1 DEF TimerInv, EntryServed, StartedSoon, pendingAlerts
<1>3. Armable' /\ ArmOwn'
  BY <1>1 DEF TimerInv, Armable, ArmOwn, pendingAlerts
<1>4. QED
  BY <1>2, <1>3 DEF TimerInv

\* A goroutine that neither notifies nor schedules is not in the hook of an outage.
LEMMA NotOutage ==
  ASSUME AlertInv, NEW s \in Savers,
         saver[s].pc \notin {"idle", "save", "hook", "notify", "schedule", "arm"}
  PROVE  overlapped \/ mem # "down"
<1>1. TypeOK /\ saver[s] \in SaverType
  BY DEF AlertInv, TypeOK
<1>2. saver[s].status # "down"
  BY <1>1 DEF AlertInv, HookInv, SaverOK, PcOK, SaverType
<1>3. QED
  BY <1>2 DEF AlertInv, HookInv, Remembered

LEMMA ReadInv ==
  ASSUME AlertInv, NEW s \in Savers, NEW st \in Status, Read(s, st)
  PROVE  AlertInv'
<1>0. /\ TypeOK /\ saver[s] \in SaverType /\ saver[s].pc = "idle"
      /\ UNCHANGED <<system, alarms, pendingAlerts>>
  BY DEF AlertInv, TypeOK, Read
<1> DEFINE r == [saver[s] EXCEPT !.pc = "save", !.status = st, !.write = (row # st)]
<1>1. r \in SaverType /\ r.pc = "save" /\ saver' = [saver EXCEPT ![s] = r]
  BY <1>0 DEF Read, SaverType, TypeOK
<1>2. /\ saver' \in [Savers -> SaverType] /\ saver'[s] = r
      /\ \A v \in Savers : v # s => saver'[v] = saver[v]
  BY <1>0, <1>1, SaverTyped
<1>3. TypeOK'
  BY <1>0, <1>2 DEF TypeOK, system, alarms, pendingAlerts
<1>4. HookInv'
  <2>1. SaverOK' /\ Remembered'
    BY <1>0, <1>1, <1>2 DEF AlertInv, HookInv, SaverOK, PcOK, Remembered, system
  <2>2. \A v \in Savers : Free(v)' <=> Free(v)
    BY <1>0, <1>1, <1>2 DEF Free
  <2>3. Lone'
    BY <1>0, <2>2 DEF AlertInv, HookInv, Lone, system
  <2>4. QED
    BY <2>1, <2>3 DEF HookInv
<1>5. TimerInv'
  BY <1>0, <1>1, TimerAside
<1>6. OutageCovered'
  BY <1>0, <1>1, <1>2
     DEF AlertInv, OutageCovered, Covered, Scheduling, system, alarms, pendingAlerts
<1>7. QED
  BY <1>3, <1>4, <1>5, <1>6 DEF AlertInv

LEMMA SaveInv ==
  ASSUME AlertInv, NEW s \in Savers, Save(s)
  PROVE  AlertInv'
<1>0. /\ TypeOK /\ saver[s] \in SaverType /\ saver[s].pc = "save"
      /\ UNCHANGED <<mem, fell, alarms, pendingAlerts>>
  BY DEF AlertInv, TypeOK, Save
<1> DEFINE r == [saver[s] EXCEPT !.pc = "hook", !.write = FALSE]
<1>1. r \in SaverType /\ r.pc = "hook" /\ saver' = [saver EXCEPT ![s] = r]
  BY <1>0 DEF Save, SaverType
<1>2. /\ saver' \in [Savers -> SaverType] /\ saver'[s] = r
      /\ \A v \in Savers : v # s => saver'[v] = saver[v]
  BY <1>0, <1>1, SaverTyped
<1>3. row' \in Status /\ overlapped' = (overlapped \/ ~Alone(s)) /\ overlapped' \in BOOLEAN
  BY <1>0 DEF Save, TypeOK, SaverType
<1>4. TypeOK'
  BY <1>0, <1>2, <1>3 DEF TypeOK, alarms, pendingAlerts
<1>5. HookInv'
  <2>1. SaverOK' /\ Remembered'
    BY <1>0, <1>1, <1>2, <1>3 DEF AlertInv, HookInv, SaverOK, PcOK, Remembered
  <2>2. ASSUME ~overlapped', NEW v \in Savers, ~Free(v)' PROVE v = s
    BY <1>2, <1>3, <2>2 DEF Alone, Free
  <2>3. QED
    BY <2>1, <2>2 DEF HookInv, Lone
<1>6. TimerInv'
  BY <1>0, <1>1, TimerAside
<1>7. OutageCovered'
  BY <1>0, <1>1, <1>2, <1>3
     DEF AlertInv, OutageCovered, Covered, Scheduling, alarms, pendingAlerts
<1>8. QED
  BY <1>4, <1>5, <1>6, <1>7 DEF AlertInv

LEMMA SaveErrInv ==
  ASSUME AlertInv, NEW s \in Savers, SaveErr(s)
  PROVE  AlertInv'
<1>0. /\ TypeOK /\ saver[s].pc = "save" /\ saver' = [saver EXCEPT ![s] = Resting]
      /\ UNCHANGED <<system, alarms, pendingAlerts>>
  BY DEF AlertInv, SaveErr, Finished
<1>2. /\ saver' \in [Savers -> SaverType] /\ saver'[s] = Resting
      /\ \A v \in Savers : v # s => saver'[v] = saver[v]
  BY <1>0, SaverTyped, RestingTyped
<1>3. TypeOK'
  BY <1>0, <1>2 DEF TypeOK, system, alarms, pendingAlerts
<1>4. HookInv'
  <2>1. SaverOK' /\ Remembered'
    BY <1>0, <1>2, RestingTyped DEF AlertInv, HookInv, SaverOK, PcOK, Remembered, system
  <2>2. \A v \in Savers : Free(v)' <=> Free(v)
    BY <1>0, <1>2, RestingTyped DEF Free
  <2>3. Lone'
    BY <1>0, <2>2 DEF AlertInv, HookInv, Lone, system
  <2>4. QED
    BY <2>1, <2>3 DEF HookInv
<1>5. TimerInv'
  BY <1>0, TimerAside, RestingTyped
<1>6. OutageCovered'
  BY <1>0, <1>2, RestingTyped
     DEF AlertInv, OutageCovered, Covered, Scheduling, system, alarms, pendingAlerts
<1>7. QED
  BY <1>3, <1>4, <1>5, <1>6 DEF AlertInv

\* The hook that sees the outage begin goes on to schedule its alerts; whatever other
\* hooks did before does not matter.
LEMMA HookedInv ==
  ASSUME AlertInv, NEW s \in Savers, NEW linked \in BOOLEAN, Hook(s, linked)
  PROVE  AlertInv'
<1>0. /\ TypeOK /\ saver[s] \in SaverType /\ saver[s].pc = "hook"
      /\ UNCHANGED <<row, alarms, pendingAlerts>>
  BY DEF AlertInv, TypeOK, Hook
<1> DEFINE st == saver[s].status
           touched == \/ st = "paused"
                      \/ st = "pending" /\ ~linked
                      \/ {st, mem} = {"up", "down"}
           pc == IF st \in {"paused", "pending"} THEN "find" ELSE "notify"
<1>1. PICK r \in SaverType :
        /\ saver' = [saver EXCEPT ![s] = r]
        /\ touched => r.pc = pc /\ r.status = st
        /\ ~touched => r.pc = "idle"
  <2>1. CASE touched
    <3> DEFINE q == [saver[s] EXCEPT !.pc = pc]
    <3>1. q \in SaverType /\ q.pc = pc /\ q.status = st
      BY <1>0 DEF SaverType
    <3>2. saver' = [saver EXCEPT ![s] = q]
      BY <2>1 DEF Hook, Move
    <3>3. QED
      BY <2>1, <3>1, <3>2
  <2>2. CASE ~touched
    <3>1. saver' = [saver EXCEPT ![s] = Resting]
      BY <2>2 DEF Hook, Finished
    <3>2. QED
      BY <2>2, <3>1, RestingTyped
  <2>3. QED
    BY <2>1, <2>2
<1>2. /\ saver' \in [Savers -> SaverType] /\ saver'[s] = r
      /\ \A v \in Savers : v # s => saver'[v] = saver[v]
  BY <1>0, <1>1, SaverTyped
<1>3. /\ mem' = st /\ st \in Status
      /\ fell' = (IF st = mem THEN fell ELSE mem = "up" /\ st = "down")
      /\ overlapped' = (IF st = mem THEN overlapped ELSE ~Alone(s))
  BY <1>0 DEF Hook, SaverType
<1>4. TypeOK'
  BY <1>0, <1>2, <1>3 DEF TypeOK, alarms, pendingAlerts
<1>5. r.pc = "idle" \/ (r.pc = pc /\ r.status = st /\ touched)
  BY <1>1
<1>6. PcOK(r)
  <2>1. CASE r.pc = "idle"
    BY <2>1 DEF PcOK
  <2>2. CASE r.pc = pc /\ r.status = st
    BY <1>3, <2>2 DEF PcOK, Status
  <2>3. QED
    BY <1>5, <2>1, <2>2
<1>7. ASSUME ~overlapped', NEW v \in Savers, v # s PROVE Free(v)
  <2>1. CASE st = mem
    BY <1>0, <1>3, <1>7, <2>1 DEF AlertInv, HookInv, Lone, Free
  <2>2. CASE st # mem
    BY <1>3, <1>7, <2>2 DEF Alone
  <2>3. QED
    BY <2>1, <2>2
<1>8. HookInv'
  <2>1. SaverOK'
    BY <1>2, <1>6 DEF AlertInv, HookInv, SaverOK
  <2>2. Lone'
    BY <1>2, <1>7 DEF Lone, Free
  <2>3. Remembered'
    BY <1>2, <1>3, <1>5, <1>7 DEF Remembered, Free
  <2>4. QED
    BY <2>1, <2>2, <2>3 DEF HookInv
<1>9. TimerInv'
  BY <1>0, <1>1, <1>5, TimerAside
<1>10. OutageCovered'
  <2> SUFFICES ASSUME ~overlapped', mem' = "down", fell', NEW a \in Alerts
               PROVE  Covered(a)' \/ Scheduling(a)'
    BY DEF OutageCovered
  <2>1. CASE st = mem
    <3>1. Covered(a) \/ Scheduling(a)
      BY <1>3, <2>1 DEF AlertInv, OutageCovered
    <3>2. Covered(a) => Covered(a)'
      BY <1>0 DEF Covered, alarms, pendingAlerts
    <3>3. ~Scheduling(a)
      BY <1>0, <1>7 DEF Scheduling, Free
    <3>4. QED
      BY <3>1, <3>2, <3>3
  <2>2. CASE st # mem
    <3>1. mem = "up" /\ st = "down"
      BY <1>3, <2>2
    <3>2. r.pc = "notify"
      BY <1>1, <3>1
    <3>3. QED
      BY <1>2, <3>2 DEF Scheduling
  <2>3. QED
    BY <2>1, <2>2
<1>11. QED
  BY <1>4, <1>8, <1>9, <1>10 DEF AlertInv

\* A step of a hook that neither notifies nor schedules, and leaves map and timers alone.
LEMMA QuietStep ==
  ASSUME AlertInv, NEW s \in Savers, NEW r \in SaverType, saver' = [saver EXCEPT ![s] = r],
         UNCHANGED <<system, pendingAlerts>>,
         saver[s].pc \in {"find", "deactivate", "uncache", "resolve", "untrigger", "reply"},
         PcOK(r), r.pc = "idle" \/ r.status = saver[s].status, r.pc # "arm",
         triggered' \in [Alerts -> BOOLEAN], cached' \in [Alerts -> BOOLEAN]
  PROVE  AlertInv'
<1>0. TypeOK
  BY DEF AlertInv
<1>1. saver' \in [Savers -> SaverType]
  BY <1>0, SaverTyped
<1>2. TypeOK'
  BY <1>0, <1>1 DEF TypeOK, system, pendingAlerts
<1>3. HookInv'
  BY HookStep
<1>4. TimerInv'
  BY TimerAside
<1>5. OutageCovered'
  BY NotOutage DEF OutageCovered, system
<1>6. QED
  BY <1>2, <1>3, <1>4, <1>5 DEF AlertInv

LEMMA FindTriggeredInv ==
  ASSUME AlertInv, NEW s \in Savers, FindTriggered(s)
  PROVE  AlertInv'
<1>0. TypeOK /\ saver[s] \in SaverType /\ PcOK(saver[s]) /\ saver[s].pc = "find"
  BY DEF AlertInv, TypeOK, HookInv, SaverOK, FindTriggered
<1> DEFINE r == [saver[s] EXCEPT !.pc = "deactivate", !.todo = {a \in Alerts : triggered[a]}]
<1>1. /\ r \in SaverType /\ r.pc = "deactivate" /\ r.status = saver[s].status
      /\ saver' = [saver EXCEPT ![s] = r]
  BY <1>0 DEF FindTriggered, SaverType
<1>2. PcOK(r)
  BY <1>0, <1>1 DEF PcOK
<1>3. QED
  BY <1>0, <1>1, <1>2, QuietStep DEF FindTriggered, TypeOK, alarms

LEMMA DeactivateInv ==
  ASSUME AlertInv, NEW s \in Savers, Deactivate(s)
  PROVE  AlertInv'
<1>0. TypeOK /\ saver[s] \in SaverType /\ PcOK(saver[s]) /\ saver[s].pc = "deactivate"
  BY DEF AlertInv, TypeOK, HookInv, SaverOK, Deactivate
<1>1. PICK a \in saver[s].todo :
        /\ triggered' = [triggered EXCEPT ![a] = FALSE]
        /\ saver' = [saver EXCEPT ![s].pc = "uncache", ![s].alert = a, ![s].todo = @ \ {a}]
  BY DEF Deactivate
<1> DEFINE r == [saver[s] EXCEPT !.pc = "uncache", !.alert = a, !.todo = @ \ {a}]
<1>2. /\ r \in SaverType /\ r.pc = "uncache" /\ r.status = saver[s].status
      /\ saver' = [saver EXCEPT ![s] = r]
  BY <1>0, <1>1 DEF SaverType
<1>3. triggered' \in [Alerts -> BOOLEAN]
  BY <1>0, <1>1 DEF TypeOK
<1>4. PcOK(r)
  BY <1>0, <1>2 DEF PcOK
<1>5. QED
  BY <1>0, <1>2, <1>3, <1>4, QuietStep DEF Deactivate, TypeOK

LEMMA UncacheInv ==
  ASSUME AlertInv, NEW s \in Savers, Uncache(s)
  PROVE  AlertInv'
<1>0. TypeOK /\ saver[s] \in SaverType /\ PcOK(saver[s]) /\ saver[s].pc = "uncache"
  BY DEF AlertInv, TypeOK, HookInv, SaverOK, Uncache
<1> DEFINE r == [saver[s] EXCEPT !.pc = "deactivate"]
<1>1. /\ r \in SaverType /\ r.pc = "deactivate" /\ r.status = saver[s].status
      /\ saver' = [saver EXCEPT ![s] = r]
  BY <1>0 DEF Uncache, Move, SaverType
<1>2. cached' \in [Alerts -> BOOLEAN]
  BY <1>0 DEF Uncache, TypeOK
<1>3. PcOK(r)
  BY <1>0, <1>1 DEF PcOK
<1>4. QED
  BY <1>0, <1>1, <1>2, <1>3, QuietStep DEF Uncache, TypeOK

LEMMA DeactivatedInv ==
  ASSUME AlertInv, NEW s \in Savers, Deactivated(s)
  PROVE  AlertInv'
<1>0. TypeOK /\ saver[s] \in SaverType /\ PcOK(saver[s]) /\ saver[s].pc = "deactivate"
  BY DEF AlertInv, TypeOK, HookInv, SaverOK, Deactivated
<1>1. CASE saver[s].status = "paused"
  <2> DEFINE r == [saver[s] EXCEPT !.pc = "cancel"]
  <2>1. /\ r \in SaverType /\ r.pc = "cancel" /\ r.status = saver[s].status
        /\ saver' = [saver EXCEPT ![s] = r]
    BY <1>0, <1>1 DEF Deactivated, Move, SaverType
  <2>2. PcOK(r)
    BY <1>1, <2>1 DEF PcOK
  <2>3. QED
    BY <1>0, <2>1, <2>2, QuietStep DEF Deactivated, TypeOK, alarms
<1>2. CASE saver[s].status # "paused"
  <2>1. saver' = [saver EXCEPT ![s] = Resting]
    BY <1>2 DEF Deactivated, Finished
  <2>2. PcOK(Resting)
    BY RestingTyped DEF PcOK
  <2>3. QED
    BY <1>0, <2>1, <2>2, RestingTyped, QuietStep DEF Deactivated, TypeOK, alarms
<1>3. QED
  BY <1>1, <1>2

LEMMA UntriggerInv ==
  ASSUME AlertInv, NEW s \in Savers, Untrigger(s)
  PROVE  AlertInv'
<1>0. TypeOK /\ saver[s] \in SaverType /\ PcOK(saver[s]) /\ saver[s].pc = "untrigger"
  BY DEF AlertInv, TypeOK, HookInv, SaverOK, Untrigger
<1> DEFINE r == [saver[s] EXCEPT !.pc = "reply"]
<1>1. /\ r \in SaverType /\ r.pc = "reply" /\ r.status = saver[s].status
      /\ saver' = [saver EXCEPT ![s] = r]
  BY <1>0 DEF Untrigger, Move, SaverType
<1>2. triggered' \in [Alerts -> BOOLEAN]
  BY <1>0 DEF Untrigger, TypeOK
<1>3. PcOK(r)
  BY <1>0, <1>1 DEF PcOK
<1>4. QED
  BY <1>0, <1>1, <1>2, <1>3, QuietStep DEF Untrigger, TypeOK

LEMMA SendUpInv ==
  ASSUME AlertInv, NEW s \in Savers, SendUp(s)
  PROVE  AlertInv'
<1>0. TypeOK /\ saver[s] \in SaverType /\ PcOK(saver[s]) /\ saver[s].pc = "reply"
  BY DEF AlertInv, TypeOK, HookInv, SaverOK, SendUp
<1> DEFINE r == [saver[s] EXCEPT !.pc = "resolve"]
<1>1. /\ r \in SaverType /\ r.pc = "resolve" /\ r.status = saver[s].status
      /\ saver' = [saver EXCEPT ![s] = r]
  BY <1>0 DEF SendUp, Move, SaverType
<1>2. cached' \in [Alerts -> BOOLEAN]
  BY <1>0 DEF SendUp, TypeOK
<1>3. PcOK(r)
  BY <1>0, <1>1 DEF PcOK
<1>4. QED
  BY <1>0, <1>1, <1>2, <1>3, QuietStep DEF SendUp, TypeOK

\* What cancelPendingAlert leaves: no entry of A, every timer as it was or stopped, and
\* the other entries served.
LEMMA CancelParts ==
  ASSUME AlertInv, NEW A \in SUBSET Alerts, cancelPendingAlert(A)
  PROVE  /\ entry' \in [Alerts -> Timers \cup {NoTimer}]
         /\ timer' \in [Timers -> TimerType]
         /\ \A t \in Timers : timer'[t].pc = "new" <=> timer[t].pc = "new"
         /\ EntryServed'
<1>0. TypeOK /\ EntryServed
  BY DEF AlertInv, TimerInv
<1>1. /\ entry' \in [Alerts -> Timers \cup {NoTimer}]
      /\ \A a \in Alerts : entry'[a] = IF a \in A THEN NoTimer ELSE entry[a]
  BY <1>0 DEF cancelPendingAlert, TypeOK
<1>3. /\ timer' \in [Timers -> TimerType]
      /\ \A t \in Timers : \/ timer'[t] = timer[t]
                           \/ timer'[t] = Off /\ timer[t].pc = "armed"
  BY <1>0, RestingTyped DEF cancelPendingAlert, TypeOK
<1>4. \A t \in Timers : timer'[t].pc = "new" <=> timer[t].pc = "new"
  BY RestingTyped, <1>3
<1>5. ASSUME NEW a \in Alerts, entry'[a] # NoTimer
      PROVE  /\ timer'[entry'[a]].alert = a
             /\ timer'[entry'[a]].pc \in {"new", "armed", "fired"}
  <2>1. a \notin A /\ entry'[a] = entry[a] /\ entry[a] \in Timers
    BY <1>0, <1>1, <1>5 DEF TypeOK
  <2>2. ASSUME NEW b \in A, entry[b] = entry[a] PROVE FALSE
    BY <1>0, <2>1, <2>2, NoTimerAssumption DEF EntryServed
  <2>3. timer'[entry[a]] = timer[entry[a]]
    BY <2>1, <2>2 DEF cancelPendingAlert
  <2>4. QED
    BY <1>0, <2>1, <2>3, NoTimerAssumption DEF EntryServed
<1>6. QED
  BY <1>1, <1>3, <1>4, <1>5 DEF EntryServed

\* A step of a hook that may cancel alerts; the outage they were for is over.
LEMMA CancelStep ==
  ASSUME AlertInv, NEW s \in Savers, NEW r \in SaverType, saver' = [saver EXCEPT ![s] = r],
         UNCHANGED <<system, alarms>>, saver[s].pc \in {"cancel", "resolve"},
         PcOK(r), r.pc = "idle" \/ r.status = saver[s].status, r.pc # "arm",
         NEW A \in SUBSET Alerts, cancelPendingAlert(A)
  PROVE  AlertInv'
<1>0. TypeOK
  BY DEF AlertInv
<1>1. /\ saver' \in [Savers -> SaverType] /\ saver'[s] = r
      /\ \A v \in Savers : v # s => saver'[v] = saver[v]
  BY <1>0, SaverTyped
<1>2. /\ entry' \in [Alerts -> Timers \cup {NoTimer}] /\ timer' \in [Timers -> TimerType]
      /\ \A t \in Timers : timer'[t].pc = "new" <=> timer[t].pc = "new"
      /\ EntryServed'
  BY CancelParts
<1>3. TypeOK'
  BY <1>0, <1>1, <1>2 DEF TypeOK, system, alarms
<1>4. HookInv'
  BY HookStep
<1>5. TimerInv'
  <2>1. StartedSoon'
    BY <1>1, <1>2 DEF AlertInv, TimerInv, StartedSoon
  <2>2. Armable' /\ ArmOwn'
    BY <1>1, <1>2 DEF AlertInv, TimerInv, Armable, ArmOwn
  <2>3. QED
    BY <1>2, <2>1, <2>2 DEF TimerInv
<1>6. OutageCovered'
  BY NotOutage DEF OutageCovered, system
<1>7. QED
  BY <1>3, <1>4, <1>5, <1>6 DEF AlertInv

LEMMA CancelInv ==
  ASSUME AlertInv, NEW s \in Savers, CancelPendingStatusAlerts(s)
  PROVE  AlertInv'
<1>1. PcOK(Resting)
  BY RestingTyped DEF PcOK
<1>2. QED
  BY <1>1, RestingTyped, CancelStep DEF CancelPendingStatusAlerts, Finished

\* handleSystemUp cancels an entry or goes on to resolve the alert.
LEMMA ResolveInv ==
  ASSUME AlertInv, NEW s \in Savers, handleSystemUp(s)
  PROVE  AlertInv'
<1>0. /\ TypeOK /\ saver[s] \in SaverType /\ PcOK(saver[s]) /\ saver[s].pc = "resolve"
      /\ saver[s].status = "up" /\ UNCHANGED <<system, alarms>>
  BY DEF AlertInv, TypeOK, HookInv, SaverOK, PcOK, handleSystemUp
<1>1. PICK a \in saver[s].todo :
        \/ /\ saver' = [saver EXCEPT ![s].pc = "untrigger", ![s].alert = a,
                                     ![s].todo = @ \ {a}, ![s].snap = @ \ {a}]
           /\ UNCHANGED pendingAlerts
        \/ cancelPendingAlert({a}) /\ Visited(s, a)
  BY DEF handleSystemUp
<1>2. a \in Alerts
  BY <1>0 DEF SaverType
<1>3. CASE /\ saver' = [saver EXCEPT ![s].pc = "untrigger", ![s].alert = a,
                                     ![s].todo = @ \ {a}, ![s].snap = @ \ {a}]
           /\ UNCHANGED pendingAlerts
  <2> DEFINE r == [saver[s] EXCEPT !.pc = "untrigger", !.alert = a,
                                   !.todo = @ \ {a}, !.snap = @ \ {a}]
  <2>1. /\ r \in SaverType /\ r.pc = "untrigger" /\ r.status = saver[s].status
        /\ saver' = [saver EXCEPT ![s] = r]
    BY <1>0, <1>2, <1>3 DEF SaverType
  <2>2. PcOK(r)
    BY <1>0, <2>1 DEF PcOK
  <2>3. QED
    BY <1>0, <1>3, <2>1, <2>2, QuietStep DEF TypeOK, alarms
<1>4. CASE cancelPendingAlert({a}) /\ Visited(s, a)
  <2> DEFINE r == [saver[s] EXCEPT !.todo = @ \ {a}, !.snap = @ \ {a}]
  <2>1. /\ r \in SaverType /\ r.pc = "resolve" /\ r.status = saver[s].status
        /\ saver' = [saver EXCEPT ![s] = r]
    BY <1>0, <1>4 DEF Visited, SaverType
  <2>2. PcOK(r)
    BY <1>0, <2>1 DEF PcOK
  <2>3. QED
    BY <1>0, <1>2, <1>4, <2>1, <2>2, CancelStep
<1>5. QED
  BY <1>1, <1>3, <1>4

----------------------------------------------------------------------------
(* Scheduling the alerts of an outage.                                       *)

\* The alert stays covered or to be scheduled.
Kept(a) == Covered(a) \/ Scheduling(a)

LEMMA KeptStep ==
  ASSUME AlertInv, UNCHANGED system, \A a \in Alerts : Kept(a) => Kept(a)'
  PROVE  OutageCovered'
  BY DEF AlertInv, OutageCovered, Kept, system

LEMMA HandleInv ==
  ASSUME AlertInv, NEW s \in Savers, HandleStatusAlerts(s)
  PROVE  AlertInv'
<1>0. /\ TypeOK /\ saver[s] \in SaverType /\ PcOK(saver[s]) /\ saver[s].pc = "notify"
      /\ saver[s].status \in {"up", "down"} /\ UNCHANGED <<system, alarms, pendingAlerts>>
  BY DEF AlertInv, TypeOK, HookInv, SaverOK, PcOK, HandleStatusAlerts
<1> DEFINE pc == IF saver[s].status = "down" THEN "schedule" ELSE "resolve"
           r == [saver[s] EXCEPT !.pc = pc, !.todo = Alerts, !.snap = {a \in Alerts : cached[a]}]
<1>1. /\ r \in SaverType /\ r.pc = pc /\ r.status = saver[s].status /\ r.todo = Alerts
      /\ saver' = [saver EXCEPT ![s] = r]
  BY <1>0 DEF HandleStatusAlerts, SaverType
<1>2. saver' \in [Savers -> SaverType] /\ saver'[s] = r
  BY <1>0, <1>1, SaverTyped
<1>3. TypeOK'
  BY <1>0, <1>2 DEF TypeOK, system, alarms, pendingAlerts
<1>4. PcOK(r)
  BY <1>0, <1>1 DEF PcOK
<1>5. HookInv' /\ TimerInv'
  <2>1. r.pc # "arm" /\ saver[s].pc \notin {"idle", "save", "hook", "arm"}
    BY <1>0, <1>1
  <2>2. HookInv'
    BY <1>0, <1>1, <1>4, <2>1, HookStep
  <2>3. TimerInv'
    BY <1>0, <1>1, <2>1, TimerAside
  <2>4. QED
    BY <2>2, <2>3
<1>6. OutageCovered'
  <2> SUFFICES ASSUME ~overlapped', mem' = "down", NEW a \in Alerts PROVE Scheduling(a)'
    BY DEF OutageCovered
  <2>1. saver[s].status = "down"
    BY <1>0 DEF AlertInv, HookInv, Remembered, system
  <2>2. QED
    BY <1>1, <1>2, <2>1 DEF Scheduling
<1>7. QED
  BY <1>3, <1>5, <1>6 DEF AlertInv

\* An alert that has an entry is covered; one that has none gets it.
LEMMA ScheduleInv ==
  ASSUME AlertInv, NEW s \in Savers, schedulePendingStatusAlert(s)
  PROVE  AlertInv'
<1>0. /\ TypeOK /\ saver[s] \in SaverType /\ PcOK(saver[s]) /\ saver[s].pc = "schedule"
      /\ saver[s].status = "down" /\ UNCHANGED <<system, alarms>>
  BY DEF AlertInv, TypeOK, HookInv, SaverOK, PcOK, schedulePendingStatusAlert
<1>1. PICK a \in saver[s].todo :
        \/ entry[a] # NoTimer /\ Visited(s, a) /\ UNCHANGED pendingAlerts
        \/ /\ entry[a] = NoTimer
           /\ \E t \in Timers :
                /\ timer[t].pc = "off"
                /\ entry' = [entry EXCEPT ![a] = t]
                /\ timer' = [timer EXCEPT ![t] = [pc |-> "new", alert |-> a]]
                /\ saver' = [saver EXCEPT ![s].pc = "arm", ![s].timer = t,
                                          ![s].todo = @ \ {a}, ![s].snap = @ \ {a}]
  BY DEF schedulePendingStatusAlert
<1>2. a \in Alerts
  BY <1>0 DEF SaverType
<1>3. CASE entry[a] # NoTimer /\ Visited(s, a) /\ UNCHANGED pendingAlerts
  <2> DEFINE r == [saver[s] EXCEPT !.todo = @ \ {a}, !.snap = @ \ {a}]
  <2>1. /\ r \in SaverType /\ r.pc = "schedule" /\ r.status = saver[s].status
        /\ r.todo = saver[s].todo \ {a} /\ saver' = [saver EXCEPT ![s] = r]
    BY <1>0, <1>3 DEF Visited, SaverType
  <2>2. /\ saver' \in [Savers -> SaverType] /\ saver'[s] = r
        /\ \A v \in Savers : v # s => saver'[v] = saver[v]
    BY <1>0, <2>1, SaverTyped
  <2>3. TypeOK'
    BY <1>0, <1>3, <2>2 DEF TypeOK, system, alarms, pendingAlerts
  <2>4. PcOK(r)
    BY <1>0, <2>1 DEF PcOK
  <2>5. HookInv' /\ TimerInv'
    BY <1>0, <1>3, <2>1, <2>4, HookStep, TimerAside
  <2>6. ASSUME NEW b \in Alerts, Kept(b) PROVE Kept(b)'
    <3>1. Covered(b) => Covered(b)'
      BY <1>0, <1>3 DEF Covered, alarms, pendingAlerts
    <3>2. CASE b = a
      BY <1>3, <3>1, <3>2 DEF Kept, Covered
    <3>3. CASE b # a
      BY <1>0, <2>1, <2>2, <2>6, <3>1, <3>3 DEF Kept, Scheduling
    <3>4. QED
      BY <3>2, <3>3
  <2>7. OutageCovered'
    BY <1>0, <2>6, KeptStep
  <2>8. QED
    BY <2>3, <2>5, <2>7 DEF AlertInv
<1>4. ASSUME entry[a] = NoTimer, NEW t \in Timers, timer[t].pc = "off",
             entry' = [entry EXCEPT ![a] = t],
             timer' = [timer EXCEPT ![t] = [pc |-> "new", alert |-> a]],
             saver' = [saver EXCEPT ![s].pc = "arm", ![s].timer = t,
                                    ![s].todo = @ \ {a}, ![s].snap = @ \ {a}]
      PROVE  AlertInv'
  <2> DEFINE r == [saver[s] EXCEPT !.pc = "arm", !.timer = t,
                                   !.todo = @ \ {a}, !.snap = @ \ {a}]
  <2>1. /\ r \in SaverType /\ r.pc = "arm" /\ r.status = saver[s].status /\ r.timer = t
        /\ r.todo = saver[s].todo \ {a} /\ saver' = [saver EXCEPT ![s] = r]
    BY <1>0, <1>4 DEF SaverType
  <2>2. /\ saver' \in [Savers -> SaverType] /\ saver'[s] = r
        /\ \A v \in Savers : v # s => saver'[v] = saver[v]
    BY <1>0, <2>1, SaverTyped
  <2>3. [pc |-> "new", alert |-> a] \in TimerType
    BY <1>2 DEF TimerType
  <2>4. /\ entry' \in [Alerts -> Timers \cup {NoTimer}]
        /\ timer' \in [Timers -> TimerType]
        /\ entry'[a] = t /\ timer'[t].pc = "new" /\ timer'[t].alert = a
        /\ \A b \in Alerts : b # a => entry'[b] = entry[b]
        /\ \A w \in Timers : w # t => timer'[w] = timer[w]
    BY <1>0, <1>2, <1>4, <2>3 DEF TypeOK
  <2>5. TypeOK'
    BY <1>0, <2>2, <2>4 DEF TypeOK, system, alarms
  <2>6. PcOK(r)
    BY <1>0, <2>1 DEF PcOK
  <2>7. HookInv'
    BY <1>0, <2>1, <2>6, HookStep
  <2>8. TimerInv'
    <3>1. StartedSoon'
      BY <1>0, <2>1, <2>2, <2>4 DEF AlertInv, TimerInv, StartedSoon
    <3>2. EntryServed'
      BY <1>0, <1>4, <2>4, NoTimerAssumption DEF AlertInv, TimerInv, EntryServed, TypeOK
    <3>3. Armable' /\ ArmOwn'
      BY <1>0, <1>4, <2>1, <2>2, <2>4 DEF AlertInv, TimerInv, Armable, ArmOwn
    <3>4. QED
      BY <3>1, <3>2, <3>3 DEF TimerInv
  <2>9. ASSUME NEW b \in Alerts, Kept(b) PROVE Kept(b)'
    <3>1. CASE b = a
      BY <2>4, <3>1, NoTimerAssumption DEF Kept, Covered
    <3>2. CASE b # a
      <4>1. Covered(b) => Covered(b)'
        BY <1>0, <1>4, <2>4, <3>2 DEF Covered, alarms
      <4>2. Scheduling(b) => Scheduling(b)'
        BY <1>0, <2>1, <2>2, <3>2 DEF Scheduling
      <4>3. QED
        BY <2>9, <4>1, <4>2 DEF Kept
    <3>3. QED
      BY <3>1, <3>2
  <2>10. OutageCovered'
    BY <1>0, <2>9, KeptStep
  <2>11. QED
    BY <2>5, <2>7, <2>8, <2>10 DEF AlertInv
<1>5. QED
  BY <1>1, <1>3, <1>4

LEMMA ArmInv ==
  ASSUME AlertInv, NEW s \in Savers, Arm(s)
  PROVE  AlertInv'
<1>0. /\ TypeOK /\ saver[s] \in SaverType /\ PcOK(saver[s]) /\ saver[s].pc = "arm"
      /\ saver[s].timer \in Timers /\ timer[saver[s].timer].pc = "new"
      /\ UNCHANGED <<system, alarms, entry>>
  BY DEF AlertInv, TypeOK, HookInv, SaverOK, TimerInv, Armable, Arm
<1> DEFINE t == saver[s].timer
           r == [saver[s] EXCEPT !.pc = "schedule", !.timer = NoTimer]
           armed == [timer[t] EXCEPT !.pc = "armed"]
<1>1. /\ r \in SaverType /\ r.pc = "schedule" /\ r.status = saver[s].status
      /\ r.todo = saver[s].todo /\ saver' = [saver EXCEPT ![s] = r]
  BY <1>0 DEF Arm, SaverType
<1>2. /\ saver' \in [Savers -> SaverType] /\ saver'[s] = r
      /\ \A v \in Savers : v # s => saver'[v] = saver[v]
  BY <1>0, <1>1, SaverTyped
<1>3. /\ armed \in TimerType /\ armed.pc = "armed" /\ armed.alert = timer[t].alert
      /\ timer' = [timer EXCEPT ![t] = armed]
  BY <1>0 DEF Arm, TypeOK, TimerType
<1>4. /\ timer' \in [Timers -> TimerType] /\ timer'[t] = armed
      /\ \A w \in Timers : w # t => timer'[w] = timer[w]
  BY <1>0, <1>3 DEF TypeOK
<1>5. TypeOK'
  BY <1>0, <1>2, <1>4 DEF TypeOK, system, alarms
<1>6. PcOK(r)
  BY <1>0, <1>1 DEF PcOK
<1>7. HookInv'
  BY <1>0, <1>1, <1>6, HookStep
<1>8. TimerInv'
  <2>1. StartedSoon'
    BY <1>0, <1>2, <1>3, <1>4 DEF AlertInv, TimerInv, StartedSoon
  <2>2. EntryServed'
    BY <1>0, <1>3, <1>4 DEF AlertInv, TimerInv, EntryServed, TypeOK
  <2>3. Armable' /\ ArmOwn'
    BY <1>0, <1>1, <1>2, <1>4 DEF AlertInv, TimerInv, Armable, ArmOwn
  <2>4. QED
    BY <2>1, <2>2, <2>3 DEF TimerInv
<1>9. ASSUME NEW b \in Alerts, Kept(b) PROVE Kept(b)'
  <2>1. Covered(b) => Covered(b)'
    BY <1>0, <1>4 DEF Covered, alarms
  <2>2. Scheduling(b) => Scheduling(b)'
    BY <1>0, <1>1, <1>2 DEF Scheduling
  <2>3. QED
    BY <1>9, <2>1, <2>2 DEF Kept
<1>10. OutageCovered'
  BY <1>0, <1>9, KeptStep
<1>11. QED
  BY <1>5, <1>7, <1>8, <1>10 DEF AlertInv

LEMMA HandledInv ==
  ASSUME AlertInv, NEW s \in Savers, Handled(s)
  PROVE  AlertInv'
<1>0. /\ TypeOK /\ saver[s].pc \in {"schedule", "resolve"} /\ saver[s].todo = {}
      /\ saver' = [saver EXCEPT ![s] = Resting] /\ UNCHANGED <<system, alarms, pendingAlerts>>
  BY DEF AlertInv, Handled, Finished
<1>1. /\ saver' \in [Savers -> SaverType] /\ saver'[s] = Resting
      /\ \A v \in Savers : v # s => saver'[v] = saver[v]
  BY <1>0, SaverTyped, RestingTyped
<1>2. TypeOK'
  BY <1>0, <1>1 DEF TypeOK, system, alarms, pendingAlerts
<1>3. PcOK(Resting)
  BY RestingTyped DEF PcOK
<1>4. HookInv' /\ TimerInv'
  BY <1>0, <1>3, RestingTyped, HookStep, TimerAside
<1>5. ASSUME NEW b \in Alerts, Kept(b) PROVE Kept(b)'
  <2>1. Covered(b) => Covered(b)'
    BY <1>0 DEF Covered, alarms, pendingAlerts
  <2>2. Scheduling(b) => Scheduling(b)'
    BY <1>0, <1>1 DEF Scheduling
  <2>3. QED
    BY <1>5, <2>1, <2>2 DEF Kept
<1>6. OutageCovered'
  BY <1>0, <1>5, KeptStep
<1>7. QED
  BY <1>2, <1>4, <1>6 DEF AlertInv

----------------------------------------------------------------------------
(* The timers.                                                               *)

LEMMA TimerTyped ==
  ASSUME TypeOK, NEW t \in Timers, NEW r \in TimerType, timer' = [timer EXCEPT ![t] = r]
  PROVE  /\ timer' \in [Timers -> TimerType] /\ timer'[t] = r
         /\ \A w \in Timers : w # t => timer'[w] = timer[w]
  BY DEF TypeOK

\* A step of a started timer, which serves no entry afterwards unless it has only fired,
\* and which gives up on an alert only when the alert is covered without it.
LEMMA TimerStep ==
  ASSUME AlertInv, NEW t \in Timers, timer[t].pc \notin {"off", "new"},
         NEW r \in TimerType, timer' = [timer EXCEPT ![t] = r], UNCHANGED <<system, saver>>,
         r.pc # "new", entry' \in [Alerts -> Timers \cup {NoTimer}],
         \A a \in Alerts : entry'[a] \in {entry[a], NoTimer},
         (\A a \in Alerts : entry'[a] # t) \/ (r.pc = "fired" /\ r.alert = timer[t].alert),
         triggered' \in [Alerts -> BOOLEAN], cached' \in [Alerts -> BOOLEAN],
         \A a \in Alerts : Covered(a) => Covered(a)'
  PROVE  AlertInv'
<1>0. TypeOK
  BY DEF AlertInv
<1>1. /\ timer' \in [Timers -> TimerType] /\ timer'[t] = r
      /\ \A w \in Timers : w # t => timer'[w] = timer[w]
  BY <1>0, TimerTyped
<1>2. TypeOK'
  BY <1>0, <1>1 DEF TypeOK, system
<1>3. HookInv'
  BY DEF AlertInv, HookInv, SaverOK, Lone, Remembered, Free, system
<1>4. StartedSoon' /\ Armable' /\ ArmOwn'
  BY <1>1 DEF AlertInv, TimerInv, StartedSoon, Armable, ArmOwn
<1>5. EntryServed'
  BY <1>0, <1>1 DEF AlertInv, TimerInv, EntryServed, TypeOK
<1>6. \A a \in Alerts : Kept(a) => Kept(a)'
  BY DEF Kept, Scheduling
<1>7. OutageCovered'
  BY <1>6, KeptStep
<1>8. QED
  BY <1>2, <1>3, <1>4, <1>5, <1>7 DEF AlertInv, TimerInv

LEMMA FireInv ==
  ASSUME AlertInv, NEW t \in Timers, Fire(t)
  PROVE  AlertInv'
<1>0. TypeOK /\ timer[t] \in TimerType /\ timer[t].pc = "armed"
  BY DEF AlertInv, TypeOK, Fire, At
<1> DEFINE r == [timer[t] EXCEPT !.pc = "fired"]
<1>1. /\ r \in TimerType /\ r.pc = "fired" /\ r.alert = timer[t].alert
      /\ timer' = [timer EXCEPT ![t] = r]
  BY <1>0 DEF TimerType, TypeOK, Fire, Goto
<1>2. \A a \in Alerts : Covered(a) => Covered(a)'
  BY <1>0, <1>1, TimerTyped DEF Covered, Fire, alarms
<1>3. QED
  BY <1>0, <1>1, <1>2, TimerStep DEF Fire, TypeOK, alarms

LEMMA PopInv ==
  ASSUME AlertInv, NEW t \in Timers, Pop(t)
  PROVE  AlertInv'
<1>0. TypeOK /\ timer[t] \in TimerType /\ timer[t].pc = "fired" /\ timer[t].alert \in Alerts
  BY DEF AlertInv, TypeOK, Pop, At, TimerType
<1> DEFINE a == timer[t].alert
<1>1. /\ entry' = [entry EXCEPT ![a] = NoTimer]
      /\ IF entry[a] = NoTimer THEN End(t) ELSE Goto(t, "popped")
      /\ UNCHANGED <<system, saver, alarms>>
  BY DEF Pop
<1>2. /\ entry' \in [Alerts -> Timers \cup {NoTimer}] /\ entry'[a] = NoTimer
      /\ \A b \in Alerts : b # a => entry'[b] = entry[b]
  BY <1>0, <1>1 DEF TypeOK
<1>3. \A b \in Alerts : entry'[b] # t
  BY <1>0, <1>2, NoTimerAssumption DEF AlertInv, TimerInv, EntryServed
<1>4. CASE entry[a] = NoTimer
  <2>1. timer' = [timer EXCEPT ![t] = Off]
    BY <1>1, <1>4 DEF End
  <2>2. \A b \in Alerts : Covered(b) => Covered(b)'
    BY <1>0, <1>1, <1>2, <1>4, <2>1, TimerTyped, RestingTyped DEF Covered, alarms
  <2>3. QED
    BY <1>0, <1>1, <1>2, <1>3, <2>1, <2>2, TimerStep, RestingTyped DEF TypeOK, alarms
<1>5. CASE entry[a] # NoTimer
  <2> DEFINE r == [timer[t] EXCEPT !.pc = "popped"]
  <2>1. /\ r \in TimerType /\ r.pc = "popped" /\ r.alert = a
        /\ timer' = [timer EXCEPT ![t] = r]
    BY <1>0, <1>1, <1>5 DEF TimerType, TypeOK, Goto
  <2>2. \A b \in Alerts : Covered(b) => Covered(b)'
    BY <1>0, <1>1, <1>2, <2>1, TimerTyped DEF Covered, alarms
  <2>3. QED
    BY <1>0, <1>1, <1>2, <1>3, <2>1, <2>2, TimerStep DEF TypeOK, alarms
<1>6. QED
  BY <1>4, <1>5

LEMMA RefreshInv ==
  ASSUME AlertInv, NEW t \in Timers, Refresh(t)
  PROVE  AlertInv'
<1>0. /\ TypeOK /\ timer[t] \in TimerType /\ timer[t].pc = "popped"
      /\ \A a \in Alerts : entry[a] # t
  BY NoTimerAssumption DEF AlertInv, TypeOK, Refresh, At, TimerInv, EntryServed
<1>1. CASE cached[timer[t].alert]
  <2>1. timer' = [timer EXCEPT ![t] = Off]
    BY <1>1 DEF Refresh, End
  <2>2. \A a \in Alerts : Covered(a) => Covered(a)'
    BY <1>0, <1>1, <2>1, TimerTyped, RestingTyped DEF Refresh, Covered, alarms
  <2>3. QED
    BY <1>0, <2>1, <2>2, TimerStep, RestingTyped DEF Refresh, TypeOK, alarms
<1>2. CASE ~cached[timer[t].alert]
  <2> DEFINE r == [timer[t] EXCEPT !.pc = "set"]
  <2>1. /\ r \in TimerType /\ r.pc = "set" /\ r.alert = timer[t].alert
        /\ timer' = [timer EXCEPT ![t] = r]
    BY <1>0, <1>2 DEF Refresh, TimerType, TypeOK, Goto
  <2>2. \A a \in Alerts : Covered(a) => Covered(a)'
    BY <1>0, <2>1, TimerTyped DEF Refresh, Covered, alarms
  <2>3. QED
    BY <1>0, <2>1, <2>2, TimerStep DEF Refresh, TypeOK, alarms
<1>3. QED
  BY <1>1, <1>2

LEMMA SetInv ==
  ASSUME AlertInv, NEW t \in Timers, setAlertTriggered(t)
  PROVE  AlertInv'
<1>0. /\ TypeOK /\ timer[t] \in TimerType /\ timer[t].pc = "set"
      /\ \A a \in Alerts : entry[a] # t
  BY NoTimerAssumption DEF AlertInv, TypeOK, setAlertTriggered, At, TimerInv, EntryServed
<1> DEFINE r == [timer[t] EXCEPT !.pc = "send"]
<1>1. /\ r \in TimerType /\ r.pc = "send" /\ timer' = [timer EXCEPT ![t] = r]
  BY <1>0 DEF setAlertTriggered, TimerType, TypeOK, Goto
<1>2. /\ triggered' \in [Alerts -> BOOLEAN]
      /\ \A a \in Alerts : triggered'[a] = (triggered[a] \/ a = timer[t].alert)
  BY <1>0 DEF setAlertTriggered, TypeOK
<1>3. \A a \in Alerts : Covered(a) => Covered(a)'
  BY <1>0, <1>1, <1>2, TimerTyped DEF setAlertTriggered, Covered
<1>4. QED
  BY <1>0, <1>1, <1>2, <1>3, TimerStep DEF setAlertTriggered, TypeOK

LEMMA SendDownInv ==
  ASSUME AlertInv, NEW t \in Timers, SendDown(t)
  PROVE  AlertInv'
<1>0. /\ TypeOK /\ timer[t] \in TimerType /\ timer[t].pc = "send" /\ timer[t].alert \in Alerts
      /\ \A a \in Alerts : entry[a] # t
  BY NoTimerAssumption
     DEF AlertInv, TypeOK, TimerType, SendDown, At, TimerInv, EntryServed
<1>1. timer' = [timer EXCEPT ![t] = Off]
  BY DEF SendDown, End
<1>2. /\ cached' \in [Alerts -> BOOLEAN]
      /\ \A a \in Alerts : cached'[a] = (cached[a] \/ a = timer[t].alert)
  BY <1>0 DEF SendDown, TypeOK
<1>3. \A a \in Alerts : Covered(a) => Covered(a)'
  BY <1>0, <1>1, <1>2, TimerTyped, RestingTyped DEF SendDown, Covered
<1>4. QED
  BY <1>0, <1>1, <1>2, <1>3, TimerStep, RestingTyped DEF SendDown, TypeOK

\* After a restart every alert is triggered or pending when the row says "down", and none
\* is pending otherwise.
LEMMA RestartInv == AlertInv /\ Restart => AlertInv'
<1> SUFFICES ASSUME AlertInv, Restart PROVE AlertInv'
  OBVIOUS
<1>0. TypeOK
  BY DEF AlertInv
<1>1. PICK f \in [Alerts -> Timers \cup {NoTimer}] :
        /\ \A a \in Alerts : f[a] # NoTimer <=> (row = "down" /\ ~triggered[a])
        /\ \A a, b \in Alerts : f[a] = f[b] /\ a # b => f[a] = NoTimer
        /\ entry' = f
        /\ timer' = [t \in Timers |-> IF \E a \in Alerts : f[a] = t
                       THEN [pc |-> "armed", alert |-> CHOOSE a \in Alerts : f[a] = t]
                       ELSE Off]
  BY DEF Restart
<1>2. /\ saver' \in [Savers -> SaverType]
      /\ \A s \in Savers : saver'[s].pc = "idle"
  BY RestingTyped DEF Restart
<1>4. ASSUME NEW t \in Timers, NEW a \in Alerts, f[a] = t
      PROVE  timer'[t] = [pc |-> "armed", alert |-> a]
  <2>1. \A b \in Alerts : f[b] = t => b = a
    BY <1>1, <1>4, NoTimerAssumption
  <2>2. (CHOOSE b \in Alerts : f[b] = t) = a
    BY <1>4, <2>1
  <2>3. QED
    BY <1>1, <1>4, <2>2
<1>5. ASSUME NEW t \in Timers
      PROVE  timer'[t] \in TimerType /\ timer'[t].pc \in {"armed", "off"}
  <2>1. CASE \E a \in Alerts : f[a] = t
    <3>1. PICK a \in Alerts : f[a] = t
      BY <2>1
    <3>2. [pc |-> "armed", alert |-> a] \in TimerType
      BY DEF TimerType
    <3>3. QED
      BY <1>4, <3>1, <3>2
  <2>2. CASE ~\E a \in Alerts : f[a] = t
    BY <1>1, <2>2, RestingTyped
  <2>3. QED
    BY <2>1, <2>2
<1>6. timer' \in [Timers -> TimerType]
  BY <1>1, <1>5
<1>7. /\ mem' = row /\ row' = row /\ triggered' = triggered /\ cached' = triggered
      /\ overlapped' = FALSE
  BY DEF Restart
<1>8. fell' \in BOOLEAN
  BY <1>0 DEF Restart, TypeOK
<1>9. TypeOK'
  BY <1>0, <1>1, <1>2, <1>6, <1>7, <1>8 DEF TypeOK
<1>10. HookInv'
  BY <1>2, <1>7 DEF HookInv, SaverOK, PcOK, Lone, Remembered, Free
<1>11. TimerInv'
  <2>1. EntryServed'
    BY <1>1, <1>4 DEF EntryServed
  <2>2. StartedSoon' /\ Armable' /\ ArmOwn'
    BY <1>2, <1>5 DEF StartedSoon, Armable, ArmOwn
  <2>3. QED
    BY <2>1, <2>2 DEF TimerInv
<1>12. OutageCovered'
  BY <1>1, <1>7 DEF OutageCovered, Covered
<1>13. QED
  BY <1>9, <1>10, <1>11, <1>12 DEF AlertInv

----------------------------------------------------------------------------
LEMMA SavingInv ==
  ASSUME AlertInv, NEW s \in Savers, Saving(s)
  PROVE  AlertInv'
<1>1. CASE \E linked \in BOOLEAN : Hook(s, linked)
  BY <1>1, HookedInv
<1>2. CASE FindTriggered(s) \/ Deactivate(s) \/ Uncache(s) \/ Deactivated(s)
  BY <1>2, FindTriggeredInv, DeactivateInv, UncacheInv, DeactivatedInv
<1>3. CASE CancelPendingStatusAlerts(s) \/ HandleStatusAlerts(s) \/ schedulePendingStatusAlert(s)
  BY <1>3, CancelInv, HandleInv, ScheduleInv
<1>4. CASE Arm(s) \/ handleSystemUp(s) \/ Untrigger(s) \/ SendUp(s) \/ Handled(s)
  BY <1>4, ArmInv, ResolveInv, UntriggerInv, SendUpInv, HandledInv
<1>5. QED
  BY <1>1, <1>2, <1>3, <1>4, Zenon DEF Saving

LEMMA StutterInv == AlertInv /\ UNCHANGED vars => AlertInv'
<1> SUFFICES ASSUME AlertInv, UNCHANGED vars PROVE AlertInv'
  OBVIOUS
<1>1. TypeOK'
  BY DEF vars, AlertInv, TypeOK
<1>2. HookInv'
  BY DEF vars, AlertInv, HookInv, SaverOK, Lone, Remembered, Free
<1>3. TimerInv'
  BY DEF vars, AlertInv, TimerInv, EntryServed, StartedSoon, Armable, ArmOwn
<1>4. OutageCovered'
  BY DEF vars, AlertInv, OutageCovered, Covered, Scheduling
<1>5. QED
  BY <1>1, <1>2, <1>3, <1>4 DEF AlertInv

LEMMA StepAlertInv == AlertInv /\ [Next]_vars => AlertInv'
<1> SUFFICES ASSUME AlertInv, [Next]_vars PROVE AlertInv'
  OBVIOUS
<1>1. CASE \E s \in Savers : (\E st \in Status : Read(s, st)) \/ Save(s) \/ SaveErr(s) \/ Saving(s)
  BY <1>1, ReadInv, SaveInv, SaveErrInv, SavingInv
<1>2. CASE \E t \in Timers : Fire(t) \/ processPendingAlert(t)
  BY <1>2, FireInv, PopInv, RefreshInv, SetInv, SendDownInv DEF processPendingAlert
<1>3. CASE Restart
  BY <1>3, RestartInv
<1>4. CASE UNCHANGED vars
  BY <1>4, StutterInv
<1>5. QED
  BY <1>1, <1>2, <1>3, <1>4 DEF Next

LEMMA AlwaysAlertInv == Spec => []AlertInv
<1>1. QED
  BY InitAlertInv, StepAlertInv, PTL DEF Spec

----------------------------------------------------------------------------
(* What follows from the inductive invariant.                                *)

\* The variables of a system's status alerts stay in their ranges.
THEOREM TypeCorrect == Spec => []TypeOK
<1>1. AlertInv => TypeOK
  BY DEF AlertInv
<1>2. QED
  BY <1>1, AlwaysAlertInv, PTL

\* Every entry of pendingAlerts has its own timer, running or about to be started by the
\* goroutine that stored it, however many saves overlap: none is stuck in the map.
THEOREM EntriesTimed == Spec => []EntryTimed
<1>1. ASSUME AlertInv PROVE EntryTimed
  <2> SUFFICES ASSUME NEW a \in Alerts, entry[a] # NoTimer
               PROVE  /\ timer[entry[a]].alert = a
                      /\ \/ timer[entry[a]].pc \in {"armed", "fired"}
                         \/ /\ timer[entry[a]].pc = "new"
                            /\ \E s \in Savers : saver[s].pc = "arm" /\ saver[s].timer = entry[a]
    BY DEF EntryTimed
  <2>1. entry[a] \in Timers
    BY <1>1 DEF AlertInv, TypeOK
  <2>2. timer[entry[a]].alert = a /\ timer[entry[a]].pc \in {"new", "armed", "fired"}
    BY <1>1 DEF AlertInv, TimerInv, EntryServed
  <2>3. QED
    BY <1>1, <2>1, <2>2 DEF AlertInv, TimerInv, StartedSoon
<1>2. QED
  BY <1>1, AlwaysAlertInv, PTL

\* No outage that began when the system was up goes by unnoticed if no other hook ran
\* while its own did, whatever overlapping hooks and timers of earlier outages have left
\* and whenever the hub restarts.
THEOREM OutagesWatched == Spec => []Watched
<1>1. ASSUME AlertInv PROVE Watched
  <2> SUFFICES ASSUME Quiet, ~overlapped, mem = "down", fell, NEW a \in Alerts
               PROVE  triggered[a] \/ cached[a] \/ Pending(a)
    BY DEF Watched
  <2>1. \A s \in Savers : saver[s].pc \in {"idle", "save"}
    BY DEF Quiet, Free
  <2>2. Covered(a)
    BY <1>1, <2>1 DEF AlertInv, OutageCovered, Scheduling
  <2>3. CASE entry[a] # NoTimer
    <3>1. entry[a] \in Timers
      BY <1>1, <2>3 DEF AlertInv, TypeOK
    <3>2. timer[entry[a]].pc \in {"armed", "fired"}
      BY <1>1, <2>1, <2>3, <3>1 DEF AlertInv, TimerInv, EntryServed, StartedSoon
    <3>3. QED
      BY <2>3, <3>2 DEF Pending
  <2>4. QED
    BY <2>2, <2>3 DEF Covered, Pending
<1>2. QED
  BY <1>1, AlwaysAlertInv, PTL
=============================================================================

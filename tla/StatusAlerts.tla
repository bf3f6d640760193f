---------------------------- MODULE StatusAlerts ----------------------------
(* Status alerts of one registered system: the hook of a saved row schedules *)
(* an alert when the system goes down and resolves it when it comes back; a  *)
(* timer raises it.  Alert rows, their cache and the pending alerts are      *)
(* shared by the goroutines that save the row and by the timers; pending     *)
(* alerts and the cache are lost when the hub restarts.                      *)
EXTENDS Naturals

CONSTANTS
  Savers,    \* goroutines that save the row and run its hook
  Alerts,    \* Status alert records of the system
  Timers,    \* alertInfo structs with their timers, alive at the same time
  NoTimer,
  Restarts   \* whether the hub restarts

ASSUME NoTimerAssumption == NoTimer \notin Timers
ASSUME RestartsAssumption == Restarts \in BOOLEAN
ASSUME AlertsAssumption == Alerts # {}

VARIABLES
  row,         \* status column of the system
  mem,         \* System.Status
  fell,        \* the last change of mem was from "up" to "down" (history)
  saver,       \* the saving goroutines
  triggered,   \* triggered column of each alert
  cached,      \* the same in alertsCache
  entry,       \* entry[a]: the alertInfo in pendingAlerts, or NoTimer
  timer,       \* timers, and their goroutines in processPendingAlert
  overlapped   \* the hooks of two saves overlapped when mem changed or since (history)

vars == <<row, mem, fell, saver, triggered, cached, entry, timer, overlapped>>
system == <<row, mem, fell, overlapped>>
alarms == <<triggered, cached>>
pendingAlerts == <<entry, timer>>

Status == {"up", "down", "paused", "pending"}

SaverType ==
  [pc : {"idle", "save", "hook", "find", "deactivate", "uncache", "cancel", "notify",
         "schedule", "arm", "resolve", "untrigger", "reply"},
   status : Status,              \* what it saves
   write : BOOLEAN,              \* the row it read has another status
   todo : SUBSET Alerts,         \* alerts its loop has still to visit
   snap : SUBSET Alerts,         \* alerts triggered according to the cache
   alert : Alerts,               \* the alert at hand
   timer : Timers \cup {NoTimer}]  \* the alertInfo at hand

\* "new": stored, its timer not started; "armed"; "fired": the goroutine has started;
\* then steps of processPendingAlert.
TimerType == [pc : {"off", "new", "armed", "fired", "popped", "set", "send"}, alert : Alerts]

\* The variables stay in their ranges.
TypeOK ==
  /\ row \in Status /\ mem \in Status /\ fell \in BOOLEAN
  /\ saver \in [Savers -> SaverType]
  /\ triggered \in [Alerts -> BOOLEAN]
  /\ cached \in [Alerts -> BOOLEAN]
  /\ entry \in [Alerts -> Timers \cup {NoTimer}]
  /\ timer \in [Timers -> TimerType]
  /\ overlapped \in BOOLEAN

AnAlert == CHOOSE a \in Alerts : TRUE
Resting == [pc |-> "idle", status |-> "up", write |-> FALSE, todo |-> {}, snap |-> {},
            alert |-> AnAlert, timer |-> NoTimer]
Off == [pc |-> "off", alert |-> AnAlert]

Init ==
  /\ row \in {"up", "down", "pending"} /\ mem = row /\ fell = FALSE
  /\ saver = [s \in Savers |-> Resting]
  /\ triggered = [a \in Alerts |-> FALSE]
  /\ cached = triggered
  /\ entry = [a \in Alerts |-> NoTimer]
  /\ timer = [t \in Timers |-> Off]
  /\ overlapped = FALSE

----------------------------------------------------------------------------
(* Saving the row, and its hook.                                             *)

Move(s, pc) == saver' = [saver EXCEPT ![s].pc = pc]
Visited(s, a) == saver' = [saver EXCEPT ![s].todo = @ \ {a}, ![s].snap = @ \ {a}]
Finished(s) == saver' = [saver EXCEPT ![s] = Resting]

\* Not in the hook of a save.
Free(s) == saver[s].pc \in {"idle", "save"}
Alone(s) == \A u \in Savers \ {s} : Free(u)

\* Whoever saves reads the row first: an updater to save "up" unless its System is
\* paused, and "down" unless it is paused or down (update, setDown); a request to pause,
\* to resume a paused system, or to change something else.
Read(s, st) ==
  /\ saver[s].pc = "idle"
  /\ \/ st = "up" /\ mem # "paused"
     \/ st = "down" /\ mem \notin {"down", "paused"}
     \/ st = "paused" /\ row # "paused"
     \/ st = "pending" /\ row = "paused"
     \/ st = row
  /\ saver' = [saver EXCEPT ![s].pc = "save", ![s].status = st, ![s].write = (row # st)]
  /\ UNCHANGED <<system, alarms, pendingAlerts>>

\* A save writes the status if it differs from the one that was read, which may be long
\* ago.  Its hook follows, on the same goroutine, whatever hooks are under way.
Save(s) ==
  /\ saver[s].pc = "save"
  /\ row' = IF saver[s].write THEN saver[s].status ELSE row
  /\ saver' = [saver EXCEPT ![s].pc = "hook", ![s].write = FALSE]
  /\ overlapped' = (overlapped \/ ~Alone(s))
  /\ UNCHANGED <<mem, fell, alarms, pendingAlerts>>

SaveErr(s) ==
  /\ saver[s].pc = "save"
  /\ Finished(s)
  /\ UNCHANGED <<system, alarms, pendingAlerts>>

\* onRecordAfterUpdateSuccess remembers the status; alerts are touched when the system
\* is paused, resumed without a connection (with one: an update, no more), or goes
\* between up and down.
Hook(s, linked) ==
  LET st == saver[s].status IN
  /\ saver[s].pc = "hook"
  /\ mem' = st
  /\ fell' = IF st = mem THEN fell ELSE mem = "up" /\ st = "down"
  /\ IF \/ st = "paused"
        \/ st = "pending" /\ ~linked
        \/ {st, mem} = {"up", "down"}
     THEN Move(s, IF st \in {"paused", "pending"} THEN "find" ELSE "notify")
     ELSE Finished(s)
  /\ overlapped' = IF st = mem THEN overlapped ELSE ~Alone(s)
  /\ UNCHANGED <<row, alarms, pendingAlerts>>

\* deactivateAlerts reads the triggered alerts, and saves them one by one.
FindTriggered(s) ==
  /\ saver[s].pc = "find"
  /\ saver' = [saver EXCEPT ![s].pc = "deactivate", ![s].todo = {a \in Alerts : triggered[a]}]
  /\ UNCHANGED <<system, alarms, pendingAlerts>>

Deactivate(s) ==
  /\ saver[s].pc = "deactivate"
  /\ \E a \in saver[s].todo :
       /\ triggered' = [triggered EXCEPT ![a] = FALSE]
       /\ saver' = [saver EXCEPT ![s].pc = "uncache", ![s].alert = a, ![s].todo = @ \ {a}]
  /\ UNCHANGED <<system, cached, pendingAlerts>>

\* The cache follows in the hook of the alert's save.
Uncache(s) ==
  /\ saver[s].pc = "uncache"
  /\ cached' = [cached EXCEPT ![saver[s].alert] = FALSE]
  /\ Move(s, "deactivate")
  /\ UNCHANGED <<system, triggered, pendingAlerts>>

Deactivated(s) ==
  /\ saver[s].pc = "deactivate"
  /\ saver[s].todo = {}
  /\ IF saver[s].status = "paused" THEN Move(s, "cancel") ELSE Finished(s)
  /\ UNCHANGED <<system, alarms, pendingAlerts>>

\* Mutant: the timer is stopped, its entry stays.
stopPendingAlert(A) ==
  /\ entry' = entry
  /\ timer' = [t \in Timers |->
       IF timer[t].pc = "armed" /\ (\E a \in A : entry[a] = t) THEN Off ELSE timer[t]]

\* Mutant: a cancelled alert is no longer known to the map.
forgetPendingAlert(A) ==
  /\ entry' = [a \in Alerts \ A |-> entry[a]]
  /\ timer' = [t \in Timers |->
       IF timer[t].pc = "armed" /\ (\E a \in A : entry[a] = t) THEN Off ELSE timer[t]]

\* cancelPendingAlert of the alerts in A: the entries are taken out, and timers that
\* are armed are stopped.  A timer that has fired, or is not started yet, is not.
cancelPendingAlert(A) ==
  /\ entry' = [a \in Alerts |-> IF a \in A THEN NoTimer ELSE entry[a]]
  /\ timer' = [t \in Timers |->
       IF timer[t].pc = "armed" /\ (\E a \in A : entry[a] = t) THEN Off ELSE timer[t]]

CancelPendingStatusAlerts(s) ==
  /\ saver[s].pc = "cancel"
  /\ cancelPendingAlert(Alerts)
  /\ Finished(s)
  /\ UNCHANGED <<system, alarms>>

----------------------------------------------------------------------------
(* HandleStatusAlerts.                                                       *)

\* The alerts of the system, as the cache has them.
HandleStatusAlerts(s) ==
  /\ saver[s].pc = "notify"
  /\ saver' = [saver EXCEPT
       ![s].pc = IF saver[s].status = "down" THEN "schedule" ELSE "resolve",
       ![s].todo = Alerts,
       ![s].snap = {a \in Alerts : cached[a]}]
  /\ UNCHANGED <<system, alarms, pendingAlerts>>

\* schedulePendingStatusAlert: LoadOrStore; an alert that is pending stays as it is.
schedulePendingStatusAlert(s) ==
  /\ saver[s].pc = "schedule"
  /\ \E a \in saver[s].todo :
       \/ /\ entry[a] # NoTimer
          /\ Visited(s, a)
          /\ UNCHANGED pendingAlerts
       \/ /\ entry[a] = NoTimer
          /\ \E t \in Timers :
               /\ timer[t].pc = "off"
               /\ entry' = [entry EXCEPT ![a] = t]
               /\ timer' = [timer EXCEPT ![t] = [pc |-> "new", alert |-> a]]
               /\ saver' = [saver EXCEPT ![s].pc = "arm", ![s].timer = t,
                                         ![s].todo = @ \ {a}, ![s].snap = @ \ {a}]
  /\ UNCHANGED <<system, alarms>>

\* time.AfterFunc
Arm(s) ==
  /\ saver[s].pc = "arm"
  /\ timer' = [timer EXCEPT ![saver[s].timer].pc = "armed"]
  /\ saver' = [saver EXCEPT ![s].pc = "schedule", ![s].timer = NoTimer]
  /\ UNCHANGED <<system, alarms, entry>>

\* handleSystemUp: a pending alert is cancelled, a triggered one resolved.
handleSystemUp(s) ==
  /\ saver[s].pc = "resolve"
  /\ \E a \in saver[s].todo :
       IF entry[a] = NoTimer /\ a \in saver[s].snap
       THEN /\ saver' = [saver EXCEPT ![s].pc = "untrigger", ![s].alert = a,
                                      ![s].todo = @ \ {a}, ![s].snap = @ \ {a}]
            /\ UNCHANGED pendingAlerts
       ELSE cancelPendingAlert({a}) /\ Visited(s, a)
  /\ UNCHANGED <<system, alarms>>

\* sendStatusAlert("up"): the row, then its hook; the message that follows changes
\* nothing here.
Untrigger(s) ==
  /\ saver[s].pc = "untrigger"
  /\ triggered' = [triggered EXCEPT ![saver[s].alert] = FALSE]
  /\ Move(s, "reply")
  /\ UNCHANGED <<system, cached, pendingAlerts>>

SendUp(s) ==
  /\ saver[s].pc = "reply"
  /\ cached' = [cached EXCEPT ![saver[s].alert] = FALSE]
  /\ Move(s, "resolve")
  /\ UNCHANGED <<system, triggered, pendingAlerts>>

Handled(s) ==
  /\ saver[s].pc \in {"schedule", "resolve"}
  /\ saver[s].todo = {}
  /\ Finished(s)
  /\ UNCHANGED <<system, alarms, pendingAlerts>>

----------------------------------------------------------------------------
(* processPendingAlert, on the goroutine of a timer.                         *)

At(t, pc) == timer[t].pc = pc
Goto(t, pc) == timer' = [timer EXCEPT ![t].pc = pc]
End(t) == timer' = [timer EXCEPT ![t] = Off]

Fire(t) ==
  /\ At(t, "armed")
  /\ Goto(t, "fired")
  /\ UNCHANGED <<system, saver, alarms, entry>>

\* Mutant: a timer whose entry was replaced deletes the other entry and gives up.
PopOwn(t) ==
  LET a == timer[t].alert IN
  /\ At(t, "fired")
  /\ IF entry[a] # t THEN End(t) ELSE Goto(t, "popped")
  /\ entry' = [entry EXCEPT ![a] = NoTimer]
  /\ UNCHANGED <<system, saver, alarms>>

\* LoadAndDelete, by the id of the alert: the entry may be of another timer.
Pop(t) ==
  LET a == timer[t].alert IN
  /\ At(t, "fired")
  /\ IF entry[a] = NoTimer THEN End(t) ELSE Goto(t, "popped")
  /\ entry' = [entry EXCEPT ![a] = NoTimer]
  /\ UNCHANGED <<system, saver, alarms>>

Refresh(t) ==
  /\ At(t, "popped")
  /\ IF cached[timer[t].alert] THEN End(t) ELSE Goto(t, "set")
  /\ UNCHANGED <<system, saver, alarms, entry>>

\* sendStatusAlert("down"): the row, then its hook; the message changes nothing here.
setAlertTriggered(t) ==
  /\ At(t, "set")
  /\ triggered' = [triggered EXCEPT ![timer[t].alert] = TRUE]
  /\ Goto(t, "send")
  /\ UNCHANGED <<system, saver, cached, entry>>

SendDown(t) ==
  /\ At(t, "send")
  /\ cached' = [cached EXCEPT ![timer[t].alert] = TRUE]
  /\ End(t)
  /\ UNCHANGED <<system, saver, triggered, entry>>

----------------------------------------------------------------------------
\* Mutant: the pending alerts are not restored.
RestartForgets ==
  /\ Restarts
  /\ mem' = row
  /\ fell' = IF row = mem THEN fell ELSE mem = "up" /\ row = "down"
  /\ saver' = [s \in Savers |-> Resting]
  /\ cached' = triggered
  /\ entry' = [a \in Alerts |-> NoTimer]
  /\ timer' = [t \in Timers |-> Off]
  /\ overlapped' = FALSE
  /\ UNCHANGED <<row, triggered>>

\* The hub stops at any time and starts again: rows stay; Initialize registers the
\* system with the status of its row; PopulateFromDB and restorePendingStatusAlerts
\* run before it, with nobody to disturb them.
Restart ==
  /\ Restarts
  /\ mem' = row
  /\ fell' = IF row = mem THEN fell ELSE mem = "up" /\ row = "down"
  /\ saver' = [s \in Savers |-> Resting]
  /\ cached' = triggered
  /\ \E f \in [Alerts -> Timers \cup {NoTimer}] :
       /\ \A a \in Alerts : f[a] # NoTimer <=> (row = "down" /\ ~triggered[a])
       /\ \A a, b \in Alerts : f[a] = f[b] /\ a # b => f[a] = NoTimer
       /\ entry' = f
       /\ timer' = [t \in Timers |-> IF \E a \in Alerts : f[a] = t
                      THEN [pc |-> "armed", alert |-> CHOOSE a \in Alerts : f[a] = t]
                      ELSE Off]
  /\ overlapped' = FALSE
  /\ UNCHANGED <<row, triggered>>

Saving(s) ==
  \/ \E linked \in BOOLEAN : Hook(s, linked)
  \/ FindTriggered(s) \/ Deactivate(s) \/ Uncache(s) \/ Deactivated(s)
  \/ CancelPendingStatusAlerts(s)
  \/ HandleStatusAlerts(s) \/ schedulePendingStatusAlert(s) \/ Arm(s)
  \/ handleSystemUp(s) \/ Untrigger(s) \/ SendUp(s) \/ Handled(s)

processPendingAlert(t) == Pop(t) \/ Refresh(t) \/ setAlertTriggered(t) \/ SendDown(t)

Next ==
  \/ \E s \in Savers : (\E st \in Status : Read(s, st)) \/ Save(s) \/ SaveErr(s) \/ Saving(s)
  \/ \E t \in Timers : Fire(t) \/ processPendingAlert(t)
  \/ Restart

\* Goroutines go on and timers expire; the hub is not restarted for ever.  Nobody need
\* save the row.
Fairness ==
  /\ <>[][~Restart]_vars
  /\ \A s \in Savers : WF_vars(Saving(s))
  /\ \A t \in Timers : WF_vars(Fire(t) \/ processPendingAlert(t))

Spec == Init /\ [][Next]_vars /\ Fairness

----------------------------------------------------------------------------
(* Properties.                                                               *)

Quiet == \A s \in Savers : Free(s)

\* Whoever will raise the alert: a timer with its entry in the map, or a goroutine
\* that has taken the entry.
Pending(a) ==
  \/ entry[a] # NoTimer /\ timer[entry[a]].pc \in {"armed", "fired"}
  \/ \E t \in Timers : timer[t].alert = a /\ timer[t].pc \in {"popped", "set"}

\* An outage that began when the system was up does not go by unnoticed: its alerts are
\* triggered, as far as the hub knows, or about to be, across restarts of the hub and
\* whatever entries and timers earlier outages have left, even by hooks that overlapped;
\* unless its own hook overlapped with another (a recovery's hook may then run after it
\* and cancel the alert, or find it pending no longer).
Watched ==
  Quiet /\ ~overlapped /\ mem = "down" /\ fell =>
    \A a \in Alerts : triggered[a] \/ cached[a] \/ Pending(a)

\* No entry is left in pendingAlerts without a timer of its alert that runs or is about
\* to be started, however the hooks of saves, cancellations and expiries overlap: an
\* entry that outlives its outage holds back the next alert for one delay, not for ever.
EntryTimed ==
  \A a \in Alerts : entry[a] # NoTimer =>
    /\ timer[entry[a]].alert = a
    /\ \/ timer[entry[a]].pc \in {"armed", "fired"}
       \/ timer[entry[a]].pc = "new" /\ \E s \in Savers : saver[s].pc = "arm" /\ saver[s].timer = entry[a]

\* The alert of an outage that began when the system was up is triggered in the end,
\* unless the outage ends before or hooks overlap.
Alarmed ==
  \A a \in Alerts :
    (mem = "down" /\ fell /\ Quiet /\ ~overlapped)
      ~> (triggered[a] \/ cached[a] \/ mem # "down" \/ overlapped)
=============================================================================

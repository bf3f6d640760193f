--------------------------- MODULE SystemManager ---------------------------
(***************************************************************************)
(* The life of ONE monitored system in the hub: its row in the `systems`   *)
(* table, the SystemManager store entry for its id, the System structs     *)
(* created for it (each with an updater goroutine), the WebSocket          *)
(* connections its agent opens, and the record hooks that tie them         *)
(* together (internal/hub/systems, internal/hub/ws, agent_connect.go).     *)
(* Different ids share nothing but the map itself, so one id is enough.    *)
(*                                                                         *)
(* Every goroutine that can run this code is a thread with a program       *)
(* counter; a step is one access to shared state (the store, the row, a    *)
(* System struct, a connection).  Hooks run on the thread that saved the   *)
(* row, after the row is committed, so other threads run in between.       *)
(***************************************************************************)
EXTENDS Naturals, FiniteSets

CONSTANTS
  Sys,       \* System structs
  Conns,     \* WebSocket connections of the agent
  Users,     \* requests to the records API, each made at most once
  NoSys, NoConn,
  Recycle    \* whether collected structs are used again

ASSUME NullAssumption == NoSys \notin Sys /\ NoConn \notin Conns
ASSUME RecycleAssumption == Recycle \in BOOLEAN

VARIABLES
  record,    \* status column of the row; "absent" before, "deleted" after
  store,     \* SystemManager.systems[id]
  sys,       \* the System structs
  conn,      \* connection as the hub sees it
  down,      \* DownChan of the connection and the timer that feeds it
  thr        \* goroutines

vars == <<record, store, sys, conn, down, thr>>

Status == {"up", "down", "paused", "pending"}

\* "boot" is the goroutine Initialize starts, "connect" is verifyWsConn,
\* "once" is the extra `go system.update()` of the pending hook (at most one
\* at a time for a struct: a bound of the model).
Updater(i) == <<"updater", i>>
Once(i)    == <<"once", i>>
Connect(c) == <<"connect", c>>
Boot       == <<"boot", NoSys>>
Pollers    == {"updater", "once"} \X Sys
Threads    == Pollers \cup ({"connect"} \X Conns) \cup ({"user"} \X Users)
                \cup {Boot}

Blank == [status |-> "none", ws |-> NoConn, cancelled |-> FALSE]

\* pc    what the thread does next
\* seen  status of the row as the thread last read or saved it
\* new   the struct AddRecord registers
\* old   the struct RemoveSystem looked up
\* next  where RemoveSystem returns to
Off == [pc |-> "off", seen |-> "pending", new |-> NoSys, old |-> NoSys,
        next |-> "off"]

PCs == {"off", "start", "select", "fetch", "read", "save", "failed",
        "savedown", "hook", "find", "lookup", "cancel", "close", "remove",
        "check", "set", "answered"}

SysType == [status : Status \cup {"none"}, ws : Conns \cup {NoConn},
            cancelled : BOOLEAN]
ConnType == {"unused", "open", "closing", "gone"}
Nexts == {"off", "select", "answered", "check", "failed"}
ThreadType == [pc : PCs, seen : Status, new : Sys \cup {NoSys},
               old : Sys \cup {NoSys}, next : Nexts]

TypeOK ==
  /\ record \in Status \cup {"absent", "deleted"}
  /\ store \in Sys \cup {NoSys}
  /\ sys \in [Sys -> SysType]
  /\ conn \in [Conns -> ConnType]
  /\ down \in [Conns -> {"empty", "armed", "full"}]
  /\ thr \in [Threads -> ThreadType]

-----------------------------------------------------------------------------
(* Helpers                                                                 *)

At(t, l) == thr[t].pc = l

\* Where a save and its hook return to: the updater's loop, or the end.
Home(t) == CASE t[1] = "updater" -> "select"
             [] t[1] = "user"    -> "answered"
             [] OTHER            -> "off"

Resting(t) == [Off EXCEPT !.pc = Home(t)]

Goto(t, l) == thr' = [thr EXCEPT ![t].pc = l]
Return(t)  == thr' = [thr EXCEPT ![t] = Resting(t)]

\* RemoveSystem is called and will return to l; what a thread is once it returned.
CallRemove(r, l) == [r EXCEPT !.pc = "lookup", !.next = l]
Removed(t) == IF thr[t].next = Home(t) THEN Resting(t)
              ELSE [thr[t] EXCEPT !.pc = thr[t].next, !.next = "off", !.old = NoSys]

\* ws.Close: a close frame is written; conn is nil only after OnClose.
Closed(c) == IF c # NoConn /\ conn[c] = "open"
             THEN [conn EXCEPT ![c] = "closing"] ELSE conn

\* IsConnected, then a request that can be answered.
Linked(i) == sys[i].ws # NoConn /\ conn[sys[i].ws] = "open"

Live(i) == \/ store = i
           \/ thr[Updater(i)].pc # "off"
           \/ thr[Once(i)].pc # "off"
           \/ \E t \in Threads : thr[t].new = i \/ thr[t].old = i

\* FindRecordById of getRecord: a missing row unregisters the id.
GetRecord(t, found, missing) ==
  thr' = [thr EXCEPT ![t] = IF record \in Status
                            THEN [@ EXCEPT !.pc = found, !.seen = record]
                            ELSE CallRemove(@, missing)]

\* Mutant: the status is written when the System did not have it yet.
WrittenIfNew(t, st) ==
  IF record \in Status /\ sys[t[2]].status # st THEN st ELSE record

\* A save writes the changed columns only, so `status` is written when it
\* differs from the status the thread read.  No row: nothing is written.
Written(t, st) == IF record \in Status /\ thr[t].seen # st THEN st ELSE record

-----------------------------------------------------------------------------
(* System.StartUpdater, update, setDown                                    *)

\* A poller about to run update(): the ticker or the jitter timer fired (it may
\* win over ctx.Done in the select), or this is the first update, 11 s after the
\* start when there is no connection.  A "once" thread starts at "select".
UpdateDue(t) ==
  \/ At(t, "select")
  \/ At(t, "start") /\ sys[t[2]].status # "paused" /\ ~sys[t[2]].cancelled

\* StartUpdater: no first update for a paused or replaced system.
SkipFirst(i) ==
  /\ At(Updater(i), "start") /\ ~UpdateDue(Updater(i))
  /\ Goto(Updater(i), "select")
  /\ UNCHANGED <<record, store, sys, conn, down>>

\* <-downChan: forget the connection, setDown(nil).
DownSignal(i) ==
  /\ At(Updater(i), "select")
  /\ sys[i].ws # NoConn /\ down[sys[i].ws] = "full"
  /\ down' = [down EXCEPT ![sys[i].ws] = "empty"]
  /\ sys' = [sys EXCEPT ![i].ws = NoConn]
  /\ Goto(Updater(i), "failed")
  /\ UNCHANGED <<record, store, conn>>

\* Mutant: the context is checked before the loop and not in its select.
DoneAtStart(i) ==
  /\ At(Updater(i), "start") /\ sys[i].cancelled
  /\ thr' = [thr EXCEPT ![Updater(i)] = Off]
  /\ UNCHANGED <<record, store, sys, conn, down>>

\* <-ctx.Done()
Done(i) ==
  /\ At(Updater(i), "select") /\ sys[i].cancelled
  /\ thr' = [thr EXCEPT ![Updater(i)] = Off]
  /\ UNCHANGED <<record, store, sys, conn, down>>

\* update: a paused system is pinged, and removed when it cannot be; a ping
\* on a connection that is closing may go either way.
HandlePaused(t) ==
  LET c == sys[t[2]].ws IN
  /\ UpdateDue(t) /\ sys[t[2]].status = "paused"
  /\ \/ /\ c # NoConn /\ conn[c] \in {"open", "closing"}
        /\ Return(t)
     \/ /\ c # NoConn => conn[c] # "open"
        /\ thr' = [thr EXCEPT ![t] = CallRemove(Off, Home(t))]
  /\ UNCHANGED <<record, store, sys, conn, down>>

BeginFetch(t) ==
  /\ UpdateDue(t) /\ sys[t[2]].status # "paused"
  /\ thr' = [thr EXCEPT ![t] = [Off EXCEPT !.pc = "fetch"]]
  /\ UNCHANGED <<record, store, sys, conn, down>>

\* The agent's answer to the GetData request is there: the updater has it, whatever
\* becomes of the connection.
FetchOk(t) ==
  /\ At(t, "fetch") /\ Linked(t[2])
  /\ Goto(t, "read")
  /\ UNCHANGED <<record, store, sys, conn, down>>

\* Mutant: update() reports no error when there is no answer.
FetchErrIgnored(t) ==
  /\ At(t, "fetch")
  /\ conn' = Closed(sys[t[2]].ws)
  /\ Return(t)
  /\ UNCHANGED <<record, store, sys, down>>

\* No connection, a timeout or an error answer: the connection is closed.
FetchErr(t) ==
  /\ At(t, "fetch")
  /\ conn' = Closed(sys[t[2]].ws)
  /\ Goto(t, "failed")
  /\ UNCHANGED <<record, store, sys, down>>

\* createRecords reads the row, outside its transaction.
ReadRow(t) ==
  /\ At(t, "read")
  /\ GetRecord(t, "save", "failed")
  /\ UNCHANGED <<record, store, sys, conn, down>>

\* createRecords: the transaction commits status "up", its hook is to run.
SaveUp(t) ==
  /\ At(t, "save")
  /\ record' = Written(t, "up")
  /\ thr' = [thr EXCEPT ![t].pc = "hook", ![t].seen = "up"]
  /\ UNCHANGED <<store, sys, conn, down>>

\* createRecords: a statement of the transaction fails and it rolls back.
SaveErr(t) ==
  /\ At(t, "save")
  /\ thr' = [thr EXCEPT ![t] = [Off EXCEPT !.pc = "failed"]]
  /\ UNCHANGED <<record, store, sys, conn, down>>

\* setDown for the updater; `go system.update()` ignores the error.
SetDown(t) ==
  /\ At(t, "failed")
  /\ IF t[1] = "once" \/ sys[t[2]].status \in {"down", "paused"}
     THEN Return(t)
     ELSE GetRecord(t, "savedown", Home(t))
  /\ UNCHANGED <<record, store, sys, conn, down>>

\* setDown: SaveNoValidate succeeds and runs the hook, or fails.
SaveDown(t) ==
  /\ At(t, "savedown")
  /\ record' = Written(t, "down")
  /\ thr' = [thr EXCEPT ![t].pc = "hook", ![t].seen = "down"]
  /\ UNCHANGED <<store, sys, conn, down>>

SaveDownErr(t) ==
  /\ At(t, "savedown")
  /\ Return(t)
  /\ UNCHANGED <<record, store, sys, conn, down>>

-----------------------------------------------------------------------------
(* onRecordAfterUpdateSuccess, up to the calls into the AlertManager, which *)
(* touch nothing of this module (StatusAlerts and SystemAlerts have them).  *)

\* The registered struct takes the new status.
Remembered(t) == IF store = NoSys THEN sys
                 ELSE [sys EXCEPT ![store].status = thr[t].seen]

\* case paused: deactivateAlerts, CancelPendingStatusAlerts
HookPaused(t) ==
  /\ At(t, "hook") /\ thr[t].seen = "paused"
  /\ sys' = Remembered(t)
  /\ Return(t)
  /\ UNCHANGED <<record, store, conn, down>>

\* case pending, registered with a connection: go system.update()
HookPendingLinked(t) ==
  /\ At(t, "hook") /\ thr[t].seen = "pending"
  /\ store # NoSys /\ sys[store].ws # NoConn
  /\ sys' = Remembered(t)
  /\ LET extra == thr[Once(store)] IN
     thr' = [thr EXCEPT ![t] = Resting(t), ![Once(store)] =
               IF extra.pc = "off" THEN [extra EXCEPT !.pc = "select"] ELSE extra]
  /\ UNCHANGED <<record, store, conn, down>>

\* AddRecord, from its look-up: what is registered by then is removed first.
CallAdd(t) == thr' = [thr EXCEPT ![t] = CallRemove(@, "check")]

\* case pending otherwise: AddRecord, then deactivateAlerts
HookPending(t) ==
  /\ At(t, "hook") /\ thr[t].seen = "pending"
  /\ store # NoSys => sys[store].ws = NoConn
  /\ sys' = Remembered(t)
  /\ CallAdd(t)
  /\ UNCHANGED <<record, store, conn, down>>

\* up or down of an id that is not registered: AddRecord
HookUnknown(t) ==
  /\ At(t, "hook") /\ thr[t].seen \in {"up", "down"} /\ store = NoSys
  /\ CallAdd(t)
  /\ UNCHANGED <<record, store, sys, conn, down>>

\* up or down of a registered id: HandleSystemAlerts, HandleStatusAlerts
HookKnown(t) ==
  /\ At(t, "hook") /\ thr[t].seen \in {"up", "down"} /\ store # NoSys
  /\ sys' = Remembered(t)
  /\ Return(t)
  /\ UNCHANGED <<record, store, conn, down>>

-----------------------------------------------------------------------------
(* AddRecord, AddSystem, RemoveSystem                                      *)

\* GetOk of RemoveSystem, and Has before it when AddRecord calls.  An unknown id is
\* an error every caller ignores.
LookUp(t) ==
  /\ At(t, "lookup")
  /\ thr' = [thr EXCEPT ![t] = IF store = NoSys THEN Removed(t)
                               ELSE [@ EXCEPT !.pc = "cancel", !.old = store]]
  /\ UNCHANGED <<record, store, sys, conn, down>>

\* system.cancel()
Cancel(t) ==
  /\ At(t, "cancel")
  /\ sys' = [sys EXCEPT ![thr[t].old].cancelled = TRUE]
  /\ Goto(t, "close")
  /\ UNCHANGED <<record, store, conn, down>>

\* Mutant: RemoveSystem without closeWebSocketConnection.
CloseSkipped(t) ==
  /\ At(t, "close")
  /\ Goto(t, "remove")
  /\ UNCHANGED <<record, store, sys, conn, down>>

\* system.closeWebSocketConnection()
CloseConn(t) ==
  /\ At(t, "close")
  /\ conn' = Closed(sys[thr[t].old].ws)
  /\ Goto(t, "remove")
  /\ UNCHANGED <<record, store, sys, down>>

\* Mutant: RemoveSystem cancels the updater and leaves the store entry.
RemoveKept(t) ==
  /\ At(t, "remove")
  /\ thr' = [thr EXCEPT ![t] = Removed(t)]
  /\ UNCHANGED <<record, store, sys, conn, down>>

\* systems.Remove, whatever is registered by now.
Remove(t) ==
  /\ At(t, "remove")
  /\ store' = NoSys
  /\ thr' = [thr EXCEPT ![t] = Removed(t)]
  /\ UNCHANGED <<record, sys, conn, down>>

\* A struct that takes the event's status: the caller's, or one NewSystem makes.
Fill(t) ==
  \E i \in Sys :
    /\ IF thr[t].new = NoSys THEN sys[i] = Blank ELSE i = thr[t].new
    /\ sys' = [sys EXCEPT ![i] =
                 [status |-> thr[t].seen, cancelled |-> FALSE,
                  ws |-> IF thr[t].new = NoSys THEN NoConn ELSE sys[i].ws]]
    /\ thr' = [thr EXCEPT ![t].pc = "set", ![t].new = i]

\* Mutant: AddSystem stores without Has.
CheckBlind(t) ==
  /\ At(t, "check")
  /\ Fill(t)
  /\ UNCHANGED <<record, store, conn, down>>

\* AddRecord, and AddSystem's Has: errSystemExists drops the struct.
Check(t) ==
  /\ At(t, "check")
  /\ IF store = NoSys THEN Fill(t) ELSE Return(t) /\ UNCHANGED sys
  /\ UNCHANGED <<record, store, conn, down>>

\* AddSystem: systems.Set, go StartUpdater
Set(t) ==
  /\ At(t, "set")
  /\ store' = thr[t].new
  /\ thr' = [thr EXCEPT ![t] = Resting(t),
                        ![Updater(thr[t].new)].pc = "start"]
  /\ UNCHANGED <<record, sys, conn, down>>

-----------------------------------------------------------------------------
(* Agent connections                                                       *)

\* handleAgentConnect found the row by token and upgraded the request.
AgentConnect(c) ==
  /\ conn[c] = "unused" /\ At(Connect(c), "off") /\ record \in Status
  /\ conn' = [conn EXCEPT ![c] = "open"]
  /\ Goto(Connect(c), "find")
  /\ UNCHANGED <<record, store, sys, down>>

\* AddWebSocketSystem: read the row, make a System around the connection.
Find(c) ==
  LET t == Connect(c) IN
  /\ At(t, "find")
  /\ IF record \in Status
     THEN \E i \in Sys :
            /\ sys[i] = Blank
            /\ sys' = [sys EXCEPT ![i] = [Blank EXCEPT !.ws = c]]
            /\ thr' = [thr EXCEPT ![t] =
                         CallRemove([@ EXCEPT !.seen = record, !.new = i], "check")]
     ELSE Return(t) /\ UNCHANGED sys
  /\ UNCHANGED <<record, store, conn, down>>

\* OnClose: the agent or the network is gone, the 70 s read deadline passed,
\* or the hub's close frame ended the ReadLoop.
OnClose(c) ==
  /\ conn[c] \in {"open", "closing"}
  /\ conn' = [conn EXCEPT ![c] = "gone"]
  /\ down' = [down EXCEPT ![c] = "armed"]
  /\ UNCHANGED <<record, store, sys, thr>>

\* OnClose's goroutine, 5 s later
DownTimer(c) ==
  /\ down[c] = "armed"
  /\ down' = [down EXCEPT ![c] = "full"]
  /\ UNCHANGED <<record, store, sys, conn, thr>>

\* The garbage collector: nothing refers to the struct any more.
CollectSystem(i) ==
  /\ Recycle /\ ~Live(i) /\ sys[i] # Blank
  /\ sys' = [sys EXCEPT ![i] = Blank]
  /\ UNCHANGED <<record, store, conn, down, thr>>

-----------------------------------------------------------------------------
(* Records API                                                             *)

\* onRecordCreate stores pending; onRecordAfterCreateSuccess adds the record.
UserCreate(t) ==
  /\ At(t, "off") /\ record = "absent"
  /\ record' = "pending"
  /\ CallAdd(t)
  /\ UNCHANGED <<store, sys, conn, down>>

\* Mutant: the update hook runs although no row was updated.
UserPatchMissing(t) ==
  /\ At(t, "off")
  /\ record' \in {record, "paused", "pending"}
  /\ thr' = [thr EXCEPT ![t].pc = "hook", ![t].seen = record']
  /\ UNCHANGED <<store, sys, conn, down>>

\* Pause, resume, or an edit that leaves the status alone.
UserPatch(t) ==
  /\ At(t, "off") /\ record \in Status
  /\ record' \in {record, "paused", "pending"}
  /\ thr' = [thr EXCEPT ![t].pc = "hook", ![t].seen = record']
  /\ UNCHANGED <<store, sys, conn, down>>

\* onRecordAfterDeleteSuccess removes the id.
UserDelete(t) ==
  /\ At(t, "off") /\ record \in Status
  /\ record' = "deleted"
  /\ thr' = [thr EXCEPT ![t] = CallRemove(@, Home(t))]
  /\ UNCHANGED <<store, sys, conn, down>>

-----------------------------------------------------------------------------
\* A hub start: nothing registered, and Initialize's goroutine about to
\* AddSystem what it read (paused systems are not loaded).
Init ==
  /\ record \in Status \cup {"absent"}
  /\ store = NoSys
  /\ sys = [i \in Sys |-> Blank]
  /\ conn = [c \in Conns |-> "unused"]
  /\ down = [c \in Conns |-> "empty"]
  /\ thr = [t \in Threads |->
              IF t = Boot /\ record \in Status \ {"paused"}
              THEN [Off EXCEPT !.pc = "check", !.seen = record] ELSE Off]

Update(t) == \/ HandlePaused(t) \/ BeginFetch(t) \/ FetchOk(t) \/ FetchErr(t)
             \/ ReadRow(t) \/ SaveUp(t) \/ SaveErr(t)
             \/ SetDown(t) \/ SaveDown(t) \/ SaveDownErr(t)

Hook(t) == \/ HookPaused(t) \/ HookPendingLinked(t) \/ HookPending(t)
           \/ HookUnknown(t) \/ HookKnown(t)

Register(t) == \/ LookUp(t) \/ Cancel(t) \/ CloseConn(t) \/ Remove(t)
               \/ Check(t) \/ Set(t)

User(t) == UserCreate(t) \/ UserPatch(t) \/ UserDelete(t)

Next ==
  \/ \E i \in Sys : SkipFirst(i) \/ DownSignal(i) \/ Done(i)
  \/ \E t \in Pollers : Update(t)
  \/ \E t \in Threads : Hook(t) \/ Register(t)
  \/ \E c \in Conns : AgentConnect(c) \/ Find(c) \/ OnClose(c) \/ DownTimer(c)
  \/ \E u \in Users : User(<<"user", u>>)
  \/ \E i \in Sys : CollectSystem(i)

Spec == Init /\ [][Next]_vars

-----------------------------------------------------------------------------
(* Fairness: goroutines keep running.  An updater's ticker keeps firing, its *)
(* select takes a case that is ready again and again (Go picks among ready   *)
(* cases at random), and the database does not fail for ever.  Nothing makes *)
(* an agent connect or a user act.                                           *)

Progress(t) == \/ t \in Pollers /\ Update(t)
               \/ Hook(t) \/ Register(t)

Fairness ==
  /\ WF_vars(Progress(Boot))
  /\ \A i \in Sys : /\ WF_vars(SkipFirst(i) \/ Progress(Updater(i)))
                    /\ SF_vars(SaveUp(Updater(i)) \/ SaveDown(Updater(i)))
                    /\ SF_vars(DownSignal(i) \/ Done(i))
  /\ \A c \in Conns :
       /\ WF_vars(Find(c) \/ Progress(Connect(c)))
       /\ WF_vars(DownTimer(c) \/ (conn[c] = "closing" /\ OnClose(c)))

FairSpec == Spec /\ Fairness

-----------------------------------------------------------------------------
(* Properties                                                              *)

Running(i) == ~At(Updater(i), "off")

\* A System that was cancelled does not stay in the store: a thread that is removing
\* it is about to run systems.Remove (RemoveSystem is not atomic and many threads call
\* it at once, so this is about their interleavings).
DeadNotRegistered ==
  store # NoSys /\ sys[store].cancelled =>
    \E t \in Threads : At(t, "close") \/ At(t, "remove")

\* A System that was replaced or removed gets no more answers: its connection cannot
\* be used, unless a thread has cancelled it this moment and is about to close the
\* connection.  (An answer that is there already is still saved.)
CutOff ==
  \A i \in Sys : sys[i].cancelled /\ Linked(i) =>
    \E t \in Threads : At(t, "close") /\ thr[t].old = i

\* Every updater that runs and has not been cancelled is the registered System's, a
\* thread about to Set finds the store empty, and what a thread removes is the System
\* it looked up.
OneUpdater == \A i \in Sys : Running(i) /\ ~sys[i].cancelled => store = i
SetIsFree == \A t \in Threads : At(t, "set") => store = NoSys
RemovesIts == \A t \in Threads : thr[t].old # NoSys => store = thr[t].old

Orderly == OneUpdater /\ SetIsFree /\ RemovesIts

\* Between Has and Set of AddSystem, or GetOk and Remove of RemoveSystem.
Between(t) == At(t, "set") \/ thr[t].old # NoSys
Alone == \A t, u \in Threads : Between(t) /\ Between(u) => t = u

\* Only an overlap of two registrations (two threads between the steps of AddSystem or
\* RemoveSystem) can orphan an updater, or put a thread on the way to orphan one: no
\* order of updates, hooks, requests, connections and the start of the hub does.
OrphansNeedOverlap == [][~Orderly' /\ Orderly => ~Alone \/ ~Alone']_vars

Unreachable == \A c \in Conns : conn[c] # "open"

\* OnClose "triggers system down status after delay": a row does not stay "up" while
\* the hub has no open connection of the agent, as long as the registered System
\* remembers "up" as well.  (Hooks of two saves may run in the other order and leave
\* "down" in memory; setDown then writes nothing.)
LossSeen == LET Lost == /\ record = "up" /\ Unreachable
                        /\ store # NoSys /\ sys[store].status = "up"
            IN  Lost ~> ~Lost

\* A row does not stay "down" while the agent is connected to the registered System,
\* although updaters that were replaced still report down: past their fetch, or when
\* the timer of their connection fires after the agent has reconnected.
RecoverySeen == LET Found == record = "down" /\ store # NoSys /\ Linked(store)
                IN  Found ~> ~Found

\* No struct is left for AddRecord: a bound of the model.
Starved == /\ \E t \in Threads : At(t, "check") /\ thr[t].new = NoSys
           /\ store = NoSys /\ \A i \in Sys : sys[i] # Blank

\* The updater of a cancelled System ends, whatever it was doing and although the
\* ticker competes with ctx.Done.
UpdaterStops == \A i \in Sys : sys[i].cancelled ~> ~Running(i) \/ Starved

=============================================================================

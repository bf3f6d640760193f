------------------------ MODULE SystemManager_proof ------------------------
(* Proofs, for any number of structs, connections and requests, of the safety *)
(* properties of SystemManager.                                               *)
EXTENDS SystemManager, TLAPS

\* The threads an action names exist.
LEMMA ThreadsExist ==
  /\ \A i \in Sys : Updater(i) \in Pollers /\ Once(i) \in Pollers
  /\ Pollers \subseteq Threads
  /\ \A c \in Conns : Connect(c) \in Threads
  /\ \A u \in Users : <<"user", u>> \in Threads
  /\ Boot \in Threads
  /\ \A t \in Pollers : t[2] \in Sys
BY DEF Updater, Once, Connect, Boot, Pollers, Threads

\* Threads of different kinds differ.
LEMMA ThreadsDiffer ==
  /\ \A i \in Sys : Updater(i)[1] = "updater" /\ Once(i)[1] = "once"
  /\ \A c \in Conns : Connect(c)[1] = "connect"
  /\ Boot[1] = "boot"
  /\ \A i, j \in Sys : Updater(i) = Updater(j) => i = j
BY DEF Updater, Once, Connect, Boot

\* Every thread that is between two jobs is well typed.
LEMMA RestingType ==
  /\ Off \in ThreadType
  /\ \A t : Home(t) \in Nexts /\ Home(t) \in PCs /\ Resting(t) \in ThreadType
BY DEF Off, ThreadType, Nexts, Home, Resting, PCs, Status

LEMMA RestingFields ==
  /\ Off.pc = "off" /\ Off.new = NoSys /\ Off.old = NoSys
  /\ \A t : /\ Resting(t).pc \in {"off", "select", "answered"}
            /\ Resting(t).new = NoSys /\ Resting(t).old = NoSys
BY DEF Off, Home, Resting

LEMMA ClosedType ==
  ASSUME TypeOK, NEW c \in Conns \cup {NoConn}
  PROVE  Closed(c) \in [Conns -> ConnType]
BY DEF TypeOK, Closed, ConnType

LEMMA RemovedFields ==
  ASSUME TypeOK, NEW t \in Threads
  PROVE  /\ Removed(t) \in ThreadType
         /\ Removed(t).pc \in {"off", "select", "answered", "check", "failed"}
         /\ Removed(t).new \in {NoSys, thr[t].new} /\ Removed(t).old = NoSys
<1>1. thr[t] \in ThreadType
  BY DEF TypeOK
<1>2. CASE thr[t].next = Home(t)
  BY <1>2, RestingType, RestingFields DEF Removed
<1>3. CASE thr[t].next # Home(t)
  BY <1>1, <1>3 DEF Removed, ThreadType, PCs, Nexts
<1> QED BY <1>2, <1>3

\* A step that changes one thread
LEMMA OneThread ==
  ASSUME TypeOK, NEW t \in Threads, NEW r \in ThreadType, thr' = [thr EXCEPT ![t] = r]
  PROVE  /\ thr' \in [Threads -> ThreadType]
         /\ thr'[t] = r /\ \A u \in Threads \ {t} : thr'[u] = thr[u]
BY DEF TypeOK

-----------------------------------------------------------------------------
(* Plain steps.  Most actions move one thread that is not inside RemoveSystem, *)
(* and stay out of AddSystem and RemoveSystem.                                 *)
Removing == {"cancel", "close", "remove"}

\* What such a step may make of a thread
PlainMove(q, r) ==
  /\ r \in ThreadType
  /\ q.pc \notin Removing /\ r.pc \notin Removing \cup {"set"}
  /\ r.new \in {NoSys, q.new} /\ r.old \in {NoSys, q.old}

\* and of the structs: nothing is cancelled, and only a status in use changes.
PlainStructs ==
  \A i \in Sys : /\ sys'[i].cancelled = sys[i].cancelled
                 /\ sys[i].status \in Status => sys'[i].status \in Status
                 /\ sys[i].status \notin Status => sys'[i] = sys[i]

PlainThreads ==
  /\ \A u \in Threads : thr'[u] = thr[u] \/ PlainMove(thr[u], thr'[u])
  /\ \A i \in Sys : thr[Updater(i)].pc = "off" => thr'[Updater(i)].pc = "off"

Plain == store' = store /\ PlainThreads /\ PlainStructs

LEMMA PlainOne ==
  ASSUME TypeOK, NEW t \in Threads, NEW r, thr' = [thr EXCEPT ![t] = r],
         PlainMove(thr[t], r), thr[t].pc = "off" => t[1] # "updater"
  PROVE  thr' \in [Threads -> ThreadType] /\ PlainThreads
<1>1. /\ thr' \in [Threads -> ThreadType]
      /\ thr'[t] = r /\ \A u \in Threads \ {t} : thr'[u] = thr[u]
  BY OneThread DEF PlainMove
<1> QED BY <1>1, ThreadsExist, ThreadsDiffer DEF PlainThreads

LEMMA PlainReturn ==
  ASSUME TypeOK, NEW t \in Threads, Return(t), thr[t].pc \notin Removing \cup {"off"}
  PROVE  thr' \in [Threads -> ThreadType] /\ PlainThreads
<1>1. PlainMove(thr[t], Resting(t))
  BY RestingType, RestingFields DEF PlainMove, Removing
<1> QED BY <1>1, PlainOne DEF Return

LEMMA PlainGoto ==
  ASSUME TypeOK, NEW t \in Threads, NEW l \in PCs \ (Removing \cup {"set"}), Goto(t, l),
         thr[t].pc \notin Removing, thr[t].pc = "off" => t[1] # "updater"
  PROVE  thr' \in [Threads -> ThreadType] /\ PlainThreads
<1> DEFINE r == [thr[t] EXCEPT !.pc = l]
<1>1. thr[t] \in ThreadType
  BY DEF TypeOK
<1>2. PlainMove(thr[t], r)
  BY <1>1 DEF PlainMove, ThreadType
<1>3. thr' = [thr EXCEPT ![t] = r]
  BY DEF Goto
<1> HIDE DEF r
<1> QED BY <1>2, <1>3, PlainOne

\* Calls of RemoveSystem and AddRecord, from a thread or from its resting state
LEMMA PlainCall ==
  ASSUME TypeOK, NEW t \in Threads, NEW q \in {thr[t], Off}, NEW l \in Nexts,
         thr' = [thr EXCEPT ![t] = CallRemove(q, l)],
         thr[t].pc \notin Removing, thr[t].pc = "off" => t[1] # "updater"
  PROVE  thr' \in [Threads -> ThreadType] /\ PlainThreads
<1>1. q \in ThreadType /\ q.new \in {NoSys, thr[t].new} /\ q.old \in {NoSys, thr[t].old}
  BY RestingType, RestingFields DEF TypeOK
<1>2. PlainMove(thr[t], CallRemove(q, l))
  BY <1>1 DEF PlainMove, Removing, ThreadType, CallRemove, PCs
<1> QED BY <1>2, PlainOne

LEMMA PlainGetRecord ==
  ASSUME TypeOK, NEW t \in Threads, NEW found \in PCs \ (Removing \cup {"set"}),
         NEW missing \in Nexts, GetRecord(t, found, missing),
         thr[t].pc \notin Removing \cup {"off"}
  PROVE  thr' \in [Threads -> ThreadType] /\ PlainThreads
<1>0. thr[t] \in ThreadType
  BY DEF TypeOK
<1>1. CASE record \in Status
  <2> DEFINE r == [thr[t] EXCEPT !.pc = found, !.seen = record]
  <2>1. PlainMove(thr[t], r)
    BY <1>0, <1>1 DEF PlainMove, ThreadType
  <2>2. thr' = [thr EXCEPT ![t] = r]
    BY <1>1 DEF GetRecord
  <2> HIDE DEF r
  <2> QED BY <2>1, <2>2, PlainOne
<1>2. CASE record \notin Status
  <2>1. thr' = [thr EXCEPT ![t] = CallRemove(thr[t], missing)]
    BY <1>2 DEF GetRecord
  <2> QED BY <2>1, PlainCall
<1> QED BY <1>1, <1>2

LEMMA PlainSame ==
  ASSUME TypeOK, sys' = sys
  PROVE  PlainStructs
BY DEF PlainStructs

-----------------------------------------------------------------------------
(* Registration.  A struct held by AddRecord (`new`) is private: not registered, *)
(* not running, not cancelled, being removed by nobody, and held by one thread.  *)
Held == \A t \in Threads : thr[t].new # NoSys =>
          /\ ~Running(thr[t].new) /\ store # thr[t].new
          /\ sys[thr[t].new] # Blank /\ ~sys[thr[t].new].cancelled
          /\ \A u \in Threads : /\ thr[u].new = thr[t].new => u = t
                                /\ thr[u].old # thr[t].new

AtSet == \A t \in Threads : At(t, "set") =>
           thr[t].new \in Sys /\ sys[thr[t].new].status \in Status

Used == \A i \in Sys : Running(i) \/ store = i => sys[i].status \in Status

\* A thread inside RemoveSystem has looked a used System up, and cancels it first.
Victims == \A t \in Threads :
             /\ thr[t].old # NoSys <=> thr[t].pc \in Removing
             /\ thr[t].old # NoSys => sys[thr[t].old].status \in Status
             /\ thr[t].pc \in {"close", "remove"} => sys[thr[t].old].cancelled

RegInv == TypeOK /\ Held /\ AtSet /\ Used /\ Victims /\ DeadNotRegistered

LEMMA Types ==
  ASSUME RegInv
  PROVE  /\ TypeOK /\ thr \in [Threads -> ThreadType] /\ sys \in [Sys -> SysType]
         /\ conn \in [Conns -> ConnType] /\ store \in Sys \cup {NoSys}
         /\ \A t \in Threads : /\ thr[t] \in ThreadType /\ thr[t].seen \in Status
                               /\ thr[t].new \in Sys \cup {NoSys}
                               /\ thr[t].old \in Sys \cup {NoSys}
         /\ \A i \in Sys : sys[i] \in SysType /\ sys[i].ws \in Conns \cup {NoConn}
         /\ NoSys \notin Sys /\ NoConn \notin Conns /\ Blank.status \notin Status
BY NullAssumption DEF RegInv, TypeOK, ThreadType, SysType, Blank, Status

LEMMA RememberedPlain ==
  ASSUME RegInv, NEW t \in Threads, sys' = Remembered(t)
  PROVE  /\ sys' \in [Sys -> SysType] /\ PlainStructs
         /\ \A i \in Sys : sys'[i].ws = sys[i].ws
<1>1. CASE store = NoSys
  BY <1>1, Types DEF Remembered, PlainStructs
<1>2. CASE store # NoSys
  <2>1. store \in Sys /\ sys[store].status \in Status /\ sys[store] \in SysType
    BY <1>2, Types DEF RegInv, Used
  <2>2. sys' = [sys EXCEPT ![store].status = thr[t].seen]
    BY <1>2 DEF Remembered
  <2>3. /\ sys'[store].status = thr[t].seen /\ sys'[store].ws = sys[store].ws
        /\ sys'[store].cancelled = sys[store].cancelled
        /\ \A i \in Sys \ {store} : sys'[i] = sys[i]
    BY <2>1, <2>2, Types DEF SysType
  <2>4. sys' \in [Sys -> SysType]
    BY <2>1, <2>2, Types DEF SysType
  <2> QED BY <2>1, <2>3, <2>4, Types DEF PlainStructs
<1> QED BY <1>1, <1>2

\* The links to connections: what a step may do to them, if it is none of those that
\* open a connection or hand it to a System.
KeepsLinks ==
  /\ \A i \in Sys : sys'[i].ws \in {NoConn, sys[i].ws}
  /\ \A c \in Conns : /\ conn'[c] = "open" => conn[c] = "open"
                      /\ conn'[c] = "unused" => conn[c] = "unused"
                      /\ thr'[Connect(c)].pc = "find" => thr[Connect(c)].pc = "find"

Links == \A i \in Sys : sys'[i].ws \in {NoConn, sys[i].ws}

LEMMA SameLinks ==
  ASSUME RegInv, NEW t \in Threads, NEW r, thr' = [thr EXCEPT ![t] = r],
         r.pc # "find", conn' = conn, Links
  PROVE  KeepsLinks
<1>1. \A u \in Threads : thr'[u] = thr[u] \/ thr'[u] = r
  BY Types
<1> QED BY <1>1, ThreadsExist DEF KeepsLinks, Links

\* WsConn.Close leaves the connection unusable and touches no other.
LEMMA ClosedLinks ==
  ASSUME RegInv, NEW c \in Conns \cup {NoConn}, conn' = Closed(c)
  PROVE  /\ conn' \in [Conns -> ConnType]
         /\ \A d \in Conns : /\ conn'[d] = "open" => conn[d] = "open" /\ d # c
                             /\ conn'[d] = "unused" => conn[d] = "unused"
BY Types, ClosedType DEF Closed

-----------------------------------------------------------------------------
(* Which actions are plain.                                                *)

LEMMA UpdatePlain ==
  ASSUME RegInv, NEW t \in Pollers, Update(t)
  PROVE  TypeOK' /\ Plain /\ KeepsLinks
<1>0. /\ t \in Threads /\ t[2] \in Sys /\ thr[t] \in ThreadType /\ TypeOK
      /\ sys[t[2]].ws \in Conns \cup {NoConn}
      /\ Home(t) \in Nexts
  BY ThreadsExist, Types, RestingType
<1>l. /\ Resting(t).pc # "find"
      /\ \A l \in Nexts : CallRemove(Off, l).pc # "find" /\ CallRemove(thr[t], l).pc # "find"
  BY <1>0, RestingFields DEF CallRemove, ThreadType, Off
<1>p. {"fetch", "read", "save", "failed", "savedown", "hook"}
        \subseteq PCs \ (Removing \cup {"set", "find"})
  BY DEF PCs, Removing
<1>q. ASSUME thr[t].pc \in {"start", "select", "fetch", "read", "save", "failed", "savedown"}
      PROVE  thr[t].pc \notin Removing \cup {"off"}
  BY <1>q DEF Removing
\* A step that leaves the rest to others: record, store, structs and connections
<1>s. ASSUME UNCHANGED <<store, sys, conn, down>>,
             record' \in Status \cup {"absent", "deleted"},
             thr' \in [Threads -> ThreadType] /\ PlainThreads,
             \E r : thr' = [thr EXCEPT ![t] = r] /\ r.pc # "find"
      PROVE  TypeOK' /\ Plain /\ KeepsLinks
  <2>1. Links
    BY <1>s DEF Links
  <2> QED BY <1>0, <1>s, <2>1, PlainSame, SameLinks DEF Plain, TypeOK
<1>r. record \in Status \cup {"absent", "deleted"}
  BY <1>0 DEF TypeOK
<1>1. CASE HandlePaused(t)
  <2>1. thr[t].pc \in {"start", "select"} /\ UNCHANGED <<record, store, sys, conn, down>>
        /\ (Return(t) \/ thr' = [thr EXCEPT ![t] = CallRemove(Off, Home(t))])
    BY <1>1 DEF HandlePaused, UpdateDue, At
  <2>2. CASE Return(t)
    BY <1>0, <1>l, <1>q, <1>r, <1>s, <2>1, <2>2, PlainReturn DEF Return
  <2>3. CASE thr' = [thr EXCEPT ![t] = CallRemove(Off, Home(t))]
    BY <1>0, <1>l, <1>q, <1>r, <1>s, <2>1, <2>3, PlainCall
  <2> QED BY <2>1, <2>2, <2>3
<1>2. CASE BeginFetch(t) \/ SaveErr(t)
  <2> PICK l \in {"fetch", "failed"} : thr' = [thr EXCEPT ![t] = [Off EXCEPT !.pc = l]]
    BY <1>2 DEF BeginFetch, SaveErr
  <2> DEFINE r == [Off EXCEPT !.pc = l]
  <2>1. thr[t].pc \in {"start", "select", "save"} /\ UNCHANGED <<record, store, sys, conn, down>>
    BY <1>2 DEF BeginFetch, SaveErr, UpdateDue, At
  <2>2. PlainMove(thr[t], r) /\ r.pc # "find"
    BY <1>p, <1>q, <2>1, RestingType DEF PlainMove, ThreadType, Off
  <2>3. thr' = [thr EXCEPT ![t] = r]
    OBVIOUS
  <2> HIDE DEF r
  <2>4. thr' \in [Threads -> ThreadType] /\ PlainThreads
    BY <1>0, <1>q, <2>1, <2>2, <2>3, PlainOne
  <2> QED BY <1>r, <1>s, <2>1, <2>2, <2>3, <2>4
<1>3. CASE FetchOk(t)
  <2>1. thr[t].pc = "fetch" /\ UNCHANGED <<record, store, sys, conn, down>> /\ Goto(t, "read")
    BY <1>3 DEF FetchOk, At
  <2>2. thr' \in [Threads -> ThreadType] /\ PlainThreads
    BY <1>0, <1>p, <1>q, <2>1, PlainGoto
  <2>3. [thr[t] EXCEPT !.pc = "read"].pc # "find"
    BY <1>0 DEF ThreadType
  <2> QED BY <1>r, <1>s, <2>1, <2>2, <2>3 DEF Goto
<1>4. CASE FetchErr(t)
  <2>1. /\ thr[t].pc = "fetch" /\ UNCHANGED <<record, store, sys, down>> /\ Goto(t, "failed")
        /\ conn' = Closed(sys[t[2]].ws)
    BY <1>4 DEF FetchErr, At
  <2>2. thr' \in [Threads -> ThreadType] /\ PlainThreads
    BY <1>0, <1>p, <1>q, <2>1, PlainGoto
  <2>3. \A u \in Threads : thr'[u] = thr[u] \/ thr'[u].pc = "failed"
    BY <1>0, <1>l, <1>p, <2>1, Types DEF Goto
  <2>4. KeepsLinks
    BY <1>0, <2>1, <2>3, ClosedLinks, ThreadsExist DEF KeepsLinks
  <2> QED BY <1>0, <2>1, <2>2, <2>4, ClosedLinks, PlainSame DEF Plain, TypeOK
<1>5. CASE ReadRow(t) \/ (SetDown(t) /\ GetRecord(t, "savedown", Home(t)))
  <2> PICK found \in {"save", "savedown"}, missing \in Nexts :
        GetRecord(t, found, missing) /\ thr[t].pc \in {"read", "failed"}
    BY <1>0, <1>5 DEF ReadRow, SetDown, At, Nexts
  <2>1. UNCHANGED <<record, store, sys, conn, down>>
    BY <1>5 DEF ReadRow, SetDown
  <2>2. thr' \in [Threads -> ThreadType] /\ PlainThreads
    BY <1>0, <1>p, <1>q, PlainGetRecord
  <2>3. \E r : thr' = [thr EXCEPT ![t] = r] /\ r.pc # "find"
    <3>1. CASE record \in Status
      <4>1. thr' = [thr EXCEPT ![t] = [@ EXCEPT !.pc = found, !.seen = record]]
        BY <3>1 DEF GetRecord
      <4>2. [thr[t] EXCEPT !.pc = found, !.seen = record].pc = found
        BY <1>0 DEF ThreadType
      <4> QED BY <1>p, <4>1, <4>2
    <3>2. CASE record \notin Status
      BY <1>l, <3>2 DEF GetRecord
    <3> QED BY <3>1, <3>2
  <2> QED BY <1>r, <1>s, <2>1, <2>2, <2>3
<1>6. CASE SaveUp(t) \/ SaveDown(t)
  <2> PICK st \in {"up", "down"} :
        /\ thr' = [thr EXCEPT ![t] = [@ EXCEPT !.pc = "hook", !.seen = st]]
        /\ record' = Written(t, st)
    BY <1>6 DEF SaveUp, SaveDown
  <2> DEFINE r == [thr[t] EXCEPT !.pc = "hook", !.seen = st]
  <2>1. thr[t].pc \in {"save", "savedown"} /\ UNCHANGED <<store, sys, conn, down>>
    BY <1>6 DEF SaveUp, SaveDown, At
  <2>2. st \in Status /\ record' \in Status \cup {"absent", "deleted"}
    BY <1>r DEF Written, Status
  <2>3. PlainMove(thr[t], r) /\ r.pc # "find"
    BY <1>0, <1>p, <1>q, <2>1, <2>2 DEF PlainMove, ThreadType
  <2>4. thr' = [thr EXCEPT ![t] = r]
    OBVIOUS
  <2> HIDE DEF r
  <2>5. thr' \in [Threads -> ThreadType] /\ PlainThreads
    BY <1>0, <1>q, <2>1, <2>3, <2>4, PlainOne
  <2> QED BY <1>s, <2>1, <2>2, <2>3, <2>4, <2>5
<1>7. CASE SaveDownErr(t) \/ (SetDown(t) /\ Return(t))
  <2>1. thr[t].pc \in {"failed", "savedown"} /\ Return(t)
        /\ UNCHANGED <<record, store, sys, conn, down>>
    BY <1>7 DEF SaveDownErr, SetDown, At
  <2> QED BY <1>0, <1>l, <1>q, <1>r, <1>s, <2>1, PlainReturn DEF Return
<1> QED BY <1>1, <1>2, <1>3, <1>4, <1>5, <1>6, <1>7 DEF Update, SetDown

LEMMA HookPlain ==
  ASSUME RegInv, NEW t \in Threads, Hook(t)
  PROVE  TypeOK' /\ Plain /\ KeepsLinks
<1>0. thr[t] \in ThreadType /\ TypeOK
  BY Types
<1>1. /\ thr[t].pc = "hook" /\ thr[t].pc \notin Removing \cup {"off"}
      /\ UNCHANGED <<record, store, conn, down>>
  BY DEF Hook, HookPaused, HookPendingLinked, HookPending, HookUnknown, HookKnown, At, Removing
<1>2. /\ sys' \in [Sys -> SysType] /\ PlainStructs
      /\ \A i \in Sys : sys'[i].ws = sys[i].ws
  <2>1. sys' = Remembered(t)
    BY DEF Hook, HookPaused, HookPendingLinked, HookPending, HookUnknown, HookKnown, Remembered
  <2> QED BY <2>1, RememberedPlain
<1>3. Links
  BY <1>2 DEF Links
<1> SUFFICES thr' \in [Threads -> ThreadType] /\ PlainThreads /\ KeepsLinks
  BY <1>0, <1>1, <1>2 DEF TypeOK, Plain
<1>4. CASE Return(t)
  <2>1. Resting(t).pc # "find"
    BY RestingFields
  <2>2. KeepsLinks
    BY <1>1, <1>3, <1>4, <2>1, SameLinks DEF Return
  <2> QED BY <1>0, <1>1, <1>4, <2>2, PlainReturn
<1>5. CASE CallAdd(t)
  <2>1. "check" \in Nexts /\ thr' = [thr EXCEPT ![t] = CallRemove(thr[t], "check")]
    BY <1>5 DEF CallAdd, Nexts
  <2>2. CallRemove(thr[t], "check").pc # "find"
    BY <1>0 DEF CallRemove, ThreadType
  <2>3. KeepsLinks
    BY <1>1, <1>3, <2>1, <2>2, SameLinks
  <2> QED BY <1>0, <1>1, <2>1, <2>3, PlainCall
<1>6. CASE HookPendingLinked(t)
  <2> DEFINE o == Once(store)
             e == IF thr[o].pc = "off" THEN [thr[o] EXCEPT !.pc = "select"] ELSE thr[o]
  <2>1. o \in Threads /\ o[1] = "once" /\ thr[o] \in ThreadType /\ store \in Sys
    BY <1>6, Types, ThreadsExist, ThreadsDiffer DEF HookPendingLinked
  <2>2. e \in ThreadType /\ (e = thr[o] \/ (PlainMove(thr[o], e) /\ e.pc = "select"))
    <3>1. "select" \in PCs \ (Removing \cup {"set"}) /\ "off" \notin Removing
      BY DEF PCs, Removing
    <3> QED BY <2>1, <3>1 DEF PlainMove, ThreadType
  <2>3. thr' = [[thr EXCEPT ![t] = Resting(t)] EXCEPT ![o] = e]
    BY <1>6 DEF HookPendingLinked
  <2>4. PlainMove(thr[t], Resting(t)) /\ Resting(t).pc # "find"
    BY <1>1, RestingType, RestingFields DEF PlainMove, Removing
  <2> HIDE DEF o, e
  <2>5. /\ thr' \in [Threads -> ThreadType]
        /\ thr'[o] = e /\ (t # o => thr'[t] = Resting(t))
        /\ \A u \in Threads \ {t, o} : thr'[u] = thr[u]
    BY <1>0, <2>1, <2>2, <2>3, Types, RestingType
  <2>6. \A i \in Sys : thr[Updater(i)].pc = "off" => thr'[Updater(i)].pc = "off"
    BY <1>1, <2>1, <2>5, ThreadsExist, ThreadsDiffer
  <2>7. \A c \in Conns : thr'[Connect(c)].pc = "find" => thr[Connect(c)].pc = "find"
    BY <2>1, <2>4, <2>5, ThreadsExist, ThreadsDiffer
  <2> QED BY <1>1, <1>2, <2>2, <2>4, <2>5, <2>6, <2>7 DEF PlainThreads, KeepsLinks
<1> QED BY <1>4, <1>5, <1>6 DEF Hook, HookPaused, HookPending, HookUnknown, HookKnown

LEMMA LoopPlain ==
  ASSUME RegInv, NEW i \in Sys, SkipFirst(i) \/ DownSignal(i) \/ Done(i)
  PROVE  TypeOK' /\ Plain /\ KeepsLinks
<1> DEFINE t == Updater(i)
<1>0. t \in Threads /\ t[1] = "updater" /\ thr[t] \in ThreadType /\ TypeOK /\ sys[i] \in SysType
  BY ThreadsExist, ThreadsDiffer, Types
<1>1. PICK r \in ThreadType :
        /\ thr' = [thr EXCEPT ![t] = r]
        /\ r.pc \in {"select", "failed", "off"}
        /\ r.new \in {NoSys, thr[t].new} /\ r.old \in {NoSys, thr[t].old}
        /\ thr[t].pc \in {"start", "select"}
  <2>1. CASE SkipFirst(i) \/ DownSignal(i)
    <3>1. PICK l \in {"select", "failed"} : thr' = [thr EXCEPT ![t] = [thr[t] EXCEPT !.pc = l]]
      BY <2>1 DEF SkipFirst, DownSignal, Goto
    <3>2. thr[t].pc \in {"start", "select"}
      BY <2>1 DEF SkipFirst, DownSignal, At
    <3> QED BY <1>0, <3>1, <3>2 DEF ThreadType, PCs
  <2>2. CASE Done(i)
    BY <2>2, RestingType, RestingFields DEF Done, At
  <2> QED BY <2>1, <2>2
<1>2. PlainMove(thr[t], r)
  BY <1>1 DEF PlainMove, Removing
<1>3. thr' \in [Threads -> ThreadType] /\ PlainThreads
  BY <1>0, <1>1, <1>2, PlainOne
<1>4. UNCHANGED <<record, store, conn>>
  BY DEF SkipFirst, DownSignal, Done
<1>5. sys' \in [Sys -> SysType] /\ PlainStructs /\ Links
      /\ down' \in [Conns -> {"empty", "armed", "full"}]
  <2>1. CASE DownSignal(i)
    <3>1. /\ sys' = [sys EXCEPT ![i].ws = NoConn] /\ sys[i].ws \in Conns
          /\ down' = [down EXCEPT ![sys[i].ws] = "empty"]
      BY <1>0, <2>1 DEF DownSignal, SysType
    <3>2. sys[i].status \in Status
      BY <1>0, <1>1, Types DEF RegInv, Used, Running, At
    <3>3. /\ sys'[i].ws = NoConn /\ sys'[i].cancelled = sys[i].cancelled
          /\ sys'[i].status = sys[i].status /\ sys' \in [Sys -> SysType]
          /\ \A j \in Sys \ {i} : sys'[j] = sys[j]
      BY <1>0, <3>1 DEF TypeOK, SysType
    <3> QED BY <1>0, <3>1, <3>2, <3>3 DEF TypeOK, PlainStructs, Links
  <2>2. CASE SkipFirst(i) \/ Done(i)
    BY <1>0, <2>2, PlainSame DEF SkipFirst, Done, TypeOK, Links
  <2> QED BY <2>1, <2>2
<1>6. KeepsLinks
  BY <1>0, <1>1, <1>4, <1>5, SameLinks
<1> QED BY <1>0, <1>3, <1>4, <1>5, <1>6 DEF TypeOK, Plain

LEMMA ConnectionPlain ==
  ASSUME RegInv, NEW c \in Conns, OnClose(c) \/ DownTimer(c)
  PROVE  TypeOK' /\ Plain /\ KeepsLinks
<1>1. UNCHANGED <<record, store, sys, thr>> /\ TypeOK
  BY Types DEF OnClose, DownTimer
<1>2. PlainStructs /\ PlainThreads
  BY <1>1, PlainSame DEF PlainThreads
<1>3. TypeOK'
  BY <1>1 DEF TypeOK, OnClose, DownTimer, ConnType
<1>4. KeepsLinks
  BY <1>1 DEF OnClose, DownTimer, KeepsLinks, TypeOK
<1> QED BY <1>1, <1>2, <1>3, <1>4 DEF Plain

LEMMA UserPlain ==
  ASSUME RegInv, NEW u \in Users, User(<<"user", u>>)
  PROVE  TypeOK' /\ Plain /\ KeepsLinks
<1> DEFINE t == <<"user", u>>
<1>0. /\ t \in Threads /\ t[1] = "user" /\ thr[t] \in ThreadType /\ TypeOK
      /\ Home(t) \in Nexts /\ "check" \in Nexts
  BY ThreadsExist, Types, RestingType DEF Nexts
<1>1. /\ thr[t].pc = "off" /\ UNCHANGED <<store, sys, conn, down>>
      /\ record' \in Status \cup {"absent", "deleted"}
  BY <1>0 DEF User, UserCreate, UserPatch, UserDelete, At, Status, TypeOK
<1>2. PICK r \in ThreadType :
        /\ thr' = [thr EXCEPT ![t] = r]
        /\ r.pc \in {"lookup", "hook"} /\ r.new = thr[t].new /\ r.old = thr[t].old
  <2>1. CASE UserPatch(t)
    <3>1. record' \in Status
      BY <2>1 DEF UserPatch, Status
    <3>2. thr' = [thr EXCEPT ![t] = [thr[t] EXCEPT !.pc = "hook", !.seen = record']]
      BY <2>1 DEF UserPatch
    <3> DEFINE r == [thr[t] EXCEPT !.pc = "hook", !.seen = record']
    <3>3. /\ r \in ThreadType /\ r.pc = "hook"
          /\ r.new = thr[t].new /\ r.old = thr[t].old
      BY <1>0, <3>1 DEF ThreadType, PCs
    <3> HIDE DEF r
    <3> QED BY <3>2, <3>3 DEF r
  <2>2. CASE UserCreate(t) \/ UserDelete(t)
    <3>1. PICK l \in Nexts : thr' = [thr EXCEPT ![t] = CallRemove(thr[t], l)]
      BY <1>0, <2>2 DEF UserCreate, UserDelete, CallAdd
    <3>2. /\ CallRemove(thr[t], l) \in ThreadType /\ CallRemove(thr[t], l).pc = "lookup"
          /\ CallRemove(thr[t], l).new = thr[t].new /\ CallRemove(thr[t], l).old = thr[t].old
      BY <1>0 DEF ThreadType, PCs, CallRemove
    <3> QED BY <3>1, <3>2
  <2> QED BY <2>1, <2>2 DEF User
<1>3. PlainMove(thr[t], r)
  BY <1>1, <1>2 DEF PlainMove, Removing
<1>4. thr' \in [Threads -> ThreadType] /\ PlainThreads
  BY <1>0, <1>2, <1>3, PlainOne
<1>5. KeepsLinks
  BY <1>0, <1>1, <1>2, SameLinks DEF Links
<1> QED BY <1>0, <1>1, <1>4, <1>5, PlainSame DEF TypeOK, Plain

\* Nothing is registered for RemoveSystem, something is for AddSystem, or the row is
\* gone when a connection's goroutine looks for it.
NothingToDo(t) == \/ LookUp(t) /\ store = NoSys
                  \/ Check(t) /\ store # NoSys
                  \/ \E c \in Conns : t = Connect(c) /\ Find(c) /\ record \notin Status

LEMMA NothingToDoPlain ==
  ASSUME RegInv, NEW t \in Threads, NothingToDo(t)
  PROVE  TypeOK' /\ Plain /\ KeepsLinks
<1>0. thr[t] \in ThreadType /\ TypeOK
  BY Types
<1>1. /\ UNCHANGED <<record, store, sys, conn, down>>
      /\ thr[t].pc \in {"lookup", "check", "find"}
      /\ thr' = [thr EXCEPT ![t] = Removed(t)] \/ thr' = [thr EXCEPT ![t] = Resting(t)]
  BY DEF NothingToDo, LookUp, Check, Find, At, Return
<1>2. PICK r \in ThreadType :
        /\ thr' = [thr EXCEPT ![t] = r]
        /\ r.pc \in {"off", "select", "answered", "check", "failed"}
        /\ r.new \in {NoSys, thr[t].new} /\ r.old \in {NoSys, thr[t].old}
  BY <1>0, <1>1, RemovedFields, RestingType, RestingFields
<1>3. PlainMove(thr[t], r)
  BY <1>1, <1>2 DEF PlainMove, Removing
<1>4. thr' \in [Threads -> ThreadType] /\ PlainThreads
  BY <1>0, <1>1, <1>2, <1>3, PlainOne
<1>5. KeepsLinks
  BY <1>1, <1>2, SameLinks DEF Links
<1> QED BY <1>0, <1>1, <1>4, <1>5, PlainSame DEF TypeOK, Plain

\* A new connection: plain too, but it opens one.
LEMMA AgentConnectStep ==
  ASSUME RegInv, NEW c \in Conns, AgentConnect(c)
  PROVE  /\ TypeOK' /\ Plain
         /\ sys' = sys /\ conn[c] = "unused" /\ conn'[c] = "open"
         /\ \A d \in Conns \ {c} : conn'[d] = conn[d]
         /\ \A u \in Threads \ {Connect(c)} : thr'[u] = thr[u]
<1> DEFINE t == Connect(c)
<1>0. /\ t \in Threads /\ t[1] = "connect" /\ thr[t] \in ThreadType /\ TypeOK
  BY ThreadsExist, ThreadsDiffer, Types
<1>1. /\ UNCHANGED <<record, store, sys, down>> /\ conn[c] = "unused" /\ thr[t].pc = "off"
      /\ conn' = [conn EXCEPT ![c] = "open"] /\ Goto(t, "find")
  BY DEF AgentConnect, At
<1>2. "find" \in PCs \ (Removing \cup {"set"}) /\ "off" \notin Removing
  BY DEF PCs, Removing
<1>3. thr' \in [Threads -> ThreadType] /\ PlainThreads
  BY <1>0, <1>1, <1>2, PlainGoto
<1>4. \A u \in Threads \ {t} : thr'[u] = thr[u]
  BY <1>0, <1>1 DEF Goto, TypeOK
<1> QED BY <1>0, <1>1, <1>3, <1>4, PlainSame DEF TypeOK, Plain, ConnType

-----------------------------------------------------------------------------
(* The other actions: what each does.                                      *)

\* One thread moves, its program counter from one place to another.
Moves(t, from, to) ==
  /\ thr' \in [Threads -> ThreadType]
  /\ \A u \in Threads \ {t} : thr'[u] = thr[u]
  /\ thr[t].pc = from /\ thr'[t].pc \in to

\* One struct changes.
Changes(i) == sys' \in [Sys -> SysType] /\ \A j \in Sys \ {i} : sys'[j] = sys[j]

LEMMA LookUpStep ==
  ASSUME RegInv, NEW t \in Threads, LookUp(t), store # NoSys
  PROVE  /\ Moves(t, "lookup", {"cancel"})
         /\ thr'[t].new = thr[t].new /\ thr'[t].old = store
         /\ UNCHANGED <<record, store, sys, conn, down>>
<1> DEFINE r == [thr[t] EXCEPT !.pc = "cancel", !.old = store]
<1>0. thr[t] \in ThreadType /\ TypeOK /\ store \in Sys
  BY Types
<1>1. thr' = [thr EXCEPT ![t] = r] /\ thr[t].pc = "lookup"
      /\ UNCHANGED <<record, store, sys, conn, down>>
  BY DEF LookUp, At
<1>2. r \in ThreadType /\ r.pc = "cancel" /\ r.new = thr[t].new /\ r.old = store
  BY <1>0 DEF ThreadType, PCs
<1> HIDE DEF r
<1> QED BY <1>0, <1>1, <1>2, OneThread DEF Moves

\* A step that only moves its thread on
LEMMA GotoStep ==
  ASSUME RegInv, NEW t \in Threads, NEW l \in PCs, Goto(t, l)
  PROVE  Moves(t, thr[t].pc, {l}) /\ thr'[t].new = thr[t].new /\ thr'[t].old = thr[t].old
<1> DEFINE r == [thr[t] EXCEPT !.pc = l]
<1>1. thr[t] \in ThreadType /\ TypeOK /\ thr' = [thr EXCEPT ![t] = r]
  BY Types DEF Goto
<1>2. r \in ThreadType /\ r.pc = l /\ r.new = thr[t].new /\ r.old = thr[t].old
  BY <1>1 DEF ThreadType
<1> HIDE DEF r
<1> QED BY <1>1, <1>2, OneThread DEF Moves

LEMMA CancelStep ==
  ASSUME RegInv, NEW t \in Threads, Cancel(t)
  PROVE  LET o == thr[t].old IN
         /\ Moves(t, "cancel", {"close"})
         /\ thr'[t].new = thr[t].new /\ thr'[t].old = o
         /\ o \in Sys /\ Changes(o)
         /\ sys'[o].cancelled /\ sys'[o].status = sys[o].status /\ sys'[o].ws = sys[o].ws
         /\ UNCHANGED <<record, store, conn, down>>
<1> DEFINE o == thr[t].old
<1>1. /\ thr[t].pc = "cancel" /\ Goto(t, "close") /\ UNCHANGED <<record, store, conn, down>>
      /\ sys' = [sys EXCEPT ![o].cancelled = TRUE]
  BY DEF Cancel, At
<1>2. o \in Sys /\ sys \in [Sys -> SysType] /\ "close" \in PCs
  BY <1>1, Types DEF RegInv, Victims, Removing, PCs
<1>3. Changes(o) /\ sys'[o].cancelled /\ sys'[o].status = sys[o].status /\ sys'[o].ws = sys[o].ws
  BY <1>1, <1>2 DEF Changes, SysType
<1> QED BY <1>1, <1>2, <1>3, GotoStep

LEMMA CloseStep ==
  ASSUME RegInv, NEW t \in Threads, CloseConn(t)
  PROVE  /\ Moves(t, "close", {"remove"})
         /\ thr'[t].new = thr[t].new /\ thr'[t].old = thr[t].old
         /\ thr[t].old \in Sys /\ conn' = Closed(sys[thr[t].old].ws)
         /\ UNCHANGED <<record, store, sys, down>>
<1>1. /\ thr[t].pc = "close" /\ Goto(t, "remove") /\ UNCHANGED <<record, store, sys, down>>
      /\ conn' = Closed(sys[thr[t].old].ws)
  BY DEF CloseConn, At
<1>2. thr[t].old \in Sys /\ "remove" \in PCs
  BY <1>1, Types DEF RegInv, Victims, Removing, PCs
<1> QED BY <1>1, <1>2, GotoStep

LEMMA RemoveStep ==
  ASSUME RegInv, NEW t \in Threads, Remove(t)
  PROVE  /\ Moves(t, "remove", {"off", "select", "answered", "check", "failed"})
         /\ thr'[t].new \in {NoSys, thr[t].new} /\ thr'[t].old = NoSys
         /\ store' = NoSys /\ UNCHANGED <<record, sys, conn, down>>
<1>1. TypeOK /\ thr[t].pc = "remove" /\ thr' = [thr EXCEPT ![t] = Removed(t)] /\ store' = NoSys
      /\ UNCHANGED <<record, sys, conn, down>>
  BY Types DEF Remove, At
<1> QED BY <1>1, RemovedFields, OneThread DEF Moves

LEMMA CheckStep ==
  ASSUME RegInv, NEW t \in Threads, Check(t), store = NoSys
  PROVE  \E i \in Sys :
           /\ Moves(t, "check", {"set"})
           /\ thr'[t].new = i /\ thr'[t].old = thr[t].old
           /\ IF thr[t].new = NoSys THEN sys[i] = Blank ELSE i = thr[t].new
           /\ Changes(i)
           /\ ~sys'[i].cancelled /\ sys'[i].status \in Status /\ sys'[i].ws \in {NoConn, sys[i].ws}
           /\ UNCHANGED <<record, store, conn, down>>
<1>0. /\ thr[t] \in ThreadType /\ TypeOK /\ thr[t].seen \in Status
      /\ \A i \in Sys : sys[i].ws \in Conns \cup {NoConn}
  BY Types
<1>1. Fill(t) /\ thr[t].pc = "check" /\ UNCHANGED <<record, store, conn, down>>
  BY DEF Check, At
<1>2. PICK i \in Sys :
        /\ IF thr[t].new = NoSys THEN sys[i] = Blank ELSE i = thr[t].new
        /\ sys' = [sys EXCEPT ![i] =
                     [status |-> thr[t].seen, cancelled |-> FALSE,
                      ws |-> IF thr[t].new = NoSys THEN NoConn ELSE sys[i].ws]]
        /\ thr' = [thr EXCEPT ![t] = [@ EXCEPT !.pc = "set", !.new = i]]
  BY <1>1 DEF Fill
<1> DEFINE r == [thr[t] EXCEPT !.pc = "set", !.new = i]
<1>3. r \in ThreadType /\ r.pc = "set" /\ r.new = i /\ r.old = thr[t].old
  BY <1>0 DEF ThreadType, PCs
<1>4. thr' = [thr EXCEPT ![t] = r]
  BY <1>2
<1> HIDE DEF r
<1>5. /\ Changes(i) /\ ~sys'[i].cancelled /\ sys'[i].status \in Status
      /\ sys'[i].ws \in {NoConn, sys[i].ws}
  BY <1>0, <1>2 DEF Changes, TypeOK, SysType
<1>6. Moves(t, "check", {"set"}) /\ thr'[t].new = i /\ thr'[t].old = thr[t].old
  BY <1>0, <1>1, <1>3, <1>4, OneThread DEF Moves
<1> QED BY <1>1, <1>2, <1>5, <1>6

LEMMA SetStep ==
  ASSUME RegInv, NEW t \in Threads, Set(t)
  PROVE  LET n == thr[t].new
             v == Updater(n) IN
         /\ n \in Sys /\ store' = n /\ v \in Threads \ {t}
         /\ thr[t].pc = "set" /\ thr'[t].pc \in {"off", "select", "answered"}
         /\ thr'[t].new = NoSys /\ thr'[t].old = NoSys
         /\ thr[v].pc = "off" /\ thr'[v].pc = "start"
         /\ thr'[v].new = thr[v].new /\ thr'[v].old = thr[v].old
         /\ thr' \in [Threads -> ThreadType]
         /\ \A u \in Threads \ {t, v} : thr'[u] = thr[u]
         /\ UNCHANGED <<record, sys, conn, down>>
<1> DEFINE n == thr[t].new
           v == Updater(n)
           r == [thr[v] EXCEPT !.pc = "start"]
<1>1. /\ thr[t].pc = "set" /\ store' = n /\ UNCHANGED <<record, sys, conn, down>>
      /\ thr' = [[thr EXCEPT ![t] = Resting(t)] EXCEPT ![v].pc = "start"]
  BY DEF Set, At
<1>2. n \in Sys /\ n # NoSys /\ v \in Threads
  BY <1>1, Types, ThreadsExist DEF RegInv, AtSet, At
<1>3. thr[v].pc = "off"
  BY <1>2 DEF RegInv, Held, Running, At
<1>4. v # t /\ thr[v] \in ThreadType
  BY <1>1, <1>2, <1>3, Types
<1>5. r \in ThreadType /\ r.pc = "start" /\ r.new = thr[v].new /\ r.old = thr[v].old
  BY <1>4 DEF ThreadType, PCs
<1>6. thr' = [[thr EXCEPT ![t] = Resting(t)] EXCEPT ![v] = r]
  BY <1>1, <1>2, <1>4, Types
<1> HIDE DEF n, v, r
<1>7. /\ thr' \in [Threads -> ThreadType] /\ thr'[t] = Resting(t) /\ thr'[v] = r
      /\ \A u \in Threads \ {t, v} : thr'[u] = thr[u]
  BY <1>2, <1>4, <1>5, <1>6, Types, RestingType
<1> QED BY <1>1, <1>2, <1>3, <1>4, <1>5, <1>7, RestingFields DEF n, v

LEMMA FindStep ==
  ASSUME RegInv, NEW c \in Conns, Find(c), record \in Status
  PROVE  \E i \in Sys : LET t == Connect(c) IN
           /\ t \in Threads /\ Moves(t, "find", {"lookup"})
           /\ thr'[t].new = i /\ thr'[t].old = thr[t].old
           /\ sys[i] = Blank /\ Changes(i) /\ sys'[i] = [Blank EXCEPT !.ws = c]
           /\ UNCHANGED <<record, store, conn, down>>
<1> DEFINE t == Connect(c)
<1>0. t \in Threads /\ thr[t] \in ThreadType /\ TypeOK
  BY Types, ThreadsExist
<1>1. PICK i \in Sys :
        /\ sys[i] = Blank
        /\ sys' = [sys EXCEPT ![i] = [Blank EXCEPT !.ws = c]]
        /\ thr' = [thr EXCEPT ![t] =
                     CallRemove([@ EXCEPT !.seen = record, !.new = i], "check")]
  BY DEF Find
<1> DEFINE r == CallRemove([thr[t] EXCEPT !.seen = record, !.new = i], "check")
<1>2. r \in ThreadType /\ r.pc = "lookup" /\ r.new = i /\ r.old = thr[t].old
  BY <1>0 DEF ThreadType, PCs, Nexts, CallRemove
<1>3. thr' = [thr EXCEPT ![t] = r] /\ thr[t].pc = "find"
      /\ UNCHANGED <<record, store, conn, down>>
  BY <1>1 DEF Find, At
<1> HIDE DEF r
<1>4. Moves(t, "find", {"lookup"}) /\ thr'[t].new = i /\ thr'[t].old = thr[t].old
  BY <1>0, <1>2, <1>3, OneThread DEF Moves
<1>5. [Blank EXCEPT !.ws = c] \in SysType
  BY DEF Blank, SysType
<1>6. Changes(i) /\ sys'[i] = [Blank EXCEPT !.ws = c]
  BY <1>0, <1>1, <1>5 DEF Changes, TypeOK
<1> QED BY <1>0, <1>1, <1>3, <1>4, <1>6

LEMMA CollectStep ==
  ASSUME RegInv, NEW i \in Sys, CollectSystem(i)
  PROVE  /\ ~Live(i) /\ Changes(i) /\ sys'[i] = Blank
         /\ UNCHANGED <<record, store, conn, down, thr>>
<1>1. ~Live(i) /\ sys' = [sys EXCEPT ![i] = Blank] /\ UNCHANGED <<record, store, conn, down, thr>>
  BY DEF CollectSystem
<1>2. Blank \in SysType
  BY DEF Blank, SysType
<1> QED BY <1>1, <1>2, Types DEF Changes

\* A struct that is not in use may be taken for a new System.
LEMMA FreshStruct ==
  ASSUME RegInv, NEW i \in Sys, sys[i] = Blank
  PROVE  /\ ~Running(i) /\ store # i
         /\ \A u \in Threads : thr[u].new # i /\ thr[u].old # i
BY Types DEF RegInv, Used, Held, Victims

\* Every step is plain or one of those.
LEMMA StepKinds ==
  ASSUME RegInv, Next
  PROVE  \/ TypeOK' /\ Plain /\ KeepsLinks
         \/ \E c \in Conns : AgentConnect(c) \/ (Find(c) /\ record \in Status)
         \/ \E i \in Sys : CollectSystem(i)
         \/ \E t \in Threads : \/ LookUp(t) /\ store # NoSys
                               \/ Cancel(t) \/ CloseConn(t) \/ Remove(t)
                               \/ Check(t) /\ store = NoSys
                               \/ Set(t)
<1>1. CASE \E i \in Sys : SkipFirst(i) \/ DownSignal(i) \/ Done(i)
  BY <1>1, LoopPlain
<1>2. CASE \E t \in Pollers : Update(t)
  BY <1>2, UpdatePlain
<1>3. CASE \E t \in Threads : Hook(t)
  BY <1>3, HookPlain
<1>4. CASE \E t \in Threads : NothingToDo(t)
  BY <1>4, NothingToDoPlain
<1>5. CASE \E t \in Threads : Register(t)
  BY <1>4, <1>5 DEF Register, NothingToDo
<1>6. CASE \E c \in Conns : AgentConnect(c) \/ Find(c) \/ OnClose(c) \/ DownTimer(c)
  BY <1>4, <1>6, ConnectionPlain, ThreadsExist DEF NothingToDo
<1>7. CASE \E u \in Users : User(<<"user", u>>)
  BY <1>7, UserPlain
<1> QED BY <1>1, <1>2, <1>3, <1>5, <1>6, <1>7 DEF Next

-----------------------------------------------------------------------------
(* The registration invariant                                              *)

LEMMA PlainReg ==
  ASSUME RegInv, TypeOK', Plain
  PROVE  RegInv'
<1>0. /\ store' = store /\ PlainThreads /\ PlainStructs /\ Blank.status \notin Status
      /\ \A u \in Threads : thr[u].new \in Sys \cup {NoSys} /\ thr[u].old \in Sys \cup {NoSys}
      /\ NoSys \notin Sys /\ store \in Sys \cup {NoSys}
  BY Types DEF Plain
<1>1. \A u \in Threads : /\ thr'[u].new \in {NoSys, thr[u].new}
                         /\ thr'[u].old \in {NoSys, thr[u].old}
  BY <1>0 DEF PlainThreads, PlainMove
<1>2. \A i \in Sys : ~Running(i) => ~Running(i)'
  BY <1>0 DEF Running, At, PlainThreads
<1>3. \A i \in Sys : sys[i] # Blank => sys'[i] # Blank
  BY <1>0 DEF PlainStructs
<1>4. Held'
  BY <1>0, <1>1, <1>2, <1>3 DEF RegInv, Held, PlainStructs
<1>5. AtSet'
  <2>1. \A u \in Threads : thr'[u].pc = "set" => thr'[u] = thr[u]
    BY <1>0 DEF PlainThreads, PlainMove
  <2> QED BY <1>0, <2>1 DEF RegInv, AtSet, At, PlainStructs
<1>6. Used'
  BY <1>0, <1>2 DEF RegInv, Used, PlainStructs
<1>7. Victims'
  <2>1. ASSUME NEW u \in Threads, PlainMove(thr[u], thr'[u])
        PROVE  thr'[u].old = NoSys /\ thr'[u].pc \notin Removing
    BY <2>1 DEF RegInv, Victims, PlainMove
  <2> QED BY <1>0, <2>1 DEF RegInv, Victims, PlainThreads, PlainStructs, Removing
<1>8. DeadNotRegistered'
  <2>1. \A u \in Threads : thr[u].pc \in {"close", "remove"} => thr'[u] = thr[u]
    BY <1>0 DEF PlainThreads, PlainMove, Removing
  <2> QED BY <1>0, <2>1 DEF RegInv, DeadNotRegistered, At, PlainStructs
<1> QED BY <1>4, <1>5, <1>6, <1>7, <1>8 DEF RegInv

\* The steps of RemoveSystem
LEMMA RemovalReg ==
  ASSUME RegInv, NEW t \in Threads,
         (LookUp(t) /\ store # NoSys) \/ Cancel(t) \/ CloseConn(t) \/ Remove(t)
  PROVE  RegInv'
<1> DEFINE o == thr'[t].old
<1>0. /\ NoSys \notin Sys /\ store \in Sys \cup {NoSys} /\ Blank.status \notin Status
      /\ \A u \in Threads : thr[u].new \in Sys \cup {NoSys} /\ thr[u].old \in Sys \cup {NoSys}
  BY Types
<1>1. \E l \in {"lookup", "cancel", "close", "remove"} :
        Moves(t, l, {"cancel", "close", "remove", "off", "select", "answered", "check", "failed"})
  BY LookUpStep, CancelStep, CloseStep, RemoveStep DEF Moves
<1>2. /\ thr'[t].new \in {NoSys, thr[t].new}
      /\ o # NoSys => o = thr[t].old \/ (o = store /\ thr[t].pc = "lookup")
      /\ o # NoSys <=> thr'[t].pc \in Removing
      /\ store' \in {NoSys, store}
  BY <1>0, LookUpStep, CancelStep, CloseStep, RemoveStep DEF Moves, RegInv, Victims, Removing
<1>3. /\ \A i \in Sys : /\ sys'[i].status = sys[i].status
                        /\ sys'[i].cancelled # sys[i].cancelled => i = thr[t].old /\ thr'[t].pc = "close"
                        /\ sys[i].cancelled => sys'[i].cancelled
  <2>1. CASE Cancel(t)
    <3>1. thr[t].old \in Sys /\ Changes(thr[t].old) /\ sys'[thr[t].old].cancelled
          /\ sys'[thr[t].old].status = sys[thr[t].old].status /\ thr'[t].pc = "close"
      BY <2>1, CancelStep DEF Moves
    <3> QED BY <3>1 DEF Changes
  <2>2. CASE ~Cancel(t)
    BY <2>2, LookUpStep, CloseStep, RemoveStep
  <2> QED BY <2>1, <2>2
<1>4. TypeOK'
  <2>1. thr' \in [Threads -> ThreadType]
    BY <1>1 DEF Moves
  <2>2. sys' \in [Sys -> SysType] /\ conn' \in [Conns -> ConnType]
        /\ UNCHANGED <<record, down>>
    <3>1. CASE Cancel(t)
      BY <3>1, CancelStep, Types DEF Changes
    <3>2. CASE CloseConn(t)
      BY <3>2, CloseStep, ClosedLinks, Types
    <3>3. CASE (LookUp(t) /\ store # NoSys) \/ Remove(t)
      BY <3>3, LookUpStep, RemoveStep, Types
    <3> QED BY <3>1, <3>2, <3>3
  <2> QED BY <1>0, <1>2, <2>1, <2>2, Types DEF TypeOK
<1>5. \A u \in Threads : /\ thr'[u].new \in {NoSys, thr[u].new}
                         /\ thr[u].pc = "off" => thr'[u].pc = "off"
                         /\ thr'[u].pc = "set" => thr'[u] = thr[u]
  BY <1>1, <1>2 DEF Moves
<1>6. \A i \in Sys : ~Running(i) => ~Running(i)'
  BY <1>5, ThreadsExist DEF Running, At
<1>7. Held'
  <2> SUFFICES ASSUME NEW u \in Threads, thr'[u].new # NoSys
               PROVE  /\ thr'[Updater(thr'[u].new)].pc = "off" /\ store' # thr'[u].new
                      /\ sys'[thr'[u].new] # Blank /\ ~sys'[thr'[u].new].cancelled
                      /\ \A w \in Threads : /\ thr'[w].new = thr'[u].new => w = u
                                            /\ thr'[w].old # thr'[u].new
    BY DEF Held, Running, At
  <2> DEFINE n == thr[u].new
  <2>1. thr'[u].new = n /\ n \in Sys /\ n # NoSys
    BY <1>0, <1>5
  <2>2. /\ ~Running(n) /\ store # n /\ ~sys[n].cancelled /\ sys[n] # Blank
        /\ \A w \in Threads : (thr[w].new = n => w = u) /\ thr[w].old # n
    BY <2>1 DEF RegInv, Held
  <2>3. \A w \in Threads : thr'[w].old # n
    BY <1>1, <1>2, <2>1, <2>2, <1>0 DEF Moves
  <2>4. sys'[n] # Blank /\ ~sys'[n].cancelled
    <3>1. CASE Cancel(t)
      BY <2>1, <2>2, <3>1, CancelStep DEF Changes
    <3>2. CASE ~Cancel(t)
      BY <2>1, <2>2, <3>2, LookUpStep, CloseStep, RemoveStep
    <3> QED BY <3>1, <3>2
  <2>5. thr'[Updater(n)].pc = "off" /\ store' # n
    BY <1>0, <1>2, <1>6, <2>1, <2>2 DEF Running, At
  <2>6. \A w \in Threads : thr'[w].new = n => w = u
    BY <1>5, <2>1, <2>2
  <2> QED BY <2>1, <2>3, <2>4, <2>5, <2>6
<1>8. AtSet'
  BY <1>3, <1>5 DEF RegInv, AtSet, At
<1>9. Used'
  BY <1>0, <1>2, <1>3, <1>6 DEF RegInv, Used
<1>10. Victims'
  <2>1. \A u \in Threads \ {t} : /\ thr'[u].old # NoSys <=> thr'[u].pc \in Removing
                                 /\ thr'[u].old # NoSys => sys'[thr'[u].old].status \in Status
                                 /\ thr'[u].pc \in {"close", "remove"} => sys'[thr'[u].old].cancelled
    BY <1>0, <1>1, <1>3 DEF Moves, RegInv, Victims, Removing
  <2>2. o # NoSys => o \in Sys /\ sys'[o].status \in Status
    BY <1>0, <1>2, <1>3 DEF RegInv, Victims, Used
  <2>3. thr'[t].pc \in {"close", "remove"} => sys'[o].cancelled
    <3>1. CASE Cancel(t)
      BY <3>1, CancelStep
    <3>2. CASE CloseConn(t)
      BY <3>2, CloseStep DEF Moves, RegInv, Victims
    <3>3. CASE (LookUp(t) /\ store # NoSys) \/ Remove(t)
      BY <3>3, LookUpStep, RemoveStep DEF Moves
    <3> QED BY <3>1, <3>2, <3>3
  <2> HIDE DEF o
  <2>4. \A u \in Threads \ {t} : u # t
    OBVIOUS
  <2> QED BY <1>2, <2>1, <2>2, <2>3 DEF Victims, o
<1>11. DeadNotRegistered'
  <2>1. CASE Remove(t)
    BY <2>1, RemoveStep DEF DeadNotRegistered
  <2>2. CASE Cancel(t)
    BY <2>2, CancelStep DEF Moves, DeadNotRegistered, At
  <2>3. CASE CloseConn(t)
    BY <2>3, CloseStep DEF Moves, DeadNotRegistered, At
  <2>4. CASE LookUp(t) /\ store # NoSys
    BY <2>4, LookUpStep DEF Moves, RegInv, DeadNotRegistered, At
  <2> QED BY <2>1, <2>2, <2>3, <2>4
<1> QED BY <1>4, <1>7, <1>8, <1>9, <1>10, <1>11 DEF RegInv

\* A struct is taken, or filled, for a System that is about to be registered.
LEMMA TakenReg ==
  ASSUME RegInv, NEW t \in Threads, NEW i \in Sys,
         Moves(t, "find", {"lookup"}) \/ Moves(t, "check", {"set"}),
         thr'[t].new = i, thr'[t].old = thr[t].old, Changes(i),
         thr[t].pc = "find" \/ thr[t].new = NoSys => sys[i] = Blank,
         sys[i] # Blank => i = thr[t].new,
         sys'[i] # Blank, ~sys'[i].cancelled,
         thr[t].pc = "check" => sys'[i].status \in Status,
         UNCHANGED <<record, store, conn, down>>
  PROVE  RegInv'
<1>0. /\ NoSys \notin Sys /\ store \in Sys \cup {NoSys} /\ Blank.status \notin Status
      /\ \A u \in Threads : thr[u].new \in Sys \cup {NoSys} /\ thr[u].old \in Sys \cup {NoSys}
  BY Types
<1>1. /\ thr' \in [Threads -> ThreadType] /\ \A u \in Threads \ {t} : thr'[u] = thr[u]
      /\ thr[t].pc \in {"find", "check"} /\ thr'[t].pc \in {"lookup", "set"}
      /\ thr'[t].pc = "set" => thr[t].pc = "check"
  BY DEF Moves
<1>2. /\ ~Running(i) /\ store # i
      /\ \A u \in Threads : /\ thr[u].new = i => u = t
                            /\ thr[u].old # i
  <2>1. CASE sys[i] = Blank
    BY <2>1, FreshStruct
  <2>2. CASE i = thr[t].new
    BY <1>0, <2>2 DEF RegInv, Held
  <2> QED BY <2>1, <2>2
<1>3. thr[t].old = NoSys
  BY <1>1 DEF RegInv, Victims, Removing
<1>4. TypeOK'
  BY <1>1, Types DEF TypeOK, Changes
<1>5. \A j \in Sys : ~Running(j) => ~Running(j)'
  <2>1. \A u \in Threads : thr[u].pc = "off" => thr'[u].pc = "off"
    BY <1>1
  <2> QED BY <2>1, ThreadsExist DEF Running, At
<1>6. Held'
  <2> SUFFICES ASSUME NEW u \in Threads, thr'[u].new # NoSys
               PROVE  /\ thr'[Updater(thr'[u].new)].pc = "off" /\ store # thr'[u].new
                      /\ sys'[thr'[u].new] # Blank /\ ~sys'[thr'[u].new].cancelled
                      /\ \A w \in Threads : /\ thr'[w].new = thr'[u].new => w = u
                                            /\ thr'[w].old # thr'[u].new
    BY DEF Held, Running, At
  <2>1. CASE u = t
    <3>1. thr'[Updater(i)].pc = "off"
      BY <1>2, <1>5 DEF Running, At
    <3>2. \A w \in Threads : thr'[w].new = i => w = t
      BY <1>1, <1>2
    <3>3. \A w \in Threads : thr'[w].old # i
      BY <1>1, <1>2
    <3> QED BY <1>2, <2>1, <3>1, <3>2, <3>3
  <2>2. CASE u # t
    <3> DEFINE n == thr[u].new
    <3>1. thr'[u].new = n /\ n \in Sys /\ n # NoSys /\ n # i
      BY <1>0, <1>1, <1>2, <2>2
    <3>2. /\ ~Running(n) /\ store # n /\ sys[n] # Blank /\ ~sys[n].cancelled
          /\ \A w \in Threads : (thr[w].new = n => w = u) /\ thr[w].old # n
      BY <3>1 DEF RegInv, Held
    <3>3. thr'[Updater(n)].pc = "off"
      BY <1>5, <3>1, <3>2 DEF Running, At
    <3>4. sys'[n] = sys[n]
      BY <3>1 DEF Changes
    <3>5. \A w \in Threads : (thr'[w].new = n => w = u) /\ thr'[w].old # n
      BY <1>1, <3>1, <3>2
    <3> QED BY <3>1, <3>2, <3>3, <3>4, <3>5
  <2> QED BY <2>1, <2>2
<1>7. AtSet'
  <2>1. \A u \in Threads \ {t} : thr[u].pc = "set" => thr[u].new \in Sys /\ thr[u].new # i
    BY <1>2 DEF RegInv, AtSet, At
  <2> QED BY <1>1, <2>1 DEF RegInv, AtSet, At, Changes
<1>8. Used'
  BY <1>2, <1>5 DEF RegInv, Used, Changes
<1>9. Victims'
  BY <1>0, <1>1, <1>2, <1>3 DEF RegInv, Victims, Removing, Changes
<1>10. DeadNotRegistered'
  BY <1>0, <1>1, <1>2 DEF RegInv, DeadNotRegistered, At, Changes
<1> QED BY <1>4, <1>6, <1>7, <1>8, <1>9, <1>10 DEF RegInv

LEMMA SetReg ==
  ASSUME RegInv, NEW t \in Threads, Set(t)
  PROVE  RegInv'
<1> DEFINE n == thr[t].new
           v == Updater(n)
<1>0. /\ NoSys \notin Sys /\ store \in Sys \cup {NoSys}
      /\ \A u \in Threads : thr[u].new \in Sys \cup {NoSys} /\ thr[u].old \in Sys \cup {NoSys}
  BY Types
<1>1. /\ n \in Sys /\ store' = n /\ v \in Threads \ {t}
      /\ thr[t].pc = "set" /\ thr'[t].pc \in {"off", "select", "answered"}
      /\ thr'[t].new = NoSys /\ thr'[t].old = NoSys
      /\ thr[v].pc = "off" /\ thr'[v].pc = "start"
      /\ thr'[v].new = thr[v].new /\ thr'[v].old = thr[v].old
      /\ thr' \in [Threads -> ThreadType]
      /\ \A u \in Threads \ {t, v} : thr'[u] = thr[u]
      /\ UNCHANGED <<record, sys, conn, down>>
  BY SetStep
<1>2. /\ ~sys[n].cancelled /\ sys[n].status \in Status
      /\ \A u \in Threads : thr[u].new = n => u = t
  BY <1>0, <1>1 DEF RegInv, Held, AtSet, At
<1>3. \A u \in Threads : u # t => thr'[u].new = thr[u].new /\ thr'[u].old = thr[u].old
  BY <1>1
<1>4. \A j \in Sys \ {n} : ~Running(j) => ~Running(j)'
  <2>1. \A j \in Sys \ {n} : Updater(j) # v /\ Updater(j) \in Threads
    BY <1>1, ThreadsDiffer, ThreadsExist
  <2> HIDE DEF n, v
  <2> QED BY <1>1, <2>1 DEF Running, At
<1>5. TypeOK'
  BY <1>1, Types DEF TypeOK
<1> HIDE DEF n, v
<1>6. Held'
  <2> SUFFICES ASSUME NEW u \in Threads, thr'[u].new # NoSys
               PROVE  /\ thr'[Updater(thr'[u].new)].pc = "off" /\ store' # thr'[u].new
                      /\ sys'[thr'[u].new] # Blank /\ ~sys'[thr'[u].new].cancelled
                      /\ \A w \in Threads : /\ thr'[w].new = thr'[u].new => w = u
                                            /\ thr'[w].old # thr'[u].new
    BY DEF Held, Running, At
  <2> DEFINE m == thr[u].new
  <2>1. u # t /\ thr'[u].new = m /\ m \in Sys /\ m # NoSys /\ m # n
    BY <1>0, <1>1, <1>2, <1>3
  <2>2. /\ ~Running(m) /\ sys[m] # Blank /\ ~sys[m].cancelled
        /\ \A w \in Threads : (thr[w].new = m => w = u) /\ thr[w].old # m
    BY <2>1 DEF RegInv, Held
  <2>3. thr'[Updater(m)].pc = "off"
    BY <1>4, <2>1, <2>2 DEF Running, At
  <2>4. \A w \in Threads : (thr'[w].new = m => w = u) /\ thr'[w].old # m
    BY <1>1, <1>3, <2>1, <2>2
  <2> QED BY <1>1, <2>1, <2>2, <2>3, <2>4
<1>7. AtSet'
  <2>1. \A u \in Threads : thr'[u].pc = "set" => thr'[u] = thr[u]
    BY <1>1
  <2> QED BY <1>1, <2>1 DEF RegInv, AtSet, At
<1>8. Used'
  BY <1>1, <1>2, <1>4 DEF RegInv, Used
<1>9. Victims'
  <2>1. \A u \in Threads \ {t} : /\ thr'[u].pc \in Removing <=> thr[u].pc \in Removing
                                 /\ thr'[u].pc \in {"close", "remove"} => thr'[u].pc = thr[u].pc
    BY <1>1 DEF Removing
  <2>2. thr'[t].pc \notin Removing /\ thr'[t].pc \notin {"close", "remove"}
    BY <1>1 DEF Removing
  <2> QED BY <1>1, <1>3, <2>1, <2>2 DEF RegInv, Victims
<1>10. DeadNotRegistered'
  BY <1>1, <1>2 DEF DeadNotRegistered
<1> QED BY <1>5, <1>6, <1>7, <1>8, <1>9, <1>10 DEF RegInv

LEMMA CollectReg ==
  ASSUME RegInv, NEW i \in Sys, CollectSystem(i)
  PROVE  RegInv'
<1>1. /\ store # i /\ ~Running(i) /\ \A u \in Threads : thr[u].new # i /\ thr[u].old # i
      /\ UNCHANGED <<record, store, conn, down, thr>>
      /\ sys' \in [Sys -> SysType] /\ \A j \in Sys \ {i} : sys'[j] = sys[j]
  BY CollectStep DEF Live, Running, At, Changes
<1>0. /\ NoSys \notin Sys /\ store \in Sys \cup {NoSys}
      /\ \A u \in Threads : thr[u].new \in Sys \cup {NoSys} /\ thr[u].old \in Sys \cup {NoSys}
  BY Types
<1>2. \A j \in Sys : Running(j)' = Running(j)
  BY <1>1 DEF Running, At
<1>3. TypeOK' /\ Held'
  BY <1>0, <1>1, Types DEF RegInv, TypeOK, Held, Running, At
<1>4. AtSet' /\ Used'
  BY <1>1, <1>2 DEF RegInv, AtSet, Used, At
<1>5. Victims'
  BY <1>0, <1>1 DEF RegInv, Victims, Removing
<1>6. DeadNotRegistered'
  BY <1>0, <1>1 DEF RegInv, DeadNotRegistered, At
<1> QED BY <1>3, <1>4, <1>5, <1>6 DEF RegInv

LEMMA RegStep ==
  ASSUME RegInv, [Next]_vars
  PROVE  RegInv'
<1>1. CASE TypeOK' /\ Plain
  BY <1>1, PlainReg
<1>2. CASE \E c \in Conns : AgentConnect(c)
  BY <1>2, AgentConnectStep, PlainReg
<1>3. CASE \E c \in Conns : Find(c) /\ record \in Status
  <2>1. PICK c \in Conns : Find(c) /\ record \in Status
    BY <1>3
  <2>2. PICK i \in Sys : LET t == Connect(c) IN
          /\ t \in Threads /\ Moves(t, "find", {"lookup"})
          /\ thr'[t].new = i /\ thr'[t].old = thr[t].old
          /\ sys[i] = Blank /\ Changes(i) /\ sys'[i] = [Blank EXCEPT !.ws = c]
          /\ UNCHANGED <<record, store, conn, down>>
    BY <2>1, FindStep
  <2>3. sys'[i] # Blank /\ ~sys'[i].cancelled
    BY <2>2, NullAssumption DEF Blank
  <2> QED BY <2>2, <2>3, TakenReg DEF Moves
<1>4. CASE \E t \in Threads : Check(t) /\ store = NoSys
  <2>1. PICK t \in Threads : Check(t) /\ store = NoSys
    BY <1>4
  <2>2. PICK i \in Sys :
          /\ Moves(t, "check", {"set"})
          /\ thr'[t].new = i /\ thr'[t].old = thr[t].old
          /\ IF thr[t].new = NoSys THEN sys[i] = Blank ELSE i = thr[t].new
          /\ Changes(i)
          /\ ~sys'[i].cancelled /\ sys'[i].status \in Status
          /\ UNCHANGED <<record, store, conn, down>>
    BY <2>1, CheckStep
  <2>3. sys'[i] # Blank
    BY <2>2, Types
  <2> QED BY <2>2, <2>3, TakenReg DEF Moves
<1>5. CASE \E t \in Threads : (LookUp(t) /\ store # NoSys) \/ Cancel(t) \/ CloseConn(t) \/ Remove(t)
  BY <1>5, RemovalReg
<1>6. CASE \E t \in Threads : Set(t)
  BY <1>6, SetReg
<1>7. CASE \E i \in Sys : CollectSystem(i)
  BY <1>7, CollectReg
<1>8. CASE UNCHANGED vars
  BY <1>8 DEF RegInv, TypeOK, Held, AtSet, Used, Victims, DeadNotRegistered, Running, At, vars
<1>9. CASE Next
  BY <1>1, <1>2, <1>3, <1>4, <1>5, <1>6, <1>7, <1>9, StepKinds
<1> QED BY <1>8, <1>9

LEMMA RegInit == Init => RegInv
<1> SUFFICES ASSUME Init PROVE RegInv
  OBVIOUS
<1>1. TypeOK
  <2>1. \A t \in Threads : thr[t] \in ThreadType
    BY RestingType DEF Init, Off, ThreadType, Status, PCs, Nexts
  <2>2. thr = [t \in Threads |-> thr[t]]
    BY DEF Init
  <2>3. sys \in [Sys -> SysType]
    BY DEF Init, Blank, SysType
  <2> QED BY <2>1, <2>2, <2>3 DEF Init, TypeOK, ConnType
<1>2. \A t \in Threads : /\ thr[t].pc \in {"off", "check"}
                         /\ thr[t].new = NoSys /\ thr[t].old = NoSys
  BY DEF Init, Off
<1>3. \A i \in Sys : ~Running(i)
  BY ThreadsExist, ThreadsDiffer DEF Init, Off, Running, At
<1>4. store = NoSys
  BY DEF Init
<1> QED BY <1>1, <1>2, <1>3, <1>4, NullAssumption
        DEF RegInv, Held, AtSet, Used, Victims, DeadNotRegistered, At, Removing

\* What is true of the registration of a system, in every state
LEMMA Registration == Spec => []RegInv
<1> QED BY RegInit, RegStep, PTL DEF Spec

\* The model's variables keep the types of the row, the store and the structs.
THEOREM TypeCorrect == Spec => []TypeOK
<1>1. RegInv => TypeOK
  BY DEF RegInv
<1> QED BY <1>1, Registration, PTL

\* RemoveSystem cancels the System before it takes the entry out of the store, and
\* AddSystem registers: in whatever order several threads do so, a cancelled System is
\* in the store only while a thread is about to take it out.
THEOREM NoDeadSystem == Spec => []DeadNotRegistered
<1>1. RegInv => DeadNotRegistered
  BY DEF RegInv
<1> QED BY <1>1, Registration, PTL

-----------------------------------------------------------------------------
(* Connections                                                             *)

\* A connection that a System holds, or its goroutine is about to give to one, has
\* been opened: it is not opened again.
ConnUsed == /\ \A i \in Sys : sys[i].ws # NoConn => conn[sys[i].ws] # "unused"
            /\ \A c \in Conns : thr[Connect(c)].pc = "find" => conn[c] # "unused"

LinkInv == RegInv /\ ConnUsed /\ CutOff

\* What a step must leave as it is for CutOff to stay true: no System is cancelled or
\* gets a usable connection, and no thread goes past the close.
LEMMA StillCut ==
  ASSUME LinkInv,
         \A i \in Sys : sys'[i].cancelled => sys[i].cancelled /\ sys'[i].ws \in {NoConn, sys[i].ws},
         \A i \in Sys : sys'[i].cancelled /\ sys'[i].ws # NoConn /\ conn'[sys'[i].ws] = "open"
                          => conn[sys'[i].ws] = "open",
         \A u \in Threads : thr[u].pc = "close" => thr'[u] = thr[u]
  PROVE  CutOff'
BY DEF LinkInv, CutOff, Linked, At

LEMMA PlainLink ==
  ASSUME LinkInv, Plain, KeepsLinks
  PROVE  ConnUsed' /\ CutOff'
<1>0. /\ RegInv /\ PlainThreads /\ PlainStructs /\ NoConn \notin Conns
      /\ \A i \in Sys : sys[i].ws \in Conns \cup {NoConn}
      /\ \A i \in Sys : sys'[i].ws \in {NoConn, sys[i].ws}
  BY Types DEF LinkInv, Plain, KeepsLinks
<1>1. ConnUsed'
  BY <1>0 DEF LinkInv, ConnUsed, KeepsLinks
<1>2. \A u \in Threads : thr[u].pc = "close" => thr'[u] = thr[u]
  BY <1>0 DEF PlainThreads, PlainMove, Removing
<1>3. \A i \in Sys : sys'[i].cancelled => sys[i].cancelled
  BY <1>0 DEF PlainStructs
<1>4. \A i \in Sys : sys'[i].ws # NoConn /\ conn'[sys'[i].ws] = "open" => conn[sys'[i].ws] = "open"
  BY <1>0 DEF KeepsLinks
<1> QED BY <1>0, <1>1, <1>2, <1>3, <1>4, StillCut

LEMMA RegisterLink ==
  ASSUME LinkInv, NEW t \in Threads,
         \/ LookUp(t) /\ store # NoSys
         \/ Cancel(t) \/ CloseConn(t) \/ Remove(t)
         \/ Check(t) /\ store = NoSys
         \/ Set(t)
  PROVE  ConnUsed' /\ CutOff'
<1>0. /\ RegInv /\ NoConn \notin Conns /\ NoSys \notin Sys
      /\ \A i \in Sys : sys[i].ws \in Conns \cup {NoConn}
  BY Types DEF LinkInv
<1> USE <1>0
<1>1. CASE (LookUp(t) /\ store # NoSys) \/ Remove(t)
  <2>1. /\ UNCHANGED <<sys, conn>> /\ thr[t].pc # "close" /\ thr'[t].pc # "find"
        /\ \A u \in Threads \ {t} : thr'[u] = thr[u]
    BY <1>1, LookUpStep, RemoveStep DEF Moves
  <2> QED BY <2>1, StillCut, ThreadsExist DEF LinkInv, ConnUsed
<1>2. CASE Cancel(t)
  <2> DEFINE o == thr[t].old
  <2>1. /\ conn' = conn /\ thr[t].pc = "cancel" /\ thr'[t].pc = "close" /\ thr'[t].old = o
        /\ \A u \in Threads \ {t} : thr'[u] = thr[u]
        /\ o \in Sys /\ sys'[o].ws = sys[o].ws
        /\ \A j \in Sys \ {o} : sys'[j] = sys[j]
    BY <1>2, CancelStep DEF Moves, Changes
  <2> HIDE DEF o
  <2>2. CutOff'
    <3> SUFFICES ASSUME NEW i \in Sys, sys'[i].cancelled, Linked(i)'
                 PROVE  \E u \in Threads : thr'[u].pc = "close" /\ thr'[u].old = i
      BY DEF CutOff, At
    <3>1. CASE i = o
      BY <2>1, <3>1
    <3>2. CASE i # o
      BY <2>1, <3>2 DEF LinkInv, CutOff, Linked, At
    <3> QED BY <3>1, <3>2
  <2> QED BY <2>1, <2>2, ThreadsExist DEF LinkInv, ConnUsed
<1>3. CASE CloseConn(t)
  <2> DEFINE o == thr[t].old
  <2>1. /\ sys' = sys /\ thr[t].pc = "close" /\ thr'[t].pc = "remove"
        /\ \A u \in Threads \ {t} : thr'[u] = thr[u]
        /\ o \in Sys /\ conn' = Closed(sys[o].ws)
    BY <1>3, CloseStep DEF Moves
  <2>2. \A d \in Conns : /\ conn'[d] = "open" => conn[d] = "open" /\ d # sys[o].ws
                         /\ conn'[d] = "unused" => conn[d] = "unused"
    BY <2>1, ClosedLinks
  <2>3. ConnUsed'
    BY <2>1, <2>2, ThreadsExist DEF LinkInv, ConnUsed
  <2>4. CutOff'
    <3> SUFFICES ASSUME NEW i \in Sys, sys'[i].cancelled, Linked(i)'
                 PROVE  \E u \in Threads : thr'[u].pc = "close" /\ thr'[u].old = i
      BY DEF CutOff, At
    <3>1. sys[i].cancelled /\ Linked(i) /\ i # o
      BY <2>1, <2>2 DEF Linked
    <3>2. PICK u \in Threads : thr[u].pc = "close" /\ thr[u].old = i
      BY <3>1 DEF LinkInv, CutOff, At
    <3> QED BY <2>1, <3>1, <3>2
  <2> QED BY <2>3, <2>4
<1>4. CASE Check(t) /\ store = NoSys
  <2>1. PICK i \in Sys :
          /\ Moves(t, "check", {"set"}) /\ Changes(i) /\ conn' = conn
          /\ ~sys'[i].cancelled /\ sys'[i].ws \in {NoConn, sys[i].ws}
    BY <1>4, CheckStep
  <2>2. \A j \in Sys : sys'[j].ws \in {NoConn, sys[j].ws} /\ (sys'[j].cancelled => sys'[j] = sys[j])
    BY <2>1 DEF Changes
  <2>3. CutOff'
    BY <2>1, <2>2, StillCut DEF Moves
  <2> QED BY <2>1, <2>2, <2>3, ThreadsExist DEF LinkInv, ConnUsed, Moves
<1>5. CASE Set(t)
  <2>1. UNCHANGED <<sys, conn>> /\ \A u \in Threads : thr'[u].pc # thr[u].pc =>
                                     thr[u].pc \in {"set", "off"} /\ thr'[u].pc # "find"
    BY <1>5, SetStep
  <2>2. \A u \in Threads : thr[u].pc = "close" => thr'[u] = thr[u]
    BY <1>5, SetStep
  <2> QED BY <2>1, <2>2, StillCut, ThreadsExist DEF LinkInv, ConnUsed
<1> QED BY <1>1, <1>2, <1>3, <1>4, <1>5

LEMMA ConnectLink ==
  ASSUME LinkInv, NEW c \in Conns, AgentConnect(c) \/ (Find(c) /\ record \in Status)
  PROVE  ConnUsed' /\ CutOff'
<1>0. /\ RegInv /\ NoConn \notin Conns
      /\ \A i \in Sys : sys[i].ws \in Conns \cup {NoConn}
  BY Types DEF LinkInv
<1>1. CASE AgentConnect(c)
  <2>1. /\ sys' = sys /\ conn[c] = "unused" /\ conn'[c] = "open" /\ PlainThreads
        /\ \A d \in Conns \ {c} : conn'[d] = conn[d]
        /\ \A u \in Threads \ {Connect(c)} : thr'[u] = thr[u]
    BY <1>0, <1>1, AgentConnectStep DEF Plain
  <2>2. \A d \in Conns \ {c} : Connect(d) # Connect(c)
    BY DEF Connect
  <2>3. ConnUsed'
    BY <1>0, <2>1, <2>2, ThreadsExist DEF LinkInv, ConnUsed
  <2>4. \A i \in Sys : sys[i].ws # NoConn => sys[i].ws \in Conns \ {c}
    BY <1>0, <2>1 DEF LinkInv, ConnUsed
  <2>5. \A u \in Threads : thr[u].pc = "close" => thr'[u] = thr[u]
    BY <2>1 DEF PlainThreads, PlainMove, Removing
  <2>6. CutOff'
    BY <2>1, <2>4, <2>5, StillCut
  <2> QED BY <2>3, <2>6
<1>2. CASE Find(c) /\ record \in Status
  <2>1. PICK i \in Sys :
          /\ Moves(Connect(c), "find", {"lookup"}) /\ Changes(i) /\ conn' = conn
          /\ sys'[i] = [Blank EXCEPT !.ws = c]
    BY <1>0, <1>2, FindStep
  <2>2. ~sys'[i].cancelled /\ sys'[i].ws = c
    BY <2>1 DEF Blank
  <2>3. conn[c] # "unused"
    BY <2>1 DEF LinkInv, ConnUsed, Moves
  <2>4. ConnUsed'
    <3>1. \A j \in Sys : sys'[j].ws # NoConn => conn'[sys'[j].ws] # "unused"
      BY <2>1, <2>2, <2>3 DEF LinkInv, ConnUsed, Changes
    <3>2. \A d \in Conns : thr'[Connect(d)].pc = "find" => thr[Connect(d)].pc = "find"
      BY <2>1, ThreadsExist DEF Moves
    <3> QED BY <2>1, <3>1, <3>2 DEF LinkInv, ConnUsed
  <2>5. CutOff'
    BY <2>1, <2>2, StillCut DEF Moves, Changes
  <2> QED BY <2>4, <2>5
<1> QED BY <1>1, <1>2

LEMMA LinkStep ==
  ASSUME LinkInv, [Next]_vars
  PROVE  LinkInv'
<1>0. RegInv /\ RegInv'
  BY RegStep DEF LinkInv
<1>1. CASE UNCHANGED vars
  BY <1>0, <1>1 DEF LinkInv, ConnUsed, CutOff, Linked, At, vars
<1>2. CASE \E i \in Sys : CollectSystem(i)
  <2>1. PICK i \in Sys : Changes(i) /\ sys'[i] = Blank /\ UNCHANGED <<conn, thr>>
    BY <1>0, <1>2, CollectStep
  <2>2. ~sys'[i].cancelled /\ sys'[i].ws = NoConn
    BY <2>1 DEF Blank
  <2>3. CutOff'
    BY <2>1, <2>2, StillCut DEF Changes
  <2> QED BY <1>0, <2>1, <2>2, <2>3 DEF LinkInv, ConnUsed, Changes
<1>3. CASE Next
  BY <1>0, <1>2, <1>3, StepKinds, PlainLink, RegisterLink, ConnectLink DEF LinkInv
<1> QED BY <1>1, <1>3

\* The connection of a System that was replaced or removed cannot be used, in whatever
\* order RemoveSystem and the other goroutines run: only the thread that has just
\* cancelled it stands between it and the close.  (The updater may still save an answer
\* it has already: RecoverySeen is about what becomes of the row then.)
THEOREM ReplacedIsCutOff == Spec => []CutOff
<1>1. Init => LinkInv
  <2> SUFFICES ASSUME Init PROVE ConnUsed /\ CutOff
    BY RegInit DEF LinkInv
  <2>1. \A c \in Conns : thr[Connect(c)].pc # "find"
    BY ThreadsExist DEF Init, Off
  <2>2. \A i \in Sys : sys[i].ws = NoConn /\ ~sys[i].cancelled
    BY DEF Init, Blank
  <2> QED BY <2>1, <2>2 DEF ConnUsed, CutOff
<1>2. LinkInv => CutOff
  BY DEF LinkInv
<1> QED BY <1>1, <1>2, LinkStep, PTL DEF Spec

-----------------------------------------------------------------------------
(* One updater                                                             *)

LEMMA PlainOrderly ==
  ASSUME RegInv, Orderly, Plain
  PROVE  Orderly'
<1>1. store' = store /\ PlainThreads /\ PlainStructs
  BY DEF Plain
<1>2. \A i \in Sys : Running(i)' => Running(i)
  BY <1>1 DEF Running, At, PlainThreads
<1>3. OneUpdater'
  BY <1>1, <1>2 DEF Orderly, OneUpdater, PlainStructs
<1>4. SetIsFree'
  BY <1>1 DEF Orderly, SetIsFree, At, PlainThreads, PlainMove
<1>5. RemovesIts'
  BY <1>1 DEF Orderly, RemovesIts, PlainThreads, PlainMove
<1> QED BY <1>3, <1>4, <1>5 DEF Orderly

\* While no other thread is between the steps of AddSystem or RemoveSystem.
LEMMA AloneOrderly ==
  ASSUME RegInv, Orderly, Alone, Next
  PROVE  Orderly'
<1>0. /\ NoSys \notin Sys /\ store \in Sys \cup {NoSys}
      /\ \A u \in Threads : thr[u].new \in Sys \cup {NoSys} /\ thr[u].old \in Sys \cup {NoSys}
  BY Types
<1>1. CASE Plain
  BY <1>1, PlainOrderly
<1>2. CASE \E c \in Conns : AgentConnect(c)
  BY <1>2, AgentConnectStep, PlainOrderly
<1>3. CASE \E t \in Threads : (LookUp(t) /\ store # NoSys) \/ CloseConn(t)
  <2>1. PICK t \in Threads : (LookUp(t) /\ store # NoSys) \/ CloseConn(t)
    BY <1>3
  <2>2. /\ UNCHANGED <<store, sys>> /\ thr[t].pc # "off" /\ thr'[t].pc # "set"
        /\ thr'[t].old \in {store, thr[t].old}
        /\ \A u \in Threads \ {t} : thr'[u] = thr[u]
    BY <2>1, LookUpStep, CloseStep DEF Moves
  <2>3. \A i \in Sys : Running(i)' => Running(i)
    BY <2>2, ThreadsExist DEF Running, At
  <2> QED BY <1>0, <2>2, <2>3 DEF Orderly, OneUpdater, SetIsFree, RemovesIts, At
<1>4. CASE \E t \in Threads : Cancel(t)
  <2>1. PICK t \in Threads : Cancel(t)
    BY <1>4
  <2>2. /\ store' = store /\ thr[t].pc # "off" /\ thr'[t].pc # "set" /\ thr'[t].old = thr[t].old
        /\ \A u \in Threads \ {t} : thr'[u] = thr[u]
        /\ \A i \in Sys : ~sys'[i].cancelled => ~sys[i].cancelled
    BY <2>1, CancelStep DEF Moves, Changes
  <2>3. \A i \in Sys : Running(i)' => Running(i)
    BY <2>2, ThreadsExist DEF Running, At
  <2> QED BY <1>0, <2>2, <2>3 DEF Orderly, OneUpdater, SetIsFree, RemovesIts, At
<1>5. CASE \E t \in Threads : Remove(t)
  <2>1. PICK t \in Threads : Remove(t)
    BY <1>5
  <2>2. /\ store' = NoSys /\ sys' = sys /\ thr[t].pc = "remove" /\ thr'[t].old = NoSys
        /\ \A u \in Threads \ {t} : thr'[u] = thr[u]
    BY <2>1, RemoveStep DEF Moves
  <2>3. \A i \in Sys : Running(i)' => Running(i)
    BY <2>2, ThreadsExist DEF Running, At
  <2>4. thr[t].old # NoSys /\ sys[thr[t].old].cancelled
    BY <2>2 DEF RegInv, Victims, Removing
  <2>5. store = thr[t].old
    BY <2>4 DEF Orderly, RemovesIts
  <2>6. \A i \in Sys : Running(i) => sys[i].cancelled
    BY <2>4, <2>5 DEF Orderly, OneUpdater
  <2>7. \A u \in Threads \ {t} : thr[u].old = NoSys
    BY <2>4 DEF Alone, Between
  <2> QED BY <1>0, <2>2, <2>3, <2>6, <2>7 DEF Orderly, OneUpdater, SetIsFree, RemovesIts
<1>6. CASE \E t \in Threads : Check(t) /\ store = NoSys
  <2>1. PICK t \in Threads, i \in Sys :
          /\ Moves(t, "check", {"set"}) /\ thr'[t].new = i /\ thr'[t].old = thr[t].old
          /\ IF thr[t].new = NoSys THEN sys[i] = Blank ELSE i = thr[t].new
          /\ Changes(i) /\ store' = store /\ store = NoSys
    BY <1>6, CheckStep
  <2>2. ~Running(i)
    BY <1>0, <2>1, FreshStruct DEF RegInv, Held
  <2>3. \A j \in Sys : Running(j)' => Running(j)
    BY <2>1, ThreadsExist DEF Running, At, Moves
  <2>4. OneUpdater'
    BY <2>1, <2>2, <2>3 DEF Orderly, OneUpdater, Changes
  <2>5. SetIsFree' /\ RemovesIts'
    BY <2>1 DEF Orderly, SetIsFree, RemovesIts, Moves
  <2> QED BY <2>4, <2>5 DEF Orderly
<1>7. CASE \E t \in Threads : Set(t)
  <2>1. PICK t \in Threads : Set(t)
    BY <1>7
  <2> DEFINE n == thr[t].new
             v == Updater(n)
  <2>2. /\ n \in Sys /\ store' = n /\ v \in Threads \ {t} /\ sys' = sys
        /\ thr[t].pc = "set" /\ thr'[t].pc \in {"off", "select", "answered"}
        /\ thr'[t].old = NoSys
        /\ thr[v].pc = "off" /\ thr'[v].pc = "start" /\ thr'[v].old = thr[v].old
        /\ \A u \in Threads \ {t, v} : thr'[u] = thr[u]
    BY <2>1, SetStep
  <2>3. store = NoSys
    BY <2>2 DEF Orderly, SetIsFree, At
  <2>4. \A u \in Threads \ {t} : thr[u].pc # "set" /\ thr[u].old = NoSys
    BY <2>2 DEF Alone, Between, At
  <2>5. \A j \in Sys \ {n} : Updater(j) # v
    BY <2>2, ThreadsDiffer
  <2> HIDE DEF n, v
  <2>6. \A j \in Sys \ {n} : Running(j)' => Running(j)
    BY <2>2, <2>5, ThreadsExist DEF Running, At
  <2>7. OneUpdater'
    BY <1>0, <2>2, <2>3, <2>6 DEF Orderly, OneUpdater
  <2>8. \A u \in Threads : thr'[u].pc # "set" /\ thr'[u].old = NoSys
    BY <2>2, <2>4
  <2> QED BY <2>7, <2>8 DEF Orderly, SetIsFree, RemovesIts, At
<1>8. CASE \E c \in Conns : Find(c) /\ record \in Status
  <2>1. PICK c \in Conns : Find(c) /\ record \in Status
    BY <1>8
  <2>2. PICK i \in Sys : LET t == Connect(c) IN
          /\ t \in Threads /\ Moves(t, "find", {"lookup"}) /\ thr'[t].old = thr[t].old
          /\ sys[i] = Blank /\ Changes(i) /\ store' = store
    BY <2>1, FindStep
  <2>3. ~Running(i)
    BY <2>2, FreshStruct
  <2>4. \A j \in Sys : Running(j)' => Running(j)
    BY <2>2, ThreadsExist DEF Running, At, Moves
  <2>5. OneUpdater'
    BY <2>2, <2>3, <2>4 DEF Orderly, OneUpdater, Changes
  <2>6. SetIsFree' /\ RemovesIts'
    BY <2>2 DEF Orderly, SetIsFree, RemovesIts, Moves, At
  <2> QED BY <2>5, <2>6 DEF Orderly
<1>9. CASE \E i \in Sys : CollectSystem(i)
  <2>1. PICK i \in Sys : CollectSystem(i)
    BY <1>9
  <2>2. ~Running(i) /\ Changes(i) /\ UNCHANGED <<store, thr>>
    BY <2>1, CollectStep DEF Live, Running, At
  <2>3. \A j \in Sys : Running(j)' = Running(j)
    BY <2>2 DEF Running, At
  <2> QED BY <2>2, <2>3 DEF Orderly, OneUpdater, SetIsFree, RemovesIts, At, Changes
<1> QED BY <1>1, <1>2, <1>3, <1>4, <1>5, <1>6, <1>7, <1>8, <1>9, StepKinds

\* Nothing but the overlap of two threads between the steps of AddSystem or
\* RemoveSystem makes a second updater, whatever updates, hooks, requests and
\* connections do meanwhile.
THEOREM OnlyOverlaps == Spec => OrphansNeedOverlap
<1>1. RegInv /\ [Next]_vars => [~Orderly' /\ Orderly => ~Alone \/ ~Alone']_vars
  BY AloneOrderly
<1> QED BY <1>1, Registration, PTL DEF Spec, OrphansNeedOverlap

\* While registrations do not overlap, a system has at most one updater that was not
\* cancelled, and it is the registered System's.
THEOREM OneAtWork == Spec /\ []Alone => []OneUpdater
<1>1. Init => Orderly
  <2> SUFFICES ASSUME Init PROVE Orderly
    OBVIOUS
  <2>1. /\ \A t \in Threads : thr[t].pc # "set" /\ thr[t].old = NoSys
        /\ \A i \in Sys : ~Running(i)
    BY ThreadsExist, ThreadsDiffer DEF Init, Off, Running, At
  <2> QED BY <2>1 DEF Orderly, OneUpdater, SetIsFree, RemovesIts, At
<1>2. RegInv /\ Orderly /\ Alone /\ [Next]_vars => Orderly'
  <2> SUFFICES ASSUME RegInv, Orderly, Alone, [Next]_vars PROVE Orderly'
    OBVIOUS
  <2>1. CASE UNCHANGED vars
    BY <2>1 DEF Orderly, OneUpdater, SetIsFree, RemovesIts, Running, At, vars
  <2> QED BY <2>1, AloneOrderly
<1>3. Orderly => OneUpdater
  BY DEF Orderly
<1> QED BY <1>1, <1>2, <1>3, Registration, PTL DEF Spec

=============================================================================

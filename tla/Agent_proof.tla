---------------------------- MODULE Agent_proof -----------------------------
(* Connections (AgentConnection): for any number of connections and connect  *)
(* goroutines, an agent that believes it is connected has a connection, or   *)
(* is about to learn that it has none.                                       *)
(* Filesystems (DiskInfo): for any partitions, settings and counters of a    *)
(* host, the initialisation of the disks ends with one root, or with none    *)
(* after an extra filesystem took the device of the root.                    *)
EXTENDS AgentConnection, DiskInfo, FiniteSetTheorems, SequenceTheorems, TLAPS

\* A connection whose OnClose is still to come and that has been challenged.
Challenged(c) == Alive(c) /\ conn[c].asked

\* A read loop that is about to report a connection was challenged.
ReporterChallenged == \A c \in Conns : Alive(c) /\ conn[c].reader = "connect" => conn[c].asked

\* OnClose cannot overtake the event of a challenge: the channel has room for one.
ReportIsTrue == events = <<"connect">> => \E c \in Conns : Challenged(c)

\* The inductive invariant.
LinkInv == TypeOK /\ ReporterChallenged /\ ReportIsTrue /\ ConnectedIsOpen

\* Connections that are used at all stay in use, challenged ones stay challenged.
KeepsLinks ==
  /\ conn' \in [Conns -> ConnType]
  /\ \A c \in Conns :
       /\ Challenged(c) => Challenged(c)'
       /\ Alive(c)' /\ conn'[c].reader = "connect" => conn'[c].asked

\* Closing connections changes nothing but the socket of open ones.
LEMMA ClosedFields ==
  ASSUME TypeOK, NEW cs
  PROVE  /\ Closed(cs) \in [Conns -> ConnType]
         /\ \A c \in Conns : /\ Closed(cs)[c].reader = conn[c].reader
                             /\ Closed(cs)[c].asked = conn[c].asked
                             /\ Closed(cs)[c].sock # "free" <=> conn[c].sock # "free"
  BY DEF TypeOK, ConnType, Closed

LEMMA ClosedKeepsLinks ==
  ASSUME LinkInv, NEW cs, conn' = Closed(cs)
  PROVE  KeepsLinks
  BY ClosedFields DEF LinkInv, KeepsLinks, Challenged, Alive, ReporterChallenged

\* A step that keeps the links and adds no event and no belief keeps the invariant.
LEMMA FrameLinkInv ==
  ASSUME LinkInv, TypeOK', KeepsLinks,
         events' # <<>> => events' = events,
         state' => state /\ events' = events
  PROVE  LinkInv'
<1>1. ReporterChallenged'
  BY DEF KeepsLinks, ReporterChallenged
<1>2. ReportIsTrue'
  BY DEF LinkInv, KeepsLinks, ReportIsTrue
<1>3. ConnectedIsOpen'
  BY DEF LinkInv, KeepsLinks, ConnectedIsOpen, Challenged
<1>4. QED
  BY <1>1, <1>2, <1>3 DEF LinkInv

LEMMA UnchangedKeepsLinks == LinkInv /\ UNCHANGED conn => KeepsLinks
  BY DEF LinkInv, TypeOK, KeepsLinks, Challenged, Alive, ReporterChallenged

----------------------------------------------------------------------------
(* Types.                                                                    *)

Pcs == {"off", "begin", "sleep", "rise", "try", "look", "attempt", "dial", "drop", "failed",
        "tried", "done", "loop", "connected", "stopped", "lost", "claimed"}

LEMMA ToTypes ==
  ASSUME TypeOK, NEW t \in Threads, NEW pc \in Pcs, To(t, pc)
  PROVE  thr' \in [Threads -> ThreadType]
  BY DEF TypeOK, ThreadType, To, Pcs

LEMMA MainIsThread == Main \in Threads /\ Connectors \subseteq Threads
  BY DEF Threads

LEMMA InitLinkInv == Init => LinkInv
<1> SUFFICES ASSUME Init PROVE LinkInv
  OBVIOUS
<1>1. thr \in [Threads -> ThreadType]
  BY DEF Init, ThreadType, Off
<1>2. conn \in [Conns -> ConnType]
  BY DEF Init, ConnType, Free
<1>3. TypeOK
  BY <1>1, <1>2 DEF Init, TypeOK
<1>4. QED
  BY <1>3 DEF Init, LinkInv, ReporterChallenged, ReportIsTrue, ConnectedIsOpen, Alive, Free

----------------------------------------------------------------------------
(* The connect goroutines.                                                   *)

LEMMA CoolLinkInv == LinkInv /\ Cool => LinkInv'
<1> SUFFICES ASSUME LinkInv, Cool PROVE LinkInv'
  OBVIOUS
<1>1. thr' \in [Threads -> ThreadType]
  BY DEF LinkInv, TypeOK, ThreadType, Cool
<1>2. TypeOK'
  BY <1>1 DEF LinkInv, TypeOK, Cool, manager
<1>3. QED
  BY <1>2, FrameLinkInv, UnchangedKeepsLinks DEF Cool, manager

\* Steps that move a goroutine on and touch neither connections nor events.
LEMMA MoveLinkInv ==
  ASSUME LinkInv, NEW t \in Threads,
         \/ Connect(t) \/ Wake(t) \/ CheckState(t) \/ Check(t) \/ DialErr(t)
         \/ Failed(t) \/ Tried(t) \/ Done(t)
  PROVE  LinkInv'
<1>0. TypeOK
  BY DEF LinkInv
<1>1. thr' \in [Threads -> ThreadType]
  <2>1. CASE Failed(t)
    BY <1>0, <2>1 DEF TypeOK, ThreadType, Failed
  <2>2. CASE \E pc \in Pcs : To(t, pc)
    BY <1>0, <2>2, ToTypes
  <2>3. QED
    BY <2>1, <2>2 DEF Connect, Wake, CheckState, Check, DialErr, Tried, Done, Pcs
<1>2. /\ UNCHANGED <<state, events, hubVerified, conn, recent>>
      /\ isConnecting' \in BOOLEAN /\ ticker' \in BOOLEAN /\ client' \in Conns \cup {NoConn}
  BY <1>0 DEF TypeOK, Connect, Wake, CheckState, Check, DialErr, Failed, Tried, Done, manager
<1>3. TypeOK'
  BY <1>0, <1>1, <1>2 DEF TypeOK
<1>4. QED
  BY <1>2, <1>3, FrameLinkInv, UnchangedKeepsLinks

LEMMA DialLinkInv ==
  ASSUME LinkInv, NEW t \in Threads, Dial(t)
  PROVE  LinkInv'
<1>0. TypeOK
  BY DEF LinkInv
<1>1. thr' \in [Threads -> ThreadType]
  BY <1>0 DEF TypeOK, ThreadType, Dial
<1>2. KeepsLinks
  BY ClosedKeepsLinks DEF Dial
<1>3. TypeOK'
  BY <1>0, <1>1, <1>2 DEF TypeOK, Dial, manager, KeepsLinks
<1>4. QED
  BY <1>2, <1>3, FrameLinkInv DEF Dial, manager

LEMMA DropLinkInv ==
  ASSUME LinkInv, NEW t \in Threads, Drop(t)
  PROVE  LinkInv'
<1>0. TypeOK
  BY DEF LinkInv
<1>1. thr' \in [Threads -> ThreadType]
  BY <1>0, ToTypes DEF Drop, Pcs
<1>2. KeepsLinks
  BY ClosedKeepsLinks DEF Drop
<1>3. TypeOK'
  BY <1>0, <1>1, <1>2 DEF TypeOK, Drop, manager, KeepsLinks
<1>4. QED
  BY <1>2, <1>3, FrameLinkInv DEF Drop, manager

LEMMA DialOkLinkInv ==
  ASSUME LinkInv, NEW t \in Threads, NEW c \in Conns, DialOk(t, c)
  PROVE  LinkInv'
<1>0. TypeOK
  BY DEF LinkInv
<1>1. thr' \in [Threads -> ThreadType]
  BY <1>0 DEF TypeOK, ThreadType, DialOk
<1>2. KeepsLinks
  BY <1>0 DEF LinkInv, TypeOK, ConnType, DialOk, Free, KeepsLinks, Challenged, Alive,
       ReporterChallenged
<1>3. TypeOK'
  BY <1>0, <1>1, <1>2 DEF TypeOK, DialOk, manager, KeepsLinks
<1>4. QED
  BY <1>2, <1>3, FrameLinkInv DEF DialOk, manager

----------------------------------------------------------------------------
(* The event loop.                                                           *)

LEMMA TickLinkInv == LinkInv /\ Tick => LinkInv'
<1> SUFFICES ASSUME LinkInv, Tick PROVE LinkInv'
  OBVIOUS
<1>1. thr' \in [Threads -> ThreadType]
  BY MainIsThread DEF LinkInv, TypeOK, ThreadType, Tick
<1>2. TypeOK'
  BY <1>1 DEF LinkInv, TypeOK, Tick, manager
<1>3. QED
  BY <1>2, FrameLinkInv, UnchangedKeepsLinks DEF Tick, manager

\* The event is true: the connection it tells of has not been closed since.
LEMMA HandleConnectLinkInv == LinkInv /\ HandleConnect => LinkInv'
<1> SUFFICES ASSUME LinkInv, HandleConnect PROVE LinkInv'
  OBVIOUS
<1>1. thr' \in [Threads -> ThreadType]
  BY ToTypes, MainIsThread DEF LinkInv, HandleConnect, Pcs
<1>2. TypeOK'
  BY <1>1 DEF LinkInv, TypeOK, HandleConnect, Event
<1>3. \E c \in Conns : Challenged(c)'
  BY DEF LinkInv, ReportIsTrue, HandleConnect, Event, Challenged, Alive
<1>4. ReporterChallenged' /\ ReportIsTrue'
  BY DEF LinkInv, HandleConnect, Event, ReporterChallenged, ReportIsTrue, Alive
<1>5. ConnectedIsOpen'
  BY <1>3 DEF ConnectedIsOpen, Challenged
<1>6. QED
  BY <1>2, <1>4, <1>5 DEF LinkInv

LEMMA HandleDisconnectLinkInv == LinkInv /\ HandleDisconnect => LinkInv'
<1> SUFFICES ASSUME LinkInv, HandleDisconnect PROVE LinkInv'
  OBVIOUS
<1>1. thr' \in [Threads -> ThreadType]
  BY ToTypes, MainIsThread DEF LinkInv, HandleDisconnect, Pcs
<1>2. TypeOK'
  BY <1>1 DEF LinkInv, TypeOK, HandleDisconnect, Event
<1>3. QED
  BY <1>2, FrameLinkInv, UnchangedKeepsLinks DEF HandleDisconnect, Event

\* The rest of handleStateChange: the ticker, isConnecting and the old connection.
LEMMA StateStepLinkInv == LinkInv /\ StateStep => LinkInv'
<1> SUFFICES ASSUME LinkInv, StateStep PROVE LinkInv'
  OBVIOUS
<1>0. TypeOK
  BY DEF LinkInv
<1>1. CASE StopTicker \/ Settled \/ Lost
  <2>1. thr' \in [Threads -> ThreadType]
    BY <1>0, <1>1, ToTypes, MainIsThread DEF StopTicker, Settled, Lost, Pcs
  <2>2. /\ UNCHANGED <<state, events, recent, client, hubVerified, conn>>
        /\ isConnecting' \in BOOLEAN /\ ticker' \in BOOLEAN
    BY <1>0, <1>1 DEF TypeOK, StopTicker, Settled, Lost
  <2>3. TypeOK'
    BY <1>0, <2>1, <2>2 DEF TypeOK
  <2>4. QED
    BY <2>2, <2>3, FrameLinkInv, UnchangedKeepsLinks
<1>2. CASE \E t \in Connectors : GoConnect(t)
  <2>1. PICK t \in Connectors : GoConnect(t)
    BY <1>2
  <2>2. thr' \in [Threads -> ThreadType]
    BY <1>0, <2>1, MainIsThread DEF TypeOK, ThreadType, GoConnect
  <2>3. KeepsLinks
    BY <2>1, ClosedKeepsLinks DEF GoConnect
  <2>4. TypeOK'
    BY <1>0, <2>1, <2>2, <2>3 DEF TypeOK, GoConnect, manager, KeepsLinks
  <2>5. QED
    BY <2>1, <2>3, <2>4, FrameLinkInv DEF GoConnect, manager
<1>3. QED
  BY <1>1, <1>2 DEF StateStep

----------------------------------------------------------------------------
(* The read loops.                                                           *)

\* Steps of a read loop that send no event.
LEMMA ReadLinkInv ==
  ASSUME LinkInv, NEW c \in Conns,
         Challenge(c) \/ Request(c) \/ Answer(c) \/ Lose(c) \/ ReadErr(c)
  PROVE  LinkInv'
<1>0. TypeOK
  BY DEF LinkInv
<1>1. /\ UNCHANGED <<state, isConnecting, ticker, events, recent, client, thr>>
      /\ hubVerified' \in BOOLEAN
  BY <1>0 DEF TypeOK, Challenge, Request, Answer, Lose, ReadErr, manager
<1>2. KeepsLinks
  <2>1. CASE Challenge(c)
    BY <1>0, <2>1 DEF LinkInv, TypeOK, ConnType, Challenge, KeepsLinks, Challenged,
         Alive, ReporterChallenged
  <2>2. CASE Request(c)
    BY <1>0, <2>2 DEF LinkInv, TypeOK, ConnType, Request, Reader, KeepsLinks,
         Challenged, Alive, ReporterChallenged
  <2>3. CASE Answer(c)
    <3>1. PICK cs \in {{}, {client}} : conn' = [Closed(cs) EXCEPT ![c].reader = "read"]
      BY <2>3 DEF Answer
    <3>2. QED
      BY <1>0, <3>1, ClosedFields DEF LinkInv, ConnType, KeepsLinks, Challenged, Alive,
           ReporterChallenged
  <2>4. CASE Lose(c)
    BY <2>4, ClosedKeepsLinks DEF Lose
  <2>5. CASE ReadErr(c)
    BY <1>0, <2>5 DEF LinkInv, TypeOK, ConnType, ReadErr, Reader, KeepsLinks,
         Challenged, Alive, ReporterChallenged
  <2>6. QED
    BY <2>1, <2>2, <2>3, <2>4, <2>5
<1>3. TypeOK'
  BY <1>0, <1>1, <1>2 DEF TypeOK, KeepsLinks
<1>4. QED
  BY <1>1, <1>2, <1>3, FrameLinkInv

LEMMA PushConnectLinkInv ==
  ASSUME LinkInv, NEW c \in Conns, PushConnect(c)
  PROVE  LinkInv'
<1>0. TypeOK
  BY DEF LinkInv
<1>1. KeepsLinks
  BY <1>0 DEF LinkInv, TypeOK, ConnType, PushConnect, Reader, KeepsLinks, Challenged,
       Alive, ReporterChallenged
<1>2. TypeOK'
  BY <1>0, <1>1 DEF TypeOK, PushConnect, manager, KeepsLinks
<1>3. Challenged(c)
  BY DEF LinkInv, PushConnect, Reader, Challenged, Alive, ReporterChallenged
<1>4. Challenged(c)'
  BY <1>1, <1>3 DEF KeepsLinks
<1>5. ReporterChallenged' /\ ReportIsTrue'
  BY <1>1, <1>4 DEF KeepsLinks, ReporterChallenged, ReportIsTrue
<1>6. ConnectedIsOpen'
  BY <1>4 DEF ConnectedIsOpen, Challenged
<1>7. QED
  BY <1>2, <1>5, <1>6 DEF LinkInv

\* The connection goes with the event that tells of it.
LEMMA OnCloseLinkInv ==
  ASSUME LinkInv, NEW c \in Conns, OnClose(c)
  PROVE  LinkInv'
<1>0. TypeOK
  BY DEF LinkInv
<1>1. conn' \in [Conns -> ConnType]
  BY <1>0 DEF TypeOK, ConnType, OnClose, Free
<1>2. TypeOK'
  BY <1>0, <1>1 DEF TypeOK, OnClose, manager
<1>3. ReporterChallenged'
  BY <1>0 DEF LinkInv, TypeOK, OnClose, ReporterChallenged, Alive, Free
<1>4. ReportIsTrue' /\ ConnectedIsOpen'
  BY DEF OnClose, ReportIsTrue, ConnectedIsOpen
<1>5. QED
  BY <1>2, <1>3, <1>4 DEF LinkInv

----------------------------------------------------------------------------
LEMMA NextLinkInv == LinkInv /\ [Next]_vars => LinkInv'
<1> SUFFICES ASSUME LinkInv, [Next]_vars PROVE LinkInv'
  OBVIOUS
<1>1. CASE Cool
  BY <1>1, CoolLinkInv
<1>2. CASE \E t \in Threads : ConnectorStep(t)
  BY <1>2, MoveLinkInv, DialLinkInv, DropLinkInv, DialOkLinkInv DEF ConnectorStep
<1>3. CASE LoopStep
  BY <1>3, TickLinkInv, HandleConnectLinkInv, HandleDisconnectLinkInv, StateStepLinkInv
     DEF LoopStep, Take
<1>4. CASE \E c \in Conns : ReaderStep(c) \/ Challenge(c) \/ Request(c) \/ Lose(c)
  BY <1>4, ReadLinkInv, PushConnectLinkInv, OnCloseLinkInv DEF ReaderStep
<1>5. CASE UNCHANGED vars
  BY <1>5 DEF vars, LinkInv, TypeOK, ReporterChallenged, ReportIsTrue, ConnectedIsOpen,
       Challenged, Alive
<1>6. QED
  BY <1>1, <1>2, <1>3, <1>4, <1>5 DEF Next

\* The fields of the connection manager and the client stay in their ranges; eventChan
\* never holds more than one event.
THEOREM TypeCorrect == Spec => []TypeOK
<1>1. LinkInv => TypeOK
  BY DEF LinkInv
<1>2. QED
  BY <1>1, InitLinkInv, NextLinkInv, PTL DEF Spec

\* ConnectionManager.State is WebSocketConnected only while a challenged connection is
\* there or its OnClose event waits in eventChan.
THEOREM BelievesRightly == Spec => []ConnectedIsOpen
<1>1. LinkInv => ConnectedIsOpen
  BY DEF LinkInv
<1>2. QED
  BY <1>1, InitLinkInv, NextLinkInv, PTL DEF Spec

----------------------------------------------------------------------------
(* Filesystems: the lookups return what they look for.                       *)

LEMMA FirstIsLeast ==
  ASSUME NEW indices, indices \subseteq Nat, indices # {}
  PROVE  First(indices) \in indices
<1> DEFINE R == {ss \in Nat \X Nat : ss[1] < ss[2]}
<1>1. IsWellFoundedOn(R, Nat)
  BY NatLessThanWellFounded DEF OpToRel
<1>2. \E n \in indices : \A m \in indices : ~ (<<m, n>> \in R)
  <2> HIDE DEF R
  <2> QED BY <1>1, WFMin
<1>3. \A m, n \in Nat : <<m, n>> \notin R => n <= m
  OBVIOUS
<1>4. \E n \in indices : \A m \in indices : n <= m
  BY <1>2, <1>3
<1>5. QED
  BY <1>4 DEF First

\* The partitions are a sequence.
LEMMA PartitionsSeq ==
  ASSUME DiskTypeOK
  PROVE  /\ Len(partitions) \in Nat /\ Len(partitions) <= MaxParts /\ MaxParts \in Nat
         /\ \A i \in 1 .. Len(partitions) : partitions[i] \in Partitions
<1>1. PICK n \in 0 .. MaxParts : partitions \in [1 .. n -> Partitions]
  BY DEF DiskTypeOK
<1>2. n \in Nat /\ MaxParts \in Nat
  BY DevicesAssumption
<1>3. partitions \in Seq(Partitions)
  BY <1>1, <1>2, SeqDef
<1>4. Len(partitions) \in Nat /\ DOMAIN partitions = 1 .. Len(partitions)
  BY <1>3, LenProperties
<1>5. DOMAIN partitions = 1 .. n
  BY <1>1
<1>6. Len(partitions) <= MaxParts
  <2> SUFFICES ASSUME n < Len(partitions) PROVE FALSE
    BY <1>2, <1>4
  <2>1. Len(partitions) \in 1 .. Len(partitions)
    BY <1>2, <1>4
  <2>2. Len(partitions) \in 1 .. n
    BY <1>4, <1>5, <2>1
  <2>3. QED
    BY <1>2, <1>4, <2>2
<1>7. QED
  BY <1>1, <1>2, <1>4, <1>5, <1>6

LEMMA IoDeviceExists ==
  ASSUME NEW name
  PROVE  findIoDevice(name) \subseteq counters
<1> DEFINE candidates == {d \in counters : prefixRelated(d, name)}
<1>1. candidates # {} => MostActive(candidates) \in candidates
  <2> HIDE DEF candidates
  <2> QED BY DEF MostActive
<1>2. candidates \subseteq counters
  OBVIOUS
<1> HIDE DEF candidates
<1>3. findIoDevice(name) = IF name \in counters THEN {name}
                           ELSE IF candidates = {} THEN {} ELSE {MostActive(candidates)}
  BY DEF findIoDevice, candidates
<1>4. QED
  BY <1>1, <1>2, <1>3

LEMMA PreferFirst ==
  ASSUME NEW a, NEW b, NEW default
  PROVE  Prefer(<<a, b>>, default) \in a \cup b \cup {default}
<1> DEFINE sets == <<a, b>>
           some == {i \in 1 .. Len(sets) : sets[i] # {}}
<1>1. Len(sets) = 2 /\ sets[1] = a /\ sets[2] = b
  OBVIOUS
<1>2. some \subseteq {1, 2} /\ (some # {} => First(some) \in some)
  <2>1. some \subseteq {1, 2}
    BY <1>1
  <2> HIDE DEF some
  <2>2. some \subseteq Nat
    BY <2>1
  <2>3. QED
    BY <2>1, <2>2, FirstIsLeast
<1> DEFINE f == First(some)
<1>3. Prefer(sets, default) = IF some = {} THEN default ELSE CHOOSE d \in sets[f] : TRUE
  BY DEF Prefer
<1>4. some # {} => sets[f] # {} /\ (sets[f] = a \/ sets[f] = b)
  BY <1>1, <1>2
<1> HIDE DEF f, some, sets
<1>5. QED
  BY <1>3, <1>4 DEF sets

\* A filesystem is registered under its device or under one that has counters.
LEMMA KeyIsRegistered ==
  ASSUME NEW device, NEW mount
  PROVE  /\ registerFilesystemStats(device, mount, TRUE) \in counters \cup {device}
         /\ registerFilesystemStats(device, mount, FALSE) \in counters \cup {device}
<1>1. CASE device \in counters
  BY <1>1 DEF registerFilesystemStats
<1>2. CASE device \notin counters
  <2>1. registerFilesystemStats(device, mount, TRUE) \in counters \cup {device}
    <3> DEFINE a == findIoDevice(device)
               b == IF filesystem = Unset THEN {} ELSE findIoDevice(Base(filesystem))
    <3>1. a \subseteq counters /\ b \subseteq counters
      BY IoDeviceExists
    <3>2. registerFilesystemStats(device, mount, TRUE) = Prefer(<<a, b>>, device)
      BY <1>2 DEF registerFilesystemStats
    <3> HIDE DEF a, b
    <3>3. QED
      BY <3>1, <3>2, PreferFirst
  <2>2. registerFilesystemStats(device, mount, FALSE) \in counters \cup {device}
    <3> DEFINE a == IF mount[1] = "ef" THEN findIoDevice(mount[2]) ELSE {}
               b == findIoDevice(device)
    <3>1. a \subseteq counters /\ b \subseteq counters
      BY IoDeviceExists
    <3>2. registerFilesystemStats(device, mount, FALSE) = Prefer(<<a, b>>, device)
      BY <1>2 DEF registerFilesystemStats
    <3> HIDE DEF a, b
    <3>3. QED
      BY <3>1, <3>2, PreferFirst
  <2>3. QED
    BY <2>1, <2>2
<1>3. QED
  BY <1>1, <1>2

----------------------------------------------------------------------------
(* What registering a filesystem does.                                       *)

Followed(stats) == DOMAIN stats \subseteq Keys /\ \A k \in DOMAIN stats : stats[k] \in Entry
RootsOf(stats) == {k \in DOMAIN stats : stats[k].root}

LEMMA WithRoot ==
  ASSUME NEW stats, Followed(stats), NEW key \in Keys, NEW mount \in Mounts
  PROVE  /\ Followed(With(stats, key, TRUE, mount))
         /\ DOMAIN With(stats, key, TRUE, mount) = DOMAIN stats \cup {key}
         /\ RootsOf(With(stats, key, TRUE, mount)) = RootsOf(stats) \cup {key}
<1> DEFINE new == With(stats, key, TRUE, mount)
           e == [root |-> TRUE, mount |-> mount]
<1>1. e \in Entry /\ e.root = TRUE
  BY DEF Entry
<1>2. /\ DOMAIN new = DOMAIN stats \cup {key} /\ new[key] = e
      /\ \A k \in DOMAIN stats : k # key => new[k] = stats[k]
  BY DEF With
<1> HIDE DEF new, e
<1>3. Followed(new)
  BY <1>1, <1>2 DEF Followed
<1>4. RootsOf(new) = RootsOf(stats) \cup {key}
  BY <1>1, <1>2 DEF RootsOf
<1>5. QED
  BY <1>2, <1>3, <1>4 DEF new

LEMMA WithExtra ==
  ASSUME NEW stats, Followed(stats), NEW key \in Keys, NEW mount \in Mounts, key \notin DOMAIN stats
  PROVE  /\ Followed(With(stats, key, FALSE, mount))
         /\ DOMAIN With(stats, key, FALSE, mount) = DOMAIN stats \cup {key}
         /\ RootsOf(With(stats, key, FALSE, mount)) = RootsOf(stats)
<1> DEFINE new == With(stats, key, FALSE, mount)
           e == [root |-> FALSE, mount |-> mount]
<1>1. e \in Entry /\ e.root = FALSE
  BY DEF Entry
<1>2. /\ DOMAIN new = DOMAIN stats \cup {key} /\ new[key] = e
      /\ \A k \in DOMAIN stats : k # key => new[k] = stats[k]
  BY DEF With
<1> HIDE DEF new, e
<1>3. Followed(new)
  BY <1>1, <1>2 DEF Followed
<1>4. RootsOf(new) = RootsOf(stats)
  BY <1>1, <1>2 DEF RootsOf
<1>5. QED
  BY <1>2, <1>3, <1>4 DEF new

\* An extra filesystem is no root, and takes no key from another one.
LEMMA ExtraEffect ==
  ASSUME DiskTypeOK, NEW stats, Followed(stats), NEW device \in Keys, NEW mount \in Mounts
  PROVE  /\ Followed(addFsStat(stats, device, mount, FALSE))
         /\ DOMAIN stats \subseteq DOMAIN addFsStat(stats, device, mount, FALSE)
         /\ RootsOf(addFsStat(stats, device, mount, FALSE)) = RootsOf(stats)
<1> DEFINE key == registerFilesystemStats(device, mount, FALSE)
           new == addFsStat(stats, device, mount, FALSE)
<1>1. key \in Keys
  BY KeyIsRegistered DEF DiskTypeOK, Keys
<1>2. new = IF key \in DOMAIN stats THEN stats ELSE With(stats, key, FALSE, mount)
  BY DEF addFsStat
<1> HIDE DEF key, new
<1>3. CASE key \in DOMAIN stats
  BY <1>2, <1>3 DEF new
<1>4. CASE key \notin DOMAIN stats
  <2>1. new = With(stats, key, FALSE, mount)
    BY <1>2, <1>4
  <2>2. Followed(new) /\ DOMAIN new = DOMAIN stats \cup {key} /\ RootsOf(new) = RootsOf(stats)
    BY <1>1, <1>4, <2>1, WithExtra
  <2>3. QED
    BY <2>2 DEF new
<1>5. QED
  BY <1>3, <1>4

\* A root gets a key that is free.
LEMMA RootEffect ==
  ASSUME DiskTypeOK, NEW stats, Followed(stats), NEW device \in Keys, NEW mount \in Mounts,
         registerFilesystemStats(device, mount, TRUE) \notin DOMAIN stats
  PROVE  /\ Followed(addFsStat(stats, device, mount, TRUE))
         /\ RootsOf(addFsStat(stats, device, mount, TRUE))
              = RootsOf(stats) \cup {registerFilesystemStats(device, mount, TRUE)}
<1> DEFINE key == registerFilesystemStats(device, mount, TRUE)
           new == addFsStat(stats, device, mount, TRUE)
<1>1. key \in Keys
  BY KeyIsRegistered DEF DiskTypeOK, Keys
<1>2. new = With(stats, key, TRUE, mount)
  BY DEF addFsStat
<1> HIDE DEF key, new
<1>3. Followed(new) /\ RootsOf(new) = RootsOf(stats) \cup {key}
  BY <1>1, <1>2, WithRoot
<1>4. QED
  BY <1>3 DEF key, new
----------------------------------------------------------------------------
(* The root.                                                                 *)

\* Something else has the key of a partition that would be the root.
Displaced(stats) ==
  \E i \in 1 .. Len(partitions) :
    isRootFallbackPartition(partitions[i]) /\ findIoDevice(partitions[i].device) \cap DOMAIN stats # {}

RootKnown(stats) == (\E k : RootsOf(stats) = {k}) \/ (RootsOf(stats) = {} /\ Displaced(stats))

\* The root is registered, or displaced, once it counts as found, and at last anyway.
RootRight(stats, found, at) ==
  IF found \/ at \in {"prune", "done"} THEN RootKnown(stats) ELSE RootsOf(stats) = {}

\* The inductive invariant.
DiskInv ==
  /\ DiskTypeOK
  /\ step = "root" => fsStats = <<>> /\ ~hasRoot
  /\ RootRight(fsStats, hasRoot, step)

LEMMA Known ==
  ASSUME NEW stats, NEW new, DOMAIN stats \subseteq DOMAIN new, RootsOf(new) = RootsOf(stats)
  PROVE  RootKnown(stats) => RootKnown(new)
<1>1. Displaced(stats) => Displaced(new)
  BY DEF Displaced
<1>2. QED
  BY <1>1 DEF RootKnown

\* The parts of the types that most steps leave alone.
LEMMA DiskFrame ==
  ASSUME DiskTypeOK, UNCHANGED <<host, fsNames>>, Followed(fsStats'), DOMAIN fsStats \subseteq DOMAIN fsStats',
         hasRoot' \in BOOLEAN, step' \in Steps, next' \in 1 .. MaxParts + 1
  PROVE  DiskTypeOK'
<1>1. /\ partitions' = partitions /\ filesystem' = filesystem /\ counters' = counters
      /\ busiest' = busiest /\ fsNames' = fsNames
  BY DEF host
<1>2. /\ partitions' \in UNION {[1 .. n -> Partitions] : n \in 0 .. MaxParts}
      /\ filesystem' \in Settings \cup {Unset}
      /\ counters' \subseteq Devices /\ busiest' \in Devices
      /\ fsNames' \subseteq counters' \cap DOMAIN fsStats'
  BY <1>1 DEF DiskTypeOK
<1>3. DOMAIN fsStats' \subseteq Keys /\ \A k \in DOMAIN fsStats' : fsStats'[k] \in Entry
  BY DEF Followed
<1>4. QED
  BY <1>2, <1>3 DEF DiskTypeOK

LEMMA DiskKept ==
  ASSUME DiskTypeOK', step' # "root", UNCHANGED host, RootRight(fsStats', hasRoot', step')
  PROVE  DiskInv'
<1>1. partitions' = partitions /\ counters' = counters /\ busiest' = busiest
  BY DEF host
<1>2. \A name : (findIoDevice(name))' = findIoDevice(name)
  BY <1>1 DEF findIoDevice, MostActive, prefixRelated
<1>3. Displaced(fsStats)' <=> Displaced(fsStats')
  BY <1>1, <1>2 DEF Displaced, isRootFallbackPartition
<1>4. RootRight(fsStats, hasRoot, step)'
  BY <1>3 DEF RootRight, RootKnown, RootsOf
<1>5. QED
  BY <1>4 DEF DiskInv

LEMMA DiskInitial == DiskInit => DiskInv
<1> SUFFICES ASSUME DiskInit PROVE DiskInv
  OBVIOUS
<1>1. fsStats = <<>> /\ DOMAIN fsStats = {} /\ hasRoot = FALSE /\ fsNames = {} /\ step = "root" /\ next = 1
  BY DEF DiskInit
<1>2. MaxParts \in Nat
  BY DevicesAssumption
<1>3. next \in 1 .. MaxParts + 1
  BY <1>1, <1>2
<1>4. DiskTypeOK
  BY <1>1, <1>3 DEF DiskInit, DiskTypeOK, Steps
<1>5. RootRight(fsStats, hasRoot, step)
  BY <1>1 DEF RootRight, RootsOf
<1>6. QED
  BY <1>1, <1>4, <1>5 DEF DiskInv

\* A step that registers an extra filesystem, or none.
LEMMA ExtraStep ==
  ASSUME DiskInv, UNCHANGED <<host, hasRoot, fsNames, next>>, step \notin {"prune", "done"},
         step' \in Steps \ {"root", "prune", "done"},
         \/ fsStats' = fsStats
         \/ \E device \in Keys, mount \in Mounts : fsStats' = addFsStat(fsStats, device, mount, FALSE)
  PROVE  DiskInv'
<1>1. DiskTypeOK /\ Followed(fsStats) /\ RootRight(fsStats, hasRoot, step)
  BY DEF DiskInv, DiskTypeOK, Followed
<1>2. /\ Followed(fsStats') /\ DOMAIN fsStats \subseteq DOMAIN fsStats'
      /\ RootsOf(fsStats') = RootsOf(fsStats)
  BY <1>1, ExtraEffect
<1>3. DiskTypeOK'
  BY <1>1, <1>2, DiskFrame DEF DiskTypeOK
<1>4. hasRoot' = hasRoot
  OBVIOUS
<1>5. RootRight(fsStats', hasRoot', step')
  BY <1>1, <1>2, <1>4, Known DEF RootRight
<1>6. QED
  BY <1>3, <1>5, DiskKept

LEMMA RootStep == DiskInv /\ addConfiguredRootFs => DiskInv'
<1> SUFFICES ASSUME DiskInv, addConfiguredRootFs PROVE DiskInv'
  OBVIOUS
<1>1. /\ DiskTypeOK /\ fsStats = <<>> /\ DOMAIN fsStats = {} /\ hasRoot = FALSE
      /\ UNCHANGED <<host, fsNames>> /\ next' = next /\ step' = "extra"
  BY DEF DiskInv, addConfiguredRootFs, DiskTypeOK
<1>2. Followed(fsStats) /\ RootsOf(fsStats) = {}
  BY <1>1 DEF Followed, RootsOf
<1> DEFINE found == {i \in 1 .. Len(partitions) : filesystemMatchesPartitionSetting(partitions[i])}
           io == findIoDevice(Base(filesystem))
<1>3. CASE UNCHANGED <<fsStats, hasRoot>>
  <2>1. RootRight(fsStats', hasRoot', step')
    BY <1>1, <1>2, <1>3 DEF RootRight
  <2>2. DiskTypeOK'
    BY <1>1, <1>2, <1>3, DiskFrame DEF DiskTypeOK, Steps
  <2>3. QED
    BY <1>1, <2>1, <2>2, DiskKept
<1>4. ASSUME Followed(fsStats'), \E k : RootsOf(fsStats') = {k}, hasRoot' = TRUE PROVE DiskInv'
  <2>1. RootRight(fsStats', hasRoot', step')
    BY <1>4 DEF RootRight, RootKnown
  <2>2. DiskTypeOK'
    BY <1>1, <1>4, DiskFrame DEF DiskTypeOK, Steps
  <2>3. QED
    BY <1>1, <2>1, <2>2, DiskKept
<1>5. CASE /\ found # {} /\ hasRoot' = TRUE
           /\ fsStats' = addFsStat(fsStats, partitions[First(found)].device, partitions[First(found)].mount, TRUE)
  <2> DEFINE p == partitions[First(found)]
  <2>1. p.device \in Keys /\ p.mount \in Mounts
    <3>1. found \subseteq Nat /\ found \subseteq 1 .. Len(partitions)
      BY <1>1, PartitionsSeq
    <3> HIDE DEF found
    <3>2. First(found) \in 1 .. Len(partitions)
      BY <1>5, <3>1, FirstIsLeast
    <3>3. p \in Partitions
      BY <1>1, <3>2, PartitionsSeq
    <3>4. QED
      BY <3>3 DEF Partitions, Keys
  <2>2. fsStats' = addFsStat(fsStats, p.device, p.mount, TRUE)
    BY <1>5
  <2> HIDE DEF p, found
  <2> DEFINE key == registerFilesystemStats(p.device, p.mount, TRUE)
  <2>3. Followed(fsStats') /\ RootsOf(fsStats') = RootsOf(fsStats) \cup {key}
    <3>1. key \notin DOMAIN fsStats
      BY <1>1
    <3>2. /\ Followed(addFsStat(fsStats, p.device, p.mount, TRUE))
          /\ RootsOf(addFsStat(fsStats, p.device, p.mount, TRUE)) = RootsOf(fsStats) \cup {key}
      BY <1>1, <1>2, <2>1, <3>1, RootEffect
    <3>3. QED
      BY <2>2, <3>2
  <2> HIDE DEF key
  <2>4. \E k : RootsOf(fsStats') = {k}
    BY <1>2, <2>3
  <2>5. hasRoot' = TRUE
    BY <1>5
  <2>6. QED
    BY <1>4, <2>3, <2>4, <2>5
<1>6. CASE hasRoot' = TRUE /\ \E key \in io : fsStats' = With(fsStats, key, TRUE, RootMount)
  <2>1. PICK key \in io : fsStats' = With(fsStats, key, TRUE, RootMount)
    BY <1>6
  <2>2. key \in Keys /\ RootMount \in Mounts
    BY <1>1, IoDeviceExists DEF DiskTypeOK, Keys, Mounts
  <2>3. /\ Followed(With(fsStats, key, TRUE, RootMount))
        /\ RootsOf(With(fsStats, key, TRUE, RootMount)) = RootsOf(fsStats) \cup {key}
    BY <1>2, <2>2, WithRoot
  <2>4. Followed(fsStats') /\ RootsOf(fsStats') = {key}
    BY <1>2, <2>1, <2>3
  <2>5. QED
    BY <1>4, <1>6, <2>4
<1>7. QED
  BY <1>3, <1>5, <1>6 DEF addConfiguredRootFs

\* The name of a setting is a key.
LEMMA BaseIsKey == \A setting \in Settings : Base(setting) \in Keys
<1> SUFFICES ASSUME NEW setting \in Settings PROVE Base(setting) \in Keys
  OBVIOUS
<1>1. CASE setting = RootMount
  <2>1. Len(RootMount) = 1
    BY DEF RootMount
  <2>2. QED
    BY <1>1, <2>1 DEF Base, Keys
<1>2. CASE setting = <<"data">>
  <2>1. Len(<<"data">>) = 1 /\ <<"data">>[1] = "data" /\ <<"data">> # RootMount
    BY DEF RootMount
  <2>2. QED
    BY <1>2, <2>1 DEF Base, Keys
<1>3. CASE \E d \in Devices : setting = <<"dev", d>>
  <2>1. PICK d \in Devices : setting = <<"dev", d>>
    BY <1>3
  <2>2. Len(<<"dev", d>>) = 2 /\ <<"dev", d>>[2] = d
    OBVIOUS
  <2>3. QED
    BY <2>1, <2>2 DEF Base, Keys
<1>4. QED
  BY <1>1, <1>2, <1>3 DEF Settings

LEMMA ConfiguredExtraStep ==
  ASSUME DiskInv, NEW setting \in Settings \cup {Unset}, addConfiguredExtraFilesystems(setting)
  PROVE  DiskInv'
<1>1. /\ step = "extra" /\ step' = "partitions" /\ UNCHANGED <<host, hasRoot, fsNames, next>> /\ DiskTypeOK
      /\ fsStats' = IF setting = Unset THEN fsStats ELSE addConfiguredExtraFsEntry(setting)
  BY DEF addConfiguredExtraFilesystems, DiskInv
<1> DEFINE found == findPartitionByFilesystemSetting(setting)
           p == partitions[First(found)]
<1>2. \/ fsStats' = fsStats
      \/ \E device \in Keys, mount \in Mounts : fsStats' = addFsStat(fsStats, device, mount, FALSE)
  <2>1. CASE setting = Unset
    BY <1>1, <2>1
  <2>2. CASE setting # Unset /\ found # {}
    <3>1. found \subseteq 1 .. Len(partitions) /\ found \subseteq Nat
      BY <1>1, PartitionsSeq DEF findPartitionByFilesystemSetting
    <3>2. fsStats' = addFsStat(fsStats, p.device, p.mount, FALSE)
      BY <1>1, <2>2 DEF addConfiguredExtraFsEntry
    <3> HIDE DEF found
    <3>3. First(found) \in 1 .. Len(partitions)
      BY <2>2, <3>1, FirstIsLeast
    <3>4. p.device \in Keys /\ p.mount \in Mounts
      BY <1>1, <3>3, PartitionsSeq DEF Partitions, Keys
    <3> HIDE DEF p
    <3>5. QED
      BY <3>2, <3>4
  <2>3. CASE setting # Unset /\ found = {} /\ setting \in Mounts
    <3>1. fsStats' = addFsStat(fsStats, Base(setting), setting, FALSE)
      BY <1>1, <2>3 DEF addConfiguredExtraFsEntry
    <3>2. Base(setting) \in Keys
      BY <2>3, BaseIsKey
    <3>3. QED
      BY <2>3, <3>1, <3>2
  <2>4. CASE setting # Unset /\ found = {} /\ setting \notin Mounts
    BY <1>1, <2>4 DEF addConfiguredExtraFsEntry
  <2>5. QED
    BY <2>1, <2>2, <2>3, <2>4
<1>3. QED
  BY <1>1, <1>2, ExtraStep DEF Steps

\* A partition: perhaps the root, perhaps an extra filesystem.
LEMMA PartitionStep == DiskInv /\ Partition => DiskInv'
<1> SUFFICES ASSUME DiskInv, Partition PROVE DiskInv'
  OBVIOUS
<1> DEFINE p == partitions[next]
           looks == ~hasRoot /\ isRootFallbackPartition(p)
           io == findIoDevice(p.device)
           d == CHOOSE x \in io : TRUE
           mid == IF looks THEN addPartitionRootFs(p).stats ELSE fsStats
<1>1. /\ DiskTypeOK /\ Followed(fsStats) /\ RootRight(fsStats, hasRoot, step)
      /\ step = "partitions" /\ step' = step /\ next <= Len(partitions)
      /\ UNCHANGED <<host, fsNames>> /\ next' = next + 1 /\ hasRoot \in BOOLEAN
  BY DEF DiskInv, Partition, DiskTypeOK, Followed
<1>2. /\ hasRoot' = IF looks THEN addPartitionRootFs(p).found ELSE hasRoot
      /\ fsStats' = addPartitionExtraFs(mid, p)
  BY DEF Partition
<1>3. next \in 1 .. Len(partitions) /\ next' \in 1 .. MaxParts + 1
  <2>1. next \in 1 .. MaxParts + 1
    BY <1>1 DEF DiskTypeOK
  <2>2. QED
    BY <1>1, <2>1, PartitionsSeq
<1>4. p.device \in Keys /\ p.mount \in Mounts
  BY <1>1, <1>3, PartitionsSeq DEF Partitions, Keys
<1>5. io \subseteq counters /\ io \subseteq Keys /\ (io # {} => d \in io)
  BY <1>1, IoDeviceExists DEF DiskTypeOK, Keys
<1>6. /\ addPartitionRootFs(p).found = (io # {})
      /\ addPartitionRootFs(p).stats = IF io = {} THEN fsStats ELSE addFsStat(fsStats, d, p.mount, TRUE)
  BY DEF addPartitionRootFs
<1>7. Followed(mid) /\ DOMAIN fsStats \subseteq DOMAIN mid /\ hasRoot' \in BOOLEAN /\ RootRight(mid, hasRoot', step)
  <2>1. CASE ~looks
    BY <1>1, <1>2, <2>1
  <2>2. CASE looks /\ io = {}
    <3>1. mid = fsStats /\ hasRoot' = FALSE /\ ~hasRoot
      BY <1>2, <1>6, <2>2
    <3>2. QED
      BY <1>1, <3>1 DEF RootRight
  <2>3. CASE looks /\ io # {}
    <3>1. hasRoot' = TRUE /\ mid = addFsStat(fsStats, d, p.mount, TRUE) /\ ~hasRoot /\ d \in counters /\ d \in Keys
      BY <1>2, <1>5, <1>6, <2>3
    <3>2. RootsOf(fsStats) = {}
      BY <1>1, <3>1 DEF RootRight
    <3>3. registerFilesystemStats(d, p.mount, TRUE) = d
      BY <3>1 DEF registerFilesystemStats
    <3>4. CASE d \in DOMAIN fsStats
      <4>1. mid = fsStats
        BY <3>1, <3>3, <3>4 DEF addFsStat
      <4>2. Displaced(fsStats)
        <5>1. isRootFallbackPartition(partitions[next])
          BY <2>3
        <5>2. findIoDevice(partitions[next].device) \cap DOMAIN fsStats # {}
          BY <1>5, <2>3, <3>4
        <5>3. QED
          BY <1>3, <5>1, <5>2 DEF Displaced
      <4> HIDE DEF mid, d, p
      <4>3. QED
        BY <1>1, <3>1, <3>2, <4>1, <4>2 DEF RootRight, RootKnown
    <3>5. CASE d \notin DOMAIN fsStats
      <4>1. mid = With(fsStats, d, TRUE, p.mount)
        BY <3>1, <3>3, <3>5 DEF addFsStat
      <4> HIDE DEF mid, d, p
      <4> DEFINE new == With(fsStats, d, TRUE, p.mount)
      <4>2. Followed(new) /\ DOMAIN new = DOMAIN fsStats \cup {d} /\ RootsOf(new) = RootsOf(fsStats) \cup {d}
        BY <1>1, <1>4, <3>1, WithRoot
      <4> HIDE DEF new
      <4>3. /\ Followed(mid) /\ DOMAIN fsStats \subseteq DOMAIN mid
            /\ RootsOf(mid) = {d}
        BY <3>2, <4>1, <4>2 DEF new
      <4>4. QED
        BY <3>1, <4>3 DEF RootRight, RootKnown
    <3>6. QED
      BY <3>4, <3>5
  <2>4. QED
    BY <2>1, <2>2, <2>3
<1> HIDE DEF mid, looks, io, d
<1>8. /\ Followed(fsStats') /\ DOMAIN mid \subseteq DOMAIN fsStats'
      /\ RootsOf(fsStats') = RootsOf(mid)
  <2>1. CASE p.mount[1] = "ef"
    <3>1. fsStats' = addFsStat(mid, p.device, p.mount, FALSE)
      BY <1>2, <2>1 DEF addPartitionExtraFs
    <3> HIDE DEF p
    <3>2. QED
      BY <1>1, <1>4, <1>7, <3>1, ExtraEffect
  <2>2. CASE p.mount[1] # "ef"
    BY <1>2, <1>7, <2>2 DEF addPartitionExtraFs
  <2>3. QED
    BY <2>1, <2>2
<1>9. DiskTypeOK'
  <2>1. DOMAIN fsStats \subseteq DOMAIN fsStats' /\ step' \in Steps
    BY <1>1, <1>7, <1>8 DEF Steps
  <2>2. QED
    BY <1>1, <1>3, <1>7, <1>8, <2>1, DiskFrame
<1>10. RootRight(fsStats', hasRoot', step')
  BY <1>1, <1>7, <1>8, Known DEF RootRight
<1>11. QED
  BY <1>1, <1>9, <1>10, DiskKept

LEMMA PartitionsDoneStep == DiskInv /\ PartitionsDone => DiskInv'
<1> SUFFICES ASSUME DiskInv, PartitionsDone PROVE DiskInv'
  OBVIOUS
<1>1. /\ step = "partitions" /\ step' = "folders"
      /\ UNCHANGED <<host, hasRoot, fsNames, next>> /\ fsStats' = fsStats
  BY DEF PartitionsDone
<1>2. QED
  BY <1>1, ExtraStep DEF Steps

LEMMA FoldersStep ==
  ASSUME DiskInv, NEW d \in Devices, addExtraFilesystemFolders(d)
  PROVE  DiskInv'
<1>1. /\ step = "folders" /\ step' = "last" /\ UNCHANGED <<host, hasRoot, fsNames, next>>
      /\ \/ fsStats' = fsStats
         \/ fsStats' = addFsStat(fsStats, d, <<"ef", d>>, FALSE)
  BY DEF addExtraFilesystemFolders
<1>2. d \in Keys /\ <<"ef", d>> \in Mounts
  BY DEF Keys, Mounts
<1>3. \/ fsStats' = fsStats
      \/ \E device \in Keys, mount \in Mounts : fsStats' = addFsStat(fsStats, device, mount, FALSE)
  BY <1>1, <1>2
<1>4. QED
  BY <1>1, <1>3, ExtraStep DEF Steps

LEMMA NoFoldersStep == DiskInv /\ NoFolders => DiskInv'
<1> SUFFICES ASSUME DiskInv, NoFolders PROVE DiskInv'
  OBVIOUS
<1>1. /\ step = "folders" /\ step' = "last"
      /\ UNCHANGED <<host, hasRoot, fsNames, next>> /\ fsStats' = fsStats
  BY DEF NoFolders
<1>2. QED
  BY <1>1, ExtraStep DEF Steps

\* Without a root there is none to lose: the last resort gives one.
LEMMA LastStep == DiskInv /\ addLastResortRootFs => DiskInv'
<1> SUFFICES ASSUME DiskInv, addLastResortRootFs PROVE DiskInv'
  OBVIOUS
<1> DEFINE key == IF counters # {} THEN MostActive(counters)
                  ELSE IF Slash \in DOMAIN fsStats THEN "root" ELSE Slash
           new == With(fsStats, key, TRUE, RootMount)
<1>1. /\ DiskTypeOK /\ Followed(fsStats) /\ RootRight(fsStats, hasRoot, step) /\ hasRoot \in BOOLEAN
      /\ step = "last" /\ step' = "prune" /\ UNCHANGED <<host, hasRoot, fsNames, next>>
      /\ fsStats' = IF hasRoot THEN fsStats ELSE new
  BY DEF DiskInv, DiskTypeOK, Followed, addLastResortRootFs
<1>2. key \in Keys
  <2>1. counters # {} => MostActive(counters) \in counters
    BY DEF MostActive
  <2>2. QED
    BY <1>1, <2>1 DEF DiskTypeOK, Keys
<1>3. RootMount \in Mounts
  BY DEF Mounts
<1> HIDE DEF key
<1>4. Followed(new) /\ DOMAIN new = DOMAIN fsStats \cup {key} /\ RootsOf(new) = RootsOf(fsStats) \cup {key}
  BY <1>1, <1>2, <1>3, WithRoot
<1> HIDE DEF new
<1>5. Followed(fsStats') /\ DOMAIN fsStats \subseteq DOMAIN fsStats' /\ RootKnown(fsStats')
  <2>1. CASE hasRoot
    BY <1>1, <2>1 DEF RootRight
  <2>2. CASE ~hasRoot
    <3>1. RootsOf(fsStats) = {}
      BY <1>1, <2>2 DEF RootRight
    <3>2. fsStats' = new /\ RootsOf(new) = {key}
      BY <1>1, <1>4, <2>2, <3>1
    <3>3. QED
      BY <1>4, <3>2 DEF RootKnown
  <2>3. QED
    BY <2>1, <2>2
<1>6. RootRight(fsStats', hasRoot', step')
  BY <1>1, <1>5 DEF RootRight
<1>7. DiskTypeOK'
  <2>1. step' \in Steps /\ hasRoot' \in BOOLEAN /\ next' \in 1 .. MaxParts + 1
    BY <1>1 DEF Steps, DiskTypeOK
  <2>2. QED
    BY <1>1, <1>5, <2>1, DiskFrame
<1>8. QED
  BY <1>1, <1>6, <1>7, DiskKept

\* The pruning keeps the root, and everything when there is none.
LEMMA PruneStep ==
  ASSUME DiskInv, NEW twins, Prune(twins)
  PROVE  DiskInv'
<1> DEFINE kept == {k \in DOMAIN fsStats : Roots = {} \/ k \in Roots \/ fsStats[k].mount \notin twins}
<1>1. /\ DiskTypeOK /\ Followed(fsStats) /\ RootKnown(fsStats)
      /\ step = "prune" /\ step' = "done" /\ UNCHANGED <<host, hasRoot, next>>
      /\ fsStats' = [k \in kept |-> fsStats[k]] /\ fsNames' = kept \cap counters
  BY DEF DiskInv, DiskTypeOK, Followed, RootRight, Prune
<1>2. Roots = RootsOf(fsStats)
  BY DEF Roots, RootsOf
<1>3. /\ kept \subseteq DOMAIN fsStats /\ RootsOf(fsStats) \subseteq kept
      /\ RootsOf(fsStats) = {} => kept = DOMAIN fsStats
  BY <1>2 DEF RootsOf
<1> HIDE DEF kept
<1>4. DOMAIN fsStats' = kept /\ \A k \in kept : fsStats'[k] = fsStats[k]
  BY <1>1
<1>5. Followed(fsStats')
  BY <1>1, <1>3, <1>4 DEF Followed
<1>6. RootsOf(fsStats') = RootsOf(fsStats)
  BY <1>3, <1>4 DEF RootsOf
<1>7. RootKnown(fsStats')
  <2>1. CASE \E k : RootsOf(fsStats) = {k}
    BY <1>6, <2>1 DEF RootKnown
  <2>2. CASE RootsOf(fsStats) = {} /\ Displaced(fsStats)
    <3>1. DOMAIN fsStats \subseteq DOMAIN fsStats'
      BY <1>3, <1>4, <2>2
    <3>2. QED
      BY <1>1, <1>6, <3>1, Known
  <2>3. QED
    BY <1>1, <2>1, <2>2 DEF RootKnown
<1>8. DiskTypeOK'
  <2>1. partitions' = partitions /\ filesystem' = filesystem /\ counters' = counters /\ busiest' = busiest
    BY <1>1 DEF host
  <2>2. fsNames' \subseteq counters' \cap DOMAIN fsStats'
    BY <1>1, <1>4, <2>1
  <2>3. DOMAIN fsStats' \subseteq Keys /\ \A k \in DOMAIN fsStats' : fsStats'[k] \in Entry
    BY <1>5 DEF Followed
  <2>4. hasRoot' \in BOOLEAN /\ step' \in Steps /\ next' \in 1 .. MaxParts + 1
    BY <1>1 DEF DiskTypeOK, Steps
  <2>5. QED
    BY <1>1, <2>1, <2>2, <2>3, <2>4 DEF DiskTypeOK
<1>9. RootRight(fsStats', hasRoot', step')
  BY <1>1, <1>7 DEF RootRight
<1>10. QED
  BY <1>1, <1>8, <1>9, DiskKept

LEMMA DiskStutters == DiskInv /\ UNCHANGED diskVars => DiskInv'
<1> SUFFICES ASSUME DiskInv, UNCHANGED diskVars PROVE DiskInv'
  OBVIOUS
<1>1. /\ partitions' = partitions /\ filesystem' = filesystem /\ counters' = counters /\ busiest' = busiest
      /\ fsStats' = fsStats /\ hasRoot' = hasRoot /\ fsNames' = fsNames /\ step' = step /\ next' = next
  BY DEF diskVars
<1>2. DiskTypeOK'
  BY <1>1 DEF DiskInv, DiskTypeOK
<1>3. \A name : (findIoDevice(name))' = findIoDevice(name)
  BY <1>1 DEF findIoDevice, MostActive, prefixRelated
<1>4. Displaced(fsStats)' <=> Displaced(fsStats)
  BY <1>1, <1>3 DEF Displaced, isRootFallbackPartition
<1>5. RootRight(fsStats, hasRoot, step)'
  BY <1>1, <1>4 DEF DiskInv, RootRight, RootKnown, RootsOf
<1>6. QED
  BY <1>1, <1>2, <1>5 DEF DiskInv

LEMMA DiskStep == DiskInv /\ [DiskNext]_diskVars => DiskInv'
<1> SUFFICES ASSUME DiskInv, [DiskNext]_diskVars PROVE DiskInv'
  OBVIOUS
<1>1. CASE addConfiguredRootFs
  BY <1>1, RootStep
<1>2. ASSUME NEW setting \in Settings \cup {Unset}, addConfiguredExtraFilesystems(setting) PROVE DiskInv'
  BY <1>2, ConfiguredExtraStep
<1>3. CASE Partition
  BY <1>3, PartitionStep
<1>4. CASE PartitionsDone
  BY <1>4, PartitionsDoneStep
<1>5. ASSUME NEW d \in Devices, addExtraFilesystemFolders(d) PROVE DiskInv'
  BY <1>5, FoldersStep
<1>6. CASE NoFolders
  BY <1>6, NoFoldersStep
<1>7. CASE addLastResortRootFs
  BY <1>7, LastStep
<1>8. ASSUME NEW twins \in Twins, Prune(twins) PROVE DiskInv'
  BY <1>8, PruneStep
<1>9. CASE UNCHANGED diskVars
  BY <1>9, DiskStutters
<1>10. QED
  BY <1>1, <1>2, <1>3, <1>4, <1>5, <1>6, <1>7, <1>8, <1>9 DEF DiskNext

LEMMA DiskAlways == DiskSpec => []DiskInv
BY DiskInitial, DiskStep, PTL DEF DiskSpec

----------------------------------------------------------------------------
\* Every filesystem that initializeDiskInfo registers has the key of a device of the
\* host or one of the names the code makes up, and the followed ones have counters.
THEOREM DiskTypeCorrect == DiskSpec => []DiskTypeOK
<1>1. DiskInv => DiskTypeOK
  BY DEF DiskInv
<1>2. QED
  BY <1>1, DiskAlways, PTL

\* Whatever the partitions, the settings and the counters of a host: initializeDiskInfo
\* ends with one root, or with none after an extra filesystem took its device.
THEOREM RootFound == DiskSpec => []OneRoot
<1>1. DiskInv => OneRoot
  <2> SUFFICES ASSUME DiskInv, step = "done" PROVE OneRoot
    BY DEF OneRoot
  <2>1. RootKnown(fsStats)
    BY DEF DiskInv, RootRight
  <2>2. Roots = RootsOf(fsStats)
    BY DEF Roots, RootsOf
  <2>3. CASE \E k : RootsOf(fsStats) = {k}
    <3>1. PICK k : Roots = {k}
      BY <2>2, <2>3
    <3>2. Cardinality(Roots) = 1
      BY <3>1, FS_Singleton
    <3>3. QED
      BY <3>2 DEF OneRoot
  <2>4. CASE RootsOf(fsStats) = {} /\ Displaced(fsStats)
    BY <2>2, <2>4 DEF OneRoot, Displaced
  <2>5. QED
    BY <2>1, <2>3, <2>4 DEF RootKnown
<1>2. QED
  BY <1>1, DiskAlways, PTL
=============================================================================

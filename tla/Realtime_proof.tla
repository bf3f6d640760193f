--------------------------- MODULE Realtime_proof ---------------------------
(* For any browsers, systems and workers: as long as the requests have come  *)
(* one after the other, the counters agree with the subscriptions and        *)
(* somebody who watches is served.                                           *)
EXTENDS Realtime, FiniteSetTheorems, TLAPS

\* The handlers beside h rest.
Lone(h) == \A k \in Handlers : k # h => handler[k].pc = "idle"

\* A handler has work only between the broker's change and its end.
Shape == \A h \in Handlers : handler[h].pc \in {"idle", "apply"} =>
           handler[h].add = {} /\ handler[h].remove = {}

\* The clients of s that the entry should count while r is under way: the new ones it has
\* not come to are not counted, the old ones are still.
Adding(r, s) == s \in r.add \/ (r.pc \in {"insert", "count"} /\ r.sys = s)
Counted(r, s) ==
  {d \in Clients : \/ d \in connected /\ s \in subs[d] /\ ~(d = r.client /\ Adding(r, s))
                   \/ d = r.client /\ s \in r.remove}

\* What a handler knows about its client and about the entry at hand.
ClientKnown(r) ==
  /\ r.pc = "apply" => r.client \in connected /\ r.old = subs[r.client]
  /\ \A s \in Systems : Adding(r, s) => r.client \in connected /\ s \in subs[r.client]
  /\ r.pc \in {"insert", "count"} => r.sys \notin r.add
  /\ \A s \in r.remove : r.client \notin connected \/ s \notin subs[r.client]
EntryKnown(r) ==
  /\ r.pc = "insert" => r.sys \notin active
  /\ r.pc \in {"count", "added", "delete"} => r.sys \in active
  /\ r.pc = "delete" => count[r.sys] = 0
  /\ r.pc = "stop" => active = {}

\* An entry without clients is about to be used or deleted.
EntryOK(r, s) ==
  IF s \in active THEN /\ count[s] = Cardinality(Counted(r, s))
                       /\ count[s] = 0 => r.pc \in {"count", "delete"} /\ r.sys = s
                  ELSE Counted(r, s) = {}

\* The worker follows the entries, with a delay that a handler makes good.
WorkerOK(r) ==
  /\ active = {} => ~workerRunning \/ r.pc \in {"check", "stop"}
  /\ workerRunning /\ active # {} => Running # {}
  /\ active # {} => workerRunning \/ r.pc \in {"count", "added"}

RequestOK(h) ==
  /\ Lone(h)
  /\ ClientKnown(handler[h]) /\ EntryKnown(handler[h])
  /\ \A s \in Systems : EntryOK(handler[h], s)
  /\ WorkerOK(handler[h])

\* The inductive invariant.
RequestInv ==
  /\ TypeOK /\ Shape
  /\ ~overlapped => \E h \in Handlers : RequestOK(h)

----------------------------------------------------------------------------
(* Counting.                                                                 *)

LEMMA RestingType == Resting \in HandlerType
  BY SomeAssumption DEF Resting, HandlerType

LEMMA ClientSets ==
  ASSUME NEW S \in SUBSET Clients
  PROVE  IsFiniteSet(S) /\ Cardinality(S) \in Nat /\ Cardinality(S) < CountMod
<1>1. IsFiniteSet(S) /\ Cardinality(S) <= Cardinality(Clients)
  BY ClientsAssumption, FS_Subset
<1>2. Cardinality(S) \in Nat /\ Cardinality(Clients) \in Nat
  BY <1>1, ClientsAssumption, FS_CardinalityType
<1>3. QED
  BY <1>1, <1>2, ClientsAssumption, CountAssumption

\* The counter does not wrap: there are not enough clients.
LEMMA Increment ==
  ASSUME NEW n \in Nat, n + 1 < CountMod
  PROVE  (n + 1) % CountMod = n + 1
  BY CountAssumption

LEMMA Decrement ==
  ASSUME NEW n \in Nat \ {0}, n < CountMod
  PROVE  (n + CountMod - 1) % CountMod = n - 1
  BY CountAssumption

LEMMA ModRange ==
  ASSUME NEW n \in Nat
  PROVE  n % CountMod \in 0 .. CountMod - 1
  BY CountAssumption

LEMMA HandlerFields ==
  ASSUME TypeOK, NEW h \in Handlers
  PROVE  /\ handler[h] \in HandlerType
         /\ handler[h].client \in Clients /\ handler[h].sys \in Systems
         /\ handler[h].old \in SUBSET Systems /\ handler[h].add \in SUBSET Systems
         /\ handler[h].remove \in SUBSET Systems
         /\ handler[h].pc \in {"idle", "apply", "work", "insert", "count", "added", "delete", "check", "stop"}
  BY DEF TypeOK, HandlerType

\* Without overlap, a handler that is at work is the only one.
LEMMA AtWork ==
  ASSUME RequestInv, ~overlapped, NEW h \in Handlers, handler[h].pc # "idle"
  PROVE  RequestOK(h)
<1>1. PICK k \in Handlers : RequestOK(k)
  BY DEF RequestInv
<1>2. k = h
  BY <1>1 DEF RequestOK, Lone
<1>3. QED
  BY <1>1, <1>2

\* When all rest, the clients counted are those subscribed.
LEMMA RestCounts ==
  ASSUME TypeOK, Shape, NEW h \in Handlers, handler[h].pc = "idle", NEW s \in Systems
  PROVE  Counted(handler[h], s) = {d \in Clients : d \in connected /\ s \in subs[d]}
<1>1. handler[h].add = {} /\ handler[h].remove = {}
  BY DEF Shape
<1>2. QED
  BY <1>1 DEF Counted, Adding

\* At rest one handler is as good as another.
LEMMA AtRest ==
  ASSUME RequestInv, ~overlapped, Quiet, NEW h \in Handlers
  PROVE  RequestOK(h)
<1>1. PICK k \in Handlers : RequestOK(k)
  BY DEF RequestInv
<1>2. /\ TypeOK /\ Shape /\ handler[h].pc = "idle" /\ handler[k].pc = "idle"
      /\ handler[h].add = {} /\ handler[h].remove = {}
  BY DEF RequestInv, Quiet, Shape
<1>3. \A s \in Systems : Counted(handler[h], s) = Counted(handler[k], s)
  BY <1>2, RestCounts
<1>4. Lone(h)
  BY DEF Lone, Quiet
<1>5. ClientKnown(handler[h]) /\ EntryKnown(handler[h])
  BY <1>2 DEF ClientKnown, EntryKnown, Adding
<1>6. \A s \in Systems : EntryOK(handler[h], s)
  BY <1>1, <1>2, <1>3 DEF RequestOK, EntryOK
<1>7. WorkerOK(handler[h])
  BY <1>1, <1>2 DEF RequestOK, WorkerOK
<1>8. QED
  BY <1>4, <1>5, <1>6, <1>7 DEF RequestOK

\* Only the handler that moves changes.
LEMMA StillLone ==
  ASSUME TypeOK, NEW h \in Handlers, Lone(h),
         NEW r \in HandlerType, handler' = [handler EXCEPT ![h] = r]
  PROVE  Lone(h)' /\ handler'[h] = r /\ handler' \in [Handlers -> HandlerType]
  BY DEF TypeOK, Lone

----------------------------------------------------------------------------
(* Types.                                                                    *)

\* A step of a handler to a record with nothing to do only when it rests.
LEMMA TypesKept ==
  ASSUME TypeOK, Shape, NEW h \in Handlers, NEW r \in HandlerType,
         handler' = [handler EXCEPT ![h] = r],
         r.pc \in {"idle", "apply"} => r.add = {} /\ r.remove = {},
         connected' \in SUBSET Clients, subs' \in [Clients -> SUBSET Systems],
         active' \in SUBSET Systems, count' \in [Systems -> 0 .. CountMod - 1],
         overlapped' \in BOOLEAN, workerRunning' \in BOOLEAN,
         worker' \in [Workers -> {"off", "fetch", "ready", "stale"}]
  PROVE  TypeOK' /\ Shape'
<1>1. handler' \in [Handlers -> HandlerType]
  BY DEF TypeOK
<1>2. TypeOK'
  BY <1>1 DEF TypeOK
<1>3. Shape'
  BY DEF TypeOK, Shape
<1>4. QED
  BY <1>2, <1>3

----------------------------------------------------------------------------
(* Requests.                                                                 *)

LEMMA InitRequestInv == Init => RequestInv
<1> SUFFICES ASSUME Init PROVE RequestInv
  OBVIOUS
<1>1. handler \in [Handlers -> HandlerType]
  BY RestingType DEF Init
<1>2. TypeOK
  <2>1. 0 \in 0 .. CountMod - 1
    BY CountAssumption
  <2>2. count \in [Systems -> 0 .. CountMod - 1] /\ subs \in [Clients -> SUBSET Systems]
    BY <2>1 DEF Init
  <2>3. QED
    BY <1>1, <2>2 DEF Init, TypeOK
<1>3. Shape
  BY DEF Init, Shape, Resting
<1>4. PICK h \in Handlers : TRUE
  BY SomeAssumption
<1>5. handler[h].pc = "idle" /\ handler[h].add = {} /\ handler[h].remove = {}
  BY DEF Init, Resting
<1>6. Lone(h) /\ ClientKnown(handler[h]) /\ EntryKnown(handler[h]) /\ WorkerOK(handler[h])
  <2>1. Lone(h)
    BY DEF Init, Lone, Resting
  <2>2. ClientKnown(handler[h]) /\ EntryKnown(handler[h])
    BY <1>5 DEF ClientKnown, EntryKnown, Adding
  <2>3. WorkerOK(handler[h])
    BY DEF Init, WorkerOK
  <2>4. QED
    BY <2>1, <2>2, <2>3
<1>7. \A s \in Systems : EntryOK(handler[h], s)
  BY <1>2, <1>3, <1>5, RestCounts DEF Init, EntryOK
<1>8. QED
  BY <1>2, <1>3, <1>6, <1>7 DEF RequestInv, RequestOK

\* A client that connects is nobody's: it was not counted, and has no subscriptions.
LEMMA ConnectInv ==
  ASSUME RequestInv, NEW c \in Clients, Connect(c)
  PROVE  RequestInv'
<1>0. TypeOK /\ Shape
  BY DEF RequestInv
<1>1. /\ connected' = connected \cup {c} /\ subs' = [subs EXCEPT ![c] = {}]
      /\ UNCHANGED <<active, count, handler, overlapped, workerRunning, worker>>
      /\ c \notin connected /\ ~Busy(c)
  BY DEF Connect, entries
<1>2. TypeOK' /\ Shape'
  BY <1>0, <1>1 DEF TypeOK, Shape
<1>3. ASSUME ~overlapped' PROVE \E h \in Handlers : RequestOK(h)'
  <2>1. PICK h \in Handlers : RequestOK(h)
    BY <1>1, <1>3 DEF RequestInv
  <2> DEFINE r == handler[h]
  <2>2. r.client = c => r.pc = "idle" /\ r.add = {} /\ r.remove = {}
    BY <1>0, <1>1 DEF Busy, Shape
  <2>3. /\ \A d \in Clients : d # c => subs'[d] = subs[d] /\ (d \in connected' <=> d \in connected)
        /\ subs'[c] = {}
    BY <1>0, <1>1 DEF TypeOK
  <2>4. r.client \in Clients
    BY <1>0, HandlerFields
  <2>5. Lone(h)' /\ EntryKnown(handler[h])' /\ WorkerOK(handler[h])'
    BY <1>1, <2>1 DEF RequestOK, Lone, EntryKnown, WorkerOK, Running
  <2>6. ClientKnown(handler[h])'
    BY <1>1, <2>1, <2>2, <2>3, <2>4 DEF RequestOK, ClientKnown, Adding
  <2>7. \A s \in Systems : Counted(handler[h], s)' = Counted(handler[h], s)
    BY <1>1, <2>2, <2>3, <2>4 DEF Counted, Adding
  <2>8. \A s \in Systems : EntryOK(handler[h], s)'
    BY <1>1, <2>1, <2>7 DEF RequestOK, EntryOK
  <2>9. QED
    BY <2>5, <2>6, <2>8 DEF RequestOK
<1>4. QED
  BY <1>2, <1>3 DEF RequestInv

\* What is common to the steps of a handler that leave the entries alone: the clients
\* counted must stay the same.
LEMMA HandlerFrame ==
  ASSUME RequestInv, NEW h \in Handlers, RequestOK(h), NEW r \in HandlerType,
         handler' = [handler EXCEPT ![h] = r], UNCHANGED <<active, count>>,
         ClientKnown(r)', EntryKnown(r)', WorkerOK(r)',
         \A s \in Systems : Counted(r, s)' = Counted(handler[h], s),
         handler[h].pc \in {"count", "delete"} => r.pc = handler[h].pc /\ r.sys = handler[h].sys
  PROVE  RequestOK(h)'
<1>1. Lone(h)' /\ handler'[h] = r
  BY StillLone DEF RequestInv, RequestOK
<1>2. \A s \in Systems : EntryOK(r, s)'
  BY DEF RequestOK, EntryOK
<1>3. QED
  BY <1>1, <1>2 DEF RequestOK, ClientKnown, EntryKnown, WorkerOK, EntryOK, Counted, Adding

LEMMA StepInv ==
  ASSUME RequestInv, NEW h \in Handlers, handler[h].pc # "idle", overlapped' = overlapped,
         TypeOK', Shape', RequestOK(h) => RequestOK(h)'
  PROVE  RequestInv'
<1>1. ~overlapped => RequestOK(h)
  BY AtWork
<1>2. QED
  BY <1>1 DEF RequestInv

LEMMA BeginSubscribeInv ==
  ASSUME RequestInv, NEW h \in Handlers, NEW c \in Clients, BeginSubscribe(h, c)
  PROVE  RequestInv'
<1> DEFINE next == [handler[h] EXCEPT !.pc = "apply", !.client = c, !.old = subs[c]]
<1>0. /\ TypeOK /\ Shape /\ handler[h].pc = "idle" /\ handler[h].add = {} /\ handler[h].remove = {}
      /\ c \in connected /\ subs[c] \in SUBSET Systems
  BY DEF RequestInv, Shape, BeginSubscribe, TypeOK
<1>1. PICK r \in HandlerType :
        /\ r = next
        /\ r.pc = "apply" /\ r.client = c /\ r.old = subs[c] /\ r.add = {} /\ r.remove = {}
  <2>1. /\ next \in HandlerType
        /\ next.pc = "apply" /\ next.client = c /\ next.old = subs[c] /\ next.add = {}
        /\ next.remove = {}
    BY <1>0, HandlerFields DEF HandlerType
  <2>2. QED
    BY <2>1
<1>2. handler' = [handler EXCEPT ![h] = r] /\ overlapped' = (overlapped \/ ~Quiet)
      /\ UNCHANGED <<connected, subs, active, count, workerRunning, worker>>
  BY <1>1 DEF BeginSubscribe, entries
<1>3. overlapped' \in BOOLEAN
  BY <1>2
<1>4. TypeOK' /\ Shape'
  BY <1>0, <1>1, <1>2, <1>3, TypesKept DEF TypeOK
<1>5. ASSUME ~overlapped' PROVE RequestOK(h)'
  <2>1. RequestOK(h)
    BY <1>2, <1>5, AtRest
  <2>2. ClientKnown(r)' /\ EntryKnown(r)'
    BY <1>0, <1>1, <1>2 DEF ClientKnown, EntryKnown, Adding
  <2>3. WorkerOK(r)'
    BY <1>0, <1>2, <2>1 DEF RequestOK, WorkerOK, Running
  <2>4. \A s \in Systems : Counted(r, s)' = Counted(handler[h], s)
    BY <1>0, <1>1, <1>2 DEF Counted, Adding
  <2>5. QED
    BY <1>0, <1>1, <1>2, <2>1, <2>2, <2>3, <2>4, HandlerFrame
<1>6. QED
  BY <1>4, <1>5 DEF RequestInv

LEMMA DisconnectInv ==
  ASSUME RequestInv, NEW h \in Handlers, NEW c \in Clients, Disconnect(h, c)
  PROVE  RequestInv'
<1> DEFINE next == [handler[h] EXCEPT !.pc = "work", !.client = c, !.remove = subs[c]]
<1>0. /\ TypeOK /\ Shape /\ handler[h].pc = "idle" /\ handler[h].add = {} /\ handler[h].remove = {}
      /\ c \in connected /\ subs[c] \in SUBSET Systems
  BY DEF RequestInv, Shape, Disconnect, TypeOK
<1>1. PICK r \in HandlerType :
        /\ r = next
        /\ r.pc = "work" /\ r.client = c /\ r.add = {} /\ r.remove = subs[c]
  <2>1. /\ next \in HandlerType
        /\ next.pc = "work" /\ next.client = c /\ next.add = {} /\ next.remove = subs[c]
    BY <1>0, HandlerFields DEF HandlerType
  <2>2. QED
    BY <2>1
<1>2. /\ handler' = [handler EXCEPT ![h] = r] /\ overlapped' = (overlapped \/ ~Quiet)
      /\ connected' = connected \ {c}
      /\ UNCHANGED <<subs, active, count, workerRunning, worker>>
  BY <1>1 DEF Disconnect, entries
<1>3. overlapped' \in BOOLEAN
  BY <1>2
<1>4. TypeOK' /\ Shape'
  BY <1>0, <1>1, <1>2, <1>3, TypesKept DEF TypeOK
<1>5. ASSUME ~overlapped' PROVE RequestOK(h)'
  <2>1. RequestOK(h)
    BY <1>2, <1>5, AtRest
  <2>2. ClientKnown(r)' /\ EntryKnown(r)'
    BY <1>0, <1>1, <1>2 DEF ClientKnown, EntryKnown, Adding
  <2>3. WorkerOK(r)'
    BY <1>0, <1>2, <2>1 DEF RequestOK, WorkerOK, Running
  <2>4. \A s \in Systems : Counted(r, s)' = Counted(handler[h], s)
    BY <1>0, <1>1, <1>2 DEF Counted, Adding
  <2>5. QED
    BY <1>0, <1>1, <1>2, <2>1, <2>2, <2>3, <2>4, HandlerFrame
<1>6. QED
  BY <1>4, <1>5 DEF RequestInv

\* The broker has the new subscriptions, the counters still the old ones: the difference is
\* the handler's work.
LEMMA ApplySubscribeInv ==
  ASSUME RequestInv, NEW h \in Handlers, ApplySubscribe(h)
  PROVE  RequestInv'
<1>0. /\ TypeOK /\ Shape /\ handler[h].pc = "apply" /\ handler[h].add = {} /\ handler[h].remove = {}
      /\ handler[h] \in HandlerType /\ handler[h].client \in Clients
      /\ handler[h].old \in SUBSET Systems
  BY HandlerFields DEF RequestInv, Shape, ApplySubscribe
<1>1. PICK new \in SUBSET Systems :
        /\ subs' = [subs EXCEPT ![handler[h].client] = new]
        /\ handler' = [handler EXCEPT ![h].pc = "work", ![h].old = {},
                                      ![h].add = new \ handler[h].old,
                                      ![h].remove = handler[h].old \ new]
  BY DEF ApplySubscribe
<1> DEFINE next == [handler[h] EXCEPT !.pc = "work", !.old = {},
                                   !.add = new \ handler[h].old, !.remove = handler[h].old \ new]
<1>2. PICK r \in HandlerType :
        /\ r = next
        /\ r.pc = "work" /\ r.client = handler[h].client /\ r.add = new \ handler[h].old
        /\ r.remove = handler[h].old \ new
  <2>1. /\ next \in HandlerType
        /\ next.pc = "work" /\ next.client = handler[h].client
        /\ next.add = new \ handler[h].old /\ next.remove = handler[h].old \ new
    BY <1>0 DEF HandlerType
  <2>2. QED
    BY <2>1
<1>3. /\ handler' = [handler EXCEPT ![h] = r]
      /\ UNCHANGED <<connected, overlapped, active, count, workerRunning, worker>>
  BY <1>2, <1>0, <1>1 DEF ApplySubscribe, entries, TypeOK
<1>4. subs' \in [Clients -> SUBSET Systems]
  BY <1>0, <1>1 DEF TypeOK
<1>5. TypeOK' /\ Shape'
  BY <1>0, <1>2, <1>3, <1>4, TypesKept DEF TypeOK
<1>6. ASSUME RequestOK(h) PROVE RequestOK(h)'
  <2>1. /\ r.client \in connected /\ handler[h].old = subs[r.client] /\ subs'[r.client] = new
        /\ \A d \in Clients : d # r.client => subs'[d] = subs[d]
    BY <1>0, <1>1, <1>2, <1>6 DEF RequestOK, ClientKnown, TypeOK
  <2>2. ClientKnown(r)' /\ EntryKnown(r)'
    BY <1>2, <1>3, <2>1 DEF ClientKnown, EntryKnown, Adding
  <2>3. WorkerOK(r)'
    BY <1>0, <1>3, <1>6 DEF RequestOK, WorkerOK, Running
  <2>4. \A s \in Systems : Counted(r, s)' = Counted(handler[h], s)
    BY <1>0, <1>2, <1>3, <2>1 DEF Counted, Adding
  <2>5. QED
    BY <1>0, <1>2, <1>3, <1>6, <2>2, <2>3, <2>4, HandlerFrame
<1>7. QED
  BY <1>0, <1>3, <1>5, <1>6, StepInv

LEMMA LookInv ==
  ASSUME RequestInv, NEW h \in Handlers, Look(h)
  PROVE  RequestInv'
<1>0. /\ TypeOK /\ Shape /\ handler[h].pc = "work"
      /\ handler[h] \in HandlerType /\ handler[h].add \in SUBSET Systems
  BY HandlerFields DEF RequestInv, Look
<1>1. PICK s0 \in handler[h].add :
        handler' = [handler EXCEPT ![h].pc = IF s0 \in active THEN "count" ELSE "insert",
                                   ![h].sys = s0, ![h].add = @ \ {s0}]
  BY DEF Look
<1> DEFINE next == [handler[h] EXCEPT !.pc = IF s0 \in active THEN "count" ELSE "insert",
                                   !.sys = s0, !.add = @ \ {s0}]
<1>2. PICK r \in HandlerType :
        /\ r = next
        /\ r.pc = (IF s0 \in active THEN "count" ELSE "insert") /\ r.sys = s0
        /\ r.client = handler[h].client /\ r.add = handler[h].add \ {s0}
        /\ r.remove = handler[h].remove
  <2>1. /\ next \in HandlerType
        /\ next.pc = (IF s0 \in active THEN "count" ELSE "insert") /\ next.sys = s0
        /\ next.client = handler[h].client /\ next.add = handler[h].add \ {s0}
        /\ next.remove = handler[h].remove
    BY <1>0 DEF HandlerType
  <2>2. QED
    BY <2>1
<1>3. /\ handler' = [handler EXCEPT ![h] = r]
      /\ UNCHANGED <<connected, subs, overlapped, active, count, workerRunning, worker>>
  BY <1>2, <1>0, <1>1 DEF Look, entries, broker, TypeOK
<1>4. TypeOK' /\ Shape'
  <2>1. r.pc \notin {"idle", "apply"}
    BY <1>2
  <2>2. QED
    BY <1>0, <1>3, <2>1, TypesKept DEF TypeOK
<1>5. \A s \in Systems : Adding(r, s) <=> Adding(handler[h], s)
  BY <1>0, <1>2 DEF Adding
<1>6. ASSUME RequestOK(h) PROVE RequestOK(h)'
  <2>1. ClientKnown(r)' /\ EntryKnown(r)'
    BY <1>0, <1>2, <1>3, <1>5, <1>6 DEF RequestOK, ClientKnown, EntryKnown, Adding
  <2>2. WorkerOK(r)'
    BY <1>0, <1>2, <1>3, <1>6 DEF RequestOK, WorkerOK, Running
  <2>3. \A s \in Systems : Counted(r, s)' = Counted(handler[h], s)
    BY <1>2, <1>3, <1>5 DEF Counted, Adding
  <2>4. QED
    BY <1>0, <1>2, <1>3, <1>6, <2>1, <2>2, <2>3, HandlerFrame
<1>7. QED
  BY <1>0, <1>3, <1>4, <1>6, StepInv

\* A new entry has no clients yet, and nobody was counted without one.
LEMMA InsertInv ==
  ASSUME RequestInv, NEW h \in Handlers, Insert(h)
  PROVE  RequestInv'
<1> DEFINE next == [handler[h] EXCEPT !.pc = "count"]
           s0 == handler[h].sys
<1>0. /\ TypeOK /\ Shape /\ handler[h].pc = "insert"
      /\ handler[h] \in HandlerType /\ s0 \in Systems
  BY HandlerFields DEF RequestInv, Insert
<1>1. PICK r \in HandlerType :
        /\ r = next
        /\ r.pc = "count" /\ r.sys = s0 /\ r.client = handler[h].client
        /\ r.add = handler[h].add /\ r.remove = handler[h].remove
  <2>1. /\ next \in HandlerType
        /\ next.pc = "count" /\ next.sys = s0 /\ next.client = handler[h].client
        /\ next.add = handler[h].add /\ next.remove = handler[h].remove
    BY <1>0 DEF HandlerType
  <2>2. QED
    BY <2>1
<1>2. /\ handler' = [handler EXCEPT ![h] = r]
      /\ active' = active \cup {s0} /\ count' = [count EXCEPT ![s0] = 0]
      /\ UNCHANGED <<connected, subs, overlapped, workerRunning, worker>>
  BY <1>1 DEF Insert, Move, broker
<1>3. active' \in SUBSET Systems /\ count' \in [Systems -> 0 .. CountMod - 1]
  BY <1>0, <1>2, CountAssumption DEF TypeOK
<1>4. TypeOK' /\ Shape'
  BY <1>0, <1>1, <1>2, <1>3, TypesKept DEF TypeOK
<1>5. \A s \in Systems : Adding(r, s) <=> Adding(handler[h], s)
  BY <1>0, <1>1 DEF Adding
<1>6. ASSUME RequestOK(h) PROVE RequestOK(h)'
  <2>1. Lone(h)' /\ handler'[h] = r
    BY <1>0, <1>1, <1>2, <1>6, StillLone DEF RequestOK
  <2>2. ClientKnown(r)' /\ EntryKnown(r)'
    BY <1>0, <1>1, <1>2, <1>5, <1>6 DEF RequestOK, ClientKnown, EntryKnown, Adding
  <2>3. WorkerOK(r)'
    BY <1>0, <1>1, <1>2, <1>6 DEF RequestOK, WorkerOK, Running
  <2>4. \A s \in Systems : Counted(r, s)' = Counted(handler[h], s)
    BY <1>1, <1>2, <1>5 DEF Counted, Adding
  <2>5. ASSUME NEW s \in Systems PROVE EntryOK(r, s)'
    <3>1. EntryOK(handler[h], s) /\ s0 \notin active
      BY <1>0, <1>6 DEF RequestOK, EntryKnown
    <3>2. CASE s = s0
      <4>1. Counted(r, s)' = {}
        BY <2>4, <3>1, <3>2 DEF EntryOK
      <4>2. count'[s] = 0 /\ s \in active'
        BY <1>0, <1>2, <3>2 DEF TypeOK
      <4>3. QED
        BY <1>1, <3>2, <4>1, <4>2, FS_EmptySet DEF EntryOK
    <3>3. CASE s # s0
      <4>1. count'[s] = count[s] /\ (s \in active' <=> s \in active)
        BY <1>0, <1>2, <3>3 DEF TypeOK
      <4>2. QED
        BY <1>0, <2>4, <3>1, <4>1 DEF EntryOK
    <3>4. QED
      BY <3>2, <3>3
  <2>6. QED
    BY <2>1, <2>2, <2>3, <2>5 DEF RequestOK, ClientKnown, EntryKnown, WorkerOK, EntryOK,
         Counted, Adding
<1>7. QED
  BY <1>0, <1>2, <1>4, <1>6, StepInv

\* The client is counted now, and was not before.
LEMMA CountClientInv ==
  ASSUME RequestInv, NEW h \in Handlers, CountClient(h)
  PROVE  RequestInv'
<1> DEFINE next == [handler[h] EXCEPT !.pc = "added"]
           s0 == handler[h].sys
           c == handler[h].client
<1>0. /\ TypeOK /\ Shape /\ handler[h].pc = "count" /\ s0 \in active
      /\ handler[h] \in HandlerType /\ s0 \in Systems /\ c \in Clients
  BY HandlerFields DEF RequestInv, CountClient
<1>1. PICK r \in HandlerType :
        /\ r = next
        /\ r.pc = "added" /\ r.sys = s0 /\ r.client = c /\ r.add = handler[h].add
        /\ r.remove = handler[h].remove
  <2>1. /\ next \in HandlerType
        /\ next.pc = "added" /\ next.sys = s0 /\ next.client = c
        /\ next.add = handler[h].add /\ next.remove = handler[h].remove
    BY <1>0 DEF HandlerType
  <2>2. QED
    BY <2>1
<1>2. /\ handler' = [handler EXCEPT ![h] = r]
      /\ count' = [count EXCEPT ![s0] = (@ + 1) % CountMod]
      /\ UNCHANGED <<active, connected, subs, overlapped, workerRunning, worker>>
  BY <1>1 DEF CountClient, Move, broker
<1>3. count[s0] \in Nat /\ count' \in [Systems -> 0 .. CountMod - 1]
  <2>1. count[s0] \in 0 .. CountMod - 1
    BY <1>0 DEF TypeOK
  <2>2. (count[s0] + 1) % CountMod \in 0 .. CountMod - 1
    BY <2>1, ModRange
  <2>3. QED
    BY <1>0, <1>2, <2>1, <2>2 DEF TypeOK
<1>4. TypeOK' /\ Shape'
  BY <1>0, <1>1, <1>2, <1>3, TypesKept DEF TypeOK
<1>5. ASSUME RequestOK(h) PROVE RequestOK(h)'
  <2>1. Lone(h)' /\ handler'[h] = r
    BY <1>0, <1>1, <1>2, <1>5, StillLone DEF RequestOK
  <2>2. /\ c \in connected /\ s0 \in subs[c] /\ s0 \notin handler[h].add /\ s0 \notin handler[h].remove
    BY <1>0, <1>5 DEF RequestOK, ClientKnown, Adding
  <2>3. ClientKnown(r)' /\ EntryKnown(r)'
    BY <1>0, <1>1, <1>2, <1>5 DEF RequestOK, ClientKnown, EntryKnown, Adding
  <2>4. WorkerOK(r)'
    BY <1>0, <1>1, <1>2, <1>5 DEF RequestOK, WorkerOK, Running
  <2>5. ASSUME NEW s \in Systems PROVE EntryOK(r, s)'
    <3>1. EntryOK(handler[h], s)
      BY <1>5 DEF RequestOK
    <3>2. CASE s = s0
      <4>1. c \notin Counted(handler[h], s) /\ Counted(r, s)' = Counted(handler[h], s) \cup {c}
        BY <1>0, <1>1, <1>2, <2>2, <3>2 DEF Counted, Adding
      <4>2. Counted(handler[h], s) \in SUBSET Clients /\ Counted(r, s)' \in SUBSET Clients
        BY DEF Counted
      <4>3. count[s] = Cardinality(Counted(handler[h], s))
        BY <1>0, <3>1, <3>2 DEF EntryOK
      <4>4. Cardinality(Counted(r, s)') = count[s] + 1 /\ count[s] + 1 < CountMod
        BY <4>1, <4>2, <4>3, ClientSets, FS_AddElement
      <4>5. count'[s] = count[s] + 1
        BY <1>0, <1>2, <1>3, <3>2, <4>4, Increment DEF TypeOK
      <4>6. s \in active' /\ count'[s] # 0 /\ count'[s] = Cardinality(Counted(r, s)')
        BY <1>0, <1>2, <1>3, <3>2, <4>4, <4>5
      <4>7. QED
        BY <4>6 DEF EntryOK, Counted, Adding
    <3>3. CASE s # s0
      <4>1. Counted(r, s)' = Counted(handler[h], s)
        BY <1>0, <1>1, <1>2, <3>3 DEF Counted, Adding
      <4>2. count'[s] = count[s] /\ (s \in active' <=> s \in active)
        BY <1>0, <1>2, <3>3 DEF TypeOK
      <4>3. QED
        BY <1>0, <3>1, <3>3, <4>1, <4>2 DEF EntryOK
    <3>4. QED
      BY <3>2, <3>3
  <2>6. QED
    BY <2>1, <2>3, <2>4, <2>5 DEF RequestOK, ClientKnown, EntryKnown, WorkerOK, EntryOK,
         Counted, Adding
<1>6. QED
  BY <1>0, <1>2, <1>4, <1>5, StepInv

\* Without overlap nobody has deleted the entry.
LEMMA CountNilInv ==
  ASSUME RequestInv, NEW h \in Handlers, CountNil(h)
  PROVE  RequestInv'
<1>0. TypeOK /\ Shape /\ handler[h].pc = "count" /\ handler[h].sys \notin active
  BY DEF RequestInv, CountNil
<1>1. /\ handler' = [handler EXCEPT ![h] = Resting]
      /\ UNCHANGED <<active, count, connected, subs, overlapped, workerRunning, worker>>
  BY DEF CountNil, entries, broker
<1>2. TypeOK' /\ Shape'
  BY <1>0, <1>1, RestingType, TypesKept DEF TypeOK, Resting
<1>3. ~RequestOK(h)
  BY <1>0 DEF RequestOK, EntryKnown
<1>4. QED
  BY <1>0, <1>1, <1>2, <1>3, StepInv

LEMMA AddedInv ==
  ASSUME RequestInv, NEW h \in Handlers, onRealtimeSubscriptionAdded(h)
  PROVE  RequestInv'
<1> DEFINE next == [handler[h] EXCEPT !.pc = "work"]
<1>0. /\ TypeOK /\ Shape /\ handler[h].pc = "added" /\ handler[h] \in HandlerType
  BY HandlerFields DEF RequestInv, onRealtimeSubscriptionAdded
<1>1. PICK r \in HandlerType :
        /\ r = next /\ r.pc = "work" /\ r.client = handler[h].client
        /\ r.add = handler[h].add /\ r.remove = handler[h].remove
  <2>1. /\ next \in HandlerType /\ next.pc = "work" /\ next.client = handler[h].client
        /\ next.add = handler[h].add /\ next.remove = handler[h].remove
    BY <1>0 DEF HandlerType
  <2>2. QED
    BY <2>1
<1>2. /\ handler' = [handler EXCEPT ![h] = r] /\ workerRunning' = TRUE
      /\ UNCHANGED <<connected, subs, overlapped, active, count>>
  BY <1>1 DEF onRealtimeSubscriptionAdded, Move, broker, entries
<1>3. /\ worker' \in [Workers -> {"off", "fetch", "ready", "stale"}]
      /\ workerRunning /\ Running # {} => Running' # {}
      /\ ~workerRunning => Running' # {}
  <2>1. CASE workerRunning
    BY <1>0, <2>1 DEF onRealtimeSubscriptionAdded, TypeOK, Running
  <2>2. CASE ~workerRunning
    <3>1. PICK w \in Workers : worker' = Restarted(w)
      BY <2>2 DEF onRealtimeSubscriptionAdded
    <3>2. worker' \in [Workers -> {"off", "fetch", "ready", "stale"}] /\ worker'[w] = "fetch"
      BY <1>0, <3>1 DEF Restarted, TypeOK
    <3>3. QED
      BY <2>2, <3>2 DEF Running
  <2>3. QED
    BY <2>1, <2>2
<1>4. TypeOK' /\ Shape'
  BY <1>0, <1>1, <1>2, <1>3, TypesKept DEF TypeOK
<1>5. ASSUME RequestOK(h) PROVE RequestOK(h)'
  <2>1. ClientKnown(r)' /\ EntryKnown(r)'
    BY <1>0, <1>1, <1>2, <1>5 DEF RequestOK, ClientKnown, EntryKnown, Adding
  <2>2. active # {}
    BY <1>0, <1>5 DEF RequestOK, EntryKnown
  <2>3. WorkerOK(r)'
    BY <1>2, <1>3, <1>5, <2>2 DEF RequestOK, WorkerOK
  <2>4. \A s \in Systems : Counted(r, s)' = Counted(handler[h], s)
    BY <1>0, <1>1, <1>2 DEF Counted, Adding
  <2>5. QED
    BY <1>0, <1>1, <1>2, <1>5, <2>1, <2>3, <2>4, HandlerFrame
<1>6. QED
  BY <1>0, <1>2, <1>4, <1>5, StepInv

\* The client was counted, so the entry is there and its counter is not zero.
LEMMA RemoveClientInv ==
  ASSUME RequestInv, NEW h \in Handlers, RemoveClient(h)
  PROVE  RequestInv'
<1> DEFINE c == handler[h].client
<1>0. /\ TypeOK /\ Shape /\ handler[h].pc = "work" /\ handler[h].add = {}
      /\ handler[h] \in HandlerType /\ c \in Clients /\ handler[h].remove \in SUBSET Systems
  BY HandlerFields DEF RequestInv, RemoveClient
<1>1. PICK s0 \in handler[h].remove :
        LET left == (count[s0] + CountMod - 1) % CountMod IN
        /\ count' = IF s0 \in active THEN [count EXCEPT ![s0] = left] ELSE count
        /\ handler' = [handler EXCEPT
             ![h].pc = IF s0 \in active /\ left = 0 THEN "delete" ELSE "check",
             ![h].sys = s0,
             ![h].remove = @ \ {s0}]
  BY DEF RemoveClient
<1> DEFINE left == (count[s0] + CountMod - 1) % CountMod
           next == [handler[h] EXCEPT !.pc = IF s0 \in active /\ left = 0 THEN "delete" ELSE "check",
                                      !.sys = s0, !.remove = @ \ {s0}]
<1>2. PICK r \in HandlerType :
        /\ r = next /\ r.pc = (IF s0 \in active /\ left = 0 THEN "delete" ELSE "check")
        /\ r.sys = s0 /\ r.client = c /\ r.add = {} /\ r.remove = handler[h].remove \ {s0}
  <2>1. /\ next \in HandlerType /\ next.pc = (IF s0 \in active /\ left = 0 THEN "delete" ELSE "check")
        /\ next.sys = s0 /\ next.client = c /\ next.add = {}
        /\ next.remove = handler[h].remove \ {s0}
    BY <1>0 DEF HandlerType
  <2>2. QED
    BY <2>1
<1>3. /\ handler' = [handler EXCEPT ![h] = r] /\ s0 \in Systems
      /\ UNCHANGED <<connected, subs, overlapped, active, workerRunning, worker>>
  BY <1>0, <1>1, <1>2 DEF RemoveClient, broker
<1>4. left \in 0 .. CountMod - 1 /\ count' \in [Systems -> 0 .. CountMod - 1] /\ count[s0] \in Nat
  <2>1. count[s0] \in 0 .. CountMod - 1
    BY <1>0, <1>3 DEF TypeOK
  <2>2. count[s0] + CountMod - 1 \in Nat
    BY <2>1, CountAssumption
  <2>3. left \in 0 .. CountMod - 1
    BY <2>2, ModRange
  <2>4. QED
    BY <1>0, <1>1, <2>1, <2>3 DEF TypeOK
<1>5. r.pc \in {"delete", "check"}
  BY <1>2
<1>6. TypeOK' /\ Shape'
  BY <1>0, <1>3, <1>4, <1>5, TypesKept DEF TypeOK
<1>7. ASSUME RequestOK(h) PROVE RequestOK(h)'
  <2>1. Lone(h)' /\ handler'[h] = r
    BY <1>0, <1>3, <1>7, StillLone DEF RequestOK
  <2>2. \A s \in Systems : ~Adding(r, s) /\ ~Adding(handler[h], s)
    BY <1>0, <1>2, <1>5 DEF Adding
  <2>3. c \notin connected \/ s0 \notin subs[c]
    BY <1>7 DEF RequestOK, ClientKnown
  <2>4. /\ c \in Counted(handler[h], s0)
        /\ \A s \in Systems : s = s0 => Counted(r, s)' = Counted(handler[h], s) \ {c}
        /\ \A s \in Systems : s # s0 => Counted(r, s)' = Counted(handler[h], s)
    <3>1. c \in Counted(handler[h], s0)
      BY <1>0 DEF Counted
    <3>2. ASSUME NEW s \in Systems, s = s0 PROVE Counted(r, s)' = Counted(handler[h], s) \ {c}
      BY <1>0, <1>2, <1>3, <2>2, <2>3, <3>2 DEF Counted, Adding
    <3>3. ASSUME NEW s \in Systems, s # s0 PROVE Counted(r, s)' = Counted(handler[h], s)
      BY <1>0, <1>2, <1>3, <2>2, <3>3 DEF Counted, Adding
    <3>4. QED
      BY <3>1, <3>2, <3>3
  <2>5. EntryOK(handler[h], s0) /\ s0 \in active
    BY <1>3, <1>7, <2>4 DEF RequestOK, EntryOK
  <2>6. /\ count[s0] = Cardinality(Counted(handler[h], s0)) /\ count[s0] # 0
        /\ Cardinality(Counted(handler[h], s0) \ {c}) = count[s0] - 1 /\ left = count[s0] - 1
    <3>1. Counted(handler[h], s0) \in SUBSET Clients
      BY DEF Counted
    <3>2. count[s0] = Cardinality(Counted(handler[h], s0)) /\ count[s0] < CountMod
      BY <2>5, <3>1, ClientSets DEF EntryOK
    <3>3. count[s0] # 0
      BY <2>4, <3>1, <3>2, ClientSets, FS_EmptySet
    <3>4. Cardinality(Counted(handler[h], s0) \ {c}) = count[s0] - 1
      BY <2>4, <3>1, <3>2, ClientSets, FS_RemoveElement
    <3>5. left = count[s0] - 1
      BY <1>4, <3>2, <3>3, Decrement
    <3>6. QED
      BY <3>2, <3>3, <3>4, <3>5
  <2>7. count'[s0] = left /\ \A s \in Systems : s # s0 => count'[s] = count[s]
    BY <1>0, <1>1, <1>3, <2>5 DEF TypeOK
  <2>8. ClientKnown(r)'
    BY <1>2, <1>3, <1>5, <1>7, <2>2 DEF RequestOK, ClientKnown, Adding
  <2>9. EntryKnown(r)'
    BY <1>2, <1>3, <1>5, <2>5, <2>7 DEF EntryKnown
  <2>10. WorkerOK(r)'
    BY <1>0, <1>3, <1>5, <1>7 DEF RequestOK, WorkerOK, Running
  <2>11. ASSUME NEW s \in Systems PROVE EntryOK(r, s)'
    <3>1. EntryOK(handler[h], s)
      BY <1>7 DEF RequestOK
    <3>2. CASE s = s0
      <4>1. s \in active' /\ count'[s] = Cardinality(Counted(r, s)')
        BY <1>3, <2>4, <2>5, <2>6, <2>7, <3>2
      <4>2. count'[s] = 0 => r.pc = "delete" /\ r.sys = s
        BY <1>2, <2>5, <2>7, <3>2
      <4>3. QED
        BY <4>1, <4>2 DEF EntryOK, Counted, Adding
    <3>3. CASE s # s0
      BY <1>0, <1>3, <2>4, <2>7, <3>1, <3>3 DEF EntryOK
    <3>4. QED
      BY <3>2, <3>3
  <2>12. QED
    BY <2>1, <2>8, <2>9, <2>10, <2>11 DEF RequestOK, ClientKnown, EntryKnown, WorkerOK,
         EntryOK, Counted, Adding
<1>8. QED
  BY <1>0, <1>3, <1>6, <1>7, StepInv

\* The entry that goes has no clients left.
LEMMA DeleteEntryInv ==
  ASSUME RequestInv, NEW h \in Handlers, DeleteEntry(h)
  PROVE  RequestInv'
<1> DEFINE next == [handler[h] EXCEPT !.pc = "check"]
<1>0. /\ TypeOK /\ Shape /\ handler[h].pc = "delete" /\ handler[h] \in HandlerType
      /\ handler[h].sys \in Systems
  BY HandlerFields DEF RequestInv, DeleteEntry
<1>1. PICK r \in HandlerType :
        /\ r = next /\ r.pc = "check" /\ r.client = handler[h].client /\ r.sys = handler[h].sys
        /\ r.add = handler[h].add /\ r.remove = handler[h].remove
  <2>1. /\ next \in HandlerType /\ next.pc = "check" /\ next.client = handler[h].client
        /\ next.sys = handler[h].sys
        /\ next.add = handler[h].add /\ next.remove = handler[h].remove
    BY <1>0 DEF HandlerType
  <2>2. QED
    BY <2>1
<1>2. /\ handler' = [handler EXCEPT ![h] = r] /\ active' = active \ {r.sys}
      /\ UNCHANGED <<connected, subs, overlapped, count, workerRunning, worker>>
  BY <1>1 DEF DeleteEntry, Move, broker
<1>3. TypeOK' /\ Shape'
  BY <1>0, <1>1, <1>2, TypesKept DEF TypeOK
<1>4. ASSUME RequestOK(h) PROVE RequestOK(h)'
  <2>1. Lone(h)' /\ handler'[h] = r
    BY <1>0, <1>2, <1>4, StillLone DEF RequestOK
  <2>2. ClientKnown(r)' /\ EntryKnown(r)'
    BY <1>0, <1>1, <1>2, <1>4 DEF RequestOK, ClientKnown, EntryKnown, Adding
  <2>3. WorkerOK(r)'
    BY <1>0, <1>1, <1>2, <1>4 DEF RequestOK, WorkerOK, Running
  <2>4. \A s \in Systems : Counted(r, s)' = Counted(handler[h], s)
    BY <1>0, <1>1, <1>2 DEF Counted, Adding
  <2>5. ASSUME NEW s \in Systems PROVE EntryOK(r, s)'
    <3>1. EntryOK(handler[h], s)
      BY <1>4 DEF RequestOK
    <3>2. CASE s = r.sys
      <4>1. s \in active /\ count[s] = 0
        BY <1>0, <1>1, <1>4, <3>2 DEF RequestOK, EntryKnown
      <4>2. Counted(handler[h], s) \in SUBSET Clients /\ Cardinality(Counted(handler[h], s)) = 0
        BY <3>1, <4>1 DEF EntryOK, Counted
      <4>3. Counted(handler[h], s) = {}
        BY <4>2, ClientSets, FS_EmptySet
      <4>4. QED
        BY <1>2, <2>4, <3>2, <4>3 DEF EntryOK
    <3>3. CASE s # r.sys
      BY <1>0, <1>1, <1>2, <2>4, <3>1, <3>3 DEF EntryOK
    <3>4. QED
      BY <3>2, <3>3
  <2>6. QED
    BY <2>1, <2>2, <2>3, <2>5 DEF RequestOK, ClientKnown, EntryKnown, WorkerOK, EntryOK,
         Counted, Adding
<1>5. QED
  BY <1>0, <1>2, <1>3, <1>4, StepInv

LEMMA CheckInv ==
  ASSUME RequestInv, NEW h \in Handlers, checkSubscriptions(h)
  PROVE  RequestInv'
<1> DEFINE next == [handler[h] EXCEPT !.pc = IF workerRunning /\ active = {} THEN "stop" ELSE "work"]
<1>0. /\ TypeOK /\ Shape /\ handler[h].pc = "check" /\ handler[h] \in HandlerType
  BY HandlerFields DEF RequestInv, checkSubscriptions
<1>1. PICK r \in HandlerType :
        /\ r = next /\ r.pc = (IF workerRunning /\ active = {} THEN "stop" ELSE "work")
        /\ r.client = handler[h].client /\ r.add = handler[h].add
        /\ r.remove = handler[h].remove
  <2>1. /\ next \in HandlerType /\ next.pc = (IF workerRunning /\ active = {} THEN "stop" ELSE "work")
        /\ next.client = handler[h].client /\ next.add = handler[h].add
        /\ next.remove = handler[h].remove
    BY <1>0 DEF HandlerType
  <2>2. QED
    BY <2>1
<1>2. /\ handler' = [handler EXCEPT ![h] = r]
      /\ UNCHANGED <<connected, subs, overlapped, active, count, workerRunning, worker>>
  BY <1>1 DEF checkSubscriptions, Move, broker, entries
<1>3. r.pc \in {"stop", "work"}
  BY <1>1
<1>4. TypeOK' /\ Shape'
  BY <1>0, <1>2, <1>3, TypesKept DEF TypeOK
<1>5. ASSUME RequestOK(h) PROVE RequestOK(h)'
  <2>1. ClientKnown(r)'
    BY <1>0, <1>1, <1>2, <1>3, <1>5 DEF RequestOK, ClientKnown, Adding
  <2>2. EntryKnown(r)'
    BY <1>1, <1>2, <1>3 DEF EntryKnown
  <2>3. WorkerOK(r)'
    BY <1>0, <1>1, <1>2, <1>5 DEF RequestOK, WorkerOK, Running
  <2>4. \A s \in Systems : Counted(r, s)' = Counted(handler[h], s)
    BY <1>0, <1>1, <1>2, <1>3 DEF Counted, Adding
  <2>5. QED
    BY <1>0, <1>2, <1>5, <2>1, <2>2, <2>3, <2>4, HandlerFrame
<1>6. QED
  BY <1>0, <1>2, <1>4, <1>5, StepInv

\* The worker is stopped when there are no entries.
LEMMA StopWorkerInv ==
  ASSUME RequestInv, NEW h \in Handlers, StopWorker(h)
  PROVE  RequestInv'
<1> DEFINE next == [handler[h] EXCEPT !.pc = "work"]
<1>0. /\ TypeOK /\ Shape /\ handler[h].pc = "stop" /\ handler[h] \in HandlerType
  BY HandlerFields DEF RequestInv, StopWorker
<1>1. PICK r \in HandlerType :
        /\ r = next /\ r.pc = "work" /\ r.client = handler[h].client
        /\ r.add = handler[h].add /\ r.remove = handler[h].remove
  <2>1. /\ next \in HandlerType /\ next.pc = "work" /\ next.client = handler[h].client
        /\ next.add = handler[h].add /\ next.remove = handler[h].remove
    BY <1>0 DEF HandlerType
  <2>2. QED
    BY <2>1
<1>2. /\ handler' = [handler EXCEPT ![h] = r] /\ workerRunning' = FALSE
      /\ UNCHANGED <<connected, subs, overlapped, active, count>>
  BY <1>1 DEF StopWorker, Move, broker, entries
<1>3. worker' \in [Workers -> {"off", "fetch", "ready", "stale"}]
  BY <1>0 DEF TypeOK, StopWorker, Signalled
<1>4. TypeOK' /\ Shape'
  BY <1>0, <1>1, <1>2, <1>3, TypesKept DEF TypeOK
<1>5. ASSUME RequestOK(h) PROVE RequestOK(h)'
  <2>1. ClientKnown(r)' /\ EntryKnown(r)'
    BY <1>0, <1>1, <1>2, <1>5 DEF RequestOK, ClientKnown, EntryKnown, Adding
  <2>2. active = {}
    BY <1>0, <1>5 DEF RequestOK, EntryKnown
  <2>3. WorkerOK(r)'
    BY <1>2, <2>2 DEF WorkerOK
  <2>4. \A s \in Systems : Counted(r, s)' = Counted(handler[h], s)
    BY <1>0, <1>1, <1>2 DEF Counted, Adding
  <2>5. QED
    BY <1>0, <1>1, <1>2, <1>5, <2>1, <2>3, <2>4, HandlerFrame
<1>6. QED
  BY <1>0, <1>2, <1>4, <1>5, StepInv

LEMMA FinishInv ==
  ASSUME RequestInv, NEW h \in Handlers, Finish(h)
  PROVE  RequestInv'
<1>0. /\ TypeOK /\ Shape /\ handler[h].pc = "work" /\ handler[h].add = {} /\ handler[h].remove = {}
      /\ handler[h] \in HandlerType
  BY HandlerFields DEF RequestInv, Finish
<1>1. PICK r \in HandlerType : r = Resting /\ r.pc = "idle" /\ r.add = {} /\ r.remove = {}
  BY RestingType DEF Resting
<1>2. /\ handler' = [handler EXCEPT ![h] = r]
      /\ UNCHANGED <<connected, subs, overlapped, active, count, workerRunning, worker>>
  BY <1>1 DEF Finish, broker, entries
<1>3. TypeOK' /\ Shape'
  BY <1>0, <1>1, <1>2, TypesKept DEF TypeOK
<1>4. ASSUME RequestOK(h) PROVE RequestOK(h)'
  <2>1. ClientKnown(r)' /\ EntryKnown(r)'
    BY <1>1 DEF ClientKnown, EntryKnown, Adding
  <2>2. WorkerOK(r)'
    BY <1>0, <1>2, <1>4 DEF RequestOK, WorkerOK, Running
  <2>3. \A s \in Systems : Counted(r, s)' = Counted(handler[h], s)
    BY <1>0, <1>1, <1>2 DEF Counted, Adding
  <2>4. QED
    BY <1>0, <1>1, <1>2, <1>4, <2>1, <2>2, <2>3, HandlerFrame
<1>5. QED
  BY <1>0, <1>2, <1>3, <1>4, StepInv

----------------------------------------------------------------------------
(* The worker.                                                               *)

\* A worker that is needed goes on.
LEMMA WorkerInv ==
  ASSUME RequestInv, NEW w \in Workers, Fetch(w) \/ Tick(w)
  PROVE  RequestInv'
<1>0. TypeOK /\ Shape
  BY DEF RequestInv
<1>1. /\ UNCHANGED <<connected, subs, overlapped, active, count, handler, workerRunning>>
      /\ worker' \in [Workers -> {"off", "fetch", "ready", "stale"}]
      /\ active # {} /\ Running # {} => Running' # {}
  <2>1. /\ UNCHANGED <<connected, subs, overlapped, active, count, handler, workerRunning>>
        /\ worker' \in [Workers -> {"off", "fetch", "ready", "stale"}]
    BY <1>0 DEF TypeOK, Fetch, Tick, broker, entries
  <2>2. ASSUME active # {} PROVE worker'[w] # "off"
    BY <1>0, <2>2 DEF TypeOK, Fetch, Tick
  <2>3. QED
    BY <2>1, <2>2 DEF Running
<1>2. TypeOK' /\ Shape'
  BY <1>0, <1>1 DEF TypeOK, Shape
<1>3. ASSUME NEW h \in Handlers, RequestOK(h) PROVE RequestOK(h)'
  <2>1. WorkerOK(handler[h])'
    BY <1>1, <1>3 DEF RequestOK, WorkerOK
  <2>2. QED
    BY <1>1, <1>3, <2>1 DEF RequestOK, Lone, ClientKnown, EntryKnown, EntryOK, Counted, Adding
<1>4. QED
  BY <1>1, <1>2, <1>3 DEF RequestInv

----------------------------------------------------------------------------
LEMMA NextRequestInv == RequestInv /\ [Next]_vars => RequestInv'
<1> SUFFICES ASSUME RequestInv, [Next]_vars PROVE RequestInv'
  OBVIOUS
<1>1. CASE \E c \in Clients : Connect(c)
  BY <1>1, ConnectInv
<1>2. CASE \E h \in Handlers, c \in Clients : BeginSubscribe(h, c) \/ Disconnect(h, c)
  BY <1>2, BeginSubscribeInv, DisconnectInv
<1>3. CASE \E h \in Handlers : Handle(h)
  BY <1>3, ApplySubscribeInv, LookInv, InsertInv, CountClientInv, CountNilInv, AddedInv,
     RemoveClientInv, DeleteEntryInv, CheckInv, StopWorkerInv, FinishInv DEF Handle
<1>4. CASE \E w \in Workers : Fetch(w) \/ Tick(w)
  BY <1>4, WorkerInv
<1>5. CASE UNCHANGED vars
  BY <1>5 DEF vars, RequestInv, TypeOK, Shape, RequestOK, Lone, ClientKnown, EntryKnown, WorkerOK,
              Running, EntryOK, Counted, Adding
<1>6. QED
  BY <1>1, <1>2, <1>3, <1>4, <1>5 DEF Next

\* At rest the entries are those of the subscribed.
LEMMA AgreesAtRest == RequestInv => CountsAgree /\ Served
<1> SUFFICES ASSUME RequestInv, Quiet, ~overlapped
             PROVE  /\ \A s \in Systems :
                         IF s \in active THEN count[s] = Cardinality(Subscribed(s)) /\ count[s] # 0
                                         ELSE Subscribed(s) = {}
                    /\ Watched => Running # {}
  BY DEF CountsAgree, Served
<1>1. PICK h \in Handlers : RequestOK(h)
  BY DEF RequestInv
<1>2. TypeOK /\ Shape /\ handler[h].pc = "idle"
  BY DEF RequestInv, Quiet
<1>3. \A s \in Systems : Counted(handler[h], s) = Subscribed(s)
  <2>1. \A s \in Systems : Counted(handler[h], s) = {d \in Clients : d \in connected /\ s \in subs[d]}
    BY <1>2, RestCounts
  <2>2. connected \in SUBSET Clients
    BY <1>2 DEF TypeOK
  <2>3. QED
    BY <2>1, <2>2 DEF Subscribed
<1>4. \A s \in Systems :
        IF s \in active THEN count[s] = Cardinality(Subscribed(s)) /\ count[s] # 0
                        ELSE Subscribed(s) = {}
  BY <1>1, <1>2, <1>3 DEF RequestOK, EntryOK
<1>5. Watched => Running # {}
  BY <1>1, <1>2, <1>4 DEF Watched, RequestOK, WorkerOK
<1>6. QED
  BY <1>4, <1>5

\* The counters and the worker's variables stay in their ranges.
THEOREM TypeCorrect == Spec => []TypeOK
<1>1. RequestInv => TypeOK
  BY DEF RequestInv
<1>2. QED
  BY <1>1, InitRequestInv, NextRequestInv, PTL DEF Spec

\* activeSubscriptions agrees with the broker when the requests came one after the other,
\* with fewer browsers than its counters can count.
THEOREM EntriesAgree == Spec => []CountsAgree
<1>1. RequestInv => CountsAgree
  BY AgreesAtRest
<1>2. QED
  BY <1>1, InitRequestInv, NextRequestInv, PTL DEF Spec

\* Under the same condition a worker runs whenever somebody is subscribed.
THEOREM SubscribersServed == Spec => []Served
<1>1. RequestInv => Served
  BY AgreesAtRest
<1>2. QED
  BY <1>1, InitRequestInv, NextRequestInv, PTL DEF Spec
=============================================================================

------------------------------ MODULE Realtime ------------------------------
(* The realtime worker of the hub: browsers subscribe to the live metrics of *)
(* systems, request handlers count the subscriptions, and a worker fetches   *)
(* data every second while there are any.  The counters are shared without a *)
(* lock; realtimeMutex covers the start and the stop of the worker only.     *)
(* One access to the shared map, or one critical section, is one step.       *)
EXTENDS Integers, FiniteSets

CONSTANTS
  Clients,    \* browsers
  Systems,    \* systems one can subscribe to
  Handlers,   \* request handlers that run at the same time, at most
  Workers,    \* worker goroutines alive at the same time, at most
  CountMod    \* connectedClients is counted modulo this (256, a uint8)

ASSUME CountAssumption == CountMod \in Nat \ {0, 1}
ASSUME SomeAssumption == Clients # {} /\ Systems # {} /\ Handlers # {}
\* Bound: fewer browsers than the counter can count.
ASSUME ClientsAssumption == IsFiniteSet(Clients) /\ Cardinality(Clients) < CountMod

VARIABLES
  connected,      \* clients with an open event stream
  subs,           \* subs[c]: subscriptions of c in PocketBase's broker
  active,         \* keys of activeSubscriptions
  count,          \* connectedClients of each entry
  handler,        \* the request handlers
  overlapped,     \* a request has begun while another was under way (history)
  workerRunning,
  worker          \* worker[w]: "off"; "fetch"; in its select on the present
                  \* tickerStopChan ("ready") or on an older one ("stale")

vars == <<connected, subs, active, count, handler, overlapped, workerRunning, worker>>
entries == <<active, count>>
broker == <<connected, subs, overlapped>>

HandlerType ==
  [pc : {"idle", "apply", "work", "insert", "count", "added", "delete", "check", "stop"},
   client : Clients,
   sys : Systems,              \* the entry at hand
   old : SUBSET Systems,       \* subscriptions before the request
   add : SUBSET Systems,       \* subscriptions still to count
   remove : SUBSET Systems]    \* unsubscriptions still to count

\* The variables stay in their ranges.
TypeOK ==
  /\ connected \in SUBSET Clients
  /\ subs \in [Clients -> SUBSET Systems]
  /\ active \in SUBSET Systems
  /\ count \in [Systems -> 0 .. CountMod - 1]
  /\ handler \in [Handlers -> HandlerType]
  /\ overlapped \in BOOLEAN /\ workerRunning \in BOOLEAN
  /\ worker \in [Workers -> {"off", "fetch", "ready", "stale"}]

\* A handler between requests; its client and system mean nothing.
Resting == [pc |-> "idle", client |-> CHOOSE c \in Clients : TRUE,
            sys |-> CHOOSE s \in Systems : TRUE, old |-> {}, add |-> {}, remove |-> {}]

Init ==
  /\ connected = {}
  /\ subs = [c \in Clients |-> {}]
  /\ active = {}
  /\ count = [s \in Systems |-> 0]
  /\ handler = [h \in Handlers |-> Resting]
  /\ overlapped = FALSE /\ workerRunning = FALSE
  /\ worker = [w \in Workers |-> "off"]

----------------------------------------------------------------------------
(* Requests.                                                                 *)

Busy(c) == \E h \in Handlers : handler[h].pc # "idle" /\ handler[h].client = c
Quiet == \A h \in Handlers : handler[h].pc = "idle"

Move(h, pc) == handler' = [handler EXCEPT ![h].pc = pc]

\* A browser opens its event stream: PocketBase makes a new client for it.
Connect(c) ==
  /\ c \notin connected
  /\ ~Busy(c)
  /\ connected' = connected \cup {c}
  /\ subs' = [subs EXCEPT ![c] = {}]
  /\ UNCHANGED <<entries, handler, overlapped, workerRunning, worker>>

\* onRealtimeSubscribeRequest: the subscriptions before the request.
BeginSubscribe(h, c) ==
  /\ handler[h].pc = "idle"
  /\ overlapped' = (overlapped \/ ~Quiet)
  /\ c \in connected
  /\ handler' = [handler EXCEPT ![h].pc = "apply", ![h].client = c, ![h].old = subs[c]]
  /\ UNCHANGED <<connected, subs, entries, workerRunning, worker>>

\* e.Next: the request replaces the client's subscriptions, or fails and keeps them.
ApplySubscribe(h) ==
  /\ handler[h].pc = "apply"
  /\ \E new \in SUBSET Systems :
       /\ subs' = [subs EXCEPT ![handler[h].client] = new]
       /\ handler' = [handler EXCEPT ![h].pc = "work",
                                     ![h].old = {},
                                     ![h].add = new \ handler[h].old,
                                     ![h].remove = handler[h].old \ new]
  /\ UNCHANGED <<connected, overlapped, entries, workerRunning, worker>>

\* onRealtimeConnectRequest after e.Next: the event stream has ended.
Disconnect(h, c) ==
  /\ handler[h].pc = "idle"
  /\ overlapped' = (overlapped \/ ~Quiet)
  /\ c \in connected
  /\ connected' = connected \ {c}
  /\ handler' = [handler EXCEPT ![h].pc = "work", ![h].client = c, ![h].remove = subs[c]]
  /\ UNCHANGED <<subs, entries, workerRunning, worker>>

\* A new subscription: is there an entry for its system?
Look(h) ==
  /\ handler[h].pc = "work"
  /\ \E s \in handler[h].add :
       handler' = [handler EXCEPT ![h].pc = IF s \in active THEN "count" ELSE "insert",
                                  ![h].sys = s,
                                  ![h].add = @ \ {s}]
  /\ UNCHANGED <<broker, entries, workerRunning, worker>>

\* No: a new one, without clients, replaces what may be there by now.
Insert(h) ==
  /\ handler[h].pc = "insert"
  /\ active' = active \cup {handler[h].sys}
  /\ count' = [count EXCEPT ![handler[h].sys] = 0]
  /\ Move(h, "count")
  /\ UNCHANGED <<broker, workerRunning, worker>>

CountClient(h) ==
  /\ handler[h].pc = "count"
  /\ handler[h].sys \in active
  /\ count' = [count EXCEPT ![handler[h].sys] = (@ + 1) % CountMod]
  /\ Move(h, "added")
  /\ UNCHANGED <<broker, active, workerRunning, worker>>

\* The entry was deleted meanwhile: a nil dereference, which ends the request.
CountNil(h) ==
  /\ handler[h].pc = "count"
  /\ handler[h].sys \notin active
  /\ handler' = [handler EXCEPT ![h] = Resting]
  /\ UNCHANGED <<broker, entries, workerRunning, worker>>

\* A worker is started with a stop channel of its own; the selects that are under way
\* keep the channel they evaluated.
Restarted(w) ==
  [v \in Workers |-> IF v = w THEN "fetch"
                     ELSE IF worker[v] = "ready" THEN "stale" ELSE worker[v]]

onRealtimeSubscriptionAdded(h) ==
  /\ handler[h].pc = "added"
  /\ workerRunning' = TRUE
  /\ IF workerRunning THEN UNCHANGED worker
     ELSE \E w \in Workers : worker[w] = "off" /\ worker' = Restarted(w)
  /\ Move(h, "work")
  /\ UNCHANGED <<broker, entries>>

\* Mutant: a signed counter, and an unsubscription that counts for two.
RemoveClientTwice(h) ==
  /\ handler[h].pc = "work"
  /\ handler[h].add = {}
  /\ \E s \in handler[h].remove :
       /\ count' = IF s \in active THEN [count EXCEPT ![s] = @ - 2] ELSE count
       /\ handler' = [handler EXCEPT
            ![h].pc = IF s \in active /\ count[s] <= 2 THEN "delete" ELSE "check",
            ![h].sys = s,
            ![h].remove = @ \ {s}]
  /\ UNCHANGED <<broker, active, workerRunning, worker>>

\* Mutant: the entry goes with the first client that leaves.
RemoveClientAlways(h) ==
  /\ handler[h].pc = "work"
  /\ handler[h].add = {}
  /\ \E s \in handler[h].remove :
       handler' = [handler EXCEPT ![h].pc = IF s \in active THEN "delete" ELSE "check",
                                  ![h].sys = s,
                                  ![h].remove = @ \ {s}]
  /\ UNCHANGED <<broker, entries, workerRunning, worker>>

\* removeRealtimeSubscription, after the new subscriptions are counted.
RemoveClient(h) ==
  /\ handler[h].pc = "work"
  /\ handler[h].add = {}
  /\ \E s \in handler[h].remove :
       LET left == (count[s] + CountMod - 1) % CountMod IN
       /\ count' = IF s \in active THEN [count EXCEPT ![s] = left] ELSE count
       /\ handler' = [handler EXCEPT
            ![h].pc = IF s \in active /\ left = 0 THEN "delete" ELSE "check",
            ![h].sys = s,
            ![h].remove = @ \ {s}]
  /\ UNCHANGED <<broker, active, workerRunning, worker>>

DeleteEntry(h) ==
  /\ handler[h].pc = "delete"
  /\ active' = active \ {handler[h].sys}
  /\ Move(h, "check")
  /\ UNCHANGED <<broker, count, workerRunning, worker>>

\* checkSubscriptions looks before it takes the lock.
checkSubscriptions(h) ==
  /\ handler[h].pc = "check"
  /\ Move(h, IF workerRunning /\ active = {} THEN "stop" ELSE "work")
  /\ UNCHANGED <<broker, entries, workerRunning, worker>>

\* The stop signal reaches a worker only if one is waiting for it.
Signalled ==
  LET waiting == {w \in Workers : worker[w] = "ready"} IN
  IF waiting = {} THEN UNCHANGED worker
  ELSE \E w \in waiting : worker' = [worker EXCEPT ![w] = "off"]

\* Mutant: workerRunning is not reset.
StopWorkerFlagKept(h) ==
  /\ handler[h].pc = "stop"
  /\ Signalled
  /\ Move(h, "work")
  /\ UNCHANGED <<broker, entries, workerRunning>>

StopWorker(h) ==
  /\ handler[h].pc = "stop"
  /\ Signalled
  /\ workerRunning' = FALSE
  /\ Move(h, "work")
  /\ UNCHANGED <<broker, entries>>

Finish(h) ==
  /\ handler[h].pc = "work"
  /\ handler[h].add = {} /\ handler[h].remove = {}
  /\ handler' = [handler EXCEPT ![h] = Resting]
  /\ UNCHANGED <<broker, entries, workerRunning, worker>>

----------------------------------------------------------------------------
(* The worker.                                                               *)

\* fetchRealtimeDataAndNotify, then the select, on the channel there is by now.
Fetch(w) ==
  /\ worker[w] = "fetch"
  /\ worker' = [worker EXCEPT ![w] = "ready"]
  /\ UNCHANGED <<broker, entries, handler, workerRunning>>

\* Mutant: the worker does not look whether there are subscriptions.
TickAlways(w) ==
  /\ worker[w] \in {"ready", "stale"}
  /\ worker' = [worker EXCEPT ![w] = "fetch"]
  /\ UNCHANGED <<broker, entries, handler, workerRunning>>

\* The worker that finds no subscription on a tick ends, and tells nobody.
Tick(w) ==
  /\ worker[w] \in {"ready", "stale"}
  /\ worker' = [worker EXCEPT ![w] = IF active = {} THEN "off" ELSE "fetch"]
  /\ UNCHANGED <<broker, entries, handler, workerRunning>>

Handle(h) ==
  \/ ApplySubscribe(h) \/ Look(h) \/ Insert(h) \/ CountClient(h) \/ CountNil(h)
  \/ onRealtimeSubscriptionAdded(h)
  \/ RemoveClient(h) \/ DeleteEntry(h) \/ checkSubscriptions(h) \/ StopWorker(h)
  \/ Finish(h)

Next ==
  \/ \E c \in Clients : Connect(c)
  \/ \E h \in Handlers, c \in Clients : BeginSubscribe(h, c) \/ Disconnect(h, c)
  \/ \E h \in Handlers : Handle(h)
  \/ \E w \in Workers : Fetch(w) \/ Tick(w)

\* Handlers and workers go on; browsers need not.
Fairness ==
  /\ \A h \in Handlers : WF_vars(Handle(h))
  /\ \A w \in Workers : WF_vars(Fetch(w) \/ Tick(w))

Spec == Init /\ [][Next]_vars /\ Fairness

----------------------------------------------------------------------------
(* Properties.                                                               *)

Subscribed(s) == {c \in connected : s \in subs[c]}
Running == {w \in Workers : worker[w] # "off"}

\* As long as requests have come one after the other: when none is under way, a system
\* that somebody watches has an entry with the number of its watchers, and a system
\* nobody watches has none.
CountsAgree ==
  Quiet /\ ~overlapped => \A s \in Systems :
    IF s \in active THEN count[s] = Cardinality(Subscribed(s)) /\ count[s] # 0
                    ELSE Subscribed(s) = {}

Watched == \E s \in Systems : Subscribed(s) # {}

\* As long as requests have come one after the other: when none is under way and
\* somebody is subscribed, a worker is running, although workers end by themselves,
\* leave workerRunning set, and miss stop signals.
Served == Quiet /\ ~overlapped /\ Watched => Running # {}

\* When there are no entries the workers end, also those that missed the stop signal
\* or wait on the channel of another worker.
WorkersEnd == active = {} ~> (Running = {} \/ active # {})
=============================================================================

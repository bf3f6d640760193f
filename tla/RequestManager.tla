--------------------------- MODULE RequestManager ---------------------------
(* The hub's RequestManager of one WebSocket connection, with the goroutines *)
(* that use it: callers (updaters, realtime workers, API handlers), the read *)
(* loop of the connection, a cleanup watcher per request, and whoever closes *)
(* the connection.  A request is known by its id, which is used once; a step *)
(* is one access to what the goroutines share.                               *)
EXTENDS Naturals, Sequences

CONSTANTS
  Callers,      \* goroutines that send requests
  MaxId,        \* bound on nextID: requests sent over one connection
  LegacyAgent   \* the agent's answers carry no id

ASSUME MaxIdAssumption == MaxId \in Nat
ASSUME LegacyAssumption == LegacyAgent \in BOOLEAN

Ids == 1 .. MaxId
NoId == 0
SomeId == 0 .. MaxId

VARIABLES
  nextID,    \* rm.nextID
  caller,    \* caller[c]: where the call stands, its request, and the request whose
             \* answer the last call returned (NoId: it failed, or has not ended)
  pending,   \* keys of rm.pendingReqs; ids grow with CreatedAt
  slot,      \* slot[i]: the message in ResponseCh of request i, as the request
             \* it answers; NoId when the channel is empty
  live,      \* requests whose context is not done
  watch,     \* requests with a cleanupRequest goroutine
  conn,      \* "open", "closing" (close frame written), "gone" (after OnClose)
  closing,   \* a WsConn.Close is between WriteClose and requestManager.Close
  toAgent,   \* requests on their way to the agent
  toHub,     \* answers on their way to the hub
  reader,    \* the read loop inside handleResponse: the request it looked up
             \* and the request the message answers
  served     \* requests the agent carried out

vars == <<nextID, caller, pending, slot, live, watch, conn, closing, toAgent,
          toHub, reader, served>>
wire == <<conn, closing, toAgent, toHub, served>>

CallerType == [pc : {"idle", "send", "wait"}, id : SomeId, got : SomeId]
ReaderType == [pc : {"idle", "deliver", "delete"}, id : SomeId, for : SomeId]
Message == [id : SomeId, for : Ids]

\* The variables stay in their ranges; a caller inside a call and a read loop
\* inside handleResponse have a request.
TypeOK ==
  /\ nextID \in SomeId
  /\ caller \in [Callers -> CallerType]
  /\ \A c \in Callers : caller[c].pc = "idle" <=> caller[c].id = NoId
  /\ pending \in SUBSET Ids
  /\ slot \in [Ids -> SomeId]
  /\ live \in SUBSET Ids
  /\ watch \in SUBSET Ids
  /\ conn \in {"open", "closing", "gone"}
  /\ closing \in BOOLEAN
  /\ toAgent \in Seq(Ids)
  /\ toHub \in Seq(Message)
  /\ reader \in ReaderType
  /\ reader.pc # "idle" => reader.id \in Ids /\ reader.for \in Ids
  /\ served \in SUBSET Ids

Idle == [pc |-> "idle", id |-> NoId, for |-> NoId]

Init ==
  /\ nextID = 0
  /\ caller = [c \in Callers |-> [pc |-> "idle", id |-> NoId, got |-> NoId]]
  /\ pending = {}
  /\ slot = [i \in Ids |-> NoId]
  /\ live = {}
  /\ watch = {}
  /\ conn = "open"
  /\ closing = FALSE
  /\ toAgent = <<>>
  /\ toHub = <<>>
  /\ reader = Idle
  /\ served = {}

----------------------------------------------------------------------------
(* A call: WebSocketTransport.Request, ContainerAction.                      *)

\* c's call ends with the answer to request r, or fails (NoId).
End(c, r) == caller' = [caller EXCEPT ![c] = [pc |-> "idle", id |-> NoId, got |-> r]]

\* cancelRequest: only a request that is still in the map is cancelled.
cancelRequest(i) ==
  /\ pending' = pending \ {i}
  /\ live' = IF i \in pending THEN live \ {i} ELSE live

\* The transport finds the connection gone.
Refuse(c) ==
  /\ caller[c].pc = "idle"
  /\ conn = "gone"
  /\ End(c, NoId)
  /\ UNCHANGED <<nextID, pending, slot, live, watch, reader, wire>>

\* Mutant: the id is read before the counter is advanced, so the first one is zero.
CreateRequestFromZero(c) ==
  /\ caller[c].pc = "idle"
  /\ nextID < MaxId
  /\ nextID' = nextID + 1
  /\ caller' = [caller EXCEPT ![c] = [pc |-> "send", id |-> nextID, got |-> NoId]]
  /\ pending' = pending \cup {nextID}
  /\ live' = live \cup {nextID}
  /\ UNCHANGED <<slot, watch, reader, wire>>

\* SendRequest up to the insertion in the map.  The connection was not gone when the
\* transport looked, which may be long ago.
CreateRequest(c) ==
  /\ caller[c].pc = "idle"
  /\ nextID < MaxId
  /\ nextID' = nextID + 1
  /\ caller' = [caller EXCEPT ![c] = [pc |-> "send", id |-> nextID + 1, got |-> NoId]]
  /\ pending' = pending \cup {nextID + 1}
  /\ live' = live \cup {nextID + 1}
  /\ UNCHANGED <<slot, watch, reader, wire>>

\* Mutant: no watcher is started.
SendUnwatched(c) ==
  /\ caller[c].pc = "send"
  /\ conn = "open"
  /\ toAgent' = Append(toAgent, caller[c].id)
  /\ caller' = [caller EXCEPT ![c].pc = "wait"]
  /\ UNCHANGED <<nextID, pending, slot, live, watch, conn, closing, toHub, reader, served>>

\* The message is written and the watcher started.
Send(c) ==
  /\ caller[c].pc = "send"
  /\ conn = "open"
  /\ toAgent' = Append(toAgent, caller[c].id)
  /\ watch' = watch \cup {caller[c].id}
  /\ caller' = [caller EXCEPT ![c].pc = "wait"]
  /\ UNCHANGED <<nextID, pending, slot, live, conn, closing, toHub, reader, served>>

\* The write fails: on a connection closed by either side, and at any time.
SendErr(c) ==
  /\ caller[c].pc = "send"
  /\ cancelRequest(caller[c].id)
  /\ End(c, NoId)
  /\ UNCHANGED <<nextID, slot, watch, reader, wire>>

\* Mutant: the deferred Cancel is missing.
TakeAnswerUncancelled(c) ==
  /\ caller[c].pc = "wait"
  /\ slot[caller[c].id] # NoId
  /\ slot' = [slot EXCEPT ![caller[c].id] = NoId]
  /\ End(c, slot[caller[c].id])
  /\ UNCHANGED <<nextID, pending, live, watch, reader, wire>>

\* The waiter's select takes the message, and cancels the context when it returns.
TakeAnswer(c) ==
  /\ caller[c].pc = "wait"
  /\ slot[caller[c].id] # NoId
  /\ slot' = [slot EXCEPT ![caller[c].id] = NoId]
  /\ live' = live \ {caller[c].id}
  /\ End(c, slot[caller[c].id])
  /\ UNCHANGED <<nextID, pending, watch, reader, wire>>

\* Mutant: the waiter gives up only while its request is still in the map.
GiveUpPending(c) ==
  /\ caller[c].pc = "wait"
  /\ caller[c].id \in pending \ live
  /\ End(c, NoId)
  /\ UNCHANGED <<nextID, pending, slot, live, watch, reader, wire>>

\* The waiter's select takes ctx.Done, also when there is a message.
GiveUp(c) ==
  /\ caller[c].pc = "wait"
  /\ caller[c].id \notin live
  /\ End(c, NoId)
  /\ UNCHANGED <<nextID, pending, slot, live, watch, reader, wire>>

\* The deadline of the request's context, its own or its caller's.
Expire(i) ==
  /\ i \in live
  /\ live' = live \ {i}
  /\ UNCHANGED <<nextID, caller, pending, slot, watch, reader, wire>>

\* Mutant: the watcher ends without taking the request out of the map.
cleanupRequestKept(i) ==
  /\ i \in watch \ live
  /\ watch' = watch \ {i}
  /\ UNCHANGED <<nextID, caller, pending, live, slot, reader, wire>>

\* The watcher wakes up when the context is done.
cleanupRequest(i) ==
  /\ i \in watch \ live
  /\ cancelRequest(i)
  /\ watch' = watch \ {i}
  /\ UNCHANGED <<nextID, caller, slot, reader, wire>>

----------------------------------------------------------------------------
(* The read loop: OnMessage and handleResponse.                              *)

\* The oldest pending request, if there is one.
Oldest == {i \in pending : \A j \in pending : i <= j}

\* Mutant: every answer goes to the oldest request, whatever its id.
LookupOldest(m) == Oldest

\* The requests an answer may be routed to: at most one.
Lookup(m) == IF m.id = NoId THEN Oldest ELSE pending \cap {m.id}

\* The look-up finds a request.  The lock is released before the message is delivered.
Receive ==
  /\ reader.pc = "idle"
  /\ toHub # <<>>
  /\ \E i \in Lookup(Head(toHub)) :
       reader' = [pc |-> "deliver", id |-> i, for |-> Head(toHub).for]
  /\ toHub' = Tail(toHub)
  /\ UNCHANGED <<nextID, caller, pending, slot, live, watch, conn, closing,
                 toAgent, served>>

\* Nobody waits for this answer: the message is closed.
ReceiveUnknown ==
  /\ reader.pc = "idle"
  /\ toHub # <<>>
  /\ Lookup(Head(toHub)) = {}
  /\ toHub' = Tail(toHub)
  /\ UNCHANGED <<nextID, caller, pending, slot, live, watch, reader, conn,
                 closing, toAgent, served>>

\* The channel has room for one message.
Deliver ==
  /\ reader.pc = "deliver"
  /\ slot[reader.id] = NoId
  /\ slot' = [slot EXCEPT ![reader.id] = reader.for]
  /\ reader' = [reader EXCEPT !.pc = "delete"]
  /\ UNCHANGED <<nextID, caller, pending, live, watch, wire>>

\* The select takes ctx.Done and closes the message; the watcher empties the map.
Discard ==
  /\ reader.pc = "deliver"
  /\ reader.id \notin live
  /\ reader' = Idle
  /\ UNCHANGED <<nextID, caller, pending, slot, live, watch, wire>>

deleteRequest ==
  /\ reader.pc = "delete"
  /\ pending' = pending \ {reader.id}
  /\ reader' = Idle
  /\ UNCHANGED <<nextID, caller, slot, live, watch, wire>>

----------------------------------------------------------------------------
(* The connection and the agent.                                             *)

\* WsConn.Close, of a connection in any state and as often as it is called.
WriteClose ==
  /\ ~closing
  /\ closing' = TRUE
  /\ conn' = IF conn = "open" THEN "closing" ELSE conn
  /\ UNCHANGED <<nextID, caller, pending, slot, live, watch, reader, toAgent,
                 toHub, served>>

\* Mutant: Close replaces the map without cancelling what was in it.
CloseUncancelled ==
  /\ closing
  /\ closing' = FALSE
  /\ pending' = {}
  /\ UNCHANGED <<nextID, caller, slot, live, watch, reader, conn, toAgent, toHub, served>>

\* RequestManager.Close.
Close ==
  /\ closing
  /\ closing' = FALSE
  /\ live' = live \ pending
  /\ pending' = {}
  /\ UNCHANGED <<nextID, caller, slot, watch, reader, conn, toAgent, toHub, served>>

\* The read loop ends; answers it has not read are lost.  The RequestManager is not told.
OnClose ==
  /\ conn # "gone"
  /\ reader.pc = "idle"
  /\ conn' = "gone"
  /\ toHub' = <<>>
  /\ UNCHANGED <<nextID, caller, pending, slot, live, watch, reader, closing,
                 toAgent, served>>

\* The agent carries a request out, one at a time, and writes its answer.
AgentAnswer ==
  /\ toAgent # <<>>
  /\ toAgent' = Tail(toAgent)
  /\ served' = served \cup {Head(toAgent)}
  /\ toHub' = IF conn = "gone" THEN toHub
              ELSE Append(toHub, [id |-> IF LegacyAgent THEN NoId ELSE Head(toAgent),
                                  for |-> Head(toAgent)])
  /\ UNCHANGED <<nextID, caller, pending, slot, live, watch, reader, conn, closing>>

\* The agent carries a request out, but its answer is not written or is lost.
AgentSilent ==
  /\ toAgent # <<>>
  /\ toAgent' = Tail(toAgent)
  /\ served' = served \cup {Head(toAgent)}
  /\ UNCHANGED <<nextID, caller, pending, slot, live, watch, reader, conn, closing,
                 toHub>>

\* The request is refused without an answer (its handler returns an error), or
\* lost with the connection.
AgentIgnore ==
  /\ toAgent # <<>>
  /\ toAgent' = Tail(toAgent)
  /\ UNCHANGED <<nextID, caller, pending, slot, live, watch, reader, conn, closing,
                 toHub, served>>

----------------------------------------------------------------------------
Request(c) == CreateRequest(c) \/ Send(c) \/ SendErr(c) \/ TakeAnswer(c) \/ GiveUp(c)

handleResponse == Receive \/ ReceiveUnknown \/ Deliver \/ Discard \/ deleteRequest

Agent == AgentAnswer \/ AgentSilent \/ AgentIgnore

Next ==
  \/ \E c \in Callers : Refuse(c) \/ Request(c)
  \/ \E i \in Ids : Expire(i) \/ cleanupRequest(i)
  \/ handleResponse
  \/ WriteClose \/ Close \/ OnClose
  \/ Agent

\* Goroutines that can go on do, and deadlines pass.  Nobody has to make a call, close
\* the connection, or answer.
Fairness ==
  /\ \A c \in Callers : /\ WF_vars(Send(c) \/ SendErr(c))
                        /\ WF_vars(TakeAnswer(c) \/ GiveUp(c))
  /\ \A i \in Ids : WF_vars(Expire(i)) /\ WF_vars(cleanupRequest(i))
  /\ WF_vars(handleResponse)
  /\ WF_vars(Close)

Spec == Init /\ [][Next]_vars /\ Fairness

----------------------------------------------------------------------------
(* Properties.                                                               *)

Waits(i) == \E c \in Callers : caller[c].id = i

\* The read loop never blocks on a full ResponseCh: when handleResponse is about to
\* deliver a message the channel is empty.  A blocked read loop would stop every
\* other request of the connection, the deadline of the connection and OnClose.
ReaderNotStuck == reader.pc = "deliver" => slot[reader.id] = NoId

\* A caller that waits has its request in the map, or its message in the channel, or
\* a context that is done: an answer is never taken by the map and lost on its way,
\* and Close forgets no request without waking its caller.
NobodyForgotten ==
  \A c \in Callers : caller[c].pc = "wait" =>
    LET i == caller[c].id IN i \in pending \/ slot[i] # NoId \/ i \notin live

\* Every entry of pendingReqs has somebody who will remove it: its cleanup watcher, or
\* the caller that has not sent it yet and either starts the watcher or cancels it.
PendingIsWatched ==
  \A i \in pending : i \in watch \/ \E c \in Callers : caller[c].id = i /\ caller[c].pc = "send"

\* A context nobody waits on any more has been cancelled, so no watcher or timer
\* outlives the call (the reason for the deferred Cancel in Request).
ContextsEnd == \A i \in live : Waits(i)

\* Every call ends, though the agent may never answer, answers may be lost, and
\* OnClose tells the RequestManager nothing.
CallEnds == \A c \in Callers : caller[c].pc # "idle" ~> caller[c].pc = "idle"

\* Every request leaves pendingReqs and its watcher ends.
Drained == \A i \in Ids : i \in pending \cup watch ~> i \notin pending \cup watch

\* With an agent that echoes ids the transport is the RequestReply that its callers
\* rely on: an answer belongs to the call that returns it.
Reply == INSTANCE RequestReply WITH
  Requests <- Ids,
  NoRequest <- NoId,
  mine <- [c \in Callers |-> caller[c].id],
  answer <- [c \in Callers |-> caller[c].got],
  made <- 1 .. nextID

ReplySpec == Reply!Spec
=============================================================================

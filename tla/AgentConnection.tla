-------------------------- MODULE AgentConnection --------------------------
(* The agent's connection manager and WebSocket client: the event loop, the  *)
(* connect goroutines it starts, and the read loop of each connection, which *)
(* answers the hub and reports to the event loop over a channel of one       *)
(* event.  None of the fields they share has a lock; a step is one access.   *)
(* Time is what the code asks of it: whether the last attempt is less than   *)
(* five seconds old.  HUB_URL and a token are set; EXIT_ON_DNS_ERROR is not. *)
EXTENDS Naturals, Sequences

CONSTANTS
  Main,        \* the goroutine of Start
  Connectors,  \* connect goroutines alive at the same time
  Conns,       \* connections alive at the same time
  NoConn

ASSUME MainAssumption == Main \notin Connectors
ASSUME NoConnAssumption == NoConn \notin Conns

Threads == {Main} \cup Connectors

VARIABLES
  state,         \* ConnectionManager.State is WebSocketConnected
  isConnecting,
  ticker,        \* wsTicker runs
  events,        \* eventChan
  recent,        \* lastConnectAttempt is less than 5 s ago
  client,        \* WebSocketClient.Conn
  hubVerified,
  thr,           \* goroutines inside connect or startWebSocketConnection
  conn           \* connections and their read loops

vars == <<state, isConnecting, ticker, events, recent, client, hubVerified, thr, conn>>
manager == <<state, isConnecting, ticker>>

\* "rise": the sleep may be over; "look": the state is Disconnected; "attempt": and the
\* last attempt is not recent; "drop": the dial failed; "failed": back from startWebSocketConnection with an error; "tried": and the
\* state was Disconnected; "done": the deferred reset is left.  Then the event loop, and
\* its way through handleStateChange.
ThreadType == [pc : {"off", "begin", "sleep", "rise", "try", "look", "attempt", "dial",
                     "drop", "failed", "tried", "done",
                     "loop", "connected", "stopped", "lost", "claimed"},
               tick : BOOLEAN]   \* called by the ticker branch of the loop
\* sock: "dead" after WriteClose or a loss, until OnClose has returned.
ConnType == [sock : {"free", "open", "dead"},
             reader : {"read", "connect", "serve", "close"},
             asked : BOOLEAN]    \* the challenge has arrived

\* The variables stay in their ranges.
TypeOK ==
  /\ state \in BOOLEAN /\ isConnecting \in BOOLEAN /\ ticker \in BOOLEAN
  /\ events \in {<<>>, <<"connect">>, <<"disconnect">>}
  /\ recent \in BOOLEAN /\ hubVerified \in BOOLEAN
  /\ client \in Conns \cup {NoConn}
  /\ thr \in [Threads -> ThreadType]
  /\ conn \in [Conns -> ConnType]

Free == [sock |-> "free", reader |-> "read", asked |-> FALSE]
Off == [pc |-> "off", tick |-> FALSE]

\* Start: the ticker runs, and connect is called in place.
Init ==
  /\ state = FALSE /\ isConnecting = FALSE /\ ticker = TRUE
  /\ events = <<>> /\ recent = FALSE /\ client = NoConn /\ hubVerified = FALSE
  /\ thr = [t \in Threads |-> IF t = Main THEN [Off EXCEPT !.pc = "begin"] ELSE Off]
  /\ conn = [c \in Conns |-> Free]

----------------------------------------------------------------------------
(* connect and startWebSocketConnection.                                     *)

To(t, pc) == thr' = [thr EXCEPT ![t].pc = pc]

\* WebSocketClient.Close: WriteClose on the connection the client holds.
Closed(cs) ==
  [c \in Conns |-> IF c \in cs /\ conn[c].sock = "open" THEN [conn[c] EXCEPT !.sock = "dead"]
                   ELSE conn[c]]

\* Five seconds pass.
Cool ==
  /\ recent
  /\ recent' = FALSE
  /\ thr' = [t \in Threads |-> IF thr[t].pc = "sleep" THEN [thr[t] EXCEPT !.pc = "rise"] ELSE thr[t]]
  /\ UNCHANGED <<manager, events, client, hubVerified, conn>>

Connect(t) ==
  /\ thr[t].pc = "begin"
  /\ isConnecting' = TRUE
  /\ To(t, IF recent THEN "sleep" ELSE "try")
  /\ UNCHANGED <<state, ticker, events, recent, client, hubVerified, conn>>

Wake(t) ==
  /\ thr[t].pc = "rise"
  /\ To(t, "try")
  /\ UNCHANGED <<manager, events, recent, client, hubVerified, conn>>

\* startWebSocketConnection refuses when the agent is connected ...
CheckState(t) ==
  /\ thr[t].pc = "try"
  /\ To(t, IF state THEN "failed" ELSE "look")
  /\ UNCHANGED <<manager, events, recent, client, hubVerified, conn>>

\* ... and when it tried a moment ago.
Check(t) ==
  /\ thr[t].pc = "look"
  /\ To(t, IF recent THEN "failed" ELSE "attempt")
  /\ UNCHANGED <<manager, events, recent, client, hubVerified, conn>>

\* WebSocketClient.Connect up to the dial.  Who sleeps since an older attempt may wake
\* while this one is recent.
Dial(t) ==
  /\ thr[t].pc = "attempt"
  /\ recent' = TRUE
  /\ conn' = Closed({client})
  /\ thr' = [u \in Threads |-> IF u = t THEN [thr[t] EXCEPT !.pc = "dial"]
                               ELSE IF thr[u].pc = "sleep" THEN [thr[u] EXCEPT !.pc = "rise"]
                               ELSE thr[u]]
  /\ UNCHANGED <<manager, events, client, hubVerified>>

\* The handshake is done: the client holds the new connection, its read loop starts.
DialOk(t, c) ==
  /\ thr[t].pc = "dial"
  /\ conn[c].sock = "free"
  /\ client' = c
  /\ conn' = [conn EXCEPT ![c] = [Free EXCEPT !.sock = "open"]]
  /\ thr' = [thr EXCEPT ![t] = IF @.tick THEN [pc |-> "loop", tick |-> FALSE]
                               ELSE [@ EXCEPT !.pc = "done"]]
  /\ UNCHANGED <<manager, events, recent, hubVerified>>

\* The dial fails: NewClient returns no connection ...
DialErr(t) ==
  /\ thr[t].pc = "dial"
  /\ client' = NoConn
  /\ To(t, "drop")
  /\ UNCHANGED <<manager, events, recent, hubVerified, conn>>

\* ... and closeWebSocket closes what the client holds by now.
Drop(t) ==
  /\ thr[t].pc = "drop"
  /\ conn' = Closed({client})
  /\ To(t, "failed")
  /\ UNCHANGED <<manager, events, recent, client, hubVerified>>

\* The ticker branch ignores the error; connect looks at the state ...
Failed(t) ==
  /\ thr[t].pc = "failed"
  /\ thr' = [thr EXCEPT ![t] = IF @.tick THEN [pc |-> "loop", tick |-> FALSE]
                               ELSE [@ EXCEPT !.pc = IF state THEN "done" ELSE "tried"]]
  /\ UNCHANGED <<manager, events, recent, client, hubVerified, conn>>

\* ... and starts the ticker.
Tried(t) ==
  /\ thr[t].pc = "tried"
  /\ ticker' = TRUE
  /\ To(t, "done")
  /\ UNCHANGED <<state, isConnecting, events, recent, client, hubVerified, conn>>

Done(t) ==
  /\ thr[t].pc = "done"
  /\ isConnecting' = FALSE
  /\ To(t, IF t = Main THEN "loop" ELSE "off")
  /\ UNCHANGED <<state, ticker, events, recent, client, hubVerified, conn>>

----------------------------------------------------------------------------
(* The event loop.                                                           *)

\* Mutant: the ticker fires once.
TickOnce ==
  /\ thr[Main].pc = "loop" /\ ticker
  /\ thr' = [thr EXCEPT ![Main] = [pc |-> "try", tick |-> TRUE]]
  /\ ticker' = FALSE
  /\ UNCHANGED <<state, isConnecting, events, recent, client, hubVerified, conn>>

Tick ==
  /\ thr[Main].pc = "loop" /\ ticker
  /\ thr' = [thr EXCEPT ![Main] = [pc |-> "try", tick |-> TRUE]]
  /\ UNCHANGED <<manager, events, recent, client, hubVerified, conn>>

Event(e) == thr[Main].pc = "loop" /\ events = <<e>> /\ events' = <<>>

\* handleStateChange to WebSocketConnected: State ...
HandleConnect ==
  /\ Event("connect")
  /\ state' = TRUE
  /\ To(Main, IF state THEN "loop" ELSE "connected")
  /\ UNCHANGED <<isConnecting, ticker, recent, client, hubVerified, conn>>

\* ... stopWsTicker ...
StopTicker ==
  /\ thr[Main].pc = "connected"
  /\ ticker' = FALSE
  /\ To(Main, "stopped")
  /\ UNCHANGED <<state, isConnecting, events, recent, client, hubVerified, conn>>

\* ... isConnecting.
Settled ==
  /\ thr[Main].pc = "stopped"
  /\ isConnecting' = FALSE
  /\ To(Main, "loop")
  /\ UNCHANGED <<state, ticker, events, recent, client, hubVerified, conn>>

\* Mutant: an event that comes at the wrong time is put back.
DisconnectRequeued ==
  /\ thr[Main].pc = "loop" /\ events = <<"disconnect">>
  /\ state' = FALSE
  /\ IF state THEN To(Main, "lost") /\ events' = <<>> ELSE UNCHANGED <<thr, events>>
  /\ UNCHANGED <<isConnecting, ticker, recent, client, hubVerified, conn>>

\* handleEvent ignores a disconnect unless the agent was connected.  State ...
HandleDisconnect ==
  /\ Event("disconnect")
  /\ state' = FALSE
  /\ To(Main, IF state THEN "lost" ELSE "loop")
  /\ UNCHANGED <<isConnecting, ticker, recent, client, hubVerified, conn>>

\* ... isConnecting, read and set: nothing more to do if somebody is connecting ...
Lost ==
  /\ thr[Main].pc = "lost"
  /\ ~isConnecting => \E t \in Connectors : thr[t].pc = "off"
  /\ isConnecting' = TRUE
  /\ To(Main, IF isConnecting THEN "loop" ELSE "claimed")
  /\ UNCHANGED <<state, ticker, events, recent, client, hubVerified, conn>>

\* ... closeWebSocket, go connect.
GoConnect(t) ==
  /\ thr[Main].pc = "claimed" /\ thr[t].pc = "off"
  /\ conn' = Closed({client})
  /\ thr' = [thr EXCEPT ![Main].pc = "loop", ![t].pc = "begin"]
  /\ UNCHANGED <<manager, events, recent, client, hubVerified>>

----------------------------------------------------------------------------
(* The read loop of a connection.                                            *)

Reader(c, from, to) ==
  /\ conn[c].sock # "free" /\ conn[c].reader = from
  /\ conn' = [conn EXCEPT ![c].reader = to]

\* OnMessage with CheckFingerprint: handleAuthChallenge up to the event.
Challenge(c) ==
  /\ conn[c].sock = "open"
  /\ conn[c].reader = "read"
  /\ conn' = [conn EXCEPT ![c].reader = "connect", ![c].asked = TRUE]
  /\ hubVerified' = TRUE
  /\ UNCHANGED <<manager, events, recent, client, thr>>

\* OnMessage with GetData or ContainerAction: answered by a verified client, refused
\* without an answer otherwise.
Request(c) ==
  /\ conn[c].sock = "open" /\ hubVerified
  /\ Reader(c, "read", "serve")
  /\ UNCHANGED <<manager, events, recent, client, hubVerified, thr>>

\* Mutant: the event is queued without a bound.
PushConnectQueued(c) ==
  /\ events' = Append(events, "connect")
  /\ Reader(c, "connect", "serve")
  /\ UNCHANGED <<manager, recent, client, hubVerified, thr>>

\* The challenge is answered after the event is taken by the channel.
PushConnect(c) ==
  /\ events = <<>>
  /\ events' = <<"connect">>
  /\ Reader(c, "connect", "serve")
  /\ UNCHANGED <<manager, recent, client, hubVerified, thr>>

\* sendMessage writes to the connection the client holds, whichever asked; a failed write
\* closes it.
Answer(c) ==
  /\ conn[c].sock # "free" /\ conn[c].reader = "serve"
  /\ \E cs \in {{}, {client}} : conn' = [Closed(cs) EXCEPT ![c].reader = "read"]
  /\ UNCHANGED <<manager, events, recent, client, hubVerified, thr>>

\* The hub closes the connection, the network fails, or nothing arrives for 70 s.
Lose(c) ==
  /\ conn[c].sock = "open"
  /\ conn' = Closed({c})
  /\ UNCHANGED <<manager, events, recent, client, hubVerified, thr>>

\* The read loop finds the connection dead and calls OnClose ...
ReadErr(c) ==
  /\ conn[c].sock = "dead"
  /\ Reader(c, "read", "close")
  /\ UNCHANGED <<manager, events, recent, client, hubVerified, thr>>

\* Mutant: the event is dropped when the channel is full.
OnCloseDrops(c) ==
  /\ conn[c].sock # "free" /\ conn[c].reader = "close"
  /\ events' = IF events = <<>> THEN <<"disconnect">> ELSE events
  /\ conn' = [conn EXCEPT ![c] = Free]
  /\ UNCHANGED <<manager, recent, client, hubVerified, thr>>

\* ... which waits for room in the channel.
OnClose(c) ==
  /\ conn[c].sock # "free" /\ conn[c].reader = "close"
  /\ events = <<>>
  /\ events' = <<"disconnect">>
  /\ conn' = [conn EXCEPT ![c] = Free]
  /\ UNCHANGED <<manager, recent, client, hubVerified, thr>>

----------------------------------------------------------------------------
ConnectorStep(t) ==
  \/ Connect(t) \/ Wake(t) \/ CheckState(t) \/ Check(t) \/ Dial(t) \/ Failed(t) \/ Tried(t)
  \/ Done(t) \/ DialErr(t) \/ Drop(t) \/ \E c \in Conns : DialOk(t, c)

Take == HandleConnect \/ HandleDisconnect
StateStep == StopTicker \/ Settled \/ Lost \/ \E t \in Connectors : GoConnect(t)
LoopStep == Tick \/ Take \/ StateStep

ReaderStep(c) == PushConnect(c) \/ Answer(c) \/ ReadErr(c) \/ OnClose(c)

Next ==
  \/ Cool
  \/ \E t \in Threads : ConnectorStep(t)
  \/ LoopStep
  \/ \E c \in Conns : ReaderStep(c) \/ Challenge(c) \/ Request(c) \/ Lose(c)

\* Goroutines run, time passes, a dial ends, and a channel with room, an event or a tick
\* is not passed over for ever; nothing is assumed of the hub.
Fairness ==
  /\ WF_vars(Cool)
  /\ WF_vars(ConnectorStep(Main) \/ StateStep)
  /\ \A t \in Connectors : WF_vars(ConnectorStep(t))
  /\ SF_vars(Tick) /\ SF_vars(Take)
  /\ \A c \in Conns : SF_vars(ReaderStep(c))

Spec == Init /\ [][Next]_vars /\ Fairness

----------------------------------------------------------------------------
Alive(c) == conn[c].sock # "free"
Open == \E c \in Conns : conn[c].sock = "open"
Trying == \E t \in Threads : thr[t].pc = "dial"

\* An agent that believes it is connected has a challenged connection whose OnClose is
\* still to come, or the event of that OnClose waits in the channel: events of
\* different connections interleave, but none leaves State stale for good.
ConnectedIsOpen == state => (events = <<"disconnect">> \/ \E c \in Conns : Alive(c) /\ conn[c].asked)

\* An agent that no hub has challenged yet never gives up: without a connection it dials
\* again (startWebSocketConnection driven by wsTicker).
KeepsTrying == (~hubVerified /\ ~Open) ~> (Trying \/ Open)

\* No read loop waits on eventChan for ever: the loop that takes the events never needs
\* a read loop to go on.
EventsTaken ==
  \A c \in Conns : (Alive(c) /\ conn[c].reader \in {"connect", "close"})
                     ~> (conn[c].reader \notin {"connect", "close"})

\* A lost connection triggers reconnection: an agent without a connection dials again.
Reconnects == ~Open ~> (Trying \/ Open)
=============================================================================

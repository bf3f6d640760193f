------------------------ MODULE RequestManager_proof ------------------------
(* Proofs about RequestManager: what holds for any number of callers and of  *)
(* requests, with agents that echo ids and agents that do not.               *)
EXTENDS RequestManager, TLAPS

\* Whatever a request id is found in, the id has been given out.
Known ==
  /\ \A c \in Callers : caller[c].id <= nextID
  /\ \A i \in pending \cup live \cup watch \cup served : i <= nextID
  /\ \A k \in 1 .. Len(toAgent) : toAgent[k] <= nextID
  /\ \A i \in Ids : slot[i] # NoId => i <= nextID
  /\ reader.id <= nextID

\* A request has one caller.
OneCaller ==
  \A c, d \in Callers : caller[c].id = caller[d].id /\ c # d => caller[c].id = NoId

\* A request is written once, and carried out once.
Once ==
  /\ \A k \in 1 .. Len(toAgent) : toAgent[k] \notin served
  /\ \A k, l \in 1 .. Len(toAgent) : toAgent[k] = toAgent[l] => k = l
  /\ \A c \in Callers : caller[c].pc = "send" =>
       /\ caller[c].id \notin served
       /\ \A k \in 1 .. Len(toAgent) : toAgent[k] # caller[c].id

\* A full channel belongs to a request that is out of the map, or that the read loop
\* is about to take out of it.
SlotsLeaveMap ==
  \A i \in pending : slot[i] = NoId \/ (reader.pc = "delete" /\ reader.id = i)

\* A request that is taken out of the map has its message, or its call has ended.
DeletedAnswered == reader.pc = "delete" => slot[reader.id] # NoId \/ reader.id \notin live

\* NobodyForgotten, from the creation of the request on.
Remembered ==
  \A c \in Callers : caller[c].pc # "idle" =>
    \/ caller[c].id \in pending
    \/ slot[caller[c].id] # NoId
    \/ caller[c].id \notin live

ManagerInv ==
  /\ TypeOK
  /\ Known
  /\ OneCaller
  /\ Once
  /\ SlotsLeaveMap
  /\ ReaderNotStuck
  /\ DeletedAnswered
  /\ Remembered
  /\ PendingIsWatched

----------------------------------------------------------------------------
\* What the first element and the rest of a channel are.
LEMMA TailFacts ==
  ASSUME NEW S, NEW s \in Seq(S), s # <<>>
  PROVE  /\ Len(s) \in Nat \ {0}
         /\ Head(s) = s[1]
         /\ Head(s) \in S
         /\ Tail(s) \in Seq(S)
         /\ Len(Tail(s)) = Len(s) - 1
         /\ \A k \in 1 .. Len(Tail(s)) : k + 1 \in 1 .. Len(s) /\ Tail(s)[k] = s[k + 1]
  OBVIOUS

\* What a channel is after one more message was written to it.
LEMMA AppendFacts ==
  ASSUME NEW S, NEW s \in Seq(S), NEW e \in S
  PROVE  /\ Append(s, e) \in Seq(S)
         /\ Len(Append(s, e)) = Len(s) + 1
         /\ Len(s) \in Nat
         /\ \A k \in 1 .. Len(s) : Append(s, e)[k] = s[k]
         /\ Append(s, e)[Len(s) + 1] = e
  OBVIOUS

\* Init establishes the invariant.
LEMMA InitInv == Init => ManagerInv
<1> SUFFICES ASSUME Init PROVE ManagerInv
  OBVIOUS
<1> USE MaxIdAssumption DEF Init, Idle, Ids, NoId, SomeId
<1>1. TypeOK
  <2>1. caller \in [Callers -> CallerType]
    BY DEF CallerType
  <2>2. reader \in ReaderType
    BY DEF ReaderType
  <2>3. \A c \in Callers : caller[c].pc = "idle" /\ caller[c].id = NoId
    OBVIOUS
  <2>4. toAgent \in Seq(Ids) /\ toHub \in Seq(Message)
    OBVIOUS
  <2>5. slot \in [Ids -> SomeId] /\ nextID \in SomeId
    OBVIOUS
  <2>6. reader.pc = "idle"
    OBVIOUS
  <2> QED BY <2>1, <2>2, <2>3, <2>4, <2>5, <2>6 DEF TypeOK
<1>2. Known
  BY DEF Known
<1>3. OneCaller /\ Remembered
  BY DEF OneCaller, Remembered
<1>4. Once
  BY DEF Once
<1>5. SlotsLeaveMap /\ ReaderNotStuck /\ DeletedAnswered /\ PendingIsWatched
  BY DEF SlotsLeaveMap, ReaderNotStuck, DeletedAnswered, PendingIsWatched
<1> QED BY <1>1, <1>2, <1>3, <1>4, <1>5 DEF ManagerInv

\* A call that ends leaves its caller idle.
LEMMA EndTypes ==
  ASSUME TypeOK, NEW c \in Callers, NEW r \in SomeId, End(c, r)
  PROVE  /\ caller' \in [Callers -> CallerType]
         /\ \A d \in Callers : caller'[d].pc = "idle" <=> caller'[d].id = NoId
         /\ caller'[c].pc = "idle" /\ caller'[c].id = NoId
         /\ \A d \in Callers : d # c => caller'[d] = caller[d]
  BY MaxIdAssumption DEF End, TypeOK, CallerType, NoId, SomeId

\* A call that ends leaves no request newer than the counter.
LEMMA EndKnown ==
  ASSUME TypeOK, Known, NEW c \in Callers, NEW r \in SomeId, End(c, r),
         UNCHANGED <<nextID, toAgent, served, reader>>,
         pending' \subseteq pending, live' \subseteq live, watch' \subseteq watch,
         \A i \in Ids : slot'[i] # NoId => slot'[i] = slot[i]
  PROVE  Known'
<1>1. nextID \in Nat /\ nextID' = nextID /\ NoId <= nextID
  BY MaxIdAssumption DEF TypeOK, SomeId, NoId
<1>2. \A d \in Callers : caller'[d].id <= nextID'
  BY <1>1, EndTypes DEF Known
<1>3. \A i \in pending' \cup live' \cup watch' \cup served' : i <= nextID'
  BY <1>1 DEF Known
<1>4. \A k \in 1 .. Len(toAgent') : toAgent'[k] <= nextID'
  BY <1>1 DEF Known
<1>5. \A i \in Ids : slot'[i] # NoId => i <= nextID'
  BY <1>1 DEF Known
<1>6. reader'.id <= nextID'
  BY <1>1 DEF Known
<1>7. QED
  BY <1>2, <1>3, <1>4, <1>5, <1>6 DEF Known

\* A caller inside a call has a request.
LEMMA InCall ==
  ASSUME TypeOK, NEW c \in Callers
  PROVE  /\ caller[c].id \in SomeId
         /\ caller[c].pc # "idle" <=> caller[c].id \in Ids
  BY MaxIdAssumption DEF TypeOK, CallerType, NoId, SomeId, Ids

\* Each step of a call keeps the types.
LEMMA CallTypes ==
  ASSUME TypeOK, NEW c \in Callers, Refuse(c) \/ Request(c)
  PROVE  TypeOK'
<1>0. NoId \in SomeId
  BY MaxIdAssumption DEF NoId, SomeId
<1>1. CASE Refuse(c)
  BY <1>0, <1>1, EndTypes DEF Refuse, TypeOK, wire
<1>2. CASE CreateRequest(c)
  <2> USE MaxIdAssumption DEF Ids, NoId, SomeId
  <2>1. nextID + 1 \in Ids
    BY <1>2 DEF CreateRequest, TypeOK
  <2>2. caller' \in [Callers -> CallerType]
    BY <2>1, <1>2 DEF CreateRequest, TypeOK, CallerType
  <2>3. \A d \in Callers : caller'[d].pc = "idle" <=> caller'[d].id = NoId
    BY <2>1, <1>2 DEF CreateRequest, TypeOK, CallerType
  <2> QED BY <2>1, <2>2, <2>3, <1>2 DEF CreateRequest, TypeOK, wire
<1>3. CASE Send(c)
  <2>1. caller[c].id \in Ids
    BY <1>3, InCall DEF Send
  <2>2. toAgent' \in Seq(Ids)
    BY <2>1, <1>3, AppendFacts DEF Send, TypeOK
  <2>3. caller' \in [Callers -> CallerType]
    BY <1>3 DEF Send, TypeOK, CallerType
  <2>4. \A d \in Callers : caller'[d].pc = "idle" <=> caller'[d].id = NoId
    BY <1>3 DEF Send, TypeOK, CallerType
  <2> QED BY <2>1, <2>2, <2>3, <2>4, <1>3 DEF Send, TypeOK
<1>4. CASE SendErr(c)
  <2>1. pending' \in SUBSET Ids /\ live' \in SUBSET Ids
    BY <1>4 DEF SendErr, cancelRequest, TypeOK
  <2> QED BY <1>0, <1>4, <2>1, EndTypes DEF SendErr, TypeOK, wire
<1>5. CASE TakeAnswer(c)
  <2>1. caller[c].id \in Ids
    BY <1>5, InCall DEF TakeAnswer
  <2>2. slot[caller[c].id] \in SomeId
    BY <2>1 DEF TypeOK
  <2>3. slot' \in [Ids -> SomeId]
    BY <1>0, <1>5 DEF TakeAnswer, TypeOK
  <2> QED BY <2>1, <2>2, <2>3, <1>5, EndTypes DEF TakeAnswer, TypeOK, wire
<1>6. CASE GiveUp(c)
  BY <1>0, <1>6, EndTypes DEF GiveUp, TypeOK, wire
<1> QED BY <1>1, <1>2, <1>3, <1>4, <1>5, <1>6 DEF Request

\* The read loop finds a request of the map.
LEMMA LookupFacts ==
  ASSUME TypeOK, NEW m \in Message, NEW i \in Lookup(m)
  PROVE  /\ i \in pending
         /\ m.id # NoId => i = m.id
  BY DEF Lookup, Oldest

\* So do the other steps.
LEMMA OtherTypes ==
  ASSUME TypeOK,
         \/ \E i \in Ids : Expire(i) \/ cleanupRequest(i)
         \/ handleResponse
         \/ WriteClose \/ Close \/ OnClose
         \/ Agent
  PROVE  TypeOK'
<1>1. ASSUME NEW i \in Ids, Expire(i) PROVE TypeOK'
  BY <1>1 DEF Expire, TypeOK, wire
<1>2. ASSUME NEW i \in Ids, cleanupRequest(i) PROVE TypeOK'
  <2>1. pending' \in SUBSET Ids /\ live' \in SUBSET Ids
    BY <1>2 DEF cleanupRequest, cancelRequest, TypeOK
  <2> QED BY <1>2, <2>1 DEF cleanupRequest, TypeOK, wire
<1>3. CASE Receive
  <2>1. Head(toHub) \in Message /\ toHub' \in Seq(Message)
    BY <1>3, TailFacts DEF Receive, TypeOK
  <2>2. PICK i \in Lookup(Head(toHub)) :
          reader' = [pc |-> "deliver", id |-> i, for |-> Head(toHub).for]
    BY <1>3 DEF Receive
  <2>3. i \in Ids
    BY <2>1, <2>2, LookupFacts DEF TypeOK
  <2>4. reader' \in ReaderType /\ reader'.id \in Ids /\ reader'.for \in Ids
    BY <2>1, <2>2, <2>3, MaxIdAssumption DEF ReaderType, Message, Ids, SomeId
  <2> QED BY <1>3, <2>1, <2>4 DEF Receive, TypeOK
<1>4. CASE ReceiveUnknown
  <2>1. toHub' \in Seq(Message)
    BY <1>4, TailFacts DEF ReceiveUnknown, TypeOK
  <2> QED BY <1>4, <2>1 DEF ReceiveUnknown, TypeOK
<1>5. CASE Deliver
  <2>1. slot' \in [Ids -> SomeId]
    BY <1>5, MaxIdAssumption DEF Deliver, TypeOK, Ids, SomeId
  <2>2. reader' \in ReaderType /\ reader'.id \in Ids /\ reader'.for \in Ids
    BY <1>5 DEF Deliver, TypeOK, ReaderType
  <2> QED BY <1>5, <2>1, <2>2 DEF Deliver, TypeOK, wire
<1>6. Idle \in ReaderType /\ Idle.pc = "idle"
  BY MaxIdAssumption DEF Idle, ReaderType, NoId, SomeId
<1>7. CASE Discard
  BY <1>6, <1>7 DEF Discard, TypeOK, wire
<1>8. CASE deleteRequest
  BY <1>6, <1>8 DEF deleteRequest, TypeOK, wire
<1>9. CASE WriteClose
  BY <1>9 DEF WriteClose, TypeOK
<1>10. CASE Close
  BY <1>10 DEF Close, TypeOK
<1>11. CASE OnClose
  BY <1>11 DEF OnClose, TypeOK
<1>12. CASE AgentAnswer
  <2>1. Head(toAgent) \in Ids /\ toAgent' \in Seq(Ids)
    BY <1>12, TailFacts DEF AgentAnswer, TypeOK
  <2>2. [id |-> IF LegacyAgent THEN NoId ELSE Head(toAgent), for |-> Head(toAgent)] \in Message
    BY <2>1, MaxIdAssumption DEF Message, Ids, NoId, SomeId
  <2>3. toHub' \in Seq(Message)
    BY <1>12, <2>2, AppendFacts DEF AgentAnswer, TypeOK
  <2> QED BY <1>12, <2>1, <2>3 DEF AgentAnswer, TypeOK
<1>13. CASE AgentSilent
  <2>1. Head(toAgent) \in Ids /\ toAgent' \in Seq(Ids)
    BY <1>13, TailFacts DEF AgentSilent, TypeOK
  <2> QED BY <1>13, <2>1 DEF AgentSilent, TypeOK
<1>14. CASE AgentIgnore
  <2>1. toAgent' \in Seq(Ids)
    BY <1>14, TailFacts DEF AgentIgnore, TypeOK
  <2> QED BY <1>14, <2>1 DEF AgentIgnore, TypeOK
<1> QED BY <1>1, <1>2, <1>3, <1>4, <1>5, <1>7, <1>8, <1>9, <1>10, <1>11, <1>12, <1>13, <1>14
        DEF handleResponse, Agent

\* Each step of a call keeps the invariant.
LEMMA CallInv ==
  ASSUME ManagerInv, NEW c \in Callers, Refuse(c) \/ Request(c)
  PROVE  ManagerInv'
<1> TypeOK /\ TypeOK'
  BY CallTypes DEF ManagerInv
<1> USE MaxIdAssumption, InCall DEF Ids, NoId, SomeId, ManagerInv
<1>1. CASE Refuse(c)
  <2>1. Known'
    BY <1>1 DEF Refuse, End, Known, wire
  <2>2. OneCaller'
    BY <1>1 DEF Refuse, End, OneCaller, wire
  <2>3. Once'
    BY <1>1 DEF Refuse, End, Once, wire
  <2>4. Remembered'
    BY <1>1 DEF Refuse, End, Remembered, wire
  <2>5. PendingIsWatched'
    BY <1>1 DEF Refuse, End, PendingIsWatched, wire
  <2>6. SlotsLeaveMap' /\ ReaderNotStuck' /\ DeletedAnswered'
    BY <1>1 DEF Refuse, End, SlotsLeaveMap, ReaderNotStuck, DeletedAnswered, wire
  <2> QED BY <2>1, <2>2, <2>3, <2>4, <2>5, <2>6 DEF ManagerInv
<1>2. CASE CreateRequest(c)
  <2>1. /\ nextID + 1 \in Ids
        /\ \A d \in Callers : caller[d].id # nextID + 1
        /\ \A k \in 1 .. Len(toAgent) : toAgent[k] # nextID + 1
        /\ nextID + 1 \notin served
        /\ slot[nextID + 1] = NoId
        /\ reader.id # nextID + 1
    <3>1. nextID \in Nat /\ nextID + 1 \in Ids
      BY <1>2 DEF CreateRequest, TypeOK
    <3>2. \A d \in Callers : caller[d].id # nextID + 1
      BY <3>1 DEF Known
    <3>3. reader.id # nextID + 1 /\ slot[nextID + 1] = NoId
      BY <3>1 DEF Known
    <3>4. nextID + 1 \notin served /\ \A k \in 1 .. Len(toAgent) : toAgent[k] # nextID + 1
      BY <3>1 DEF Known
    <3> QED BY <3>1, <3>2, <3>3, <3>4
  <2>2. /\ caller'[c].pc = "send" /\ caller'[c].id = nextID + 1
        /\ caller[c].id = NoId
        /\ \A d \in Callers : d # c => caller'[d] = caller[d]
    BY <1>2 DEF CreateRequest, TypeOK
  <2>3. Known'
    <3>1. \A d \in Callers : caller'[d].id <= nextID'
      BY <1>2, <2>2, InCall DEF CreateRequest, Known, TypeOK
    <3>2. \A j \in pending' \cup live' \cup watch' \cup served' : j <= nextID'
      <4>1. pending \cup live \cup watch \cup served \subseteq Ids
        BY Zenon DEF TypeOK
      <4>2. \A j \in pending \cup live \cup watch \cup served : j <= nextID + 1
        BY <2>1, <4>1 DEF Known, TypeOK
      <4> QED BY <1>2, <4>2 DEF CreateRequest, wire
    <3>3. \A k \in 1 .. Len(toAgent') : toAgent'[k] <= nextID'
      <4>1. toAgent \in Seq(Ids) /\ nextID \in SomeId
        BY DEF TypeOK
      <4>2. \A k \in 1 .. Len(toAgent) : toAgent[k] \in Ids /\ toAgent[k] <= nextID
        BY <4>1 DEF Known
      <4>3. \A k \in 1 .. Len(toAgent) : toAgent[k] <= nextID + 1
        BY <4>1, <4>2
      <4> QED BY <1>2, <4>3 DEF CreateRequest, wire
    <3>4. reader'.id <= nextID' /\ \A j \in Ids : slot'[j] # NoId => j <= nextID'
      BY <1>2 DEF CreateRequest, Known, TypeOK, ReaderType
    <3> QED BY <3>1, <3>2, <3>3, <3>4 DEF Known
  <2>4. OneCaller'
    BY <2>1, <2>2 DEF OneCaller
  <2>5. Once'
    BY <1>2, <2>1, <2>2 DEF CreateRequest, Once, wire
  <2>6. SlotsLeaveMap' /\ DeletedAnswered'
    BY <1>2, <2>1 DEF CreateRequest, SlotsLeaveMap, DeletedAnswered
  <2>7. Remembered'
    BY <1>2, <2>1, <2>2 DEF CreateRequest, Remembered
  <2>8. PendingIsWatched'
    <3>1. \A j \in pending : j \in watch' \/ \E d \in Callers : caller'[d].id = j /\ caller'[d].pc = "send"
      BY <1>2, <2>2 DEF CreateRequest, PendingIsWatched
    <3> QED BY <1>2, <2>2, <3>1 DEF CreateRequest, PendingIsWatched
  <2>9. ReaderNotStuck'
    BY <1>2 DEF CreateRequest, ReaderNotStuck
  <2> QED BY <2>3, <2>4, <2>5, <2>6, <2>7, <2>8, <2>9
<1>3. CASE Send(c)
  <2>1. Known'
    BY <1>3 DEF Send, Known, wire
  <2>2. OneCaller'
    BY <1>3 DEF Send, OneCaller, wire
  <2>3. Once'
    <3>1. caller[c].id \in Ids
      BY <1>3 DEF Send
    <3>2. /\ Len(toAgent') = Len(toAgent) + 1
          /\ Len(toAgent) \in Nat
          /\ \A k \in 1 .. Len(toAgent) : toAgent'[k] = toAgent[k]
          /\ toAgent'[Len(toAgent) + 1] = caller[c].id
      BY <1>3, <3>1, AppendFacts DEF Send, TypeOK
    <3>3. \A d \in Callers : caller'[d].pc = "send" =>
            caller[d].pc = "send" /\ caller'[d].id = caller[d].id /\ caller[d].id # caller[c].id
      BY <1>3, <3>1 DEF Send, OneCaller, TypeOK, CallerType
    <3>4. \A k \in 1 .. Len(toAgent') : k \in 1 .. Len(toAgent) \/ k = Len(toAgent) + 1
      BY <3>2
    <3> QED BY <1>3, <3>2, <3>3, <3>4 DEF Send, Once
  <2>4. Remembered'
    BY <1>3 DEF Send, Remembered, wire
  <2>5. PendingIsWatched'
    BY <1>3 DEF Send, PendingIsWatched, wire
  <2>6. SlotsLeaveMap' /\ ReaderNotStuck' /\ DeletedAnswered'
    BY <1>3 DEF Send, SlotsLeaveMap, ReaderNotStuck, DeletedAnswered, wire
  <2> QED BY <2>1, <2>2, <2>3, <2>4, <2>5, <2>6 DEF ManagerInv
<1>4. CASE SendErr(c)
  <2>1. Known'
    <3>1. NoId \in SomeId /\ End(c, NoId)
      BY <1>4 DEF SendErr
    <3>2. /\ UNCHANGED <<nextID, toAgent, served, reader, slot, watch>>
          /\ pending' \subseteq pending /\ live' \subseteq live
      BY <1>4 DEF SendErr, cancelRequest, wire
    <3> QED BY ONLY TypeOK, ManagerInv, <3>1, <3>2, EndKnown DEF ManagerInv
  <2>2. OneCaller'
    BY <1>4 DEF SendErr, End, cancelRequest, OneCaller, wire
  <2>3. Once'
    BY <1>4 DEF SendErr, End, cancelRequest, Once, wire
  <2>4. SlotsLeaveMap'
    BY <1>4 DEF SendErr, End, cancelRequest, SlotsLeaveMap, wire
  <2>5. DeletedAnswered'
    BY <1>4 DEF SendErr, End, cancelRequest, DeletedAnswered, wire
  <2>6. Remembered'
    BY <1>4 DEF SendErr, End, cancelRequest, Remembered, wire
  <2>7. PendingIsWatched'
    BY <1>4 DEF SendErr, End, cancelRequest, PendingIsWatched, wire
  <2>8. ReaderNotStuck'
    BY <1>4 DEF SendErr, End, cancelRequest, ReaderNotStuck, wire
  <2> QED BY <2>1, <2>2, <2>3, <2>4, <2>5, <2>6, <2>7, <2>8 DEF ManagerInv
<1>5. CASE TakeAnswer(c)
  <2>1. Known'
    <3>1. slot[caller[c].id] \in SomeId /\ End(c, slot[caller[c].id])
      BY <1>5 DEF TakeAnswer, TypeOK
    <3>2. /\ UNCHANGED <<nextID, toAgent, served, reader, pending, watch>>
          /\ live' \subseteq live
          /\ \A i \in Ids : slot'[i] # NoId => slot'[i] = slot[i]
      BY <1>5 DEF TakeAnswer, wire, TypeOK
    <3> QED BY ONLY TypeOK, ManagerInv, <3>1, <3>2, EndKnown DEF ManagerInv
  <2>2. OneCaller'
    BY <1>5 DEF TakeAnswer, End, OneCaller, wire
  <2>3. Once'
    BY <1>5 DEF TakeAnswer, End, Once, wire
  <2>4. SlotsLeaveMap'
    BY <1>5 DEF TakeAnswer, End, SlotsLeaveMap, wire
  <2>5. ReaderNotStuck'
    BY <1>5 DEF TakeAnswer, End, ReaderNotStuck, wire
  <2>6. DeletedAnswered'
    BY <1>5 DEF TakeAnswer, End, DeletedAnswered, wire
  <2>7. Remembered'
    BY <1>5 DEF TakeAnswer, End, Remembered, wire
  <2>8. PendingIsWatched'
    BY <1>5 DEF TakeAnswer, End, PendingIsWatched, wire
  <2> QED BY <2>1, <2>2, <2>3, <2>4, <2>5, <2>6, <2>7, <2>8 DEF ManagerInv
<1>6. CASE GiveUp(c)
  <2>1. Known'
    <3>1. NoId \in SomeId /\ End(c, NoId)
      BY <1>6 DEF GiveUp
    <3>2. UNCHANGED <<nextID, toAgent, served, reader, pending, live, slot, watch>>
      BY <1>6 DEF GiveUp, wire
    <3> QED BY ONLY TypeOK, ManagerInv, <3>1, <3>2, EndKnown DEF ManagerInv
  <2>2. OneCaller'
    BY <1>6 DEF GiveUp, End, OneCaller, wire
  <2>3. Once'
    BY <1>6 DEF GiveUp, End, Once, wire
  <2>4. Remembered'
    BY <1>6 DEF GiveUp, End, Remembered, wire
  <2>5. PendingIsWatched'
    BY <1>6 DEF GiveUp, End, PendingIsWatched, wire
  <2>6. SlotsLeaveMap' /\ ReaderNotStuck' /\ DeletedAnswered'
    BY <1>6 DEF GiveUp, End, SlotsLeaveMap, ReaderNotStuck, DeletedAnswered, wire
  <2> QED BY <2>1, <2>2, <2>3, <2>4, <2>5, <2>6 DEF ManagerInv
<1> QED BY <1>1, <1>2, <1>3, <1>4, <1>5, <1>6 DEF Request

\* So do the other steps.
LEMMA OtherInv ==
  ASSUME ManagerInv,
         \/ \E i \in Ids : Expire(i) \/ cleanupRequest(i)
         \/ handleResponse
         \/ WriteClose \/ Close \/ OnClose
         \/ Agent
  PROVE  ManagerInv'
<1> TypeOK /\ TypeOK'
  BY OtherTypes DEF ManagerInv
<1> USE MaxIdAssumption DEF Ids, NoId, SomeId, ManagerInv
<1>1. ASSUME NEW i \in Ids, Expire(i) PROVE ManagerInv'
  <2>1. Known'
    BY <1>1 DEF Expire, Known, wire
  <2>2. DeletedAnswered'
    BY <1>1 DEF Expire, DeletedAnswered, wire
  <2>3. Remembered'
    BY <1>1 DEF Expire, Remembered, wire
  <2>4. OneCaller' /\ Once' /\ SlotsLeaveMap' /\ ReaderNotStuck' /\ PendingIsWatched'
    BY <1>1 DEF Expire, OneCaller, Once, SlotsLeaveMap, ReaderNotStuck, PendingIsWatched, wire
  <2> QED BY <2>1, <2>2, <2>3, <2>4 DEF ManagerInv
<1>2. ASSUME NEW i \in Ids, cleanupRequest(i) PROVE ManagerInv'
  <2>1. Known'
    BY <1>2 DEF cleanupRequest, cancelRequest, Known, wire
  <2>2. SlotsLeaveMap'
    BY <1>2 DEF cleanupRequest, cancelRequest, SlotsLeaveMap, wire
  <2>3. DeletedAnswered'
    BY <1>2 DEF cleanupRequest, cancelRequest, DeletedAnswered, wire
  <2>4. Remembered'
    BY <1>2 DEF cleanupRequest, cancelRequest, Remembered, wire
  <2>5. PendingIsWatched'
    BY <1>2 DEF cleanupRequest, cancelRequest, PendingIsWatched, wire
  <2>6. OneCaller' /\ Once' /\ ReaderNotStuck'
    BY <1>2 DEF cleanupRequest, cancelRequest, OneCaller, Once, ReaderNotStuck, wire
  <2> QED BY <2>1, <2>2, <2>3, <2>4, <2>5, <2>6 DEF ManagerInv
<1>3. CASE Receive
  <2>0. PICK i \in pending : reader' = [pc |-> "deliver", id |-> i, for |-> Head(toHub).for]
    <3>1. Head(toHub) \in Message
      BY <1>3, TailFacts DEF Receive, TypeOK
    <3> QED BY <1>3, <3>1, LookupFacts DEF Receive
  <2>1. Known'
    BY <1>3, <2>0 DEF Receive, Known, TypeOK, ReaderType
  <2>2. SlotsLeaveMap'
    BY <1>3 DEF Receive, SlotsLeaveMap, wire
  <2>3. ReaderNotStuck'
    BY <1>3, <2>0 DEF Receive, SlotsLeaveMap, ReaderNotStuck
  <2>4. DeletedAnswered'
    BY <1>3 DEF Receive, DeletedAnswered, wire
  <2>5. OneCaller' /\ Once' /\ Remembered' /\ PendingIsWatched'
    BY <1>3 DEF Receive, OneCaller, Once, Remembered, PendingIsWatched, wire
  <2> QED BY <2>1, <2>2, <2>3, <2>4, <2>5 DEF ManagerInv
<1>4. CASE ReceiveUnknown
  <2>1. Known' /\ OneCaller' /\ Once' /\ SlotsLeaveMap' /\ ReaderNotStuck' /\ DeletedAnswered' /\ Remembered' /\ PendingIsWatched'
    BY <1>4 DEF ReceiveUnknown, Known, OneCaller, Once, SlotsLeaveMap, ReaderNotStuck,
         DeletedAnswered, Remembered, PendingIsWatched, wire
  <2> QED BY <2>1 DEF ManagerInv
<1>5. CASE Deliver
  <2>1. Known'
    BY <1>5 DEF Deliver, Known, wire
  <2>2. SlotsLeaveMap'
    BY <1>5 DEF Deliver, SlotsLeaveMap, wire
  <2>3. ReaderNotStuck'
    BY <1>5 DEF Deliver, ReaderNotStuck, wire
  <2>4. DeletedAnswered'
    BY <1>5 DEF Deliver, DeletedAnswered, TypeOK, ReaderType
  <2>5. Remembered'
    BY <1>5 DEF Deliver, Remembered, wire
  <2>6. OneCaller' /\ Once' /\ PendingIsWatched'
    BY <1>5 DEF Deliver, OneCaller, Once, PendingIsWatched, wire
  <2> QED BY <2>1, <2>2, <2>3, <2>4, <2>5, <2>6 DEF ManagerInv
<1>6. CASE Discard
  <2>1. Known'
    BY <1>6 DEF Discard, Idle, Known, wire, TypeOK, CallerType, ReaderType
  <2>2. SlotsLeaveMap'
    BY <1>6 DEF Discard, Idle, SlotsLeaveMap, wire
  <2>3. ReaderNotStuck'
    BY <1>6 DEF Discard, Idle, ReaderNotStuck, wire
  <2>4. DeletedAnswered'
    BY <1>6 DEF Discard, Idle, DeletedAnswered, wire
  <2>5. OneCaller' /\ Once' /\ Remembered' /\ PendingIsWatched'
    BY <1>6 DEF Discard, Idle, OneCaller, Once, Remembered, PendingIsWatched, wire
  <2> QED BY <2>1, <2>2, <2>3, <2>4, <2>5 DEF ManagerInv
<1>7. CASE deleteRequest
  <2>1. Known'
    BY <1>7 DEF deleteRequest, Idle, Known, wire, TypeOK, CallerType, ReaderType
  <2>2. SlotsLeaveMap'
    BY <1>7 DEF deleteRequest, Idle, SlotsLeaveMap, wire
  <2>3. ReaderNotStuck'
    BY <1>7 DEF deleteRequest, Idle, ReaderNotStuck, wire
  <2>4. DeletedAnswered'
    BY <1>7 DEF deleteRequest, Idle, DeletedAnswered, wire
  <2>5. Remembered'
    BY <1>7 DEF deleteRequest, DeletedAnswered, Remembered
  <2>6. PendingIsWatched'
    BY <1>7 DEF deleteRequest, Idle, PendingIsWatched, wire
  <2>7. OneCaller' /\ Once'
    BY <1>7 DEF deleteRequest, Idle, OneCaller, Once, wire
  <2> QED BY <2>1, <2>2, <2>3, <2>4, <2>5, <2>6, <2>7 DEF ManagerInv
<1>8. CASE WriteClose
  <2>1. Known' /\ OneCaller' /\ Once' /\ SlotsLeaveMap' /\ ReaderNotStuck' /\ DeletedAnswered' /\ Remembered' /\ PendingIsWatched'
    BY <1>8 DEF WriteClose, Known, OneCaller, Once, SlotsLeaveMap, ReaderNotStuck,
         DeletedAnswered, Remembered, PendingIsWatched, wire
  <2> QED BY <2>1 DEF ManagerInv
<1>9. CASE Close
  <2>1. Known'
    BY <1>9 DEF Close, Known, wire
  <2>2. SlotsLeaveMap'
    BY <1>9 DEF Close, SlotsLeaveMap, wire
  <2>3. DeletedAnswered'
    BY <1>9 DEF Close, DeletedAnswered, wire
  <2>4. Remembered'
    BY <1>9 DEF Close, Remembered, wire
  <2>5. PendingIsWatched'
    BY <1>9 DEF Close, PendingIsWatched, wire
  <2>6. OneCaller' /\ Once' /\ ReaderNotStuck'
    BY <1>9 DEF Close, OneCaller, Once, ReaderNotStuck, wire
  <2> QED BY <2>1, <2>2, <2>3, <2>4, <2>5, <2>6 DEF ManagerInv
<1>10. CASE OnClose
  <2>1. Known' /\ OneCaller' /\ Once' /\ SlotsLeaveMap' /\ ReaderNotStuck' /\ DeletedAnswered' /\ Remembered' /\ PendingIsWatched'
    BY <1>10 DEF OnClose, Known, OneCaller, Once, SlotsLeaveMap, ReaderNotStuck,
         DeletedAnswered, Remembered, PendingIsWatched, wire
  <2> QED BY <2>1 DEF ManagerInv
<1>11. CASE AgentAnswer
  <2>1. Known'
    BY <1>11 DEF AgentAnswer, Known, wire
  <2>2. Once'
    BY <1>11 DEF AgentAnswer, Once, wire
  <2>3. OneCaller' /\ SlotsLeaveMap' /\ ReaderNotStuck' /\ DeletedAnswered' /\ Remembered' /\ PendingIsWatched'
    BY <1>11 DEF AgentAnswer, OneCaller, SlotsLeaveMap, ReaderNotStuck, DeletedAnswered,
         Remembered, PendingIsWatched, wire
  <2> QED BY <2>1, <2>2, <2>3 DEF ManagerInv
<1>12. CASE AgentSilent
  <2>1. Known'
    BY <1>12 DEF AgentSilent, Known, wire
  <2>2. Once'
    BY <1>12 DEF AgentSilent, Once, wire
  <2>3. OneCaller' /\ SlotsLeaveMap' /\ ReaderNotStuck' /\ DeletedAnswered' /\ Remembered' /\ PendingIsWatched'
    BY <1>12 DEF AgentSilent, OneCaller, SlotsLeaveMap, ReaderNotStuck, DeletedAnswered,
         Remembered, PendingIsWatched, wire
  <2> QED BY <2>1, <2>2, <2>3 DEF ManagerInv
<1>13. CASE AgentIgnore
  <2>1. Known'
    BY <1>13 DEF AgentIgnore, Known, wire
  <2>2. Once'
    BY <1>13 DEF AgentIgnore, Once, wire
  <2>3. OneCaller' /\ SlotsLeaveMap' /\ ReaderNotStuck' /\ DeletedAnswered' /\ Remembered' /\ PendingIsWatched'
    BY <1>13 DEF AgentIgnore, OneCaller, SlotsLeaveMap, ReaderNotStuck, DeletedAnswered,
         Remembered, PendingIsWatched, wire
  <2> QED BY <2>1, <2>2, <2>3 DEF ManagerInv
<1> QED BY <1>1, <1>2, <1>3, <1>4, <1>5, <1>6, <1>7, <1>8, <1>9, <1>10, <1>11, <1>12, <1>13
        DEF handleResponse, Agent

----------------------------------------------------------------------------
(* The invariant of both kinds of agents, and what follows from it.          *)

\* Every step keeps the invariant.
LEMMA Inductive == ManagerInv /\ [Next]_vars => ManagerInv'
<1> SUFFICES ASSUME ManagerInv, [Next]_vars PROVE ManagerInv'
  OBVIOUS
<1>1. ASSUME NEW c \in Callers, Refuse(c) \/ Request(c) PROVE ManagerInv'
  BY <1>1, CallInv
<1>2. CASE \/ \E i \in Ids : Expire(i) \/ cleanupRequest(i)
           \/ handleResponse
           \/ WriteClose \/ Close \/ OnClose
           \/ Agent
  BY <1>2, OtherInv
<1>3. CASE UNCHANGED vars
  BY <1>3 DEF vars, ManagerInv, TypeOK, Known, OneCaller, Once, SlotsLeaveMap,
     ReaderNotStuck, DeletedAnswered, Remembered, PendingIsWatched
<1> QED BY <1>1, <1>2, <1>3 DEF Next

\* The invariant holds in every behaviour.
LEMMA AlwaysInv == Spec => []ManagerInv
  BY InitInv, Inductive, PTL DEF Spec

\* The type invariant holds for every number of callers and requests.
THEOREM TypeCorrect == Spec => []TypeOK
<1>1. ManagerInv => TypeOK
  BY DEF ManagerInv
<1> QED BY <1>1, AlwaysInv, PTL

\* handleResponse and routeLegacyResponse never block: the read loop of a connection
\* cannot be stopped by a request that nobody waits for.
THEOREM ReaderNeverStuck == Spec => []ReaderNotStuck
<1>1. ManagerInv => ReaderNotStuck
  BY DEF ManagerInv
<1> QED BY <1>1, AlwaysInv, PTL

\* No answer and no Close leaves a caller waiting for a request that the manager has
\* forgotten.
THEOREM NobodyIsForgotten == Spec => []NobodyForgotten
<1>1. ManagerInv => NobodyForgotten
  BY DEF ManagerInv, Remembered, NobodyForgotten
<1> QED BY <1>1, AlwaysInv, PTL

\* pendingReqs does not leak: each entry has a watcher, or a caller about to start one.
THEOREM PendingAlwaysWatched == Spec => []PendingIsWatched
<1>1. ManagerInv => PendingIsWatched
  BY DEF ManagerInv
<1> QED BY <1>1, AlwaysInv, PTL

----------------------------------------------------------------------------
(* Agents that echo the id of a request.                                     *)

\* Whatever carries an answer carries it under the id of the request it answers, which
\* the agent has carried out; a call that has not ended has returned no answer.
Routed ==
  /\ \A k \in 1 .. Len(toHub) : toHub[k].id = toHub[k].for /\ toHub[k].for \in served
  /\ reader.pc # "idle" => reader.id = reader.for /\ reader.for \in served
  /\ \A i \in Ids : slot[i] # NoId => slot[i] = i /\ i \in served
  /\ \A c \in Callers : caller[c].pc # "idle" => caller[c].got = NoId

EchoInv == ManagerInv /\ Routed /\ ContextsEnd

\* The steps of a call keep answers with their requests, and cancel what they leave.
LEMMA CallEcho ==
  ASSUME EchoInv, TypeOK', NEW c \in Callers, Refuse(c) \/ Request(c)
  PROVE  Routed' /\ ContextsEnd'
<1> USE DEF EchoInv, ManagerInv, wire
<1>0. caller \in [Callers -> CallerType]
  BY DEF TypeOK
<1>1. CASE Refuse(c)
  <2>1. Routed'
    BY <1>0, <1>1 DEF Refuse, End, Routed
  <2>2. ContextsEnd'
    <3>1. \A d \in Callers : caller'[d].id = caller[d].id
      BY <1>0, <1>1 DEF Refuse, End, TypeOK
    <3> QED BY <1>1, <3>1 DEF Refuse, ContextsEnd, Waits
  <2> QED BY <2>1, <2>2
<1>2. CASE CreateRequest(c)
  <2>1. Routed'
    BY <1>0, <1>2 DEF CreateRequest, Routed
  <2>2. /\ caller'[c].id = nextID + 1
        /\ \A i \in live : i # caller[c].id
        /\ \A d \in Callers : d # c => caller'[d] = caller[d]
    BY <1>0, <1>2 DEF CreateRequest, TypeOK, Ids, NoId
  <2>3. ContextsEnd'
    BY <1>2, <2>2 DEF CreateRequest, ContextsEnd, Waits
  <2> QED BY <2>1, <2>3
<1>3. CASE Send(c)
  <2>1. Routed'
    BY <1>0, <1>3 DEF Send, Routed, CallerType
  <2>2. \A d \in Callers : caller'[d].id = caller[d].id
    BY <1>0, <1>3 DEF Send, CallerType
  <2>3. ContextsEnd'
    BY <1>3, <2>2 DEF Send, ContextsEnd, Waits
  <2> QED BY <2>1, <2>3
<1>4. CASE SendErr(c)
  <2>1. Routed'
    BY <1>0, <1>4 DEF SendErr, End, Routed
  <2>2. caller[c].id \in Ids
    BY <1>4, InCall DEF SendErr
  <2>3. slot[caller[c].id] = NoId
    BY <1>4, <2>2 DEF SendErr, Once, Routed
  <2>4. caller[c].id \notin live'
    BY <1>4, <2>3 DEF SendErr, cancelRequest, Remembered
  <2>5. live' \subseteq live /\ \A d \in Callers : d # c => caller'[d] = caller[d]
    BY <1>0, <1>4 DEF SendErr, cancelRequest, End
  <2>6. ContextsEnd'
    BY <2>4, <2>5 DEF ContextsEnd, Waits
  <2> QED BY <2>1, <2>6
<1>5. CASE TakeAnswer(c)
  <2>1. Routed'
    BY <1>0, <1>5 DEF TakeAnswer, End, Routed, TypeOK
  <2>2. \A d \in Callers : d # c => caller'[d] = caller[d]
    BY <1>0, <1>5 DEF TakeAnswer, End
  <2>3. ContextsEnd'
    BY <1>5, <2>2 DEF TakeAnswer, ContextsEnd, Waits
  <2> QED BY <2>1, <2>3
<1>6. CASE GiveUp(c)
  <2>1. Routed'
    BY <1>0, <1>6 DEF GiveUp, End, Routed
  <2>2. \A d \in Callers : d # c => caller'[d] = caller[d]
    BY <1>0, <1>6 DEF GiveUp, End
  <2>3. ContextsEnd'
    BY <1>6, <2>2 DEF GiveUp, ContextsEnd, Waits
  <2> QED BY <2>1, <2>3
<1> QED BY <1>1, <1>2, <1>3, <1>4, <1>5, <1>6 DEF Request

\* So do the other steps, when the agent echoes ids.
LEMMA OtherEcho ==
  ASSUME EchoInv, TypeOK', ~LegacyAgent,
         \/ \E i \in Ids : Expire(i) \/ cleanupRequest(i)
         \/ handleResponse
         \/ WriteClose \/ Close \/ OnClose
         \/ Agent
  PROVE  Routed' /\ ContextsEnd'
<1> USE DEF EchoInv, ManagerInv, wire
<1>1. live' \subseteq live /\ caller' = caller
  BY DEF Expire, cleanupRequest, cancelRequest, handleResponse, Receive, ReceiveUnknown,
     Deliver, Discard, deleteRequest, WriteClose, Close, OnClose, Agent, AgentAnswer,
     AgentSilent, AgentIgnore
<1>2. ContextsEnd'
  BY <1>1 DEF ContextsEnd, Waits
<1>3. ASSUME NEW i \in Ids, Expire(i) \/ cleanupRequest(i) PROVE Routed'
  BY <1>3 DEF Expire, cleanupRequest, Routed
<1>4. CASE Receive
  <2>1. /\ Head(toHub) \in Message
        /\ Head(toHub).id = Head(toHub).for /\ Head(toHub).for \in served
        /\ \A k \in 1 .. Len(toHub') : toHub'[k].id = toHub'[k].for /\ toHub'[k].for \in served
    BY <1>4, TailFacts DEF Receive, Routed, TypeOK
  <2>2. PICK i \in Lookup(Head(toHub)) :
          reader' = [pc |-> "deliver", id |-> i, for |-> Head(toHub).for]
    BY <1>4 DEF Receive
  <2>3. Head(toHub).id # NoId
    BY <2>1, MaxIdAssumption DEF Message, Ids, NoId
  <2>4. i = Head(toHub).for
    BY <2>1, <2>2, <2>3, LookupFacts
  <2> QED BY <1>2, <1>4, <2>1, <2>2, <2>4 DEF Receive, Routed
<1>5. CASE ReceiveUnknown
  <2>1. \A k \in 1 .. Len(toHub') : toHub'[k].id = toHub'[k].for /\ toHub'[k].for \in served
    BY <1>5, TailFacts DEF ReceiveUnknown, Routed, TypeOK
  <2> QED BY <1>2, <1>5, <2>1 DEF ReceiveUnknown, Routed
<1>6. CASE Deliver
  BY <1>2, <1>6 DEF Deliver, Routed, TypeOK, ReaderType
<1>7. CASE Discard \/ deleteRequest
  BY <1>2, <1>7 DEF Discard, deleteRequest, Idle, Routed
<1>8. CASE WriteClose \/ Close
  BY <1>2, <1>8 DEF WriteClose, Close, Routed
<1>9. CASE OnClose
  BY <1>2, <1>9 DEF OnClose, Routed
<1>10. CASE AgentAnswer
  <2> DEFINE answer == [id |-> Head(toAgent), for |-> Head(toAgent)]
  <2>1. Head(toAgent) \in Ids
    BY <1>10, TailFacts DEF AgentAnswer, TypeOK
  <2>2. answer \in Message
    BY <2>1, MaxIdAssumption DEF Message, Ids, SomeId
  <2>3. CASE conn = "gone"
    BY <1>2, <1>10, <2>3 DEF AgentAnswer, Routed
  <2>4. CASE conn # "gone"
    <3>1. toHub' = Append(toHub, answer)
      BY <1>10, <2>4 DEF AgentAnswer
    <3>2. /\ Len(toHub') = Len(toHub) + 1
          /\ Len(toHub) \in Nat
          /\ \A k \in 1 .. Len(toHub) : toHub'[k] = toHub[k]
          /\ toHub'[Len(toHub) + 1] = answer
      BY <2>2, <3>1, AppendFacts DEF TypeOK
    <3>3. \A k \in 1 .. Len(toHub') : k \in 1 .. Len(toHub) \/ k = Len(toHub) + 1
      BY <3>2
    <3>4. answer.id = answer.for /\ answer.for \in served'
      BY <1>10 DEF AgentAnswer
    <3>5. \A k \in 1 .. Len(toHub') : toHub'[k].id = toHub'[k].for /\ toHub'[k].for \in served'
      BY <1>10, <3>2, <3>3, <3>4 DEF AgentAnswer, Routed
    <3> QED BY <1>2, <1>10, <3>5 DEF AgentAnswer, Routed
  <2> QED BY <2>3, <2>4
<1>11. CASE AgentSilent \/ AgentIgnore
  BY <1>2, <1>11 DEF AgentSilent, AgentIgnore, Routed
<1> QED BY <1>2, <1>3, <1>4, <1>5, <1>6, <1>7, <1>8, <1>9, <1>10, <1>11
        DEF handleResponse, Agent

\* The invariant with answers kept by their requests is inductive.
LEMMA EchoInductive ==
  ASSUME ~LegacyAgent, EchoInv, [Next]_vars
  PROVE  EchoInv'
<1>1. ManagerInv'
  BY Inductive DEF EchoInv
<1>2. TypeOK'
  BY <1>1 DEF ManagerInv
<1>3. ASSUME NEW c \in Callers, Refuse(c) \/ Request(c) PROVE Routed' /\ ContextsEnd'
  BY <1>2, <1>3, CallEcho
<1>4. ASSUME \/ \E i \in Ids : Expire(i) \/ cleanupRequest(i)
             \/ handleResponse
             \/ WriteClose \/ Close \/ OnClose
             \/ Agent
      PROVE  Routed' /\ ContextsEnd'
  BY <1>2, <1>4, OtherEcho
<1>5. CASE UNCHANGED vars
  BY <1>1, <1>5 DEF vars, EchoInv, Routed, ContextsEnd, Waits
<1> QED BY <1>1, <1>3, <1>4, <1>5 DEF Next, EchoInv

\* It holds initially.
LEMMA EchoInit == Init => EchoInv
<1> SUFFICES ASSUME Init PROVE EchoInv
  OBVIOUS
<1>1. Routed
  BY DEF Init, Idle, Routed
<1>2. ContextsEnd
  BY DEF Init, ContextsEnd
<1> QED BY <1>1, <1>2, InitInv DEF EchoInv

\* With agents that echo ids, no context is left to its timer when its call has ended.
THEOREM ContextsAreCancelled ==
  ASSUME ~LegacyAgent
  PROVE  Spec => []ContextsEnd
<1>1. EchoInv /\ [Next]_vars => EchoInv'
  BY EchoInductive
<1>2. EchoInv => ContextsEnd
  BY DEF EchoInv
<1> QED BY <1>1, <1>2, EchoInit, PTL DEF Spec

----------------------------------------------------------------------------
(* The transport implements RequestReply.                                    *)

\* The steps of a call are steps of RequestReply.
LEMMA CallRefines ==
  ASSUME EchoInv, NEW c \in Callers, Refuse(c) \/ Request(c)
  PROVE  [Reply!NextReply]_(Reply!replyVars)
<1> USE DEF EchoInv, ManagerInv, wire
<1>0. caller \in [Callers -> CallerType]
  BY DEF TypeOK
<1>1. CASE Refuse(c)
  <2>1. Reply!RefuseCall(c)
    BY <1>0, <1>1 DEF Refuse, End, TypeOK, Reply!RefuseCall
  <2> QED BY <2>1 DEF Reply!NextReply
<1>2. CASE CreateRequest(c)
  <2>1. nextID + 1 \in Ids \ (1 .. nextID) /\ 1 .. nextID' = (1 .. nextID) \cup {nextID + 1}
    BY <1>2, MaxIdAssumption DEF CreateRequest, TypeOK, Ids, SomeId
  <2>2. Reply!Call(c)
    BY <1>0, <1>2, <2>1 DEF CreateRequest, TypeOK, Reply!Call
  <2> QED BY <2>2 DEF Reply!NextReply
<1>3. CASE Send(c)
  <2>1. \A d \in Callers : caller'[d].id = caller[d].id /\ caller'[d].got = caller[d].got
    BY <1>0, <1>3 DEF Send, CallerType
  <2> QED BY <1>3, <2>1 DEF Send, Reply!replyVars
<1>4. CASE SendErr(c)
  <2>1. Reply!FailCall(c)
    BY <1>0, <1>4 DEF SendErr, End, TypeOK, Routed, Reply!FailCall
  <2> QED BY <2>1 DEF Reply!NextReply
<1>5. CASE TakeAnswer(c)
  <2>1. caller[c].id \in Ids
    BY <1>5, InCall DEF TakeAnswer
  <2>2. slot[caller[c].id] = caller[c].id /\ caller[c].id \in served
    BY <1>5, <2>1 DEF TakeAnswer, Routed
  <2>3. Reply!Return(c)
    BY <1>0, <1>5, <2>2 DEF TakeAnswer, End, Reply!Return
  <2> QED BY <2>3 DEF Reply!NextReply
<1>6. CASE GiveUp(c)
  <2>1. Reply!FailCall(c)
    BY <1>0, <1>6 DEF GiveUp, End, TypeOK, Routed, Reply!FailCall
  <2> QED BY <2>1 DEF Reply!NextReply
<1> QED BY <1>1, <1>2, <1>3, <1>4, <1>5, <1>6 DEF Request

\* Of the other steps only the agent's are visible to a caller.
LEMMA OtherRefines ==
  ASSUME EchoInv,
         \/ \E i \in Ids : Expire(i) \/ cleanupRequest(i)
         \/ handleResponse
         \/ WriteClose \/ Close \/ OnClose
         \/ Agent
  PROVE  [Reply!NextReply]_(Reply!replyVars)
<1>1. CASE AgentAnswer \/ AgentSilent
  <2>1. toAgent # <<>>
    BY <1>1 DEF AgentAnswer, AgentSilent
  <2>2. Head(toAgent) \in Ids /\ Head(toAgent) <= nextID /\ Head(toAgent) \notin served
    BY <2>1, TailFacts DEF EchoInv, ManagerInv, TypeOK, Known, Once
  <2>3. Head(toAgent) \in (1 .. nextID) \ served
    BY <2>2, MaxIdAssumption DEF Ids, EchoInv, ManagerInv, TypeOK, SomeId
  <2>4. Reply!ServeRequest(Head(toAgent))
    BY <1>1, <2>3 DEF AgentAnswer, AgentSilent, Reply!ServeRequest
  <2> QED BY <2>2, <2>4 DEF Reply!NextReply
<1>2. CASE ~(AgentAnswer \/ AgentSilent)
  <2>1. UNCHANGED <<nextID, caller, served>>
    BY <1>2 DEF Expire, cleanupRequest, handleResponse, Receive, ReceiveUnknown,
       Deliver, Discard, deleteRequest, WriteClose, Close, OnClose, Agent, AgentIgnore, wire
  <2> QED BY <2>1 DEF Reply!replyVars
<1> QED BY <1>1, <1>2

\* The transport implements RequestReply for any number of callers and requests when
\* the agent echoes ids: a call returns the answer to its own request, which the agent
\* carried out exactly once, or it fails.
THEOREM Implements ==
  ASSUME ~LegacyAgent
  PROVE  Spec => ReplySpec
<1>1. Init => Reply!InitReply
  BY MaxIdAssumption DEF Init, Reply!InitReply, NoId
<1>2. EchoInv /\ [Next]_vars => EchoInv'
  BY EchoInductive
<1>3. EchoInv /\ [Next]_vars => [Reply!NextReply]_(Reply!replyVars)
  <2> SUFFICES ASSUME EchoInv, [Next]_vars PROVE [Reply!NextReply]_(Reply!replyVars)
    OBVIOUS
  <2>1. ASSUME NEW c \in Callers, Refuse(c) \/ Request(c)
        PROVE  [Reply!NextReply]_(Reply!replyVars)
    BY <2>1, CallRefines
  <2>2. CASE \/ \E i \in Ids : Expire(i) \/ cleanupRequest(i)
             \/ handleResponse
             \/ WriteClose \/ Close \/ OnClose
             \/ Agent
    BY <2>2, OtherRefines
  <2>3. CASE UNCHANGED vars
    BY <2>3 DEF vars, Reply!replyVars
  <2> QED BY <2>1, <2>2, <2>3 DEF Next
<1> QED BY <1>1, <1>2, <1>3, EchoInit, PTL DEF Spec, ReplySpec, Reply!Spec
=============================================================================

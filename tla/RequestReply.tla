---------------------------- MODULE RequestReply ----------------------------
(* What a caller of the hub's transport may rely on, whatever the maps,      *)
(* channels and contexts behind it do.  A call makes one request; the agent  *)
(* carries it out at most once; the call returns the agent's answer to that  *)
(* very request, or it fails.  A failed call promises nothing: the agent may *)
(* have carried the request out, and may still do so.                        *)
CONSTANTS
  Callers,    \* goroutines of the hub that ask the agent for something
  Requests,   \* requests
  NoRequest   \* a value that is no request

VARIABLES
  mine,     \* mine[c]: the request of c's call, NoRequest between calls
  answer,   \* answer[c]: the request whose answer c's last call returned
  made,     \* requests ever made
  served    \* requests the agent carried out

replyVars == <<mine, answer, made, served>>

InitReply ==
  /\ mine = [c \in Callers |-> NoRequest]
  /\ answer = [c \in Callers |-> NoRequest]
  /\ made = {}
  /\ served = {}

\* The connection is known to be gone: nothing is asked of the agent.
RefuseCall(c) ==
  /\ mine[c] = NoRequest
  /\ answer' = [answer EXCEPT ![c] = NoRequest]
  /\ UNCHANGED <<mine, made, served>>

Call(c) ==
  /\ mine[c] = NoRequest
  /\ \E r \in Requests \ made :
       /\ mine' = [mine EXCEPT ![c] = r]
       /\ made' = made \cup {r}
  /\ answer' = [answer EXCEPT ![c] = NoRequest]
  /\ UNCHANGED served

ServeRequest(r) ==
  /\ r \in made \ served
  /\ served' = served \cup {r}
  /\ UNCHANGED <<mine, answer, made>>

Return(c) ==
  /\ mine[c] \in served
  /\ answer' = [answer EXCEPT ![c] = mine[c]]
  /\ mine' = [mine EXCEPT ![c] = NoRequest]
  /\ UNCHANGED <<made, served>>

FailCall(c) ==
  /\ mine[c] # NoRequest
  /\ mine' = [mine EXCEPT ![c] = NoRequest]
  /\ UNCHANGED <<answer, made, served>>

NextReply ==
  \/ \E c \in Callers : RefuseCall(c) \/ Call(c) \/ Return(c) \/ FailCall(c)
  \/ \E r \in Requests : ServeRequest(r)

Spec == InitReply /\ [][NextReply]_replyVars
=============================================================================

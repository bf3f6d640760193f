-------------------------- MODULE MCSystemManager --------------------------
(* Instances of SystemManager for TLC.                                     *)
EXTENDS SystemManager, TLC

CONSTANTS s1, s3, c1   \* members of Sys and Conns

Symmetry == Permutations(Sys) \cup Permutations(Conns)

\* Bound of the safety run: a request or a second connection, not both.
OneDisturbance == \/ \A u \in Users : At(<<"user", u>>, "off")
                  \/ \E c \in Conns : conn[c] = "unused"

\* The liveness run starts with a registered system, without a connection (and two
\* more structs for registrations to come) or served by c1 (and one more struct): states
\* Spec reaches, but for the structs and connections that were used up before.
Spent == [Blank EXCEPT !.status = "down"]

LiveInit ==
  /\ record \in {"up", "down"}
  /\ store = s1
  /\ \E c \in {c1, NoConn} :
       /\ sys = [i \in Sys |->
                   IF i = s1 THEN [status |-> record, ws |-> c, cancelled |-> FALSE]
                   ELSE IF i = s3 /\ c = c1 THEN Spent ELSE Blank]
       /\ conn = [d \in Conns |-> IF d # c1 THEN "unused"
                                  ELSE IF c = c1 THEN "open" ELSE "gone"]
  /\ down = [c \in Conns |-> "empty"]
  /\ thr = [t \in Threads |-> IF t = Updater(s1)
                              THEN [Off EXCEPT !.pc = "start"] ELSE Off]

LiveSpec == LiveInit /\ [][Next]_vars /\ Fairness
=============================================================================

---------------------------- MODULE MCAgentData ----------------------------
(* The updater's rate and the realtime worker's.                             *)
EXTENDS AgentData, TLC

MCHalf == "60000" :> 2 @@ "1000" :> 1
=============================================================================

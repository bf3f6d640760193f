----------------------------- MODULE MCRecords -----------------------------
(* A small instance of Records for TLC: two levels with the shape of 1m to 10m *)
(* (one row may be missing) and 10m to 20m (none may).                         *)
EXTENDS Records, TLC

MCDuration == <<2, 4>>
MCMinShorter == <<1, 2>>
MCRetention == 0 :> 3 @@ 1 :> 5 @@ 2 :> 5
=============================================================================

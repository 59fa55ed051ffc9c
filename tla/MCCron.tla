-------------------------------- MODULE MCCron --------------------------------
(* Three entries for TLC: one due twice, one once together with the first, one *)
(* whose schedule is over at once.                                             *)
EXTENDS Cron, TLC

CONSTANTS i1, i2, i3

MCPlan == i1 :> {1, 3} @@ i2 :> {2, 3} @@ i3 :> {1}

=============================================================================

----------------------------- MODULE MCTaskPlot -----------------------------
(* TaskPlot with three tasks, one of which ran on two CPUs, a task that only *)
(* appears in wakeups and ghost tasks.                                       *)
EXTENDS TaskPlot, TLC

MCAliasOf == 4 :> 2 @@ 5 :> NoTask
MCCPUsOf  == 1 :> {0, 1} @@ 2 :> {1} @@ 3 :> {0} @@ 6 :> {}
=============================================================================

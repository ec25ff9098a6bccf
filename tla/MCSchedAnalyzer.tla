--------------------------- MODULE MCSchedAnalyzer ---------------------------
EXTENDS SchedAnalyzer, TLC

(* Events further apart than the fake times reach; switches and wakeups can *)
(* get lost.                                                               *)
SpacedWorkload ==
    [steps |-> {3}, spurious |-> FALSE, aliases |-> {},
     lossy |-> {"switch", "wakeup"}, maxEvents |-> 5]

(* Events at the same time or closer than the fake times reach, wakeups of  *)
(* tasks that run, and aliases: the PID of another task, and of no task.    *)
DenseWorkload ==
    [steps |-> {0, 2}, spurious |-> TRUE, aliases |-> {2, 9},
     lossy |-> {"switch"}, maxEvents |-> 4]

(* Tasks that are woken up while they run, of which the trace may not tell.  *)
WokenWorkload ==
    [steps |-> {3}, spurious |-> TRUE, aliases |-> {},
     lossy |-> {"wakeup"}, maxEvents |-> 5]

MCWorkloads == {SpacedWorkload, DenseWorkload, WokenWorkload}

(* The handlers treat all CPUs alike.                                      *)
CPUSymmetry == Permutations(CPUs)
=============================================================================

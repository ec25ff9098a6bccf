---------------------------- MODULE MCEventFilter ----------------------------
(* EventFilter with a trace of two tasks, in which the first wakes the second *)
(* and the idle task switches to it, and a trace of one task.                 *)
EXTENDS EventFilter

Event(id, pid, cpu, type, time, target, matches) ==
  [id |-> id, pid |-> pid, cpu |-> cpu, type |-> type, time |-> time,
   target |-> target, matches |-> matches]

MCTraces ==
  {[events |-> <<Event(1, 1, 0, "wakeup", 1, 2, {"good"}),
                 Event(2, 0, 1, "switch", 2, 2, {}),
                 Event(3, 2, 1, "switch", 2, NoTarget, {"good"})>>,
    tasks |-> {1, 2}, cpus |-> {0, 1}],
   [events |-> <<Event(4, 1, 0, "wakeup", 1, 1, {}),
                 Event(5, 0, 0, "switch", 2, 1, {"good"})>>,
    tasks |-> {1}, cpus |-> {0}]}

(* Around the trace, and its first event only.                               *)
MCIntervals == {<<0, 3>>, <<1, 1>>}
=============================================================================

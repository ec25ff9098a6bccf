------------------------------ MODULE MCCursors ------------------------------
EXTENDS Cursors

(* What the kernel does, event by event: a trace so far, the task on each     *)
(* CPU, and what the others are up to. Task 1 runs on CPU 0 at the start.    *)
Start(cpus, others) ==
    [events |-> <<>>,
     on |-> [c \in cpus |-> IF c = 0 THEN 1 ELSE Idle],
     state |-> [p \in Tasks |-> IF p = 1 THEN "on" ELSE others]]

Event(r, step, type, cpu, target, sleeps) ==
    [type |-> type, cpu |-> cpu, pid |-> r.on[cpu], target |-> target, sleeps |-> sleeps,
     time |-> IF r.events = <<>> THEN 2 ELSE r.events[Len(r.events)].time + step]

Switches(r, step) ==
    {[events |-> Append(r.events, Event(r, step, "switch", x[1], x[2], x[3])),
      on |-> [r.on EXCEPT ![x[1]] = x[2]],
      state |-> [p \in Tasks |-> IF p = x[2] THEN "on"
                                 ELSE IF p # r.on[x[1]] THEN r.state[p]
                                 ELSE IF x[3] THEN "sleeps" ELSE "ready"]] :
     x \in {y \in (DOMAIN r.on) \X AllTasks \X BOOLEAN :
              /\ y[2] # r.on[y[1]]
              /\ y[2] # Idle => r.state[y[2]] = "ready"
              /\ y[3] => r.on[y[1]] # Idle}}

Wakes(r, step, type, from, to) ==
    {[events |-> Append(r.events, Event(r, step, type, 0, p, FALSE)),
      on |-> r.on,
      state |-> [r.state EXCEPT ![p] = to]] :
     p \in {q \in Tasks : r.state[q] = from}}

RECURSIVE Runs(_, _)
Runs(start, steps) ==
    IF steps = <<>> THEN {start}
    ELSE UNION {Runs(r, Tail(steps)) :
                r \in UNION {Switches(start, step)
                               \union Wakes(start, step, "waking", "sleeps", "wakes")
                               \union Wakes(start, step, "wakeup", "wakes", "ready")
                             : step \in Head(steps)}}

(* One CPU and five events, the first two at the same time, as are the last   *)
(* two; or two CPUs and three events, with a task that migrates.            *)
Scheduled(r, cpu, pid) ==
    \E i \in DOMAIN r.events :
        /\ r.events[i].type = "switch"
        /\ r.events[i].cpu = cpu
        /\ r.events[i].target = pid

MCTraces ==
    {r.events : r \in {q \in Runs(Start({0}, "sleeps"), <<{0}, {0}, {2}, {2}, {0}>>) :
                          Scheduled(q, 0, 2)}
                 \union {q \in Runs(Start({0, 1}, "ready"), <<{0}, {2}, {2}>>) :
                          Scheduled(q, 0, 2) /\ Scheduled(q, 1, 1)}}
MCTimes == {1, 5, 9}
MCName == [p \in AllTasks |-> 0]
=============================================================================

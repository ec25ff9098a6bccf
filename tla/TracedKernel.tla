---------------------------- MODULE TracedKernel ----------------------------
(***************************************************************************)
(* What a trace is a record of: the tasks of a Linux system that are       *)
(* switched in and out on its CPUs, sleep, are woken up, fork and exit.    *)
(* The kernel is not part of the program; the module states what the       *)
(* handlers in analyzer/traceanalyzer.h rely on when they meet an event.   *)
(* SchedAnalyzer EXTENDS it and handles the events.                        *)
(*                                                                         *)
(* since, how and ran are what the graphs, the latencies and the           *)
(* statistics of the analyzer are about, as the kernel would tell it.      *)
(***************************************************************************)
EXTENDS Integers, FiniteSets

CONSTANTS CPUs,            \* the CPUs of the traced system
          Tasks,           \* PIDs of tasks, the idle task excepted
          StartTime,       \* when the trace starts
          FirstSteps,      \* time from the start to the first event
          Workloads        \* kinds of traces: the steps in time from one event
                           \* to the next, whether tasks are woken up that do not
                           \* sleep, and a bound on the events

ASSUME TasksAssumption == Tasks \subseteq Nat \ {0}
ASSUME TimeAssumption  == /\ StartTime \in Nat \ {0}
                          /\ FirstSteps \subseteq Nat
ASSUME WorkloadsAssumption ==
    \A w \in Workloads : /\ w.steps \subseteq Nat
                         /\ w.spurious \in BOOLEAN
                         /\ w.maxEvents \in Nat

VARIABLES workload,\* the kind of this trace
          now,     \* the time of the last event
          events,  \* number of events so far
          current, \* the task on each CPU
          state,   \* of each task
          exiting, \* the tasks that have called exit
          since,   \* when a task became runnable for the last time
          how,     \* and by what: unknown means before the trace started
          ran      \* how long each task has been on a CPU, by the last event

kernel == <<workload, now, events, current, state, exiting, since, how, ran>>

Idle == 0

KernelTypeOK ==
    /\ workload \in Workloads
    /\ now \in Nat
    /\ events \in 0 .. workload.maxEvents
    /\ current \in [CPUs -> Tasks \union {Idle}]
    /\ state \in [Tasks -> {"running", "ready", "sleeping", "gone"}]
    /\ exiting \subseteq Tasks
    /\ since \in [Tasks -> Nat]
    /\ how \in [Tasks -> {"unknown", "wakeup", "switched_out"}]
    /\ ran \in [Tasks -> Nat]

KernelInit ==
    /\ workload \in Workloads
    /\ now = StartTime
    /\ events = 0
    /\ current \in [CPUs -> Tasks \union {Idle}]
    /\ \A c, d \in CPUs : c # d /\ current[c] = current[d] => current[c] = Idle
    /\ state \in [Tasks -> {"running", "ready", "sleeping", "gone"}]
    /\ \A t \in Tasks : state[t] = "running" <=> \E c \in CPUs : current[c] = t
    /\ exiting = {}
    /\ since = [t \in Tasks |-> StartTime]
    /\ how = [t \in Tasks |-> "unknown"]
    /\ ran = [t \in Tasks |-> 0]

(* Time passes until the next event; whoever is on a CPU runs.             *)
Tick ==
    /\ events < workload.maxEvents
    /\ events' = events + 1
    /\ workload' = workload
    /\ \E step \in IF events = 0 THEN FirstSteps ELSE workload.steps :
          /\ now' = now + step
          /\ ran' = [t \in Tasks |-> IF state[t] = "running"
                                     THEN ran[t] + step ELSE ran[t]]

(* The CPU switches from its task, which stays runnable or not, to another. *)
Switch(c, new, runnable) ==
    LET old == current[c] IN
    /\ Tick
    /\ new # old
    /\ new # Idle => state[new] = "ready"
    /\ old = Idle => runnable
    /\ current' = [current EXCEPT ![c] = new]
    /\ state' = [t \in Tasks |->
                    IF t = new THEN "running"
                    ELSE IF t # old THEN state[t]
                    ELSE IF runnable THEN "ready"
                    ELSE IF t \in exiting THEN "gone" ELSE "sleeping"]
    /\ exiting' = IF runnable THEN exiting ELSE exiting \ {old}
    /\ since' = [t \in Tasks |-> IF t = old /\ runnable THEN now' ELSE since[t]]
    /\ how' = [t \in Tasks |-> IF t = old /\ runnable
                               THEN "switched_out" ELSE how[t]]

(* A task that sleeps becomes runnable.                                     *)
WakeUp(t) ==
    /\ Tick
    /\ state[t] = "sleeping"
    /\ state' = [state EXCEPT ![t] = "ready"]
    /\ since' = [since EXCEPT ![t] = now']
    /\ how' = [how EXCEPT ![t] = "wakeup"]
    /\ UNCHANGED <<current, exiting>>

(* A task is woken up before it has gone to sleep: try_to_wake_up() of the  *)
(* task that runs, as when it sets its state and finds no reason to sleep.  *)
WakeUpRunning(t) ==
    /\ workload.spurious
    /\ Tick
    /\ state[t] = "running"
    /\ UNCHANGED <<current, state, exiting, since, how>>

(* A new task, which sleeps until sched_wakeup_new; PIDs are used again.    *)
Fork(t) ==
    /\ Tick
    /\ state[t] = "gone"
    /\ state' = [state EXCEPT ![t] = "sleeping"]
    /\ UNCHANGED <<current, exiting, since, how>>

(* The task on the CPU calls exit; it is switched out later.                *)
Exit(c) ==
    /\ Tick
    /\ current[c] \in Tasks \ exiting
    /\ exiting' = exiting \union {current[c]}
    /\ UNCHANGED <<current, state, since, how>>
=============================================================================

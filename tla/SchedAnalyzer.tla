---------------------------- MODULE SchedAnalyzer ----------------------------
(***************************************************************************)
(* The extraction of scheduling data from the events of a trace:           *)
(* TraceAnalyzer::processGeneric() and the handlers it calls               *)
(* (analyzer/traceanalyzer.h), handleWrongTaskOnCPU() and                  *)
(* processSchedAddTail() (analyzer/traceanalyzer.cpp), with the run time    *)
(* that AbstractTask::doStats() computes from the result.                  *)
(*                                                                         *)
(* Every task has one graph for each CPU (cpuTaskMaps) and a unified one    *)
(* (taskMap). A graph is a step function that grows by one point at a time; *)
(* what the handlers read of it is only whether it is empty and its last    *)
(* point, so a graph is that point here, with the run time summed up so far *)
(* and whether the points are in the order of time. An event that is lost   *)
(* happens in the kernel and is handled by nobody.                          *)
(***************************************************************************)
EXTENDS TracedKernel

CONSTANTS Delta,    \* FAKE_DELTA
          Aliases   \* PIDs that may stand in an event for the task's own

ASSUME DeltaAssumption == Delta \in Nat \ {0}
ASSUME AliasesAssumption == Aliases \subseteq Nat \ {0}

(* A kind of traces has aliases, and kinds of events that can get lost.     *)
ASSUME LossyAssumption ==
    \A w \in Workloads : w.aliases \subseteq Aliases /\ w.lossy \subseteq {"switch", "wakeup"}

VARIABLES cpu,        \* CPUs[]
          cpuTask,    \* cpuTaskMaps[]: the graphs of each CPU
          task,       \* taskMap
          latency,    \* what the last event added to the lists of latencies
          lost,       \* kinds of events that have been lost so far
          missed,     \* history: tasks whose last wakeup has been lost
          usedAlias,  \* the tasks that each alias has stood for so far
          done        \* the tail has been added

analyzer == <<cpu, cpuTask, task, latency>>
vars == <<kernel, analyzer, lost, missed, usedAlias, done>>

NoTask == 0
SCHED_BIT == 1
FLOOR_BIT == 0

Pids == Tasks \union Aliases

(***************************************************************************)
(* Graphs (AbstractTask). isNew is TRUE as long as there are no points.     *)
(***************************************************************************)
Graph == [isNew : BOOLEAN, time : Int, bit : {SCHED_BIT, FLOOR_BIT},
          event : Nat, accTime : Int, sorted : BOOLEAN]

EmptyGraph == [isNew |-> TRUE, time |-> 0, bit |-> FLOOR_BIT,
               event |-> 0, accTime |-> 0, sorted |-> TRUE]

(* schedTimev, schedData and schedEventIdx get one more element. doStats()  *)
(* goes through them later, by the times of the events: the first point      *)
(* counts from the start of the trace.                                      *)
AddPoint(g, time, bit, event) ==
    [isNew |-> FALSE, time |-> time, bit |-> bit, event |-> event,
     accTime |-> g.accTime +
                   (IF g.isNew
                    THEN IF bit = SCHED_BIT THEN event - StartTime ELSE 0
                    ELSE IF g.bit = SCHED_BIT THEN event - g.event ELSE 0),
     sorted |-> g.sorted /\ (g.isNew \/ g.time <= time)]

(* The task was running, or was not, when the trace started.                *)
Begin(g, bit, event) == IF g.isNew THEN AddPoint(g, StartTime, bit, event) ELSE g

(* The graph is extended to the end of the trace.                           *)
ExtendToEnd(g) == IF g.isNew \/ g.time >= now THEN g ELSE AddPoint(g, now, g.bit, now)

(* What doStats() says when the trace has ended.                            *)
AccTime(g) == g.accTime + IF ~g.isNew /\ g.bit = SCHED_BIT
                          THEN now - g.event ELSE 0

(***************************************************************************)
(* Tasks and CPUs.                                                          *)
(***************************************************************************)
Task == [graph : Graph,
         exitStatus : {"alive", "exitcalled", "final"},
         lastRunnable : Int,
         lastRunnable_status : {"invalid", "wakeup", "sched"},
         lastSleepEntry : Int,
         isGhostAliasForPID : Tasks \union {NoTask},
         oneToManyError : BOOLEAN]

NewTask == [graph |-> EmptyGraph,
            exitStatus |-> "alive",
            lastRunnable |-> 0,
            lastRunnable_status |-> "invalid",
            lastSleepEntry |-> 0,
            isGhostAliasForPID |-> NoTask,
            oneToManyError |-> FALSE]

CPU == [pidOnCPU : Tasks \union {Idle}, hasBeenScheduled : BOOLEAN,
        lastSched : Int, lastSchedEvent : Nat,
        lastEnterIdle : Int, lastExitIdle : Int]

NewCPU == [pidOnCPU |-> Idle, hasBeenScheduled |-> FALSE,
           lastSched |-> 0, lastSchedEvent |-> 0,
           lastEnterIdle |-> 0, lastExitIdle |-> 0]

(* The delays of the task that the last event scheduled, if they were       *)
(* recorded: sets of at most one delay. And whether nothing was known of    *)
(* the task before, which its isNew says until then.                        *)
Latency == [pid : Tasks \union {NoTask}, first : BOOLEAN,
            sched : SUBSET Int, wake : SUBSET Int]
NoLatency == [pid |-> NoTask, first |-> FALSE, sched |-> {}, wake |-> {}]

TypeOK ==
    /\ KernelTypeOK
    /\ cpu \in [CPUs -> CPU]
    /\ cpuTask \in [CPUs -> [Tasks -> Graph]]
    /\ task \in [Pids -> Task]
    /\ latency \in Latency
    /\ lost \subseteq workload.lossy
    /\ missed \subseteq Tasks
    /\ usedAlias \in [Aliases -> SUBSET Tasks]
    /\ done \in BOOLEAN

Init ==
    /\ KernelInit
    /\ cpu = [c \in CPUs |-> NewCPU]
    /\ cpuTask = [c \in CPUs |-> [t \in Tasks |-> EmptyGraph]]
    /\ task = [p \in Pids |-> NewTask]
    /\ latency = NoLatency
    /\ lost = {}
    /\ missed = {}
    /\ usedAlias = [a \in Aliases |-> {}]
    /\ done = FALSE

(***************************************************************************)
(* processSwitchEvent(). There is no record of when the old task left the   *)
(* CPU and the new one got it, so they do it FAKE_DELTA before and after    *)
(* the event. Events that are too close for that are spread.                *)
(***************************************************************************)
TooClose(c, time) == /\ cpu[c].hasBeenScheduled
                     /\ cpu[c].lastSched >= time - Delta

(* A mutant: switches at the same time are not spread.                       *)
MidTimeUnspread(c, time) == time

MidTime(c, time) == IF TooClose(c, time) THEN cpu[c].lastSched + 2 * Delta
                    ELSE time

WrongTask(c, old) == /\ cpu[c].hasBeenScheduled
                     /\ cpu[c].pidOnCPU # old

(* A mutant: the task that was expected on the CPU is forgotten.             *)
CorrectNewcomer(g, c, old, t, time) ==
    IF t = old THEN AddPoint(g, time - 2 * Delta, SCHED_BIT, time) ELSE g

(* handleWrongTaskOnCPU(): the task that was expected on the CPU has left it *)
(* right after it was scheduled, and the other one has just come.           *)
Correct(g, c, old, t, time) ==
    IF t = cpu[c].pidOnCPU
    THEN AddPoint(g, cpu[c].lastSched + Delta, FLOOR_BIT, cpu[c].lastSchedEvent)
    ELSE IF t = old THEN AddPoint(g, time - 2 * Delta, SCHED_BIT, time)
    ELSE g

(* A mutant: the last task counts.                                          *)
NoteAliasLast(r, old) == [r EXCEPT !.isGhostAliasForPID = old]

(* The pid of the event is another one than that of the task it is about.   *)
NoteAlias(r, old) ==
    IF r.isGhostAliasForPID = NoTask
    THEN [r EXCEPT !.isGhostAliasForPID = old]
    ELSE [r EXCEPT !.oneToManyError = @ \/ r.isGhostAliasForPID # old]

(* A mutant: a task that was never seen before has not been running.         *)
LeaveUnseen(g, c, time) ==
    AddPoint(Begin(g, FLOOR_BIT, StartTime),
             MidTime(c, time) - Delta, FLOOR_BIT, time)

(* The outgoing task: a graph of it, and its entry in taskMap. A new entry   *)
(* gets the last point twice, which changes nothing of what is kept here.    *)
Leave(g, c, time) ==
    AddPoint(Begin(g, SCHED_BIT, StartTime),
             MidTime(c, time) - Delta, FLOOR_BIT, time)

(* A mutant: a task that has called exit is not touched any more.            *)
TaskLeavesUnlessExited(r, c, runnable, time) ==
    IF r.exitStatus = "exitcalled" THEN [r EXCEPT !.exitStatus = "final"]
    ELSE [r EXCEPT !.graph = Leave(@, c, time),
                   !.lastRunnable = IF runnable THEN MidTime(c, time) ELSE @,
                   !.lastRunnable_status = IF runnable THEN "sched" ELSE "invalid",
                   !.lastSleepEntry = IF runnable THEN @
                                      ELSE MidTime(c, time) - Delta]

TaskLeaves(r, c, runnable, time) ==
    [r EXCEPT !.graph = Leave(@, c, time),
              !.exitStatus = IF @ = "exitcalled" THEN "final" ELSE @,
              !.lastRunnable = IF runnable THEN MidTime(c, time) ELSE @,
              !.lastRunnable_status = IF runnable THEN "sched" ELSE "invalid",
              !.lastSleepEntry = IF runnable THEN @
                                 ELSE MidTime(c, time) - Delta]

(* The incoming task.                                                       *)
Enter(g, c, firstEvent, time) ==
    AddPoint(Begin(g, FLOOR_BIT, firstEvent),
             MidTime(c, time) + Delta, SCHED_BIT, time)

(* estimateSchedDelayNew(): a task nothing was known of has waited from the  *)
(* start, unless its CPU has been idle since.                               *)
EstimateNew(c, exitIdle, mid) ==
    IF cpu[c].hasBeenScheduled /\ cpu[c].lastEnterIdle < exitIdle THEN {}
    ELSE {mid - StartTime}

(* A mutant: the status is not looked at.                                   *)
EstimateAnyStatus(r, valid, mid) ==
    IF r.lastRunnable >= r.lastSleepEntry THEN {mid - r.lastRunnable} ELSE {}

(* estimateSchedDelay() and estimateWakeDelay()                             *)
Estimate(r, valid, mid) ==
    IF r.lastRunnable_status \in valid /\ r.lastRunnable >= r.lastSleepEntry
    THEN {mid - r.lastRunnable} ELSE {}

Delays(r, c, exitIdle, new, mid) ==
    IF r.graph.isNew
    THEN [pid |-> new, first |-> TRUE,
          sched |-> EstimateNew(c, exitIdle, mid), wake |-> {}]
    ELSE [pid |-> new, first |-> FALSE, sched |-> Estimate(r, {"wakeup", "sched"}, mid),
          wake |-> Estimate(r, {"wakeup"}, mid)]

(* Before the event itself: its pid, and what is wrong with the CPU.        *)
CorrectedTask(p, c, pid, old, time) ==
    LET r == IF p = pid /\ p # old /\ old # Idle THEN NoteAlias(task[p], old)
             ELSE task[p]
    IN  IF ~WrongTask(c, old) \/ p \notin Tasks THEN r
        ELSE [r EXCEPT !.graph = Correct(@, c, old, p, time),
                       !.lastSleepEntry = IF p = cpu[c].pidOnCPU
                                          THEN cpu[c].lastSched + Delta ELSE @]

CorrectedGraph(t, c, old, time) ==
    IF WrongTask(c, old) THEN Correct(cpuTask[c][t], c, old, t, time)
    ELSE cpuTask[c][t]

LastExitIdle(c, old, time) ==
    IF old = Idle THEN MidTime(c, time) - Delta ELSE cpu[c].lastExitIdle

processSwitchEvent(c, pid, old, new, runnable, time) ==
    /\ task' = [p \in Pids |->
          LET r == CorrectedTask(p, c, pid, old, time) IN
          IF p = old THEN TaskLeaves(r, c, runnable, time)
          ELSE IF p = new THEN [r EXCEPT !.graph = Enter(@, c, StartTime, time)]
          ELSE r]
    /\ cpuTask' = [cpuTask EXCEPT ![c] = [t \in Tasks |->
          LET g == CorrectedGraph(t, c, old, time) IN
          IF t = old THEN Leave(g, c, time)
          ELSE IF t = new THEN Enter(g, c, time, time)
          ELSE g]]
    /\ latency' = IF new = Idle THEN NoLatency
                  ELSE Delays(CorrectedTask(new, c, pid, old, time), c,
                              LastExitIdle(c, old, time), new, MidTime(c, time))
    /\ cpu' = [cpu EXCEPT ![c] =
          [pidOnCPU |-> new, hasBeenScheduled |-> TRUE,
           lastSched |-> MidTime(c, time) + Delta, lastSchedEvent |-> time,
           lastEnterIdle |-> IF new = Idle THEN MidTime(c, time) + Delta
                             ELSE cpu[c].lastEnterIdle,
           lastExitIdle |-> LastExitIdle(c, old, time)]]

(* processWakeupEvent() for a successful wakeup                             *)
processWakeupEvent(t, time) ==
    /\ task' = [task EXCEPT ![t].lastRunnable = time,
                            ![t].lastRunnable_status = "wakeup",
                            ![t].graph = Begin(@, FLOOR_BIT, StartTime)]
    /\ latency' = NoLatency
    /\ UNCHANGED <<cpu, cpuTask>>

(* A mutant: the task need not be new, and begins at the start of the trace. *)
processForkEventAnyTask(t, time) ==
    /\ task' = [task EXCEPT ![t].lastRunnable_status = "invalid",
                            ![t].graph = AddPoint(@, StartTime, FLOOR_BIT, time)]
    /\ latency' = NoLatency
    /\ UNCHANGED <<cpu, cpuTask>>

(* processForkEvent(): the graph of a new task begins here.                 *)
processForkEvent(t, time) ==
    /\ task' = IF task[t].graph.isNew
               THEN [task EXCEPT
                        ![t].lastRunnable_status = "invalid",
                        ![t].graph = AddPoint(@, time, FLOOR_BIT, time)]
               ELSE task
    /\ latency' = NoLatency
    /\ UNCHANGED <<cpu, cpuTask>>

processExitEvent(t) ==
    /\ task' = [task EXCEPT ![t].exitStatus = "exitcalled"]
    /\ latency' = NoLatency
    /\ UNCHANGED <<cpu, cpuTask>>

(***************************************************************************)
(* The events.                                                              *)
(***************************************************************************)
SwitchEvent(c, new, runnable) ==
    /\ Switch(c, new, runnable)
    /\ \E pid \in {current[c]} \union workload.aliases :
          /\ current[c] = Idle => pid = Idle
          /\ processSwitchEvent(c, pid, current[c], new, runnable, now')
          /\ usedAlias' = IF pid = current[c] THEN usedAlias
                          ELSE [usedAlias EXCEPT ![pid] = @ \union {current[c]}]
    /\ missed' = missed \ {current[c]}
    /\ UNCHANGED <<lost, done>>

SwitchLost(c, new, runnable) ==
    /\ "switch" \in workload.lossy
    /\ Switch(c, new, runnable)
    /\ latency' = NoLatency
    /\ lost' = lost \union {"switch"}
    /\ UNCHANGED <<cpu, cpuTask, task, missed, usedAlias, done>>

WakeupEvent(t) ==
    /\ WakeUp(t) \/ WakeUpRunning(t)
    /\ processWakeupEvent(t, now')
    /\ missed' = missed \ {t}
    /\ UNCHANGED <<lost, usedAlias, done>>

WakeupLost(t) ==
    /\ "wakeup" \in workload.lossy
    /\ WakeUp(t)
    /\ latency' = NoLatency
    /\ lost' = lost \union {"wakeup"}
    /\ missed' = missed \union {t}
    /\ UNCHANGED <<cpu, cpuTask, task, usedAlias, done>>

ForkEvent(t) ==
    /\ Fork(t)
    /\ processForkEvent(t, now')
    /\ UNCHANGED <<lost, missed, usedAlias, done>>

ExitEvent(c) ==
    /\ Exit(c)
    /\ processExitEvent(current[c])
    /\ UNCHANGED <<lost, missed, usedAlias, done>>

(* The end of the file: processSchedAddTail().                              *)
processSchedAddTail ==
    /\ ~done
    /\ events > 0
    /\ done' = TRUE
    /\ cpuTask' = [c \in CPUs |-> [t \in Tasks |-> ExtendToEnd(cpuTask[c][t])]]
    /\ task' = [p \in Pids |->
          [task[p] EXCEPT
             !.graph = IF task[p].exitStatus = "final" THEN @ ELSE ExtendToEnd(@),
             !.isGhostAliasForPID = IF task[p].graph.isNew THEN @ ELSE NoTask]]
    /\ latency' = NoLatency
    /\ UNCHANGED <<kernel, cpu, lost, missed, usedAlias>>

Next ==
    \/ /\ ~done
       /\ \/ \E c \in CPUs, new \in Tasks \union {Idle}, runnable \in BOOLEAN :
                \/ SwitchEvent(c, new, runnable)
                \/ SwitchLost(c, new, runnable)
          \/ \E t \in Tasks : WakeupEvent(t) \/ WakeupLost(t) \/ ForkEvent(t)
          \/ \E c \in CPUs : ExitEvent(c)
    \/ processSchedAddTail

Spec == Init /\ [][Next]_vars

(***************************************************************************)
(* Properties.                                                              *)
(***************************************************************************)

(* Events on a CPU are never as close as the fake times reach.              *)
Spaced == \A step \in workload.steps : step > 2 * Delta

(* A CPU is never shown with two tasks, nor with another one than the       *)
(* handlers believe in, even if events are lost: handleWrongTaskOnCPU()     *)
(* ends the task that must have left and begins the one that must have come.*)
OneTaskPerCPU ==
    \A c \in CPUs :
        {t \in Tasks : cpuTask[c][t].bit = SCHED_BIT} =
        IF cpu[c].hasBeenScheduled THEN {cpu[c].pidOnCPU} \ {Idle} ELSE {}

(* The times in the graphs of a CPU never go back, although the handlers     *)
(* invent all of them: two switches of a CPU at the same time are spread.    *)
CPUGraphsSorted ==
    lost = {} => \A c \in CPUs, t \in Tasks : cpuTask[c][t].sorted

(* Nor do those of a unified graph, to which every CPU contributes, if the   *)
(* events are further apart than the fake times.                            *)
UnifiedGraphsSorted ==
    Spaced /\ lost = {} => \A p \in Pids : task[p].graph.sorted

(* As long as no switch is lost, a task is shown running in its unified      *)
(* graph if and only if it is shown on one of the CPUs. And when the trace   *)
(* has ended, a task that is on a CPU is shown there until the end, in its   *)
(* unified graph too unless it has exited, even if events were lost.        *)
GraphsAgree ==
    /\ "switch" \notin lost =>
          \A t \in Tasks : task[t].graph.bit = SCHED_BIT <=>
                           \E c \in CPUs : cpuTask[c][t].bit = SCHED_BIT
    /\ done =>
          \A c \in CPUs, t \in Tasks :
             cpu[c].hasBeenScheduled /\ cpu[c].pidOnCPU = t =>
                /\ cpuTask[c][t].time >= now
                /\ task[t].exitStatus # "final" => task[t].graph.time >= now

(* The statistics of a task say how long it has been running: doStats() on   *)
(* what the handlers recorded agrees with the kernel, whichever CPUs the     *)
(* task has been on and whether or not it ran when the trace began. (A task  *)
(* that is woken up while it runs before its first switch is taken for one   *)
(* that has not been running.)                                              *)
StatsMatchKernel ==
    "switch" \notin lost /\ ~workload.spurious =>
        \A t \in Tasks : ~task[t].graph.isNew => AccTime(task[t].graph) = ran[t]

(* Nothing was known of the task that the last event scheduled: its latency  *)
(* is estimateSchedDelayNew()'s.                                            *)
FirstSeen == latency.first

(* The latencies of a task are the time it has been waiting: since a wakeup,  *)
(* or since it was switched out runnable, and then there is no wakeup latency. *)
(* They are reported if and only if the trace shows what made the task        *)
(* runnable, not if its wakeup was lost; except by name a task that is seen   *)
(* for the first time, which may get the time since the start of the trace    *)
(* although nothing precedes it: right if the trace lacks no wakeup of it.    *)
(* All of it if the events are further apart than the fake times: else a task *)
(* may be said to have gone to sleep after it was woken up.                   *)
LatencyIsWait ==
    LET t == latency.pid
        waited == now - since[t]
    IN
    t # NoTask /\ Spaced /\ "switch" \notin lost =>
        /\ FirstSeen =>
              /\ latency.wake = {}
              /\ latency.sched \subseteq {now - StartTime}
              /\ t \notin missed => latency.sched \subseteq {waited}
        /\ ~FirstSeen =>
              /\ t \in missed => latency.sched = {} /\ latency.wake = {}
              /\ t \notin missed =>
                    /\ latency.sched = {waited}
                    /\ latency.wake = IF how[t] = "wakeup" THEN {waited} ELSE {}

(* The same without the exception, as the change log promises it: there is no *)
(* latency of a task if no wakeup and no switch shows what made it runnable.  *)
NoLatencyWithoutCause ==
    LET t == latency.pid IN
    t # NoTask /\ "switch" \notin lost /\ (how[t] = "unknown" \/ t \in missed) =>
        latency.sched = {} /\ latency.wake = {}

(* findRealTask() translates an alias only into the one task it stands for:  *)
(* not if it has stood for two, and not if the alias is itself a task.       *)
AliasesAreUnambiguous ==
    \A a \in Aliases :
        /\ Cardinality(usedAlias[a]) > 1 => task[a].oneToManyError
        /\ ~task[a].oneToManyError /\ task[a].isGhostAliasForPID # NoTask
              => usedAlias[a] = {task[a].isGhostAliasForPID}
        /\ done /\ task[a].isGhostAliasForPID # NoTask => task[a].graph.isNew
=============================================================================

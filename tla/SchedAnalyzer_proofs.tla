------------------------ MODULE SchedAnalyzer_proofs ------------------------
(***************************************************************************)
(* Proofs about SchedAnalyzer, for any CPUs, tasks, aliases, times and      *)
(* losses of events.                                                        *)
(***************************************************************************)
EXTENDS SchedAnalyzer, FiniteSetTheorems, TLAPS

(***************************************************************************)
(* The kernel.                                                              *)
(***************************************************************************)
LEMMA TickType ==
  ASSUME KernelTypeOK, Tick
  PROVE  /\ workload' = workload /\ workload' \in Workloads
         /\ now' \in Nat /\ events' \in 0 .. workload'.maxEvents
         /\ ran' \in [Tasks -> Nat]
<1>1. PICK step \in IF events = 0 THEN FirstSteps ELSE workload.steps :
         /\ now' = now + step
         /\ ran' = [t \in Tasks |-> IF state[t] = "running"
                                    THEN ran[t] + step ELSE ran[t]]
  BY DEF Tick
<1>2. step \in Nat
  BY <1>1, TimeAssumption, WorkloadsAssumption DEF KernelTypeOK
<1>3. now' \in Nat
  BY <1>1, <1>2 DEF KernelTypeOK
<1>4. /\ workload' = workload /\ workload' \in Workloads
      /\ events' \in 0 .. workload'.maxEvents
  BY WorkloadsAssumption DEF KernelTypeOK, Tick
<1>5. ASSUME NEW t \in Tasks
      PROVE  (IF state[t] = "running" THEN ran[t] + step ELSE ran[t]) \in Nat
  BY <1>2 DEF KernelTypeOK
<1>6. ran' \in [Tasks -> Nat]
  BY <1>1, <1>5
<1> QED BY <1>3, <1>4, <1>6

LEMMA SwitchType ==
  ASSUME KernelTypeOK, NEW c \in CPUs, NEW new \in Tasks \union {Idle},
         NEW runnable \in BOOLEAN, Switch(c, new, runnable)
  PROVE  KernelTypeOK' /\ workload' = workload
<1>1. /\ workload' = workload /\ workload' \in Workloads /\ now' \in Nat
      /\ events' \in 0 .. workload'.maxEvents /\ ran' \in [Tasks -> Nat]
  BY TickType DEF Switch
<1>2. current' \in [CPUs -> Tasks \union {Idle}]
  BY DEF Switch, KernelTypeOK
<1>3. state' \in [Tasks -> {"running", "ready", "sleeping", "gone"}]
  BY DEF Switch, KernelTypeOK
<1>4. exiting' \subseteq Tasks
  BY DEF Switch, KernelTypeOK
<1>5. since' \in [Tasks -> Nat]
  BY <1>1 DEF Switch, KernelTypeOK
<1>6. how' \in [Tasks -> {"unknown", "wakeup", "switched_out"}]
  BY DEF Switch, KernelTypeOK
<1> QED BY <1>1, <1>2, <1>3, <1>4, <1>5, <1>6 DEF KernelTypeOK

LEMMA WakeUpType ==
  ASSUME KernelTypeOK, NEW t \in Tasks, WakeUp(t) \/ WakeUpRunning(t)
  PROVE  KernelTypeOK' /\ workload' = workload
<1>1. /\ workload' = workload /\ workload' \in Workloads /\ now' \in Nat
      /\ events' \in 0 .. workload'.maxEvents /\ ran' \in [Tasks -> Nat]
  BY TickType DEF WakeUp, WakeUpRunning
<1> QED BY <1>1 DEF WakeUp, WakeUpRunning, KernelTypeOK

LEMMA ForkType ==
  ASSUME KernelTypeOK, NEW t \in Tasks, Fork(t)
  PROVE  KernelTypeOK' /\ workload' = workload
<1>1. /\ workload' = workload /\ workload' \in Workloads /\ now' \in Nat
      /\ events' \in 0 .. workload'.maxEvents /\ ran' \in [Tasks -> Nat]
  BY TickType DEF Fork
<1> QED BY <1>1 DEF Fork, KernelTypeOK

LEMMA ExitType ==
  ASSUME KernelTypeOK, NEW c \in CPUs, Exit(c)
  PROVE  KernelTypeOK' /\ workload' = workload /\ current[c] \in Tasks
<1>1. /\ workload' = workload /\ workload' \in Workloads /\ now' \in Nat
      /\ events' \in 0 .. workload'.maxEvents /\ ran' \in [Tasks -> Nat]
  BY TickType DEF Exit
<1> QED BY <1>1 DEF Exit, KernelTypeOK

(***************************************************************************)
(* Graphs.                                                                  *)
(***************************************************************************)
LEMMA AddPointType ==
  ASSUME NEW g \in Graph, NEW time \in Int, NEW bit \in {SCHED_BIT, FLOOR_BIT},
         NEW event \in Nat
  PROVE  AddPoint(g, time, bit, event) \in Graph
         /\ AddPoint(g, time, bit, event).bit = bit
<1>1. StartTime \in Nat
  BY TimeAssumption
<1> QED BY <1>1 DEF AddPoint, Graph

LEMMA BeginType ==
  ASSUME NEW g \in Graph, NEW bit \in {SCHED_BIT, FLOOR_BIT}, NEW event \in Nat
  PROVE  Begin(g, bit, event) \in Graph
<1>1. StartTime \in Int
  BY TimeAssumption
<1> QED BY <1>1, AddPointType DEF Begin

LEMMA ExtendType ==
  ASSUME NEW g \in Graph, now \in Nat
  PROVE  ExtendToEnd(g) \in Graph /\ ExtendToEnd(g).bit = g.bit
<1>1. g.bit \in {SCHED_BIT, FLOOR_BIT}
  BY DEF Graph
<1>2. now \in Int
  OBVIOUS
<1> QED BY <1>1, <1>2, AddPointType DEF ExtendToEnd

LEMMA MidTimeType ==
  ASSUME cpu \in [CPUs -> CPU], NEW c \in CPUs, NEW time \in Nat
  PROVE  MidTime(c, time) \in Int
BY DeltaAssumption DEF MidTime, CPU

LEMMA LeaveType ==
  ASSUME cpu \in [CPUs -> CPU], NEW c \in CPUs, NEW time \in Nat, NEW g \in Graph
  PROVE  Leave(g, c, time) \in Graph /\ Leave(g, c, time).bit = FLOOR_BIT
<1>1. StartTime \in Nat
  BY TimeAssumption
<1>2. Begin(g, SCHED_BIT, StartTime) \in Graph
  BY <1>1, BeginType
<1>3. MidTime(c, time) - Delta \in Int
  BY MidTimeType, DeltaAssumption
<1> QED BY <1>2, <1>3, AddPointType DEF Leave

LEMMA EnterType ==
  ASSUME cpu \in [CPUs -> CPU], NEW c \in CPUs, NEW time \in Nat,
         NEW first \in Nat, NEW g \in Graph
  PROVE  Enter(g, c, first, time) \in Graph
         /\ Enter(g, c, first, time).bit = SCHED_BIT
<1>1. Begin(g, FLOOR_BIT, first) \in Graph
  BY BeginType
<1>2. MidTime(c, time) + Delta \in Int
  BY MidTimeType, DeltaAssumption
<1> QED BY <1>1, <1>2, AddPointType DEF Enter

LEMMA CorrectType ==
  ASSUME cpu \in [CPUs -> CPU], NEW c \in CPUs, NEW time \in Nat,
         NEW old, NEW t, NEW g \in Graph
  PROVE  /\ Correct(g, c, old, t, time) \in Graph
         /\ t = cpu[c].pidOnCPU => Correct(g, c, old, t, time).bit = FLOOR_BIT
         /\ t # cpu[c].pidOnCPU /\ t # old => Correct(g, c, old, t, time) = g
<1>1. /\ cpu[c].lastSched + Delta \in Int
      /\ time - 2 * Delta \in Int
      /\ cpu[c].lastSchedEvent \in Nat
  BY DeltaAssumption DEF CPU
<1>2. /\ AddPoint(g, cpu[c].lastSched + Delta, FLOOR_BIT, cpu[c].lastSchedEvent)
            \in Graph
      /\ AddPoint(g, cpu[c].lastSched + Delta, FLOOR_BIT, cpu[c].lastSchedEvent).bit
            = FLOOR_BIT
  BY <1>1, AddPointType
<1>3. AddPoint(g, time - 2 * Delta, SCHED_BIT, time) \in Graph
  BY <1>1, AddPointType
<1> QED BY <1>2, <1>3 DEF Correct

(***************************************************************************)
(* Entries of taskMap.                                                      *)
(***************************************************************************)
LEMMA SetGraph ==
  ASSUME NEW r \in Task, NEW g \in Graph
  PROVE  [r EXCEPT !.graph = g] \in Task
BY DEF Task

LEMMA SetExitStatus ==
  ASSUME NEW r \in Task, NEW x \in {"alive", "exitcalled", "final"}
  PROVE  [r EXCEPT !.exitStatus = x] \in Task
BY DEF Task

LEMMA NoteAliasType ==
  ASSUME NEW r \in Task, NEW old \in Tasks
  PROVE  NoteAlias(r, old) \in Task
<1>1. [r EXCEPT !.isGhostAliasForPID = old] \in Task
  BY DEF Task
<1>2. ASSUME NEW b \in BOOLEAN
      PROVE  [r EXCEPT !.oneToManyError = b] \in Task
  BY DEF Task
<1>3. (r.oneToManyError \/ r.isGhostAliasForPID # old) \in BOOLEAN
  OBVIOUS
<1> QED BY <1>1, <1>2, <1>3 DEF NoteAlias

LEMMA TaskLeavesType ==
  ASSUME cpu \in [CPUs -> CPU], NEW c \in CPUs, NEW time \in Nat,
         NEW r \in Task, NEW runnable \in BOOLEAN
  PROVE  TaskLeaves(r, c, runnable, time) \in Task
<1> DEFINE mid == MidTime(c, time)
<1>1. mid \in Int /\ mid - Delta \in Int
  BY MidTimeType, DeltaAssumption
<1>2. r.graph \in Graph
  BY DEF Task
<1>3. Leave(r.graph, c, time) \in Graph
  BY <1>2, LeaveType
<1>4. /\ r.exitStatus \in {"alive", "exitcalled", "final"}
      /\ r.lastRunnable \in Int
      /\ r.lastSleepEntry \in Int
  BY DEF Task
<1> HIDE DEF mid
<1>5. ASSUME NEW g \in Graph, NEW e \in {"alive", "exitcalled", "final"},
             NEW l \in Int, NEW s \in {"invalid", "wakeup", "sched"}, NEW n \in Int
      PROVE  [r EXCEPT !.graph = g, !.exitStatus = e, !.lastRunnable = l,
                       !.lastRunnable_status = s, !.lastSleepEntry = n] \in Task
  BY DEF Task
<1>6. /\ (IF r.exitStatus = "exitcalled" THEN "final" ELSE r.exitStatus)
            \in {"alive", "exitcalled", "final"}
      /\ (IF runnable THEN mid ELSE r.lastRunnable) \in Int
      /\ (IF runnable THEN "sched" ELSE "invalid") \in {"invalid", "wakeup", "sched"}
      /\ (IF runnable THEN r.lastSleepEntry ELSE mid - Delta) \in Int
  BY <1>1, <1>4
<1> QED BY <1>3, <1>5, <1>6, ZenonT(40) DEF TaskLeaves, mid

(* The delays of a latency are integers, whatever they are.                 *)
LEMMA DelaysType ==
  ASSUME cpu \in [CPUs -> CPU], NEW c \in CPUs, NEW r \in Task, NEW exitIdle \in Int,
         NEW new \in Tasks, NEW mid \in Int
  PROVE  Delays(r, c, exitIdle, new, mid) \in Latency
<1>1. EstimateNew(c, exitIdle, mid) \in SUBSET Int
  BY TimeAssumption DEF EstimateNew
<1>2. r.lastRunnable \in Int
  BY DEF Task
<1>3. \A valid : Estimate(r, valid, mid) \in SUBSET Int
  BY <1>2 DEF Estimate
<1> QED BY <1>1, <1>3 DEF Delays, Latency

(***************************************************************************)
(* The handler of sched_switch.                                             *)
(***************************************************************************)
LEMMA CorrectedTaskType ==
  ASSUME cpu \in [CPUs -> CPU], task \in [Pids -> Task],
         NEW c \in CPUs, NEW time \in Nat, NEW p \in Pids, NEW pid,
         NEW old \in Tasks \union {Idle}
  PROVE  CorrectedTask(p, c, pid, old, time) \in Task
<1> DEFINE r == IF p = pid /\ p # old /\ old # Idle THEN NoteAlias(task[p], old)
                ELSE task[p]
<1>1. r \in Task
  BY NoteAliasType
<1> HIDE DEF r
<1>2. r.graph \in Graph /\ r.lastSleepEntry \in Int
  BY <1>1 DEF Task
<1>3. Correct(r.graph, c, old, p, time) \in Graph
  BY <1>2, CorrectType
<1>4. (IF p = cpu[c].pidOnCPU THEN cpu[c].lastSched + Delta ELSE r.lastSleepEntry)
         \in Int
  BY <1>2, DeltaAssumption DEF CPU
<1>5. ASSUME NEW g \in Graph, NEW n \in Int
      PROVE  [r EXCEPT !.graph = g, !.lastSleepEntry = n] \in Task
  BY <1>1 DEF Task
<1> QED BY <1>1, <1>3, <1>4, <1>5 DEF CorrectedTask, r

LEMMA CorrectedGraphType ==
  ASSUME cpu \in [CPUs -> CPU], cpuTask \in [CPUs -> [Tasks -> Graph]],
         NEW c \in CPUs, NEW time \in Nat, NEW t \in Tasks,
         NEW old \in Tasks \union {Idle}
  PROVE  /\ CorrectedGraph(t, c, old, time) \in Graph
         /\ WrongTask(c, old) /\ t = cpu[c].pidOnCPU
               => CorrectedGraph(t, c, old, time).bit = FLOOR_BIT
         /\ ~WrongTask(c, old) \/ (t # cpu[c].pidOnCPU /\ t # old)
               => CorrectedGraph(t, c, old, time) = cpuTask[c][t]
<1>1. cpuTask[c][t] \in Graph
  OBVIOUS
<1> QED BY <1>1, CorrectType DEF CorrectedGraph

LEMMA ProcessSwitchType ==
  ASSUME cpu \in [CPUs -> CPU], cpuTask \in [CPUs -> [Tasks -> Graph]],
         task \in [Pids -> Task], NEW c \in CPUs, NEW pid,
         NEW old \in Tasks \union {Idle}, NEW new \in Tasks \union {Idle},
         NEW runnable \in BOOLEAN, NEW time \in Nat,
         processSwitchEvent(c, pid, old, new, runnable, time)
  PROVE  /\ cpu' \in [CPUs -> CPU]
         /\ cpuTask' \in [CPUs -> [Tasks -> Graph]]
         /\ task' \in [Pids -> Task]
         /\ latency' \in Latency
<1>1. /\ MidTime(c, time) \in Int
      /\ MidTime(c, time) + Delta \in Int
      /\ LastExitIdle(c, old, time) \in Int
  BY MidTimeType, DeltaAssumption DEF LastExitIdle, CPU
<1>2. cpu' \in [CPUs -> CPU]
  <2>1. (IF new = Idle THEN MidTime(c, time) + Delta ELSE cpu[c].lastEnterIdle) \in Int
    BY <1>1 DEF CPU
  <2>2. ASSUME NEW a \in Int, NEW b \in Int, NEW e \in Int
        PROVE  [pidOnCPU |-> new, hasBeenScheduled |-> TRUE, lastSched |-> a,
                lastSchedEvent |-> time, lastEnterIdle |-> b, lastExitIdle |-> e] \in CPU
    BY DEF CPU
  <2>3. [pidOnCPU |-> new, hasBeenScheduled |-> TRUE,
         lastSched |-> MidTime(c, time) + Delta, lastSchedEvent |-> time,
         lastEnterIdle |-> IF new = Idle THEN MidTime(c, time) + Delta
                           ELSE cpu[c].lastEnterIdle,
         lastExitIdle |-> LastExitIdle(c, old, time)] \in CPU
    BY <1>1, <2>1, <2>2
  <2> QED BY <2>3 DEF processSwitchEvent
<1>3. cpuTask' \in [CPUs -> [Tasks -> Graph]]
  <2>1. ASSUME NEW t \in Tasks
        PROVE  /\ CorrectedGraph(t, c, old, time) \in Graph
               /\ Leave(CorrectedGraph(t, c, old, time), c, time) \in Graph
               /\ Enter(CorrectedGraph(t, c, old, time), c, time, time) \in Graph
    BY CorrectedGraphType, LeaveType, EnterType
  <2> QED BY <2>1 DEF processSwitchEvent
<1>4. task' \in [Pids -> Task]
  <2>1. ASSUME NEW p \in Pids
        PROVE  /\ CorrectedTask(p, c, pid, old, time) \in Task
               /\ TaskLeaves(CorrectedTask(p, c, pid, old, time), c, runnable, time)
                     \in Task
               /\ [CorrectedTask(p, c, pid, old, time) EXCEPT
                      !.graph = Enter(@, c, StartTime, time)] \in Task
    <3> DEFINE r == CorrectedTask(p, c, pid, old, time)
    <3>1. r \in Task
      BY CorrectedTaskType
    <3> HIDE DEF r
    <3>2. TaskLeaves(r, c, runnable, time) \in Task
      BY <3>1, TaskLeavesType
    <3>3. r.graph \in Graph /\ StartTime \in Nat
      BY <3>1, TimeAssumption DEF Task
    <3>4. Enter(r.graph, c, StartTime, time) \in Graph
      BY <3>3, EnterType
    <3>5. [r EXCEPT !.graph = Enter(r.graph, c, StartTime, time)] \in Task
      BY <3>1, <3>4, SetGraph
    <3> QED BY <3>1, <3>2, <3>5 DEF r
  <2> QED BY <2>1 DEF processSwitchEvent
<1>5. latency' \in Latency
  <2>1. CASE new = Idle
    BY <2>1 DEF processSwitchEvent, NoLatency, Latency
  <2>2. CASE new # Idle
    <3>1. new \in Tasks /\ new \in Pids
      BY <2>2 DEF Pids
    <3>2. CorrectedTask(new, c, pid, old, time) \in Task
      BY <3>1, CorrectedTaskType
    <3> QED BY <1>1, <2>2, <3>1, <3>2, DelaysType DEF processSwitchEvent
  <2> QED BY <2>1, <2>2
<1> QED BY <1>2, <1>3, <1>4, <1>5

(***************************************************************************)
(* Type correctness.                                                        *)
(***************************************************************************)
LEMMA WakeupEventType ==
  ASSUME TypeOK, NEW t \in Tasks, WakeupEvent(t)
  PROVE  TypeOK'
<1>1. KernelTypeOK' /\ workload' = workload
  BY WakeUpType DEF WakeupEvent, TypeOK
<1>2. now' \in Nat
  BY <1>1 DEF KernelTypeOK
<1>3. t \in Pids /\ task[t] \in Task /\ StartTime \in Nat
  BY TimeAssumption DEF Pids, TypeOK
<1>4. Begin(task[t].graph, FLOOR_BIT, StartTime) \in Graph
  BY <1>3, BeginType DEF Task
<1>5. ASSUME NEW r \in Task, NEW g \in Graph, NEW n \in Int
      PROVE  [r EXCEPT !.lastRunnable = n, !.lastRunnable_status = "wakeup",
                       !.graph = g] \in Task
  BY DEF Task
<1>6. task' = [task EXCEPT ![t] =
                 [task[t] EXCEPT !.lastRunnable = now',
                                 !.lastRunnable_status = "wakeup",
                                 !.graph = Begin(@, FLOOR_BIT, StartTime)]]
  BY <1>3 DEF WakeupEvent, processWakeupEvent, TypeOK
<1>7. [task[t] EXCEPT !.lastRunnable = now', !.lastRunnable_status = "wakeup",
                      !.graph = Begin(@, FLOOR_BIT, StartTime)] \in Task
  <2>1. now' \in Int
    BY <1>2
  <2> QED BY <2>1, <1>3, <1>4, <1>5
<1>8. task' \in [Pids -> Task]
  BY <1>3, <1>6, <1>7 DEF TypeOK
<1> QED BY <1>1, <1>8 DEF WakeupEvent, processWakeupEvent, NoLatency, Latency, TypeOK

LEMMA ForkEventType ==
  ASSUME TypeOK, NEW t \in Tasks, ForkEvent(t)
  PROVE  TypeOK'
<1>1. KernelTypeOK' /\ workload' = workload
  BY ForkType DEF ForkEvent, TypeOK
<1>2. now' \in Nat
  BY <1>1 DEF KernelTypeOK
<1>3. t \in Pids /\ task[t] \in Task
  BY DEF Pids, TypeOK
<1>4. AddPoint(task[t].graph, now', FLOOR_BIT, now') \in Graph
  BY <1>2, <1>3, AddPointType DEF Task
<1>5. ASSUME NEW r \in Task, NEW g \in Graph
      PROVE  [r EXCEPT !.lastRunnable_status = "invalid", !.graph = g] \in Task
  BY DEF Task
<1>6. task' = task \/
      task' = [task EXCEPT ![t] =
                 [task[t] EXCEPT !.lastRunnable_status = "invalid",
                                 !.graph = AddPoint(@, now', FLOOR_BIT, now')]]
  BY <1>3 DEF ForkEvent, processForkEvent, TypeOK
<1>7. task' \in [Pids -> Task]
  BY <1>3, <1>4, <1>5, <1>6 DEF TypeOK
<1> QED BY <1>1, <1>7 DEF ForkEvent, processForkEvent, NoLatency, Latency, TypeOK

LEMMA ExitEventType ==
  ASSUME TypeOK, NEW c \in CPUs, ExitEvent(c)
  PROVE  TypeOK'
<1>1. KernelTypeOK' /\ workload' = workload /\ current[c] \in Pids
  BY ExitType DEF ExitEvent, TypeOK, Pids
<1>2. task' = [task EXCEPT ![current[c]] =
                 [task[current[c]] EXCEPT !.exitStatus = "exitcalled"]]
  BY <1>1 DEF ExitEvent, processExitEvent, TypeOK
<1>3. task' \in [Pids -> Task]
  BY <1>1, <1>2, SetExitStatus DEF TypeOK
<1> QED BY <1>1, <1>3 DEF ExitEvent, processExitEvent, NoLatency, Latency, TypeOK

LEMMA SwitchEventType ==
  ASSUME TypeOK, NEW c \in CPUs, NEW new \in Tasks \union {Idle},
         NEW runnable \in BOOLEAN, SwitchEvent(c, new, runnable)
  PROVE  TypeOK'
<1>1. KernelTypeOK' /\ workload' = workload
  BY SwitchType DEF SwitchEvent, TypeOK
<1>2. now' \in Nat /\ current[c] \in Tasks \union {Idle}
  BY <1>1 DEF KernelTypeOK, TypeOK
<1>3. PICK pid \in {current[c]} \union Aliases :
         /\ current[c] = Idle => pid = Idle
         /\ processSwitchEvent(c, pid, current[c], new, runnable, now')
         /\ usedAlias' = IF pid = current[c] THEN usedAlias
                         ELSE [usedAlias EXCEPT ![pid] = @ \union {current[c]}]
  BY LossyAssumption DEF SwitchEvent, TypeOK, KernelTypeOK
<1>4. /\ cpu' \in [CPUs -> CPU]
      /\ cpuTask' \in [CPUs -> [Tasks -> Graph]]
      /\ task' \in [Pids -> Task]
      /\ latency' \in Latency
  <2>1. /\ cpu \in [CPUs -> CPU]
        /\ cpuTask \in [CPUs -> [Tasks -> Graph]]
        /\ task \in [Pids -> Task]
    BY DEF TypeOK
  <2>2. processSwitchEvent(c, pid, current[c], new, runnable, now')
    BY <1>3
  <2> QED BY <1>2, <2>1, <2>2, ProcessSwitchType
<1>5. usedAlias' \in [Aliases -> SUBSET Tasks]
  BY <1>2, <1>3 DEF TypeOK
<1> QED BY <1>1, <1>4, <1>5 DEF SwitchEvent, TypeOK

LEMMA TailType ==
  ASSUME TypeOK, processSchedAddTail
  PROVE  TypeOK'
<1>1. now \in Nat
  BY DEF TypeOK, KernelTypeOK
<1>2. cpuTask' \in [CPUs -> [Tasks -> Graph]]
  BY <1>1, ExtendType DEF processSchedAddTail, TypeOK
<1>3. ASSUME NEW p \in Pids
      PROVE  [task[p] EXCEPT
                !.graph = IF task[p].exitStatus = "final" THEN @ ELSE ExtendToEnd(@),
                !.isGhostAliasForPID = IF task[p].graph.isNew THEN @ ELSE NoTask]
             \in Task
  <2>1. task[p] \in Task
    BY DEF TypeOK
  <2>2. task[p].graph \in Graph /\ task[p].isGhostAliasForPID \in Tasks \union {NoTask}
    BY <2>1 DEF Task
  <2>3. (IF task[p].exitStatus = "final" THEN task[p].graph
         ELSE ExtendToEnd(task[p].graph)) \in Graph
    BY <1>1, <2>2, ExtendType
  <2>4. ASSUME NEW r \in Task, NEW g \in Graph, NEW a \in Tasks \union {NoTask}
        PROVE  [r EXCEPT !.graph = g, !.isGhostAliasForPID = a] \in Task
    BY DEF Task
  <2> QED BY <2>1, <2>2, <2>3, <2>4
<1>4. task' \in [Pids -> Task]
  BY <1>3 DEF processSchedAddTail
<1>5. KernelTypeOK' /\ workload' = workload
  BY DEF processSchedAddTail, kernel, KernelTypeOK, TypeOK
<1> QED BY <1>2, <1>4, <1>5 DEF processSchedAddTail, NoLatency, Latency, TypeOK

(* The handlers keep every variable in its type, whichever events come and   *)
(* are lost.                                                                *)
THEOREM TypeCorrect == Spec => []TypeOK
<1>1. Init => TypeOK
  <2> SUFFICES ASSUME Init PROVE TypeOK
    OBVIOUS
  <2>1. KernelTypeOK
    BY TimeAssumption, WorkloadsAssumption DEF Init, KernelInit, KernelTypeOK
  <2>2. EmptyGraph \in Graph
    BY DEF EmptyGraph, Graph
  <2>3. NewTask \in Task
    BY <2>2 DEF NewTask, Task
  <2>4. NewCPU \in CPU
    BY DEF NewCPU, CPU
  <2> QED BY <2>1, <2>2, <2>3, <2>4 DEF Init, TypeOK, NoLatency, Latency
<1>2. TypeOK /\ [Next]_vars => TypeOK'
  <2> SUFFICES ASSUME TypeOK, [Next]_vars PROVE TypeOK'
    OBVIOUS
  <2>1. ASSUME NEW c \in CPUs, NEW new \in Tasks \union {Idle}, NEW runnable \in BOOLEAN,
               SwitchEvent(c, new, runnable)
        PROVE  TypeOK'
    BY <2>1, SwitchEventType
  <2>2. ASSUME NEW c \in CPUs, NEW new \in Tasks \union {Idle}, NEW runnable \in BOOLEAN,
               SwitchLost(c, new, runnable)
        PROVE  TypeOK'
    <3>1. KernelTypeOK' /\ workload' = workload
      BY <2>2, SwitchType DEF SwitchLost, TypeOK
    <3> QED BY <2>2, <3>1 DEF SwitchLost, TypeOK, NoLatency, Latency
  <2>3. ASSUME NEW t \in Tasks, WakeupEvent(t) PROVE TypeOK'
    BY <2>3, WakeupEventType
  <2>4. ASSUME NEW t \in Tasks, WakeupLost(t) PROVE TypeOK'
    <3>1. KernelTypeOK' /\ workload' = workload
      BY <2>4, WakeUpType DEF WakeupLost, TypeOK
    <3> QED BY <2>4, <3>1 DEF WakeupLost, TypeOK, NoLatency, Latency
  <2>5. ASSUME NEW t \in Tasks, ForkEvent(t) PROVE TypeOK'
    BY <2>5, ForkEventType
  <2>6. ASSUME NEW c \in CPUs, ExitEvent(c) PROVE TypeOK'
    BY <2>6, ExitEventType
  <2>7. CASE processSchedAddTail
    BY <2>7, TailType
  <2>8. CASE UNCHANGED vars
    BY <2>8 DEF vars, kernel, analyzer, TypeOK, KernelTypeOK
  <2> QED BY <2>1, <2>2, <2>3, <2>4, <2>5, <2>6, <2>7, <2>8 DEF Next
<1> QED BY <1>1, <1>2, PTL DEF Spec

(***************************************************************************)
(* One task on each CPU. The invariant is OneTaskPerCPU, task by task.      *)
(***************************************************************************)
Shown(c, t) == cpuTask[c][t].bit = SCHED_BIT <=>
               cpu[c].hasBeenScheduled /\ cpu[c].pidOnCPU = t

ShownInv == \A c \in CPUs, t \in Tasks : Shown(c, t)

LEMMA ShownIsOneTask ==
  ASSUME TypeOK
  PROVE  ShownInv <=> OneTaskPerCPU
<1>1. Idle \notin Tasks
  BY TasksAssumption DEF Idle
<1>2. ASSUME NEW c \in CPUs
      PROVE  cpu[c].hasBeenScheduled \in BOOLEAN
             /\ cpu[c].pidOnCPU \in Tasks \union {Idle}
  BY DEF TypeOK, CPU
<1>3. ASSUME NEW c \in CPUs
      PROVE  (\A t \in Tasks : Shown(c, t)) <=>
             {t \in Tasks : cpuTask[c][t].bit = SCHED_BIT} =
             IF cpu[c].hasBeenScheduled THEN {cpu[c].pidOnCPU} \ {Idle} ELSE {}
  BY <1>1, <1>2 DEF Shown
<1> QED BY <1>3 DEF ShownInv, OneTaskPerCPU

(* A switch, whether or not the CPU had the task that it is said to have had. *)
LEMMA SwitchShows ==
  ASSUME TypeOK, ShownInv, NEW c \in CPUs, NEW new \in Tasks \union {Idle},
         NEW runnable \in BOOLEAN, SwitchEvent(c, new, runnable)
  PROVE  ShownInv'
<1> DEFINE old == current[c]
           g(t) == CorrectedGraph(t, c, old, now')
<1>1. /\ cpu \in [CPUs -> CPU]
      /\ cpuTask \in [CPUs -> [Tasks -> Graph]]
      /\ now' \in Nat
      /\ old \in Tasks \union {Idle}
      /\ new # old
  BY SwitchType, ZenonT(40) DEF SwitchEvent, TypeOK, KernelTypeOK, Switch
<1>2. PICK pid : processSwitchEvent(c, pid, old, new, runnable, now')
  BY DEF SwitchEvent
<1>3. cpuTask' = [cpuTask EXCEPT ![c] = [t \in Tasks |->
                    IF t = old THEN Leave(g(t), c, now')
                    ELSE IF t = new THEN Enter(g(t), c, now', now')
                    ELSE g(t)]]
  BY <1>2 DEF processSwitchEvent
<1>4. /\ cpu'[c].hasBeenScheduled = TRUE
      /\ cpu'[c].pidOnCPU = new
      /\ \A d \in CPUs : d # c => cpu'[d] = cpu[d]
  BY <1>1, <1>2 DEF processSwitchEvent
<1>5. ASSUME NEW t \in Tasks
      PROVE  Shown(c, t)'
  <2>1. /\ g(t) \in Graph
        /\ WrongTask(c, old) /\ t = cpu[c].pidOnCPU => g(t).bit = FLOOR_BIT
        /\ ~WrongTask(c, old) \/ (t # cpu[c].pidOnCPU /\ t # old)
              => g(t) = cpuTask[c][t]
    BY <1>1, CorrectedGraphType
  <2>2. cpuTask'[c][t] = IF t = old THEN Leave(g(t), c, now')
                         ELSE IF t = new THEN Enter(g(t), c, now', now')
                         ELSE g(t)
    BY <1>1, <1>3
  <2> HIDE DEF g
  <2>3. CASE t = old
    BY <1>1, <1>4, <2>1, <2>2, <2>3, LeaveType DEF Shown, SCHED_BIT, FLOOR_BIT
  <2>4. CASE t = new
    BY <1>1, <1>4, <2>1, <2>2, <2>4, EnterType DEF Shown
  <2>5. CASE t # old /\ t # new
    <3>1. cpuTask[c][t].bit = SCHED_BIT =>
             cpu[c].hasBeenScheduled /\ cpu[c].pidOnCPU = t
      BY DEF ShownInv, Shown
    <3>2. g(t).bit # SCHED_BIT
      BY <2>1, <2>5, <3>1 DEF WrongTask, SCHED_BIT, FLOOR_BIT
    <3> QED BY <1>4, <2>2, <2>5, <3>2 DEF Shown
  <2> QED BY <2>3, <2>4, <2>5
<1>6. ASSUME NEW d \in CPUs, d # c, NEW t \in Tasks
      PROVE  Shown(d, t)'
  <2>1. cpuTask'[d] = cpuTask[d] /\ cpu'[d] = cpu[d]
    BY <1>1, <1>3, <1>4, <1>6
  <2> QED BY <2>1 DEF ShownInv, Shown
<1> QED BY <1>5, <1>6 DEF ShownInv

(* No CPU is ever shown with two tasks, nor with another one than the        *)
(* handlers believe in, whichever switches have been lost.                  *)
THEOREM OneTaskPerCPUCorrect == Spec => []OneTaskPerCPU
<1>1. Init => ShownInv
  BY DEF Init, ShownInv, Shown, EmptyGraph, NewCPU, SCHED_BIT, FLOOR_BIT
<1>2. TypeOK /\ ShownInv /\ [Next]_vars => ShownInv'
  <2> SUFFICES ASSUME TypeOK, ShownInv, [Next]_vars PROVE ShownInv'
    OBVIOUS
  <2>1. ASSUME NEW c \in CPUs, NEW new \in Tasks \union {Idle}, NEW runnable \in BOOLEAN,
               SwitchEvent(c, new, runnable)
        PROVE  ShownInv'
    BY <2>1, SwitchShows
  <2>2. CASE UNCHANGED <<cpu, cpuTask>>
    BY <2>2 DEF ShownInv, Shown
  <2>3. CASE processSchedAddTail
    <3>1. now \in Nat /\ \A c \in CPUs, t \in Tasks : cpuTask[c][t] \in Graph
      BY DEF TypeOK, KernelTypeOK
    <3>2. ASSUME NEW c \in CPUs, NEW t \in Tasks
          PROVE  cpuTask'[c][t].bit = cpuTask[c][t].bit
      BY <2>3, <3>1, ExtendType DEF processSchedAddTail
    <3>3. cpu' = cpu
      BY <2>3 DEF processSchedAddTail
    <3> QED BY <3>2, <3>3 DEF ShownInv, Shown
  <2>4. ASSUME NEW c \in CPUs, NEW new \in Tasks \union {Idle}, NEW runnable \in BOOLEAN,
               SwitchLost(c, new, runnable)
        PROVE  UNCHANGED <<cpu, cpuTask>>
    BY <2>4 DEF SwitchLost
  <2>5. ASSUME NEW t \in Tasks, WakeupEvent(t) \/ WakeupLost(t) \/ ForkEvent(t)
        PROVE  UNCHANGED <<cpu, cpuTask>>
    BY <2>5 DEF WakeupEvent, processWakeupEvent, WakeupLost, ForkEvent, processForkEvent
  <2>6. ASSUME NEW c \in CPUs, ExitEvent(c)
        PROVE  UNCHANGED <<cpu, cpuTask>>
    BY <2>6 DEF ExitEvent, processExitEvent
  <2>7. CASE UNCHANGED vars
    BY <2>2, <2>7 DEF vars, analyzer
  <2> QED BY <2>1, <2>2, <2>3, <2>4, <2>5, <2>6, <2>7 DEF Next
<1>3. TypeOK /\ ShownInv => OneTaskPerCPU
  BY ShownIsOneTask
<1> QED BY <1>1, <1>2, <1>3, TypeCorrect, PTL DEF Spec

(***************************************************************************)
(* The order of the points of a CPU. As long as nothing is lost a CPU never  *)
(* has the wrong task, all its points are before the last switch, and the    *)
(* points of the next one are behind it.                                    *)
(***************************************************************************)
TimeInv == /\ now >= StartTime
           /\ events > 0 => now >= StartTime + Delta

CPUSorted(c) ==
    /\ cpu[c].hasBeenScheduled => /\ cpu[c].pidOnCPU = current[c]
                                  /\ cpu[c].lastSched >= StartTime
    /\ \A t \in Tasks :
          /\ cpuTask[c][t].sorted
          /\ ~done /\ ~cpuTask[c][t].isNew
                => /\ cpu[c].hasBeenScheduled
                   /\ cpuTask[c][t].time <= cpu[c].lastSched

SortInv == lost = {} => \A c \in CPUs : CPUSorted(c)

LEMMA AddPointSorted ==
  ASSUME NEW g \in Graph, NEW time \in Int, NEW bit, NEW event,
         g.sorted, ~g.isNew => g.time <= time
  PROVE  LET p == AddPoint(g, time, bit, event)
         IN  p.sorted /\ ~p.isNew /\ p.time = time
BY DEF AddPoint, Graph

(* A graph that begins and gets a point that is not before the start.       *)
LEMMA BeginSorted ==
  ASSUME NEW g \in Graph, NEW time \in Int, NEW bit \in {SCHED_BIT, FLOOR_BIT},
         NEW last \in {SCHED_BIT, FLOOR_BIT},
         NEW first \in Nat, NEW event, g.sorted, StartTime <= time,
         ~g.isNew => g.time <= time
  PROVE  LET p == AddPoint(Begin(g, bit, first), time, last, event)
         IN  p.sorted /\ ~p.isNew /\ p.time = time
<1>1. StartTime \in Int
  BY TimeAssumption
<1>2. /\ Begin(g, bit, first) \in Graph
      /\ Begin(g, bit, first).sorted
      /\ Begin(g, bit, first).time <= time
  BY <1>1, BeginType, AddPointSorted DEF Begin
<1> QED BY <1>2, AddPointSorted

LEMMA TickTime ==
  ASSUME KernelTypeOK, TimeInv, Tick, \A s \in FirstSteps : s >= Delta
  PROVE  TimeInv' /\ now' >= StartTime + Delta
<1>1. PICK step \in IF events = 0 THEN FirstSteps ELSE workload.steps : now' = now + step
  BY DEF Tick
<1>2. /\ step \in Nat /\ now \in Nat /\ events \in Nat
      /\ StartTime \in Nat /\ Delta \in Nat
  BY <1>1, TimeAssumption, WorkloadsAssumption, DeltaAssumption DEF KernelTypeOK
<1>3. CASE events = 0
  BY <1>1, <1>2, <1>3 DEF TimeInv
<1>4. CASE events > 0
  BY <1>1, <1>2, <1>4 DEF TimeInv
<1> QED BY <1>2, <1>3, <1>4 DEF TimeInv

LEMMA DifferenceBound ==
  ASSUME NEW n \in Nat, NEW s \in Nat, NEW d \in Nat, n >= s + d
  PROVE  n \in Int /\ s <= n - d
  OBVIOUS

LEMMA SwitchSorts ==
  ASSUME TypeOK, TimeInv, SortInv, ~done, NEW c \in CPUs,
         NEW new \in Tasks \union {Idle}, NEW runnable \in BOOLEAN,
         SwitchEvent(c, new, runnable), \A s \in FirstSteps : s >= Delta
  PROVE  SortInv'
<1> SUFFICES ASSUME lost' = {} PROVE \A d \in CPUs : CPUSorted(d)'
  BY DEF SortInv
<1> DEFINE old == current[c]
           g(t) == CorrectedGraph(t, c, old, now')
           mid == MidTime(c, now')
<1>1. /\ cpu \in [CPUs -> CPU]
      /\ cpuTask \in [CPUs -> [Tasks -> Graph]]
      /\ current \in [CPUs -> Tasks \union {Idle}]
      /\ now' \in Nat
      /\ old \in Tasks \union {Idle}
  BY SwitchType DEF SwitchEvent, TypeOK, KernelTypeOK
<1>2. lost = {} /\ done' = done
  BY DEF SwitchEvent
<1>3. PICK pid : processSwitchEvent(c, pid, old, new, runnable, now')
  BY DEF SwitchEvent
<1>4. cpuTask' = [cpuTask EXCEPT ![c] = [t \in Tasks |->
                    IF t = old THEN Leave(g(t), c, now')
                    ELSE IF t = new THEN Enter(g(t), c, now', now')
                    ELSE g(t)]]
  BY <1>3 DEF processSwitchEvent
<1>5. /\ cpu'[c].hasBeenScheduled = TRUE
      /\ cpu'[c].pidOnCPU = new
      /\ cpu'[c].lastSched = mid + Delta
      /\ \A d \in CPUs : d # c => cpu'[d] = cpu[d]
  BY <1>1, <1>3 DEF processSwitchEvent
<1>6. current' = [current EXCEPT ![c] = new]
  BY DEF SwitchEvent, Switch
<1>7. now' >= StartTime + Delta
  BY TickTime DEF SwitchEvent, Switch, TypeOK
<1>8. CPUSorted(c)
  BY <1>2 DEF SortInv
<1>9. \A t \in Tasks : g(t) = cpuTask[c][t]
  BY <1>8 DEF CPUSorted, CorrectedGraph, WrongTask
<1>10. /\ mid \in Int /\ Delta \in Nat /\ StartTime \in Nat
       /\ StartTime <= mid - Delta
       /\ cpu[c].hasBeenScheduled => cpu[c].lastSched <= mid - Delta
  <2>1. Delta \in Nat /\ StartTime \in Nat /\ cpu[c].lastSched \in Int
    BY <1>1, DeltaAssumption, TimeAssumption DEF CPU
  <2>2. cpu[c].hasBeenScheduled => cpu[c].lastSched >= StartTime
    BY <1>8 DEF CPUSorted
  <2>3. CASE TooClose(c, now')
    <3>1. mid = cpu[c].lastSched + 2 * Delta
      BY <2>3 DEF MidTime
    <3>2. cpu[c].lastSched >= StartTime
      BY <2>2, <2>3 DEF TooClose
    <3> HIDE DEF mid
    <3> QED BY <2>1, <3>1, <3>2
  <2>4. CASE ~TooClose(c, now')
    <3>1. mid = now'
      BY <2>4 DEF MidTime
    <3>2. cpu[c].hasBeenScheduled => ~(cpu[c].lastSched >= now' - Delta)
      BY <2>4 DEF TooClose
    <3> HIDE DEF mid
    <3>3. now' \in Nat
      BY <1>1
    <3>4. now' \in Int /\ StartTime <= now' - Delta
      BY <1>7, <2>1, <3>3, DifferenceBound
    <3>5. mid \in Int /\ StartTime <= mid - Delta
      BY <3>1, <3>4
    <3>6. ASSUME cpu[c].hasBeenScheduled PROVE cpu[c].lastSched <= mid - Delta
      <4>1. ~(cpu[c].lastSched >= mid - Delta)
        BY <3>1, <3>2, <3>6
      <4> QED BY <2>1, <3>5, <4>1
    <3> QED BY <2>1, <3>5, <3>6
  <2> QED BY <2>3, <2>4
<1> HIDE DEF mid, g
<1>11. ASSUME NEW t \in Tasks
       PROVE  /\ cpuTask'[c][t].sorted
              /\ ~cpuTask'[c][t].isNew => cpuTask'[c][t].time <= mid + Delta
  <2>1. /\ cpuTask[c][t] \in Graph
        /\ cpuTask[c][t].sorted
        /\ ~cpuTask[c][t].isNew => cpuTask[c][t].time <= mid - Delta
    <3>1. cpuTask[c][t] \in Graph /\ cpuTask[c][t].time \in Int
      BY <1>1 DEF Graph
    <3>2. cpu[c].lastSched \in Int
      BY <1>1 DEF CPU
    <3> QED BY <1>8, <1>10, <3>1, <3>2 DEF CPUSorted
  <2>2. cpuTask'[c][t] = IF t = old THEN Leave(cpuTask[c][t], c, now')
                         ELSE IF t = new THEN Enter(cpuTask[c][t], c, now', now')
                         ELSE cpuTask[c][t]
    BY <1>1, <1>4, <1>9
  <2>3. CASE t = old
    <3>1. /\ Leave(cpuTask[c][t], c, now').sorted
          /\ Leave(cpuTask[c][t], c, now').time = mid - Delta
      BY <1>10, <2>1, BeginSorted DEF Leave, mid
    <3> QED BY <1>10, <2>2, <2>3, <3>1
  <2>4. CASE t # old /\ t = new
    <3>1. cpuTask[c][t].time \in Int
      BY <2>1 DEF Graph
    <3>2. /\ StartTime <= mid + Delta /\ mid + Delta \in Int
          /\ ~cpuTask[c][t].isNew => cpuTask[c][t].time <= mid + Delta
      BY <1>10, <2>1, <3>1
    <3>3. /\ Enter(cpuTask[c][t], c, now', now').sorted
          /\ Enter(cpuTask[c][t], c, now', now').time = mid + Delta
      BY <1>1, <2>1, <3>2, BeginSorted DEF Enter, mid
    <3> QED BY <1>10, <2>2, <2>4, <3>3
  <2>5. CASE t # old /\ t # new
    <3>1. cpuTask[c][t].time \in Int
      BY <2>1 DEF Graph
    <3> QED BY <1>10, <2>1, <2>2, <2>5, <3>1
  <2> QED BY <2>3, <2>4, <2>5
<1>12. CPUSorted(c)'
  <2>1. current'[c] = new
    BY <1>1, <1>6
  <2>2. mid + Delta >= StartTime
    BY <1>10
  <2> QED BY <1>5, <1>11, <2>1, <2>2 DEF CPUSorted
<1>13. ASSUME NEW d \in CPUs, d # c
       PROVE  CPUSorted(d)'
  <2>1. /\ cpuTask'[d] = cpuTask[d]
        /\ cpu'[d] = cpu[d]
        /\ current'[d] = current[d]
    BY <1>1, <1>4, <1>5, <1>6, <1>13
  <2>2. CPUSorted(d)
    BY <1>2 DEF SortInv
  <2> QED BY <1>2, <2>1, <2>2 DEF CPUSorted
<1> QED BY <1>12, <1>13

(* The points of a CPU are in the order of time if no event is lost, however *)
(* close together the switches are, provided that the trace does not begin   *)
(* with a switch.                                                           *)
THEOREM CPUGraphsSortedCorrect ==
  ASSUME \A s \in FirstSteps : s >= Delta
  PROVE  Spec => []CPUGraphsSorted
<1>1. Init => TimeInv /\ SortInv
  <2> SUFFICES ASSUME Init PROVE TimeInv /\ SortInv
    OBVIOUS
  <2>1. TimeInv
    BY TimeAssumption DEF Init, KernelInit, TimeInv
  <2>2. \A c \in CPUs : CPUSorted(c)
    BY DEF Init, CPUSorted, NewCPU, EmptyGraph
  <2> QED BY <2>1, <2>2 DEF SortInv
<1>2. TypeOK /\ TimeInv /\ SortInv /\ [Next]_vars => TimeInv' /\ SortInv'
  <2> SUFFICES ASSUME TypeOK, TimeInv, SortInv, [Next]_vars
               PROVE  TimeInv' /\ SortInv'
    OBVIOUS
  <2>1. ASSUME Tick PROVE TimeInv'
    BY <2>1, TickTime DEF TypeOK
  <2>2. ASSUME UNCHANGED <<cpu, cpuTask, current, lost, done>> PROVE SortInv'
    BY <2>2 DEF SortInv, CPUSorted
  <2>3. ASSUME NEW c \in CPUs, NEW new \in Tasks \union {Idle}, NEW runnable \in BOOLEAN,
               ~done, SwitchEvent(c, new, runnable)
        PROVE  TimeInv' /\ SortInv'
    <3>1. Tick
      BY <2>3 DEF SwitchEvent, Switch
    <3> QED BY <2>1, <2>3, <3>1, SwitchSorts
  <2>4. ASSUME NEW c \in CPUs, NEW new \in Tasks \union {Idle}, NEW runnable \in BOOLEAN,
               SwitchLost(c, new, runnable)
        PROVE  TimeInv' /\ SortInv'
    <3>1. Tick /\ lost' # {}
      BY <2>4 DEF SwitchLost, Switch
    <3> QED BY <2>1, <3>1 DEF SortInv
  <2>5. ASSUME NEW t \in Tasks, WakeupEvent(t) PROVE TimeInv' /\ SortInv'
    <3>1. Tick /\ UNCHANGED <<cpu, cpuTask, current, lost, done>>
      BY <2>5 DEF WakeupEvent, WakeUp, WakeUpRunning, processWakeupEvent
    <3> QED BY <2>1, <2>2, <3>1
  <2>6. ASSUME NEW t \in Tasks, WakeupLost(t) PROVE TimeInv' /\ SortInv'
    <3>1. Tick /\ lost' # {}
      BY <2>6 DEF WakeupLost, WakeUp
    <3> QED BY <2>1, <3>1 DEF SortInv
  <2>7. ASSUME NEW t \in Tasks, ForkEvent(t) PROVE TimeInv' /\ SortInv'
    <3>1. Tick /\ UNCHANGED <<cpu, cpuTask, current, lost, done>>
      BY <2>7 DEF ForkEvent, Fork, processForkEvent
    <3> QED BY <2>1, <2>2, <3>1
  <2>8. ASSUME NEW c \in CPUs, ExitEvent(c) PROVE TimeInv' /\ SortInv'
    <3>1. Tick /\ UNCHANGED <<cpu, cpuTask, current, lost, done>>
      BY <2>8 DEF ExitEvent, Exit, processExitEvent
    <3> QED BY <2>1, <2>2, <3>1
  <2>9. CASE processSchedAddTail
    <3>1. /\ UNCHANGED <<now, events, current, cpu, lost>>
          /\ done' = TRUE
          /\ cpuTask' = [c \in CPUs |-> [t \in Tasks |-> ExtendToEnd(cpuTask[c][t])]]
      BY <2>9 DEF processSchedAddTail, kernel
    <3>2. TimeInv'
      BY <3>1 DEF TimeInv
    <3>3. ASSUME NEW g \in Graph, g.sorted PROVE ExtendToEnd(g).sorted
      <4>1. now \in Int /\ g.time \in Int
        BY DEF TypeOK, KernelTypeOK, Graph
      <4>2. CASE g.isNew \/ g.time >= now
        BY <3>3, <4>2 DEF ExtendToEnd
      <4>3. CASE ~(g.isNew \/ g.time >= now)
        BY <3>3, <4>1, <4>3, AddPointSorted DEF ExtendToEnd
      <4> QED BY <4>2, <4>3
    <3>4. ASSUME lost = {}, NEW c \in CPUs, NEW t \in Tasks
          PROVE  cpuTask'[c][t].sorted
      <4>1. cpuTask[c][t] \in Graph /\ cpuTask[c][t].sorted
        BY <3>4 DEF TypeOK, SortInv, CPUSorted
      <4> QED BY <3>1, <3>3, <4>1
    <3>5. SortInv'
      BY <3>1, <3>4 DEF SortInv, CPUSorted
    <3> QED BY <3>2, <3>5
  <2>10. CASE UNCHANGED vars
    BY <2>2, <2>10 DEF vars, kernel, analyzer, TimeInv
  <2> QED BY <2>3, <2>4, <2>5, <2>6, <2>7, <2>8, <2>9, <2>10 DEF Next
<1>3. SortInv => CPUGraphsSorted
  BY DEF SortInv, CPUSorted, CPUGraphsSorted
<1> QED BY <1>1, <1>2, <1>3, TypeCorrect, PTL DEF Spec

(***************************************************************************)
(* What a switch does to an entry of taskMap, field by field.               *)
(***************************************************************************)

(* Whether the event names p in the place of the task that leaves.           *)
StandsFor(p, pid, old) == p = pid /\ p # old /\ old # Idle

LEMMA NoteAliasFields ==
  ASSUME NEW r \in Task, NEW old \in Tasks
  PROVE  LET n == NoteAlias(r, old) IN
         /\ n.graph = r.graph /\ n.exitStatus = r.exitStatus
         /\ n.lastRunnable = r.lastRunnable /\ n.lastRunnable_status = r.lastRunnable_status
         /\ n.lastSleepEntry = r.lastSleepEntry
         /\ r.isGhostAliasForPID = NoTask
              => n.isGhostAliasForPID = old /\ n.oneToManyError = r.oneToManyError
         /\ r.isGhostAliasForPID # NoTask
              => /\ n.isGhostAliasForPID = r.isGhostAliasForPID
                 /\ n.oneToManyError = (r.oneToManyError \/ r.isGhostAliasForPID # old)
<1>1. CASE r.isGhostAliasForPID = NoTask
  BY <1>1 DEF NoteAlias, Task
<1>2. CASE r.isGhostAliasForPID # NoTask
  BY <1>2 DEF NoteAlias, Task
<1> QED BY <1>1, <1>2

LEMMA CorrectedTaskFields ==
  ASSUME cpu \in [CPUs -> CPU], task \in [Pids -> Task],
         NEW c \in CPUs, NEW time \in Nat, NEW p \in Pids, NEW pid,
         NEW old \in Tasks \union {Idle}
  PROVE  LET q == CorrectedTask(p, c, pid, old, time)
             n == IF StandsFor(p, pid, old) THEN NoteAlias(task[p], old) ELSE task[p]
         IN
         /\ q \in Task
         /\ q.graph = IF WrongTask(c, old) /\ p \in Tasks
                      THEN Correct(task[p].graph, c, old, p, time) ELSE task[p].graph
         /\ q.exitStatus = task[p].exitStatus
         /\ q.lastRunnable = task[p].lastRunnable
         /\ q.lastRunnable_status = task[p].lastRunnable_status
         /\ ~WrongTask(c, old) => q.lastSleepEntry = task[p].lastSleepEntry
         /\ q.isGhostAliasForPID = n.isGhostAliasForPID
         /\ q.oneToManyError = n.oneToManyError
<1> DEFINE q == CorrectedTask(p, c, pid, old, time)
           n == IF StandsFor(p, pid, old) THEN NoteAlias(task[p], old) ELSE task[p]
<1>1. q \in Task
  BY CorrectedTaskType
<1>2. /\ n \in Task /\ n.graph = task[p].graph /\ n.exitStatus = task[p].exitStatus
      /\ n.lastRunnable = task[p].lastRunnable /\ n.lastRunnable_status = task[p].lastRunnable_status
      /\ n.lastSleepEntry = task[p].lastSleepEntry
  <2>1. CASE StandsFor(p, pid, old)
    <3>1. task[p] \in Task /\ old \in Tasks
      BY <2>1 DEF StandsFor
    <3> QED BY <2>1, <3>1, NoteAliasFields, NoteAliasType
  <2>2. CASE ~StandsFor(p, pid, old)
    BY <2>2
  <2> QED BY <2>1, <2>2
<1>3. q = IF ~WrongTask(c, old) \/ p \notin Tasks THEN n
          ELSE [n EXCEPT !.graph = Correct(n.graph, c, old, p, time),
                         !.lastSleepEntry = IF p = cpu[c].pidOnCPU
                                            THEN cpu[c].lastSched + Delta ELSE n.lastSleepEntry]
  BY DEF CorrectedTask, StandsFor
<1> HIDE DEF q, n
<1>4. CASE ~WrongTask(c, old) \/ p \notin Tasks
  BY <1>1, <1>2, <1>3, <1>4 DEF q, n
<1>5. CASE WrongTask(c, old) /\ p \in Tasks
  <2>1. ASSUME NEW g, NEW l
        PROVE  LET m == [n EXCEPT !.graph = g, !.lastSleepEntry = l] IN
               /\ m.graph = g /\ m.exitStatus = n.exitStatus
               /\ m.lastRunnable = n.lastRunnable /\ m.lastRunnable_status = n.lastRunnable_status
               /\ m.isGhostAliasForPID = n.isGhostAliasForPID
               /\ m.oneToManyError = n.oneToManyError
    BY <1>2 DEF Task
  <2> QED BY <1>1, <1>2, <1>3, <1>5, <2>1 DEF q, n
<1> QED BY <1>4, <1>5

LEMMA TaskLeavesFields ==
  ASSUME NEW r \in Task, NEW c, NEW runnable \in BOOLEAN, NEW time
  PROVE  LET n == TaskLeaves(r, c, runnable, time) IN
         /\ n.graph = Leave(r.graph, c, time)
         /\ n.lastRunnable = IF runnable THEN MidTime(c, time) ELSE r.lastRunnable
         /\ n.lastRunnable_status = IF runnable THEN "sched" ELSE "invalid"
         /\ n.lastSleepEntry = IF runnable THEN r.lastSleepEntry ELSE MidTime(c, time) - Delta
         /\ n.isGhostAliasForPID = r.isGhostAliasForPID
         /\ n.oneToManyError = r.oneToManyError
BY DEF TaskLeaves, Task

LEMMA EnterFields ==
  ASSUME NEW r \in Task, NEW g
  PROVE  LET n == [r EXCEPT !.graph = g] IN
         /\ n.graph = g /\ n.lastRunnable = r.lastRunnable
         /\ n.lastRunnable_status = r.lastRunnable_status
         /\ n.lastSleepEntry = r.lastSleepEntry
         /\ n.isGhostAliasForPID = r.isGhostAliasForPID
         /\ n.oneToManyError = r.oneToManyError
BY DEF Task

(* The unified graph of p when the CPU is known to have had old.               *)
Expected(p, c, old, time) ==
    IF WrongTask(c, old) /\ p \in Tasks
    THEN Correct(task[p].graph, c, old, p, time) ELSE task[p].graph

SwitchedGraph(p, c, old, new, time) ==
    /\ p = old => task'[p].graph = Leave(Expected(p, c, old, time), c, time)
    /\ p # old /\ p = new =>
          task'[p].graph = Enter(Expected(p, c, old, time), c, StartTime, time)
    /\ p # old /\ p # new => task'[p].graph = Expected(p, c, old, time)

SwitchedWait(p, c, old, runnable, time) ==
    /\ task'[p].lastRunnable = IF p = old /\ runnable THEN MidTime(c, time)
                               ELSE task[p].lastRunnable
    /\ task'[p].lastRunnable_status = IF p # old THEN task[p].lastRunnable_status
                                      ELSE IF runnable THEN "sched" ELSE "invalid"
    /\ ~WrongTask(c, old) =>
         task'[p].lastSleepEntry = IF p = old /\ ~runnable THEN MidTime(c, time) - Delta
                                   ELSE task[p].lastSleepEntry

SwitchedOwner(p, pid, old) ==
    LET n == IF StandsFor(p, pid, old) THEN NoteAlias(task[p], old) ELSE task[p]
    IN  /\ task'[p].isGhostAliasForPID = n.isGhostAliasForPID
        /\ task'[p].oneToManyError = n.oneToManyError

LEMMA SwitchTaskFields ==
  ASSUME TypeOK, NEW c \in CPUs, NEW pid, NEW old \in Tasks \union {Idle},
         NEW new \in Tasks \union {Idle}, NEW runnable \in BOOLEAN, now' \in Nat,
         processSwitchEvent(c, pid, old, new, runnable, now'), NEW p \in Pids
  PROVE  /\ SwitchedGraph(p, c, old, new, now')
         /\ SwitchedWait(p, c, old, runnable, now')
         /\ SwitchedOwner(p, pid, old)
<1> DEFINE g == Expected(p, c, old, now')
           n == IF StandsFor(p, pid, old) THEN NoteAlias(task[p], old) ELSE task[p]
           q == CorrectedTask(p, c, pid, old, now')
<1>1. cpu \in [CPUs -> CPU] /\ task \in [Pids -> Task]
  BY DEF TypeOK
<1>2. /\ q \in Task /\ q.graph = g
      /\ q.lastRunnable = task[p].lastRunnable
      /\ q.lastRunnable_status = task[p].lastRunnable_status
      /\ ~WrongTask(c, old) => q.lastSleepEntry = task[p].lastSleepEntry
      /\ q.isGhostAliasForPID = n.isGhostAliasForPID
      /\ q.oneToManyError = n.oneToManyError
  BY <1>1, CorrectedTaskFields DEF Expected
<1>3. task'[p] = IF p = old THEN TaskLeaves(q, c, runnable, now')
                 ELSE IF p = new THEN [q EXCEPT !.graph = Enter(q.graph, c, StartTime, now')]
                 ELSE q
  BY DEF processSwitchEvent
<1>4. /\ SwitchedOwner(p, pid, old)
         <=> /\ task'[p].isGhostAliasForPID = n.isGhostAliasForPID
             /\ task'[p].oneToManyError = n.oneToManyError
      /\ g = Expected(p, c, old, now')
  BY DEF SwitchedOwner
<1> HIDE DEF g, n, q
<1>5. CASE p = old
  <2>1. task'[p] = TaskLeaves(q, c, runnable, now')
    BY <1>3, <1>5
  <2> QED BY <1>2, <1>4, <1>5, <2>1, TaskLeavesFields DEF SwitchedGraph, SwitchedWait
<1>6. CASE p # old /\ p = new
  <2>1. task'[p] = [q EXCEPT !.graph = Enter(q.graph, c, StartTime, now')]
    BY <1>3, <1>6
  <2> QED BY <1>2, <1>4, <1>6, <2>1, EnterFields DEF SwitchedGraph, SwitchedWait
<1>7. CASE p # old /\ p # new
  BY <1>2, <1>3, <1>4, <1>7 DEF SwitchedGraph, SwitchedWait
<1> QED BY <1>5, <1>6, <1>7

(***************************************************************************)
(* What the other handlers do to it.                                        *)
(***************************************************************************)
LEMMA WakeupFields ==
  ASSUME TypeOK, NEW t \in Tasks, NEW time, processWakeupEvent(t, time), NEW p \in Pids
  PROVE  /\ task'[p].graph = IF p = t THEN Begin(task[p].graph, FLOOR_BIT, StartTime)
                             ELSE task[p].graph
         /\ task'[p].lastRunnable = IF p = t THEN time ELSE task[p].lastRunnable
         /\ task'[p].lastRunnable_status = IF p = t THEN "wakeup" ELSE task[p].lastRunnable_status
         /\ task'[p].lastSleepEntry = task[p].lastSleepEntry
         /\ task'[p].isGhostAliasForPID = task[p].isGhostAliasForPID
         /\ task'[p].oneToManyError = task[p].oneToManyError
<1>1. t \in Pids /\ task \in [Pids -> Task] /\ task[p] \in Task
  BY DEF TypeOK, Pids
<1>2. task' = [task EXCEPT ![t] = [task[t] EXCEPT !.lastRunnable = time,
                                                  !.lastRunnable_status = "wakeup",
                                                  !.graph = Begin(@, FLOOR_BIT, StartTime)]]
  BY <1>1 DEF processWakeupEvent
<1>3. CASE p = t
  <2>1. task'[p] = [task[p] EXCEPT !.lastRunnable = time, !.lastRunnable_status = "wakeup",
                                   !.graph = Begin(@, FLOOR_BIT, StartTime)]
    BY <1>1, <1>2, <1>3
  <2> QED BY <1>1, <1>3, <2>1 DEF Task
<1>4. CASE p # t
  BY <1>1, <1>2, <1>4
<1> QED BY <1>3, <1>4

LEMMA ForkFields ==
  ASSUME TypeOK, NEW t \in Tasks, NEW time, processForkEvent(t, time), NEW p \in Pids
  PROVE  /\ task'[p].graph = IF p = t /\ task[t].graph.isNew
                             THEN AddPoint(task[p].graph, time, FLOOR_BIT, time)
                             ELSE task[p].graph
         /\ task'[p].lastRunnable = task[p].lastRunnable
         /\ task'[p].lastRunnable_status = IF p = t /\ task[t].graph.isNew THEN "invalid"
                                           ELSE task[p].lastRunnable_status
         /\ task'[p].lastSleepEntry = task[p].lastSleepEntry
         /\ task'[p].isGhostAliasForPID = task[p].isGhostAliasForPID
         /\ task'[p].oneToManyError = task[p].oneToManyError
<1>1. t \in Pids /\ task \in [Pids -> Task] /\ task[p] \in Task
  BY DEF TypeOK, Pids
<1>2. CASE task[t].graph.isNew
  <2>1. task' = [task EXCEPT ![t] = [task[t] EXCEPT !.lastRunnable_status = "invalid",
                                        !.graph = AddPoint(@, time, FLOOR_BIT, time)]]
    BY <1>1, <1>2 DEF processForkEvent
  <2>2. CASE p = t
    <3>1. task'[p] = [task[p] EXCEPT !.lastRunnable_status = "invalid",
                                     !.graph = AddPoint(@, time, FLOOR_BIT, time)]
      BY <1>1, <2>1, <2>2
    <3> QED BY <1>1, <1>2, <2>2, <3>1 DEF Task
  <2>3. CASE p # t
    BY <1>1, <2>1, <2>3
  <2> QED BY <2>2, <2>3
<1>3. CASE ~task[t].graph.isNew
  BY <1>3 DEF processForkEvent
<1> QED BY <1>2, <1>3

LEMMA ExitFields ==
  ASSUME TypeOK, NEW t \in Tasks, processExitEvent(t), NEW p \in Pids
  PROVE  /\ task'[p].graph = task[p].graph
         /\ task'[p].lastRunnable = task[p].lastRunnable
         /\ task'[p].lastRunnable_status = task[p].lastRunnable_status
         /\ task'[p].lastSleepEntry = task[p].lastSleepEntry
         /\ task'[p].isGhostAliasForPID = task[p].isGhostAliasForPID
         /\ task'[p].oneToManyError = task[p].oneToManyError
<1>1. t \in Pids /\ task \in [Pids -> Task] /\ task[p] \in Task
  BY DEF TypeOK, Pids
<1>2. task' = [task EXCEPT ![t] = [task[t] EXCEPT !.exitStatus = "exitcalled"]]
  BY <1>1 DEF processExitEvent
<1>3. CASE p = t
  <2>1. task'[p] = [task[p] EXCEPT !.exitStatus = "exitcalled"]
    BY <1>1, <1>2, <1>3
  <2> QED BY <1>1, <2>1 DEF Task
<1>4. CASE p # t
  BY <1>1, <1>2, <1>4
<1> QED BY <1>3, <1>4

LEMMA TailFields ==
  ASSUME TypeOK, processSchedAddTail, NEW p \in Pids
  PROVE  /\ task'[p].graph = IF task[p].exitStatus = "final" THEN task[p].graph
                             ELSE ExtendToEnd(task[p].graph)
         /\ task'[p].exitStatus = task[p].exitStatus
         /\ task'[p].isGhostAliasForPID = IF task[p].graph.isNew THEN task[p].isGhostAliasForPID
                                          ELSE NoTask
         /\ task'[p].oneToManyError = task[p].oneToManyError
<1>1. task[p] \in Task
  BY DEF TypeOK
<1>2. task'[p] = [task[p] EXCEPT
             !.graph = IF task[p].exitStatus = "final" THEN @ ELSE ExtendToEnd(@),
             !.isGhostAliasForPID = IF task[p].graph.isNew THEN @ ELSE NoTask]
  BY DEF processSchedAddTail
<1> QED BY <1>1, <1>2 DEF Task

(***************************************************************************)
(* Aliases. Until the tail is added an alias has an owner exactly if it has  *)
(* been used, and is in error unless all tasks that it stood for are its     *)
(* owner; the tail forgets the owner of an alias that is a task.             *)
(***************************************************************************)
AliasOK(a) ==
    /\ ~task[a].oneToManyError => \A t, u \in usedAlias[a] : t = u
    /\ ~task[a].oneToManyError /\ task[a].isGhostAliasForPID # NoTask
         => usedAlias[a] = {task[a].isGhostAliasForPID}
    /\ ~done /\ task[a].isGhostAliasForPID = NoTask => usedAlias[a] = {}
    /\ done /\ task[a].isGhostAliasForPID # NoTask => task[a].graph.isNew

AliasInv == \A a \in Aliases : AliasOK(a)

LEMMA SwitchAliases ==
  ASSUME TypeOK, AliasInv, ~done, NEW c \in CPUs, NEW new \in Tasks \union {Idle},
         NEW runnable \in BOOLEAN, SwitchEvent(c, new, runnable)
  PROVE  AliasInv'
<1> DEFINE old == current[c]
<1>1. old \in Tasks \union {Idle} /\ new # old /\ now' \in Nat /\ done' = done
  BY SwitchType DEF SwitchEvent, TypeOK, KernelTypeOK, Switch
<1>2. PICK pid \in {old} \union workload.aliases :
         /\ old = Idle => pid = Idle
         /\ processSwitchEvent(c, pid, old, new, runnable, now')
         /\ usedAlias' = IF pid = old THEN usedAlias
                         ELSE [usedAlias EXCEPT ![pid] = @ \union {old}]
  BY DEF SwitchEvent
<1>3. ASSUME NEW a \in Aliases PROVE AliasOK(a)'
  <2> HIDE DEF old
  <2>1. a \in Pids /\ task[a] \in Task /\ Aliases = DOMAIN usedAlias /\ AliasOK(a)
    BY DEF Pids, TypeOK, AliasInv
  <2> DEFINE n == IF StandsFor(a, pid, old) THEN NoteAlias(task[a], old) ELSE task[a]
  <2>2. /\ task'[a].isGhostAliasForPID = n.isGhostAliasForPID
        /\ task'[a].oneToManyError = n.oneToManyError
    BY <1>1, <1>2, <2>1, SwitchTaskFields DEF SwitchedOwner
  <2>3. CASE ~StandsFor(a, pid, old)
    <3>1. a # pid \/ pid = old
      BY <1>2, <2>3 DEF StandsFor
    <3>2. usedAlias'[a] = usedAlias[a]
      BY <1>2, <2>1, <3>1
    <3>3. n = task[a]
      BY <2>3
    <3> HIDE DEF n
    <3> QED BY <1>1, <2>1, <2>2, <3>2, <3>3 DEF AliasOK
  <2>4. CASE StandsFor(a, pid, old)
    <3>1. a = pid /\ pid # old /\ old \in Tasks
      BY <1>1, <2>4 DEF StandsFor
    <3>2. usedAlias'[a] = usedAlias[a] \union {old}
      BY <1>2, <2>1, <3>1
    <3>3. /\ task[a].isGhostAliasForPID = NoTask
               => n.isGhostAliasForPID = old /\ n.oneToManyError = task[a].oneToManyError
          /\ task[a].isGhostAliasForPID # NoTask
               => /\ n.isGhostAliasForPID = task[a].isGhostAliasForPID
                  /\ n.oneToManyError = (task[a].oneToManyError
                                           \/ task[a].isGhostAliasForPID # old)
      BY <2>1, <2>4, <3>1, NoteAliasFields
    <3> HIDE DEF n
    <3>4. old # NoTask
      BY <3>1, TasksAssumption DEF NoTask
    <3>5. CASE task[a].isGhostAliasForPID = NoTask
      <4>1. usedAlias'[a] = {old} /\ task'[a].isGhostAliasForPID = old
        BY <2>1, <2>2, <3>2, <3>3, <3>5 DEF AliasOK
      <4> QED BY <1>1, <3>4, <4>1 DEF AliasOK
    <3>6. CASE task[a].isGhostAliasForPID # NoTask
      <4>1. task'[a].isGhostAliasForPID = task[a].isGhostAliasForPID
        BY <2>2, <3>3, <3>6
      <4>2. ASSUME ~task'[a].oneToManyError
            PROVE  ~task[a].oneToManyError /\ task[a].isGhostAliasForPID = old
        BY <2>2, <3>3, <3>6, <4>2
      <4>3. ASSUME ~task'[a].oneToManyError PROVE usedAlias'[a] = {old}
        BY <2>1, <3>2, <3>6, <4>2, <4>3 DEF AliasOK
      <4> QED BY <1>1, <3>6, <4>1, <4>2, <4>3 DEF AliasOK
    <3> QED BY <3>5, <3>6
  <2> QED BY <2>3, <2>4
<1> QED BY <1>3 DEF AliasInv

LEMMA SameAliases ==
  ASSUME AliasInv, UNCHANGED <<usedAlias, done>>, ~done,
         \A p \in Pids : /\ task'[p].isGhostAliasForPID = task[p].isGhostAliasForPID
                         /\ task'[p].oneToManyError = task[p].oneToManyError
  PROVE  AliasInv'
BY DEF AliasInv, AliasOK, Pids

LEMMA TailAliases ==
  ASSUME TypeOK, AliasInv, processSchedAddTail
  PROVE  AliasInv'
<1> SUFFICES ASSUME NEW a \in Aliases PROVE AliasOK(a)'
  BY DEF AliasInv
<1>1. a \in Pids /\ AliasOK(a) /\ usedAlias' = usedAlias /\ done' = TRUE
  BY DEF AliasInv, processSchedAddTail, Pids
<1>2. /\ task'[a].graph = IF task[a].exitStatus = "final" THEN task[a].graph
                          ELSE ExtendToEnd(task[a].graph)
      /\ task'[a].isGhostAliasForPID = IF task[a].graph.isNew THEN task[a].isGhostAliasForPID
                                       ELSE NoTask
      /\ task'[a].oneToManyError = task[a].oneToManyError
  BY <1>1, TailFields
<1>3. task[a].graph.isNew => task'[a].graph.isNew
  BY <1>2 DEF ExtendToEnd
<1> QED BY <1>1, <1>2, <1>3 DEF AliasOK

LEMMA AliasesInv ==
  ASSUME TypeOK, AliasInv
  PROVE  AliasesAreUnambiguous
<1> SUFFICES ASSUME NEW a \in Aliases, ~task[a].oneToManyError
             PROVE  ~(Cardinality(usedAlias[a]) > 1)
  BY DEF AliasesAreUnambiguous, AliasInv, AliasOK
<1>1. \A t, u \in usedAlias[a] : t = u
  BY DEF AliasInv, AliasOK
<1>2. CASE usedAlias[a] = {}
  BY <1>2, FS_EmptySet
<1>3. CASE usedAlias[a] # {}
  <2>1. PICK t : usedAlias[a] = {t}
    BY <1>1, <1>3
  <2>2. Cardinality({t}) = 1
    BY FS_Singleton
  <2> QED BY <2>1, <2>2
<1> QED BY <1>2, <1>3

(* findRealTask() translates an alias only into the one task that it has stood   *)
(* for in the events, and never if it is itself a task of the trace           *)
(* (processSwitchEvent(), processSchedAddTail()).                              *)
THEOREM AliasesCorrect == Spec => []AliasesAreUnambiguous
<1>1. Init => AliasInv
  BY DEF Init, AliasInv, AliasOK, NewTask, Pids
<1>2. TypeOK /\ AliasInv /\ [Next]_vars => AliasInv'
  <2> SUFFICES ASSUME TypeOK, AliasInv, [Next]_vars PROVE AliasInv'
    OBVIOUS
  <2>1. ASSUME ~done, NEW c \in CPUs, NEW new \in Tasks \union {Idle}, NEW runnable \in BOOLEAN,
               SwitchEvent(c, new, runnable)
        PROVE  AliasInv'
    BY <2>1, SwitchAliases
  <2>2. ASSUME UNCHANGED <<task, usedAlias, done>> PROVE AliasInv'
    BY <2>2 DEF AliasInv, AliasOK
  <2>3. ASSUME NEW c \in CPUs, NEW new \in Tasks \union {Idle}, NEW runnable \in BOOLEAN,
               SwitchLost(c, new, runnable)
        PROVE  AliasInv'
    BY <2>2, <2>3 DEF SwitchLost
  <2>4. ASSUME ~done, NEW t \in Tasks, WakeupEvent(t) PROVE AliasInv'
    BY <2>4, SameAliases, WakeupFields DEF WakeupEvent
  <2>5. ASSUME NEW t \in Tasks, WakeupLost(t) PROVE AliasInv'
    BY <2>2, <2>5 DEF WakeupLost
  <2>6. ASSUME ~done, NEW t \in Tasks, ForkEvent(t) PROVE AliasInv'
    BY <2>6, SameAliases, ForkFields DEF ForkEvent
  <2>7. ASSUME ~done, NEW c \in CPUs, ExitEvent(c) PROVE AliasInv'
    BY <2>7, SameAliases, ExitFields, ExitType DEF ExitEvent, TypeOK
  <2>8. CASE processSchedAddTail
    BY <2>8, TailAliases
  <2>9. CASE UNCHANGED vars
    BY <2>2, <2>9 DEF vars, analyzer
  <2> QED BY <2>1, <2>3, <2>4, <2>5, <2>6, <2>7, <2>8, <2>9 DEF Next
<1>3. TypeOK /\ AliasInv => AliasesAreUnambiguous
  BY AliasesInv
<1> QED BY <1>1, <1>2, <1>3, TypeCorrect, PTL DEF Spec

(***************************************************************************)
(* The tasks that run are those on a CPU, each on one.                      *)
(***************************************************************************)
RunningInv ==
    /\ \A c, d \in CPUs : c # d /\ current[c] = current[d] => current[c] = Idle
    /\ \A t \in Tasks : state[t] = "running" <=> \E c \in CPUs : current[c] = t

LEMMA SwitchRunning ==
  ASSUME KernelTypeOK, RunningInv, NEW c \in CPUs, NEW new \in Tasks \union {Idle},
         NEW runnable \in BOOLEAN, Switch(c, new, runnable)
  PROVE  RunningInv'
<1> DEFINE old == current[c]
<1>1. /\ current' = [current EXCEPT ![c] = new] /\ new # old
      /\ new # Idle => state[new] = "ready"
      /\ state' = [t \in Tasks |->
                      IF t = new THEN "running"
                      ELSE IF t # old THEN state[t]
                      ELSE IF runnable THEN "ready"
                      ELSE IF t \in exiting THEN "gone" ELSE "sleeping"]
  BY DEF Switch
<1>2. /\ current \in [CPUs -> Tasks \union {Idle}]
      /\ \A d \in CPUs : current'[d] = IF d = c THEN new ELSE current[d]
  BY <1>1 DEF KernelTypeOK
<1>3. ASSUME NEW d \in CPUs, current[d] = new PROVE new = Idle
  <2>1. CASE new \in Tasks
    <3>1. state[new] = "ready" /\ state[new] = "running"
      BY <1>1, <1>3, <2>1, TasksAssumption DEF RunningInv, Idle
    <3> QED BY <3>1
  <2> QED BY <2>1
<1>4. \A d, e \in CPUs : d # e /\ current'[d] = current'[e] => current'[d] = Idle
  BY <1>2, <1>3 DEF RunningInv
<1>5. ASSUME NEW t \in Tasks PROVE state'[t] = "running" <=> \E d \in CPUs : current'[d] = t
  <2>1. t # Idle
    BY TasksAssumption DEF Idle
  <2>2. CASE t = new
    BY <1>1, <1>2, <2>2
  <2>3. CASE t = old /\ t # new
    <3>1. state'[t] # "running"
      BY <1>1, <2>3
    <3>2. \A d \in CPUs : current'[d] # t
      BY <1>2, <2>1, <2>3 DEF RunningInv
    <3> QED BY <3>1, <3>2
  <2>4. CASE t # old /\ t # new
    <3>1. state'[t] = state[t]
      BY <1>1, <2>4
    <3>2. (\E d \in CPUs : current'[d] = t) <=> \E d \in CPUs : current[d] = t
      BY <1>2, <2>4
    <3> QED BY <3>1, <3>2 DEF RunningInv
  <2> QED BY <2>2, <2>3, <2>4
<1> QED BY <1>4, <1>5 DEF RunningInv

LEMMA OtherRunning ==
  ASSUME KernelTypeOK, RunningInv, NEW t \in Tasks, WakeUp(t) \/ WakeUpRunning(t) \/ Fork(t)
  PROVE  RunningInv'
<1>1. current' = current
  BY DEF WakeUp, WakeUpRunning, Fork
<1>2. ASSUME NEW u \in Tasks PROVE state'[u] = "running" <=> state[u] = "running"
  BY DEF WakeUp, WakeUpRunning, Fork, KernelTypeOK
<1> QED BY <1>1, <1>2 DEF RunningInv

LEMMA RunningCorrect == Spec => []RunningInv
<1>1. Init => RunningInv
  BY DEF Init, KernelInit, RunningInv
<1>2. TypeOK /\ RunningInv /\ [Next]_vars => RunningInv'
  <2> SUFFICES ASSUME KernelTypeOK, RunningInv, [Next]_vars PROVE RunningInv'
    BY DEF TypeOK
  <2>1. ASSUME NEW c \in CPUs, NEW new \in Tasks \union {Idle}, NEW runnable \in BOOLEAN,
               SwitchEvent(c, new, runnable) \/ SwitchLost(c, new, runnable)
        PROVE  RunningInv'
    BY <2>1, SwitchRunning DEF SwitchEvent, SwitchLost
  <2>2. ASSUME NEW t \in Tasks, WakeupEvent(t) \/ WakeupLost(t) \/ ForkEvent(t) PROVE RunningInv'
    BY <2>2, OtherRunning DEF WakeupEvent, WakeupLost, ForkEvent
  <2>3. ASSUME NEW c \in CPUs, ExitEvent(c) PROVE RunningInv'
    BY <2>3 DEF ExitEvent, Exit, RunningInv
  <2>4. CASE processSchedAddTail \/ UNCHANGED vars
    BY <2>4 DEF processSchedAddTail, vars, kernel, RunningInv
  <2> QED BY <2>1, <2>2, <2>3, <2>4 DEF Next
<1> QED BY <1>1, <1>2, TypeCorrect, PTL DEF Spec

(***************************************************************************)
(* The handlers know who is on a CPU unless a switch is lost.               *)
(***************************************************************************)
KnownInv == "switch" \notin lost =>
              \A c \in CPUs : cpu[c].hasBeenScheduled => cpu[c].pidOnCPU = current[c]

LEMMA SwitchKnown ==
  ASSUME TypeOK, KnownInv, NEW c \in CPUs, NEW new \in Tasks \union {Idle},
         NEW runnable \in BOOLEAN, SwitchEvent(c, new, runnable)
  PROVE  /\ KnownInv'
         /\ cpu'[c].hasBeenScheduled /\ cpu'[c].pidOnCPU = new
         /\ \A d \in CPUs : d # c => cpu'[d] = cpu[d]
         /\ \A d \in CPUs : current'[d] = IF d = c THEN new ELSE current[d]
         /\ "switch" \notin lost => ~WrongTask(c, current[c])
<1>1. PICK pid : processSwitchEvent(c, pid, current[c], new, runnable, now')
  BY DEF SwitchEvent
<1>2. /\ cpu'[c].hasBeenScheduled /\ cpu'[c].pidOnCPU = new
      /\ \A d \in CPUs : d # c => cpu'[d] = cpu[d]
  BY <1>1 DEF processSwitchEvent, TypeOK
<1>3. \A d \in CPUs : current'[d] = IF d = c THEN new ELSE current[d]
  BY DEF SwitchEvent, Switch, TypeOK, KernelTypeOK
<1>4. lost' = lost
  BY DEF SwitchEvent
<1>5. KnownInv'
  BY <1>2, <1>3, <1>4 DEF KnownInv
<1> QED BY <1>2, <1>3, <1>5 DEF KnownInv, WrongTask

LEMMA KnownCorrect == Spec => []KnownInv
<1>1. Init => KnownInv
  BY DEF Init, KnownInv, NewCPU
<1>2. TypeOK /\ KnownInv /\ [Next]_vars => KnownInv'
  <2> SUFFICES ASSUME TypeOK, KnownInv, [Next]_vars PROVE KnownInv'
    OBVIOUS
  <2>1. ASSUME NEW c \in CPUs, NEW new \in Tasks \union {Idle}, NEW runnable \in BOOLEAN,
               SwitchEvent(c, new, runnable)
        PROVE  KnownInv'
    BY <2>1, SwitchKnown
  <2>2. ASSUME NEW c \in CPUs, NEW new \in Tasks \union {Idle}, NEW runnable \in BOOLEAN,
               SwitchLost(c, new, runnable)
        PROVE  KnownInv'
    BY <2>2 DEF SwitchLost, KnownInv
  <2>3. ASSUME NEW t \in Tasks, WakeupEvent(t) \/ WakeupLost(t) \/ ForkEvent(t) PROVE KnownInv'
    BY <2>3 DEF WakeupEvent, WakeUp, WakeUpRunning, processWakeupEvent, WakeupLost, ForkEvent, Fork,
       processForkEvent, KnownInv
  <2>4. ASSUME NEW c \in CPUs, ExitEvent(c) PROVE KnownInv'
    BY <2>4 DEF ExitEvent, Exit, processExitEvent, KnownInv
  <2>5. CASE processSchedAddTail \/ UNCHANGED vars
    BY <2>5 DEF processSchedAddTail, vars, analyzer, kernel, KnownInv
  <2> QED BY <2>1, <2>2, <2>3, <2>4, <2>5 DEF Next
<1> QED BY <1>1, <1>2, TypeCorrect, PTL DEF Spec

(***************************************************************************)
(* The graphs of the CPUs and the unified ones agree. A graph without points *)
(* shows nothing, and a task that is believed to be on a CPU has points.     *)
(***************************************************************************)
OnCPU(t) == \E c \in CPUs : cpu[c].hasBeenScheduled /\ current[c] = t

AgreeInv ==
    /\ \A t \in Tasks : task[t].graph.isNew => task[t].graph.bit = FLOOR_BIT
    /\ \A c \in CPUs, t \in Tasks : cpuTask[c][t].isNew => cpuTask[c][t].bit = FLOOR_BIT
    /\ \A c \in CPUs, t \in Tasks :
          cpu[c].hasBeenScheduled /\ cpu[c].pidOnCPU = t => ~task[t].graph.isNew
    /\ "switch" \notin lost =>
          \A t \in Tasks : task[t].graph.bit = SCHED_BIT <=> OnCPU(t)

ShownToEnd ==
    done => \A c \in CPUs, t \in Tasks :
               cpu[c].hasBeenScheduled /\ cpu[c].pidOnCPU = t =>
                  /\ cpuTask[c][t].time >= now
                  /\ task[t].exitStatus # "final" => task[t].graph.time >= now

LEMMA PointsStay ==
  /\ \A g, time, bit, event : /\ AddPoint(g, time, bit, event).isNew = FALSE
                              /\ AddPoint(g, time, bit, event).bit = bit
  /\ \A g, c, time : Leave(g, c, time).isNew = FALSE /\ Leave(g, c, time).bit = FLOOR_BIT
  /\ \A g, c, first, time : /\ Enter(g, c, first, time).isNew = FALSE
                            /\ Enter(g, c, first, time).bit = SCHED_BIT
  /\ \A g, c, old, t, time : Correct(g, c, old, t, time).isNew => Correct(g, c, old, t, time) = g
<1>1. \A g, time, bit, event : /\ AddPoint(g, time, bit, event).isNew = FALSE
                               /\ AddPoint(g, time, bit, event).bit = bit
  BY DEF AddPoint
<1> QED BY <1>1 DEF Leave, Enter, Correct

LEMMA SwitchAgrees ==
  ASSUME TypeOK, KnownInv, RunningInv, AgreeInv, NEW c \in CPUs, NEW new \in Tasks \union {Idle},
         NEW runnable \in BOOLEAN, SwitchEvent(c, new, runnable)
  PROVE  AgreeInv'
<1> DEFINE old == current[c]
<1>1. /\ old \in Tasks \union {Idle} /\ new # old /\ now' \in Nat /\ lost' = lost
      /\ cpuTask \in [CPUs -> [Tasks -> Graph]]
  BY SwitchType DEF SwitchEvent, TypeOK, KernelTypeOK, Switch
<1>2. PICK pid : processSwitchEvent(c, pid, old, new, runnable, now')
  BY DEF SwitchEvent
<1>3. /\ cpu'[c].hasBeenScheduled /\ cpu'[c].pidOnCPU = new
      /\ \A d \in CPUs : d # c => cpu'[d] = cpu[d]
      /\ \A d \in CPUs : current'[d] = IF d = c THEN new ELSE current[d]
      /\ "switch" \notin lost => ~WrongTask(c, old)
  BY SwitchKnown
<1> DEFINE g(t) == Expected(t, c, old, now')
           h(t) == CorrectedGraph(t, c, old, now')
<1>4. cpuTask' = [cpuTask EXCEPT ![c] = [t \in Tasks |->
                    IF t = old THEN Leave(h(t), c, now')
                    ELSE IF t = new THEN Enter(h(t), c, now', now')
                    ELSE h(t)]]
  BY <1>2 DEF processSwitchEvent
<1>5. ASSUME NEW t \in Tasks
      PROVE  /\ t = old => task'[t].graph = Leave(g(t), c, now')
             /\ t # old /\ t = new => task'[t].graph = Enter(g(t), c, StartTime, now')
             /\ t # old /\ t # new => task'[t].graph = g(t)
             /\ g(t).isNew => g(t) = task[t].graph
             /\ ~WrongTask(c, old) => g(t) = task[t].graph
             /\ h(t).isNew => h(t) = cpuTask[c][t]
  <2> HIDE DEF old
  <2>1. t \in Pids
    BY DEF Pids
  <2>2. /\ t = old => task'[t].graph = Leave(g(t), c, now')
        /\ t # old /\ t = new => task'[t].graph = Enter(g(t), c, StartTime, now')
        /\ t # old /\ t # new => task'[t].graph = g(t)
    <3>1. SwitchedGraph(t, c, old, new, now')
      BY <1>1, <1>2, <2>1, SwitchTaskFields
    <3> QED BY <3>1 DEF SwitchedGraph
  <2>3. h(t).isNew => h(t) = cpuTask[c][t]
    BY PointsStay DEF CorrectedGraph
  <2> QED BY <2>2, <2>3, PointsStay DEF Expected
<1> HIDE DEF g, h
<1>6. ASSUME NEW t \in Tasks
      PROVE  task'[t].graph.isNew =>
                task'[t].graph = task[t].graph /\ t # old /\ t # new
  <2> HIDE DEF old
  <2>1. CASE t = old
    BY <1>5, <2>1, PointsStay
  <2>2. CASE t # old /\ t = new
    BY <1>5, <2>2, PointsStay
  <2>3. CASE t # old /\ t # new
    BY <1>5, <2>3
  <2> QED BY <2>1, <2>2, <2>3
<1>7. ASSUME NEW t \in Tasks PROVE task'[t].graph.isNew => task'[t].graph.bit = FLOOR_BIT
  BY <1>6 DEF AgreeInv
<1>8. ASSUME NEW d \in CPUs, NEW t \in Tasks
      PROVE  cpuTask'[d][t].isNew => cpuTask'[d][t].bit = FLOOR_BIT
  <2>1. CASE d # c
    BY <1>1, <1>4, <2>1 DEF AgreeInv
  <2>2. CASE d = c
    <3>1. cpuTask'[c][t] = IF t = old THEN Leave(h(t), c, now')
                           ELSE IF t = new THEN Enter(h(t), c, now', now') ELSE h(t)
      BY <1>1, <1>4
    <3> HIDE DEF old
    <3>2. CASE t = old
      BY <2>2, <3>1, <3>2, PointsStay
    <3>3. CASE t # old /\ t = new
      BY <2>2, <3>1, <3>3, PointsStay
    <3>4. CASE t # old /\ t # new
      BY <1>5, <2>2, <3>1, <3>4 DEF AgreeInv
    <3> QED BY <3>2, <3>3, <3>4
  <2> QED BY <2>1, <2>2
<1>9. ASSUME NEW d \in CPUs, NEW t \in Tasks, cpu'[d].hasBeenScheduled, cpu'[d].pidOnCPU = t
      PROVE  ~task'[t].graph.isNew
  <2>1. CASE d = c
    BY <1>3, <1>6, <1>9, <2>1
  <2>2. CASE d # c
    BY <1>3, <1>6, <1>9, <2>2 DEF AgreeInv
  <2> QED BY <2>1, <2>2
<1>10. ASSUME "switch" \notin lost, NEW t \in Tasks
       PROVE  task'[t].graph.bit = SCHED_BIT <=> OnCPU(t)'
  <2>1. t # Idle /\ g(t) = task[t].graph
    BY <1>3, <1>5, <1>10, TasksAssumption DEF Idle
  <2>2. CASE t = new
    <3>1. task'[t].graph.bit = SCHED_BIT
      BY <1>1, <1>5, <2>2, PointsStay
    <3> QED BY <1>3, <2>2, <3>1 DEF OnCPU
  <2>3. CASE t = old
    <3>1. task'[t].graph.bit # SCHED_BIT
      BY <1>5, <2>3, PointsStay DEF SCHED_BIT, FLOOR_BIT
    <3>2. \A d \in CPUs : current'[d] # t
      BY <1>1, <1>3, <2>1, <2>3 DEF RunningInv
    <3> QED BY <3>1, <3>2 DEF OnCPU
  <2>4. CASE t # old /\ t # new
    <3>1. task'[t].graph = task[t].graph
      BY <1>5, <2>1, <2>4
    <3>2. OnCPU(t)' <=> OnCPU(t)
      BY <1>3, <2>4 DEF OnCPU
    <3> QED BY <1>10, <3>1, <3>2 DEF AgreeInv
  <2> QED BY <2>2, <2>3, <2>4
<1> QED BY <1>1, <1>7, <1>8, <1>9, <1>10 DEF AgreeInv

(* The other events only begin graphs, of tasks that are not running.           *)
LEMMA OtherAgrees ==
  ASSUME AgreeInv, UNCHANGED <<cpu, cpuTask, current, lost>>,
         \A t \in Tasks : \/ task'[t].graph = task[t].graph
                          \/ /\ task[t].graph.isNew
                             /\ task'[t].graph.bit = FLOOR_BIT /\ ~task'[t].graph.isNew
  PROVE  AgreeInv'
<1>1. FLOOR_BIT # SCHED_BIT
  BY DEF FLOOR_BIT, SCHED_BIT
<1> QED BY <1>1 DEF AgreeInv, OnCPU

LEMMA TailAgrees ==
  ASSUME TypeOK, ShownInv, AgreeInv, processSchedAddTail
  PROVE  AgreeInv' /\ ShownToEnd'
<1>1. /\ UNCHANGED <<kernel, cpu, lost>>
      /\ cpuTask' = [c \in CPUs |-> [t \in Tasks |-> ExtendToEnd(cpuTask[c][t])]]
  BY DEF processSchedAddTail
<1>2. UNCHANGED <<current, now>> /\ now \in Nat
  BY <1>1 DEF kernel, TypeOK, KernelTypeOK
<1>3. ASSUME NEW g \in Graph
      PROVE  LET e == ExtendToEnd(g) IN
             e.bit = g.bit /\ e.isNew = g.isNew /\ (~g.isNew => e.time >= now)
  <2>1. g.time \in Int
    BY DEF Graph
  <2>2. CASE g.isNew \/ g.time >= now
    BY <2>2 DEF ExtendToEnd
  <2>3. CASE ~(g.isNew \/ g.time >= now)
    <3>1. ExtendToEnd(g) = AddPoint(g, now, g.bit, now)
      BY <2>3 DEF ExtendToEnd
    <3>2. g.isNew = FALSE
      BY <2>3 DEF Graph
    <3>3. /\ ExtendToEnd(g).bit = g.bit /\ ExtendToEnd(g).isNew = FALSE
          /\ ExtendToEnd(g).time = now
      BY <3>1 DEF AddPoint
    <3>4. now >= now
      BY <1>2
    <3> QED BY <3>2, <3>3, <3>4
  <2> QED BY <2>2, <2>3
<1>4. ASSUME NEW t \in Tasks
      PROVE  /\ task'[t].graph.bit = task[t].graph.bit
             /\ task'[t].graph.isNew = task[t].graph.isNew
             /\ task'[t].exitStatus = task[t].exitStatus
             /\ ~task[t].graph.isNew /\ task[t].exitStatus # "final" => task'[t].graph.time >= now
  <2>1. t \in Pids /\ task[t].graph \in Graph
    BY DEF Pids, TypeOK, Task
  <2>2. /\ task'[t].graph = IF task[t].exitStatus = "final" THEN task[t].graph
                            ELSE ExtendToEnd(task[t].graph)
        /\ task'[t].exitStatus = task[t].exitStatus
    BY <2>1, TailFields
  <2>3. CASE task[t].exitStatus = "final"
    BY <2>2, <2>3
  <2>4. CASE task[t].exitStatus # "final"
    BY <1>3, <2>1, <2>2, <2>4
  <2> QED BY <2>3, <2>4
<1>5. ASSUME NEW c \in CPUs, NEW t \in Tasks
      PROVE  /\ cpuTask'[c][t].bit = cpuTask[c][t].bit
             /\ cpuTask'[c][t].isNew = cpuTask[c][t].isNew
             /\ ~cpuTask[c][t].isNew => cpuTask'[c][t].time >= now
  <2>1. cpuTask[c][t] \in Graph
    BY DEF TypeOK
  <2> QED BY <1>1, <1>3, <2>1
<1>6. AgreeInv'
  BY <1>1, <1>2, <1>4, <1>5 DEF AgreeInv, OnCPU
<1>7. ASSUME NEW c \in CPUs, NEW t \in Tasks, cpu[c].hasBeenScheduled, cpu[c].pidOnCPU = t
      PROVE  ~cpuTask[c][t].isNew /\ ~task[t].graph.isNew
  <2>1. cpuTask[c][t].bit = SCHED_BIT
    BY <1>7 DEF ShownInv, Shown
  <2> QED BY <1>7, <2>1 DEF AgreeInv, SCHED_BIT, FLOOR_BIT
<1>8. ShownToEnd'
  BY <1>1, <1>2, <1>4, <1>5, <1>7 DEF ShownToEnd
<1> QED BY <1>6, <1>8

LEMMA ShownInvCorrect == Spec => []ShownInv
<1>1. TypeOK /\ OneTaskPerCPU => ShownInv
  BY ShownIsOneTask
<1> QED BY <1>1, TypeCorrect, OneTaskPerCPUCorrect, PTL

LEMMA NextAgrees ==
  ASSUME TypeOK, ShownInv, KnownInv, RunningInv, AgreeInv, ShownToEnd, [Next]_vars
  PROVE  AgreeInv' /\ ShownToEnd'
<1>1. ASSUME ~done, UNCHANGED done PROVE ShownToEnd'
  BY <1>1 DEF ShownToEnd
<1>2. ASSUME ~done, NEW c \in CPUs, NEW new \in Tasks \union {Idle}, NEW runnable \in BOOLEAN,
             SwitchEvent(c, new, runnable)
      PROVE  AgreeInv' /\ ShownToEnd'
  BY <1>1, <1>2, SwitchAgrees DEF SwitchEvent
<1>3. ASSUME ~done, NEW c \in CPUs, NEW new \in Tasks \union {Idle}, NEW runnable \in BOOLEAN,
             SwitchLost(c, new, runnable)
      PROVE  AgreeInv' /\ ShownToEnd'
  BY <1>1, <1>3 DEF SwitchLost, AgreeInv
<1>4. ASSUME ~done, NEW t \in Tasks, WakeupEvent(t) PROVE AgreeInv' /\ ShownToEnd'
  <2>1. UNCHANGED <<cpu, cpuTask, current, lost, done>> /\ processWakeupEvent(t, now')
    BY <1>4 DEF WakeupEvent, WakeUp, WakeUpRunning, processWakeupEvent
  <2>2. ASSUME NEW u \in Tasks
        PROVE  \/ task'[u].graph = task[u].graph
               \/ /\ task[u].graph.isNew
                  /\ task'[u].graph.bit = FLOOR_BIT /\ ~task'[u].graph.isNew
    <3>1. task'[u].graph = IF u = t THEN Begin(task[u].graph, FLOOR_BIT, StartTime)
                           ELSE task[u].graph
      BY <2>1, WakeupFields DEF Pids
    <3> QED BY <3>1, PointsStay DEF Begin
  <2> QED BY <1>1, <1>4, <2>1, <2>2, OtherAgrees
<1>5. ASSUME ~done, NEW t \in Tasks, WakeupLost(t) PROVE AgreeInv' /\ ShownToEnd'
  <2>1. UNCHANGED <<cpu, cpuTask, task, current, done>> /\ lost \subseteq lost'
    BY <1>5 DEF WakeupLost, WakeUp
  <2> QED BY <1>1, <1>5, <2>1 DEF AgreeInv, OnCPU
<1>6. ASSUME ~done, NEW t \in Tasks, ForkEvent(t) PROVE AgreeInv' /\ ShownToEnd'
  <2>1. UNCHANGED <<cpu, cpuTask, current, lost, done>> /\ processForkEvent(t, now')
    BY <1>6 DEF ForkEvent, Fork, processForkEvent
  <2>2. ASSUME NEW u \in Tasks
        PROVE  \/ task'[u].graph = task[u].graph
               \/ /\ task[u].graph.isNew
                  /\ task'[u].graph.bit = FLOOR_BIT /\ ~task'[u].graph.isNew
    <3>1. task'[u].graph = IF u = t /\ task[t].graph.isNew
                           THEN AddPoint(task[u].graph, now', FLOOR_BIT, now')
                           ELSE task[u].graph
      BY <2>1, ForkFields DEF Pids
    <3> QED BY <3>1, PointsStay
  <2> QED BY <1>1, <1>6, <2>1, <2>2, OtherAgrees
<1>7. ASSUME ~done, NEW c \in CPUs, ExitEvent(c) PROVE AgreeInv' /\ ShownToEnd'
  <2>1. UNCHANGED <<cpu, cpuTask, current, lost, done>> /\ current[c] \in Tasks
        /\ processExitEvent(current[c])
    BY <1>7, ExitType DEF ExitEvent, Exit, processExitEvent, TypeOK
  <2>2. \A u \in Tasks : task'[u].graph = task[u].graph
    BY <2>1, ExitFields DEF Pids
  <2> QED BY <1>1, <1>7, <2>1, <2>2, OtherAgrees
<1>8. CASE processSchedAddTail
  BY <1>8, TailAgrees
<1>9. CASE UNCHANGED vars
  BY <1>9 DEF vars, analyzer, kernel, AgreeInv, OnCPU, ShownToEnd
<1> QED BY <1>2, <1>3, <1>4, <1>5, <1>6, <1>7, <1>8, <1>9 DEF Next

(* A task is shown running in its unified graph exactly while it is on the graph  *)
(* of a CPU as long as no switch is lost, and whoever is on a CPU is shown there *)
(* to the end whatever is lost (processSwitchEvent(), processSchedAddTail()).   *)
THEOREM GraphsAgreeCorrect == Spec => []GraphsAgree
<1>1. Init => AgreeInv /\ ShownToEnd
  <2> SUFFICES ASSUME Init PROVE AgreeInv /\ ShownToEnd
    OBVIOUS
  <2>1. \A t \in Tasks : task[t].graph = EmptyGraph
    BY DEF Init, Pids, NewTask
  <2>2. \A c \in CPUs : ~cpu[c].hasBeenScheduled /\ \A t \in Tasks : cpuTask[c][t] = EmptyGraph
    BY DEF Init, NewCPU
  <2>3. EmptyGraph.bit = FLOOR_BIT /\ FLOOR_BIT # SCHED_BIT
    BY DEF EmptyGraph, FLOOR_BIT, SCHED_BIT
  <2> QED BY <2>1, <2>2, <2>3 DEF Init, AgreeInv, OnCPU, ShownToEnd
<1>2. ShownInv /\ KnownInv /\ AgreeInv /\ ShownToEnd => GraphsAgree
  <2> SUFFICES ASSUME ShownInv, KnownInv, AgreeInv, ShownToEnd PROVE GraphsAgree
    OBVIOUS
  <2>1. ASSUME "switch" \notin lost, NEW t \in Tasks
        PROVE  OnCPU(t) <=> \E c \in CPUs : cpuTask[c][t].bit = SCHED_BIT
    BY <2>1 DEF ShownInv, Shown, KnownInv, OnCPU
  <2> QED BY <2>1 DEF AgreeInv, ShownToEnd, GraphsAgree
<1>3. TypeOK /\ ShownInv /\ KnownInv /\ RunningInv /\ AgreeInv /\ ShownToEnd /\ [Next]_vars
        => AgreeInv' /\ ShownToEnd'
  BY NextAgrees
<1> QED BY <1>1, <1>2, <1>3, TypeCorrect, ShownInvCorrect, KnownCorrect, RunningCorrect, PTL DEF Spec

(***************************************************************************)
(* Events that are further apart than the fake times: no switch is too close *)
(* to the last one of its CPU.                                              *)
(***************************************************************************)
RecentInv == Spaced => \A c \in CPUs : cpu[c].hasBeenScheduled =>
                          events > 0 /\ cpu[c].lastSched <= now + Delta

LEMMA TickPasses ==
  ASSUME KernelTypeOK, Tick
  PROVE  /\ now \in Nat /\ now' \in Nat /\ events \in Nat /\ events' > 0 /\ now <= now'
         /\ Spaced' <=> Spaced
         /\ Spaced /\ events > 0 => now' > now + 2 * Delta
<1>1. PICK step \in IF events = 0 THEN FirstSteps ELSE workload.steps : now' = now + step
  BY DEF Tick
<1>2. step \in Nat /\ now \in Nat /\ events \in Nat /\ Delta \in Nat
  BY <1>1, TimeAssumption, WorkloadsAssumption, DeltaAssumption DEF KernelTypeOK
<1>3. events' = events + 1 /\ workload' = workload
  BY DEF Tick
<1>4. ASSUME Spaced, events > 0 PROVE now' > now + 2 * Delta
  <2>1. step \in workload.steps
    BY <1>1, <1>2, <1>4
  <2>2. step > 2 * Delta
    BY <1>4, <2>1 DEF Spaced
  <2> QED BY <1>1, <1>2, <2>2
<1>5. Spaced' <=> Spaced
  BY <1>3 DEF Spaced
<1> QED BY <1>1, <1>2, <1>3, <1>4, <1>5

LEMMA NotLess ==
  ASSUME NEW a \in Int
  PROVE  a <= a
OBVIOUS

LEMMA MidIsNow ==
  ASSUME TypeOK, RecentInv, Spaced, Tick, NEW c \in CPUs
  PROVE  MidTime(c, now') = now'
<1>1. /\ now \in Nat /\ now' \in Nat /\ events \in Nat
      /\ events > 0 => now' > now + 2 * Delta
  BY TickPasses DEF TypeOK
<1>2. ASSUME TooClose(c, now') PROVE FALSE
  <2>1. /\ events > 0 /\ cpu[c].lastSched <= now + Delta
        /\ cpu[c].lastSched >= now' - Delta
    BY <1>2 DEF TooClose, RecentInv
  <2>2. cpu[c].lastSched \in Int /\ Delta \in Nat
    BY DeltaAssumption DEF TypeOK, CPU
  <2> QED BY <1>1, <2>1, <2>2
<1> QED BY <1>2 DEF MidTime

(* Time passes with every event.                                              *)
LEMMA NextTicks ==
  ASSUME TypeOK, [Next]_vars
  PROVE  Tick \/ UNCHANGED <<workload, now, events>>
<1>1. ASSUME NEW c \in CPUs, NEW new \in Tasks \union {Idle}, NEW runnable \in BOOLEAN,
             SwitchEvent(c, new, runnable) \/ SwitchLost(c, new, runnable)
      PROVE  Tick
  BY <1>1 DEF SwitchEvent, SwitchLost, Switch
<1>2. ASSUME NEW t \in Tasks, WakeupEvent(t) \/ WakeupLost(t) \/ ForkEvent(t) PROVE Tick
  BY <1>2 DEF WakeupEvent, WakeupLost, ForkEvent, WakeUp, WakeUpRunning, Fork
<1>3. ASSUME NEW c \in CPUs, ExitEvent(c) PROVE Tick
  BY <1>3 DEF ExitEvent, Exit
<1>4. CASE processSchedAddTail \/ UNCHANGED vars
  BY <1>4 DEF processSchedAddTail, vars, kernel
<1> QED BY <1>1, <1>2, <1>3, <1>4 DEF Next

LEMMA RecentCorrect == Spec => []RecentInv
<1>1. Init => RecentInv
  BY DEF Init, RecentInv, NewCPU
<1>2. TypeOK /\ RecentInv /\ [Next]_vars => RecentInv'
  <2> SUFFICES ASSUME TypeOK, RecentInv, [Next]_vars PROVE RecentInv'
    OBVIOUS
  <2>1. ASSUME cpu' = cpu PROVE RecentInv'
    <3>1. CASE Tick
      <4>1. /\ now \in Nat /\ now' \in Nat /\ events' > 0 /\ now <= now' /\ Delta \in Nat
            /\ Spaced' <=> Spaced
        BY <3>1, TickPasses, DeltaAssumption DEF TypeOK
      <4>2. ASSUME Spaced, NEW c \in CPUs, cpu[c].hasBeenScheduled
            PROVE  cpu[c].lastSched <= now' + Delta
        <5>1. cpu[c].lastSched \in Int /\ cpu[c].lastSched <= now + Delta
          BY <4>2 DEF TypeOK, CPU, RecentInv
        <5> QED BY <4>1, <5>1
      <4> QED BY <2>1, <4>1, <4>2 DEF RecentInv
    <3>2. CASE UNCHANGED <<workload, now, events>>
      BY <2>1, <3>2 DEF RecentInv, Spaced
    <3> QED BY <3>1, <3>2, NextTicks
  <2>2. ASSUME NEW c \in CPUs, NEW new \in Tasks \union {Idle}, NEW runnable \in BOOLEAN,
               SwitchEvent(c, new, runnable)
        PROVE  RecentInv'
    <3>1. Tick
      BY <2>2 DEF SwitchEvent, Switch
    <3>2. /\ now \in Nat /\ now' \in Nat /\ events' > 0 /\ now <= now' /\ Delta \in Nat
          /\ Spaced' <=> Spaced
      BY <3>1, TickPasses, DeltaAssumption DEF TypeOK
    <3>3. PICK pid : processSwitchEvent(c, pid, current[c], new, runnable, now')
      BY <2>2 DEF SwitchEvent
    <3>4. /\ cpu'[c].lastSched = MidTime(c, now') + Delta
          /\ \A d \in CPUs : d # c => cpu'[d] = cpu[d]
      BY <3>3 DEF processSwitchEvent, TypeOK
    <3>5. ASSUME Spaced, NEW d \in CPUs, cpu'[d].hasBeenScheduled
          PROVE  cpu'[d].lastSched <= now' + Delta
      <4>1. CASE d = c
        <5>1. cpu'[d].lastSched = now' + Delta
          BY <3>1, <3>4, <3>5, <4>1, MidIsNow
        <5>2. now' + Delta \in Int
          BY <3>2
        <5> QED BY <5>1, <5>2, NotLess
      <4>2. CASE d # c
        <5>1. cpu[d].lastSched \in Int /\ cpu[d].lastSched <= now + Delta /\ cpu'[d] = cpu[d]
          BY <3>4, <3>5, <4>2 DEF TypeOK, CPU, RecentInv
        <5> QED BY <3>2, <5>1
      <4> QED BY <4>1, <4>2
    <3> QED BY <3>2, <3>5 DEF RecentInv
  <2>3. ASSUME NEW c \in CPUs, NEW new \in Tasks \union {Idle}, NEW runnable \in BOOLEAN,
               SwitchLost(c, new, runnable)
        PROVE  cpu' = cpu
    BY <2>3 DEF SwitchLost
  <2>4. ASSUME NEW t \in Tasks, WakeupEvent(t) \/ WakeupLost(t) \/ ForkEvent(t)
        PROVE  cpu' = cpu
    BY <2>4 DEF WakeupEvent, processWakeupEvent, WakeupLost, ForkEvent, processForkEvent
  <2>5. ASSUME NEW c \in CPUs, ExitEvent(c) PROVE cpu' = cpu
    BY <2>5 DEF ExitEvent, processExitEvent
  <2>6. CASE processSchedAddTail \/ UNCHANGED vars
    BY <2>1, <2>6 DEF processSchedAddTail, vars, analyzer
  <2> QED BY <2>1, <2>2, <2>3, <2>4, <2>5, <2>6 DEF Next
<1> QED BY <1>1, <1>2, TypeCorrect, PTL DEF Spec

(***************************************************************************)
(* The order of the points of a unified graph: none is later than Delta after *)
(* the last event, and the next event is further away.                      *)
(***************************************************************************)
InOrder(p) ==
    /\ task[p].graph.sorted
    /\ ~done /\ ~task[p].graph.isNew => events > 0 /\ task[p].graph.time <= now + Delta

OrderInv == Spaced /\ lost = {} => \A p \in Pids : InOrder(p)

LEMMA DifferenceSum ==
  ASSUME NEW n \in Nat, NEW d \in Nat
  PROVE  n - d <= n + d
OBVIOUS

LEMMA DifferenceLess ==
  ASSUME NEW n \in Nat, NEW d \in Nat
  PROVE  n - d <= n
OBVIOUS

LEMMA SumBound ==
  ASSUME NEW n \in Nat, NEW s \in Nat, NEW d \in Nat, n >= s + d
  PROVE  s <= n + d
OBVIOUS

LEMMA AroundNow ==
  ASSUME now' \in Nat, now' >= StartTime + Delta
  PROVE  /\ StartTime <= now' - Delta /\ StartTime <= now' + Delta
         /\ now' - Delta \in Int /\ now' + Delta \in Int
         /\ now' - Delta <= now' + Delta
<1>1. StartTime \in Nat /\ Delta \in Nat
  BY TimeAssumption, DeltaAssumption
<1>2. StartTime <= now' - Delta
  BY <1>1, DifferenceBound
<1>3. now' - Delta \in Int
  BY <1>1
<1>4. now' + Delta \in Int
  BY <1>1
<1>5. now' - Delta <= now' + Delta
  BY <1>1, DifferenceSum
<1>6. StartTime <= now' + Delta
  BY <1>1, SumBound
<1> QED BY <1>2, <1>3, <1>4, <1>5, <1>6

LEMMA SwitchOrder ==
  ASSUME TypeOK, KnownInv, RecentInv, TimeInv, OrderInv, ~done, NEW c \in CPUs,
         NEW new \in Tasks \union {Idle}, NEW runnable \in BOOLEAN,
         SwitchEvent(c, new, runnable), \A s \in FirstSteps : s >= Delta
  PROVE  OrderInv'
<1> DEFINE old == current[c]
<1>1. /\ old \in Tasks \union {Idle} /\ now' \in Nat /\ lost' = lost
      /\ cpu \in [CPUs -> CPU] /\ KernelTypeOK
  BY SwitchType DEF SwitchEvent, TypeOK, KernelTypeOK
<1>2. Tick
  BY DEF SwitchEvent, Switch
<1>3. PICK pid : processSwitchEvent(c, pid, old, new, runnable, now')
  BY DEF SwitchEvent
<1>4. /\ now \in Nat /\ events' > 0 /\ now <= now' /\ Delta \in Nat /\ StartTime \in Nat
      /\ Spaced' <=> Spaced
      /\ Spaced /\ events > 0 => now' > now + 2 * Delta
  BY <1>1, <1>2, TickPasses, DeltaAssumption, TimeAssumption
<1>5. now' >= StartTime + Delta
  BY <1>1, <1>2, TickTime
<1> SUFFICES ASSUME Spaced, lost = {}, NEW p \in Pids PROVE InOrder(p)'
  BY <1>1, <1>4 DEF OrderInv
<1>6. MidTime(c, now') = now' /\ ~WrongTask(c, old)
  BY <1>2, MidIsNow DEF KnownInv, WrongTask
<1> DEFINE g == task[p].graph
<1>7. SwitchedGraph(p, c, old, new, now')
  BY <1>1, <1>3, SwitchTaskFields
<1> HIDE DEF old
<1>8. /\ p = old => task'[p].graph = Leave(g, c, now')
      /\ p # old /\ p = new => task'[p].graph = Enter(g, c, StartTime, now')
      /\ p # old /\ p # new => task'[p].graph = g
  BY <1>6, <1>7 DEF SwitchedGraph, Expected
<1>9. g \in Graph /\ g.sorted /\ (~g.isNew => events > 0 /\ g.time <= now + Delta)
  BY DEF TypeOK, Task, OrderInv, InOrder
<1> HIDE DEF g
<1>10. g.time \in Int
  BY <1>9 DEF Graph
<1>11. /\ StartTime <= now' - Delta /\ StartTime <= now' + Delta
       /\ now' - Delta \in Int /\ now' + Delta \in Int
       /\ now' - Delta <= now' + Delta
       /\ ~g.isNew => g.time <= now' - Delta /\ g.time <= now' + Delta
  <2>1. /\ StartTime <= now' - Delta /\ StartTime <= now' + Delta
        /\ now' - Delta \in Int /\ now' + Delta \in Int
        /\ now' - Delta <= now' + Delta
    BY <1>1, <1>5, AroundNow
  <2>2. ASSUME ~g.isNew PROVE g.time <= now' - Delta /\ g.time <= now' + Delta
    <3>1. now' > now + 2 * Delta /\ g.time <= now + Delta
      BY <1>4, <1>9, <2>2
    <3> QED BY <1>1, <1>4, <1>10, <3>1
  <2> QED BY <2>1, <2>2
<1>12. CASE p = old
  <2>1. /\ Leave(g, c, now').sorted
        /\ Leave(g, c, now').time = now' - Delta
    BY <1>4, <1>6, <1>9, <1>11, BeginSorted DEF Leave
  <2> QED BY <1>4, <1>8, <1>11, <1>12, <2>1 DEF InOrder
<1>13. CASE p # old /\ p = new
  <2>1. /\ Enter(g, c, StartTime, now').sorted
        /\ Enter(g, c, StartTime, now').time = now' + Delta
    BY <1>4, <1>6, <1>9, <1>11, BeginSorted DEF Enter
  <2> QED BY <1>4, <1>8, <1>11, <1>13, <2>1, NotLess DEF InOrder
<1>14. CASE p # old /\ p # new
  BY <1>4, <1>8, <1>9, <1>11, <1>14 DEF InOrder
<1> QED BY <1>12, <1>13, <1>14

LEMMA FirstPoint ==
  ASSUME NEW g, g.isNew, g.sorted, NEW time
  PROVE  /\ AddPoint(g, time, FLOOR_BIT, time).sorted
         /\ AddPoint(g, time, FLOOR_BIT, time).time = time
<1>1. AddPoint(g, time, FLOOR_BIT, time).sorted = (g.sorted /\ (g.isNew \/ g.time <= time))
  BY DEF AddPoint
<1>2. AddPoint(g, time, FLOOR_BIT, time).time = time
  BY DEF AddPoint
<1> QED BY <1>1, <1>2

LEMMA ExtendSorted ==
  ASSUME now \in Nat, NEW g \in Graph, g.sorted
  PROVE  ExtendToEnd(g).sorted
<1>1. g.time \in Int /\ now \in Int
  BY DEF Graph
<1>2. CASE g.isNew \/ g.time >= now
  BY <1>2 DEF ExtendToEnd
<1>3. CASE ~(g.isNew \/ g.time >= now)
  <2>1. ExtendToEnd(g) = AddPoint(g, now, g.bit, now)
    BY <1>3 DEF ExtendToEnd
  <2>2. g.time <= now
    BY <1>1, <1>3
  <2>3. AddPoint(g, now, g.bit, now).sorted = (g.sorted /\ (g.isNew \/ g.time <= now))
    BY DEF AddPoint
  <2> QED BY <2>1, <2>2, <2>3
<1> QED BY <1>2, <1>3

(* The other events begin graphs, at the start of the trace or now.             *)
LEMMA OtherOrder ==
  ASSUME TypeOK, OrderInv, TimeInv, ~done, Tick, lost \subseteq lost',
         \A p \in Pids :
            \/ task'[p].graph = task[p].graph
            \/ /\ task[p].graph.isNew
               /\ \/ task'[p].graph = AddPoint(task[p].graph, StartTime, FLOOR_BIT, StartTime)
                  \/ task'[p].graph = AddPoint(task[p].graph, now', FLOOR_BIT, now')
  PROVE  OrderInv'
<1>1. /\ now \in Nat /\ now' \in Nat /\ events' > 0 /\ now <= now'
      /\ Delta \in Nat /\ StartTime \in Nat /\ StartTime <= now
      /\ Spaced' <=> Spaced
  BY TickPasses, DeltaAssumption, TimeAssumption DEF TypeOK, TimeInv
<1> SUFFICES ASSUME Spaced, lost = {}, NEW p \in Pids PROVE InOrder(p)'
  BY <1>1 DEF OrderInv
<1>2. /\ task[p].graph \in Graph /\ task[p].graph.sorted
      /\ ~task[p].graph.isNew => task[p].graph.time <= now + Delta
  BY DEF TypeOK, Task, OrderInv, InOrder
<1>3. CASE task'[p].graph = task[p].graph
  <2>1. task[p].graph.time \in Int
    BY <1>2 DEF Graph
  <2>2. ~task[p].graph.isNew => task[p].graph.time <= now' + Delta
    BY <1>1, <1>2, <2>1
  <2> QED BY <1>1, <1>2, <1>3, <2>2 DEF InOrder
<1>4. ASSUME NEW time, time \in {StartTime, now'}, task[p].graph.isNew,
             task'[p].graph = AddPoint(task[p].graph, time, FLOOR_BIT, time)
      PROVE  InOrder(p)'
  <2>1. time <= now' + Delta
    BY <1>1, <1>4
  <2>2. task'[p].graph.sorted /\ task'[p].graph.time = time
    BY <1>2, <1>4, FirstPoint
  <2> QED BY <1>1, <2>1, <2>2 DEF InOrder
<1> QED BY <1>3, <1>4

LEMMA NextOrder ==
  ASSUME TypeOK, KnownInv, RecentInv, TimeInv, OrderInv, [Next]_vars,
         \A s \in FirstSteps : s >= Delta
  PROVE  OrderInv'
<1>1. ASSUME ~done, NEW c \in CPUs, NEW new \in Tasks \union {Idle}, NEW runnable \in BOOLEAN,
             SwitchEvent(c, new, runnable)
      PROVE  OrderInv'
  BY <1>1, SwitchOrder
<1>2. ASSUME NEW c \in CPUs, NEW new \in Tasks \union {Idle}, NEW runnable \in BOOLEAN,
             SwitchLost(c, new, runnable)
      PROVE  OrderInv'
  BY <1>2 DEF SwitchLost, OrderInv
<1>3. ASSUME ~done, NEW t \in Tasks, WakeupEvent(t) PROVE OrderInv'
  <2>1. Tick /\ lost' = lost /\ processWakeupEvent(t, now')
    BY <1>3 DEF WakeupEvent, WakeUp, WakeUpRunning
  <2>2. \A p \in Pids : task'[p].graph = IF p = t THEN Begin(task[p].graph, FLOOR_BIT, StartTime)
                                         ELSE task[p].graph
    BY <2>1, WakeupFields
  <2>3. \A p \in Pids : \/ task'[p].graph = task[p].graph
                        \/ /\ task[p].graph.isNew
                           /\ task'[p].graph = AddPoint(task[p].graph, StartTime, FLOOR_BIT, StartTime)
    BY <2>2 DEF Begin
  <2> QED BY <1>3, <2>1, <2>3, OtherOrder
<1>4. ASSUME NEW t \in Tasks, WakeupLost(t) PROVE OrderInv'
  BY <1>4 DEF WakeupLost, OrderInv
<1>5. ASSUME ~done, NEW t \in Tasks, ForkEvent(t) PROVE OrderInv'
  <2>1. Tick /\ lost' = lost /\ processForkEvent(t, now')
    BY <1>5 DEF ForkEvent, Fork
  <2>2. \A p \in Pids : task'[p].graph = IF p = t /\ task[t].graph.isNew
                                         THEN AddPoint(task[p].graph, now', FLOOR_BIT, now')
                                         ELSE task[p].graph
    BY <2>1, ForkFields
  <2>3. \A p \in Pids : \/ task'[p].graph = task[p].graph
                        \/ /\ task[p].graph.isNew
                           /\ task'[p].graph = AddPoint(task[p].graph, now', FLOOR_BIT, now')
    BY <2>2
  <2> QED BY <1>5, <2>1, <2>3, OtherOrder
<1>6. ASSUME ~done, NEW c \in CPUs, ExitEvent(c) PROVE OrderInv'
  <2>1. Tick /\ lost' = lost /\ current[c] \in Tasks /\ processExitEvent(current[c])
    BY <1>6, ExitType DEF ExitEvent, Exit, TypeOK
  <2>2. \A p \in Pids : task'[p].graph = task[p].graph
    BY <2>1, ExitFields
  <2> QED BY <1>6, <2>1, <2>2, OtherOrder
<1>7. CASE processSchedAddTail
  <2>1. UNCHANGED <<workload, now, events, lost>> /\ done' = TRUE /\ now \in Nat
    BY <1>7 DEF processSchedAddTail, kernel, TypeOK, KernelTypeOK
  <2>2. ASSUME NEW p \in Pids, task[p].graph.sorted PROVE task'[p].graph.sorted
    <3>1. task'[p].graph = IF task[p].exitStatus = "final" THEN task[p].graph
                           ELSE ExtendToEnd(task[p].graph)
      BY <1>7, TailFields
    <3>2. task[p].graph \in Graph
      BY DEF TypeOK, Task
    <3>3. ExtendToEnd(task[p].graph).sorted
      BY <2>1, <2>2, <3>2, ExtendSorted
    <3> QED BY <2>2, <3>1, <3>3
  <2>3. Spaced' <=> Spaced
    BY <2>1 DEF Spaced
  <2> QED BY <2>1, <2>2, <2>3 DEF OrderInv, InOrder
<1>8. CASE UNCHANGED vars
  BY <1>8 DEF vars, kernel, analyzer, OrderInv, InOrder, Spaced
<1> QED BY <1>1, <1>2, <1>3, <1>4, <1>5, <1>6, <1>7, <1>8 DEF Next

(* Time never goes back, and has passed the fake times with the first event.     *)
LEMMA TimeCorrect ==
  ASSUME \A s \in FirstSteps : s >= Delta
  PROVE  Spec => []TimeInv
<1>1. Init => TimeInv
  BY TimeAssumption DEF Init, KernelInit, TimeInv
<1>2. TypeOK /\ TimeInv /\ [Next]_vars => TimeInv'
  <2> SUFFICES ASSUME TypeOK, TimeInv, [Next]_vars PROVE TimeInv'
    OBVIOUS
  <2>1. CASE Tick
    BY <2>1, TickTime DEF TypeOK
  <2>2. CASE UNCHANGED <<workload, now, events>>
    BY <2>2 DEF TimeInv
  <2> QED BY <2>1, <2>2, NextTicks
<1> QED BY <1>1, <1>2, TypeCorrect, PTL DEF Spec

(* The points of a unified graph, to which every CPU adds its own, are in the     *)
(* order of time if no event is lost and the events are further apart than the  *)
(* fake times, provided that the trace does not begin with a switch            *)
(* (processSwitchEvent(), processWakeupEvent(), processForkEvent()).           *)
THEOREM UnifiedGraphsSortedCorrect ==
  ASSUME \A s \in FirstSteps : s >= Delta
  PROVE  Spec => []UnifiedGraphsSorted
<1>1. Init => OrderInv
  BY DEF Init, OrderInv, InOrder, NewTask, EmptyGraph
<1>2. TypeOK /\ KnownInv /\ RecentInv /\ TimeInv /\ OrderInv /\ [Next]_vars => OrderInv'
  BY NextOrder
<1>3. OrderInv => UnifiedGraphsSorted
  BY DEF OrderInv, InOrder, UnifiedGraphsSorted
<1> QED BY <1>1, <1>2, <1>3, TypeCorrect, KnownCorrect, RecentCorrect, TimeCorrect, PTL DEF Spec

(***************************************************************************)
(* Run times. What doStats() sums up from a graph until n.                  *)
(***************************************************************************)
Total(g, n) == g.accTime + IF ~g.isNew /\ g.bit = SCHED_BIT THEN n - g.event ELSE 0

LEMMA AccTimeIsTotal ==
  ASSUME NEW t
  PROVE  /\ AccTime(task[t].graph) = Total(task[t].graph, now)
         /\ AccTime(task[t].graph)' = Total(task'[t].graph, now')
BY DEF AccTime, Total

LEMMA AddPointFields ==
  ASSUME NEW g, NEW time, NEW bit, NEW event
  PROVE  /\ ~AddPoint(g, time, bit, event).isNew
         /\ AddPoint(g, time, bit, event).bit = bit
         /\ AddPoint(g, time, bit, event).event = event
BY DEF AddPoint

LEMMA AddFirst ==
  ASSUME NEW g, NEW time, NEW event, g.isNew
  PROVE  /\ AddPoint(g, time, FLOOR_BIT, event).accTime = g.accTime + 0
         /\ AddPoint(g, time, SCHED_BIT, event).accTime = g.accTime + (event - StartTime)
BY DEF AddPoint, FLOOR_BIT, SCHED_BIT

LEMMA AddNext ==
  ASSUME NEW g, NEW time, NEW bit, NEW event, ~g.isNew
  PROVE  AddPoint(g, time, bit, event).accTime =
           g.accTime + (IF g.bit = SCHED_BIT THEN event - g.event ELSE 0)
BY DEF AddPoint

(* A task that leaves has been running since the last event of its graph, or  *)
(* since the start of the trace.                                            *)
LEMMA LeaveTotal ==
  ASSUME NEW g \in Graph, NEW c, now' \in Nat
  PROVE  LET h == Leave(g, c, now') IN
         /\ ~h.isNew /\ h.bit = FLOOR_BIT
         /\ g.isNew => h.accTime = g.accTime + (now' - StartTime)
         /\ ~g.isNew => h.accTime = Total(g, now')
<1> DEFINE b == Begin(g, SCHED_BIT, StartTime)
           h == Leave(g, c, now')
<1>1. h = AddPoint(b, MidTime(c, now') - Delta, FLOOR_BIT, now')
  BY DEF Leave
<1>2. StartTime \in Nat /\ g.accTime \in Int /\ g.event \in Nat /\ now' \in Int
  BY TimeAssumption DEF Graph
<1>3. CASE g.isNew
  <2>1. b = AddPoint(g, StartTime, SCHED_BIT, StartTime)
    BY <1>3 DEF Begin
  <2>2. /\ ~b.isNew /\ b.bit = SCHED_BIT /\ b.event = StartTime
        /\ b.accTime = g.accTime + (StartTime - StartTime)
    <3>1. ~b.isNew /\ b.bit = SCHED_BIT /\ b.event = StartTime
      BY <2>1, AddPointFields
    <3>2. b.accTime = g.accTime + (StartTime - StartTime)
      BY <1>3, <2>1, AddFirst
    <3> QED BY <3>1, <3>2
  <2>3. b.accTime = g.accTime
    BY <1>2, <2>2
  <2> HIDE DEF b
  <2>4. /\ ~h.isNew /\ h.bit = FLOOR_BIT
        /\ h.accTime = b.accTime + (now' - b.event)
    <3>1. ~h.isNew /\ h.bit = FLOOR_BIT
      BY <1>1, AddPointFields
    <3>2. h.accTime = b.accTime + (now' - b.event)
      BY <1>1, <2>2, AddNext
    <3> QED BY <3>1, <3>2
  <2> QED BY <1>3, <2>2, <2>3, <2>4
<1>4. CASE ~g.isNew
  <2>1. b = g
    BY <1>4 DEF Begin
  <2> HIDE DEF b
  <2>2. /\ ~h.isNew /\ h.bit = FLOOR_BIT
        /\ h.accTime = g.accTime + (IF g.bit = SCHED_BIT THEN now' - g.event ELSE 0)
    <3>1. ~h.isNew /\ h.bit = FLOOR_BIT
      BY <1>1, AddPointFields
    <3>2. h.accTime = g.accTime + (IF g.bit = SCHED_BIT THEN now' - g.event ELSE 0)
      BY <1>1, <1>4, <2>1, AddNext
    <3> QED BY <3>1, <3>2
  <2> QED BY <1>4, <2>2 DEF Total
<1> QED BY <1>3, <1>4

(* A task that has not been running enters: this adds nothing yet.            *)
LEMMA EnterTotal ==
  ASSUME NEW g \in Graph, NEW c, now' \in Nat, ~g.isNew => g.bit = FLOOR_BIT
  PROVE  LET h == Enter(g, c, StartTime, now') IN
         /\ ~h.isNew /\ h.bit = SCHED_BIT
         /\ Total(h, now') = g.accTime
<1> DEFINE b == Begin(g, FLOOR_BIT, StartTime)
           h == Enter(g, c, StartTime, now')
<1>1. h = AddPoint(b, MidTime(c, now') + Delta, SCHED_BIT, now')
  BY DEF Enter
<1>2. StartTime \in Nat /\ g.accTime \in Int /\ now' \in Int /\ SCHED_BIT # FLOOR_BIT
  BY TimeAssumption DEF Graph, SCHED_BIT, FLOOR_BIT
<1>3. ~b.isNew /\ b.bit = FLOOR_BIT /\ b.accTime = g.accTime
  <2>1. CASE g.isNew
    <3>1. b = AddPoint(g, StartTime, FLOOR_BIT, StartTime)
      BY <2>1 DEF Begin
    <3>2. /\ ~b.isNew /\ b.bit = FLOOR_BIT
          /\ b.accTime = g.accTime + 0
      <4>1. ~b.isNew /\ b.bit = FLOOR_BIT
        BY <3>1, AddPointFields
      <4>2. b.accTime = g.accTime + 0
        BY <2>1, <3>1, AddFirst
      <4> QED BY <4>1, <4>2
    <3> QED BY <1>2, <3>2
  <2>2. CASE ~g.isNew
    <3>1. b = g /\ g.isNew \in BOOLEAN
      BY <2>2 DEF Begin, Graph
    <3> QED BY <2>2, <3>1
  <2> QED BY <2>1, <2>2
<1> HIDE DEF b
<1>4. /\ ~h.isNew /\ h.bit = SCHED_BIT /\ h.event = now'
      /\ h.accTime = b.accTime + 0
  <2>1. ~h.isNew /\ h.bit = SCHED_BIT /\ h.event = now'
    BY <1>1, AddPointFields
  <2>2. h.accTime = b.accTime + 0
    BY <1>1, <1>2, <1>3, AddNext
  <2> QED BY <2>1, <2>2
<1> HIDE DEF h
<1>5. Total(h, now') = g.accTime
  BY <1>2, <1>3, <1>4 DEF Total
<1> QED BY <1>4, <1>5 DEF h

LEMMA ExtendTotal ==
  ASSUME NEW g \in Graph, now \in Nat
  PROVE  LET h == ExtendToEnd(g) IN
         (h.isNew <=> g.isNew) /\ h.bit = g.bit /\ Total(h, now) = Total(g, now)
         /\ (g.isNew => h = g)
<1> DEFINE h == ExtendToEnd(g)
<1>1. CASE g.isNew \/ g.time >= now
  BY <1>1 DEF ExtendToEnd
<1>2. CASE ~(g.isNew \/ g.time >= now)
  <2>1. h = AddPoint(g, now, g.bit, now) /\ ~g.isNew
    BY <1>2 DEF ExtendToEnd
  <2>2. ~g.isNew /\ g.accTime \in Int /\ g.event \in Nat /\ now \in Int
    BY <2>1 DEF Graph
  <2>3. /\ ~h.isNew /\ h.bit = g.bit /\ h.event = now
        /\ h.accTime = g.accTime + (IF g.bit = SCHED_BIT THEN now - g.event ELSE 0)
    <3>1. ~h.isNew
      BY <2>1, AddPointFields
    <3>2. h.bit = g.bit
      BY <2>1, AddPointFields
    <3>3. h.event = now
      BY <2>1, AddPointFields
    <3>4. h.accTime = g.accTime + (IF g.bit = SCHED_BIT THEN now - g.event ELSE 0)
      BY <2>1, AddNext
    <3> QED BY <3>1, <3>2, <3>3, <3>4
  <2> HIDE DEF h
  <2>4. Total(h, now) = Total(g, now)
    BY <2>2, <2>3 DEF Total
  <2> QED BY <2>1, <2>2, <2>3, <2>4 DEF h
<1> QED BY <1>1, <1>2

LEMMA TickRuns ==
  ASSUME KernelTypeOK, Tick, NEW t \in Tasks
  PROVE  ran'[t] = IF state[t] = "running" THEN ran[t] + (now' - now) ELSE ran[t]
<1>1. PICK step \in IF events = 0 THEN FirstSteps ELSE workload.steps :
         /\ now' = now + step
         /\ ran' = [u \in Tasks |-> IF state[u] = "running"
                                    THEN ran[u] + step ELSE ran[u]]
  BY DEF Tick
<1>2. step \in Nat /\ now \in Nat
  BY <1>1, TimeAssumption, WorkloadsAssumption DEF KernelTypeOK
<1>3. step = now' - now
  BY <1>1, <1>2
<1> QED BY <1>1, <1>3

(***************************************************************************)
(* A task without points has been running since the start of the trace, or   *)
(* not at all; the graph of one that has points shows whether it runs.       *)
(***************************************************************************)
StatsOK(t) ==
    /\ task[t].graph.isNew =>
          /\ task[t].graph.accTime = 0
          /\ ran[t] = IF state[t] = "running" THEN now - StartTime ELSE 0
    /\ ~task[t].graph.isNew =>
          /\ task[t].graph.bit = SCHED_BIT <=> state[t] = "running"
          /\ AccTime(task[t].graph) = ran[t]

StatsInv == "switch" \notin lost /\ ~workload.spurious => \A t \in Tasks : StatsOK(t)

LEMMA SameStats ==
  ASSUME TypeOK, now' \in Nat, NEW t \in Tasks, StatsOK(t),
         task'[t].graph = task[t].graph, state'[t] = "running" <=> state[t] = "running",
         ran'[t] = IF state[t] = "running" THEN ran[t] + (now' - now) ELSE ran[t]
  PROVE  StatsOK(t)'
<1> DEFINE g == task[t].graph
<1>1. /\ g.accTime \in Int /\ g.event \in Int /\ ran[t] \in Int
      /\ now \in Int /\ now' \in Int /\ StartTime \in Int
  BY TimeAssumption DEF TypeOK, KernelTypeOK, Task, Graph, Pids
<1>2. /\ task'[t].graph.isNew <=> g.isNew
      /\ task'[t].graph.bit = g.bit /\ task'[t].graph.accTime = g.accTime
      /\ AccTime(task[t].graph)' = Total(g, now') /\ AccTime(task[t].graph) = Total(g, now)
  BY AccTimeIsTotal
<1>3. CASE g.isNew
  <2>1. g.accTime = 0 /\ ran[t] = IF state[t] = "running" THEN now - StartTime ELSE 0
    BY <1>3 DEF StatsOK
  <2> HIDE DEF g
  <2>2. ran'[t] = IF state'[t] = "running" THEN now' - StartTime ELSE 0
    BY <1>1, <2>1
  <2> QED BY <1>2, <1>3, <2>1, <2>2 DEF StatsOK
<1>4. CASE ~g.isNew
  <2>1. (g.bit = SCHED_BIT <=> state[t] = "running") /\ Total(g, now) = ran[t]
    BY <1>2, <1>4 DEF StatsOK
  <2> HIDE DEF g
  <2>2. CASE state[t] = "running"
    <3>1. Total(g, now) = g.accTime + (now - g.event) /\ Total(g, now') = g.accTime + (now' - g.event)
      BY <1>4, <2>1, <2>2 DEF Total
    <3>2. Total(g, now') = ran'[t]
      BY <1>1, <2>1, <2>2, <3>1
    <3> QED BY <1>2, <1>4, <2>1, <2>2, <3>2 DEF StatsOK
  <2>3. CASE state[t] # "running"
    <3>1. Total(g, now) = g.accTime + 0 /\ Total(g, now') = g.accTime + 0
      BY <1>4, <2>1, <2>3 DEF Total
    <3>2. Total(g, now') = ran'[t]
      BY <1>1, <2>1, <2>3, <3>1
    <3> QED BY <1>2, <1>4, <2>1, <2>3, <3>2 DEF StatsOK
  <2> QED BY <2>2, <2>3
<1> QED BY <1>3, <1>4

LEMMA SwitchStats ==
  ASSUME TypeOK, KnownInv, RunningInv, StatsInv, NEW c \in CPUs,
         NEW new \in Tasks \union {Idle}, NEW runnable \in BOOLEAN,
         SwitchEvent(c, new, runnable)
  PROVE  StatsInv'
<1> DEFINE old == current[c]
<1>1. /\ old \in Tasks \union {Idle} /\ now' \in Nat /\ lost' = lost /\ workload' = workload
      /\ Switch(c, new, runnable) /\ Tick /\ KernelTypeOK
  BY SwitchType, ZenonT(40) DEF SwitchEvent, Switch, TypeOK, KernelTypeOK
<1>2. PICK pid : processSwitchEvent(c, pid, old, new, runnable, now')
  BY DEF SwitchEvent
<1> SUFFICES ASSUME "switch" \notin lost, ~workload.spurious, NEW t \in Tasks
             PROVE  StatsOK(t)'
  BY <1>1 DEF StatsInv
<1>3. ~WrongTask(c, old)
  BY DEF KnownInv, WrongTask
<1>4. StatsOK(t) /\ t \in Pids /\ t # Idle
  BY TasksAssumption DEF StatsInv, Pids, Idle
<1> DEFINE g == task[t].graph
<1>5. SwitchedGraph(t, c, old, new, now')
  BY <1>1, <1>2, <1>4, SwitchTaskFields
<1>6. /\ t = old => task'[t].graph = Leave(g, c, now')
      /\ t # old /\ t = new => task'[t].graph = Enter(g, c, StartTime, now')
      /\ t # old /\ t # new => task'[t].graph = g
  BY <1>3, <1>5 DEF SwitchedGraph, Expected
<1>7. /\ new # old
      /\ t = old => state[t] = "running"
      /\ t = new => state[t] = "ready"
      /\ state'[t] = IF t = new THEN "running" ELSE IF t # old THEN state[t]
                     ELSE IF runnable THEN "ready"
                     ELSE IF t \in exiting THEN "gone" ELSE "sleeping"
  BY <1>1, <1>4 DEF Switch, RunningInv
<1>8. ran'[t] = IF state[t] = "running" THEN ran[t] + (now' - now) ELSE ran[t]
  BY <1>1, TickRuns
<1>9. /\ g \in Graph /\ g.accTime \in Int /\ g.event \in Int /\ ran[t] \in Int
      /\ now \in Int /\ now' \in Int /\ StartTime \in Int
  BY <1>1, <1>4, TimeAssumption DEF TypeOK, KernelTypeOK, Task, Graph
<1>10. /\ g.isNew => /\ g.accTime = 0
                     /\ ran[t] = IF state[t] = "running" THEN now - StartTime ELSE 0
       /\ ~g.isNew => (g.bit = SCHED_BIT <=> state[t] = "running") /\ Total(g, now) = ran[t]
  BY <1>4, AccTimeIsTotal DEF StatsOK
<1>11. AccTime(task[t].graph)' = Total(task'[t].graph, now')
  BY AccTimeIsTotal
<1>12. FLOOR_BIT # SCHED_BIT
  BY DEF FLOOR_BIT, SCHED_BIT
<1> HIDE DEF g, old
<1>13. CASE t = old
  <2> DEFINE h == Leave(g, c, now')
  <2>1. /\ ~h.isNew /\ h.bit = FLOOR_BIT
        /\ g.isNew => h.accTime = g.accTime + (now' - StartTime)
        /\ ~g.isNew => h.accTime = Total(g, now')
    BY <1>1, <1>9, LeaveTotal
  <2>2. task'[t].graph = h
    BY <1>6, <1>13
  <2> HIDE DEF h
  <2>3. Total(h, now') = h.accTime + 0
    BY <1>12, <2>1 DEF Total
  <2>4. ran'[t] = ran[t] + (now' - now) /\ state'[t] # "running"
    BY <1>7, <1>8, <1>13
  <2>5. h.accTime = ran'[t] /\ h.accTime \in Int
    <3>1. CASE g.isNew
      <4>1. h.accTime = 0 + (now' - StartTime) /\ ran[t] = now - StartTime
        BY <1>7, <1>10, <1>13, <2>1, <3>1
      <4> QED BY <1>9, <2>4, <4>1
    <3>2. CASE ~g.isNew
      <4>1. g.bit = SCHED_BIT /\ Total(g, now) = ran[t]
        BY <1>7, <1>10, <1>13, <3>2
      <4>2. /\ Total(g, now) = g.accTime + (now - g.event)
            /\ Total(g, now') = g.accTime + (now' - g.event)
        BY <3>2, <4>1 DEF Total
      <4>3. h.accTime = g.accTime + (now' - g.event) /\ ran[t] = g.accTime + (now - g.event)
        BY <2>1, <3>2, <4>1, <4>2
      <4> QED BY <1>9, <2>4, <4>3
    <3> QED BY <3>1, <3>2
  <2>6. Total(h, now') = ran'[t]
    BY <2>3, <2>5
  <2> QED BY <1>11, <1>12, <2>1, <2>2, <2>4, <2>6 DEF StatsOK
<1>14. CASE t = new
  <2> DEFINE h == Enter(g, c, StartTime, now')
  <2>1. ~g.isNew => g.bit = FLOOR_BIT
    BY <1>7, <1>9, <1>10, <1>14 DEF Graph
  <2>2. ~h.isNew /\ h.bit = SCHED_BIT /\ Total(h, now') = g.accTime
    BY <1>1, <1>9, <2>1, EnterTotal
  <2>3. task'[t].graph = h
    BY <1>6, <1>7, <1>14
  <2> HIDE DEF h
  <2>4. ran'[t] = ran[t] /\ state'[t] = "running"
    BY <1>7, <1>8, <1>14
  <2>5. ran[t] = g.accTime
    <3>1. CASE g.isNew
      BY <1>7, <1>10, <1>14, <3>1
    <3>2. CASE ~g.isNew
      <4>1. Total(g, now) = ran[t] /\ g.bit # SCHED_BIT
        BY <1>7, <1>10, <1>14, <3>2
      <4>2. Total(g, now) = g.accTime + 0
        BY <4>1 DEF Total
      <4> QED BY <1>9, <4>1, <4>2
    <3> QED BY <3>1, <3>2
  <2> QED BY <1>11, <2>2, <2>3, <2>4, <2>5 DEF StatsOK
<1>15. CASE t # old /\ t # new
  <2>1. task'[t].graph = task[t].graph /\ (state'[t] = "running" <=> state[t] = "running")
    BY <1>6, <1>7, <1>15 DEF g
  <2> QED BY <1>1, <1>4, <1>8, <2>1, SameStats
<1> QED BY <1>13, <1>14, <1>15

(* Another event begins at most the graph of a task that does not run.         *)
LEMMA OtherStats ==
  ASSUME TypeOK, StatsInv, Tick, now' \in Nat, lost \subseteq lost', workload' = workload,
         \A t \in Tasks :
            \/ /\ task'[t].graph = task[t].graph
               /\ state'[t] = "running" <=> state[t] = "running"
            \/ /\ task[t].graph.isNew
               /\ state[t] # "running" /\ state'[t] # "running"
               /\ \E time, event : task'[t].graph = AddPoint(task[t].graph, time, FLOOR_BIT, event)
  PROVE  StatsInv'
<1> SUFFICES ASSUME "switch" \notin lost, ~workload.spurious, NEW t \in Tasks
             PROVE  StatsOK(t)'
  BY DEF StatsInv
<1>1. StatsOK(t) /\ KernelTypeOK
  BY DEF StatsInv, TypeOK
<1>2. ran'[t] = IF state[t] = "running" THEN ran[t] + (now' - now) ELSE ran[t]
  BY <1>1, TickRuns
<1>3. CASE /\ task'[t].graph = task[t].graph
           /\ state'[t] = "running" <=> state[t] = "running"
  BY <1>1, <1>2, <1>3, SameStats
<1>4. ASSUME NEW time, NEW event, task[t].graph.isNew,
             state[t] # "running", state'[t] # "running",
             task'[t].graph = AddPoint(task[t].graph, time, FLOOR_BIT, event)
      PROVE  StatsOK(t)'
  <2> DEFINE g == task[t].graph
             h == task'[t].graph
  <2>1. FLOOR_BIT # SCHED_BIT
    BY DEF FLOOR_BIT, SCHED_BIT
  <2>2. ~h.isNew /\ h.bit = FLOOR_BIT
    BY <1>4, AddPointFields
  <2>3. h.accTime = g.accTime + 0
    BY <1>4, AddFirst
  <2>4. g.accTime = 0 /\ ran[t] = 0
    BY <1>1, <1>4 DEF StatsOK
  <2>5. AccTime(task[t].graph)' = Total(h, now')
    BY AccTimeIsTotal
  <2> HIDE DEF g, h
  <2>6. Total(h, now') = h.accTime + 0
    BY <2>1, <2>2 DEF Total
  <2>7. Total(h, now') = 0 /\ ran'[t] = 0
    BY <1>2, <1>4, <2>3, <2>4, <2>6
  <2> QED BY <1>4, <2>1, <2>2, <2>5, <2>7 DEF StatsOK, h
<1> QED BY <1>3, <1>4

LEMMA NextStats ==
  ASSUME TypeOK, KnownInv, RunningInv, StatsInv, [Next]_vars
  PROVE  StatsInv'
<1>1. ASSUME NEW c \in CPUs, NEW new \in Tasks \union {Idle}, NEW runnable \in BOOLEAN,
             SwitchEvent(c, new, runnable)
      PROVE  StatsInv'
  BY <1>1, SwitchStats
<1>2. ASSUME NEW c \in CPUs, NEW new \in Tasks \union {Idle}, NEW runnable \in BOOLEAN,
             SwitchLost(c, new, runnable)
      PROVE  StatsInv'
  BY <1>2 DEF SwitchLost, StatsInv
<1>3. ASSUME NEW t \in Tasks, WakeupEvent(t) PROVE StatsInv'
  <2>1. Tick /\ lost' = lost /\ workload' = workload /\ now' \in Nat /\ processWakeupEvent(t, now')
    BY <1>3, TickType DEF WakeupEvent, WakeUp, WakeUpRunning, TypeOK
  <2>2. \A u \in Pids : task'[u].graph = IF u = t THEN Begin(task[u].graph, FLOOR_BIT, StartTime)
                                         ELSE task[u].graph
    BY <2>1, WakeupFields
  <2>3. CASE workload.spurious
    BY <2>1, <2>3 DEF StatsInv
  <2>4. CASE ~workload.spurious
    <3>1. state[t] = "sleeping" /\ state' = [state EXCEPT ![t] = "ready"]
      BY <1>3, <2>4 DEF WakeupEvent, WakeUp, WakeUpRunning
    <3>2. ASSUME NEW u \in Tasks
          PROVE  \/ /\ task'[u].graph = task[u].graph
                    /\ state'[u] = "running" <=> state[u] = "running"
                 \/ /\ task[u].graph.isNew
                    /\ state[u] # "running" /\ state'[u] # "running"
                    /\ \E time, event : task'[u].graph =
                                          AddPoint(task[u].graph, time, FLOOR_BIT, event)
      <4>1. u \in Pids /\ state'[u] = IF u = t THEN "ready" ELSE state[u]
        BY <3>1 DEF Pids, TypeOK, KernelTypeOK
      <4>2. \/ task'[u].graph = task[u].graph
            \/ /\ u = t /\ task[u].graph.isNew
               /\ task'[u].graph = AddPoint(task[u].graph, StartTime, FLOOR_BIT, StartTime)
        BY <2>2, <4>1 DEF Begin
      <4> QED BY <3>1, <4>1, <4>2
    <3> QED BY <2>1, <3>2, OtherStats
  <2> QED BY <2>3, <2>4
<1>4. ASSUME NEW t \in Tasks, WakeupLost(t) PROVE StatsInv'
  <2>1. Tick /\ lost \subseteq lost' /\ workload' = workload /\ now' \in Nat /\ task' = task
    BY <1>4, TickType DEF WakeupLost, WakeUp, TypeOK
  <2>2. \A u \in Tasks : state'[u] = "running" <=> state[u] = "running"
    BY <1>4 DEF WakeupLost, WakeUp, TypeOK, KernelTypeOK
  <2> QED BY <2>1, <2>2, OtherStats
<1>5. ASSUME NEW t \in Tasks, ForkEvent(t) PROVE StatsInv'
  <2>1. Tick /\ lost' = lost /\ workload' = workload /\ now' \in Nat /\ processForkEvent(t, now')
    BY <1>5, TickType DEF ForkEvent, Fork, TypeOK
  <2>2. \A u \in Pids : task'[u].graph = IF u = t /\ task[t].graph.isNew
                                         THEN AddPoint(task[u].graph, now', FLOOR_BIT, now')
                                         ELSE task[u].graph
    BY <2>1, ForkFields
  <2>3. state[t] = "gone" /\ state' = [state EXCEPT ![t] = "sleeping"]
    BY <1>5 DEF ForkEvent, Fork
  <2>4. ASSUME NEW u \in Tasks
        PROVE  \/ /\ task'[u].graph = task[u].graph
                  /\ state'[u] = "running" <=> state[u] = "running"
               \/ /\ task[u].graph.isNew
                  /\ state[u] # "running" /\ state'[u] # "running"
                  /\ \E time, event : task'[u].graph =
                                        AddPoint(task[u].graph, time, FLOOR_BIT, event)
    <3>1. u \in Pids /\ state'[u] = IF u = t THEN "sleeping" ELSE state[u]
      BY <2>3 DEF Pids, TypeOK, KernelTypeOK
    <3> QED BY <2>2, <2>3, <3>1
  <2> QED BY <2>1, <2>4, OtherStats
<1>6. ASSUME NEW c \in CPUs, ExitEvent(c) PROVE StatsInv'
  <2>1. /\ Tick /\ lost' = lost /\ workload' = workload /\ now' \in Nat /\ state' = state
        /\ current[c] \in Tasks /\ processExitEvent(current[c])
    BY <1>6, TickType, ExitType DEF ExitEvent, Exit, TypeOK
  <2>2. \A u \in Tasks : task'[u].graph = task[u].graph
    BY <2>1, ExitFields DEF Pids
  <2> QED BY <2>1, <2>2, OtherStats
<1>7. CASE processSchedAddTail
  <2>1. UNCHANGED <<workload, now, lost, state, ran>> /\ now \in Nat
    BY <1>7 DEF processSchedAddTail, kernel, TypeOK, KernelTypeOK
  <2>2. ASSUME NEW t \in Tasks, StatsOK(t) PROVE StatsOK(t)'
    <3> DEFINE g == task[t].graph
               h == task'[t].graph
    <3>1. t \in Pids /\ g \in Graph
      BY DEF Pids, TypeOK, Task
    <3>2. h = g \/ h = ExtendToEnd(g)
      BY <1>7, <3>1, TailFields
    <3>3. (h.isNew <=> g.isNew) /\ h.bit = g.bit /\ Total(h, now) = Total(g, now) /\ (g.isNew => h = g)
      BY <2>1, <3>1, <3>2, ExtendTotal
    <3>4. AccTime(task[t].graph)' = Total(h, now') /\ AccTime(task[t].graph) = Total(g, now)
      BY AccTimeIsTotal
    <3> QED BY <2>1, <2>2, <3>3, <3>4 DEF StatsOK
  <2> QED BY <2>1, <2>2 DEF StatsInv
<1>8. CASE UNCHANGED vars
  BY <1>8 DEF vars, kernel, analyzer, StatsInv, StatsOK, AccTime
<1> QED BY <1>1, <1>2, <1>3, <1>4, <1>5, <1>6, <1>7, <1>8 DEF Next

(* doStats() finds in the graph of a task the time that it has been running,  *)
(* whichever CPUs it has been on and whether or not it ran when the trace      *)
(* began, if no switch is lost (processSwitchEvent(), processWakeupEvent(),   *)
(* processForkEvent(), processSchedAddTail()).                               *)
THEOREM StatsMatchKernelCorrect == Spec => []StatsMatchKernel
<1>1. Init => StatsInv
  <2> SUFFICES ASSUME Init, NEW t \in Tasks PROVE StatsOK(t)
    BY DEF StatsInv
  <2>1. /\ task[t].graph.isNew = TRUE /\ task[t].graph.accTime = 0
        /\ ran[t] = 0 /\ now = StartTime
    BY DEF Init, KernelInit, NewTask, EmptyGraph, Pids
  <2>2. now - StartTime = 0
    BY <2>1, TimeAssumption
  <2> QED BY <2>1, <2>2 DEF StatsOK
<1>2. TypeOK /\ KnownInv /\ RunningInv /\ StatsInv /\ [Next]_vars => StatsInv'
  BY NextStats
<1>3. StatsInv => StatsMatchKernel
  BY DEF StatsInv, StatsOK, StatsMatchKernel
<1> QED BY <1>1, <1>2, <1>3, TypeCorrect, KnownCorrect, RunningCorrect, PTL DEF Spec

(***************************************************************************)
(* Waits. What the entry of a task says of its wait, while the tail has not  *)
(* been added: a task that does not wait has no status that a delay could be *)
(* estimated from, nor has one whose wakeup was missed, and the status of any *)
(* other that waits is that of its wait.                                    *)
(***************************************************************************)
WaitShown(t) ==
    /\ state[t] \in {"sleeping", "gone"} => task[t].lastRunnable_status = "invalid"
    /\ state[t] = "ready" /\ task[t].lastRunnable_status = "wakeup"
         => task[t].lastRunnable = since[t] /\ how[t] = "wakeup"
    /\ state[t] = "ready" /\ task[t].lastRunnable_status = "sched"
         => task[t].lastRunnable = since[t] /\ how[t] = "switched_out"
    /\ task[t].lastSleepEntry <= now
    /\ state[t] = "ready" /\ task[t].lastRunnable_status # "invalid"
         => task[t].lastRunnable >= task[t].lastSleepEntry
    /\ state[t] = "ready" /\ t \in missed => task[t].lastRunnable_status = "invalid"

WaitKnown(t) ==
    t \notin missed =>
       /\ task[t].graph.isNew => since[t] = StartTime /\ how[t] = "unknown"
       /\ state[t] = "ready" =>
             /\ ~task[t].graph.isNew => how[t] # "unknown"
             /\ how[t] = "wakeup" => task[t].lastRunnable_status = "wakeup"
             /\ how[t] = "switched_out" => task[t].lastRunnable_status = "sched"

WaitInv ==
    ~done /\ Spaced /\ "switch" \notin lost =>
       \A t \in Tasks : WaitShown(t) /\ WaitKnown(t)

(* What processSwitchEvent() looks at when it estimates the delays.            *)
SwitchedLatency(new) ==
    LET r == task[new] IN
    /\ latency'.pid = new
    /\ latency'.first <=> r.graph.isNew
    /\ r.graph.isNew => latency'.sched \subseteq {now' - StartTime} /\ latency'.wake = {}
    /\ ~r.graph.isNew =>
         /\ latency'.sched = IF /\ r.lastRunnable_status \in {"wakeup", "sched"}
                                /\ r.lastRunnable >= r.lastSleepEntry
                             THEN {now' - r.lastRunnable} ELSE {}
         /\ latency'.wake = IF /\ r.lastRunnable_status \in {"wakeup"}
                               /\ r.lastRunnable >= r.lastSleepEntry
                            THEN {now' - r.lastRunnable} ELSE {}

LEMMA SwitchDelays ==
  ASSUME TypeOK, NEW c \in CPUs, NEW pid, NEW old \in Tasks \union {Idle},
         NEW new \in Tasks, NEW runnable \in BOOLEAN, now' \in Nat,
         processSwitchEvent(c, pid, old, new, runnable, now'),
         ~WrongTask(c, old), MidTime(c, now') = now'
  PROVE  SwitchedLatency(new)
<1> DEFINE q == CorrectedTask(new, c, pid, old, now')
           exitIdle == LastExitIdle(c, old, now')
<1>1. new \in Pids /\ new # Idle /\ cpu \in [CPUs -> CPU] /\ task \in [Pids -> Task]
  BY TasksAssumption DEF TypeOK, Pids, Idle
<1>2. /\ q.graph = task[new].graph
      /\ q.lastRunnable = task[new].lastRunnable
      /\ q.lastRunnable_status = task[new].lastRunnable_status
      /\ q.lastSleepEntry = task[new].lastSleepEntry
  BY <1>1, CorrectedTaskFields
<1>3. latency' = Delays(q, c, exitIdle, new, now')
  BY <1>1 DEF processSwitchEvent
<1> HIDE DEF q, exitIdle
<1>4. CASE task[new].graph.isNew
  <2>1. latency' = [pid |-> new, first |-> TRUE,
                    sched |-> EstimateNew(c, exitIdle, now'), wake |-> {}]
    BY <1>2, <1>3, <1>4 DEF Delays
  <2>2. EstimateNew(c, exitIdle, now') \subseteq {now' - StartTime}
    BY DEF EstimateNew
  <2> QED BY <1>4, <2>1, <2>2 DEF SwitchedLatency
<1>5. CASE ~task[new].graph.isNew
  <2>1. latency' = [pid |-> new, first |-> FALSE,
                    sched |-> Estimate(q, {"wakeup", "sched"}, now'),
                    wake |-> Estimate(q, {"wakeup"}, now')]
    BY <1>2, <1>3, <1>5 DEF Delays
  <2> QED BY <1>2, <1>5, <2>1 DEF Estimate, SwitchedLatency
<1> QED BY <1>4, <1>5

LEMMA DelaysAreWait ==
  ASSUME TypeOK, KnownInv, RecentInv, WaitInv, ~done, NEW c \in CPUs,
         NEW new \in Tasks \union {Idle}, NEW runnable \in BOOLEAN,
         SwitchEvent(c, new, runnable)
  PROVE  LatencyIsWait'
<1> DEFINE old == current[c]
           r == task[new]
<1>1. /\ old \in Tasks \union {Idle} /\ now' \in Nat /\ lost' = lost
      /\ Switch(c, new, runnable) /\ Tick
  BY SwitchType DEF SwitchEvent, Switch, TypeOK, KernelTypeOK
<1>2. PICK pid : processSwitchEvent(c, pid, old, new, runnable, now')
  BY DEF SwitchEvent
<1>3. CASE new = Idle
  <2>1. latency'.pid = NoTask
    BY <1>2, <1>3 DEF processSwitchEvent, NoLatency
  <2> QED BY <2>1 DEF LatencyIsWait
<1>4. CASE new \in Tasks
  <2> SUFFICES ASSUME Spaced, "switch" \notin lost
               PROVE  LatencyIsWait'
    BY <1>1, TickPasses DEF LatencyIsWait, TypeOK
  <2>1. MidTime(c, now') = now' /\ ~WrongTask(c, old)
    BY <1>1, MidIsNow DEF KnownInv, WrongTask
  <2>2. /\ latency'.pid = new
        /\ latency'.first <=> r.graph.isNew
        /\ r.graph.isNew => latency'.sched \subseteq {now' - StartTime} /\ latency'.wake = {}
        /\ ~r.graph.isNew =>
              /\ latency'.sched = IF /\ r.lastRunnable_status \in {"wakeup", "sched"}
                                     /\ r.lastRunnable >= r.lastSleepEntry
                                  THEN {now' - r.lastRunnable} ELSE {}
              /\ latency'.wake = IF /\ r.lastRunnable_status \in {"wakeup"}
                                    /\ r.lastRunnable >= r.lastSleepEntry
                                 THEN {now' - r.lastRunnable} ELSE {}
    <3>1. SwitchedLatency(new)
      BY <1>1, <1>2, <1>4, <2>1, SwitchDelays
    <3> QED BY <3>1 DEF SwitchedLatency
  <2>3. /\ state[new] = "ready" /\ since'[new] = since[new] /\ how'[new] = how[new]
        /\ new \in missed' <=> new \in missed
    BY <1>1, <1>4, TasksAssumption DEF Switch, Idle, SwitchEvent
  <2>4. WaitShown(new) /\ WaitKnown(new)
    BY <1>4 DEF WaitInv
  <2>5. how[new] \in {"unknown", "wakeup", "switched_out"}
    BY <1>4 DEF TypeOK, KernelTypeOK
  <2> DEFINE waited == now' - since[new]
  <2> SUFFICES /\ r.graph.isNew =>
                    /\ latency'.wake = {}
                    /\ latency'.sched \subseteq {now' - StartTime}
                    /\ new \notin missed => latency'.sched \subseteq {waited}
               /\ ~r.graph.isNew =>
                    /\ new \in missed => latency'.sched = {} /\ latency'.wake = {}
                    /\ new \notin missed =>
                          /\ latency'.sched = {waited}
                          /\ latency'.wake = IF how[new] = "wakeup" THEN {waited} ELSE {}
    BY <1>1, <2>2, <2>3 DEF LatencyIsWait, FirstSeen
  <2> HIDE DEF r
  <2>6. CASE r.graph.isNew
    <3>1. new \notin missed => since[new] = StartTime
      BY <2>4, <2>6 DEF WaitKnown, r
    <3> QED BY <2>2, <2>6, <3>1
  <2>7. CASE ~r.graph.isNew
    <3>1. /\ r.lastRunnable_status = "wakeup" => r.lastRunnable = since[new] /\ how[new] = "wakeup"
          /\ r.lastRunnable_status = "sched" => r.lastRunnable = since[new] /\ how[new] = "switched_out"
          /\ r.lastRunnable_status # "invalid" => r.lastRunnable >= r.lastSleepEntry
          /\ new \in missed => r.lastRunnable_status = "invalid"
      BY <2>3, <2>4 DEF WaitShown, r
    <3>2. new \notin missed =>
             \/ how[new] = "wakeup" /\ r.lastRunnable_status = "wakeup"
             \/ how[new] = "switched_out" /\ r.lastRunnable_status = "sched"
      BY <2>3, <2>4, <2>5, <2>7 DEF WaitKnown, r
    <3>3. CASE new \in missed
      BY <2>2, <2>7, <3>1, <3>3
    <3>4. CASE new \notin missed /\ r.lastRunnable_status = "wakeup"
      BY <2>2, <2>7, <3>1, <3>4
    <3>5. CASE new \notin missed /\ r.lastRunnable_status = "sched"
      BY <2>2, <2>7, <3>1, <3>5
    <3> QED BY <3>2, <3>3, <3>4, <3>5
  <2> QED BY <2>6, <2>7
<1> QED BY <1>3, <1>4

LEMMA SwitchWaits ==
  ASSUME TypeOK, KnownInv, RecentInv, WaitInv, ~done, NEW c \in CPUs,
         NEW new \in Tasks \union {Idle}, NEW runnable \in BOOLEAN,
         SwitchEvent(c, new, runnable)
  PROVE  WaitInv'
<1> DEFINE old == current[c]
<1>1. /\ old \in Tasks \union {Idle} /\ now' \in Nat /\ now \in Nat /\ lost' = lost
      /\ Switch(c, new, runnable) /\ Tick /\ now <= now'
      /\ Spaced' <=> Spaced
  BY SwitchType, TickPasses DEF SwitchEvent, Switch, TypeOK, KernelTypeOK
<1>2. PICK pid : processSwitchEvent(c, pid, old, new, runnable, now')
  BY DEF SwitchEvent
<1> SUFFICES ASSUME Spaced, "switch" \notin lost, NEW t \in Tasks
             PROVE  WaitShown(t)' /\ WaitKnown(t)'
  BY <1>1 DEF WaitInv
<1>3. MidTime(c, now') = now' /\ ~WrongTask(c, old)
  BY <1>1, MidIsNow DEF KnownInv, WrongTask
<1>4. /\ WaitShown(t) /\ WaitKnown(t)
      /\ t \in Pids /\ Delta \in Nat /\ task[t].lastSleepEntry \in Int
  BY DeltaAssumption DEF WaitInv, Pids, TypeOK, Task
<1>5. SwitchedGraph(t, c, old, new, now') /\ SwitchedWait(t, c, old, runnable, now')
  BY <1>1, <1>2, <1>4, SwitchTaskFields
<1>6. /\ task'[t].lastRunnable = IF t = old /\ runnable THEN now' ELSE task[t].lastRunnable
      /\ task'[t].lastRunnable_status = IF t # old THEN task[t].lastRunnable_status
                                        ELSE IF runnable THEN "sched" ELSE "invalid"
      /\ task'[t].lastSleepEntry = IF t = old /\ ~runnable THEN now' - Delta
                                   ELSE task[t].lastSleepEntry
  BY <1>3, <1>5 DEF SwitchedWait
<1>7. /\ new # old
      /\ state'[t] = IF t = new THEN "running" ELSE IF t # old THEN state[t]
                     ELSE IF runnable THEN "ready"
                     ELSE IF t \in exiting THEN "gone" ELSE "sleeping"
      /\ since'[t] = IF t = old /\ runnable THEN now' ELSE since[t]
      /\ how'[t] = IF t = old /\ runnable THEN "switched_out" ELSE how[t]
      /\ t \in missed' <=> t \in missed /\ t # old
  BY <1>1 DEF Switch, SwitchEvent
<1>8. task[t].lastSleepEntry <= now' /\ now' - Delta <= now'
  <2>1. task[t].lastSleepEntry <= now
    BY <1>4 DEF WaitShown
  <2>2. now' - Delta <= now'
    BY <1>1, <1>4, DifferenceLess
  <2> QED BY <1>1, <1>4, <2>1, <2>2
<1>9. t = old \/ t = new => ~task'[t].graph.isNew
  BY <1>5, PointsStay DEF SwitchedGraph
<1>10. t # old /\ t # new => task'[t].graph = task[t].graph
  BY <1>3, <1>5 DEF SwitchedGraph, Expected
<1> HIDE DEF old
<1>11. CASE t = old /\ runnable
  BY <1>6, <1>7, <1>8, <1>9, <1>11 DEF WaitShown, WaitKnown
<1>12. CASE t = old /\ ~runnable
  BY <1>6, <1>7, <1>8, <1>9, <1>12 DEF WaitShown, WaitKnown
<1>13. CASE t = new
  BY <1>6, <1>7, <1>8, <1>9, <1>13 DEF WaitShown, WaitKnown
<1>14. CASE t # old /\ t # new
  BY <1>4, <1>6, <1>7, <1>8, <1>10, <1>14 DEF WaitShown, WaitKnown
<1> QED BY <1>11, <1>12, <1>13, <1>14

LEMMA NextWaits ==
  ASSUME TypeOK, KnownInv, RecentInv, WaitInv, LatencyIsWait, [Next]_vars
  PROVE  WaitInv' /\ LatencyIsWait'
<1>1. ASSUME ~done, NEW c \in CPUs, NEW new \in Tasks \union {Idle}, NEW runnable \in BOOLEAN,
             SwitchEvent(c, new, runnable)
      PROVE  WaitInv' /\ LatencyIsWait'
  BY <1>1, SwitchWaits, DelaysAreWait
<1>2. ASSUME latency' = NoLatency PROVE LatencyIsWait'
  BY <1>2 DEF NoLatency, LatencyIsWait
<1>3. ASSUME NEW c \in CPUs, NEW new \in Tasks \union {Idle}, NEW runnable \in BOOLEAN,
             SwitchLost(c, new, runnable)
      PROVE  WaitInv' /\ LatencyIsWait'
  <2>1. "switch" \in lost' /\ latency' = NoLatency
    BY <1>3 DEF SwitchLost
  <2> QED BY <1>2, <2>1 DEF WaitInv
<1>4. ASSUME Tick, lost \subseteq lost', done' = done,
             \A t \in Tasks : WaitShown(t) => WaitShown(t)',
             \A t \in Tasks : WaitKnown(t) => WaitKnown(t)'
      PROVE  WaitInv'
  <2>1. Spaced' <=> Spaced
    BY <1>4, TickPasses DEF TypeOK
  <2> QED BY <1>4, <2>1 DEF WaitInv
<1>5. ASSUME Tick PROVE \A t \in Tasks : task[t].lastSleepEntry <= now => task[t].lastSleepEntry <= now'
  <2>1. now \in Nat /\ now' \in Nat /\ now <= now'
    BY <1>5, TickPasses DEF TypeOK
  <2>2. \A t \in Tasks : task[t].lastSleepEntry \in Int
    BY DEF TypeOK, Pids, Task
  <2> QED BY <2>1, <2>2
<1>6. ASSUME NEW t \in Tasks, WakeupEvent(t) PROVE WaitInv' /\ LatencyIsWait'
  <2>1. /\ Tick /\ lost' = lost /\ done' = done /\ processWakeupEvent(t, now')
        /\ latency' = NoLatency /\ now' \in Nat /\ missed' = missed \ {t}
        /\ \/ /\ state[t] = "sleeping" /\ state' = [state EXCEPT ![t] = "ready"]
              /\ since' = [since EXCEPT ![t] = now'] /\ how' = [how EXCEPT ![t] = "wakeup"]
           \/ state[t] = "running" /\ UNCHANGED <<state, since, how>>
    BY <1>6, WakeUpType DEF WakeupEvent, WakeUp, WakeUpRunning, processWakeupEvent, TypeOK,
       KernelTypeOK
  <2>2. ASSUME NEW u \in Tasks
        PROVE  /\ u # t => task'[u].graph = task[u].graph
               /\ u = t => ~task'[u].graph.isNew
               /\ task'[u].lastRunnable = IF u = t THEN now' ELSE task[u].lastRunnable
               /\ task'[u].lastRunnable_status =
                    IF u = t THEN "wakeup" ELSE task[u].lastRunnable_status
               /\ task'[u].lastSleepEntry = task[u].lastSleepEntry
    <3>1. u \in Pids
      BY DEF Pids
    <3>2. task'[u].graph = IF u = t THEN Begin(task[u].graph, FLOOR_BIT, StartTime)
                           ELSE task[u].graph
      BY <2>1, <3>1, WakeupFields
    <3>3. ~Begin(task[u].graph, FLOOR_BIT, StartTime).isNew
      BY AddPointFields DEF Begin
    <3> QED BY <2>1, <3>1, <3>2, <3>3, WakeupFields
  <2>3. ASSUME NEW u \in Tasks, WaitShown(u) PROVE WaitShown(u)'
    <3>1. task[u].lastSleepEntry <= now /\ task[u].lastSleepEntry <= now'
      BY <1>5, <2>1, <2>3 DEF WaitShown
    <3>2. CASE u = t
      BY <2>1, <2>2, <3>1, <3>2 DEF WaitShown, TypeOK, KernelTypeOK
    <3>3. CASE u # t
      <4>1. state'[u] = state[u] /\ since'[u] = since[u] /\ how'[u] = how[u]
        BY <2>1, <3>3 DEF TypeOK, KernelTypeOK
      <4> QED BY <2>1, <2>2, <2>3, <3>1, <3>3, <4>1 DEF WaitShown
    <3> QED BY <3>2, <3>3
  <2>4. ASSUME NEW u \in Tasks, WaitKnown(u) PROVE WaitKnown(u)'
    <3>1. CASE u = t
      BY <2>1, <2>2, <3>1 DEF WaitKnown, TypeOK, KernelTypeOK
    <3>2. CASE u # t
      <4>1. state'[u] = state[u] /\ since'[u] = since[u] /\ how'[u] = how[u]
        BY <2>1, <3>2 DEF TypeOK, KernelTypeOK
      <4> QED BY <2>1, <2>2, <2>4, <3>2, <4>1 DEF WaitKnown
    <3> QED BY <3>1, <3>2
  <2> QED BY <1>2, <1>4, <2>1, <2>3, <2>4
<1>7. ASSUME NEW t \in Tasks, WakeupLost(t) PROVE WaitInv' /\ LatencyIsWait'
  <2>1. /\ Tick /\ lost \subseteq lost' /\ lost' # {} /\ done' = done /\ task' = task
        /\ latency' = NoLatency /\ missed' = missed \union {t}
        /\ state[t] = "sleeping" /\ state' = [state EXCEPT ![t] = "ready"]
        /\ since' = [since EXCEPT ![t] = now'] /\ how' = [how EXCEPT ![t] = "wakeup"]
    BY <1>7 DEF WakeupLost, WakeUp
  <2>2. ASSUME NEW u \in Tasks, WaitShown(u) PROVE WaitShown(u)'
    <3>1. task[u].lastSleepEntry <= now'
      BY <1>5, <2>1, <2>2 DEF WaitShown
    <3>2. CASE u = t
      <4>1. task[u].lastRunnable_status = "invalid"
        BY <2>1, <2>2, <3>2 DEF WaitShown
      <4>2. state'[u] = "ready"
        BY <2>1, <3>2 DEF TypeOK, KernelTypeOK
      <4> QED BY <2>1, <3>1, <4>1, <4>2 DEF WaitShown
    <3>3. CASE u # t
      <4>1. state'[u] = state[u] /\ since'[u] = since[u] /\ how'[u] = how[u]
        BY <2>1, <3>3 DEF TypeOK, KernelTypeOK
      <4> QED BY <2>1, <2>2, <3>1, <3>3, <4>1 DEF WaitShown
    <3> QED BY <3>2, <3>3
  <2>3. ASSUME NEW u \in Tasks, WaitKnown(u) PROVE WaitKnown(u)'
    <3>1. CASE u = t
      BY <2>1, <3>1 DEF WaitKnown
    <3>2. CASE u # t
      <4>1. state'[u] = state[u] /\ since'[u] = since[u] /\ how'[u] = how[u]
        BY <2>1, <3>2 DEF TypeOK, KernelTypeOK
      <4> QED BY <2>1, <2>3, <3>2, <4>1 DEF WaitKnown
    <3> QED BY <3>1, <3>2
  <2> QED BY <1>2, <1>4, <2>1, <2>2, <2>3
<1>8. ASSUME NEW t \in Tasks, ForkEvent(t) PROVE WaitInv' /\ LatencyIsWait'
  <2>1. /\ Tick /\ lost' = lost /\ done' = done /\ processForkEvent(t, now')
        /\ latency' = NoLatency /\ now' \in Nat
        /\ state[t] = "gone" /\ state' = [state EXCEPT ![t] = "sleeping"]
        /\ UNCHANGED <<since, how, missed>>
    BY <1>8, ForkType DEF ForkEvent, Fork, processForkEvent, TypeOK, KernelTypeOK
  <2>2. ASSUME NEW u \in Tasks
        PROVE  /\ state'[u] = IF u = t THEN "sleeping" ELSE state[u]
               /\ task'[u].graph.isNew => task[u].graph.isNew
               /\ task'[u].lastRunnable = task[u].lastRunnable
               /\ u # t => task'[u].lastRunnable_status = task[u].lastRunnable_status
               /\ u = t => task'[u].lastRunnable_status
                              \in {task[u].lastRunnable_status, "invalid"}
               /\ task'[u].lastSleepEntry = task[u].lastSleepEntry
    <3>1. u \in Pids
      BY DEF Pids
    <3>2. state'[u] = IF u = t THEN "sleeping" ELSE state[u]
      BY <2>1 DEF TypeOK, KernelTypeOK
    <3>3. task'[u].graph = IF u = t /\ task[t].graph.isNew
                           THEN AddPoint(task[u].graph, now', FLOOR_BIT, now')
                           ELSE task[u].graph
      BY <2>1, <3>1, ForkFields
    <3>4. task'[u].graph.isNew => task[u].graph.isNew
      BY <3>3, AddPointFields
    <3>5. /\ task'[u].lastRunnable = task[u].lastRunnable
          /\ task'[u].lastSleepEntry = task[u].lastSleepEntry
      BY <2>1, <3>1, ForkFields
    <3>6. task'[u].lastRunnable_status = IF u = t /\ task[t].graph.isNew THEN "invalid"
                                         ELSE task[u].lastRunnable_status
      BY <2>1, <3>1, ForkFields
    <3>7. /\ u # t => task'[u].lastRunnable_status = task[u].lastRunnable_status
          /\ u = t => task'[u].lastRunnable_status
                         \in {task[u].lastRunnable_status, "invalid"}
      BY <3>6
    <3> QED BY <3>2, <3>4, <3>5, <3>7
  <2>3. ASSUME NEW u \in Tasks, WaitShown(u) PROVE WaitShown(u)'
    <3>1. task[u].lastSleepEntry <= now'
      BY <1>5, <2>1, <2>3 DEF WaitShown
    <3>2. CASE u = t
      BY <2>1, <2>2, <2>3, <3>1, <3>2 DEF WaitShown
    <3>3. CASE u # t
      BY <2>1, <2>2, <2>3, <3>1, <3>3 DEF WaitShown
    <3> QED BY <3>2, <3>3
  <2>4. ASSUME NEW u \in Tasks, WaitKnown(u) PROVE WaitKnown(u)'
    <3>1. CASE u = t
      BY <2>1, <2>2, <2>4, <3>1 DEF WaitKnown
    <3>2. CASE u # t
      <4>1. task'[u].graph = task[u].graph
        <5>1. u \in Pids
          BY DEF Pids
        <5> QED BY <2>1, <3>2, <5>1, ForkFields
      <4> QED BY <2>1, <2>2, <2>4, <3>2, <4>1 DEF WaitKnown
    <3> QED BY <3>1, <3>2
  <2> QED BY <1>2, <1>4, <2>1, <2>3, <2>4
<1>9. ASSUME NEW c \in CPUs, ExitEvent(c) PROVE WaitInv' /\ LatencyIsWait'
  <2>1. /\ Tick /\ lost' = lost /\ done' = done /\ current[c] \in Tasks
        /\ processExitEvent(current[c]) /\ latency' = NoLatency
        /\ UNCHANGED <<state, since, how, missed>>
    BY <1>9, ExitType DEF ExitEvent, Exit, processExitEvent, TypeOK
  <2>2. ASSUME NEW u \in Tasks
        PROVE  /\ task'[u].graph = task[u].graph
               /\ task'[u].lastRunnable = task[u].lastRunnable
               /\ task'[u].lastRunnable_status = task[u].lastRunnable_status
               /\ task'[u].lastSleepEntry = task[u].lastSleepEntry
    <3>1. u \in Pids
      BY DEF Pids
    <3> QED BY <2>1, <3>1, ExitFields
  <2>3. ASSUME NEW u \in Tasks, WaitShown(u) PROVE WaitShown(u)'
    BY <1>5, <2>1, <2>2, <2>3 DEF WaitShown
  <2>4. ASSUME NEW u \in Tasks, WaitKnown(u) PROVE WaitKnown(u)'
    BY <2>1, <2>2, <2>4 DEF WaitKnown
  <2> QED BY <1>2, <1>4, <2>1, <2>3, <2>4
<1>10. CASE processSchedAddTail
  BY <1>2, <1>10 DEF processSchedAddTail, WaitInv
<1>11. CASE UNCHANGED vars
  BY <1>11 DEF vars, kernel, analyzer, WaitInv, WaitShown, WaitKnown, LatencyIsWait,
     FirstSeen, Spaced
<1> QED BY <1>1, <1>3, <1>6, <1>7, <1>8, <1>9, <1>10, <1>11 DEF Next

(* The latencies that the handlers report are the times that the tasks have   *)
(* been waiting in the kernel, and they are reported if and only if the trace  *)
(* shows what made the task runnable, the first latency of a task apart        *)
(* (estimateSchedDelay(), estimateWakeDelay(), estimateSchedDelayNew() on what *)
(* processSwitchEvent(), processWakeupEvent() and processForkEvent() record).  *)
THEOREM LatencyIsWaitCorrect == Spec => []LatencyIsWait
<1>1. Init => WaitInv /\ LatencyIsWait
  <2> SUFFICES ASSUME Init PROVE WaitInv /\ LatencyIsWait
    OBVIOUS
  <2>1. LatencyIsWait
    BY DEF Init, NoLatency, LatencyIsWait
  <2>2. ASSUME NEW t \in Tasks PROVE WaitShown(t) /\ WaitKnown(t)
    <3>1. /\ task[t].lastRunnable_status = "invalid" /\ task[t].lastSleepEntry = 0
          /\ since[t] = StartTime /\ how[t] = "unknown" /\ now = StartTime
          /\ task[t].graph.isNew
      BY <2>2 DEF Init, KernelInit, NewTask, EmptyGraph, Pids
    <3>2. 0 <= now
      BY <3>1, TimeAssumption
    <3> QED BY <3>1, <3>2 DEF WaitShown, WaitKnown
  <2> QED BY <2>1, <2>2 DEF WaitInv
<1>2. TypeOK /\ KnownInv /\ RecentInv /\ WaitInv /\ LatencyIsWait /\ [Next]_vars
        => WaitInv' /\ LatencyIsWait'
  BY NextWaits
<1> QED BY <1>1, <1>2, TypeCorrect, KnownCorrect, RecentCorrect, PTL DEF Spec
=============================================================================

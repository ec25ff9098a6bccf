------------------------------ MODULE TaskPlot ------------------------------
(***************************************************************************)
(* What MainWindow keeps about single tasks in the plot: the unified       *)
(* graphs and the ranges they are drawn in, the selected graph, the task   *)
(* toolbar, the legend and the buttons that work on them.  A click, a      *)
(* button or a request of a dialog is an action, with all slots that it    *)
(* runs.  consumeSettings() draws everything anew and restores what was    *)
(* there; its loop over the unified graphs takes a step for each, and no   *)
(* other slot runs between these steps.                                    *)
(***************************************************************************)
EXTENDS TaskRangeAllocator, FiniteSets

CONSTANTS
  Tasks,       (* the PIDs of the real tasks, all positive                    *)
  AliasOf,     (* the PIDs of ghost tasks, with what findRealTask() returns   *)
  NoTask,      (* its nullptr                                                 *)
  CPUsOf,      (* the CPUs on which a task has a CPUTask                      *)
  MaxGraphs    (* bound: so many unified graphs are in the plot at a time     *)

Aliases == DOMAIN AliasOf
Pids    == Tasks \cup Aliases
CPUs    == UNION {CPUsOf[t] : t \in Tasks}

ASSUME TasksAssumption   == Tasks \subseteq Nat \ {0} /\ NoTask \notin Tasks
ASSUME AliasesAssumption == Aliases \subseteq Nat \ ({0} \cup Tasks) /\ AliasOf \in [Aliases -> Tasks \cup {NoTask}]
ASSUME CPUsAssumption    == CPUsOf \in [Tasks -> SUBSET Nat]

VARIABLES
  opened,     (* is a trace open                                              *)
  shown,      (* the setting SHOW_SCHED_GRAPHS                                *)
  era,        (* which of the last two sets of graphs per CPU is in the plot  *)
  alloc,      (* taskRangeAllocator                                           *)
  plot,       (* the unified TaskGraphs in the plot, with their accessories   *)
  graph,      (* Task::graph                                                  *)
  selected,   (* the TaskGraph whose curve is selected                        *)
  toolbar,    (* TaskToolBar::taskGraph, always a graph per CPU               *)
  legend,     (* TaskToolBar::legendPidMap                                    *)
  enabled,    (* the enabled actions                                          *)
  settings,   (* the local variables of consumeSettings()                     *)
  orphaned    (* history: the selected unified graph was removed, and nothing *)
              (* was selected or deselected since                             *)

vars == <<opened, shown, era, alloc, plot, graph, selected, toolbar, legend, enabled, settings, orphaned>>

Actions  == {"task", "remove", "add", "clear", "addToLegend", "clearLegend"}
None     == [kind |-> "nullptr", task |-> 0]

(* The fields task, drawn and hidden of settings are history: the task of the  *)
(* toolbar, the tasks with a unified graph and whether the graphs per CPU were *)
(* hidden when consumeSettings() began.                                       *)
Idle     == [at |-> "idle", graphs |-> {}, legend |-> {}, selected |-> None,
             task |-> 0, drawn |-> {}, hidden |-> FALSE]

CPUGraph(t, c)  == [kind |-> "cpu", task |-> t, cpu |-> c, era |-> era]
LiveCPUGraphs   == IF opened THEN UNION {{CPUGraph(t, c) : c \in CPUsOf[t]} : t \in Tasks} ELSE {}

findRealTask(pid) == IF pid \in Tasks THEN pid ELSE IF pid \in Aliases THEN AliasOf[pid] ELSE NoTask

(* The tasks that no ghost task stands for.                                    *)
PlainTasks == Tasks \ {AliasOf[a] : a \in Aliases}

(* The first CPU that has a CPUTask of t: the first that findCPUTask() finds. *)
FirstCPU(t) == CHOOSE c \in CPUsOf[t] : \A d \in CPUsOf[t] : c <= d

(* Mutant: getTaskGraphForLegend() is not asked.                              *)
LegendGraphIsItself(g) == g

(* TaskToolBar::getPid(), and what setTaskGraph() keeps of a graph.            *)
PidOf(tb)       == tb.task
LegendGraph(g)  == IF g.kind = "unified" THEN g.legend ELSE g
LegendPids(l)   == {e.pid : e \in l}

(* Mutant: the button that clears all is left to addTaskGraph().              *)
UpdateWithoutClear(e, a, tb) ==
  (e \ {"remove", "add"})
    \cup (IF a.rangeList # {} THEN {"clear"} ELSE {})
    \cup (IF PidOf(tb) = 0 THEN {} ELSE IF Contains(a, PidOf(tb)) THEN {"remove"} ELSE {"add"})

(* updateTaskGraphActions(), updateAddToLegendAction(), setTaskActionsEnabled() *)
(* and legendEmptyChanged(), as functions of what they look at.               *)
UpdateTaskGraphActions(e, a, tb) ==
  (e \ {"clear", "remove", "add"})
    \cup (IF a.rangeList # {} THEN {"clear"} ELSE {})
    \cup (IF PidOf(tb) = 0 THEN {} ELSE IF Contains(a, PidOf(tb)) THEN {"remove"} ELSE {"add"})
UpdateAddToLegend(e, tb, l) ==
  IF PidOf(tb) # 0 /\ PidOf(tb) \notin LegendPids(l) THEN e \cup {"addToLegend"} ELSE e \ {"addToLegend"}
SetTaskActions(e, on) == IF on THEN e \cup {"task"} ELSE e \ {"task"}
LegendEmptyChanged(e, l) == IF l = {} THEN e \ {"clearLegend"} ELSE e \cup {"clearLegend"}

Init ==
  /\ opened = FALSE /\ shown \in BOOLEAN /\ era = 0
  /\ alloc = NoRanges /\ plot = {} /\ graph = [t \in Tasks |-> None]
  /\ selected = None /\ toolbar = None /\ legend = {}
  /\ enabled = {} /\ settings = Idle /\ orphaned = FALSE

(* The program waits for the user, with a trace open.                          *)
Ready == opened /\ settings = Idle

-----------------------------------------------------------------------------
(* Unified graphs.                                                            *)

(* The new TaskGraph of addTaskGraph() for pid, which belongs to its real task. *)
(* Its id is a number that nothing in the program refers to.                  *)
NewGraph(a, pid) ==
  LET t    == findRealTask(pid)
      used == {g.id : g \in plot} \cup (IF selected.kind = "unified" THEN {selected.id} ELSE {})
                \cup {graph[u].id : u \in {v \in Tasks : graph[v] # None}}
  IN  [kind |-> "unified", task |-> t, id |-> CHOOSE i \in 1..(MaxGraphs + Cardinality(Tasks) + 1) :
                                                      i \notin used /\ \A j \in 1..(i - 1) : j \in used,
       lower |-> RangeOf(a, pid).lower, legend |-> CPUGraph(t, FirstCPU(t))]

HasCPUGraph(t) == t # NoTask /\ CPUsOf[t] # {}

(* addTaskGraph(pid).  Where it gives up after getTaskRange() it returns the   *)
(* range; where the PID has a range it does nothing.                          *)
AddTaskGraph(pid, tb) ==
  LET t    == findRealTask(pid)
      got  == GetRange(alloc, pid)
      g    == NewGraph(got, pid)
  IN  \/ /\ Contains(alloc, pid)
         /\ UNCHANGED <<alloc, plot, graph, enabled>>
      \/ /\ ~Contains(alloc, pid) /\ ~HasCPUGraph(t)
         /\ alloc' = PutRange(got, pid)
         /\ UNCHANGED <<plot, graph, enabled>>
      \/ /\ ~Contains(alloc, pid) /\ HasCPUGraph(t)
         /\ Cardinality(plot) < MaxGraphs
         /\ alloc' = got
         /\ plot' = plot \cup {g}
         /\ graph' = [graph EXCEPT ![t] = g]
         /\ enabled' = UpdateTaskGraphActions(enabled, got, tb)

(* A row of the task dialog or of a statistics dialog, or the button.          *)
AddFromDialog(pid) ==
  /\ Ready
  /\ AddTaskGraph(pid, toolbar)
  /\ UNCHANGED <<opened, shown, era, selected, toolbar, legend, settings, orphaned>>

AddTaskGraphTriggered ==
  /\ Ready /\ "add" \in enabled
  /\ AddTaskGraph(PidOf(toolbar), toolbar)
  /\ UNCHANGED <<opened, shown, era, selected, toolbar, legend, settings, orphaned>>

(* The toolbar after the graphs gs of the plot are destroyed.                  *)
TakesSelected(gs)  == selected \in gs /\ PidOf(toolbar) = selected.task
ToolbarWithout(gs) == IF TakesSelected(gs) THEN None ELSE toolbar

RemoveTaskGraphTriggered ==
  /\ Ready /\ "remove" \in enabled
  /\ LET t    == findRealTask(PidOf(toolbar))
         gone == {graph[t]} \ {None}
         rest == PutRange(alloc, t)
     IN  /\ plot' = plot \ gone
         /\ graph' = [graph EXCEPT ![t] = None]
         /\ selected' = IF selected \in gone THEN None ELSE selected
         /\ toolbar' = ToolbarWithout(gone)
         /\ orphaned' = IF TakesSelected(gone) THEN TRUE ELSE orphaned
         /\ alloc' = rest
         /\ enabled' = UpdateTaskGraphActions(enabled, rest, ToolbarWithout(gone))
  /\ UNCHANGED <<opened, shown, era, legend, settings>>

(* Mutant: the ranges are freed, the graphs stay.                             *)
ClearRangesOnly ==
  /\ Ready /\ "clear" \in enabled
  /\ alloc' = NoRanges
  /\ enabled' = UpdateTaskGraphActions(enabled, NoRanges, toolbar)
  /\ UNCHANGED <<opened, shown, era, plot, graph, selected, toolbar, legend, settings, orphaned>>

(* findTask() of the PID of an alias is a task that never has a graph.         *)
ClearTaskGraphsTriggered ==
  /\ Ready /\ "clear" \in enabled
  /\ LET found == {t \in Tasks : Contains(alloc, t)}
         gone  == {graph[t] : t \in found} \ {None}
     IN  /\ plot' = plot \ gone
         /\ graph' = [t \in Tasks |-> IF t \in found THEN None ELSE graph[t]]
         /\ selected' = IF selected \in gone THEN None ELSE selected
         /\ toolbar' = ToolbarWithout(gone)
         /\ orphaned' = IF TakesSelected(gone) THEN TRUE ELSE orphaned
         /\ alloc' = NoRanges
         /\ enabled' = UpdateTaskGraphActions(enabled, NoRanges, ToolbarWithout(gone))
  /\ UNCHANGED <<opened, shown, era, legend, settings>>

-----------------------------------------------------------------------------
(* The selection and the legend.                                             *)

(* A graph per CPU has data, without which it cannot be selected, only while  *)
(* the scheduling graphs are shown.                                          *)
Selectable(g) == g \in plot \/ (shown /\ g \in LiveCPUGraphs)

(* The buttons e after g was selected, or nothing, with the legend l.          *)
ButtonsFor(g, e, l) ==
  UpdateAddToLegend(UpdateTaskGraphActions(SetTaskActions(e, g # None), alloc, LegendGraph(g)),
                    LegendGraph(g), l)

(* selectQCPGraph() and the end of selectTaskByPid(), for the graph it came to. *)
SelectTask(g, e, l) ==
  /\ selected' = IF Selectable(g) THEN g ELSE None
  /\ toolbar' = LegendGraph(g)
  /\ enabled' = ButtonsFor(g, e, l)
  /\ orphaned' = FALSE

(* A click on a graph.                                                       *)
SelectGraph(g) ==
  /\ Ready /\ Selectable(g)
  /\ SelectTask(g, enabled, legend)
  /\ UNCHANGED <<opened, shown, era, alloc, plot, graph, legend, settings>>

(* A click into the plot, or on a graph that is no TaskGraph.                  *)
DeselectGraph ==
  /\ Ready
  /\ selected' = None /\ toolbar' = None /\ orphaned' = FALSE
  /\ enabled' = enabled \ {"task", "remove", "add", "addToLegend"}
  /\ UNCHANGED <<opened, shown, era, alloc, plot, graph, legend, settings>>

(* Mutant: a unified graph is looked for on the CPU it names, which is 0.     *)
ChoicesOnCPU(pid, tryUnified, cpus) ==
  LET t    == findRealTask(pid)
      here == (IF tryUnified THEN {0} ELSE cpus) \cap CPUsOf[t]
  IN  IF t = NoTask \/ here = {} THEN {None} ELSE {CPUGraph(t, c) : c \in here}

(* The graph that selectTaskByPid() comes to: the unified one, if tryUnified   *)
(* and there is one, or the one of a CPU, that of the event or of the CPU     *)
(* where the task has most events.                                           *)
Choices(pid, tryUnified, cpus) ==
  LET t == findRealTask(pid)
  IN  IF t = NoTask THEN {None}
      ELSE IF tryUnified /\ graph[t] # None THEN {graph[t]}
      ELSE IF cpus \cap CPUsOf[t] = {} THEN {None}
      ELSE {CPUGraph(t, c) : c \in cpus \cap CPUsOf[t]}

SelectTaskByPid(pid, cpus) ==
  /\ Ready
  /\ \E g \in Choices(pid, TRUE, cpus) : SelectTask(g, enabled, legend)
  /\ UNCHANGED <<opened, shown, era, alloc, plot, graph, legend, settings>>

(* TaskToolBar::addTaskGraphToLegend(): a PID is in the legend once, although  *)
(* its task may have a graph on every CPU.                                    *)
InLegend(l, g) == IF g.task \in LegendPids(l) THEN l ELSE l \cup {[pid |-> g.task, graph |-> g]}

AddToLegendTriggered ==
  /\ Ready /\ "addToLegend" \in enabled
  /\ legend' = IF toolbar = None THEN legend ELSE InLegend(legend, toolbar)
  /\ enabled' = UpdateAddToLegend(LegendEmptyChanged(enabled, legend'), toolbar, legend')
  /\ UNCHANGED <<opened, shown, era, alloc, plot, graph, selected, toolbar, settings, orphaned>>

(* addTaskToLegend(pid) and doLegendCheck() for a row of a dialog.             *)
AddTaskToLegend(pid) ==
  /\ Ready
  /\ LET t == findRealTask(pid)
     IN  legend' = IF HasCPUGraph(t) THEN InLegend(legend, CPUGraph(t, FirstCPU(t))) ELSE legend
  /\ enabled' = UpdateAddToLegend(LegendEmptyChanged(enabled, legend'), toolbar, legend')
  /\ UNCHANGED <<opened, shown, era, alloc, plot, graph, selected, toolbar, settings, orphaned>>

LegendDoubleClick(e) ==
  /\ Ready
  /\ legend' = {f \in legend : f.pid # e.graph.task}
  /\ enabled' = UpdateAddToLegend(LegendEmptyChanged(enabled, legend'), toolbar, legend')
  /\ UNCHANGED <<opened, shown, era, alloc, plot, graph, selected, toolbar, settings, orphaned>>

ClearLegendTriggered ==
  /\ Ready /\ "clearLegend" \in enabled
  /\ legend' = {}
  /\ enabled' = UpdateAddToLegend(LegendEmptyChanged(enabled, {}), toolbar, {})
  /\ UNCHANGED <<opened, shown, era, alloc, plot, graph, selected, toolbar, settings, orphaned>>

-----------------------------------------------------------------------------
(* Traces and settings.                                                      *)

(* clearPlot() and what becomes of the pointers to the graphs.                 *)
ClearPlot ==
  /\ alloc' = NoRanges /\ plot' = {} /\ selected' = None
  /\ graph' = [t \in Tasks |-> None]
  /\ era' = 1 - era

Open ==
  /\ ~opened
  /\ opened' = TRUE
  /\ ClearPlot
  /\ UNCHANGED <<shown, toolbar, legend, enabled, settings, orphaned>>

Close ==
  /\ Ready
  /\ opened' = FALSE
  /\ ClearPlot
  /\ toolbar' = None /\ legend' = {}
  /\ enabled' = {} /\ orphaned' = FALSE
  /\ UNCHANGED <<shown, settings>>

ChangeSettingsWithoutTrace ==
  /\ ~opened
  /\ shown' = ~shown
  /\ UNCHANGED <<opened, era, alloc, plot, graph, selected, toolbar, legend, enabled, settings, orphaned>>

(* consumeSettings() up to tracePlot->show().  The task of the selected graph  *)
(* is what getPid() of that graph gives.                                      *)
ConsumeSettings ==
  /\ Ready
  /\ shown' \in BOOLEAN
  /\ settings' = [at |-> "graphs", graphs |-> alloc.rangeList, legend |-> LegendPids(legend),
                  selected |-> selected,
                  task |-> PidOf(toolbar), drawn |-> {g.task : g \in plot}, hidden |-> ~shown]
  /\ ClearPlot
  /\ toolbar' = None /\ legend' = {}
  /\ enabled' = enabled \ {"clearLegend"}
  /\ UNCHANGED <<opened, orphaned>>

(* The loop over taskGraphs, in the order of their ranges.                     *)
RestoreTaskGraph ==
  /\ settings.at = "graphs"
  /\ \E r \in settings.graphs :
       /\ ~Contains(alloc, r.pid)
       /\ \A s \in settings.graphs : s.upper > r.upper => Contains(alloc, s.pid)
       /\ AddTaskGraph(r.pid, toolbar)
  /\ UNCHANGED <<opened, shown, era, selected, toolbar, legend, settings, orphaned>>

(* The rest of it: the legend and the selection.                               *)
RestoreLegendAndSelection ==
  /\ settings.at = "graphs"
  /\ \A r \in settings.graphs : Contains(alloc, r.pid)
  /\ legend' = {[pid |-> t, graph |-> CPUGraph(t, FirstCPU(t))] : t \in settings.legend}
  /\ LET e == LegendEmptyChanged(enabled, legend')
         old == settings.selected
     IN  IF old = None
         THEN /\ enabled' = ButtonsFor(None, e, legend') /\ orphaned' = FALSE
              /\ UNCHANGED <<selected, toolbar>>
         ELSE \E g \in Choices(old.task, old.kind = "unified",
                                IF old.kind = "cpu" THEN {old.cpu} ELSE CPUsOf[old.task]) :
                SelectTask(g, e, legend')
  /\ settings' = Idle
  /\ UNCHANGED <<opened, shown, era, alloc, plot, graph>>

Next ==
  \/ \E pid \in Pids : AddFromDialog(pid) \/ AddTaskToLegend(pid)
  \/ \E pid \in Pids, cpus \in {CPUs} \cup {{c} : c \in CPUs} : SelectTaskByPid(pid, cpus)
  \/ AddTaskGraphTriggered \/ RemoveTaskGraphTriggered \/ ClearTaskGraphsTriggered
  \/ \E g \in plot \cup LiveCPUGraphs : SelectGraph(g)
  \/ DeselectGraph
  \/ AddToLegendTriggered \/ ClearLegendTriggered
  \/ \E e \in legend : LegendDoubleClick(e)
  \/ Open \/ Close \/ ChangeSettingsWithoutTrace
  \/ ConsumeSettings \/ RestoreTaskGraph \/ RestoreLegendAndSelection

Spec == Init /\ [][Next]_vars
-----------------------------------------------------------------------------
(* Properties.                                                               *)

(* No two ranges in use overlap, no task has two, all lie between the start    *)
(* and bottom, and bottom is where the lowest ends (TaskRangeAllocator).      *)
RangesDisjoint ==
  /\ \A r, s \in alloc.rangeList :
       r # s => r.pid # s.pid /\ (r.upper <= s.lower \/ s.upper <= r.lower)
  /\ \A r \in alloc.rangeList : r.lower = r.upper - dec /\ alloc.bottom <= r.lower /\ r.upper <= top
  /\ alloc.bottom = Lowest(alloc.rangeList)

(* For a task that no ghost task stands for: it has a range exactly while it   *)
(* has a unified graph, that graph is in the plot, drawn in that range, and   *)
(* there is no second one (addTaskGraph(), removeTaskGraph(),                 *)
(* clearTaskGraphsTriggered(), consumeSettings()).                            *)
GraphsInTheirRanges ==
  \A t \in PlainTasks :
    /\ {g \in plot : g.task = t} = {graph[t]} \ {None}
    /\ graph[t] # None <=> Contains(alloc, t)
    /\ graph[t] # None => graph[t].lower = RangeOf(alloc, t).lower

(* A button is enabled exactly when it can do something: to remove the unified *)
(* graph of the task in the toolbar if it has one, or else to add it; to       *)
(* clear all of them, if there is one; to clear the legend; with a task in    *)
(* the toolbar, the actions on it, and the one that adds it to the legend     *)
(* unless it is there (updateTaskGraphActions(), updateAddToLegendAction(),   *)
(* legendEmptyChanged()).  Two exceptions: a task that a ghost task stands     *)
(* for is not in PlainTasks, and for it the buttons go by the range of its    *)
(* own PID, whatever graph it has; and the last two are not promised while    *)
(* orphaned, after the selected graph was removed, when the toolbar is empty. *)
ButtonsMatch ==
  settings = Idle =>
    LET pid  == PidOf(toolbar)
        pids == {r.pid : r \in alloc.rangeList}
    IN  /\ "clear" \in enabled <=> pids # {}
        /\ pids \subseteq PlainTasks /\ {g.task : g \in plot} \subseteq PlainTasks =>
             ("clear" \in enabled <=> plot # {})
        /\ "remove" \in enabled <=> toolbar # None /\ pid \in pids
        /\ "add"    \in enabled <=> toolbar # None /\ pid \notin pids
        /\ pid \in PlainTasks => /\ "remove" \in enabled <=> graph[pid] # None
                                /\ "add"    \in enabled <=> graph[pid] = None
        /\ "clearLegend" \in enabled <=> legend # {}
        /\ orphaned => toolbar = None
        /\ ~orphaned => /\ "task" \in enabled <=> toolbar # None
                        /\ "addToLegend" \in enabled <=> toolbar # None /\ pid \notin LegendPids(legend)

(* CHANGELOG: "The button to add a legend is only enabled if the operation is  *)
(* possible."                                                                *)
LegendButtonIsOfUse ==
  settings = Idle /\ "addToLegend" \in enabled =>
    toolbar # None /\ PidOf(toolbar) \notin LegendPids(legend)

(* The toolbar, the legend, the tasks and the selection refer to graphs that   *)
(* exist: those of the toolbar and the legend are graphs per CPU, since a     *)
(* unified one may be removed (comment in TaskToolBar::setTaskGraph()), and a *)
(* task is in the legend once.                                               *)
NoDanglingGraph ==
  /\ toolbar # None => toolbar \in LiveCPUGraphs
  /\ selected # None => selected \in plot \cup LiveCPUGraphs
  /\ \A t \in Tasks : graph[t] # None => graph[t] \in plot
  /\ \A e \in legend : e.graph \in LiveCPUGraphs /\ e.pid = e.graph.task
  /\ \A e, f \in legend : e.pid = f.pid => e = f

(* A task was chosen in a dialog, or restored, while the graphs per CPU were    *)
(* hidden: it is in the toolbar, and no graph is selected, which is what       *)
(* consumeSettings() looks at.                                               *)
HiddenSelection == settings.hidden /\ settings.selected = None /\ settings.task # 0

(* When consumeSettings() returns, the unified graphs, the legend and the task *)
(* of the toolbar are those from before.  Two exceptions: a HiddenSelection is *)
(* lost; and of tasks that a ghost task stands for those have a unified graph  *)
(* again whose ranges were in use, whatever graph they had.                   *)
SettingsRestore ==
  [][settings # Idle /\ settings' = Idle =>
       /\ {r.pid : r \in alloc'.rangeList} = {r.pid : r \in settings.graphs}
       /\ {g.task : g \in plot'} = {findRealTask(r.pid) : r \in settings.graphs}
       /\ {g.task : g \in plot'} \cap PlainTasks = settings.drawn \cap PlainTasks
       /\ LegendPids(legend') = settings.legend
       /\ PidOf(toolbar') = IF HiddenSelection THEN 0 ELSE settings.task]_vars

(* CHANGELOG: "task selections [...] are restored after changing settings in   *)
(* the graph enable dialog."                                                 *)
TaskSelectionRestored ==
  [][settings # Idle /\ settings' = Idle => PidOf(toolbar') = settings.task]_vars
=============================================================================

------------------------------- MODULE Cursors -------------------------------
(***************************************************************************)
(* The red and the blue cursor of the plot, and what depends on where they   *)
(* are: the searches for wakeups, wakings and sleeps, which move them, and   *)
(* the dialog with the statistics between them. The slots are those of       *)
(* MainWindow (ui/mainwindow.cpp); the dialog's rows are filled and sorted   *)
(* by StatsModel and StatsLimitedModel, with vtl::heapsort().               *)
(*                                                                         *)
(* A position is kept as a vtl::Time in the cursor and in AbstractTask,      *)
(* which setPosition() tells of it (time here), as a vtl::Time in the info   *)
(* widget, which shows it to the user, and as a double in cursorPos, which   *)
(* zooming and the time filter use. A double stands here for the time that   *)
(* Time::fromDouble() makes of it. That function does not round, so that a   *)
(* time that has been a double may come back one nanosecond earlier. The     *)
(* events have even times, an odd time is the nanosecond before.            *)
(***************************************************************************)
EXTENDS TraceSearch

CONSTANTS OpenedTraces,    \* the traces that can be opened
          UserTimes,     \* the times a user can point at or type
          Inexact,   \* times that do not survive a conversion to double
          Name       \* displayName, by PID: only its order counts

ASSUME OpenedAssumption ==
    \A tr \in OpenedTraces :
        /\ tr \in Seq(TracedEvent) /\ tr # <<>>
        /\ \A i \in 2 .. Len(tr) : tr[i - 1].time <= tr[i].time

(* The task that a CPU runs between event n and the next, as far as a trace  *)
(* shows it.                                                                *)
OnCPU(tr, cpu, n) ==
    LET switches == {i \in DOMAIN tr : tr[i].type = "switch" /\ tr[i].cpu = cpu}
        before == {i \in switches : i <= n}
    IN  IF before # {} THEN tr[Max(before)].target
        ELSE IF switches # {} THEN tr[Min(switches)].pid
        ELSE Idle

CPUNumbers(tr) == 0 .. (NrCPUs(tr) - 1)

(* No event was lost: a task is on one CPU at a time, it leaves the CPU that  *)
(* it is on, and is on none when it enters one or is woken up.              *)
IsComplete(tr) ==
    /\ \A n \in 0 .. Len(tr) : \A c, d \in CPUNumbers(tr) :
          c # d => OnCPU(tr, c, n) # OnCPU(tr, d, n) \/ OnCPU(tr, c, n) = Idle
    /\ \A i \in DOMAIN tr :
          /\ tr[i].type = "switch" => tr[i].pid = OnCPU(tr, tr[i].cpu, i - 1)
          /\ tr[i].type # "waking" /\ tr[i].target # Idle =>
                \A c \in CPUNumbers(tr) : OnCPU(tr, c, i - 1) # tr[i].target

ASSUME CompleteAssumption == \A tr \in OpenedTraces : IsComplete(tr)
ASSUME UserTimesAssumption == UserTimes \subseteq Nat /\ Inexact \subseteq Nat \ {0}
ASSUME IdleAssumption == Idle \notin Tasks /\ Tasks \subseteq Int /\ Idle \in Int /\ IsFiniteSet(Tasks)
ASSUME NameAssumption == Name \in [Tasks \union {Idle} -> Int]

VARIABLES events,       \* the events of the analyzer, <<>> when no trace is open
          points,      \* the unified graphs of taskMap
          time,        \* Cursor::time, AbstractTask::cursorValues
          info,        \* InfoWidget::cursorValues
          cursorPos,   \* MainWindow::cursorPos
          active,      \* the active cursor
          visible,     \* the statistics dialog is shown
          cursorTime,  \* the run time of every task between the cursors
          taskList     \* the dialog's rows

cursorVars == <<events, points, time, info, cursorPos, active, visible, cursorTime, taskList>>

Cursor == {"red", "blue"}
AllTasks == Tasks \union {Idle}

CursorTypeOK ==
    /\ events # <<>> => events \in OpenedTraces
    /\ points \in [Tasks -> Seq([time : Nat, running : BOOLEAN])]
    /\ {time, info, cursorPos} \subseteq [Cursor -> Nat]
    /\ active \in Cursor
    /\ visible \in BOOLEAN
    /\ cursorTime \in [AllTasks -> Int]
    /\ taskList \in Seq(AllTasks)

(* vtl::Time::fromDouble(t.toDouble())                                      *)
Converted(t) == IF t \in Inexact THEN t - 1 ELSE t

Other(c) == IF c = "red" THEN "blue" ELSE "red"

CursorInit ==
    /\ events = <<>>
    /\ points = [p \in Tasks |-> <<>>]
    /\ time = [c \in Cursor |-> 0]
    /\ info = [c \in Cursor |-> 0]
    /\ cursorPos = [c \in Cursor |-> 0]
    /\ active = "red"
    /\ visible = FALSE
    /\ cursorTime = [p \in AllTasks |-> 0]
    /\ taskList = <<>>

(***************************************************************************)
(* vtl::heapsort() with the comparison of StatsLimitedModel.                *)
(***************************************************************************)
Compare(ran, a, b) ==
    IF ran[a] # ran[b] THEN ran[b] - ran[a]
    ELSE IF Name[a] # Name[b] THEN Name[a] - Name[b]
    ELSE a - b

swapItemsAt(s, i, j) == [s EXCEPT ![i] = s[j], ![j] = s[i]]

(* An item goes down in the heap as long as one below it is larger.         *)
siftdown(ran, s, start, end) ==
    LET Larger(h, i, j) == IF j <= end /\ Compare(ran, h[i], h[j]) < 0 THEN j ELSE i
        Sift[x \in [heap : [1 .. Len(s) -> ToSet(s)], root : 1 .. Len(s)]] ==
            LET swap == Larger(x.heap, Larger(x.heap, x.root, 2 * x.root), 2 * x.root + 1)
            IN  IF swap = x.root THEN x.heap
                ELSE Sift[[heap |-> swapItemsAt(x.heap, x.root, swap), root |-> swap]]
    IN  Sift[[heap |-> s, root |-> start]]

(* What the turns of the two loops leave.                                   *)
heapify(ran, s) ==
    LET parents == Len(s) \div 2
        Heap[k \in 0 .. parents] ==
            IF k = 0 THEN s ELSE siftdown(ran, Heap[k - 1], parents + 1 - k, Len(s))
    IN  Heap[parents]

heapsort(ran, s) ==
    LET Sorted[k \in 0 .. Len(s) - 1] ==
            IF k = 0 THEN heapify(ran, s)
            ELSE siftdown(ran, swapItemsAt(Sorted[k - 1], 1, Len(s) + 1 - k), 1, Len(s) - k)
    IN  IF Len(s) < 2 THEN s ELSE Sorted[Len(s) - 1]

(***************************************************************************)
(* TraceAnalyzer::doLimitedStats(), StatsModel::setTaskMap()                *)
(***************************************************************************)
doLimitedStats(tr, graphs, start, end) ==
    LET ran == [p \in Tasks |-> doStatsTimeLimited(graphs[p], start, end)] IN
    [p \in AllTasks |-> IF p \in Tasks THEN ran[p]
                    ELSE (end - start) * NrCPUs(tr) - SumFunction(ran)]

(* The order of the keys of taskMap                                         *)
InKeyOrder(pids) ==
    CHOOSE s \in [1 .. Cardinality(pids) -> pids] : \A i, j \in DOMAIN s : i < j => s[i] < s[j]

setTaskMap(graphs, ran) ==
    heapsort(ran, Append(InKeyOrder({p \in Tasks : graphs[p] # <<>> /\ ran[p] # 0}), Idle))

FillDialog(tr, graphs, t) ==
    /\ cursorTime' = doLimitedStats(tr, graphs, Min({t["red"], t["blue"]}),
                                    Max({t["red"], t["blue"]}))
    /\ taskList' = setTaskMap(graphs, cursorTime')

checkStatsTimeLimited(tr, graphs, t) ==
    IF visible THEN FillDialog(tr, graphs, t) ELSE UNCHANGED <<cursorTime, taskList>>

(***************************************************************************)
(* The slots.                                                               *)
(***************************************************************************)

(* A mutant: the dialog is refreshed before the cursors are moved.          *)
SetPositionsLate(tr, graphs, t) == time' = t /\ checkStatsTimeLimited(tr, graphs, time)

(* Cursor::setPosition() and checkStatsTimeLimited()                        *)
SetPositions(tr, graphs, t) == time' = t /\ checkStatsTimeLimited(tr, graphs, t)

(* Some of the cursors are moved: one of them, or the active one and the other. *)
Moved(moves, f) == [c \in Cursor |-> IF c \in DOMAIN moves THEN moves[c] ELSE f[c]]
One(cursor, t) == [c \in {cursor} |-> t]
Both(t, other) == [c \in Cursor |-> IF c = active THEN t ELSE other]

MoveTo(moves) ==
    /\ SetPositions(events, points, Moved(moves, time))
    /\ info' = Moved(moves, info)
    /\ cursorPos' = Moved([c \in DOMAIN moves |-> Converted(moves[c])], cursorPos)
    /\ UNCHANGED <<events, points, active, visible>>

(* openTrace(): the red cursor is put into the middle of the trace and the   *)
(* blue one a tenth of it later. The dialog may still be visible.           *)
SetupCursors(tr) ==
    LET middle == (StartTime(tr) + EndTime(tr)) \div 2
        t == [c \in Cursor |-> IF c = "red" THEN middle
                               ELSE middle + (EndTime(tr) - StartTime(tr)) \div 10]
    IN  /\ events' = tr
        /\ points' = [p \in Tasks |-> Points(tr, p)]
        /\ SetPositions(tr, points', t)
        /\ info' = t
        /\ cursorPos' = t
        /\ UNCHANGED <<active, visible>>

(* closeTrace(): the dialog has no rows, the cursors are deleted with the    *)
(* plot's items. What they had told the others remains.                     *)
Close ==
    /\ events # <<>>
    /\ events' = <<>>
    /\ points' = [p \in Tasks |-> <<>>]
    /\ info' = [c \in Cursor |-> 0]
    /\ cursorTime' = [p \in AllTasks |-> 0]
    /\ taskList' = <<>>
    /\ UNCHANGED <<time, cursorPos, active, visible>>

(* consumeSettings(): the plot is made again, and the cursors in it.        *)
ConsumeSettings ==
    /\ events # <<>>
    /\ MoveTo(time)

(* plotDoubleClicked(): what the user points at is a double.                *)
PlotDoubleClicked(t) ==
    /\ events # <<>>
    /\ SetPositions(events, points, [time EXCEPT ![active] = t])
    /\ info' = [info EXCEPT ![active] = t]
    /\ cursorPos' = [cursorPos EXCEPT ![active] = t]
    /\ UNCHANGED <<events, points, active, visible>>

(* infoValueChanged(): the user has typed a time.                           *)
InfoValueChanged(c, t) ==
    /\ events # <<>>
    /\ MoveTo(One(c, t))

(* moveCursor() to the time of an event in the events view                  *)
MoveCursor(c, i) ==
    /\ i \in DOMAIN events
    /\ MoveTo(One(c, events[i].time))

(* A latency in a list is from the event i that made a task runnable to the  *)
(* next event j that scheduled it.                                          *)
IsLatency(i, j) ==
    LET pid == events[j].target
        Concerns(k) == \/ events[k].type = "switch" /\ pid \in {events[k].pid, events[k].target}
                       \/ events[k].type = "wakeup" /\ events[k].target = pid
    IN  /\ events[j].type = "switch" /\ pid # Idle
        /\ i < j /\ Concerns(i)
        /\ events[i].type = "wakeup" \/ (events[i].pid = pid /\ ~events[i].sleeps)
        /\ \A k \in (i + 1) .. (j - 1) : ~Concerns(k)

(* showLatency(): the active cursor shows the wakeup.                       *)
ShowLatency(i, j) ==
    /\ {i, j} \subseteq DOMAIN events
    /\ IsLatency(i, j)
    /\ MoveTo(Both(events[i].time, events[j].time))

(* showWakeupOrWaking(): the scheduling of a task that precedes the active   *)
(* cursor, and the wakeup or the waking that precedes it.                   *)
FindWakeup(pid, wanted) ==
    /\ events # <<>>
    /\ \E sched \in findPreviousSchedEvent(events, Converted(time[active]), pid) :
       \E wakeup \in findPreviousWakEvent(events, sched, pid, wanted) :
          MoveTo(Both(events[wakeup].time, events[sched].time))

(* showWaking() of a wakeup that is selected in the events view             *)
FindWaking(wakeup) ==
    /\ wakeup \in DOMAIN events
    /\ events[wakeup].type = "wakeup"
    /\ \E i \in findWakingEvent(events, wakeup) : MoveTo(One(active, events[i].time))

(* findSleepTriggered()                                                     *)
FindSleep(pid) ==
    /\ events # <<>>
    /\ \E i \in findNextSchedSleepEvent(events, Converted(time[active]), pid) :
          MoveTo(One(active, events[i].time))

(* showStatsTimeLimited() shows or hides the dialog.                        *)
ShowStatsTimeLimited ==
    /\ events # <<>>
    /\ visible' = ~visible
    /\ IF visible THEN UNCHANGED <<cursorTime, taskList>> ELSE FillDialog(events, points, time)
    /\ UNCHANGED <<events, points, time, info, cursorPos, active>>

(* The user chooses the active cursor.                                      *)
ChooseCursor ==
    /\ active' = Other(active)
    /\ UNCHANGED <<events, points, time, info, cursorPos, visible, cursorTime, taskList>>

CursorNext ==
    \/ events = <<>> /\ \E tr \in OpenedTraces : SetupCursors(tr)
    \/ Close
    \/ ConsumeSettings
    \/ \E t \in UserTimes : \/ PlotDoubleClicked(t)
                        \/ \E c \in Cursor : InfoValueChanged(c, t)
    \/ \E i \in DOMAIN events : \/ \E c \in Cursor : MoveCursor(c, i)
                               \/ FindWaking(i)
                               \/ \E j \in DOMAIN events : ShowLatency(i, j)
    \/ \E pid \in Tasks : \/ \E wanted \in {"wakeup", "waking"} : FindWakeup(pid, wanted)
                          \/ FindSleep(pid)
    \/ ShowStatsTimeLimited
    \/ ChooseCursor

CursorSpec == CursorInit /\ [][CursorNext]_cursorVars

(***************************************************************************)
(* Properties.                                                              *)
(***************************************************************************)

EventsUntil(tr, t) == Max({0} \union {i \in DOMAIN tr : tr[i].time <= t})

RunTime(pid, start, end) ==
    Cardinality({x \in CPUNumbers(events) \X (start .. (end - 1)) :
                    OnCPU(events, x[1], EventsUntil(events, x[2])) = pid})

(* While the dialog is visible its rows are the tasks that ran between the   *)
(* times that the info widget shows, and the idle task, each with the time   *)
(* it had the CPUs in between, the longest first, whichever way the cursors  *)
(* were moved; and zooming and the time filter use the same times, up to     *)
(* what a conversion loses. (Outside of the trace the rows only have to add  *)
(* up, to no more than the CPUs had.)                                       *)
StatsFollowCursors ==
    LET start == Min({info["red"], info["blue"]})
        end == Max({info["red"], info["blue"]})
    IN  events # <<>> =>
        /\ \A c \in Cursor : cursorPos[c] \in {info[c], Converted(info[c])}
        /\ visible =>
           /\ \A p \in AllTasks : cursorTime[p] >= 0
           /\ \A k \in 2 .. Len(taskList) :
                 cursorTime[taskList[k - 1]] >= cursorTime[taskList[k]]
           /\ StartTime(events) <= start /\ end <= EndTime(events) =>
              /\ \A p \in AllTasks : cursorTime[p] = RunTime(p, start, end)
              /\ ToSet(taskList) = {p \in Tasks : cursorTime[p] > 0} \union {Idle}
              /\ IsInjective(taskList)

(* The times of the events that are about a task, as the searches want them *)
TimesOf(type, pid) == {events[i].time : i \in {k \in DOMAIN events :
                          events[k].type = type /\ events[k].target = pid}}
SleepTimes(pid) == {events[i].time : i \in {k \in DOMAIN events :
                       events[k].type = "switch" /\ events[k].pid = pid /\ events[k].sleeps}}
NoneBetween(S, t1, t2) == \A t \in S : t <= t1 \/ t >= t2

(* A search for a wakeup takes the other cursor back to the last scheduling   *)
(* of the task before the active one, up to what the conversion of its time   *)
(* loses, and the active cursor to the last wakeup before that scheduling, so *)
(* that the user can go on from waker to waker. (Between the two the task may *)
(* have been scheduled, and preempted again.) The waking that is found for a  *)
(* wakeup is the last one, unless both are at the same time. A search for a   *)
(* sleep goes on to the next one, if the cursor's time survives the           *)
(* conversion and is not the end of the trace or later.                      *)
SearchesFindNeighbours ==
    [][LET here == time[active]
           found == time'[active]
           scheduled == time'[Other(active)]
       IN  /\ \A pid \in Tasks, wanted \in {"wakeup", "waking"} :
                 FindWakeup(pid, wanted) =>
                    /\ found <= scheduled /\ scheduled < here
                    /\ NoneBetween(TimesOf("switch", pid), scheduled, Converted(here))
                    /\ NoneBetween(TimesOf(wanted, pid), found, scheduled)
           /\ \A i \in DOMAIN events :
                 FindWaking(i) =>
                    /\ found <= events[i].time
                    /\ NoneBetween(TimesOf("waking", events[i].target), found, events[i].time)
           /\ \A pid \in Tasks :
                 FindSleep(pid) /\ here \notin Inexact /\ here < EndTime(events) =>
                    /\ here < found
                    /\ NoneBetween(SleepTimes(pid), here, found)]_cursorVars
=============================================================================

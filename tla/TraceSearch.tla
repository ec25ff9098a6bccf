----------------------------- MODULE TraceSearch -----------------------------
(***************************************************************************)
(* What the slots of the cursors look up in a trace: the event searches of  *)
(* TraceAnalyzer (analyzer/traceanalyzer.cpp), and the run time of a task   *)
(* between two times, AbstractTask::doStatsTimeLimited()                    *)
(* (analyzer/abstracttask.cpp). A trace is a non-empty sequence of events   *)
(* in the order of time. Indices begin at 1.                                *)
(***************************************************************************)
EXTENDS Integers, SequencesExt

CONSTANTS Tasks,   \* the PIDs
          Idle     \* the PID of the idle task

(* target is the incoming task of a switch, and the task that is woken up.  *)
TracedEvent == [type : {"switch", "wakeup", "waking"}, time : Nat, cpu : Nat,
                pid : Tasks \union {Idle}, target : Tasks \union {Idle}, sleeps : BOOLEAN]

StartTime(tr) == tr[1].time
EndTime(tr) == tr[Len(tr)].time
NrCPUs(tr) == 1 + Max({tr[i].cpu : i \in DOMAIN tr})

(***************************************************************************)
(* TraceAnalyzer: indices of events.                                        *)
(***************************************************************************)
binarySearch(tr, time, start, end) ==
    LET Index == 1 .. Len(tr)
        Search[r \in {q \in [start : Index, end : Index] : q.start <= q.end}] ==
            LET pivot == (r.start + r.end) \div 2 IN
            IF pivot = r.start THEN pivot
            ELSE Search[IF time < tr[pivot].time THEN [r EXCEPT !.end = pivot]
                                                 ELSE [r EXCEPT !.start = pivot]]
    IN  Search[[start |-> start, end |-> end]]

(* A mutant: an event at the very time counts as being before it.           *)
findIndexNotAfter(tr, time) ==
    Max({i \in 1 .. Len(tr) : tr[i].time <= time} \union {1})

(* The loop that follows goes back over the events that are not earlier, but *)
(* never beyond the first.                                                  *)
findIndexBefore(tr, time) ==
    LET earlier == {i \in 1 .. binarySearch(tr, time, 1, Len(tr)) : tr[i].time < time} IN
    IF time > EndTime(tr) THEN Len(tr)
    ELSE IF earlier = {} THEN 1
    ELSE Max(earlier)

findIndexAfter(tr, time) ==
    LET later == {i \in binarySearch(tr, time, 1, Len(tr)) .. Len(tr) : tr[i].time > time} IN
    IF time > EndTime(tr) \/ later = {} THEN Len(tr)
    ELSE IF time < StartTime(tr) THEN 1
    ELSE Min(later)

(* The searches return the set of the index that is found: it may be empty. *)
Latest(S) == IF S = {} THEN {} ELSE {Max(S)}
Earliest(S) == IF S = {} THEN {} ELSE {Min(S)}

findPreviousSchedEvent(tr, time, pid) ==
    Latest({i \in 1 .. findIndexBefore(tr, time) :
             tr[i].type = "switch" /\ tr[i].target = pid})

findNextSchedSleepEvent(tr, time, pid) ==
    Earliest({i \in findIndexAfter(tr, time) .. Len(tr) :
             tr[i].type = "switch" /\ tr[i].pid = pid /\ tr[i].sleeps})

findPreviousWakEvent(tr, start, pid, wanted) ==
    Latest({i \in 1 .. start : tr[i].type = wanted /\ tr[i].target = pid})

findWakingEvent(tr, wakeup) ==
    findPreviousWakEvent(tr, findIndexBefore(tr, tr[wakeup].time),
                         tr[wakeup].target, "waking")

(***************************************************************************)
(* AbstractTask: the times and states of a task's unified graph, as the      *)
(* handlers of the events leave them, and the time it has been running.     *)
(***************************************************************************)
Point(time, running) == [time |-> time, running |-> running]

AddEvent(tr, pid, p, e) ==
    LET Begin(running) == IF p = <<>> THEN <<Point(StartTime(tr), running)>> ELSE p IN
    IF e.type = "switch" /\ e.pid = pid THEN Append(Begin(TRUE), Point(e.time, FALSE))
    ELSE IF e.type = "switch" /\ e.target = pid THEN Append(Begin(FALSE), Point(e.time, TRUE))
    ELSE IF e.type = "wakeup" /\ e.target = pid THEN Begin(FALSE)
    ELSE p

(* With the tail, which a task that enters a CPU with the last event has not. *)
Points(tr, pid) ==
    LET Graph[n \in 0 .. Len(tr)] ==
            IF n = 0 THEN <<>> ELSE AddEvent(tr, pid, Graph[n - 1], tr[n])
        p == Graph[Len(tr)]
        last == p[Len(p)]
    IN  IF p = <<>> \/ (last.running /\ last.time = EndTime(tr)) THEN p
        ELSE Append(p, Point(EndTime(tr), last.running))

binarySearch_(p, time, lower, higher) ==
    LET Index == 1 .. Len(p)
        Search[r \in {q \in [lower : Index, higher : Index] : q.lower <= q.higher}] ==
            LET pivot == (r.lower + r.higher) \div 2
                smaller == p[pivot].time < time
            IN  IF r.higher - r.lower < 2 THEN IF smaller THEN r.higher ELSE r.lower
                ELSE Search[IF smaller THEN [r EXCEPT !.lower = pivot]
                                       ELSE [r EXCEPT !.higher = pivot]]
    IN  Search[[lower |-> lower, higher |-> higher]]

findLower(p, time) ==
    LET idx == binarySearch_(p, time, 1, Len(p)) IN
    Max({i \in 1 .. idx : p[i].time <= time} \union {1})

doStatsTimeLimited(p, start, end) ==
    LET n == Len(p)
        i1 == findLower(p, start)
        i2 == Max({i1, findLower(p, end)})
        From(i) == IF i = i1 THEN Max({start, p[i].time}) ELSE p[i].time
        To(i) == IF i < i2 THEN p[i + 1].time ELSE Max({end, From(i)})
        ran == [i \in i1 .. i2 |-> IF p[i].running THEN To(i) - From(i) ELSE 0]
    IN  IF n = 0 THEN 0
        ELSE IF n = 1
        THEN IF ~p[1].running \/ p[1].time > end THEN 0
             ELSE end - Max({start, p[1].time})
        ELSE IF p[n].time < start \/ p[1].time > end \/ p[i1].time >= end THEN 0
        ELSE SumFunction(ran)
=============================================================================

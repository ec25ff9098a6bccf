---------------------------- MODULE Tasks_proofs ----------------------------
(***************************************************************************)
(* Proofs about what the tasks of a trace are kept in: the ranges and       *)
(* graphs of the plot, and the trees that map PIDs to tasks.                *)
(*                                                                         *)
(* TaskRangeAllocator and TaskPlot, for any tasks, ghost tasks and sizes of *)
(* the plot.                                                                *)
(*                                                                         *)
(* Balanced for keys in any number and order. The links of all nodes fit   *)
(* at all times. During the ascent all heights fit except that of          *)
(* grandParent, below which the tree of parent has grown by one; the four  *)
(* rotations repair a tree that leans by two.                              *)
(*                                                                         *)
(* IterationIsSortedMap likewise. Every node has a span, the keys whose    *)
(* search leads to it; a rotation hands the span of grandParent to the     *)
(* node that takes its place, and every node keeps its own key in its span. *)
(* The loops of the iterator and of the lookup end because heights fall,    *)
(* or rise, along them; what they compute is proved by induction on heights.*)
(***************************************************************************)
EXTENDS TaskPlot, AvlIteration, Recursion_proofs, FiniteSetTheorems

(***************************************************************************)
(* The allocator.                                                           *)
(***************************************************************************)
RangesTyped(R) == \A r \in R : r.upper \in Int /\ r.lower \in Int /\ r.lower = r.upper - dec
Between(R, b)  == \A r \in R : b <= r.lower /\ r.upper <= top
Apart(R)       == \A r, s \in R : r # s => r.pid # s.pid /\ (r.upper <= s.lower \/ s.upper <= r.lower)

AllocInv(a) ==
  /\ a = [rangeList |-> a.rangeList, bottom |-> a.bottom]
  /\ a.bottom \in Int /\ a.bottom <= top
  /\ RangesTyped(a.rangeList)
  /\ Between(a.rangeList, a.bottom)
  /\ Apart(a.rangeList)
  /\ a.bottom = Lowest(a.rangeList)

LEMMA NoRangesInv == AllocInv(NoRanges)
BY TopAssumption DEF AllocInv, NoRanges, RangesTyped, Between, Apart, Lowest

LEMMA LowestUnique ==
  ASSUME NEW R, RangesTyped(R), NEW r \in R, \A s \in R : r.lower <= s.lower
  PROVE  Lowest(R) = r.lower
<1>1. r.lower \in {s.lower : s \in R} /\ \A s \in R : r.lower <= s.lower
  OBVIOUS
<1>2. ASSUME NEW b \in {s.lower : s \in R}, \A s \in R : b <= s.lower
      PROVE  b = r.lower
  <2>1. b \in Int /\ r.lower \in Int
    BY DEF RangesTyped
  <2>2. b <= r.lower /\ r.lower <= b
    BY <1>2
  <2> QED BY <2>1, <2>2
<1> QED BY <1>1, <1>2 DEF Lowest

LEMMA LowestIsOne ==
  ASSUME NEW R, RangesTyped(R), R # {}, NEW b \in Int, \A r \in R : b <= r.lower
  PROVE  \E r \in R : Lowest(R) = r.lower /\ \A s \in R : r.lower <= s.lower
<1> DEFINE L == {r.lower : r \in R}
<1>1. L \subseteq Int /\ L # {}
  BY DEF RangesTyped
<1>2. \A x \in L : b <= x
  OBVIOUS
<1>3. PICK u \in L : \A v \in L : u <= v
  <2> HIDE DEF L
  <2> QED BY <1>1, <1>2, Least
<1>4. PICK r \in R : u = r.lower
  OBVIOUS
<1>5. \A s \in R : r.lower <= s.lower
  BY <1>3, <1>4
<1> QED BY <1>5, LowestUnique

(* The place that getTaskRange() finds is a gap, if there is any.              *)
LEMMA FirstGapIsGap ==
  ASSUME NEW R, RangesTyped(R), NEW b \in Int, Between(R, b), Gaps(R) # {}
  PROVE  FirstGap(R) \in Gaps(R)
<1>1. Gaps(R) \subseteq Int
  BY TopAssumption DEF Gaps, RangesTyped
<1>2. \A u \in Gaps(R) : u <= top
  <2>1. ASSUME NEW r \in R PROVE r.lower <= top
    <3>1. r.upper \in Int /\ r.lower = r.upper - dec /\ r.upper <= top
      BY DEF RangesTyped, Between
    <3> QED BY <3>1, DecAssumption, TopAssumption
  <2> QED BY <2>1, TopAssumption DEF Gaps
<1>3. \E u \in Gaps(R) : \A v \in Gaps(R) : v <= u
  BY <1>1, <1>2, TopAssumption, Greatest
<1> QED BY <1>3 DEF FirstGap

LEMMA GapIsFree ==
  ASSUME NEW R, RangesTyped(R), NEW b \in Int, Between(R, b), Apart(R), NEW u \in Gaps(R)
  PROVE  /\ u \in Int /\ u <= top /\ R # {} /\ b < u - dec
         /\ \A r \in R : r.upper <= u - dec \/ u <= r.lower
<1>1. u \in Int
  BY TopAssumption DEF Gaps, RangesTyped
<1>2. \A r \in R : r.upper <= u - dec \/ r.upper > u
  BY DEF Gaps, Fits
<1>3. ASSUME NEW r \in R PROVE r.upper <= u - dec \/ u <= r.lower
  <2>1. r.upper \in Int /\ r.lower \in Int /\ r.lower = r.upper - dec /\ r.upper <= top
    BY DEF RangesTyped, Between
  <2>2. CASE u = top
    BY <1>1, <1>2, <2>1, <2>2
  <2>3. CASE \E s \in R : u = s.lower
    <3>1. PICK s \in R : u = s.lower
      BY <2>3
    <3>2. s.upper \in Int /\ s.lower = s.upper - dec
      BY DEF RangesTyped
    <3>3. CASE r = s
      BY <3>1, <3>3, <1>1
    <3>4. CASE r # s
      <4>1. r.upper <= s.lower \/ s.upper <= r.lower
        BY <3>4 DEF Apart
      <4> QED BY <4>1, <3>1, <3>2, <2>1, <1>1, <1>2, DecAssumption
    <3> QED BY <3>3, <3>4
  <2> QED BY <2>2, <2>3 DEF Gaps
<1>4. u <= top
  <2>1. CASE u = top
    BY <2>1, <1>1
  <2>2. CASE \E s \in R : u = s.lower
    <3>1. PICK s \in R : u = s.lower
      BY <2>2
    <3>2. s.upper \in Int /\ s.lower = s.upper - dec /\ s.upper <= top
      BY DEF RangesTyped, Between
    <3> QED BY <3>1, <3>2, DecAssumption, TopAssumption
  <2> QED BY <2>1, <2>2 DEF Gaps
<1>5. R # {} /\ b < u - dec
  <2>1. PICK n \in R : n.upper <= u
    BY DEF Gaps, Fits
  <2>2. n.upper \in Int /\ n.lower = n.upper - dec /\ b <= n.lower
    BY DEF RangesTyped, Between
  <2>3. n.upper <= u - dec
    BY <2>1, <2>2, <1>1, <1>2
  <2> QED BY <2>2, <2>3, <1>1, DecAssumption
<1> QED BY <1>1, <1>3, <1>4, <1>5

(* A new range, in a gap or below the others, keeps the ranges apart.          *)
LEMMA NewRange ==
  ASSUME NEW R, RangesTyped(R), NEW b \in Int, Between(R, b), Apart(R),
         NEW pid, \A r \in R : r.pid # pid,
         NEW u \in Int, u <= top, NEW c \in Int, c <= b, c <= u - dec,
         \A r \in R : r.upper <= u - dec \/ u <= r.lower,
         NEW S, S = R \cup {[pid |-> pid, upper |-> u, lower |-> u - dec]}
  PROVE  RangesTyped(S) /\ Between(S, c) /\ Apart(S)
<1> DEFINE n == [pid |-> pid, upper |-> u, lower |-> u - dec]
<1>1. n.pid = pid /\ n.upper = u /\ n.lower = u - dec /\ u - dec \in Int
  BY DecAssumption
<1>2. S = R \cup {n}
  OBVIOUS
<1> HIDE DEF n
<1>3. RangesTyped(S)
  BY <1>1, <1>2 DEF RangesTyped
<1>4. ASSUME NEW r \in R PROVE c <= r.lower /\ r.upper <= top
  <2>1. r.lower \in Int /\ b <= r.lower /\ r.upper <= top
    BY DEF Between, RangesTyped
  <2> QED BY <2>1
<1>5. Between(S, c)
  BY <1>1, <1>2, <1>4 DEF Between
<1>6. ASSUME NEW r \in S, NEW s \in S, r # s
      PROVE  r.pid # s.pid /\ (r.upper <= s.lower \/ s.upper <= r.lower)
  BY <1>1, <1>2, <1>6 DEF Apart
<1> QED BY <1>3, <1>5, <1>6 DEF Apart

LEMMA GetRangeInv ==
  ASSUME NEW a, AllocInv(a), NEW pid, ~Contains(a, pid)
  PROVE  AllocInv(GetRange(a, pid)) /\ Contains(GetRange(a, pid), pid)
<1> DEFINE R == a.rangeList
           b == a.bottom
<1>1. RangesTyped(R) /\ b \in Int /\ b <= top /\ Between(R, b) /\ Apart(R) /\ b = Lowest(R)
  BY DEF AllocInv
<1>2. \A r \in R : r.pid # pid
  BY DEF Contains
<1>3. CASE Gaps(R) # {}
  <2> DEFINE u == FirstGap(R)
             S == R \cup {[pid |-> pid, upper |-> u, lower |-> u - dec]}
  <2>1. GetRange(a, pid) = [rangeList |-> S, bottom |-> b]
    BY <1>3 DEF GetRange, AllocInv
  <2>2. u \in Gaps(R)
    BY <1>1, <1>3, FirstGapIsGap
  <2>3. /\ u \in Int /\ u <= top /\ R # {} /\ b < u - dec
        /\ \A r \in R : r.upper <= u - dec \/ u <= r.lower
    BY <1>1, <2>2, GapIsFree
  <2> HIDE DEF u
  <2>4. b <= b /\ b <= u - dec
    BY <2>3, <1>1, DecAssumption
  <2>5. RangesTyped(S) /\ Between(S, b) /\ Apart(S)
    <3> HIDE DEF R, b
    <3> QED BY <1>1, <1>2, <2>3, <2>4, NewRange
  <2>6. PICK r \in R : Lowest(R) = r.lower /\ \A s \in R : r.lower <= s.lower
    <3>1. \A s \in R : b <= s.lower
      BY <1>1 DEF Between
    <3> QED BY <1>1, <2>3, <3>1, LowestIsOne
  <2>7. \A s \in S : r.lower <= s.lower
    BY <2>6, <2>4, <1>1
  <2>8. Lowest(S) = b
    BY <2>5, <2>6, <2>7, <1>1, LowestUnique
  <2>9. Contains(GetRange(a, pid), pid)
    <3>1. [pid |-> pid, upper |-> u, lower |-> u - dec] \in GetRange(a, pid).rangeList
      BY <2>1
    <3> QED BY <3>1 DEF Contains
  <2>10. AllocInv([rangeList |-> S, bottom |-> b])
    <3> HIDE DEF S
    <3> QED BY <1>1, <2>5, <2>8 DEF AllocInv
  <2> QED BY <2>1, <2>9, <2>10
<1>4. CASE Gaps(R) = {}
  <2> DEFINE n == [pid |-> pid, upper |-> b, lower |-> b - dec]
             S == R \cup {n}
  <2>1. GetRange(a, pid) = [rangeList |-> S, bottom |-> b - dec]
    BY <1>4 DEF GetRange, AllocInv
  <2>2. b - dec \in Int /\ b - dec <= b /\ b - dec <= b - dec /\ b - dec <= top
    BY <1>1, DecAssumption, TopAssumption
  <2>3. \A r \in R : r.upper <= b - dec \/ b <= r.lower
    BY <1>1 DEF Between
  <2>4. RangesTyped(S) /\ Between(S, b - dec) /\ Apart(S)
    <3> HIDE DEF R, b
    <3> QED BY <1>1, <1>2, <2>2, <2>3, NewRange
  <2>5. n \in S /\ n.lower = b - dec
    OBVIOUS
  <2>6. \A s \in S : n.lower <= s.lower
    BY <2>4, <2>5 DEF Between
  <2>7. Lowest(S) = b - dec
    BY <2>4, <2>5, <2>6, LowestUnique
  <2>8. Contains(GetRange(a, pid), pid)
    <3>1. n \in GetRange(a, pid).rangeList /\ n.pid = pid
      BY <2>1
    <3> QED BY <3>1 DEF Contains
  <2>9. AllocInv([rangeList |-> S, bottom |-> b - dec])
    <3> HIDE DEF S
    <3> QED BY <2>2, <2>4, <2>7 DEF AllocInv
  <2> QED BY <2>1, <2>8, <2>9
<1> QED BY <1>3, <1>4

LEMMA PutRangeInv ==
  ASSUME NEW a, AllocInv(a), NEW pid
  PROVE  AllocInv(PutRange(a, pid))
<1>1. CASE ~Contains(a, pid)
  BY <1>1 DEF PutRange
<1>2. CASE Contains(a, pid)
  <2> DEFINE range == RangeOf(a, pid)
             rest  == a.rangeList \ {range}
             last  == \A r \in rest : r.lower > range.lower
             b     == a.bottom
  <2>1. range \in a.rangeList
    BY <1>2 DEF RangeOf, Contains
  <2>2. RangesTyped(a.rangeList) /\ b \in Int /\ b <= top /\ Between(a.rangeList, b) /\ Apart(a.rangeList)
        /\ b = Lowest(a.rangeList)
    BY DEF AllocInv
  <2>3. RangesTyped(rest) /\ Between(rest, b) /\ Apart(rest)
    BY <2>2 DEF RangesTyped, Between, Apart
  <2>4. PutRange(a, pid) = [rangeList |-> rest, bottom |-> IF last THEN Lowest(rest) ELSE b]
    BY <1>2 DEF PutRange
  <2>5. \A r \in rest : b <= r.lower
    BY <2>3 DEF Between
  <2>6. CASE rest = {}
    <3>1. PutRange(a, pid) = NoRanges
      BY <2>4, <2>6 DEF Lowest, NoRanges
    <3> QED BY <3>1, NoRangesInv
  <2>7. CASE rest # {}
    <3>1. PICK r \in rest : Lowest(rest) = r.lower /\ \A s \in rest : r.lower <= s.lower
      <4> HIDE DEF rest, b
      <4> QED BY <2>2, <2>3, <2>5, <2>7, LowestIsOne
    <3>2. r.lower \in Int /\ r.lower <= top
      <4>1. r.lower \in Int /\ r.upper \in Int /\ r.lower = r.upper - dec /\ r.upper <= top
        BY <2>3 DEF RangesTyped, Between
      <4> QED BY <4>1, DecAssumption, TopAssumption
    <3>3. Between(rest, r.lower)
      BY <2>3, <3>1 DEF Between
    <3>4. CASE last
      <4>1. PutRange(a, pid) = [rangeList |-> rest, bottom |-> Lowest(rest)]
        BY <2>4, <3>4
      <4> HIDE DEF rest
      <4> QED BY <4>1, <3>1, <3>2, <3>3, <2>3 DEF AllocInv
    <3>5. CASE ~last
      <4>1. PutRange(a, pid) = [rangeList |-> rest, bottom |-> b]
        BY <2>4, <3>5
      <4>2. PICK m \in a.rangeList : b = m.lower /\ \A s \in a.rangeList : m.lower <= s.lower
        <5>1. a.rangeList # {} /\ \A s \in a.rangeList : b <= s.lower
          BY <2>1, <2>2 DEF Between
        <5> QED BY <2>2, <5>1, LowestIsOne
      <4>3. m # range
        <5>1. PICK s \in rest : ~(s.lower > range.lower)
          BY <3>5
        <5>2. s \in a.rangeList /\ s # range /\ s.lower \in Int /\ s.upper \in Int /\ s.lower = s.upper - dec
          BY <2>2 DEF RangesTyped
        <5>3. range.lower \in Int /\ range.upper \in Int /\ range.lower = range.upper - dec
          BY <2>1, <2>2 DEF RangesTyped
        <5>4. range.upper <= s.lower \/ s.upper <= range.lower
          BY <2>1, <2>2, <5>2 DEF Apart
        <5>5. s.lower < range.lower
          <6> HIDE DEF range
          <6> QED BY <5>1, <5>2, <5>3, <5>4, DecAssumption
        <5>6. m.lower <= s.lower
          BY <4>2, <5>2
        <5>7. m.lower \in Int
          BY <2>2 DEF RangesTyped
        <5> HIDE DEF range
        <5> QED BY <5>2, <5>3, <5>5, <5>6, <5>7
      <4>4. m \in rest /\ \A s \in rest : m.lower <= s.lower
        BY <4>2, <4>3
      <4>5. Lowest(rest) = b
        <5> HIDE DEF rest, b
        <5> QED BY <2>3, <4>2, <4>4, LowestUnique
      <4> HIDE DEF rest, b
      <4> QED BY <4>1, <4>5, <2>2, <2>3 DEF AllocInv
    <3> QED BY <3>4, <3>5
  <2> QED BY <2>6, <2>7
<1> QED BY <1>1, <1>2

(***************************************************************************)
(* Every step of TaskPlot leaves the allocator as it is, empties it, or     *)
(* gets and puts ranges.                                                    *)
(***************************************************************************)
LEMMA AddTaskGraphInv ==
  ASSUME AllocInv(alloc), NEW pid, NEW tb, AddTaskGraph(pid, tb)
  PROVE  AllocInv(alloc')
<1>1. CASE Contains(alloc, pid)
  BY <1>1 DEF AddTaskGraph
<1>2. CASE ~Contains(alloc, pid)
  <2>1. AllocInv(GetRange(alloc, pid))
    BY <1>2, GetRangeInv
  <2>2. AllocInv(PutRange(GetRange(alloc, pid), pid))
    BY <2>1, PutRangeInv
  <2>3. alloc' = GetRange(alloc, pid) \/ alloc' = PutRange(GetRange(alloc, pid), pid)
    BY <1>2 DEF AddTaskGraph
  <2> QED BY <2>1, <2>2, <2>3
<1> QED BY <1>1, <1>2

LEMMA StepInv ==
  ASSUME AllocInv(alloc), [Next]_vars
  PROVE  AllocInv(alloc')
<1>1. ASSUME NEW pid \in Pids, AddFromDialog(pid) PROVE AllocInv(alloc')
  BY <1>1, AddTaskGraphInv DEF AddFromDialog
<1>2. ASSUME NEW pid \in Pids, AddTaskToLegend(pid) PROVE AllocInv(alloc')
  BY <1>2 DEF AddTaskToLegend
<1>3. ASSUME NEW pid, NEW cpus, SelectTaskByPid(pid, cpus) PROVE AllocInv(alloc')
  BY <1>3 DEF SelectTaskByPid
<1>4. CASE AddTaskGraphTriggered
  BY <1>4, AddTaskGraphInv DEF AddTaskGraphTriggered
<1>5. CASE RemoveTaskGraphTriggered
  BY <1>5, PutRangeInv DEF RemoveTaskGraphTriggered
<1>6. CASE ClearTaskGraphsTriggered
  BY <1>6, NoRangesInv DEF ClearTaskGraphsTriggered
<1>7. ASSUME NEW g, SelectGraph(g) PROVE AllocInv(alloc')
  BY <1>7 DEF SelectGraph
<1>8. CASE DeselectGraph
  BY <1>8 DEF DeselectGraph
<1>9. CASE AddToLegendTriggered \/ ClearLegendTriggered
  BY <1>9 DEF AddToLegendTriggered, ClearLegendTriggered
<1>10. ASSUME NEW e, LegendDoubleClick(e) PROVE AllocInv(alloc')
  BY <1>10 DEF LegendDoubleClick
<1>11. CASE Open \/ Close \/ ConsumeSettings
  BY <1>11, NoRangesInv DEF Open, Close, ConsumeSettings, ClearPlot
<1>12. CASE ChangeSettingsWithoutTrace
  BY <1>12 DEF ChangeSettingsWithoutTrace
<1>13. CASE RestoreTaskGraph
  BY <1>13, AddTaskGraphInv DEF RestoreTaskGraph
<1>14. CASE RestoreLegendAndSelection
  BY <1>14 DEF RestoreLegendAndSelection
<1>15. CASE UNCHANGED vars
  BY <1>15 DEF vars
<1> QED BY <1>1, <1>2, <1>3, <1>4, <1>5, <1>6, <1>7, <1>8, <1>9, <1>10, <1>11, <1>12, <1>13,
           <1>14, <1>15 DEF Next

(* TaskRangeAllocator: whatever the user adds, removes and clears, and however *)
(* often the settings change, no two unified graphs are given the same place. *)
THEOREM RangesDisjointCorrect == Spec => []RangesDisjoint
<1>1. Init => AllocInv(alloc)
  BY NoRangesInv DEF Init
<1>2. AllocInv(alloc) /\ [Next]_vars => AllocInv(alloc')
  BY StepInv
<1>3. AllocInv(alloc) => RangesDisjoint
  BY DEF AllocInv, RangesDisjoint, RangesTyped, Between, Apart
<1> QED
  <2>1. AllocInv(alloc)' <=> AllocInv(alloc')
    BY DEF AllocInv, RangesTyped, Between, Apart, Lowest
  <2> QED BY <1>1, <1>2, <1>3, <2>1, PTL DEF Spec

(***************************************************************************)
(* What getTaskRange() and putTaskRange() do to the ranges of other PIDs.    *)
(***************************************************************************)
LEMMA RangeOfOne ==
  ASSUME NEW a, Apart(a.rangeList), NEW r \in a.rangeList
  PROVE  RangeOf(a, r.pid) = r
<1>1. \A s \in a.rangeList : s.pid = r.pid => s = r
  BY DEF Apart
<1> QED BY <1>1 DEF RangeOf

LEMMA GetRangeAdds ==
  ASSUME NEW a, AllocInv(a), NEW pid, ~Contains(a, pid)
  PROVE  \E n : /\ n.pid = pid /\ n \notin a.rangeList
                /\ GetRange(a, pid).rangeList = a.rangeList \cup {n}
<1>1. a = [rangeList |-> a.rangeList, bottom |-> a.bottom]
  BY DEF AllocInv
<1>2. ASSUME NEW n, n.pid = pid PROVE n \notin a.rangeList
  BY <1>2 DEF Contains
<1>3. CASE Gaps(a.rangeList) # {}
  <2> DEFINE n == [pid |-> pid, upper |-> FirstGap(a.rangeList), lower |-> FirstGap(a.rangeList) - dec]
  <2>1. n.pid = pid
    OBVIOUS
  <2>2. GetRange(a, pid).rangeList = a.rangeList \cup {n}
    BY <1>1, <1>3 DEF GetRange
  <2> HIDE DEF n
  <2> QED BY <1>2, <2>1, <2>2
<1>4. CASE Gaps(a.rangeList) = {}
  <2> DEFINE n == [pid |-> pid, upper |-> a.bottom, lower |-> a.bottom - dec]
  <2>1. n.pid = pid
    OBVIOUS
  <2>2. GetRange(a, pid).rangeList = a.rangeList \cup {n}
    BY <1>4 DEF GetRange
  <2> HIDE DEF n
  <2> QED BY <1>2, <2>1, <2>2
<1> QED BY <1>3, <1>4

LEMMA PutRangeTakes ==
  ASSUME NEW a, AllocInv(a), NEW pid
  PROVE  PutRange(a, pid).rangeList = {r \in a.rangeList : r.pid # pid}
<1>1. CASE ~Contains(a, pid)
  BY <1>1 DEF PutRange, Contains
<1>2. CASE Contains(a, pid)
  <2>1. PICK n \in a.rangeList : n.pid = pid
    BY <1>2 DEF Contains
  <2>2. Apart(a.rangeList)
    BY DEF AllocInv
  <2>3. RangeOf(a, pid) = n
    BY <2>1, <2>2, RangeOfOne
  <2>4. PutRange(a, pid).rangeList = a.rangeList \ {n}
    BY <1>2, <2>3 DEF PutRange
  <2>5. \A r \in a.rangeList : r.pid # pid <=> r # n
    BY <2>1, <2>2 DEF Apart
  <2> QED BY <2>4, <2>5
<1> QED BY <1>1, <1>2

(* A range that is gotten and put again leaves the others as they were.        *)
LEMMA PutBack ==
  ASSUME NEW a, AllocInv(a), NEW pid, ~Contains(a, pid)
  PROVE  PutRange(GetRange(a, pid), pid).rangeList = a.rangeList
<1> DEFINE b == GetRange(a, pid)
<1>1. AllocInv(b)
  BY GetRangeInv
<1>2. PICK n : n.pid = pid /\ b.rangeList = a.rangeList \cup {n}
  BY GetRangeAdds
<1>3. \A r \in a.rangeList : r.pid # pid
  BY DEF Contains
<1> HIDE DEF b
<1>4. PutRange(b, pid).rangeList = {r \in b.rangeList : r.pid # pid}
  BY <1>1, PutRangeTakes
<1>5. {r \in b.rangeList : r.pid # pid} = a.rangeList
  BY <1>2, <1>3
<1> QED BY <1>4, <1>5 DEF b

(* The ranges of other PIDs stay when pid gets one.                            *)
LEMMA OthersKeepRange ==
  ASSUME NEW a, AllocInv(a), NEW pid, ~Contains(a, pid), NEW q, q # pid
  PROVE  /\ Contains(GetRange(a, pid), q) <=> Contains(a, q)
         /\ Contains(a, q) => RangeOf(GetRange(a, pid), q) = RangeOf(a, q)
<1> DEFINE b == GetRange(a, pid)
<1>1. AllocInv(b)
  BY GetRangeInv
<1>2. PICK n : n.pid = pid /\ b.rangeList = a.rangeList \cup {n}
  BY GetRangeAdds
<1> HIDE DEF b
<1>3. Contains(b, q) <=> Contains(a, q)
  BY <1>2 DEF Contains
<1>4. ASSUME Contains(a, q) PROVE RangeOf(b, q) = RangeOf(a, q)
  <2>1. PICK r \in a.rangeList : r.pid = q
    BY <1>4 DEF Contains
  <2>2. Apart(a.rangeList) /\ Apart(b.rangeList) /\ r \in b.rangeList
    BY <1>1, <1>2 DEF AllocInv
  <2> QED BY <2>1, <2>2, RangeOfOne
<1> QED BY <1>3, <1>4 DEF b

(* They stay when pid gives its range back, if they are there.                 *)
LEMMA OthersKeepRangeOnPut ==
  ASSUME NEW a, AllocInv(a), NEW pid, NEW q
  PROVE  /\ Contains(PutRange(a, pid), q) <=> Contains(a, q) /\ q # pid
         /\ Contains(a, q) /\ q # pid => RangeOf(PutRange(a, pid), q) = RangeOf(a, q)
<1> DEFINE b == PutRange(a, pid)
<1>1. AllocInv(b) /\ b.rangeList = {r \in a.rangeList : r.pid # pid}
  BY PutRangeInv, PutRangeTakes
<1> HIDE DEF b
<1>2. Contains(b, q) <=> Contains(a, q) /\ q # pid
  BY <1>1 DEF Contains
<1>3. ASSUME Contains(a, q), q # pid PROVE RangeOf(b, q) = RangeOf(a, q)
  <2>1. PICK r \in a.rangeList : r.pid = q
    BY <1>3 DEF Contains
  <2>2. Apart(a.rangeList) /\ Apart(b.rangeList) /\ r \in b.rangeList
    BY <1>1, <1>3, <2>1 DEF AllocInv
  <2> QED BY <2>1, <2>2, RangeOfOne
<1> QED BY <1>2, <1>3 DEF b

(***************************************************************************)
(* Graphs per CPU.                                                          *)
(***************************************************************************)
LEMMA TaskPids ==
  /\ \A t \in Tasks : t \in Nat /\ t # 0 /\ t # NoTask /\ CPUsOf[t] \subseteq Nat
BY TasksAssumption, CPUsAssumption

LEMMA FirstCPUIsOne ==
  ASSUME NEW t \in Tasks, CPUsOf[t] # {}
  PROVE  FirstCPU(t) \in CPUsOf[t]
<1>1. CPUsOf[t] \subseteq Int /\ \A c \in CPUsOf[t] : 0 <= c
  BY TaskPids
<1>2. \E c \in CPUsOf[t] : \A d \in CPUsOf[t] : c <= d
  BY <1>1, Least
<1> QED BY <1>2 DEF FirstCPU

LEMMA CPUGraphFields ==
  ASSUME NEW t, NEW c
  PROVE  /\ CPUGraph(t, c).kind = "cpu" /\ CPUGraph(t, c).task = t /\ CPUGraph(t, c).cpu = c
         /\ CPUGraph(t, c) # None /\ LegendGraph(CPUGraph(t, c)) = CPUGraph(t, c)
<1>1. CPUGraph(t, c).kind = "cpu" /\ CPUGraph(t, c).task = t /\ CPUGraph(t, c).cpu = c
  BY DEF CPUGraph
<1>2. None.kind = "nullptr"
  BY DEF None
<1> QED BY <1>1, <1>2 DEF LegendGraph

LEMMA CPUGraphLives ==
  ASSUME opened, NEW t \in Tasks, NEW c \in CPUsOf[t]
  PROVE  CPUGraph(t, c) \in LiveCPUGraphs
BY DEF LiveCPUGraphs

LEMMA LiveFields ==
  ASSUME NEW g \in LiveCPUGraphs
  PROVE  /\ opened /\ g.kind = "cpu" /\ g.task \in Tasks /\ g.cpu \in CPUsOf[g.task]
         /\ g # None /\ PidOf(g) # 0 /\ LegendGraph(g) = g
<1>1. opened
  BY DEF LiveCPUGraphs
<1>2. PICK t \in Tasks : \E c \in CPUsOf[t] : g = CPUGraph(t, c)
  BY <1>1 DEF LiveCPUGraphs
<1> QED BY <1>1, <1>2, CPUGraphFields, TaskPids DEF PidOf

LEMMA LiveStay == opened' = opened /\ era' = era => LiveCPUGraphs' = LiveCPUGraphs
BY DEF LiveCPUGraphs, CPUGraph

LEMMA RealTask ==
  ASSUME NEW pid
  PROVE  /\ findRealTask(pid) # NoTask => findRealTask(pid) \in Tasks
         /\ pid \in Tasks => findRealTask(pid) = pid
         /\ \A t \in PlainTasks : findRealTask(pid) = t => pid = t
<1>1. CASE pid \in Tasks
  BY <1>1 DEF findRealTask
<1>2. CASE pid \notin Tasks /\ pid \in Aliases
  BY <1>2, AliasesAssumption DEF findRealTask, PlainTasks
<1>3. CASE pid \notin Tasks /\ pid \notin Aliases
  BY <1>3, TasksAssumption DEF findRealTask, PlainTasks
<1> QED BY <1>1, <1>2, <1>3

(***************************************************************************)
(* The unified graphs.                                                      *)
(***************************************************************************)

(* A graph in the plot belongs to a task and stands in the legend for one of   *)
(* its graphs per CPU; the graph of a task is one of them.                    *)
PlotGraphs ==
  \A g \in plot : /\ g.kind = "unified" /\ g.task \in Tasks
                  /\ g.legend \in LiveCPUGraphs /\ g.legend.task = g.task
TaskGraphs ==
  /\ graph = [t \in Tasks |-> graph[t]]
  /\ \A t \in Tasks : graph[t] # None => graph[t] \in plot /\ graph[t].task = t
PlotInv == AllocInv(alloc) /\ PlotGraphs /\ TaskGraphs /\ GraphsInTheirRanges

LEMMA AllocPrime == AllocInv(alloc)' <=> AllocInv(alloc')
BY DEF AllocInv, RangesTyped, Between, Apart, Lowest

(* What addTaskGraph() does where it does not give up.                         *)
AddsGraph(pid, tb, g) ==
  /\ ~Contains(alloc, pid) /\ alloc' = GetRange(alloc, pid)
  /\ g.kind = "unified" /\ g.task = findRealTask(pid) /\ g.task \in Tasks /\ CPUsOf[g.task] # {}
  /\ g.legend \in LiveCPUGraphs /\ g.legend.task = g.task
  /\ g.lower = RangeOf(alloc', pid).lower
  /\ plot' = plot \cup {g}
  /\ graph' = [graph EXCEPT ![g.task] = g]
  /\ enabled' = UpdateTaskGraphActions(enabled, alloc', tb)

LEMMA AddTaskGraphResult ==
  ASSUME AllocInv(alloc), opened, NEW pid, NEW tb, AddTaskGraph(pid, tb)
  PROVE  \/ alloc'.rangeList = alloc.rangeList /\ UNCHANGED <<plot, graph, enabled>>
         \/ \E g : AddsGraph(pid, tb, g)
<1> DEFINE t   == findRealTask(pid)
           got == GetRange(alloc, pid)
           g   == NewGraph(got, pid)
<1>1. CASE Contains(alloc, pid)
  BY <1>1 DEF AddTaskGraph
<1>2. CASE ~Contains(alloc, pid) /\ ~HasCPUGraph(t)
  <2>1. alloc' = PutRange(got, pid) /\ UNCHANGED <<plot, graph, enabled>>
    BY <1>2 DEF AddTaskGraph
  <2> QED BY <1>2, <2>1, PutBack
<1>3. CASE ~Contains(alloc, pid) /\ HasCPUGraph(t)
  <2>1. t \in Tasks /\ CPUsOf[t] # {}
    BY <1>3, RealTask DEF HasCPUGraph
  <2>2. /\ g.kind = "unified" /\ g.task = t /\ g.legend = CPUGraph(t, FirstCPU(t))
        /\ g.lower = RangeOf(got, pid).lower
    BY DEF NewGraph
  <2>3. g.legend \in LiveCPUGraphs /\ g.legend.task = t
    BY <2>1, <2>2, FirstCPUIsOne, CPUGraphLives, CPUGraphFields
  <2>4. /\ alloc' = got /\ plot' = plot \cup {g} /\ graph' = [graph EXCEPT ![t] = g]
        /\ enabled' = UpdateTaskGraphActions(enabled, got, tb)
    BY <1>3 DEF AddTaskGraph
  <2> HIDE DEF g, got
  <2>5. got = GetRange(alloc, pid)
    BY DEF got
  <2> QED BY <1>3, <2>1, <2>2, <2>3, <2>4, <2>5 DEF AddsGraph
<1> QED BY <1>1, <1>2, <1>3

LEMMA SameRanges ==
  ASSUME NEW a, NEW b, a.rangeList = b.rangeList, NEW q
  PROVE  (Contains(a, q) <=> Contains(b, q)) /\ RangeOf(a, q) = RangeOf(b, q)
BY DEF Contains, RangeOf

LEMMA AddKeepsPlot ==
  ASSUME PlotInv, opened, opened' = opened, era' = era, NEW pid, NEW tb, AddTaskGraph(pid, tb)
  PROVE  PlotInv'
<1>1. AllocInv(alloc) /\ PlotGraphs /\ TaskGraphs /\ GraphsInTheirRanges
  BY DEF PlotInv
<1>2. AllocInv(alloc)' /\ LiveCPUGraphs' = LiveCPUGraphs
  BY <1>1, AddTaskGraphInv, AllocPrime, LiveStay
<1>3. CASE alloc'.rangeList = alloc.rangeList /\ UNCHANGED <<plot, graph, enabled>>
  <2>1. \A q : (Contains(alloc', q) <=> Contains(alloc, q)) /\ RangeOf(alloc', q) = RangeOf(alloc, q)
    BY <1>3, SameRanges
  <2>2. GraphsInTheirRanges'
    BY <1>1, <1>3, <2>1 DEF GraphsInTheirRanges
  <2> QED BY <1>1, <1>2, <1>3, <2>2 DEF PlotInv, PlotGraphs, TaskGraphs
<1>4. ASSUME NEW g, AddsGraph(pid, tb, g) PROVE PlotInv'
  <2> DEFINE u == g.task
  <2>1. /\ ~Contains(alloc, pid) /\ alloc' = GetRange(alloc, pid)
        /\ g.kind = "unified" /\ u = findRealTask(pid) /\ u \in Tasks
        /\ g.legend \in LiveCPUGraphs /\ g.legend.task = u
        /\ g.lower = RangeOf(alloc', pid).lower
        /\ plot' = plot \cup {g} /\ graph' = [graph EXCEPT ![u] = g]
    BY <1>4 DEF AddsGraph
  <2>2. g # None
    BY <2>1 DEF None
  <2>3. PlotGraphs'
    BY <1>1, <1>2, <2>1 DEF PlotGraphs
  <2>4. \A t \in Tasks : graph'[t] = IF t = u THEN g ELSE graph[t]
    BY <1>1, <2>1 DEF TaskGraphs
  <2>5. graph' = [t \in Tasks |-> graph'[t]]
    BY <1>1, <2>1 DEF TaskGraphs
  <2>6. TaskGraphs'
    BY <1>1, <2>1, <2>4, <2>5 DEF TaskGraphs
  <2>7. ASSUME NEW t \in PlainTasks
        PROVE  /\ {h \in plot' : h.task = t} = {graph'[t]} \ {None}
               /\ graph'[t] # None <=> Contains(alloc', t)
               /\ graph'[t] # None => graph'[t].lower = RangeOf(alloc', t).lower
    <3>1. /\ t \in Tasks
          /\ {h \in plot : h.task = t} = {graph[t]} \ {None}
          /\ graph[t] # None <=> Contains(alloc, t)
          /\ graph[t] # None => graph[t].lower = RangeOf(alloc, t).lower
      BY <1>1 DEF GraphsInTheirRanges, PlainTasks
    <3>2. CASE u = t
      <4>1. pid = t
        BY <2>1, <3>2, RealTask DEF PlainTasks
      <4>2. graph[t] = None /\ graph'[t] = g /\ Contains(alloc', t)
        BY <1>1, <2>1, <2>4, <3>1, <3>2, <4>1, GetRangeInv
      <4>3. {h \in plot' : h.task = t} = {g}
        BY <2>1, <3>1, <3>2, <4>2
      <4> QED BY <2>1, <2>2, <4>1, <4>2, <4>3
    <3>3. CASE u # t
      <4>1. pid # t
        BY <2>1, <3>1, <3>3, RealTask
      <4>2. /\ graph'[t] = graph[t]
            /\ Contains(alloc', t) <=> Contains(alloc, t)
            /\ Contains(alloc, t) => RangeOf(alloc', t) = RangeOf(alloc, t)
        BY <1>1, <2>1, <2>4, <3>1, <3>3, <4>1, OthersKeepRange
      <4>3. {h \in plot' : h.task = t} = {h \in plot : h.task = t}
        BY <2>1, <3>3
      <4> QED BY <3>1, <4>2, <4>3
    <3> QED BY <3>2, <3>3
  <2>8. GraphsInTheirRanges'
    BY <2>7 DEF GraphsInTheirRanges, PlainTasks
  <2> QED BY <1>2, <2>3, <2>6, <2>8 DEF PlotInv
<1> QED BY <1>1, <1>3, <1>4, AddTaskGraphResult

(* removeTaskGraph() of the task t of the toolbar.                             *)
LEMMA RemoveKeepsPlot ==
  ASSUME PlotInv, opened' = opened, era' = era, NEW t \in Tasks,
         plot' = plot \ ({graph[t]} \ {None}),
         graph' = [graph EXCEPT ![t] = None],
         alloc' = PutRange(alloc, t)
  PROVE  PlotInv'
<1>1. AllocInv(alloc) /\ PlotGraphs /\ TaskGraphs /\ GraphsInTheirRanges
  BY DEF PlotInv
<1>2. AllocInv(alloc)' /\ LiveCPUGraphs' = LiveCPUGraphs
  BY <1>1, PutRangeInv, AllocPrime, LiveStay
<1>3. \A u \in Tasks : graph'[u] = IF u = t THEN None ELSE graph[u]
  BY <1>1 DEF TaskGraphs
<1>4. PlotGraphs'
  BY <1>1, <1>2 DEF PlotGraphs
<1>5. graph' = [u \in Tasks |-> graph'[u]]
  BY <1>1 DEF TaskGraphs
<1>6. TaskGraphs'
  BY <1>1, <1>3, <1>5 DEF TaskGraphs
<1>7. ASSUME NEW u \in PlainTasks
      PROVE  /\ {h \in plot' : h.task = u} = {graph'[u]} \ {None}
             /\ graph'[u] # None <=> Contains(alloc', u)
             /\ graph'[u] # None => graph'[u].lower = RangeOf(alloc', u).lower
  <2>1. /\ u \in Tasks
        /\ {h \in plot : h.task = u} = {graph[u]} \ {None}
        /\ graph[u] # None <=> Contains(alloc, u)
        /\ graph[u] # None => graph[u].lower = RangeOf(alloc, u).lower
    BY <1>1 DEF GraphsInTheirRanges, PlainTasks
  <2>2. /\ Contains(alloc', u) <=> Contains(alloc, u) /\ u # t
        /\ Contains(alloc, u) /\ u # t => RangeOf(alloc', u) = RangeOf(alloc, u)
    BY <1>1, OthersKeepRangeOnPut
  <2>3. CASE u = t
    <3>1. graph'[u] = None
      BY <1>3, <2>1, <2>3
    <3>2. {h \in plot' : h.task = u} = {}
      BY <2>1, <2>3
    <3> QED BY <2>2, <2>3, <3>1, <3>2
  <2>4. CASE u # t
    <3>1. graph'[u] = graph[u]
      BY <1>3, <2>1, <2>4
    <3>2. graph[t] # None => graph[t].task # u
      BY <1>1, <2>4 DEF TaskGraphs
    <3>3. {h \in plot' : h.task = u} = {h \in plot : h.task = u}
      BY <3>2
    <3> QED BY <2>1, <2>2, <2>4, <3>1, <3>3
  <2> QED BY <2>3, <2>4
<1>8. GraphsInTheirRanges'
  BY <1>7 DEF GraphsInTheirRanges, PlainTasks
<1> QED BY <1>2, <1>4, <1>6, <1>8 DEF PlotInv

(* clearTaskGraphsTriggered().                                                *)
LEMMA ClearKeepsPlot ==
  ASSUME PlotInv, opened' = opened, era' = era, NEW found, found = {t \in Tasks : Contains(alloc, t)},
         plot' = plot \ ({graph[t] : t \in found} \ {None}),
         graph' = [t \in Tasks |-> IF t \in found THEN None ELSE graph[t]],
         alloc' = NoRanges
  PROVE  PlotInv'
<1>1. AllocInv(alloc) /\ PlotGraphs /\ TaskGraphs /\ GraphsInTheirRanges
  BY DEF PlotInv
<1>2. AllocInv(alloc)' /\ LiveCPUGraphs' = LiveCPUGraphs
  BY NoRangesInv, AllocPrime, LiveStay
<1>3. PlotGraphs'
  BY <1>1, <1>2 DEF PlotGraphs
<1>4. \A u \in Tasks : graph'[u] = IF u \in found THEN None ELSE graph[u]
  OBVIOUS
<1>5. graph' = [u \in Tasks |-> graph'[u]]
  OBVIOUS
<1>6. ASSUME NEW u \in Tasks, u \notin found, graph[u] # None
      PROVE  graph[u] \in plot' /\ graph[u].task = u
  <2>1. graph[u] \in plot /\ graph[u].task = u
    BY <1>1, <1>6 DEF TaskGraphs
  <2>2. ASSUME NEW t \in found, graph[t] = graph[u] PROVE FALSE
    <3>1. t \in Tasks /\ graph[t].task = t
      BY <1>1, <1>6, <2>2 DEF TaskGraphs
    <3> QED BY <1>6, <2>1, <2>2, <3>1
  <2> QED BY <2>1, <2>2
<1>7. TaskGraphs'
  BY <1>4, <1>5, <1>6 DEF TaskGraphs
<1>8. ASSUME NEW u \in PlainTasks
      PROVE  /\ {h \in plot' : h.task = u} = {graph'[u]} \ {None}
             /\ ~Contains(alloc', u) /\ graph'[u] = None
  <2>1. /\ u \in Tasks
        /\ {h \in plot : h.task = u} = {graph[u]} \ {None}
        /\ graph[u] # None <=> Contains(alloc, u)
    BY <1>1 DEF GraphsInTheirRanges, PlainTasks
  <2>2. graph'[u] = None
    BY <1>4, <2>1
  <2>3. {h \in plot' : h.task = u} = {}
    <3> SUFFICES ASSUME NEW h \in plot', h.task = u PROVE FALSE
      OBVIOUS
    <3>1. h = graph[u] /\ h # None
      BY <2>1
    <3>2. u \in found
      BY <2>1, <3>1
    <3> QED BY <3>1, <3>2
  <2> QED BY <2>2, <2>3 DEF Contains, NoRanges
<1>9. GraphsInTheirRanges'
  BY <1>8 DEF GraphsInTheirRanges, PlainTasks
<1> QED BY <1>2, <1>3, <1>7, <1>9 DEF PlotInv

LEMMA ClearPlotKeepsPlot ==
  ASSUME ClearPlot
  PROVE  PlotInv'
<1>1. AllocInv(alloc)'
  BY NoRangesInv, AllocPrime DEF ClearPlot
<1> QED BY <1>1 DEF ClearPlot, PlotInv, PlotGraphs, TaskGraphs, GraphsInTheirRanges, PlainTasks, Contains, NoRanges

LEMMA SamePlot ==
  ASSUME PlotInv, UNCHANGED <<opened, era, alloc, plot, graph>>
  PROVE  PlotInv'
<1>1. LiveCPUGraphs' = LiveCPUGraphs
  BY LiveStay
<1>2. AllocInv(alloc)'
  BY AllocPrime DEF PlotInv
<1> QED BY <1>1, <1>2 DEF PlotInv, PlotGraphs, TaskGraphs, GraphsInTheirRanges, Contains, RangeOf

(***************************************************************************)
(* The buttons.                                                             *)
(***************************************************************************)

(* What the slots keep of the enabled buttons e, with the allocator a, the toolbar *)
(* tb, the legend l, and o if the selected graph was removed.                 *)
Buttons(e, a, tb, l, o) ==
  /\ "clear"  \in e <=> a.rangeList # {}
  /\ "remove" \in e <=> tb # None /\ Contains(a, PidOf(tb))
  /\ "add"    \in e <=> tb # None /\ ~Contains(a, PidOf(tb))
  /\ "clearLegend" \in e <=> l # {}
  /\ o \in BOOLEAN
  /\ o = TRUE  => tb = None
  /\ o = FALSE => /\ "task" \in e <=> tb # None
                  /\ "addToLegend" \in e <=> tb # None /\ PidOf(tb) \notin LegendPids(l)

ButtonsInv == settings = Idle => Buttons(enabled, alloc, toolbar, legend, orphaned)

(* The ranges that the slots look at are those of the unified graphs, for a task  *)
(* that no ghost task stands for.                                             *)
LEMMA ButtonsMean ==
  ASSUME GraphsInTheirRanges, ButtonsInv
  PROVE  ButtonsMatch
<1> SUFFICES ASSUME settings = Idle PROVE ButtonsMatch
  BY DEF ButtonsMatch
<1> DEFINE pid  == PidOf(toolbar)
           pids == {r.pid : r \in alloc.rangeList}
<1>1. \A q : Contains(alloc, q) <=> q \in pids
  BY DEF Contains
<1>2. Buttons(enabled, alloc, toolbar, legend, orphaned)
  BY DEF ButtonsInv
<1>3. \A t \in PlainTasks : /\ {g \in plot : g.task = t} = {graph[t]} \ {None}
                           /\ graph[t] # None <=> t \in pids
  BY <1>1 DEF GraphsInTheirRanges
<1>4. ASSUME NEW g \in plot, g.task \in PlainTasks PROVE g.task \in pids
  <2>1. {h \in plot : h.task = g.task} = {graph[g.task]} \ {None}
    BY <1>4 DEF GraphsInTheirRanges
  <2>2. g \in {h \in plot : h.task = g.task}
    OBVIOUS
  <2>3. graph[g.task] # None
    BY <2>1, <2>2
  <2>4. Contains(alloc, g.task)
    BY <1>4, <2>3 DEF GraphsInTheirRanges
  <2> QED BY <1>1, <2>4
<1>5. pids # {} <=> alloc.rangeList # {}
  OBVIOUS
<1>6. ASSUME pids \subseteq PlainTasks, {g.task : g \in plot} \subseteq PlainTasks
      PROVE  pids # {} <=> plot # {}
  <2>1. ASSUME NEW t \in pids PROVE plot # {}
    BY <1>3, <1>6, <2>1
  <2>2. ASSUME NEW g \in plot PROVE pids # {}
    <3>1. g.task \in PlainTasks
      BY <1>6
    <3>2. g.task \in pids
      BY <1>4, <3>1
    <3> HIDE DEF pids
    <3> QED BY <3>2
  <2> QED BY <2>1, <2>2
<1>7. pid \in PlainTasks => toolbar # None
  BY TasksAssumption DEF PlainTasks, PidOf, None
<1>8. /\ "remove" \in enabled <=> toolbar # None /\ pid \in pids
      /\ "add"    \in enabled <=> toolbar # None /\ pid \notin pids
      /\ "clear"  \in enabled <=> pids # {}
  BY <1>1, <1>2, <1>5 DEF Buttons
<1>9. pid \in PlainTasks => /\ "remove" \in enabled <=> graph[pid] # None
                          /\ "add"    \in enabled <=> graph[pid] = None
  BY <1>3, <1>7, <1>8
<1>10. /\ "clearLegend" \in enabled <=> legend # {}
       /\ orphaned => toolbar = None
       /\ ~orphaned => /\ "task" \in enabled <=> toolbar # None
                       /\ "addToLegend" \in enabled <=> toolbar # None /\ pid \notin LegendPids(legend)
  BY <1>2 DEF Buttons
<1>11. pids \subseteq PlainTasks /\ {g.task : g \in plot} \subseteq PlainTasks =>
         ("clear" \in enabled <=> plot # {})
  <2> HIDE DEF pids
  <2> QED BY <1>6, <1>8
<1> QED BY <1>8, <1>9, <1>10, <1>11 DEF ButtonsMatch

(* A task in the toolbar has a PID.                                           *)
HasPid(tb) == tb # None => PidOf(tb) # 0

LEMMA NonePid == PidOf(None) = 0
BY DEF None, PidOf

LEMMA UpdatedActions ==
  ASSUME NEW e, NEW a, NEW tb, HasPid(tb), NEW f, f = UpdateTaskGraphActions(e, a, tb)
  PROVE  /\ "clear"  \in f <=> a.rangeList # {}
         /\ "remove" \in f <=> tb # None /\ Contains(a, PidOf(tb))
         /\ "add"    \in f <=> tb # None /\ ~Contains(a, PidOf(tb))
         /\ "clearLegend" \in f <=> "clearLegend" \in e
         /\ "task"        \in f <=> "task" \in e
         /\ "addToLegend" \in f <=> "addToLegend" \in e
<1>1. PidOf(tb) = 0 <=> tb = None
  BY NonePid DEF HasPid
<1> QED BY <1>1 DEF UpdateTaskGraphActions

LEMMA UpdatedAddToLegend ==
  ASSUME NEW e, NEW tb, NEW l, HasPid(tb), NEW f, f = UpdateAddToLegend(e, tb, l)
  PROVE  /\ "addToLegend" \in f <=> tb # None /\ PidOf(tb) \notin LegendPids(l)
         /\ \A x \in {"clear", "remove", "add", "clearLegend", "task"} : x \in f <=> x \in e
<1>1. PidOf(tb) = 0 <=> tb = None
  BY NonePid DEF HasPid
<1> QED BY <1>1 DEF UpdateAddToLegend

(* The ranges changed, and the toolbar is the same or has lost its graph.       *)
LEMMA ButtonsAfterRanges ==
  ASSUME NEW e, NEW a, NEW b, NEW tb, NEW l, NEW o, Buttons(e, a, tb, l, o), HasPid(tb),
         NEW ub, NEW p, (ub = tb /\ p = o) \/ (ub = None /\ p = TRUE)
  PROVE  Buttons(UpdateTaskGraphActions(e, b, ub), b, ub, l, p)
<1> DEFINE f == UpdateTaskGraphActions(e, b, ub)
<1>1. HasPid(ub)
  BY DEF HasPid
<1>2. /\ "clear"  \in f <=> b.rangeList # {}
      /\ "remove" \in f <=> ub # None /\ Contains(b, PidOf(ub))
      /\ "add"    \in f <=> ub # None /\ ~Contains(b, PidOf(ub))
      /\ "clearLegend" \in f <=> "clearLegend" \in e
      /\ "task"        \in f <=> "task" \in e
      /\ "addToLegend" \in f <=> "addToLegend" \in e
  BY <1>1, UpdatedActions
<1> HIDE DEF f
<1>3. ASSUME ub = tb /\ p = o PROVE Buttons(f, b, ub, l, p)
  BY <1>2, <1>3 DEF Buttons
<1>4. ASSUME ub = None /\ p = TRUE PROVE Buttons(f, b, ub, l, p)
  BY <1>2, <1>4 DEF Buttons
<1>5. Buttons(f, b, ub, l, p)
  BY <1>3, <1>4
<1> QED BY <1>5 DEF f

(* The legend changed.                                                        *)
LEMMA ButtonsAfterLegend ==
  ASSUME NEW e, NEW a, NEW tb, NEW l, NEW o, Buttons(e, a, tb, l, o), NEW m, HasPid(tb)
  PROVE  Buttons(UpdateAddToLegend(LegendEmptyChanged(e, m), tb, m), a, tb, m, o)
<1> DEFINE d == LegendEmptyChanged(e, m)
           f == UpdateAddToLegend(d, tb, m)
<1>1. /\ "clearLegend" \in d <=> m # {}
      /\ \A x \in {"clear", "remove", "add", "task"} : x \in d <=> x \in e
  BY DEF LegendEmptyChanged
<1> HIDE DEF d
<1>2. /\ "addToLegend" \in f <=> tb # None /\ PidOf(tb) \notin LegendPids(m)
      /\ \A x \in {"clear", "remove", "add", "clearLegend", "task"} : x \in f <=> x \in d
  BY UpdatedAddToLegend
<1> HIDE DEF f
<1>3. Buttons(f, a, tb, m, o)
  BY <1>1, <1>2 DEF Buttons
<1> QED BY <1>3 DEF f, d

(* A graph was selected, or none.                                             *)
LEMMA ButtonsAfterSelection ==
  ASSUME NEW g, NEW e, NEW l, "clearLegend" \in e <=> l # {},
         HasPid(LegendGraph(g)), g = None <=> LegendGraph(g) = None
  PROVE  Buttons(ButtonsFor(g, e, l), alloc, LegendGraph(g), l, FALSE)
<1> DEFINE tb == LegendGraph(g)
           c  == SetTaskActions(e, g # None)
           d  == UpdateTaskGraphActions(c, alloc, tb)
           f  == UpdateAddToLegend(d, tb, l)
<1>1. ("clearLegend" \in c <=> l # {}) /\ ("task" \in c <=> tb # None)
  BY DEF SetTaskActions
<1>2. f = ButtonsFor(g, e, l)
  BY DEF ButtonsFor
<1> HIDE DEF tb, c
<1>3. HasPid(tb)
  BY DEF tb
<1>4. /\ "clear"  \in d <=> alloc.rangeList # {}
      /\ "remove" \in d <=> tb # None /\ Contains(alloc, PidOf(tb))
      /\ "add"    \in d <=> tb # None /\ ~Contains(alloc, PidOf(tb))
      /\ "clearLegend" \in d <=> "clearLegend" \in c
      /\ "task" \in d <=> "task" \in c
  BY <1>3, UpdatedActions
<1> HIDE DEF d
<1>5. /\ "addToLegend" \in f <=> tb # None /\ PidOf(tb) \notin LegendPids(l)
      /\ \A x \in {"clear", "remove", "add", "clearLegend", "task"} : x \in f <=> x \in d
  BY <1>3, UpdatedAddToLegend
<1> HIDE DEF f
<1>6. Buttons(f, alloc, tb, l, FALSE)
  BY <1>1, <1>4, <1>5 DEF Buttons
<1> QED BY <1>2, <1>6 DEF tb

(***************************************************************************)
(* The invariant.                                                           *)
(***************************************************************************)

(* What the toolbar, the selection and the legend refer to: one task, unless the *)
(* graphs per CPU are hidden; without a trace, and while consumeSettings()     *)
(* runs, there is nothing in them.                                            *)
UserInv ==
  /\ toolbar = None \/ toolbar \in LiveCPUGraphs
  /\ selected = None \/ selected \in plot \cup LiveCPUGraphs
  /\ selected # None => toolbar # None /\ toolbar.task = selected.task
  /\ selected = None /\ toolbar # None => ~shown
  /\ \A e \in legend : e.graph \in LiveCPUGraphs /\ e.pid = e.graph.task
  /\ \A e, f \in legend : e.pid = f.pid => e = f
  /\ ~opened => settings = Idle /\ toolbar = None /\ legend = {} /\ selected = None /\ enabled = {}
  /\ settings # Idle => settings.at = "graphs" /\ toolbar = None /\ legend = {} /\ selected = None

(* What consumeSettings() remembers can be restored, and what it has restored   *)
(* so far are graphs of it.                                                   *)
Restoring ==
  settings # Idle =>
    /\ \A t \in settings.legend : t \in Tasks /\ CPUsOf[t] # {}
    /\ \/ settings.selected = None
       \/ /\ settings.selected.task \in Tasks
          /\ \/ settings.selected.kind = "unified" /\ CPUsOf[settings.selected.task] # {}
             \/ /\ settings.selected.kind = "cpu"
                /\ settings.selected.cpu \in CPUsOf[settings.selected.task]
    /\ settings.selected # None => settings.task = settings.selected.task
    /\ settings.selected = None /\ settings.task # 0 => settings.hidden
    /\ \A t \in PlainTasks : t \in settings.drawn <=> \E r \in settings.graphs : r.pid = t
    /\ \A r \in alloc.rangeList : \E s \in settings.graphs : s.pid = r.pid
    /\ {g.task : g \in plot} = {findRealTask(r.pid) : r \in alloc.rangeList}

TaskPlotInv == PlotInv /\ UserInv /\ ButtonsInv /\ Restoring

LEMMA InitTaskPlotInv == Init => TaskPlotInv
<1> SUFFICES ASSUME Init PROVE TaskPlotInv
  OBVIOUS
<1>1. PlotInv
  BY NoRangesInv DEF Init, PlotInv, PlotGraphs, TaskGraphs, GraphsInTheirRanges, PlainTasks, Contains, NoRanges
<1>2. UserInv /\ Restoring
  BY DEF Init, UserInv, Restoring
<1>3. ButtonsInv
  BY DEF Init, ButtonsInv, Buttons, NoRanges
<1> QED BY <1>1, <1>2, <1>3 DEF TaskPlotInv

LEMMA ToolbarHasPid ==
  ASSUME UserInv
  PROVE  HasPid(toolbar)
BY LiveFields DEF UserInv, HasPid

(* addTaskGraph() for a row of a dialog or the button.                         *)
LEMMA AddStep ==
  ASSUME TaskPlotInv, Ready, NEW pid, AddTaskGraph(pid, toolbar),
         UNCHANGED <<opened, shown, era, selected, toolbar, legend, settings, orphaned>>
  PROVE  TaskPlotInv'
<1>1. PlotInv /\ UserInv /\ ButtonsInv /\ opened /\ settings = Idle /\ AllocInv(alloc)
  BY DEF TaskPlotInv, Ready, PlotInv
<1>2. PlotInv' /\ LiveCPUGraphs' = LiveCPUGraphs
  BY <1>1, AddKeepsPlot, LiveStay
<1>3. \/ alloc'.rangeList = alloc.rangeList /\ UNCHANGED <<plot, graph, enabled>>
      \/ \E g : AddsGraph(pid, toolbar, g)
  BY <1>1, AddTaskGraphResult
<1>4. plot \subseteq plot'
  BY <1>3 DEF AddsGraph
<1>5. UserInv'
  BY <1>1, <1>2, <1>4 DEF UserInv
<1>6. Buttons(enabled, alloc, toolbar, legend, orphaned)
  BY <1>1 DEF ButtonsInv
<1>7. Buttons(enabled', alloc', toolbar, legend, orphaned)
  <2>1. CASE alloc'.rangeList = alloc.rangeList /\ UNCHANGED <<plot, graph, enabled>>
    BY <1>6, <2>1 DEF Buttons, Contains
  <2>2. CASE \E g : AddsGraph(pid, toolbar, g)
    <3>1. enabled' = UpdateTaskGraphActions(enabled, alloc', toolbar)
      BY <2>2 DEF AddsGraph
    <3>2. HasPid(toolbar)
      BY <1>1, ToolbarHasPid
    <3> QED BY <1>6, <3>1, <3>2, ButtonsAfterRanges
  <2> QED BY <1>3, <2>1, <2>2
<1>8. ButtonsInv'
  BY <1>7 DEF ButtonsInv
<1>9. Restoring'
  BY <1>1 DEF Restoring
<1> QED BY <1>2, <1>5, <1>8, <1>9 DEF TaskPlotInv

(* The graphs gone leave the plot.                                            *)
LEMMA GraphsGo ==
  ASSUME TaskPlotInv, Ready, PlotInv', NEW gone, plot' = plot \ gone,
         selected' = IF selected \in gone THEN None ELSE selected,
         toolbar' = ToolbarWithout(gone), orphaned' = IF TakesSelected(gone) THEN TRUE ELSE orphaned,
         enabled' = UpdateTaskGraphActions(enabled, alloc', ToolbarWithout(gone)),
         UNCHANGED <<opened, shown, era, legend, settings>>
  PROVE  TaskPlotInv'
<1>1. UserInv /\ ButtonsInv /\ opened /\ settings = Idle
  BY DEF TaskPlotInv, Ready
<1>2. LiveCPUGraphs' = LiveCPUGraphs /\ toolbar' \in {toolbar, None}
  BY LiveStay DEF ToolbarWithout
<1>3. \/ ~TakesSelected(gone) /\ UNCHANGED <<toolbar, orphaned>>
      \/ toolbar' = None /\ orphaned' = TRUE /\ selected' = None
  BY DEF ToolbarWithout, TakesSelected
<1>4. UserInv'
  <2>1. CASE toolbar' = None /\ selected' = None
    BY <1>1, <1>2, <2>1 DEF UserInv
  <2>2. CASE ~TakesSelected(gone) /\ UNCHANGED toolbar
    <3>1. PidOf(toolbar) = toolbar.task /\ (selected # None => selected' = selected)
      BY <1>1, <2>2 DEF TakesSelected, PidOf, UserInv
    <3>2. selected' = selected
      BY <3>1
    <3> QED BY <1>1, <1>2, <2>2, <3>2 DEF UserInv, TakesSelected
  <2> QED BY <1>3, <2>1, <2>2
<1>5. Buttons(enabled, alloc, toolbar, legend, orphaned) /\ HasPid(toolbar)
  BY <1>1, ToolbarHasPid DEF ButtonsInv
<1>6. Buttons(enabled', alloc', toolbar', legend, orphaned')
  BY <1>3, <1>5, ButtonsAfterRanges
<1>7. ButtonsInv'
  BY <1>6 DEF ButtonsInv
<1>8. Restoring'
  BY <1>1 DEF Restoring
<1> QED BY <1>4, <1>7, <1>8 DEF TaskPlotInv

LEMMA RemoveStep ==
  ASSUME TaskPlotInv, RemoveTaskGraphTriggered
  PROVE  TaskPlotInv'
<1>1. PlotInv /\ UserInv /\ ButtonsInv /\ opened /\ settings = Idle /\ "remove" \in enabled
  BY DEF TaskPlotInv, RemoveTaskGraphTriggered, Ready
<1> DEFINE t    == findRealTask(PidOf(toolbar))
           gone == {graph[t]} \ {None}
<1>2. t \in Tasks
  <2>1. toolbar \in LiveCPUGraphs
    BY <1>1 DEF ButtonsInv, Buttons, UserInv
  <2> QED BY <2>1, LiveFields, RealTask DEF PidOf
<1>3. /\ plot' = plot \ gone /\ graph' = [graph EXCEPT ![t] = None]
      /\ selected' = IF selected \in gone THEN None ELSE selected
      /\ toolbar' = ToolbarWithout(gone) /\ orphaned' = IF TakesSelected(gone) THEN TRUE ELSE orphaned
      /\ alloc' = PutRange(alloc, t)
      /\ enabled' = UpdateTaskGraphActions(enabled, alloc', ToolbarWithout(gone))
      /\ UNCHANGED <<opened, shown, era, legend, settings>>
  BY DEF RemoveTaskGraphTriggered
<1>4. PlotInv'
  <2> HIDE DEF t
  <2> QED BY <1>1, <1>2, <1>3, RemoveKeepsPlot
<1>5. Ready
  BY DEF RemoveTaskGraphTriggered
<1> HIDE DEF gone
<1> QED BY <1>3, <1>4, <1>5, GraphsGo

LEMMA ClearStep ==
  ASSUME TaskPlotInv, ClearTaskGraphsTriggered
  PROVE  TaskPlotInv'
<1> DEFINE found == {t \in Tasks : Contains(alloc, t)}
           gone  == {graph[t] : t \in found} \ {None}
<1>1. PlotInv /\ Ready
  BY DEF TaskPlotInv, ClearTaskGraphsTriggered
<1>2. /\ plot' = plot \ gone
      /\ graph' = [t \in Tasks |-> IF t \in found THEN None ELSE graph[t]]
      /\ selected' = IF selected \in gone THEN None ELSE selected
      /\ toolbar' = ToolbarWithout(gone) /\ orphaned' = IF TakesSelected(gone) THEN TRUE ELSE orphaned
      /\ alloc' = NoRanges
      /\ enabled' = UpdateTaskGraphActions(enabled, alloc', ToolbarWithout(gone))
      /\ UNCHANGED <<opened, shown, era, legend, settings>>
  BY DEF ClearTaskGraphsTriggered
<1>3. PlotInv'
  BY <1>1, <1>2, ClearKeepsPlot
<1> HIDE DEF gone
<1> QED BY <1>1, <1>2, <1>3, GraphsGo

(* The legend of UserInv.                                                     *)
LegendInv ==
  /\ \A e \in legend : e.graph \in LiveCPUGraphs /\ e.pid = e.graph.task
  /\ \A e, f \in legend : e.pid = f.pid => e = f

(* A unified graph stands in the toolbar for a graph per CPU of its task.       *)
LEMMA ToolbarGraph ==
  ASSUME PlotGraphs, NEW g \in plot \cup LiveCPUGraphs
  PROVE  LegendGraph(g) \in LiveCPUGraphs /\ LegendGraph(g).task = g.task /\ g # None
<1>1. CASE g \in plot
  <2>1. g.kind = "unified" /\ g.legend \in LiveCPUGraphs /\ g.legend.task = g.task
    BY <1>1 DEF PlotGraphs
  <2> QED BY <2>1 DEF LegendGraph, None
<1>2. CASE g \in LiveCPUGraphs
  BY <1>2, LiveFields
<1> QED BY <1>1, <1>2

(* A graph g is selected, or none, when the legend is l.                        *)
LEMMA SelectionStep ==
  ASSUME PlotInv, opened, NEW g, g = None \/ g \in plot \cup LiveCPUGraphs,
         NEW e, NEW l, legend' = l, "clearLegend" \in e <=> l # {}, SelectTask(g, e, l),
         LegendInv', settings' = Idle, UNCHANGED <<opened, shown, era, alloc, plot, graph>>
  PROVE  TaskPlotInv'
<1>1. PlotInv' /\ LiveCPUGraphs' = LiveCPUGraphs /\ PlotGraphs
  BY SamePlot, LiveStay DEF PlotInv
<1> DEFINE tb == LegendGraph(g)
<1>2. /\ g = None <=> tb = None
      /\ tb = None \/ tb \in LiveCPUGraphs
  <2>1. LegendGraph(None) = None
    BY DEF LegendGraph, None
  <2>2. \A h \in LiveCPUGraphs : h # None
    BY LiveFields
  <2> QED BY <1>1, <2>1, <2>2, ToolbarGraph
<1>3. /\ selected' = IF Selectable(g) THEN g ELSE None
      /\ toolbar' = tb /\ enabled' = ButtonsFor(g, e, l) /\ orphaned' = FALSE
  BY DEF SelectTask
<1>4. HasPid(tb)
  BY <1>2, LiveFields DEF HasPid
<1>5. Buttons(ButtonsFor(g, e, l), alloc, tb, l, FALSE)
  BY <1>2, <1>4, ButtonsAfterSelection
<1>6. g # None => tb.task = g.task /\ (~Selectable(g) => ~shown)
  BY <1>1, ToolbarGraph DEF Selectable
<1> HIDE DEF tb
<1>7. UserInv'
  BY <1>1, <1>2, <1>3, <1>6 DEF UserInv, LegendInv
<1>8. Buttons(enabled', alloc', toolbar', legend', orphaned')
  BY <1>3, <1>5
<1>9. ButtonsInv'
  BY <1>8 DEF ButtonsInv
<1>10. Restoring'
  BY DEF Restoring
<1> QED BY <1>1, <1>7, <1>9, <1>10 DEF TaskPlotInv

LEMMA LegendStays ==
  ASSUME UserInv, UNCHANGED <<opened, era, legend>>
  PROVE  LegendInv'
BY LiveStay DEF UserInv, LegendInv

(* What selectTaskByPid() comes to.                                            *)
LEMMA ChoicesExist ==
  ASSUME TaskGraphs, opened, NEW pid, NEW tryUnified, NEW cpus, NEW g \in Choices(pid, tryUnified, cpus)
  PROVE  g = None \/ (g \in plot \cup LiveCPUGraphs /\ g.task = findRealTask(pid))
<1> DEFINE t == findRealTask(pid)
<1>1. CASE t = NoTask
  BY <1>1 DEF Choices
<1>2. CASE t # NoTask /\ tryUnified /\ graph[t] # None
  BY <1>2, RealTask DEF Choices, TaskGraphs
<1>3. CASE t # NoTask /\ ~(tryUnified /\ graph[t] # None)
  <2>1. t \in Tasks
    BY <1>3, RealTask
  <2>2. g = None \/ \E c \in CPUsOf[t] : g = CPUGraph(t, c)
    BY <1>3 DEF Choices
  <2> HIDE DEF t
  <2>3. \A c \in CPUsOf[t] : CPUGraph(t, c) \in LiveCPUGraphs /\ CPUGraph(t, c).task = t
    BY <2>1, CPUGraphLives, CPUGraphFields
  <2> QED BY <2>2, <2>3 DEF t
<1> QED BY <1>1, <1>2, <1>3

LEMMA SelectGraphStep ==
  ASSUME TaskPlotInv, NEW g \in plot \cup LiveCPUGraphs, SelectGraph(g)
  PROVE  TaskPlotInv'
<1>1. PlotInv /\ UserInv /\ ButtonsInv /\ opened /\ settings = Idle
  BY DEF TaskPlotInv, SelectGraph, Ready
<1>2. SelectTask(g, enabled, legend) /\ UNCHANGED <<opened, shown, era, alloc, plot, graph, legend, settings>>
  BY DEF SelectGraph
<1>3. LegendInv' /\ ("clearLegend" \in enabled <=> legend # {})
  BY <1>1, <1>2, LegendStays DEF ButtonsInv, Buttons
<1> QED BY <1>1, <1>2, <1>3, SelectionStep

LEMMA SelectTaskByPidStep ==
  ASSUME TaskPlotInv, NEW pid, NEW cpus, SelectTaskByPid(pid, cpus)
  PROVE  TaskPlotInv'
<1>1. PlotInv /\ UserInv /\ ButtonsInv /\ opened /\ settings = Idle /\ TaskGraphs
  BY DEF TaskPlotInv, SelectTaskByPid, Ready, PlotInv
<1>2. PICK g \in Choices(pid, TRUE, cpus) : SelectTask(g, enabled, legend)
  BY DEF SelectTaskByPid
<1>3. UNCHANGED <<opened, shown, era, alloc, plot, graph, legend, settings>>
  BY DEF SelectTaskByPid
<1>4. LegendInv' /\ ("clearLegend" \in enabled <=> legend # {})
  BY <1>1, <1>3, LegendStays DEF ButtonsInv, Buttons
<1>5. g = None \/ g \in plot \cup LiveCPUGraphs
  BY <1>1, <1>2, ChoicesExist
<1> QED BY <1>1, <1>2, <1>3, <1>4, <1>5, SelectionStep

LEMMA DeselectStep ==
  ASSUME TaskPlotInv, DeselectGraph
  PROVE  TaskPlotInv'
<1>1. PlotInv /\ UserInv /\ ButtonsInv /\ opened /\ settings = Idle
  BY DEF TaskPlotInv, DeselectGraph, Ready
<1>2. /\ selected' = None /\ toolbar' = None /\ orphaned' = FALSE
      /\ enabled' = enabled \ {"task", "remove", "add", "addToLegend"}
      /\ UNCHANGED <<opened, shown, era, alloc, plot, graph, legend, settings>>
  BY DEF DeselectGraph
<1>3. PlotInv' /\ LiveCPUGraphs' = LiveCPUGraphs
  BY <1>1, <1>2, SamePlot, LiveStay
<1>4. UserInv'
  BY <1>1, <1>2, <1>3 DEF UserInv
<1>5. ButtonsInv'
  BY <1>1, <1>2 DEF ButtonsInv, Buttons, None
<1>6. Restoring'
  BY <1>1, <1>2 DEF Restoring
<1> QED BY <1>3, <1>4, <1>5, <1>6 DEF TaskPlotInv

(* The legend is m, and nothing else changed but the buttons.                   *)
LEMMA LegendStep ==
  ASSUME TaskPlotInv, Ready, NEW m, legend' = m,
         \A e \in m : e.graph \in LiveCPUGraphs /\ e.pid = e.graph.task,
         \A e, f \in m : e.pid = f.pid => e = f,
         enabled' = UpdateAddToLegend(LegendEmptyChanged(enabled, m), toolbar, m),
         UNCHANGED <<opened, shown, era, alloc, plot, graph, selected, toolbar, settings, orphaned>>
  PROVE  TaskPlotInv'
<1>1. PlotInv /\ UserInv /\ ButtonsInv /\ opened /\ settings = Idle
  BY DEF TaskPlotInv, Ready
<1>2. PlotInv' /\ LiveCPUGraphs' = LiveCPUGraphs
  BY <1>1, SamePlot, LiveStay
<1>3. UserInv'
  BY <1>1, <1>2 DEF UserInv
<1>4. Buttons(enabled, alloc, toolbar, legend, orphaned) /\ HasPid(toolbar)
  BY <1>1, ToolbarHasPid DEF ButtonsInv
<1>5. Buttons(enabled', alloc, toolbar, m, orphaned)
  BY <1>4, ButtonsAfterLegend
<1>6. ButtonsInv'
  BY <1>5 DEF ButtonsInv
<1>7. Restoring'
  BY <1>1 DEF Restoring
<1> QED BY <1>2, <1>3, <1>6, <1>7 DEF TaskPlotInv

LEMMA InLegendUnique ==
  ASSUME LegendInv, NEW g \in LiveCPUGraphs, NEW m, m = InLegend(legend, g)
  PROVE  /\ \A e \in m : e.graph \in LiveCPUGraphs /\ e.pid = e.graph.task
         /\ \A e, f \in m : e.pid = f.pid => e = f
<1>1. CASE g.task \in LegendPids(legend)
  BY <1>1 DEF InLegend, LegendInv
<1>2. CASE g.task \notin LegendPids(legend)
  <2> DEFINE n == [pid |-> g.task, graph |-> g]
  <2>1. m = legend \cup {n} /\ n.pid = g.task /\ n.graph = g
    BY <1>2 DEF InLegend
  <2>2. \A e \in legend : e.pid # n.pid
    BY <1>2 DEF LegendPids
  <2> HIDE DEF n
  <2> QED BY <2>1, <2>2 DEF LegendInv
<1> QED BY <1>1, <1>2

LEMMA AddToLegendStep ==
  ASSUME TaskPlotInv, AddToLegendTriggered
  PROVE  TaskPlotInv'
<1>1. Ready /\ UserInv /\ LegendInv
  BY DEF TaskPlotInv, AddToLegendTriggered, UserInv, LegendInv
<1>2. /\ legend' = IF toolbar = None THEN legend ELSE InLegend(legend, toolbar)
      /\ enabled' = UpdateAddToLegend(LegendEmptyChanged(enabled, legend'), toolbar, legend')
      /\ UNCHANGED <<opened, shown, era, alloc, plot, graph, selected, toolbar, settings, orphaned>>
  BY DEF AddToLegendTriggered
<1>3. /\ \A e \in legend' : e.graph \in LiveCPUGraphs /\ e.pid = e.graph.task
      /\ \A e, f \in legend' : e.pid = f.pid => e = f
  <2>1. CASE toolbar = None
    BY <1>1, <1>2, <2>1 DEF LegendInv
  <2>2. CASE toolbar # None
    <3>1. toolbar \in LiveCPUGraphs /\ legend' = InLegend(legend, toolbar)
      BY <1>1, <1>2, <2>2 DEF UserInv
    <3> QED BY <1>1, <3>1, InLegendUnique
  <2> QED BY <2>1, <2>2
<1> QED BY <1>1, <1>2, <1>3, LegendStep

LEMMA AddTaskToLegendStep ==
  ASSUME TaskPlotInv, NEW pid, AddTaskToLegend(pid)
  PROVE  TaskPlotInv'
<1> DEFINE t == findRealTask(pid)
<1>1. Ready /\ opened /\ LegendInv
  BY DEF TaskPlotInv, AddTaskToLegend, Ready, UserInv, LegendInv
<1>2. /\ legend' = IF HasCPUGraph(t) THEN InLegend(legend, CPUGraph(t, FirstCPU(t))) ELSE legend
      /\ enabled' = UpdateAddToLegend(LegendEmptyChanged(enabled, legend'), toolbar, legend')
      /\ UNCHANGED <<opened, shown, era, alloc, plot, graph, selected, toolbar, settings, orphaned>>
  BY DEF AddTaskToLegend
<1>3. /\ \A e \in legend' : e.graph \in LiveCPUGraphs /\ e.pid = e.graph.task
      /\ \A e, f \in legend' : e.pid = f.pid => e = f
  <2>1. CASE ~HasCPUGraph(t)
    BY <1>1, <1>2, <2>1 DEF LegendInv
  <2>2. CASE HasCPUGraph(t)
    <3>1. t \in Tasks /\ CPUsOf[t] # {}
      BY <2>2, RealTask DEF HasCPUGraph
    <3> DEFINE g == CPUGraph(t, FirstCPU(t))
    <3>2. g \in LiveCPUGraphs
      BY <1>1, <3>1, FirstCPUIsOne, CPUGraphLives
    <3>3. legend' = InLegend(legend, g)
      BY <1>2, <2>2
    <3> HIDE DEF g
    <3> QED BY <1>1, <3>2, <3>3, InLegendUnique
  <2> QED BY <2>1, <2>2
<1> QED BY <1>1, <1>2, <1>3, LegendStep

LEMMA DoubleClickStep ==
  ASSUME TaskPlotInv, NEW e \in legend, LegendDoubleClick(e)
  PROVE  TaskPlotInv'
<1>1. Ready /\ UserInv
  BY DEF TaskPlotInv, LegendDoubleClick
<1>2. /\ legend' = {f \in legend : f.pid # e.graph.task}
      /\ enabled' = UpdateAddToLegend(LegendEmptyChanged(enabled, legend'), toolbar, legend')
      /\ UNCHANGED <<opened, shown, era, alloc, plot, graph, selected, toolbar, settings, orphaned>>
  BY DEF LegendDoubleClick
<1>3. /\ \A d \in legend' : d.graph \in LiveCPUGraphs /\ d.pid = d.graph.task
      /\ \A d, f \in legend' : d.pid = f.pid => d = f
  BY <1>1, <1>2 DEF UserInv
<1> QED BY <1>1, <1>2, <1>3, LegendStep

LEMMA ClearLegendStep ==
  ASSUME TaskPlotInv, ClearLegendTriggered
  PROVE  TaskPlotInv'
<1>1. Ready
  BY DEF ClearLegendTriggered
<1>2. /\ legend' = {}
      /\ enabled' = UpdateAddToLegend(LegendEmptyChanged(enabled, {}), toolbar, {})
      /\ UNCHANGED <<opened, shown, era, alloc, plot, graph, selected, toolbar, settings, orphaned>>
  BY DEF ClearLegendTriggered
<1> QED BY <1>1, <1>2, LegendStep

(***************************************************************************)
(* Traces and settings.                                                     *)
(***************************************************************************)
LEMMA OpenStep ==
  ASSUME TaskPlotInv, Open
  PROVE  TaskPlotInv'
<1>1. UserInv /\ ButtonsInv /\ ~opened
  BY DEF TaskPlotInv, Open
<1>2. PlotInv'
  BY ClearPlotKeepsPlot DEF Open
<1>3. /\ settings = Idle /\ toolbar = None /\ legend = {} /\ enabled = {} /\ orphaned \in BOOLEAN
      /\ opened' = TRUE /\ UNCHANGED <<toolbar, legend, enabled, settings, orphaned>>
      /\ selected' = None /\ alloc' = NoRanges
  BY <1>1 DEF UserInv, ButtonsInv, Buttons, Open, ClearPlot
<1>4. UserInv' /\ Restoring'
  BY <1>3 DEF UserInv, Restoring
<1>5. ButtonsInv'
  BY <1>3 DEF ButtonsInv, Buttons, NoRanges
<1> QED BY <1>2, <1>4, <1>5 DEF TaskPlotInv

LEMMA CloseStep ==
  ASSUME TaskPlotInv, Close
  PROVE  TaskPlotInv'
<1>1. settings = Idle
  BY DEF Close, Ready
<1>2. PlotInv'
  BY ClearPlotKeepsPlot DEF Close
<1>3. /\ toolbar' = None /\ legend' = {} /\ enabled' = {} /\ orphaned' = FALSE /\ UNCHANGED settings
      /\ selected' = None /\ alloc' = NoRanges
  BY DEF Close, ClearPlot
<1>4. UserInv' /\ Restoring'
  BY <1>1, <1>3 DEF UserInv, Restoring
<1>5. ButtonsInv'
  BY <1>3 DEF ButtonsInv, Buttons, NoRanges
<1> QED BY <1>2, <1>4, <1>5 DEF TaskPlotInv

LEMMA ChangeSettingsStep ==
  ASSUME TaskPlotInv, UNCHANGED <<opened, era, alloc, plot, graph, selected, toolbar, legend, enabled, settings, orphaned>>,
         shown' = shown \/ ~opened
  PROVE  TaskPlotInv'
<1>1. PlotInv' /\ LiveCPUGraphs' = LiveCPUGraphs
  BY SamePlot, LiveStay DEF TaskPlotInv
<1>2. UserInv' /\ ButtonsInv' /\ Restoring'
  BY <1>1 DEF TaskPlotInv, UserInv, ButtonsInv, Buttons, Contains, Restoring
<1> QED BY <1>1, <1>2 DEF TaskPlotInv

(* Everything that consumeSettings() remembers can be restored.                *)
LEMMA ConsumeStep ==
  ASSUME TaskPlotInv, ConsumeSettings
  PROVE  TaskPlotInv'
<1>1. PlotInv /\ UserInv /\ opened /\ PlotGraphs
  BY DEF TaskPlotInv, ConsumeSettings, Ready, PlotInv
<1>2. /\ settings' = [at |-> "graphs", graphs |-> alloc.rangeList, legend |-> LegendPids(legend),
                      selected |-> selected, task |-> PidOf(toolbar),
                      drawn |-> {g.task : g \in plot}, hidden |-> ~shown]
      /\ opened' = opened /\ toolbar' = None /\ legend' = {} /\ selected' = None
      /\ alloc' = NoRanges /\ plot' = {}
  BY DEF ConsumeSettings, ClearPlot
<1>3. /\ settings'.at = "graphs" /\ settings'.graphs = alloc.rangeList
      /\ settings'.legend = LegendPids(legend) /\ settings'.selected = selected
      /\ settings'.task = PidOf(toolbar) /\ settings'.drawn = {g.task : g \in plot}
      /\ settings'.hidden = ~shown
  BY <1>2
<1>4. settings' # Idle
  BY <1>3 DEF Idle
<1>5. PlotInv'
  BY ClearPlotKeepsPlot DEF ConsumeSettings
<1>6. UserInv'
  BY <1>1, <1>2, <1>3 DEF UserInv
<1>7. ButtonsInv'
  BY <1>4 DEF ButtonsInv
<1>8. \A t \in LegendPids(legend) : t \in Tasks /\ CPUsOf[t] # {}
  BY <1>1, LiveFields DEF LegendPids, UserInv
<1>9. \/ selected = None
      \/ /\ selected.task \in Tasks
         /\ \/ selected.kind = "unified" /\ CPUsOf[selected.task] # {}
            \/ selected.kind = "cpu" /\ selected.cpu \in CPUsOf[selected.task]
  <2>1. CASE selected \in plot
    <3>1. /\ selected.kind = "unified" /\ selected.task \in Tasks
          /\ selected.legend \in LiveCPUGraphs /\ selected.legend.task = selected.task
      BY <1>1, <2>1 DEF PlotGraphs
    <3> QED BY <3>1, LiveFields
  <2>2. CASE selected \in LiveCPUGraphs
    BY <2>2, LiveFields
  <2> QED BY <1>1, <2>1, <2>2 DEF UserInv
<1>10. (\A r \in alloc'.rangeList : \E s \in settings'.graphs : s.pid = r.pid)
       /\ {g.task : g \in plot'} = {findRealTask(r.pid) : r \in alloc'.rangeList}
  BY <1>2 DEF NoRanges
<1>11. ASSUME NEW t \in PlainTasks
       PROVE  t \in {g.task : g \in plot} <=> \E r \in alloc.rangeList : r.pid = t
  <2>1. {g \in plot : g.task = t} = {graph[t]} \ {None} /\ (graph[t] # None <=> Contains(alloc, t))
    BY <1>1 DEF PlotInv, GraphsInTheirRanges
  <2> QED BY <2>1 DEF Contains
<1>12. /\ selected # None => PidOf(toolbar) = selected.task
       /\ selected = None /\ PidOf(toolbar) # 0 => ~shown
  BY <1>1, NonePid DEF UserInv, PidOf
<1>13. Restoring'
  BY <1>3, <1>8, <1>9, <1>10, <1>11, <1>12 DEF Restoring
<1> QED BY <1>5, <1>6, <1>7, <1>13 DEF TaskPlotInv

LEMMA RestoreGraphStep ==
  ASSUME TaskPlotInv, RestoreTaskGraph
  PROVE  TaskPlotInv'
<1>1. PlotInv /\ UserInv /\ Restoring /\ AllocInv(alloc) /\ settings # Idle /\ opened
  BY DEF TaskPlotInv, RestoreTaskGraph, PlotInv, UserInv, Idle
<1>2. PICK r \in settings.graphs : AddTaskGraph(r.pid, toolbar)
  BY DEF RestoreTaskGraph
<1>3. UNCHANGED <<opened, shown, era, selected, toolbar, legend, settings, orphaned>>
  BY DEF RestoreTaskGraph
<1>4. PlotInv' /\ LiveCPUGraphs' = LiveCPUGraphs
  BY <1>1, <1>2, <1>3, AddKeepsPlot, LiveStay
<1>5. \/ alloc'.rangeList = alloc.rangeList /\ UNCHANGED <<plot, graph, enabled>>
      \/ \E g : AddsGraph(r.pid, toolbar, g)
  BY <1>1, <1>2, AddTaskGraphResult
<1>6. UserInv' /\ ButtonsInv'
  BY <1>1, <1>3, <1>4 DEF UserInv, ButtonsInv
<1>7. CASE alloc'.rangeList = alloc.rangeList /\ UNCHANGED <<plot, graph, enabled>>
  <2>1. Restoring'
    BY <1>1, <1>3, <1>7 DEF Restoring
  <2> QED BY <1>4, <1>6, <2>1 DEF TaskPlotInv
<1>8. ASSUME NEW g, AddsGraph(r.pid, toolbar, g) PROVE TaskPlotInv'
  <2>1. /\ ~Contains(alloc, r.pid) /\ alloc' = GetRange(alloc, r.pid)
        /\ g.task = findRealTask(r.pid) /\ plot' = plot \cup {g}
    BY <1>8 DEF AddsGraph
  <2>2. PICK n : n.pid = r.pid /\ alloc'.rangeList = alloc.rangeList \cup {n}
    BY <1>1, <2>1, GetRangeAdds
  <2>3. \A q \in alloc'.rangeList : \E s \in settings.graphs : s.pid = q.pid
    BY <1>1, <1>2, <2>2 DEF Restoring
  <2>4. {h.task : h \in plot'} = {h.task : h \in plot} \cup {g.task}
    BY <2>1
  <2>5. {findRealTask(q.pid) : q \in alloc'.rangeList}
          = {findRealTask(q.pid) : q \in alloc.rangeList} \cup {findRealTask(n.pid)}
    BY <2>2
  <2>6. {h.task : h \in plot'} = {findRealTask(q.pid) : q \in alloc'.rangeList}
    BY <1>1, <2>1, <2>2, <2>4, <2>5 DEF Restoring
  <2>7. Restoring'
    BY <1>1, <1>3, <2>3, <2>6 DEF Restoring
  <2> QED BY <1>4, <1>6, <2>7 DEF TaskPlotInv
<1> QED BY <1>5, <1>7, <1>8

(* The PIDs of the legend that was remembered are those of a legend with one     *)
(* graph for each.                                                            *)
LEMMA RestoredLegend ==
  ASSUME opened, NEW S, \A t \in S : t \in Tasks /\ CPUsOf[t] # {},
         NEW m, m = {[pid |-> t, graph |-> CPUGraph(t, FirstCPU(t))] : t \in S}
  PROVE  /\ \A e \in m : e.graph \in LiveCPUGraphs /\ e.pid = e.graph.task
         /\ \A e, f \in m : e.pid = f.pid => e = f
         /\ LegendPids(m) = S
<1> DEFINE E(t) == [pid |-> t, graph |-> CPUGraph(t, FirstCPU(t))]
<1>1. ASSUME NEW t \in S
      PROVE  E(t).pid = t /\ E(t).graph \in LiveCPUGraphs /\ E(t).graph.task = t
  BY FirstCPUIsOne, CPUGraphLives, CPUGraphFields
<1>2. m = {E(t) : t \in S}
  OBVIOUS
<1> HIDE DEF E
<1>3. LegendPids(m) = {E(t).pid : t \in S}
  BY <1>2 DEF LegendPids
<1>4. {E(t).pid : t \in S} = S
  BY <1>1
<1>5. \A e \in m : e.graph \in LiveCPUGraphs /\ e.pid = e.graph.task
  BY <1>1, <1>2
<1>6. \A e, f \in m : e.pid = f.pid => e = f
  BY <1>1, <1>2
<1> QED BY <1>3, <1>4, <1>5, <1>6

(* The task of the graph that was selected has a graph again.                   *)
LEMMA ChoicesOfOld ==
  ASSUME TaskGraphs, opened, NEW old, old.task \in Tasks,
         \/ old.kind = "unified" /\ CPUsOf[old.task] # {}
         \/ old.kind = "cpu" /\ old.cpu \in CPUsOf[old.task],
         NEW g \in Choices(old.task, old.kind = "unified",
                           IF old.kind = "cpu" THEN {old.cpu} ELSE CPUsOf[old.task])
  PROVE  g \in plot \cup LiveCPUGraphs /\ g.task = old.task
<1> DEFINE t    == old.task
           cpus == IF old.kind = "cpu" THEN {old.cpu} ELSE CPUsOf[t]
<1>1. findRealTask(t) = t /\ t # NoTask
  BY RealTask, TaskPids
<1>2. cpus \cap CPUsOf[t] # {}
  OBVIOUS
<1>3. \/ graph[t] # None /\ g = graph[t]
      \/ \E c \in CPUsOf[t] : g = CPUGraph(t, c)
  <2> HIDE DEF t, cpus
  <2>1. g \in Choices(t, old.kind = "unified", cpus)
    BY DEF t, cpus
  <2> QED BY <1>1, <1>2, <2>1 DEF Choices
<1>4. \A c \in CPUsOf[t] : CPUGraph(t, c) \in LiveCPUGraphs /\ CPUGraph(t, c).task = t
  BY CPUGraphLives, CPUGraphFields
<1>5. graph[t] # None => graph[t] \in plot /\ graph[t].task = t
  BY DEF TaskGraphs
<1> QED BY <1>3, <1>4, <1>5

(* The last part of consumeSettings() restores the legend and the selection.     *)
LEMMA RestoreLegendStep ==
  ASSUME TaskPlotInv, RestoreLegendAndSelection
  PROVE  /\ TaskPlotInv'
         /\ LegendPids(legend') = settings.legend
         /\ PidOf(toolbar') = IF HiddenSelection THEN 0 ELSE settings.task
<1>1. PlotInv /\ UserInv /\ Restoring /\ TaskGraphs /\ PlotGraphs /\ settings # Idle /\ opened
  BY DEF TaskPlotInv, RestoreLegendAndSelection, PlotInv, UserInv, Idle
<1>2. toolbar = None /\ selected = None
  BY <1>1 DEF UserInv
<1>3. UNCHANGED <<opened, shown, era, alloc, plot, graph>> /\ settings' = Idle
  BY DEF RestoreLegendAndSelection
<1> DEFINE m   == {[pid |-> t, graph |-> CPUGraph(t, FirstCPU(t))] : t \in settings.legend}
           e   == LegendEmptyChanged(enabled, m)
           old == settings.selected
<1>4. legend' = m
  BY DEF RestoreLegendAndSelection
<1>5. \A t \in settings.legend : t \in Tasks /\ CPUsOf[t] # {}
  BY <1>1 DEF Restoring
<1>6. /\ \A d \in m : d.graph \in LiveCPUGraphs /\ d.pid = d.graph.task
      /\ \A d, f \in m : d.pid = f.pid => d = f
      /\ LegendPids(m) = settings.legend
  BY <1>1, <1>5, RestoredLegend
<1>7. IF old = None
      THEN enabled' = ButtonsFor(None, e, m) /\ orphaned' = FALSE /\ UNCHANGED <<selected, toolbar>>
      ELSE \E g \in Choices(old.task, old.kind = "unified",
                            IF old.kind = "cpu" THEN {old.cpu} ELSE CPUsOf[old.task]) :
             SelectTask(g, e, m)
  BY <1>4 DEF RestoreLegendAndSelection
<1> HIDE DEF m
<1>8. LegendInv'
  BY <1>3, <1>4, <1>6, LiveStay DEF LegendInv
<1>9. "clearLegend" \in e <=> m # {}
  BY DEF LegendEmptyChanged
<1> HIDE DEF e
<1>10. LegendGraph(None) = None /\ None.task = 0
  BY DEF LegendGraph, None
<1>11. CASE old = None
  <2>1. SelectTask(None, e, m)
    BY <1>2, <1>7, <1>10, <1>11 DEF SelectTask
  <2>2. TaskPlotInv'
    BY <1>1, <1>3, <1>4, <1>8, <1>9, <2>1, SelectionStep
  <2>3. PidOf(toolbar') = 0 /\ (settings.task # 0 => settings.hidden)
    BY <1>1, <1>10, <1>11, <2>1 DEF SelectTask, PidOf, Restoring
  <2> QED BY <1>4, <1>6, <1>11, <2>2, <2>3 DEF HiddenSelection
<1>12. CASE old # None
  <2>1. PICK g \in Choices(old.task, old.kind = "unified",
                           IF old.kind = "cpu" THEN {old.cpu} ELSE CPUsOf[old.task]) :
          SelectTask(g, e, m)
    BY <1>7, <1>12
  <2>2. /\ old.task \in Tasks
        /\ \/ old.kind = "unified" /\ CPUsOf[old.task] # {}
           \/ old.kind = "cpu" /\ old.cpu \in CPUsOf[old.task]
    BY <1>1, <1>12 DEF Restoring
  <2>3. g \in plot \cup LiveCPUGraphs /\ g.task = old.task
    <3> HIDE DEF old
    <3> QED BY <1>1, <2>1, <2>2, ChoicesOfOld
  <2>4. TaskPlotInv'
    BY <1>1, <1>3, <1>4, <1>8, <1>9, <2>1, <2>3, SelectionStep
  <2>5. PidOf(toolbar') = old.task /\ settings.task = old.task
    BY <1>1, <1>12, <2>1, <2>3, ToolbarGraph DEF SelectTask, PidOf, Restoring
  <2> QED BY <1>4, <1>6, <1>12, <2>4, <2>5 DEF HiddenSelection
<1> QED BY <1>11, <1>12

LEMMA NextTaskPlotInv == TaskPlotInv /\ [Next]_vars => TaskPlotInv'
<1> SUFFICES ASSUME TaskPlotInv, [Next]_vars PROVE TaskPlotInv'
  OBVIOUS
<1>1. ASSUME NEW pid \in Pids, AddFromDialog(pid) PROVE TaskPlotInv'
  BY <1>1, AddStep DEF AddFromDialog
<1>2. ASSUME NEW pid \in Pids, AddTaskToLegend(pid) PROVE TaskPlotInv'
  BY <1>2, AddTaskToLegendStep
<1>3. ASSUME NEW pid \in Pids, NEW cpus, SelectTaskByPid(pid, cpus) PROVE TaskPlotInv'
  BY <1>3, SelectTaskByPidStep
<1>4. CASE AddTaskGraphTriggered
  BY <1>4, AddStep DEF AddTaskGraphTriggered
<1>5. CASE RemoveTaskGraphTriggered
  BY <1>5, RemoveStep
<1>6. CASE ClearTaskGraphsTriggered
  BY <1>6, ClearStep
<1>7. ASSUME NEW g \in plot \cup LiveCPUGraphs, SelectGraph(g) PROVE TaskPlotInv'
  BY <1>7, SelectGraphStep
<1>8. CASE DeselectGraph
  BY <1>8, DeselectStep
<1>9. CASE AddToLegendTriggered
  BY <1>9, AddToLegendStep
<1>10. CASE ClearLegendTriggered
  BY <1>10, ClearLegendStep
<1>11. ASSUME NEW e \in legend, LegendDoubleClick(e) PROVE TaskPlotInv'
  BY <1>11, DoubleClickStep
<1>12. CASE Open
  BY <1>12, OpenStep
<1>13. CASE Close
  BY <1>13, CloseStep
<1>14. CASE ChangeSettingsWithoutTrace
  BY <1>14, ChangeSettingsStep DEF ChangeSettingsWithoutTrace
<1>15. CASE ConsumeSettings
  BY <1>15, ConsumeStep
<1>16. CASE RestoreTaskGraph
  BY <1>16, RestoreGraphStep
<1>17. CASE RestoreLegendAndSelection
  BY <1>17, RestoreLegendStep
<1>18. CASE UNCHANGED vars
  BY <1>18, ChangeSettingsStep DEF vars
<1> QED
  BY <1>1, <1>2, <1>3, <1>4, <1>5, <1>6, <1>7, <1>8, <1>9, <1>10, <1>11, <1>12, <1>13,
     <1>14, <1>15, <1>16, <1>17, <1>18 DEF Next

LEMMA TaskPlotInvCorrect == Spec => []TaskPlotInv
BY InitTaskPlotInv, NextTaskPlotInv, PTL DEF Spec

(* Whatever the user does, a task that no ghost task stands for has a range      *)
(* exactly while it has a unified graph, and that graph is in the plot, alone   *)
(* and drawn in the range (addTaskGraph(), removeTaskGraph()).                 *)
THEOREM GraphsInTheirRangesCorrect == Spec => []GraphsInTheirRanges
<1>1. TaskPlotInv => GraphsInTheirRanges
  BY DEF TaskPlotInv, PlotInv
<1> QED BY <1>1, TaskPlotInvCorrect, PTL

(* After every slot that changes the toolbar, the ranges or the legend, the       *)
(* buttons are enabled exactly while they can do something, to a unified graph   *)
(* of a task that no ghost task stands for, to the legend, or to the task of the *)
(* toolbar unless its selected graph was removed (updateTaskGraphActions(),      *)
(* updateAddToLegendAction(), legendEmptyChanged()).                           *)
THEOREM ButtonsMatchCorrect == Spec => []ButtonsMatch
<1>1. TaskPlotInv => ButtonsMatch
  BY ButtonsMean DEF TaskPlotInv, PlotInv
<1> QED BY <1>1, TaskPlotInvCorrect, PTL

(* Nothing in the toolbar, in the legend, in a task or in the selection refers   *)
(* to a graph that is gone, and a task is in the legend once                   *)
(* (TaskToolBar::setTaskGraph(), removeQCPGraph(), clearPlot()).               *)
THEOREM NoDanglingGraphCorrect == Spec => []NoDanglingGraph
<1>1. TaskPlotInv => NoDanglingGraph
  BY DEF TaskPlotInv, PlotInv, UserInv, TaskGraphs, NoDanglingGraph
<1> QED BY <1>1, TaskPlotInvCorrect, PTL

(* consumeSettings() brings back the unified graphs of tasks that no ghost task  *)
(* stands for, the legend and the task of the toolbar that were there before    *)
(* it, but for a task chosen while the graphs per CPU were hidden.              *)
THEOREM SettingsRestoreCorrect == Spec => SettingsRestore
<1> DEFINE Restored ==
             settings # Idle /\ settings' = Idle =>
               /\ {r.pid : r \in alloc'.rangeList} = {r.pid : r \in settings.graphs}
               /\ {g.task : g \in plot'} = {findRealTask(r.pid) : r \in settings.graphs}
               /\ {g.task : g \in plot'} \cap PlainTasks = settings.drawn \cap PlainTasks
               /\ LegendPids(legend') = settings.legend
               /\ PidOf(toolbar') = IF HiddenSelection THEN 0 ELSE settings.task
<1>1. ASSUME TaskPlotInv, Next, settings # Idle, settings' = Idle
      PROVE  RestoreLegendAndSelection
  <2>1. settings' # settings
    BY <1>1
  <2>2. ~ConsumeSettings
    BY <1>1 DEF ConsumeSettings, Ready
  <2> QED
    BY <1>1, <2>1, <2>2 DEF Next, AddFromDialog, AddTaskToLegend, SelectTaskByPid, AddTaskGraphTriggered,
       RemoveTaskGraphTriggered, ClearTaskGraphsTriggered, SelectGraph, DeselectGraph, AddToLegendTriggered,
       ClearLegendTriggered, LegendDoubleClick, Open, Close, ChangeSettingsWithoutTrace, RestoreTaskGraph
<1>2. ASSUME TaskPlotInv, RestoreLegendAndSelection PROVE Restored
  <2>1. /\ LegendPids(legend') = settings.legend
        /\ PidOf(toolbar') = IF HiddenSelection THEN 0 ELSE settings.task
    BY <1>2, RestoreLegendStep
  <2>2. /\ settings # Idle /\ UNCHANGED <<alloc, plot>>
        /\ \A r \in settings.graphs : Contains(alloc, r.pid)
    BY <1>2 DEF RestoreLegendAndSelection, Idle
  <2>3. /\ \A r \in alloc.rangeList : \E s \in settings.graphs : s.pid = r.pid
        /\ {g.task : g \in plot} = {findRealTask(r.pid) : r \in alloc.rangeList}
    BY <1>2, <2>2 DEF TaskPlotInv, Restoring
  <2>4. \A s \in settings.graphs : \E r \in alloc.rangeList : r.pid = s.pid
    BY <2>2 DEF Contains
  <2>5. {r.pid : r \in alloc.rangeList} = {r.pid : r \in settings.graphs}
    BY <2>3, <2>4
  <2>6. {findRealTask(r.pid) : r \in alloc.rangeList} = {findRealTask(r.pid) : r \in settings.graphs}
    BY <2>3, <2>4
  <2>7. ASSUME NEW t \in PlainTasks
        PROVE  t \in {g.task : g \in plot} <=> t \in settings.drawn
    <3>1. {g \in plot : g.task = t} = {graph[t]} \ {None} /\ (graph[t] # None <=> Contains(alloc, t))
      BY <1>2 DEF TaskPlotInv, PlotInv, GraphsInTheirRanges
    <3>2. t \in {g.task : g \in plot} <=> \E r \in alloc.rangeList : r.pid = t
      BY <3>1 DEF Contains
    <3>3. t \in settings.drawn <=> \E r \in settings.graphs : r.pid = t
      BY <1>2, <2>2 DEF TaskPlotInv, Restoring
    <3> QED BY <2>5, <3>2, <3>3
  <2>8. {g.task : g \in plot} \cap PlainTasks = settings.drawn \cap PlainTasks
    BY <2>7
  <2> QED BY <2>1, <2>2, <2>3, <2>5, <2>6, <2>8
<1>3. TaskPlotInv /\ [Next]_vars => [Restored]_vars
  BY <1>1, <1>2
<1> HIDE DEF Restored
<1>4. [][Restored]_vars <=> SettingsRestore
  BY DEF Restored, SettingsRestore
<1> QED BY <1>3, <1>4, TaskPlotInvCorrect, PTL DEF Spec

-----------------------------------------------------------------------------
(* The AVL tree. n is a tree of k nodes, as far as types go.                *)
NodeType(k) == [small : 0 .. k, large : 0 .. k, height : Nat, parent : 0 .. k, key : Keys, value : Keys \union {0}]

IsTree(n, k) == n \in Seq(NodeType(k)) /\ Len(n) = k

(* The fields of a node.                                                   *)
LEMMA NodeTypes ==
  ASSUME NEW k \in Nat, NEW n, IsTree(n, k), NEW i \in 1 .. k
  PROVE  /\ n[i] \in NodeType(k) /\ n[i].height \in Nat /\ n[i].parent \in 0 .. k
         /\ \A s \in Sides : n[i][s] \in 0 .. k
         /\ n[i].small = n[i]["small"] /\ n[i].large = n[i]["large"]
<1>1. n[i] \in NodeType(k)
  BY DEF IsTree
<1> QED BY <1>1 DEF NodeType, Sides

(* A node of the right type in place of another.                           *)
LEMMA SetNode ==
  ASSUME NEW k \in Nat, NEW n, IsTree(n, k), NEW i \in 1 .. k, NEW r \in NodeType(k)
  PROVE  /\ IsTree([n EXCEPT ![i] = r], k)
         /\ \A j \in 1 .. k : [n EXCEPT ![i] = r][j] = IF j = i THEN r ELSE n[j]
  BY DEF IsTree

(* The changes that the source makes to a node, and what they change.        *)
WithChild(n, i, s, c) == [n EXCEPT ![i][s] = c]
WithParent(n, i, c)   == [n EXCEPT ![i].parent = c]
WithHeight(n, i, h)   == [n EXCEPT ![i].height = h]

SameContents(n, m, k) == \A j \in 1 .. k : m[j].key = n[j].key /\ m[j].value = n[j].value

ChildSet(n, m, k, i, s, c) ==
  /\ IsTree(m, k) /\ SameContents(n, m, k)
  /\ \A j \in 1 .. k : /\ m[j].parent = n[j].parent /\ m[j].height = n[j].height
                       /\ \A t \in Sides : m[j][t] = IF j = i /\ t = s THEN c ELSE n[j][t]

ParentSet(n, m, k, i, c) ==
  /\ IsTree(m, k) /\ SameContents(n, m, k)
  /\ \A j \in 1 .. k : /\ m[j].parent = (IF j = i THEN c ELSE n[j].parent) /\ m[j].height = n[j].height
                       /\ \A t \in Sides : m[j][t] = n[j][t]

HeightSet(n, m, k, i, h) ==
  /\ IsTree(m, k) /\ SameContents(n, m, k)
  /\ \A j \in 1 .. k : /\ m[j].parent = n[j].parent /\ m[j].height = (IF j = i THEN h ELSE n[j].height)
                       /\ \A t \in Sides : m[j][t] = n[j][t]

ShapeKept(n, m, k) ==
  /\ IsTree(m, k)
  /\ \A j \in 1 .. k : /\ m[j].parent = n[j].parent /\ m[j].height = n[j].height
                       /\ \A t \in Sides : m[j][t] = n[j][t]

ContentsExchanged(n, m, k, i, l) ==
  \A j \in 1 .. k : /\ m[j].key = n[IF j = i THEN l ELSE IF j = l THEN i ELSE j].key
                    /\ m[j].value = n[IF j = i THEN l ELSE IF j = l THEN i ELSE j].value

(* c takes the place of i below p.                                          *)
PlaceTaken(n, m, k, p, i, c) ==
  /\ IsTree(m, k) /\ SameContents(n, m, k)
  /\ \A j \in 1 .. k :
        /\ m[j].parent = n[j].parent /\ m[j].height = n[j].height
        /\ \A t \in Sides : m[j][t] = IF j = p /\ n[j][t] = i THEN c ELSE n[j][t]

ParentStolen(n, m, k, i, c) ==
  /\ IsTree(m, k) /\ SameContents(n, m, k)
  /\ \A j \in 1 .. k :
        /\ m[j].parent = (IF j = c THEN n[i].parent ELSE n[j].parent)
        /\ m[j].height = n[j].height
        /\ \A t \in Sides : m[j][t] = IF j = n[i].parent /\ n[j][t] = i THEN c ELSE n[j][t]

(* One assignment of the source: to a child.                               *)
LEMMA SetChild ==
  ASSUME NEW k \in Nat, NEW n, IsTree(n, k), NEW i \in 1 .. k, NEW s \in Sides, NEW c \in 0 .. k
  PROVE  IsTree(WithChild(n, i, s, c), k) /\ ChildSet(n, WithChild(n, i, s, c), k, i, s, c)
<1> DEFINE r == [n[i] EXCEPT ![s] = c]
           m == WithChild(n, i, s, c)
<1>1. n[i] \in NodeType(k)
  BY NodeTypes
<1>2. /\ r \in NodeType(k)
      /\ r.key = n[i].key /\ r.value = n[i].value
      /\ r.parent = n[i].parent /\ r.height = n[i].height
      /\ \A t \in Sides : r[t] = IF t = s THEN c ELSE n[i][t]
  BY <1>1 DEF NodeType, Sides
<1>3. m = [n EXCEPT ![i] = r]
  BY DEF WithChild
<1> HIDE DEF r, m
<1>4. IsTree(m, k) /\ \A j \in 1 .. k : m[j] = IF j = i THEN r ELSE n[j]
  BY ONLY <1>2, <1>3, k \in Nat, i \in 1 .. k, IsTree(n, k) DEF IsTree
<1>5. IsTree(m, k) /\ ChildSet(n, m, k, i, s, c)
  BY <1>2, <1>4 DEF ChildSet, SameContents
<1> QED BY <1>5 DEF m

(* To the parent of a node.                                                *)
LEMMA SetUp ==
  ASSUME NEW k \in Nat, NEW n, IsTree(n, k), NEW i \in 1 .. k, NEW c \in 0 .. k
  PROVE  IsTree(WithParent(n, i, c), k) /\ ParentSet(n, WithParent(n, i, c), k, i, c)
<1> DEFINE r == [n[i] EXCEPT !.parent = c]
           m == WithParent(n, i, c)
<1>1. n[i] \in NodeType(k)
  BY NodeTypes
<1>2. /\ r \in NodeType(k)
      /\ r.key = n[i].key /\ r.value = n[i].value
      /\ r.parent = c /\ r.height = n[i].height
      /\ \A t \in Sides : r[t] = n[i][t]
  BY <1>1 DEF NodeType, Sides
<1>3. m = [n EXCEPT ![i] = r]
  BY DEF WithParent
<1> HIDE DEF r, m
<1>4. IsTree(m, k) /\ \A j \in 1 .. k : m[j] = IF j = i THEN r ELSE n[j]
  BY ONLY <1>2, <1>3, k \in Nat, i \in 1 .. k, IsTree(n, k) DEF IsTree
<1>5. IsTree(m, k) /\ ParentSet(n, m, k, i, c)
  BY <1>2, <1>4 DEF ParentSet, SameContents
<1> QED BY <1>5 DEF m

(* To the height of a node.                                                *)
LEMMA SetHeight ==
  ASSUME NEW k \in Nat, NEW n, IsTree(n, k), NEW i \in 1 .. k, NEW h \in Nat
  PROVE  IsTree(WithHeight(n, i, h), k) /\ HeightSet(n, WithHeight(n, i, h), k, i, h)
<1> DEFINE r == [n[i] EXCEPT !.height = h]
           m == WithHeight(n, i, h)
<1>1. n[i] \in NodeType(k)
  BY NodeTypes
<1>2. /\ r \in NodeType(k)
      /\ r.key = n[i].key /\ r.value = n[i].value
      /\ r.parent = n[i].parent /\ r.height = h
      /\ \A t \in Sides : r[t] = n[i][t]
  BY <1>1 DEF NodeType, Sides
<1>3. m = [n EXCEPT ![i] = r]
  BY DEF WithHeight
<1> HIDE DEF r, m
<1>4. IsTree(m, k) /\ \A j \in 1 .. k : m[j] = IF j = i THEN r ELSE n[j]
  BY ONLY <1>2, <1>3, k \in Nat, i \in 1 .. k, IsTree(n, k) DEF IsTree
<1>5. IsTree(m, k) /\ HeightSet(n, m, k, i, h)
  BY <1>2, <1>4 DEF HeightSet, SameContents
<1> QED BY <1>5 DEF m

(* To the parent of a node that may be null.                               *)
LEMMA SetParentFields ==
  ASSUME NEW k \in Nat, NEW n, IsTree(n, k), NEW i \in 0 .. k, NEW p \in 0 .. k
  PROVE  IsTree(SetParent(n, i, p), k) /\ ParentSet(n, SetParent(n, i, p), k, i, p)
<1>1. CASE i = Null
  BY <1>1 DEF SetParent, ParentSet, SameContents, Null
<1>2. CASE i # Null
  <2>1. i \in 1 .. k /\ SetParent(n, i, p) = WithParent(n, i, p)
    BY <1>2 DEF SetParent, WithParent, Null
  <2> QED BY <2>1, SetUp
<1> QED BY <1>1, <1>2

Replaced(u, p, i, c) == IF u[p].small = i THEN [u EXCEPT ![p].small = c] ELSE [u EXCEPT ![p].large = c]

(* i is below p on one side.                                                *)
OnOneSide(u, p, i) == /\ \E s \in Sides : u[p][s] = i
                      /\ \A s, t \in Sides : u[p][s] = i /\ u[p][t] = i => s = t

(* The branch of stealParent() finds the side that i is on.                *)
LEMMA ReplaceChild ==
  ASSUME NEW k \in Nat, NEW u, IsTree(u, k), NEW p \in 1 .. k, NEW i \in 1 .. k, NEW c \in 0 .. k,
         OnOneSide(u, p, i)
  PROVE  PlaceTaken(u, Replaced(u, p, i, c), k, p, i, c)
<1>1. u[p].small = u[p]["small"] /\ u[p].large = u[p]["large"] /\ "small" \in Sides /\ "large" \in Sides
  BY NodeTypes DEF Sides
<1>2. PICK s \in Sides : u[p][s] = i /\ Replaced(u, p, i, c) = WithChild(u, p, s, c)
  <2>1. CASE u[p]["small"] = i
    <3>1. Replaced(u, p, i, c) = WithChild(u, p, "small", c)
      BY <1>1, <2>1 DEF WithChild, Replaced
    <3> QED BY <1>1, <2>1, <3>1
  <2>2. CASE u[p]["small"] # i
    <3>1. Replaced(u, p, i, c) = WithChild(u, p, "large", c)
      BY <1>1, <2>2 DEF WithChild, Replaced
    <3>2. u[p]["large"] = i
      BY <2>2 DEF Sides, OnOneSide
    <3> QED BY <1>1, <3>1, <3>2
  <2> QED BY <2>1, <2>2
<1> DEFINE m == Replaced(u, p, i, c)
<1>3. ChildSet(u, m, k, p, s, c)
  BY <1>2, SetChild
<1>4. \A t \in Sides : u[p][t] = i <=> t = s
  BY <1>2 DEF OnOneSide
<1> HIDE DEF m
<1>5. PlaceTaken(u, m, k, p, i, c)
  BY <1>3, <1>4 DEF ChildSet, PlaceTaken
<1> QED BY <1>5 DEF m

(* stealParent(), for a node that is below its parent.                     *)
LEMMA StealParentFields ==
  ASSUME NEW k \in Nat, NEW n, IsTree(n, k), NEW i \in 1 .. k, NEW c \in 1 .. k,
         n[i].parent # Null => OnOneSide(n, n[i].parent, i)
  PROVE  IsTree(StealParent(n, i, c), k) /\ ParentStolen(n, StealParent(n, i, c), k, i, c)
<1>1. PICK p \in 0 .. k : p = n[i].parent
  BY NodeTypes
<1>2. PICK u : u = WithParent(n, c, p)
  OBVIOUS
<1>3. StealParent(n, i, c) = IF p = Null THEN u ELSE Replaced(u, p, i, c)
  BY <1>1, <1>2 DEF StealParent, WithParent, Replaced
<1>4. ParentSet(n, u, k, c, p)
  BY <1>2, SetUp
<1>5. CASE p = Null
  BY <1>1, <1>3, <1>4, <1>5 DEF Null, ParentSet, ParentStolen
<1>6. CASE p # Null
  <2>1. p \in 1 .. k /\ IsTree(u, k)
    BY <1>4, <1>6 DEF Null, ParentSet
  <2>2. PICK m : m = Replaced(u, p, i, c) /\ StealParent(n, i, c) = m
    BY <1>3, <1>6
  <2>3. OnOneSide(u, p, i)
    BY <1>1, <1>4, <1>6, <2>1 DEF ParentSet, OnOneSide
  <2>4. PlaceTaken(u, m, k, p, i, c)
    BY <2>1, <2>2, <2>3, ReplaceChild
  <2>5. IsTree(m, k) /\ ParentStolen(n, m, k, i, c)
    BY <1>1, <1>4, <2>4 DEF ParentSet, PlaceTaken, ParentStolen, SameContents
  <2> QED BY <2>2, <2>5
<1> QED BY <1>5, <1>6

(* Exchanging the contents of two nodes changes nothing else.               *)
LEMMA SwapNodesFields ==
  ASSUME NEW k \in Nat, NEW n, IsTree(n, k), NEW i \in 1 .. k, NEW l \in 1 .. k
  PROVE  /\ IsTree(SwapNodes(n, i, l), k) /\ ShapeKept(n, SwapNodes(n, i, l), k)
         /\ ContentsExchanged(n, SwapNodes(n, i, l), k, i, l)
<1>1. n[i] \in NodeType(k) /\ n[l] \in NodeType(k)
  BY NodeTypes
<1> DEFINE m == SwapNodes(n, i, l)
           a == [n[i] EXCEPT !.key = n[l].key, !.value = n[l].value]
           b == [n[l] EXCEPT !.key = n[i].key, !.value = n[i].value]
<1>2. /\ a \in NodeType(k) /\ a.parent = n[i].parent /\ a.height = n[i].height
      /\ a.key = n[l].key /\ a.value = n[l].value
      /\ \A t \in Sides : a[t] = n[i][t]
  BY <1>1 DEF NodeType, Sides
<1>3. /\ b \in NodeType(k) /\ b.parent = n[l].parent /\ b.height = n[l].height
      /\ b.key = n[i].key /\ b.value = n[i].value
      /\ \A t \in Sides : b[t] = n[l][t]
  BY <1>1 DEF NodeType, Sides
<1>4. n \in Seq(NodeType(k)) /\ Len(n) = k
  BY DEF IsTree
<1>5. i = l => m = [n EXCEPT ![i] = a]
  BY <1>1, <1>4 DEF SwapNodes, NodeType
<1>6. i # l => m = [n EXCEPT ![i] = a, ![l] = b]
  BY <1>4 DEF SwapNodes
<1> HIDE DEF a, b, m
<1>7. i # l => /\ m \in Seq(NodeType(k)) /\ Len(m) = k
               /\ \A j \in 1 .. k : m[j] = IF j = i THEN a ELSE IF j = l THEN b ELSE n[j]
  BY ONLY <1>2, <1>3, <1>4, <1>6, i \in 1 .. k, l \in 1 .. k, k \in Nat
<1>8. i = l => /\ m \in Seq(NodeType(k)) /\ Len(m) = k
               /\ \A j \in 1 .. k : m[j] = IF j = i THEN a ELSE n[j]
  BY ONLY <1>2, <1>4, <1>5, i \in 1 .. k, k \in Nat
<1>9. IsTree(m, k) /\ ShapeKept(n, m, k)
  BY <1>2, <1>3, <1>7, <1>8 DEF ShapeKept, IsTree
<1>10. ContentsExchanged(n, m, k, i, l)
  BY <1>2, <1>3, <1>7, <1>8 DEF ContentsExchanged
<1> QED BY <1>9, <1>10 DEF m

-----------------------------------------------------------------------------
(* The links between nodes fit, and so do the heights.                      *)
Linked(n, k) ==
  /\ \A i \in 1 .. k, s \in Sides : n[i][s] # Null => n[n[i][s]].parent = i
  /\ \A i \in 1 .. k : n[i].parent # Null => \E s \in Sides : n[n[i].parent][s] = i
  /\ \A i \in 1 .. k, s, t \in Sides : n[i][s] = n[i][t] /\ n[i][s] # Null => s = t

Fit(n, i) ==
  /\ \A s \in Sides : Height(n, n[i][s]) \in {n[i].height - 1, n[i].height - 2}
  /\ \E s \in Sides : Height(n, n[i][s]) = n[i].height - 1

Shaped(n, k) == Linked(n, k) /\ \A i \in 1 .. k : Fit(n, i)

(* The tree below g has grown on the side heavy by the tree below p, whose   *)
(* higher child is e, and leans.                                            *)
Leaning(n, k, h, heavy, light, e, p, g) ==
  /\ IsTree(n, k) /\ Linked(n, k)
  /\ {e, p, g} \subseteq 1 .. k /\ p # g
  /\ n[g][heavy] = p /\ n[p].parent = g
  /\ n[g].height = h /\ n[p].height = h /\ n[e].height = h - 1
  /\ Height(n, n[g][light]) = h - 2
  /\ \A i \in 1 .. k : i # g => Fit(n, i)

TwoSides(heavy, light) == heavy \in Sides /\ light \in Sides /\ heavy # light

LEMMA TwoSidesAll == ASSUME NEW a, NEW b, TwoSides(a, b) PROVE \A s \in Sides : s = a \/ s = b
  BY DEF TwoSides, Sides

(* The height of a child, which may be null.                               *)
LEMMA Heights ==
  ASSUME NEW k \in Nat, NEW n, IsTree(n, k), NEW i \in 0 .. k
  PROVE  /\ Height(n, i) \in Int
         /\ i = Null => Height(n, i) = -1
         /\ i # Null => Height(n, i) = n[i].height /\ Height(n, i) >= 0 /\ i \in 1 .. k
  BY NodeTypes DEF Height, Null

(* All nodes around a rotation are different.                               *)
Distinct(n, k, h, heavy, light, e, p, g, a, b) ==
  /\ e # p /\ e # g /\ p # g
  /\ n[g].parent \notin {e, p, g} /\ n[g].parent \in 0 .. k
  /\ n[p][b] \in 0 .. k /\ n[g][light] \in 0 .. k
  /\ n[p][b] \notin {e, p, g} /\ n[g][light] \notin {e, p, g}
  /\ n[p][b] # Null => n[p][b] # n[g][light]
  /\ n[e].parent = p
  /\ \A s \in Sides : /\ n[e][s] \in 0 .. k /\ n[e][s] \notin {e, p, g}
                      /\ n[e][s] # Null => n[e][s] # n[p][b] /\ n[e][s] # n[g][light]
                      /\ Height(n, n[e][s]) \in {h - 2, h - 3}
  /\ n[e]["small"] # Null => n[e]["small"] # n[e]["large"]
  /\ \A i \in 1 .. k, s \in Sides :
        /\ n[i][s] = g => i = n[g].parent
        /\ n[i][s] = p => i = g /\ s = heavy
        /\ n[i][s] = e => i = p /\ s = a

(* The links keep the nodes around a rotation apart.                       *)
LEMMA KeysApart ==
  ASSUME NEW k \in Nat, NEW n, NEW h \in Nat, NEW heavy, NEW light, TwoSides(heavy, light),
         NEW e, NEW p, NEW g, Leaning(n, k, h, heavy, light, e, p, g),
         NEW a, NEW b, TwoSides(a, b), n[p][a] = e, Height(n, n[p][b]) = h - 2
  PROVE  Distinct(n, k, h, heavy, light, e, p, g, a, b)
<1>1. /\ IsTree(n, k) /\ Linked(n, k) /\ e \in 1 .. k /\ p \in 1 .. k /\ g \in 1 .. k /\ p # g
      /\ n[g][heavy] = p /\ n[p].parent = g
      /\ n[g].height = h /\ n[p].height = h /\ n[e].height = h - 1
      /\ Height(n, n[g][light]) = h - 2
      /\ \A i \in 1 .. k : i # g => Fit(n, i)
  BY DEF Leaning
<1>2. /\ heavy \in Sides /\ light \in Sides /\ a \in Sides /\ b \in Sides /\ heavy # light /\ a # b
      /\ \A s \in Sides : s \in {heavy, light} /\ s \in {a, b}
      /\ "small" \in Sides /\ "large" \in Sides
  BY TwoSidesAll DEF TwoSides, Sides
<1>3. \A i \in 1 .. k : n[i].parent \in 0 .. k /\ n[i].height \in Nat /\ \A s \in Sides : n[i][s] \in 0 .. k
  BY <1>1, NodeTypes
<1>4. \A i \in 1 .. k : Height(n, i) = n[i].height
  BY DEF Height, Null
<1>5. Fit(n, p) /\ Fit(n, e) /\ e # p /\ e # g
  BY <1>1
<1>6. n[g].parent \in 0 .. k /\ n[p][b] \in 0 .. k /\ n[g][light] \in 0 .. k
  BY <1>1, <1>2, <1>3
<1>7. n[p][b] \notin {e, p, g} /\ n[g][light] \notin {e, p, g}
  BY <1>1, <1>4
<1>8. n[e].parent = p
  BY <1>1, <1>2 DEF Linked, Null
<1>9. n[p][b] # Null => n[p][b] # n[g][light]
  BY <1>1, <1>2, <1>6 DEF Linked
<1>10. \A s \in Sides : /\ n[e][s] \in 0 .. k
                        /\ Height(n, n[e][s]) \in {h - 2, h - 3}
  BY <1>1, <1>3, <1>5 DEF Fit
<1>11. \A s \in Sides : n[e][s] \notin {e, p, g}
  BY <1>1, <1>4, <1>10
<1>12. \A s \in Sides : n[e][s] # Null => n[e][s] # n[p][b] /\ n[e][s] # n[g][light]
  BY <1>1, <1>2, <1>5, <1>6 DEF Linked
<1>13. n[e]["small"] # Null => n[e]["small"] # n[e]["large"]
  BY <1>1, <1>2 DEF Linked
<1>14. n[g].parent \notin {e, p, g}
  <2>1. ASSUME n[g].parent = e PROVE FALSE
    <3>1. PICK s \in Sides : n[e][s] = g
      BY <1>1, <2>1 DEF Linked, Null
    <3> QED BY <1>11, <3>1
  <2>2. ASSUME n[g].parent = p PROVE FALSE
    <3>1. PICK s \in Sides : n[p][s] = g
      BY <1>1, <2>2 DEF Linked, Null
    <3> QED BY <1>1, <1>2, <1>5, <1>7, <3>1
  <2>3. ASSUME n[g].parent = g PROVE FALSE
    <3>1. PICK s \in Sides : n[g][s] = g
      BY <1>1, <2>3 DEF Linked, Null
    <3> QED BY <1>1, <1>2, <1>7, <3>1
  <2> QED BY <2>1, <2>2, <2>3
<1>15. \A i \in 1 .. k, s \in Sides :
          /\ n[i][s] = g => i = n[g].parent
          /\ n[i][s] = p => i = g /\ s = heavy
          /\ n[i][s] = e => i = p /\ s = a
  <2>1. \A i \in 1 .. k, s \in Sides : n[i][s] # Null => n[n[i][s]].parent = i
    BY <1>1 DEF Linked
  <2>2. e # Null /\ p # Null /\ g # Null
    BY <1>1 DEF Null
  <2>3. \A s \in Sides : (n[g][s] = p => s = heavy) /\ (n[p][s] = e => s = a)
    BY <1>1, <1>2, <1>7
  <2> QED BY <1>1, <1>8, <2>1, <2>2, <2>3
<1> QED BY <1>1, <1>5, <1>6, <1>7, <1>8, <1>9, <1>10, <1>11, <1>12, <1>13, <1>14, <1>15 DEF Distinct

(* Cases 1 and 4 of addValue_(): p takes the place of g, which takes its     *)
(* lower child.                                                             *)
OuterPointersTurned(n, m, k, h, heavy, light, e, p, g) ==
  /\ IsTree(m, k) /\ SameContents(n, m, k)
  /\ \A j \in 1 .. k : m[j].parent =
                           (IF j = p THEN n[g].parent ELSE IF j = g THEN p
                                           ELSE IF j = n[p][light] THEN g ELSE n[j].parent)
  /\ \A j \in 1 .. k : m[j].height = IF j = g THEN h - 1 ELSE n[j].height
  /\ \A j \in 1 .. k, t \in Sides :
            m[j][t] = IF j = g /\ t = heavy THEN n[p][light] ELSE IF j = p /\ t = light THEN g
                      ELSE IF j = n[g].parent /\ n[j][t] = g THEN p ELSE n[j][t]

(* That repairs a leaning tree.                                            *)
LEMMA OuterPointers ==
  ASSUME NEW k \in Nat, NEW n, NEW h \in Nat, NEW heavy, NEW light, TwoSides(heavy, light),
         NEW e, NEW p, NEW g, Leaning(n, k, h, heavy, light, e, p, g),
         n[p][heavy] = e, Height(n, n[p][light]) = h - 2,
         NEW m, OuterPointersTurned(n, m, k, h, heavy, light, e, p, g)
  PROVE  Shaped(m, k)
<1> USE DEF OuterPointersTurned
<1>1. /\ IsTree(n, k) /\ Linked(n, k) /\ e \in 1 .. k /\ p \in 1 .. k /\ g \in 1 .. k
      /\ n[g][heavy] = p /\ n[p].parent = g
      /\ n[g].height = h /\ n[p].height = h /\ n[e].height = h - 1
      /\ Height(n, n[g][light]) = h - 2
      /\ \A i \in 1 .. k : i # g => Fit(n, i)
  BY DEF Leaning
<1>2. TwoSides(heavy, light) /\ heavy \in Sides /\ light \in Sides /\ \A s \in Sides : s = heavy \/ s = light
  BY TwoSidesAll DEF TwoSides
<1>13. Distinct(n, k, h, heavy, light, e, p, g, heavy, light)
  BY <1>2, KeysApart
<1>3. /\ e # p /\ e # g /\ p # g
      /\ n[g].parent \notin {e, p, g} /\ n[g].parent \in 0 .. k
      /\ n[p][heavy] \in 0 .. k /\ n[p][light] \in 0 .. k /\ n[g][light] \in 0 .. k
      /\ n[p][light] \notin {p, g} /\ n[p][heavy] \notin {p, g} /\ n[g][light] \notin {e, p, g}
      /\ n[e].parent = p
      /\ \A i \in 1 .. k, s \in Sides :
            /\ n[i][s] = g => i = n[g].parent
            /\ n[i][s] = p => i = g /\ s = heavy
            /\ n[i][s] = e => i = p
  BY <1>1, <1>2, <1>13 DEF Distinct
<1>12. \A s \in Sides : /\ n[e][s] \in 0 .. k /\ n[e][s] \notin {e, p, g}
                        /\ n[e][s] # Null => n[e][s] # n[p][light] /\ n[e][s] # n[g][light]
                        /\ Height(n, n[e][s]) \in {h - 2, h - 3}
  BY <1>1, <1>2, <1>13 DEF Distinct
<1>4. \A i \in 0 .. k : Height(n, i) = IF i = Null THEN -1 ELSE n[i].height
  BY DEF Height
<1>5. \A i \in 0 .. k : Height(m, i) = IF i = Null THEN -1 ELSE m[i].height
  BY DEF Height
<1>6. \A i \in 1 .. k : /\ n[i].parent \in 0 .. k /\ n[i].height \in Nat
                       /\ \A s \in Sides : n[i][s] \in 0 .. k
  BY <1>1, NodeTypes
<1>7. /\ \A i \in 1 .. k, s \in Sides : n[i][s] # Null => n[n[i][s]].parent = i
      /\ \A i \in 1 .. k : n[i].parent # Null => \E s \in Sides : n[n[i].parent][s] = i
      /\ \A i \in 1 .. k, s, t \in Sides : n[i][s] = n[i][t] /\ n[i][s] # Null => s = t
  BY <1>1 DEF Linked
<1>15. \A i \in {e, p, g}, s \in Sides : n[i][s] \in 0 .. k /\ (n[i][s] # Null => n[n[i][s]].parent = i)
  BY <1>1, <1>6, <1>7
<1>16. /\ e \in 1 .. k /\ p \in 1 .. k /\ g \in 1 .. k /\ n[g][heavy] = p /\ n[p].parent = g
       /\ n[g].height = h /\ n[p].height = h /\ n[e].height = h - 1 /\ Height(n, n[g][light]) = h - 2
       /\ e # p /\ e # g /\ p # g /\ n[g].parent \notin {e, p, g} /\ n[e].parent = p
       /\ n[g].parent \in 0 .. k
       /\ n[p][light] \notin {p, g} /\ n[p][heavy] \notin {p, g} /\ n[g][light] \notin {e, p, g}
       /\ heavy # light /\ heavy \in Sides /\ light \in Sides
       /\ n[p][light] # e
       /\ n[e][heavy] # Null => n[e][heavy] # n[e][light]
       /\ n[p][light] # Null => n[p][light] # n[g][light]
  BY <1>1, <1>2, <1>3, <1>7, <1>13 DEF TwoSides, Distinct
<1>14. \A c \in 0 .. k : Height(m, c) = IF c = g THEN h - 1 ELSE Height(n, c)
  BY <1>1, <1>3, <1>4, <1>5 DEF Null
<1>8. \A i \in 1 .. k, s \in Sides : m[i][s] # Null => m[m[i][s]].parent = i
  <2> TAKE i \in 1 .. k, s \in Sides
  <2>1. CASE i = p
    <3>1. CASE s = heavy
      BY <1>12, <1>15, <1>16, <2>1, <3>1 DEF Null
    <3>2. CASE s = light
      BY <1>12, <1>15, <1>16, <2>1, <3>2 DEF Null
    <3> QED BY <1>2, <3>1, <3>2
  <2>2. CASE i = g
    <3>1. CASE s = heavy
      BY <1>12, <1>15, <1>16, <2>2, <3>1 DEF Null
    <3>2. CASE s = light
      BY <1>12, <1>15, <1>16, <2>2, <3>2 DEF Null
    <3> QED BY <1>2, <3>1, <3>2
  <2>3. CASE i = e
    <3>1. CASE s = heavy
      BY <1>12, <1>15, <1>16, <2>3, <3>1 DEF Null
    <3>2. CASE s = light
      BY <1>12, <1>15, <1>16, <2>3, <3>2 DEF Null
    <3> QED BY <1>2, <3>1, <3>2
  <2>4. CASE i \notin {e, p, g}
    <3>1. CASE n[i][s] = g
      BY <1>1, <1>2, <1>3, <1>6, <1>7, <1>12, <2>4, <3>1 DEF Null, TwoSides
    <3>2. CASE n[i][s] # g
      <4>1. m[i][s] = n[i][s] /\ m[i][s] \notin {e, p, g}
        BY <1>3, <2>4, <3>2
      <4>2. ASSUME NEW c \in 1 .. k, c = m[i][s] PROVE m[c].parent = i
        <5>1. n[c].parent = i
          BY <1>7, <4>1, <4>2 DEF Null
        <5> QED BY <1>1, <1>2, <1>7, <2>4, <4>1, <4>2, <5>1 DEF Null
      <4> QED BY <1>6, <4>1, <4>2 DEF Null
    <3> QED BY <3>1, <3>2
  <2> QED BY <2>1, <2>2, <2>3, <2>4
<1>9. \A i \in 1 .. k : m[i].parent # Null => \E s \in Sides : m[m[i].parent][s] = i
  <2> TAKE i \in 1 .. k
  <2>1. CASE i = p
    <3>1. CASE n[g].parent = Null
      BY <1>2, <1>12, <1>15, <1>16, <2>1, <3>1 DEF Null
    <3>2. CASE n[g].parent # Null
      <4>1. PICK s \in Sides : n[n[g].parent][s] = g
        BY <1>7, <1>16, <3>2
      <4> QED BY <1>2, <1>12, <1>15, <1>16, <2>1, <3>2, <4>1 DEF Null
    <3> QED BY <3>1, <3>2
  <2>2. CASE i = g
    <3>1. CASE n[g].parent = Null
      BY <1>2, <1>12, <1>15, <1>16, <2>2, <3>1 DEF Null
    <3>2. CASE n[g].parent # Null
      <4>1. PICK s \in Sides : n[n[g].parent][s] = g
        BY <1>7, <1>16, <3>2
      <4> QED BY <1>2, <1>12, <1>15, <1>16, <2>2, <3>2, <4>1 DEF Null
    <3> QED BY <3>1, <3>2
  <2>3. CASE i = e
    <3>1. CASE n[g].parent = Null
      BY <1>2, <1>12, <1>15, <1>16, <2>3, <3>1 DEF Null
    <3>2. CASE n[g].parent # Null
      <4>1. PICK s \in Sides : n[n[g].parent][s] = g
        BY <1>7, <1>16, <3>2
      <4> QED BY <1>2, <1>12, <1>15, <1>16, <2>3, <3>2, <4>1 DEF Null
    <3> QED BY <3>1, <3>2
  <2>4. CASE i \notin {e, p, g} /\ n[i].parent \in {e, p, g}
    <3>1. CASE n[i].parent = e
      <4>1. PICK s \in Sides : n[e][s] = i
        BY <1>7, <1>16, <3>1 DEF Null
      <4> QED BY <1>2, <1>12, <1>15, <1>16, <2>4, <3>1, <4>1 DEF Null
    <3>2. CASE n[i].parent = p
      <4>1. PICK s \in Sides : n[p][s] = i
        BY <1>7, <1>16, <3>2 DEF Null
      <4> QED BY <1>2, <1>12, <1>15, <1>16, <2>4, <3>2, <4>1 DEF Null
    <3>3. CASE n[i].parent = g
      <4>1. PICK s \in Sides : n[g][s] = i
        BY <1>7, <1>16, <3>3 DEF Null
      <4> QED BY <1>2, <1>12, <1>15, <1>16, <2>4, <3>3, <4>1 DEF Null
    <3> QED BY <2>4, <3>1, <3>2, <3>3
  <2>5. CASE i \notin {e, p, g} /\ n[i].parent \notin {e, p, g}
    <3>1. m[i].parent = n[i].parent
      BY <1>1, <1>2, <1>3, <1>7, <1>12, <2>5 DEF Null, TwoSides
    <3>2. CASE n[i].parent # Null
      <4>1. PICK q \in 1 .. k : q = n[i].parent /\ q \notin {e, p, g}
        BY <1>6, <2>5, <3>2 DEF Null
      <4>2. PICK s \in Sides : n[q][s] = i
        BY <1>7, <3>2, <4>1
      <4>3. m[q][s] = i
        BY <2>5, <4>1, <4>2
      <4> QED BY <3>1, <4>1, <4>3
    <3> QED BY <3>1, <3>2
  <2> QED BY <2>1, <2>2, <2>3, <2>4, <2>5
<1>10. \A i \in 1 .. k, s, t \in Sides : m[i][s] = m[i][t] /\ m[i][s] # Null => s = t
  <2> TAKE i \in 1 .. k, s \in Sides, t \in Sides
  <2>1. CASE i = p
    BY <1>2, <1>12, <1>15, <1>16, <2>1 DEF Null
  <2>2. CASE i = g
    BY <1>2, <1>12, <1>15, <1>16, <2>2 DEF Null
  <2>3. CASE i = e
    BY <1>2, <1>12, <1>15, <1>16, <2>3 DEF Null
  <2>4. CASE i \notin {e, p, g}
    BY <1>1, <1>2, <1>3, <1>6, <1>7, <1>12, <2>4 DEF Null, TwoSides
  <2> QED BY <2>1, <2>2, <2>3, <2>4
<1>11. \A i \in 1 .. k : Fit(m, i)
  <2> TAKE i \in 1 .. k
  <2>1. CASE i = p
    <3>1. Height(m, m[i][heavy]) \in {m[i].height - 1, m[i].height - 2}
      BY <1>4, <1>12, <1>14, <1>15, <1>16, <2>1 DEF Null
    <3>2. Height(m, m[i][light]) \in {m[i].height - 1, m[i].height - 2}
      BY <1>4, <1>12, <1>14, <1>15, <1>16, <2>1 DEF Null
    <3>3. \E s \in Sides : Height(m, m[i][s]) = m[i].height - 1
      BY <1>1, <1>2, <1>3, <1>6, <1>12, <1>14, <2>1 DEF Fit, TwoSides
    <3> QED BY <1>2, <3>1, <3>2, <3>3 DEF Fit
  <2>2. CASE i = g
    <3>1. Height(m, m[i][heavy]) \in {m[i].height - 1, m[i].height - 2}
      BY <1>4, <1>12, <1>14, <1>15, <1>16, <2>2 DEF Null
    <3>2. Height(m, m[i][light]) \in {m[i].height - 1, m[i].height - 2}
      BY <1>4, <1>12, <1>14, <1>15, <1>16, <2>2 DEF Null
    <3>3. \E s \in Sides : Height(m, m[i][s]) = m[i].height - 1
      BY <1>1, <1>2, <1>3, <1>6, <1>12, <1>14, <2>2 DEF Fit, TwoSides
    <3> QED BY <1>2, <3>1, <3>2, <3>3 DEF Fit
  <2>3. CASE i = e
    <3>1. Height(m, m[i][heavy]) \in {m[i].height - 1, m[i].height - 2}
      BY <1>4, <1>12, <1>14, <1>15, <1>16, <2>3 DEF Null
    <3>2. Height(m, m[i][light]) \in {m[i].height - 1, m[i].height - 2}
      BY <1>4, <1>12, <1>14, <1>15, <1>16, <2>3 DEF Null
    <3>3. \E s \in Sides : Height(m, m[i][s]) = m[i].height - 1
      BY <1>1, <1>2, <1>3, <1>6, <1>12, <1>14, <2>3 DEF Fit, TwoSides
    <3> QED BY <1>2, <3>1, <3>2, <3>3 DEF Fit
  <2>4. CASE i \notin {e, p, g}
    <3>1. \A s \in Sides : Height(m, m[i][s]) = Height(n, n[i][s])
      BY <1>1, <1>2, <1>3, <1>4, <1>5, <1>6, <2>4 DEF Null, TwoSides
    <3> QED BY <1>1, <2>4, <3>1 DEF Fit
  <2> QED BY <2>1, <2>2, <2>3, <2>4
<1> QED BY <1>8, <1>9, <1>10, <1>11 DEF Shaped, Linked

(* Cases 2 and 3 of addValue_(): e takes the place of g, and p and g take    *)
(* its children.                                                            *)
InnerPointersTurned(n, m, k, h, heavy, light, e, p, g) ==
  /\ IsTree(m, k) /\ SameContents(n, m, k)
  /\ \A j \in 1 .. k : m[j].parent =
                           (IF j = e THEN n[g].parent ELSE IF j \in {p, g} THEN e
                                           ELSE IF j = n[e][light] THEN g
                                           ELSE IF j = n[e][heavy] THEN p ELSE n[j].parent)
  /\ \A j \in 1 .. k : m[j].height = IF j = e THEN h ELSE IF j \in {p, g} THEN h - 1 ELSE n[j].height
  /\ \A j \in 1 .. k, t \in Sides :
            m[j][t] = IF j = e THEN (IF t = heavy THEN p ELSE g)
                      ELSE IF j = g /\ t = heavy THEN n[e][light]
                      ELSE IF j = p /\ t = light THEN n[e][heavy]
                      ELSE IF j = n[g].parent /\ n[j][t] = g THEN e ELSE n[j][t]

(* That repairs a leaning tree.                                            *)
LEMMA InnerPointers ==
  ASSUME NEW k \in Nat, NEW n, NEW h \in Nat, NEW heavy, NEW light, TwoSides(heavy, light),
         NEW e, NEW p, NEW g, Leaning(n, k, h, heavy, light, e, p, g),
         n[p][light] = e, Height(n, n[p][heavy]) = h - 2,
         NEW m, InnerPointersTurned(n, m, k, h, heavy, light, e, p, g)
  PROVE  Shaped(m, k)
<1> USE DEF InnerPointersTurned
<1>1. /\ IsTree(n, k) /\ Linked(n, k) /\ e \in 1 .. k /\ p \in 1 .. k /\ g \in 1 .. k
      /\ n[g][heavy] = p /\ n[p].parent = g
      /\ n[g].height = h /\ n[p].height = h /\ n[e].height = h - 1
      /\ Height(n, n[g][light]) = h - 2
      /\ \A i \in 1 .. k : i # g => Fit(n, i)
  BY DEF Leaning
<1>2. TwoSides(light, heavy) /\ heavy \in Sides /\ light \in Sides /\ \A s \in Sides : s = heavy \/ s = light
  BY TwoSidesAll DEF TwoSides
<1>13. Distinct(n, k, h, heavy, light, e, p, g, light, heavy)
  BY <1>2, KeysApart
<1>3. /\ e # p /\ e # g /\ p # g
      /\ n[g].parent \notin {e, p, g} /\ n[g].parent \in 0 .. k
      /\ n[p][heavy] \in 0 .. k /\ n[p][light] \in 0 .. k /\ n[g][light] \in 0 .. k
      /\ n[p][light] \notin {p, g} /\ n[p][heavy] \notin {p, g} /\ n[g][light] \notin {e, p, g}
      /\ n[e].parent = p
      /\ \A i \in 1 .. k, s \in Sides :
            /\ n[i][s] = g => i = n[g].parent
            /\ n[i][s] = p => i = g /\ s = heavy
            /\ n[i][s] = e => i = p
  BY <1>1, <1>2, <1>13 DEF Distinct
<1>12. \A s \in Sides : /\ n[e][s] \in 0 .. k /\ n[e][s] \notin {e, p, g}
                        /\ n[e][s] # Null => n[e][s] # n[p][heavy] /\ n[e][s] # n[g][light]
                        /\ Height(n, n[e][s]) \in {h - 2, h - 3}
  BY <1>1, <1>2, <1>13 DEF Distinct
<1>4. \A i \in 0 .. k : Height(n, i) = IF i = Null THEN -1 ELSE n[i].height
  BY DEF Height
<1>5. \A i \in 0 .. k : Height(m, i) = IF i = Null THEN -1 ELSE m[i].height
  BY DEF Height
<1>6. \A i \in 1 .. k : /\ n[i].parent \in 0 .. k /\ n[i].height \in Nat
                       /\ \A s \in Sides : n[i][s] \in 0 .. k
  BY <1>1, NodeTypes
<1>7. /\ \A i \in 1 .. k, s \in Sides : n[i][s] # Null => n[n[i][s]].parent = i
      /\ \A i \in 1 .. k : n[i].parent # Null => \E s \in Sides : n[n[i].parent][s] = i
      /\ \A i \in 1 .. k, s, t \in Sides : n[i][s] = n[i][t] /\ n[i][s] # Null => s = t
  BY <1>1 DEF Linked
<1>15. \A i \in {e, p, g}, s \in Sides : n[i][s] \in 0 .. k /\ (n[i][s] # Null => n[n[i][s]].parent = i)
  BY <1>1, <1>6, <1>7
<1>16. /\ e \in 1 .. k /\ p \in 1 .. k /\ g \in 1 .. k /\ n[g][heavy] = p /\ n[p].parent = g
       /\ n[g].height = h /\ n[p].height = h /\ n[e].height = h - 1 /\ Height(n, n[g][light]) = h - 2
       /\ e # p /\ e # g /\ p # g /\ n[g].parent \notin {e, p, g} /\ n[e].parent = p
       /\ n[g].parent \in 0 .. k
       /\ n[p][light] \notin {p, g} /\ n[p][heavy] \notin {p, g} /\ n[g][light] \notin {e, p, g}
       /\ heavy # light /\ heavy \in Sides /\ light \in Sides
       /\ n[p][heavy] # e
       /\ n[e][heavy] # Null => n[e][heavy] # n[e][light]
       /\ n[p][heavy] # Null => n[p][heavy] # n[g][light]
  BY <1>1, <1>2, <1>3, <1>7, <1>13 DEF TwoSides, Distinct
<1>14. \A c \in 0 .. k : Height(m, c) = IF c = e THEN h ELSE IF c \in {p, g} THEN h - 1 ELSE Height(n, c)
  BY <1>1, <1>3, <1>4, <1>5 DEF Null
<1>8. \A i \in 1 .. k, s \in Sides : m[i][s] # Null => m[m[i][s]].parent = i
  <2> TAKE i \in 1 .. k, s \in Sides
  <2>1. CASE i = p
    <3>1. CASE s = heavy
      BY <1>12, <1>15, <1>16, <2>1, <3>1 DEF Null
    <3>2. CASE s = light
      BY <1>12, <1>15, <1>16, <2>1, <3>2 DEF Null
    <3> QED BY <1>2, <3>1, <3>2
  <2>2. CASE i = g
    <3>1. CASE s = heavy
      BY <1>12, <1>15, <1>16, <2>2, <3>1 DEF Null
    <3>2. CASE s = light
      BY <1>12, <1>15, <1>16, <2>2, <3>2 DEF Null
    <3> QED BY <1>2, <3>1, <3>2
  <2>3. CASE i = e
    <3>1. CASE s = heavy
      BY <1>12, <1>15, <1>16, <2>3, <3>1 DEF Null
    <3>2. CASE s = light
      BY <1>12, <1>15, <1>16, <2>3, <3>2 DEF Null
    <3> QED BY <1>2, <3>1, <3>2
  <2>4. CASE i \notin {e, p, g}
    <3>1. CASE n[i][s] = g
      BY <1>1, <1>2, <1>3, <1>6, <1>7, <1>12, <2>4, <3>1 DEF Null, TwoSides
    <3>2. CASE n[i][s] # g
      <4>1. m[i][s] = n[i][s] /\ m[i][s] \notin {e, p, g}
        BY <1>3, <2>4, <3>2
      <4>2. ASSUME NEW c \in 1 .. k, c = m[i][s] PROVE m[c].parent = i
        <5>1. n[c].parent = i
          BY <1>7, <4>1, <4>2 DEF Null
        <5> QED BY <1>1, <1>2, <1>7, <2>4, <4>1, <4>2, <5>1 DEF Null
      <4> QED BY <1>6, <4>1, <4>2 DEF Null
    <3> QED BY <3>1, <3>2
  <2> QED BY <2>1, <2>2, <2>3, <2>4
<1>9. \A i \in 1 .. k : m[i].parent # Null => \E s \in Sides : m[m[i].parent][s] = i
  <2> TAKE i \in 1 .. k
  <2>1. CASE i = p
    <3>1. CASE n[g].parent = Null
      BY <1>2, <1>12, <1>15, <1>16, <2>1, <3>1 DEF Null
    <3>2. CASE n[g].parent # Null
      <4>1. PICK s \in Sides : n[n[g].parent][s] = g
        BY <1>7, <1>16, <3>2
      <4> QED BY <1>2, <1>12, <1>15, <1>16, <2>1, <3>2, <4>1 DEF Null
    <3> QED BY <3>1, <3>2
  <2>2. CASE i = g
    <3>1. CASE n[g].parent = Null
      BY <1>2, <1>12, <1>15, <1>16, <2>2, <3>1 DEF Null
    <3>2. CASE n[g].parent # Null
      <4>1. PICK s \in Sides : n[n[g].parent][s] = g
        BY <1>7, <1>16, <3>2
      <4> QED BY <1>2, <1>12, <1>15, <1>16, <2>2, <3>2, <4>1 DEF Null
    <3> QED BY <3>1, <3>2
  <2>3. CASE i = e
    <3>1. CASE n[g].parent = Null
      BY <1>2, <1>12, <1>15, <1>16, <2>3, <3>1 DEF Null
    <3>2. CASE n[g].parent # Null
      <4>1. PICK s \in Sides : n[n[g].parent][s] = g
        BY <1>7, <1>16, <3>2
      <4> QED BY <1>2, <1>12, <1>15, <1>16, <2>3, <3>2, <4>1 DEF Null
    <3> QED BY <3>1, <3>2
  <2>4. CASE i \notin {e, p, g} /\ n[i].parent \in {e, p, g}
    <3>1. CASE n[i].parent = e
      <4>1. PICK s \in Sides : n[e][s] = i
        BY <1>7, <1>16, <3>1 DEF Null
      <4> QED BY <1>2, <1>12, <1>15, <1>16, <2>4, <3>1, <4>1 DEF Null
    <3>2. CASE n[i].parent = p
      <4>1. PICK s \in Sides : n[p][s] = i
        BY <1>7, <1>16, <3>2 DEF Null
      <4> QED BY <1>2, <1>12, <1>15, <1>16, <2>4, <3>2, <4>1 DEF Null
    <3>3. CASE n[i].parent = g
      <4>1. PICK s \in Sides : n[g][s] = i
        BY <1>7, <1>16, <3>3 DEF Null
      <4> QED BY <1>2, <1>12, <1>15, <1>16, <2>4, <3>3, <4>1 DEF Null
    <3> QED BY <2>4, <3>1, <3>2, <3>3
  <2>5. CASE i \notin {e, p, g} /\ n[i].parent \notin {e, p, g}
    <3>1. m[i].parent = n[i].parent
      BY <1>1, <1>2, <1>3, <1>7, <1>12, <2>5 DEF Null, TwoSides
    <3>2. CASE n[i].parent # Null
      <4>1. PICK q \in 1 .. k : q = n[i].parent /\ q \notin {e, p, g}
        BY <1>6, <2>5, <3>2 DEF Null
      <4>2. PICK s \in Sides : n[q][s] = i
        BY <1>7, <3>2, <4>1
      <4>3. m[q][s] = i
        BY <2>5, <4>1, <4>2
      <4> QED BY <3>1, <4>1, <4>3
    <3> QED BY <3>1, <3>2
  <2> QED BY <2>1, <2>2, <2>3, <2>4, <2>5
<1>10. \A i \in 1 .. k, s, t \in Sides : m[i][s] = m[i][t] /\ m[i][s] # Null => s = t
  <2> TAKE i \in 1 .. k, s \in Sides, t \in Sides
  <2>1. CASE i = p
    BY <1>2, <1>12, <1>15, <1>16, <2>1 DEF Null
  <2>2. CASE i = g
    BY <1>2, <1>12, <1>15, <1>16, <2>2 DEF Null
  <2>3. CASE i = e
    BY <1>2, <1>12, <1>15, <1>16, <2>3 DEF Null
  <2>4. CASE i \notin {e, p, g}
    BY <1>1, <1>2, <1>3, <1>6, <1>7, <1>12, <2>4 DEF Null, TwoSides
  <2> QED BY <2>1, <2>2, <2>3, <2>4
<1>11. \A i \in 1 .. k : Fit(m, i)
  <2> TAKE i \in 1 .. k
  <2>1. CASE i = p
    <3>1. Height(m, m[i][heavy]) \in {m[i].height - 1, m[i].height - 2}
      BY <1>4, <1>12, <1>14, <1>15, <1>16, <2>1 DEF Null
    <3>2. Height(m, m[i][light]) \in {m[i].height - 1, m[i].height - 2}
      BY <1>4, <1>12, <1>14, <1>15, <1>16, <2>1 DEF Null
    <3>3. \E s \in Sides : Height(m, m[i][s]) = m[i].height - 1
      BY <1>1, <1>2, <1>3, <1>6, <1>12, <1>14, <2>1 DEF Fit, TwoSides
    <3> QED BY <1>2, <3>1, <3>2, <3>3 DEF Fit
  <2>2. CASE i = g
    <3>1. Height(m, m[i][heavy]) \in {m[i].height - 1, m[i].height - 2}
      BY <1>4, <1>12, <1>14, <1>15, <1>16, <2>2 DEF Null
    <3>2. Height(m, m[i][light]) \in {m[i].height - 1, m[i].height - 2}
      BY <1>4, <1>12, <1>14, <1>15, <1>16, <2>2 DEF Null
    <3>3. \E s \in Sides : Height(m, m[i][s]) = m[i].height - 1
      BY <1>1, <1>2, <1>3, <1>6, <1>12, <1>14, <2>2 DEF Fit, TwoSides
    <3> QED BY <1>2, <3>1, <3>2, <3>3 DEF Fit
  <2>3. CASE i = e
    <3>1. Height(m, m[i][heavy]) \in {m[i].height - 1, m[i].height - 2}
      BY <1>4, <1>12, <1>14, <1>15, <1>16, <2>3 DEF Null
    <3>2. Height(m, m[i][light]) \in {m[i].height - 1, m[i].height - 2}
      BY <1>4, <1>12, <1>14, <1>15, <1>16, <2>3 DEF Null
    <3>3. \E s \in Sides : Height(m, m[i][s]) = m[i].height - 1
      BY <1>1, <1>2, <1>3, <1>6, <1>12, <1>14, <2>3 DEF Fit, TwoSides
    <3> QED BY <1>2, <3>1, <3>2, <3>3 DEF Fit
  <2>4. CASE i \notin {e, p, g}
    <3>1. \A s \in Sides : Height(m, m[i][s]) = Height(n, n[i][s])
      BY <1>1, <1>2, <1>3, <1>4, <1>5, <1>6, <2>4 DEF Null, TwoSides
    <3> QED BY <1>1, <2>4, <3>1 DEF Fit
  <2> QED BY <2>1, <2>2, <2>3, <2>4
<1> QED BY <1>8, <1>9, <1>10, <1>11 DEF Shaped, Linked

(* Cases 1 and 4 of addValueSwap_(): p moves to the other side of g.         *)
OuterSwapTurned(n, m, k, h, heavy, light, e, p, g) ==
  /\ IsTree(m, k) /\ ContentsExchanged(n, m, k, p, g)
  /\ \A j \in 1 .. k : m[j].parent =
                           (IF j = e THEN g ELSE IF j = n[g][light] THEN p ELSE n[j].parent)
  /\ \A j \in 1 .. k : m[j].height = IF j = p THEN h - 1 ELSE n[j].height
  /\ \A j \in 1 .. k, t \in Sides :
            m[j][t] = IF j = g THEN (IF t = heavy THEN e ELSE p)
                      ELSE IF j = p THEN (IF t = heavy THEN n[p][light] ELSE n[g][light]) ELSE n[j][t]

(* That repairs a leaning tree.                                            *)
LEMMA OuterSwap ==
  ASSUME NEW k \in Nat, NEW n, NEW h \in Nat, NEW heavy, NEW light, TwoSides(heavy, light),
         NEW e, NEW p, NEW g, Leaning(n, k, h, heavy, light, e, p, g),
         n[p][heavy] = e, Height(n, n[p][light]) = h - 2,
         NEW m, OuterSwapTurned(n, m, k, h, heavy, light, e, p, g)
  PROVE  Shaped(m, k)
<1> USE DEF OuterSwapTurned
<1>1. /\ IsTree(n, k) /\ Linked(n, k) /\ e \in 1 .. k /\ p \in 1 .. k /\ g \in 1 .. k
      /\ n[g][heavy] = p /\ n[p].parent = g
      /\ n[g].height = h /\ n[p].height = h /\ n[e].height = h - 1
      /\ Height(n, n[g][light]) = h - 2
      /\ \A i \in 1 .. k : i # g => Fit(n, i)
  BY DEF Leaning
<1>2. TwoSides(heavy, light) /\ heavy \in Sides /\ light \in Sides /\ \A s \in Sides : s = heavy \/ s = light
  BY TwoSidesAll DEF TwoSides
<1>13. Distinct(n, k, h, heavy, light, e, p, g, heavy, light)
  BY <1>2, KeysApart
<1>3. /\ e # p /\ e # g /\ p # g
      /\ n[g].parent \notin {e, p, g} /\ n[g].parent \in 0 .. k
      /\ n[p][heavy] \in 0 .. k /\ n[p][light] \in 0 .. k /\ n[g][light] \in 0 .. k
      /\ n[p][light] \notin {p, g} /\ n[p][heavy] \notin {p, g} /\ n[g][light] \notin {e, p, g}
      /\ n[e].parent = p
      /\ \A i \in 1 .. k, s \in Sides :
            /\ n[i][s] = g => i = n[g].parent
            /\ n[i][s] = p => i = g /\ s = heavy
            /\ n[i][s] = e => i = p
  BY <1>1, <1>2, <1>13 DEF Distinct
<1>12. \A s \in Sides : /\ n[e][s] \in 0 .. k /\ n[e][s] \notin {e, p, g}
                        /\ n[e][s] # Null => n[e][s] # n[p][light] /\ n[e][s] # n[g][light]
                        /\ Height(n, n[e][s]) \in {h - 2, h - 3}
  BY <1>1, <1>2, <1>13 DEF Distinct
<1>4. \A i \in 0 .. k : Height(n, i) = IF i = Null THEN -1 ELSE n[i].height
  BY DEF Height
<1>5. \A i \in 0 .. k : Height(m, i) = IF i = Null THEN -1 ELSE m[i].height
  BY DEF Height
<1>6. \A i \in 1 .. k : /\ n[i].parent \in 0 .. k /\ n[i].height \in Nat
                       /\ \A s \in Sides : n[i][s] \in 0 .. k
  BY <1>1, NodeTypes
<1>7. /\ \A i \in 1 .. k, s \in Sides : n[i][s] # Null => n[n[i][s]].parent = i
      /\ \A i \in 1 .. k : n[i].parent # Null => \E s \in Sides : n[n[i].parent][s] = i
      /\ \A i \in 1 .. k, s, t \in Sides : n[i][s] = n[i][t] /\ n[i][s] # Null => s = t
  BY <1>1 DEF Linked
<1>15. \A i \in {e, p, g}, s \in Sides : n[i][s] \in 0 .. k /\ (n[i][s] # Null => n[n[i][s]].parent = i)
  BY <1>1, <1>6, <1>7
<1>16. /\ e \in 1 .. k /\ p \in 1 .. k /\ g \in 1 .. k /\ n[g][heavy] = p /\ n[p].parent = g
       /\ n[g].height = h /\ n[p].height = h /\ n[e].height = h - 1 /\ Height(n, n[g][light]) = h - 2
       /\ e # p /\ e # g /\ p # g /\ n[g].parent \notin {e, p, g} /\ n[e].parent = p
       /\ n[g].parent \in 0 .. k
       /\ n[p][light] \notin {p, g} /\ n[p][heavy] \notin {p, g} /\ n[g][light] \notin {e, p, g}
       /\ heavy # light /\ heavy \in Sides /\ light \in Sides
       /\ n[p][light] # e
       /\ n[e][heavy] # Null => n[e][heavy] # n[e][light]
       /\ n[p][light] # Null => n[p][light] # n[g][light]
  BY <1>1, <1>2, <1>3, <1>7, <1>13 DEF TwoSides, Distinct
<1>14. \A c \in 0 .. k : Height(m, c) = IF c = p THEN h - 1 ELSE Height(n, c)
  BY <1>1, <1>3, <1>4, <1>5 DEF Null
<1>8. \A i \in 1 .. k, s \in Sides : m[i][s] # Null => m[m[i][s]].parent = i
  <2> TAKE i \in 1 .. k, s \in Sides
  <2>1. CASE i = p
    <3>1. CASE s = heavy
      BY <1>12, <1>15, <1>16, <2>1, <3>1 DEF Null
    <3>2. CASE s = light
      BY <1>12, <1>15, <1>16, <2>1, <3>2 DEF Null
    <3> QED BY <1>2, <3>1, <3>2
  <2>2. CASE i = g
    <3>1. CASE s = heavy
      BY <1>12, <1>15, <1>16, <2>2, <3>1 DEF Null
    <3>2. CASE s = light
      BY <1>12, <1>15, <1>16, <2>2, <3>2 DEF Null
    <3> QED BY <1>2, <3>1, <3>2
  <2>3. CASE i = e
    <3>1. CASE s = heavy
      BY <1>12, <1>15, <1>16, <2>3, <3>1 DEF Null
    <3>2. CASE s = light
      BY <1>12, <1>15, <1>16, <2>3, <3>2 DEF Null
    <3> QED BY <1>2, <3>1, <3>2
  <2>4. CASE i \notin {e, p, g}
    <3>1. CASE n[i][s] = g
      BY <1>1, <1>2, <1>3, <1>6, <1>7, <1>12, <2>4, <3>1 DEF Null, TwoSides
    <3>2. CASE n[i][s] # g
      <4>1. m[i][s] = n[i][s] /\ m[i][s] \notin {e, p, g}
        BY <1>3, <2>4, <3>2
      <4>2. ASSUME NEW c \in 1 .. k, c = m[i][s] PROVE m[c].parent = i
        <5>1. n[c].parent = i
          BY <1>7, <4>1, <4>2 DEF Null
        <5> QED BY <1>1, <1>2, <1>7, <2>4, <4>1, <4>2, <5>1 DEF Null
      <4> QED BY <1>6, <4>1, <4>2 DEF Null
    <3> QED BY <3>1, <3>2
  <2> QED BY <2>1, <2>2, <2>3, <2>4
<1>9. \A i \in 1 .. k : m[i].parent # Null => \E s \in Sides : m[m[i].parent][s] = i
  <2> TAKE i \in 1 .. k
  <2>1. CASE i = p
    <3>1. CASE n[g].parent = Null
      BY <1>2, <1>12, <1>15, <1>16, <2>1, <3>1 DEF Null
    <3>2. CASE n[g].parent # Null
      <4>1. PICK s \in Sides : n[n[g].parent][s] = g
        BY <1>7, <1>16, <3>2
      <4> QED BY <1>2, <1>12, <1>15, <1>16, <2>1, <3>2, <4>1 DEF Null
    <3> QED BY <3>1, <3>2
  <2>2. CASE i = g
    <3>1. CASE n[g].parent = Null
      BY <1>2, <1>12, <1>15, <1>16, <2>2, <3>1 DEF Null
    <3>2. CASE n[g].parent # Null
      <4>1. PICK s \in Sides : n[n[g].parent][s] = g
        BY <1>7, <1>16, <3>2
      <4> QED BY <1>2, <1>12, <1>15, <1>16, <2>2, <3>2, <4>1 DEF Null
    <3> QED BY <3>1, <3>2
  <2>3. CASE i = e
    <3>1. CASE n[g].parent = Null
      BY <1>2, <1>12, <1>15, <1>16, <2>3, <3>1 DEF Null
    <3>2. CASE n[g].parent # Null
      <4>1. PICK s \in Sides : n[n[g].parent][s] = g
        BY <1>7, <1>16, <3>2
      <4> QED BY <1>2, <1>12, <1>15, <1>16, <2>3, <3>2, <4>1 DEF Null
    <3> QED BY <3>1, <3>2
  <2>4. CASE i \notin {e, p, g} /\ n[i].parent \in {e, p, g}
    <3>1. CASE n[i].parent = e
      <4>1. PICK s \in Sides : n[e][s] = i
        BY <1>7, <1>16, <3>1 DEF Null
      <4> QED BY <1>2, <1>12, <1>15, <1>16, <2>4, <3>1, <4>1 DEF Null
    <3>2. CASE n[i].parent = p
      <4>1. PICK s \in Sides : n[p][s] = i
        BY <1>7, <1>16, <3>2 DEF Null
      <4> QED BY <1>2, <1>12, <1>15, <1>16, <2>4, <3>2, <4>1 DEF Null
    <3>3. CASE n[i].parent = g
      <4>1. PICK s \in Sides : n[g][s] = i
        BY <1>7, <1>16, <3>3 DEF Null
      <4> QED BY <1>2, <1>12, <1>15, <1>16, <2>4, <3>3, <4>1 DEF Null
    <3> QED BY <2>4, <3>1, <3>2, <3>3
  <2>5. CASE i \notin {e, p, g} /\ n[i].parent \notin {e, p, g}
    <3>1. m[i].parent = n[i].parent
      BY <1>1, <1>2, <1>3, <1>7, <1>12, <2>5 DEF Null, TwoSides
    <3>2. CASE n[i].parent # Null
      <4>1. PICK q \in 1 .. k : q = n[i].parent /\ q \notin {e, p, g}
        BY <1>6, <2>5, <3>2 DEF Null
      <4>2. PICK s \in Sides : n[q][s] = i
        BY <1>7, <3>2, <4>1
      <4>3. m[q][s] = i
        BY <2>5, <4>1, <4>2
      <4> QED BY <3>1, <4>1, <4>3
    <3> QED BY <3>1, <3>2
  <2> QED BY <2>1, <2>2, <2>3, <2>4, <2>5
<1>10. \A i \in 1 .. k, s, t \in Sides : m[i][s] = m[i][t] /\ m[i][s] # Null => s = t
  <2> TAKE i \in 1 .. k, s \in Sides, t \in Sides
  <2>1. CASE i = p
    BY <1>2, <1>12, <1>15, <1>16, <2>1 DEF Null
  <2>2. CASE i = g
    BY <1>2, <1>12, <1>15, <1>16, <2>2 DEF Null
  <2>3. CASE i = e
    BY <1>2, <1>12, <1>15, <1>16, <2>3 DEF Null
  <2>4. CASE i \notin {e, p, g}
    BY <1>1, <1>2, <1>3, <1>6, <1>7, <1>12, <2>4 DEF Null, TwoSides
  <2> QED BY <2>1, <2>2, <2>3, <2>4
<1>11. \A i \in 1 .. k : Fit(m, i)
  <2> TAKE i \in 1 .. k
  <2>1. CASE i = p
    <3>1. Height(m, m[i][heavy]) \in {m[i].height - 1, m[i].height - 2}
      BY <1>4, <1>12, <1>14, <1>15, <1>16, <2>1 DEF Null
    <3>2. Height(m, m[i][light]) \in {m[i].height - 1, m[i].height - 2}
      BY <1>4, <1>12, <1>14, <1>15, <1>16, <2>1 DEF Null
    <3>3. \E s \in Sides : Height(m, m[i][s]) = m[i].height - 1
      BY <1>1, <1>2, <1>3, <1>6, <1>12, <1>14, <2>1 DEF Fit, TwoSides
    <3> QED BY <1>2, <3>1, <3>2, <3>3 DEF Fit
  <2>2. CASE i = g
    <3>1. Height(m, m[i][heavy]) \in {m[i].height - 1, m[i].height - 2}
      BY <1>4, <1>12, <1>14, <1>15, <1>16, <2>2 DEF Null
    <3>2. Height(m, m[i][light]) \in {m[i].height - 1, m[i].height - 2}
      BY <1>4, <1>12, <1>14, <1>15, <1>16, <2>2 DEF Null
    <3>3. \E s \in Sides : Height(m, m[i][s]) = m[i].height - 1
      BY <1>1, <1>2, <1>3, <1>6, <1>12, <1>14, <2>2 DEF Fit, TwoSides
    <3> QED BY <1>2, <3>1, <3>2, <3>3 DEF Fit
  <2>3. CASE i = e
    <3>1. Height(m, m[i][heavy]) \in {m[i].height - 1, m[i].height - 2}
      BY <1>4, <1>12, <1>14, <1>15, <1>16, <2>3 DEF Null
    <3>2. Height(m, m[i][light]) \in {m[i].height - 1, m[i].height - 2}
      BY <1>4, <1>12, <1>14, <1>15, <1>16, <2>3 DEF Null
    <3>3. \E s \in Sides : Height(m, m[i][s]) = m[i].height - 1
      BY <1>1, <1>2, <1>3, <1>6, <1>12, <1>14, <2>3 DEF Fit, TwoSides
    <3> QED BY <1>2, <3>1, <3>2, <3>3 DEF Fit
  <2>4. CASE i \notin {e, p, g}
    <3>1. \A s \in Sides : Height(m, m[i][s]) = Height(n, n[i][s])
      BY <1>1, <1>2, <1>3, <1>4, <1>5, <1>6, <2>4 DEF Null, TwoSides
    <3> QED BY <1>1, <2>4, <3>1 DEF Fit
  <2> QED BY <2>1, <2>2, <2>3, <2>4
<1> QED BY <1>8, <1>9, <1>10, <1>11 DEF Shaped, Linked

(* Cases 2 and 3 of addValueSwap_(): e moves to the other side of g.         *)
InnerSwapTurned(n, m, k, h, heavy, light, e, p, g) ==
  /\ IsTree(m, k) /\ ContentsExchanged(n, m, k, e, g)
  /\ \A j \in 1 .. k : m[j].parent =
                           (IF j = e THEN g ELSE IF j = n[g][light] THEN e
                                   ELSE IF j = n[e][heavy] THEN p ELSE n[j].parent)
  /\ \A j \in 1 .. k : m[j].height = IF j \in {e, p} THEN h - 1 ELSE n[j].height
  /\ \A j \in 1 .. k, t \in Sides :
            m[j][t] = IF j = g THEN (IF t = heavy THEN p ELSE e)
                      ELSE IF j = p /\ t = light THEN n[e][heavy]
                      ELSE IF j = e THEN (IF t = heavy THEN n[e][light] ELSE n[g][light]) ELSE n[j][t]

(* That repairs a leaning tree.                                            *)
LEMMA InnerSwap ==
  ASSUME NEW k \in Nat, NEW n, NEW h \in Nat, NEW heavy, NEW light, TwoSides(heavy, light),
         NEW e, NEW p, NEW g, Leaning(n, k, h, heavy, light, e, p, g),
         n[p][light] = e, Height(n, n[p][heavy]) = h - 2,
         NEW m, InnerSwapTurned(n, m, k, h, heavy, light, e, p, g)
  PROVE  Shaped(m, k)
<1> USE DEF InnerSwapTurned
<1>1. /\ IsTree(n, k) /\ Linked(n, k) /\ e \in 1 .. k /\ p \in 1 .. k /\ g \in 1 .. k
      /\ n[g][heavy] = p /\ n[p].parent = g
      /\ n[g].height = h /\ n[p].height = h /\ n[e].height = h - 1
      /\ Height(n, n[g][light]) = h - 2
      /\ \A i \in 1 .. k : i # g => Fit(n, i)
  BY DEF Leaning
<1>2. TwoSides(light, heavy) /\ heavy \in Sides /\ light \in Sides /\ \A s \in Sides : s = heavy \/ s = light
  BY TwoSidesAll DEF TwoSides
<1>13. Distinct(n, k, h, heavy, light, e, p, g, light, heavy)
  BY <1>2, KeysApart
<1>3. /\ e # p /\ e # g /\ p # g
      /\ n[g].parent \notin {e, p, g} /\ n[g].parent \in 0 .. k
      /\ n[p][heavy] \in 0 .. k /\ n[p][light] \in 0 .. k /\ n[g][light] \in 0 .. k
      /\ n[p][light] \notin {p, g} /\ n[p][heavy] \notin {p, g} /\ n[g][light] \notin {e, p, g}
      /\ n[e].parent = p
      /\ \A i \in 1 .. k, s \in Sides :
            /\ n[i][s] = g => i = n[g].parent
            /\ n[i][s] = p => i = g /\ s = heavy
            /\ n[i][s] = e => i = p
  BY <1>1, <1>2, <1>13 DEF Distinct
<1>12. \A s \in Sides : /\ n[e][s] \in 0 .. k /\ n[e][s] \notin {e, p, g}
                        /\ n[e][s] # Null => n[e][s] # n[p][heavy] /\ n[e][s] # n[g][light]
                        /\ Height(n, n[e][s]) \in {h - 2, h - 3}
  BY <1>1, <1>2, <1>13 DEF Distinct
<1>4. \A i \in 0 .. k : Height(n, i) = IF i = Null THEN -1 ELSE n[i].height
  BY DEF Height
<1>5. \A i \in 0 .. k : Height(m, i) = IF i = Null THEN -1 ELSE m[i].height
  BY DEF Height
<1>6. \A i \in 1 .. k : /\ n[i].parent \in 0 .. k /\ n[i].height \in Nat
                       /\ \A s \in Sides : n[i][s] \in 0 .. k
  BY <1>1, NodeTypes
<1>7. /\ \A i \in 1 .. k, s \in Sides : n[i][s] # Null => n[n[i][s]].parent = i
      /\ \A i \in 1 .. k : n[i].parent # Null => \E s \in Sides : n[n[i].parent][s] = i
      /\ \A i \in 1 .. k, s, t \in Sides : n[i][s] = n[i][t] /\ n[i][s] # Null => s = t
  BY <1>1 DEF Linked
<1>15. \A i \in {e, p, g}, s \in Sides : n[i][s] \in 0 .. k /\ (n[i][s] # Null => n[n[i][s]].parent = i)
  BY <1>1, <1>6, <1>7
<1>16. /\ e \in 1 .. k /\ p \in 1 .. k /\ g \in 1 .. k /\ n[g][heavy] = p /\ n[p].parent = g
       /\ n[g].height = h /\ n[p].height = h /\ n[e].height = h - 1 /\ Height(n, n[g][light]) = h - 2
       /\ e # p /\ e # g /\ p # g /\ n[g].parent \notin {e, p, g} /\ n[e].parent = p
       /\ n[g].parent \in 0 .. k
       /\ n[p][light] \notin {p, g} /\ n[p][heavy] \notin {p, g} /\ n[g][light] \notin {e, p, g}
       /\ heavy # light /\ heavy \in Sides /\ light \in Sides
       /\ n[p][heavy] # e
       /\ n[e][heavy] # Null => n[e][heavy] # n[e][light]
       /\ n[p][heavy] # Null => n[p][heavy] # n[g][light]
  BY <1>1, <1>2, <1>3, <1>7, <1>13 DEF TwoSides, Distinct
<1>14. \A c \in 0 .. k : Height(m, c) = IF c \in {e, p} THEN h - 1 ELSE Height(n, c)
  BY <1>1, <1>3, <1>4, <1>5 DEF Null
<1>8. \A i \in 1 .. k, s \in Sides : m[i][s] # Null => m[m[i][s]].parent = i
  <2> TAKE i \in 1 .. k, s \in Sides
  <2>1. CASE i = p
    <3>1. CASE s = heavy
      BY <1>12, <1>15, <1>16, <2>1, <3>1 DEF Null
    <3>2. CASE s = light
      BY <1>12, <1>15, <1>16, <2>1, <3>2 DEF Null
    <3> QED BY <1>2, <3>1, <3>2
  <2>2. CASE i = g
    <3>1. CASE s = heavy
      BY <1>12, <1>15, <1>16, <2>2, <3>1 DEF Null
    <3>2. CASE s = light
      BY <1>12, <1>15, <1>16, <2>2, <3>2 DEF Null
    <3> QED BY <1>2, <3>1, <3>2
  <2>3. CASE i = e
    <3>1. CASE s = heavy
      BY <1>12, <1>15, <1>16, <2>3, <3>1 DEF Null
    <3>2. CASE s = light
      BY <1>12, <1>15, <1>16, <2>3, <3>2 DEF Null
    <3> QED BY <1>2, <3>1, <3>2
  <2>4. CASE i \notin {e, p, g}
    <3>1. CASE n[i][s] = g
      BY <1>1, <1>2, <1>3, <1>6, <1>7, <1>12, <2>4, <3>1 DEF Null, TwoSides
    <3>2. CASE n[i][s] # g
      <4>1. m[i][s] = n[i][s] /\ m[i][s] \notin {e, p, g}
        BY <1>3, <2>4, <3>2
      <4>2. ASSUME NEW c \in 1 .. k, c = m[i][s] PROVE m[c].parent = i
        <5>1. n[c].parent = i
          BY <1>7, <4>1, <4>2 DEF Null
        <5> QED BY <1>1, <1>2, <1>7, <2>4, <4>1, <4>2, <5>1 DEF Null
      <4> QED BY <1>6, <4>1, <4>2 DEF Null
    <3> QED BY <3>1, <3>2
  <2> QED BY <2>1, <2>2, <2>3, <2>4
<1>9. \A i \in 1 .. k : m[i].parent # Null => \E s \in Sides : m[m[i].parent][s] = i
  <2> TAKE i \in 1 .. k
  <2>1. CASE i = p
    <3>1. CASE n[g].parent = Null
      BY <1>2, <1>12, <1>15, <1>16, <2>1, <3>1 DEF Null
    <3>2. CASE n[g].parent # Null
      <4>1. PICK s \in Sides : n[n[g].parent][s] = g
        BY <1>7, <1>16, <3>2
      <4> QED BY <1>2, <1>12, <1>15, <1>16, <2>1, <3>2, <4>1 DEF Null
    <3> QED BY <3>1, <3>2
  <2>2. CASE i = g
    <3>1. CASE n[g].parent = Null
      BY <1>2, <1>12, <1>15, <1>16, <2>2, <3>1 DEF Null
    <3>2. CASE n[g].parent # Null
      <4>1. PICK s \in Sides : n[n[g].parent][s] = g
        BY <1>7, <1>16, <3>2
      <4> QED BY <1>2, <1>12, <1>15, <1>16, <2>2, <3>2, <4>1 DEF Null
    <3> QED BY <3>1, <3>2
  <2>3. CASE i = e
    <3>1. CASE n[g].parent = Null
      BY <1>2, <1>12, <1>15, <1>16, <2>3, <3>1 DEF Null
    <3>2. CASE n[g].parent # Null
      <4>1. PICK s \in Sides : n[n[g].parent][s] = g
        BY <1>7, <1>16, <3>2
      <4> QED BY <1>2, <1>12, <1>15, <1>16, <2>3, <3>2, <4>1 DEF Null
    <3> QED BY <3>1, <3>2
  <2>4. CASE i \notin {e, p, g} /\ n[i].parent \in {e, p, g}
    <3>1. CASE n[i].parent = e
      <4>1. PICK s \in Sides : n[e][s] = i
        BY <1>7, <1>16, <3>1 DEF Null
      <4> QED BY <1>2, <1>12, <1>15, <1>16, <2>4, <3>1, <4>1 DEF Null
    <3>2. CASE n[i].parent = p
      <4>1. PICK s \in Sides : n[p][s] = i
        BY <1>7, <1>16, <3>2 DEF Null
      <4> QED BY <1>2, <1>12, <1>15, <1>16, <2>4, <3>2, <4>1 DEF Null
    <3>3. CASE n[i].parent = g
      <4>1. PICK s \in Sides : n[g][s] = i
        BY <1>7, <1>16, <3>3 DEF Null
      <4> QED BY <1>2, <1>12, <1>15, <1>16, <2>4, <3>3, <4>1 DEF Null
    <3> QED BY <2>4, <3>1, <3>2, <3>3
  <2>5. CASE i \notin {e, p, g} /\ n[i].parent \notin {e, p, g}
    <3>1. m[i].parent = n[i].parent
      BY <1>1, <1>2, <1>3, <1>7, <1>12, <2>5 DEF Null, TwoSides
    <3>2. CASE n[i].parent # Null
      <4>1. PICK q \in 1 .. k : q = n[i].parent /\ q \notin {e, p, g}
        BY <1>6, <2>5, <3>2 DEF Null
      <4>2. PICK s \in Sides : n[q][s] = i
        BY <1>7, <3>2, <4>1
      <4>3. m[q][s] = i
        BY <2>5, <4>1, <4>2
      <4> QED BY <3>1, <4>1, <4>3
    <3> QED BY <3>1, <3>2
  <2> QED BY <2>1, <2>2, <2>3, <2>4, <2>5
<1>10. \A i \in 1 .. k, s, t \in Sides : m[i][s] = m[i][t] /\ m[i][s] # Null => s = t
  <2> TAKE i \in 1 .. k, s \in Sides, t \in Sides
  <2>1. CASE i = p
    BY <1>2, <1>12, <1>15, <1>16, <2>1 DEF Null
  <2>2. CASE i = g
    BY <1>2, <1>12, <1>15, <1>16, <2>2 DEF Null
  <2>3. CASE i = e
    BY <1>2, <1>12, <1>15, <1>16, <2>3 DEF Null
  <2>4. CASE i \notin {e, p, g}
    BY <1>1, <1>2, <1>3, <1>6, <1>7, <1>12, <2>4 DEF Null, TwoSides
  <2> QED BY <2>1, <2>2, <2>3, <2>4
<1>11. \A i \in 1 .. k : Fit(m, i)
  <2> TAKE i \in 1 .. k
  <2>1. CASE i = p
    <3>1. Height(m, m[i][heavy]) \in {m[i].height - 1, m[i].height - 2}
      BY <1>4, <1>12, <1>14, <1>15, <1>16, <2>1 DEF Null
    <3>2. Height(m, m[i][light]) \in {m[i].height - 1, m[i].height - 2}
      BY <1>4, <1>12, <1>14, <1>15, <1>16, <2>1 DEF Null
    <3>3. \E s \in Sides : Height(m, m[i][s]) = m[i].height - 1
      BY <1>1, <1>2, <1>3, <1>6, <1>12, <1>14, <2>1 DEF Fit, TwoSides
    <3> QED BY <1>2, <3>1, <3>2, <3>3 DEF Fit
  <2>2. CASE i = g
    <3>1. Height(m, m[i][heavy]) \in {m[i].height - 1, m[i].height - 2}
      BY <1>4, <1>12, <1>14, <1>15, <1>16, <2>2 DEF Null
    <3>2. Height(m, m[i][light]) \in {m[i].height - 1, m[i].height - 2}
      BY <1>4, <1>12, <1>14, <1>15, <1>16, <2>2 DEF Null
    <3>3. \E s \in Sides : Height(m, m[i][s]) = m[i].height - 1
      BY <1>1, <1>2, <1>3, <1>6, <1>12, <1>14, <2>2 DEF Fit, TwoSides
    <3> QED BY <1>2, <3>1, <3>2, <3>3 DEF Fit
  <2>3. CASE i = e
    <3>1. Height(m, m[i][heavy]) \in {m[i].height - 1, m[i].height - 2}
      BY <1>4, <1>12, <1>14, <1>15, <1>16, <2>3 DEF Null
    <3>2. Height(m, m[i][light]) \in {m[i].height - 1, m[i].height - 2}
      BY <1>4, <1>12, <1>14, <1>15, <1>16, <2>3 DEF Null
    <3>3. \E s \in Sides : Height(m, m[i][s]) = m[i].height - 1
      BY <1>1, <1>2, <1>3, <1>6, <1>12, <1>14, <2>3 DEF Fit, TwoSides
    <3> QED BY <1>2, <3>1, <3>2, <3>3 DEF Fit
  <2>4. CASE i \notin {e, p, g}
    <3>1. \A s \in Sides : Height(m, m[i][s]) = Height(n, n[i][s])
      BY <1>1, <1>2, <1>3, <1>4, <1>5, <1>6, <2>4 DEF Null, TwoSides
    <3> QED BY <1>1, <2>4, <3>1 DEF Fit
  <2> QED BY <2>1, <2>2, <2>3, <2>4
<1> QED BY <1>8, <1>9, <1>10, <1>11 DEF Shaped, Linked

-----------------------------------------------------------------------------
(* What the four rotations do to the fields, and that a leaning tree is      *)
(* shaped again. The last node of each chain is the result.                  *)
ChildrenFit(n, i, h) ==
  /\ \A s \in Sides : Height(n, n[i][s]) \in {h - 1, h - 2}
  /\ \E s \in Sides : Height(n, n[i][s]) = h - 1

(* setHeightFromChildren() yields h if the higher child has h - 1.         *)
LEMMA SetHeightFields ==
  ASSUME NEW k \in Nat, NEW n, IsTree(n, k), NEW i \in 1 .. k, NEW h \in Nat, ChildrenFit(n, i, h)
  PROVE  /\ IsTree(SetHeightFromChildren(n, i), k)
         /\ HeightSet(n, SetHeightFromChildren(n, i), k, i, h)
<1>1. n[i].small = n[i]["small"] /\ n[i].large = n[i]["large"] /\ "small" \in Sides /\ "large" \in Sides
  BY NodeTypes DEF Sides
<1>2. \A s \in Sides : s = "small" \/ s = "large"
  BY DEF Sides
<1> DEFINE lh == Height(n, n[i].small)
           rh == Height(n, n[i].large)
<1>3. /\ lh \in {h - 1, h - 2} /\ rh \in {h - 1, h - 2}
      /\ lh = h - 1 \/ rh = h - 1
  BY <1>1, <1>2 DEF ChildrenFit
<1>4. SetHeightFromChildren(n, i) = WithHeight(n, i, (IF lh >= rh THEN lh ELSE rh) + 1)
  BY DEF SetHeightFromChildren, WithHeight
<1> HIDE DEF lh, rh
<1>5. (IF lh >= rh THEN lh ELSE rh) + 1 = h
  BY <1>3
<1> QED BY <1>4, <1>5, SetHeight

(* stealParent() in a rotation.                                            *)
LEMMA StealGrandParent ==
  ASSUME NEW k \in Nat, NEW h \in Nat, NEW heavy, NEW light, TwoSides(heavy, light),
         Leaning(node, k, h, heavy, light, entry, parent, grandParent),
         NEW c \in 1 .. k
  PROVE  /\ IsTree(StealParent(node, grandParent, c), k)
         /\ ParentStolen(node, StealParent(node, grandParent, c), k, grandParent, c)
<1>1. IsTree(node, k) /\ Linked(node, k) /\ grandParent \in 1 .. k
  BY DEF Leaning
<1>2. node[grandParent].parent \in 0 .. k
  BY <1>1, NodeTypes
<1>3. node[grandParent].parent # Null => OnOneSide(node, node[grandParent].parent, grandParent)
  BY <1>1, <1>2 DEF Linked, Null, OnOneSide
<1> QED BY <1>1, <1>3, StealParentFields

(* Cases 1 and 4 of addValue_(), assignment by assignment.                 *)
LEMMA RotateOuterPointersShapes ==
  ASSUME NEW k \in Nat, NEW h \in Nat, NEW heavy, NEW light, TwoSides(heavy, light),
         Leaning(node, k, h, heavy, light, entry, parent, grandParent),
         node[parent][heavy] = entry, Height(node, node[parent][light]) = h - 2
  PROVE  /\ IsTree(RotateOuterPointers(heavy, light), k)
         /\ Shaped(RotateOuterPointers(heavy, light), k)
         /\ OuterPointersTurned(node, RotateOuterPointers(heavy, light), k, h, heavy, light, entry, parent, grandParent)
<1>1. /\ IsTree(node, k) /\ entry \in 1 .. k /\ parent \in 1 .. k /\ grandParent \in 1 .. k
      /\ parent # grandParent /\ heavy \in Sides /\ light \in Sides /\ heavy # light
      /\ node[grandParent].height = h /\ node[entry].height = h - 1
  BY DEF Leaning, TwoSides
<1>2. h - 1 \in Nat
  BY <1>1, NodeTypes
<1>3. PICK sibling \in 0 .. k : sibling = node[parent][light]
  BY <1>1, NodeTypes
<1>4. PICK a : a = StealParent(node, grandParent, parent)
  OBVIOUS
<1>5. IsTree(a, k) /\ ParentStolen(node, a, k, grandParent, parent)
  BY <1>1, <1>4, StealGrandParent
<1>6. PICK b : b = WithChild(a, parent, light, grandParent)
  OBVIOUS
<1>7. IsTree(b, k) /\ ChildSet(a, b, k, parent, light, grandParent)
  BY <1>1, <1>5, <1>6, SetChild
<1>8. PICK c : c = WithParent(b, grandParent, parent)
  OBVIOUS
<1>9. IsTree(c, k) /\ ParentSet(b, c, k, grandParent, parent)
  BY <1>1, <1>7, <1>8, SetUp
<1>10. PICK d : d = WithChild(c, grandParent, heavy, sibling)
  OBVIOUS
<1>11. IsTree(d, k) /\ ChildSet(c, d, k, grandParent, heavy, sibling)
  BY <1>1, <1>9, <1>10, SetChild
<1>12. PICK f : f = WithHeight(d, grandParent, h - 1)
  OBVIOUS
<1>13. IsTree(f, k) /\ HeightSet(d, f, k, grandParent, h - 1)
  BY <1>1, <1>2, <1>11, <1>12, SetHeight
<1>14. PICK m : m = SetParent(f, sibling, grandParent)
  OBVIOUS
<1>15. IsTree(m, k) /\ ParentSet(f, m, k, sibling, grandParent)
  BY <1>1, <1>13, <1>14, SetParentFields
<1>16. RotateOuterPointers(heavy, light) = m
  BY <1>1, <1>3, <1>4, <1>6, <1>8, <1>10, <1>12, <1>14
     DEF RotateOuterPointers, WithChild, WithParent, WithHeight
<1>17. IsTree(m, k)
  BY <1>15
<1>18. \A j \in 1 .. k : m[j].parent = (IF j = parent THEN node[grandParent].parent ELSE IF j = grandParent THEN parent
                                         ELSE IF j = node[parent][light] THEN grandParent ELSE node[j].parent)
  <2>1. Distinct(node, k, h, heavy, light, entry, parent, grandParent, heavy, light)
    BY KeysApart
  <2>2. sibling # parent /\ sibling # grandParent
    BY <1>3, <2>1 DEF Distinct
  <2> QED BY <1>1, <1>3, <1>5, <1>7, <1>9, <1>11, <1>13, <1>15, <2>2
             DEF ParentStolen, ChildSet, ParentSet, HeightSet
<1>19. \A j \in 1 .. k : m[j].height = IF j = grandParent THEN h - 1 ELSE node[j].height
  BY <1>5, <1>7, <1>9, <1>11, <1>13, <1>15 DEF ParentStolen, ChildSet, ParentSet, HeightSet
<1>20. \A j \in 1 .. k, t \in Sides :
          m[j][t] = IF j = grandParent /\ t = heavy THEN node[parent][light]
                    ELSE IF j = parent /\ t = light THEN grandParent
                    ELSE IF j = node[grandParent].parent /\ node[j][t] = grandParent THEN parent ELSE node[j][t]
  BY <1>1, <1>3, <1>5, <1>7, <1>9, <1>11, <1>13, <1>15 DEF ParentStolen, ChildSet, ParentSet, HeightSet
<1>21. SameContents(node, m, k)
  BY <1>5, <1>7, <1>9, <1>11, <1>13, <1>15
     DEF ParentStolen, ChildSet, ParentSet, HeightSet, SameContents
<1>22. OuterPointersTurned(node, m, k, h, heavy, light, entry, parent, grandParent)
  BY <1>17, <1>18, <1>19, <1>20, <1>21 DEF OuterPointersTurned
<1>23. Shaped(m, k)
  BY <1>1, <1>22, OuterPointers
<1> QED BY <1>16, <1>17, <1>22, <1>23

(* Cases 1 and 4 of addValueSwap_().                                       *)
LEMMA RotateOuterSwapShapes ==
  ASSUME NEW k \in Nat, NEW h \in Nat, NEW heavy, NEW light, TwoSides(heavy, light),
         Leaning(node, k, h, heavy, light, entry, parent, grandParent),
         node[parent][heavy] = entry, Height(node, node[parent][light]) = h - 2
  PROVE  /\ IsTree(RotateOuterSwap(heavy, light), k)
         /\ Shaped(RotateOuterSwap(heavy, light), k)
         /\ OuterSwapTurned(node, RotateOuterSwap(heavy, light), k, h, heavy, light, entry, parent, grandParent)
<1>1. /\ IsTree(node, k) /\ entry \in 1 .. k /\ parent \in 1 .. k /\ grandParent \in 1 .. k
      /\ parent # grandParent /\ heavy \in Sides /\ light \in Sides /\ heavy # light
      /\ \A s \in Sides : s = heavy \/ s = light
      /\ node[parent].height = h /\ node[entry].height = h - 1
  BY TwoSidesAll DEF Leaning, TwoSides
<1>2. h - 1 \in Nat
  BY <1>1, NodeTypes
<1>3. PICK inner \in 0 .. k, lower \in 0 .. k : inner = node[parent][light] /\ lower = node[grandParent][light]
  BY <1>1, NodeTypes
<1>4. PICK a : a = WithChild(node, grandParent, heavy, entry)
  OBVIOUS
<1>5. IsTree(a, k) /\ ChildSet(node, a, k, grandParent, heavy, entry)
  BY <1>1, <1>4, SetChild
<1>6. PICK b : b = WithParent(a, entry, grandParent)
  OBVIOUS
<1>7. IsTree(b, k) /\ ParentSet(a, b, k, entry, grandParent)
  BY <1>1, <1>5, <1>6, SetUp
<1>8. PICK c : c = WithChild(b, parent, heavy, inner)
  OBVIOUS
<1>9. IsTree(c, k) /\ ChildSet(b, c, k, parent, heavy, inner)
  BY <1>1, <1>7, <1>8, SetChild
<1>10. PICK d : d = WithHeight(c, parent, h - 1)
  OBVIOUS
<1>11. IsTree(d, k) /\ HeightSet(c, d, k, parent, h - 1)
  BY <1>1, <1>2, <1>9, <1>10, SetHeight
<1>12. PICK f : f = WithChild(d, parent, light, lower)
  OBVIOUS
<1>13. IsTree(f, k) /\ ChildSet(d, f, k, parent, light, lower)
  BY <1>1, <1>11, <1>12, SetChild
<1>14. PICK q : q = WithChild(f, grandParent, light, parent)
  OBVIOUS
<1>15. IsTree(q, k) /\ ChildSet(f, q, k, grandParent, light, parent)
  BY <1>1, <1>13, <1>14, SetChild
<1>16. PICK r : r = SetParent(q, lower, parent)
  OBVIOUS
<1>17. IsTree(r, k) /\ ParentSet(q, r, k, lower, parent)
  BY <1>1, <1>15, <1>16, SetParentFields
<1>18. PICK m : m = SwapNodes(r, parent, grandParent)
  OBVIOUS
<1>19. IsTree(m, k) /\ ShapeKept(r, m, k) /\ ContentsExchanged(r, m, k, parent, grandParent)
  BY <1>1, <1>17, <1>18, SwapNodesFields
<1>20. RotateOuterSwap(heavy, light) = m
  BY <1>1, <1>3, <1>4, <1>6, <1>8, <1>10, <1>12, <1>14, <1>16, <1>18
     DEF RotateOuterSwap, WithChild, WithParent, WithHeight
<1>21. IsTree(m, k)
  BY <1>19
<1>22. lower \notin {entry, parent, grandParent}
  BY <1>1, <1>3, KeysApart DEF Distinct
<1>23. \A j \in 1 .. k : m[j].parent = (IF j = entry THEN grandParent
                                         ELSE IF j = node[grandParent][light] THEN parent ELSE node[j].parent)
  BY <1>1, <1>3, <1>5, <1>7, <1>9, <1>11, <1>13, <1>15, <1>17, <1>19, <1>22
     DEF ChildSet, ParentSet, HeightSet, ShapeKept
<1>24. \A j \in 1 .. k : m[j].height = IF j = parent THEN h - 1 ELSE node[j].height
  BY <1>5, <1>7, <1>9, <1>11, <1>13, <1>15, <1>17, <1>19 DEF ChildSet, ParentSet, HeightSet, ShapeKept
<1>25. \A j \in 1 .. k, t \in Sides :
          m[j][t] = IF j = grandParent THEN (IF t = heavy THEN entry ELSE parent)
                    ELSE IF j = parent THEN (IF t = heavy THEN node[parent][light] ELSE node[grandParent][light])
                    ELSE node[j][t]
  BY <1>1, <1>3, <1>5, <1>7, <1>9, <1>11, <1>13, <1>15, <1>17, <1>19 DEF ChildSet, ParentSet, HeightSet, ShapeKept
<1>26. ContentsExchanged(node, m, k, parent, grandParent)
  <2>1. SameContents(node, r, k)
    BY <1>5, <1>7, <1>9, <1>11, <1>13, <1>15, <1>17 DEF ChildSet, ParentSet, HeightSet, SameContents
  <2> QED BY <1>1, <1>19, <2>1 DEF SameContents, ContentsExchanged
<1>27. OuterSwapTurned(node, m, k, h, heavy, light, entry, parent, grandParent)
  BY <1>21, <1>23, <1>24, <1>25, <1>26 DEF OuterSwapTurned
<1>28. Shaped(m, k)
  BY <1>1, <1>27, OuterSwap
<1> QED BY <1>20, <1>21, <1>27, <1>28

(* Cases 2 and 3 of addValueSwap_().                                       *)
LEMMA RotateInnerSwapShapes ==
  ASSUME NEW k \in Nat, NEW h \in Nat, NEW heavy, NEW light, TwoSides(heavy, light),
         Leaning(node, k, h, heavy, light, entry, parent, grandParent),
         node[parent][light] = entry, Height(node, node[parent][heavy]) = h - 2
  PROVE  /\ IsTree(RotateInnerSwap(heavy, light), k)
         /\ Shaped(RotateInnerSwap(heavy, light), k)
         /\ InnerSwapTurned(node, RotateInnerSwap(heavy, light), k, h, heavy, light, entry, parent, grandParent)
<1>1. /\ IsTree(node, k) /\ entry \in 1 .. k /\ parent \in 1 .. k /\ grandParent \in 1 .. k
      /\ parent # grandParent /\ entry # grandParent
      /\ heavy \in Sides /\ light \in Sides /\ heavy # light /\ TwoSides(light, heavy)
      /\ \A s \in Sides : s = heavy \/ s = light
      /\ node[grandParent].height = h /\ node[parent].height = h /\ node[entry].height = h - 1
      /\ Height(node, node[grandParent][light]) = h - 2
  BY TwoSidesAll DEF Leaning, TwoSides
<1>2. h - 1 \in Nat /\ h - 2 + 1 = h - 1
  BY <1>1, NodeTypes
<1>3. PICK inner \in 0 .. k, outer \in 0 .. k, lower \in 0 .. k :
         inner = node[entry][light] /\ outer = node[entry][heavy] /\ lower = node[grandParent][light]
  BY <1>1, NodeTypes
<1>4. /\ lower \notin {entry, parent, grandParent} /\ entry # parent
      /\ inner \notin {entry, parent, grandParent} /\ outer \notin {entry, parent, grandParent}
      /\ inner # Null => inner # lower /\ inner # outer
      /\ outer # Null => outer # lower
      /\ inner # Null => node[inner].parent = entry
  <2>1. Distinct(node, k, h, heavy, light, entry, parent, grandParent, light, heavy)
    BY <1>1, KeysApart
  <2>2. Linked(node, k)
    BY DEF Leaning
  <2> QED BY <1>1, <1>3, <2>1, <2>2 DEF Distinct, Linked
<1>5. PICK a : a = WithChild(node, parent, light, outer)
  OBVIOUS
<1>6. IsTree(a, k) /\ ChildSet(node, a, k, parent, light, outer)
  BY <1>1, <1>5, SetChild
<1>7. PICK b : b = WithHeight(a, parent, h - 1)
  OBVIOUS
<1>8. IsTree(b, k) /\ HeightSet(a, b, k, parent, h - 1)
  BY <1>1, <1>2, <1>6, <1>7, SetHeight
<1>9. PICK c : c = WithChild(b, entry, light, lower)
  OBVIOUS
<1>10. IsTree(c, k) /\ ChildSet(b, c, k, entry, light, lower)
  BY <1>1, <1>8, <1>9, SetChild
<1>11. PICK d : d = WithChild(c, entry, heavy, inner)
  OBVIOUS
<1>12. IsTree(d, k) /\ ChildSet(c, d, k, entry, heavy, inner)
  BY <1>1, <1>10, <1>11, SetChild
<1>13. PICK f : f = WithHeight(d, entry, h - 1)
  OBVIOUS
<1>14. IsTree(f, k) /\ HeightSet(d, f, k, entry, h - 1)
  BY <1>1, <1>2, <1>12, <1>13, SetHeight
<1>15. PICK q : q = WithChild(f, grandParent, light, entry)
  OBVIOUS
<1>16. IsTree(q, k) /\ ChildSet(f, q, k, grandParent, light, entry)
  BY <1>1, <1>14, <1>15, SetChild
<1>17. PICK r : r = WithParent(q, entry, grandParent)
  OBVIOUS
<1>18. IsTree(r, k) /\ ParentSet(q, r, k, entry, grandParent)
  BY <1>1, <1>16, <1>17, SetUp
<1>19. PICK u : u = SetParent(r, lower, entry)
  OBVIOUS
<1>20. IsTree(u, k) /\ ParentSet(r, u, k, lower, entry)
  BY <1>1, <1>18, <1>19, SetParentFields
<1>21. PICK v : v = SetParent(u, outer, parent)
  OBVIOUS
<1>22. IsTree(v, k) /\ ParentSet(u, v, k, outer, parent)
  BY <1>1, <1>20, <1>21, SetParentFields
<1>23. PICK w : w = SetParent(v, inner, entry)
  OBVIOUS
<1>24. IsTree(w, k) /\ ParentSet(v, w, k, inner, entry)
  BY <1>1, <1>22, <1>23, SetParentFields
<1>25. PICK m : m = SwapNodes(w, entry, grandParent)
  OBVIOUS
<1>26. IsTree(m, k) /\ ShapeKept(w, m, k) /\ ContentsExchanged(w, m, k, entry, grandParent)
  BY <1>1, <1>24, <1>25, SwapNodesFields
<1>27. RotateInnerSwap(heavy, light) = m
  BY <1>1, <1>2, <1>3, <1>5, <1>7, <1>9, <1>11, <1>13, <1>15, <1>17, <1>19, <1>21, <1>23, <1>25
     DEF RotateInnerSwap, WithChild, WithParent, WithHeight
<1>28. IsTree(m, k)
  BY <1>26
<1>29. \A j \in 1 .. k : m[j].parent = (IF j = entry THEN grandParent ELSE IF j = node[grandParent][light] THEN entry
                                         ELSE IF j = node[entry][heavy] THEN parent ELSE node[j].parent)
  BY <1>1, <1>3, <1>4, <1>6, <1>8, <1>10, <1>12, <1>14, <1>16, <1>18, <1>20, <1>22, <1>24, <1>26
     DEF ChildSet, ParentSet, HeightSet, ShapeKept, Null
<1>30. \A j \in 1 .. k : m[j].height = IF j \in {entry, parent} THEN h - 1 ELSE node[j].height
  BY <1>6, <1>8, <1>10, <1>12, <1>14, <1>16, <1>18, <1>20, <1>22, <1>24, <1>26
     DEF ChildSet, ParentSet, HeightSet, ShapeKept
<1>31. \A j \in 1 .. k, t \in Sides :
          m[j][t] = IF j = grandParent THEN (IF t = heavy THEN parent ELSE entry)
                    ELSE IF j = parent /\ t = light THEN node[entry][heavy]
                    ELSE IF j = entry THEN (IF t = heavy THEN node[entry][light] ELSE node[grandParent][light])
                    ELSE node[j][t]
  <2>1. node[grandParent][heavy] = parent
    BY DEF Leaning
  <2> QED BY <1>1, <1>3, <1>4, <1>6, <1>8, <1>10, <1>12, <1>14, <1>16, <1>18, <1>20, <1>22, <1>24, <1>26, <2>1
             DEF ChildSet, ParentSet, HeightSet, ShapeKept
<1>32. ContentsExchanged(node, m, k, entry, grandParent)
  <2>1. SameContents(node, w, k)
    BY <1>6, <1>8, <1>10, <1>12, <1>14, <1>16, <1>18, <1>20, <1>22, <1>24
       DEF ChildSet, ParentSet, HeightSet, SameContents
  <2> QED BY <1>1, <1>26, <2>1 DEF SameContents, ContentsExchanged
<1>33. InnerSwapTurned(node, m, k, h, heavy, light, entry, parent, grandParent)
  BY <1>28, <1>29, <1>30, <1>31, <1>32 DEF InnerSwapTurned
<1>34. Shaped(m, k)
  BY <1>1, <1>33, InnerSwap
<1> QED BY <1>27, <1>28, <1>33, <1>34

(* Cases 2 and 3 of addValue_().                                           *)
LEMMA RotateInnerPointersShapes ==
  ASSUME NEW k \in Nat, NEW h \in Nat, NEW heavy, NEW light, TwoSides(heavy, light),
         Leaning(node, k, h, heavy, light, entry, parent, grandParent),
         node[parent][light] = entry, Height(node, node[parent][heavy]) = h - 2
  PROVE  /\ IsTree(RotateInnerPointers(heavy, light), k)
         /\ Shaped(RotateInnerPointers(heavy, light), k)
         /\ InnerPointersTurned(node, RotateInnerPointers(heavy, light), k, h, heavy, light, entry, parent, grandParent)
<1>1. /\ IsTree(node, k) /\ entry \in 1 .. k /\ parent \in 1 .. k /\ grandParent \in 1 .. k
      /\ parent # grandParent /\ entry # grandParent /\ node[grandParent][heavy] = parent
      /\ heavy \in Sides /\ light \in Sides /\ heavy # light /\ TwoSides(light, heavy)
      /\ \A s \in Sides : s = heavy \/ s = light
      /\ node[grandParent].height = h /\ node[parent].height = h /\ node[entry].height = h - 1
      /\ Height(node, node[grandParent][light]) = h - 2
  BY TwoSidesAll DEF Leaning, TwoSides
<1>2. h - 1 \in Nat /\ (h - 1) - 1 = h - 2 /\ (h - 1) - 2 = h - 3
  BY <1>1, NodeTypes
<1>3. PICK inner \in 0 .. k, outer \in 0 .. k :
         inner = node[entry][light] /\ outer = node[entry][heavy]
  BY <1>1, NodeTypes
<1>4. /\ entry # parent
      /\ inner \notin {entry, parent, grandParent} /\ outer \notin {entry, parent, grandParent}
      /\ node[grandParent][light] \in 0 .. k /\ node[grandParent][light] \notin {entry, parent, grandParent}
      /\ node[parent][heavy] \in 0 .. k /\ node[parent][heavy] \notin {entry, parent, grandParent}
      /\ Height(node, inner) \in {h - 2, h - 3} /\ Height(node, outer) \in {h - 2, h - 3}
      /\ inner # Null => inner # outer
      /\ node[grandParent].parent \notin {entry, parent, grandParent}
  <2>1. Distinct(node, k, h, heavy, light, entry, parent, grandParent, light, heavy)
    BY <1>1, KeysApart
  <2>2. Linked(node, k)
    BY DEF Leaning
  <2> QED BY <1>1, <1>3, <2>1, <2>2 DEF Distinct, Linked
<1>5. PICK a : a = StealParent(node, grandParent, entry)
  OBVIOUS
<1>6. IsTree(a, k) /\ ParentStolen(node, a, k, grandParent, entry)
  BY <1>1, <1>5, StealGrandParent
<1>7. PICK b : b = WithChild(a, entry, heavy, parent)
  OBVIOUS
<1>8. IsTree(b, k) /\ ChildSet(a, b, k, entry, heavy, parent)
  BY <1>1, <1>6, <1>7, SetChild
<1>9. PICK c : c = WithChild(b, entry, light, grandParent)
  OBVIOUS
<1>10. IsTree(c, k) /\ ChildSet(b, c, k, entry, light, grandParent)
  BY <1>1, <1>8, <1>9, SetChild
<1>11. PICK d : d = WithHeight(c, entry, h)
  OBVIOUS
<1>12. IsTree(d, k) /\ HeightSet(c, d, k, entry, h)
  BY <1>1, <1>10, <1>11, SetHeight
<1>13. PICK f : f = WithParent(d, grandParent, entry)
  OBVIOUS
<1>14. IsTree(f, k) /\ ParentSet(d, f, k, grandParent, entry)
  BY <1>1, <1>12, <1>13, SetUp
<1>15. PICK q : q = WithChild(f, grandParent, heavy, inner)
  OBVIOUS
<1>16. IsTree(q, k) /\ ChildSet(f, q, k, grandParent, heavy, inner)
  BY <1>1, <1>14, <1>15, SetChild
<1>17. PICK r : r = WithParent(q, parent, entry)
  OBVIOUS
<1>18. IsTree(r, k) /\ ParentSet(q, r, k, parent, entry)
  BY <1>1, <1>16, <1>17, SetUp
<1>19. PICK u : u = WithChild(r, parent, light, outer)
  OBVIOUS
<1>20. IsTree(u, k) /\ ChildSet(r, u, k, parent, light, outer)
  BY <1>1, <1>18, <1>19, SetChild
<1>21. \A j \in 1 .. k : u[j].height = IF j = entry THEN h ELSE node[j].height
  BY <1>6, <1>8, <1>10, <1>12, <1>14, <1>16, <1>18, <1>20 DEF ParentStolen, ChildSet, ParentSet, HeightSet
<1>22. \A j \in 1 .. k, t \in Sides :
          u[j][t] = IF j = entry THEN (IF t = heavy THEN parent ELSE grandParent)
                    ELSE IF j = grandParent /\ t = heavy THEN node[entry][light]
                    ELSE IF j = parent /\ t = light THEN node[entry][heavy]
                    ELSE IF j = node[grandParent].parent /\ node[j][t] = grandParent THEN entry ELSE node[j][t]
  BY <1>1, <1>3, <1>4, <1>6, <1>8, <1>10, <1>12, <1>14, <1>16, <1>18, <1>20
     DEF ParentStolen, ChildSet, ParentSet, HeightSet
<1>23. \A j \in 0 .. k : j # entry => Height(u, j) = Height(node, j)
  BY <1>21 DEF Height, Null
<1>24. /\ u[grandParent][heavy] = inner /\ u[grandParent][light] = node[grandParent][light]
       /\ u[parent][light] = outer /\ u[parent][heavy] = node[parent][heavy]
  BY <1>1, <1>3, <1>4, <1>22
<1>25. PICK v : v = SetHeightFromChildren(u, grandParent)
  OBVIOUS
<1>26. IsTree(v, k) /\ HeightSet(u, v, k, grandParent, h - 1)
  <2>1. \A s \in Sides : Height(u, u[grandParent][s]) \in {(h - 1) - 1, (h - 1) - 2}
    BY <1>1, <1>2, <1>4, <1>23, <1>24
  <2>2. \E s \in Sides : Height(u, u[grandParent][s]) = (h - 1) - 1
    BY <1>1, <1>2, <1>4, <1>23, <1>24
  <2>3. ChildrenFit(u, grandParent, h - 1)
    BY <2>1, <2>2 DEF ChildrenFit
  <2> QED BY <1>1, <1>2, <1>20, <1>25, <2>3, SetHeightFields
<1>27. \A j \in 0 .. k : j \notin {entry, grandParent} => Height(v, j) = Height(node, j)
  BY <1>21, <1>26 DEF Height, Null, HeightSet
<1>28. v[parent][light] = outer /\ v[parent][heavy] = node[parent][heavy]
  BY <1>1, <1>24, <1>26 DEF HeightSet
<1>29. PICK w : w = SetHeightFromChildren(v, parent)
  OBVIOUS
<1>30. IsTree(w, k) /\ HeightSet(v, w, k, parent, h - 1)
  <2>1. \A s \in Sides : Height(v, v[parent][s]) \in {(h - 1) - 1, (h - 1) - 2}
    BY <1>1, <1>2, <1>4, <1>27, <1>28
  <2>2. \E s \in Sides : Height(v, v[parent][s]) = (h - 1) - 1
    BY <1>1, <1>2, <1>4, <1>27, <1>28
  <2>3. ChildrenFit(v, parent, h - 1)
    BY <2>1, <2>2 DEF ChildrenFit
  <2> QED BY <1>1, <1>2, <1>26, <1>29, <2>3, SetHeightFields
<1>31. PICK x : x = SetParent(w, inner, grandParent)
  OBVIOUS
<1>32. IsTree(x, k) /\ ParentSet(w, x, k, inner, grandParent)
  BY <1>1, <1>30, <1>31, SetParentFields
<1>33. PICK m : m = SetParent(x, outer, parent)
  OBVIOUS
<1>34. IsTree(m, k) /\ ParentSet(x, m, k, outer, parent)
  BY <1>1, <1>32, <1>33, SetParentFields
<1>35. RotateInnerPointers(heavy, light) = m
  BY <1>1, <1>3, <1>5, <1>7, <1>9, <1>11, <1>13, <1>15, <1>17, <1>19, <1>25, <1>29, <1>31, <1>33
     DEF RotateInnerPointers, WithChild, WithParent, WithHeight
<1>36. \A j \in 1 .. k : m[j].parent = (IF j = entry THEN node[grandParent].parent
                                         ELSE IF j \in {parent, grandParent} THEN entry
                                         ELSE IF j = node[entry][light] THEN grandParent
                                         ELSE IF j = node[entry][heavy] THEN parent ELSE node[j].parent)
  <2>1. \A j \in 1 .. k : u[j].parent = IF j = entry THEN node[grandParent].parent
                                         ELSE IF j \in {parent, grandParent} THEN entry ELSE node[j].parent
    BY <1>1, <1>4, <1>6, <1>8, <1>10, <1>12, <1>14, <1>16, <1>18, <1>20
       DEF ParentStolen, ChildSet, ParentSet, HeightSet
  <2> QED BY <1>1, <1>3, <1>4, <1>26, <1>30, <1>32, <1>34, <2>1 DEF HeightSet, ParentSet, Null
<1>37. \A j \in 1 .. k : m[j].height = IF j = entry THEN h ELSE IF j \in {parent, grandParent} THEN h - 1
                                         ELSE node[j].height
  BY <1>1, <1>4, <1>21, <1>26, <1>30, <1>32, <1>34 DEF HeightSet, ParentSet
<1>38. \A j \in 1 .. k, t \in Sides :
          m[j][t] = IF j = entry THEN (IF t = heavy THEN parent ELSE grandParent)
                    ELSE IF j = grandParent /\ t = heavy THEN node[entry][light]
                    ELSE IF j = parent /\ t = light THEN node[entry][heavy]
                    ELSE IF j = node[grandParent].parent /\ node[j][t] = grandParent THEN entry ELSE node[j][t]
  BY <1>22, <1>26, <1>30, <1>32, <1>34 DEF HeightSet, ParentSet
<1>39. SameContents(node, m, k)
  BY <1>6, <1>8, <1>10, <1>12, <1>14, <1>16, <1>18, <1>20, <1>26, <1>30, <1>32, <1>34
     DEF ParentStolen, ChildSet, ParentSet, HeightSet, SameContents
<1>40. InnerPointersTurned(node, m, k, h, heavy, light, entry, parent, grandParent)
  BY <1>34, <1>36, <1>37, <1>38, <1>39 DEF InnerPointersTurned
<1>41. Shaped(m, k)
  BY <1>1, <1>40, InnerPointers
<1> QED BY <1>34, <1>35, <1>40, <1>41

-----------------------------------------------------------------------------
(* The inductive invariant. During the ascent every node fits but           *)
(* grandParent, below which the tree of parent has grown by one.            *)
Grown(n, g, p) ==
  \E s, t \in Sides :
     /\ s # t /\ n[g][s] = p
     /\ \/ n[g].height = n[p].height /\ Height(n, n[g][t]) \in {n[p].height - 1, n[p].height - 2}
        \/ n[g].height = n[p].height + 1 /\ Height(n, n[g][t]) = n[p].height

Climbing(n, k, e, p, g) ==
  /\ e \in 1 .. k /\ p \in 1 .. k /\ p # g /\ n[p].parent = g
  /\ \A i \in 1 .. k : i # g => Fit(n, i)
  /\ \E s, t \in Sides : /\ s # t /\ n[p][s] = e /\ n[e].height = n[p].height - 1
                         /\ Height(n, n[p][t]) = n[p].height - 2
  /\ g # Null => Grown(n, g, p)

TreeTypes ==
  /\ TreeTypeOK /\ side \in Sides
  /\ pc # "rest" => key \in Keys
  /\ pc \in {"climb", "return"} => newentry # Null
  /\ pc = "rest" => entry = Null /\ parent = Null /\ grandParent = Null /\ newentry = Null

TreeShape == Linked(node, Len(node)) /\ (pc # "climb" => \A i \in 1 .. Len(node) : Fit(node, i))

SearchedPlace == pc = "search" /\ parent # Null => entry = node[parent][side]

Ascent == pc = "climb" => Climbing(node, Len(node), entry, parent, grandParent)

TreeInv == TreeTypes /\ TreeShape /\ SearchedPlace /\ Ascent

(* A new leaf below p, whose height becomes h.                              *)
LeafAdded(n, m, k, p, s, h) ==
  /\ IsTree(m, k + 1) /\ SameContents(n, m, k)
  /\ \A j \in 1 .. k : /\ m[j].parent = n[j].parent
                       /\ m[j].height = IF j = p THEN h ELSE n[j].height
                       /\ \A t \in Sides : m[j][t] = IF j = p /\ t = s THEN k + 1 ELSE n[j][t]
  /\ m[k + 1].parent = p /\ m[k + 1].height = 0
  /\ \A t \in Sides : m[k + 1][t] = Null

(* A new leaf keeps the links.                                             *)
LEMMA LeafLinked ==
  ASSUME NEW k \in Nat, NEW n, IsTree(n, k), Linked(n, k),
         NEW p \in 0 .. k, NEW s \in Sides, NEW h, p # Null => n[p][s] = Null,
         NEW m, LeafAdded(n, m, k, p, s, h)
  PROVE  Linked(m, k + 1)
<1>1. /\ \A i \in 1 .. k, t \in Sides : n[i][t] # Null => n[n[i][t]].parent = i
      /\ \A i \in 1 .. k : n[i].parent # Null => \E t \in Sides : n[n[i].parent][t] = i
      /\ \A i \in 1 .. k, t, u \in Sides : n[i][t] = n[i][u] /\ n[i][t] # Null => t = u
  BY DEF Linked
<1>2. \A i \in 1 .. k : n[i].parent \in 0 .. k /\ \A t \in Sides : n[i][t] \in 0 .. k
  BY NodeTypes
<1>3. /\ \A j \in 1 .. k : /\ m[j].parent = n[j].parent
                           /\ \A t \in Sides : m[j][t] = IF j = p /\ t = s THEN k + 1 ELSE n[j][t]
      /\ m[k + 1].parent = p
      /\ \A t \in Sides : m[k + 1][t] = Null
  BY DEF LeafAdded
<1>4. \A i \in 1 .. k + 1, t \in Sides : m[i][t] # Null => m[m[i][t]].parent = i
  BY <1>1, <1>2, <1>3 DEF Null
<1>5. \A i \in 1 .. k + 1 : m[i].parent # Null => \E t \in Sides : m[m[i].parent][t] = i
  <2> SUFFICES ASSUME NEW i \in 1 .. k + 1, m[i].parent # Null
               PROVE  \E t \in Sides : m[m[i].parent][t] = i
    OBVIOUS
  <2>1. CASE i = k + 1
    BY <1>3, <2>1 DEF Null
  <2>2. CASE i # k + 1
    <3>1. i \in 1 .. k /\ m[i].parent = n[i].parent
      BY <1>3, <2>2
    <3>2. PICK q \in 1 .. k : q = n[i].parent
      BY <1>2, <3>1 DEF Null
    <3>3. PICK t \in Sides : n[q][t] = i
      BY <1>1, <3>1, <3>2
    <3>4. m[q][t] = i
      BY <1>3, <3>1, <3>2, <3>3 DEF Null
    <3> QED BY <3>1, <3>2, <3>4
  <2> QED BY <2>1, <2>2
<1>6. \A i \in 1 .. k + 1, t, u \in Sides : m[i][t] = m[i][u] /\ m[i][t] # Null => t = u
  <2> TAKE i \in 1 .. k + 1, t \in Sides, u \in Sides
  <2>1. CASE i = k + 1
    BY <1>3, <2>1
  <2>2. CASE i \in 1 .. k /\ i # p
    BY <1>1, <1>3, <2>2
  <2>3. CASE i \in 1 .. k /\ i = p
    <3>1. k + 1 # Null /\ n[i][t] # k + 1 /\ n[i][u] # k + 1
      BY <1>2, <2>3 DEF Null
    <3> QED BY <1>1, <1>3, <2>3, <3>1
  <2> QED BY <2>1, <2>2, <2>3
<1> QED BY <1>4, <1>5, <1>6 DEF Linked

(* Below a parent that has another child nothing changes; otherwise the ascent begins.*)
LEMMA LeafFits ==
  ASSUME NEW k \in Nat, NEW n, IsTree(n, k), Linked(n, k), \A i \in 1 .. k : Fit(n, i),
         NEW p \in 0 .. k, NEW s \in Sides, NEW h, p # Null => n[p][s] = Null,
         NEW m, LeafAdded(n, m, k, p, s, h)
  PROVE  /\ \A i \in 1 .. k + 1 : i # p /\ (p # Null => i # n[p].parent) => Fit(m, i)
         /\ p # Null /\ n[p].height > 0 /\ h = n[p].height => \A i \in 1 .. k + 1 : Fit(m, i)
         /\ p # Null /\ n[p].height = 0 /\ h = 1 =>
               Climbing(m, k + 1, k + 1, p, n[p].parent)
<1>1. \A i \in 1 .. k, t \in Sides : n[i][t] # Null => n[n[i][t]].parent = i
  BY DEF Linked
<1>2. \A i \in 1 .. k : /\ n[i].parent \in 0 .. k /\ n[i].height \in Nat
                        /\ \A t \in Sides : n[i][t] \in 0 .. k
  BY NodeTypes
<1>3. /\ \A j \in 1 .. k : /\ m[j].parent = n[j].parent
                           /\ m[j].height = IF j = p THEN h ELSE n[j].height
                           /\ \A t \in Sides : m[j][t] = IF j = p /\ t = s THEN k + 1 ELSE n[j][t]
      /\ m[k + 1].parent = p /\ m[k + 1].height = 0
      /\ \A t \in Sides : m[k + 1][t] = Null
  BY DEF LeafAdded
<1>4. \A i \in 0 .. k : Height(m, i) = IF i = p /\ p # Null THEN h ELSE Height(n, i)
  BY <1>3 DEF Height, Null
<1>5. Height(m, k + 1) = 0 /\ Height(m, Null) = -1 /\ Height(n, Null) = -1
  BY <1>3 DEF Height, Null
<1>6. \A i \in 1 .. k + 1 : i # p /\ (p # Null => i # n[p].parent) => Fit(m, i)
  <2> SUFFICES ASSUME NEW i \in 1 .. k + 1, i # p, p # Null => i # n[p].parent
               PROVE  Fit(m, i)
    OBVIOUS
  <2>1. CASE i = k + 1
    <3>1. m[i].height = 0 /\ "small" \in Sides /\ \A t \in Sides : Height(m, m[i][t]) = -1
      BY <1>3, <1>5, <2>1 DEF Sides
    <3> QED BY <3>1 DEF Fit
  <2>2. CASE i \in 1 .. k
    <3>1. m[i].height = n[i].height /\ \A t \in Sides : m[i][t] = n[i][t]
      BY <1>3, <2>2
    <3>2. \A t \in Sides : n[i][t] # p \/ p = Null
      BY <1>1, <2>2
    <3>3. \A t \in Sides : Height(m, m[i][t]) = Height(n, n[i][t])
      BY <1>2, <1>4, <2>2, <3>1, <3>2
    <3> QED BY <2>2, <3>1, <3>3 DEF Fit
  <2> QED BY <2>1, <2>2
<1>7. ASSUME p # Null, n[p].height > 0, h = n[p].height PROVE \A i \in 1 .. k + 1 : Fit(m, i)
  <2> SUFFICES ASSUME NEW i \in 1 .. k + 1, i = p \/ i = n[p].parent PROVE Fit(m, i)
    BY <1>6
  <2>1. \A j \in 0 .. k : Height(m, j) = Height(n, j)
    BY <1>4, <1>7 DEF Height
  <2>2. p \in 1 .. k /\ Fit(n, p)
    BY <1>7 DEF Null
  <2>3. n[p].height = 1
    BY <1>2, <1>5, <1>7, <2>2 DEF Fit
  <2>4. CASE i = p
    <3>1. m[i].height = 1 /\ \A t \in Sides : m[i][t] = IF t = s THEN k + 1 ELSE n[p][t]
      BY <1>3, <1>7, <2>2, <2>3, <2>4
    <3>2. Height(m, m[i][s]) = 0
      BY <1>5, <3>1
    <3>3. \A t \in Sides : t # s => Height(m, m[i][t]) \in {0, -1}
      BY <1>2, <2>1, <2>2, <2>3, <3>1 DEF Fit
    <3> QED BY <3>1, <3>2, <3>3 DEF Fit
  <2>5. CASE i # p
    <3>1. i \in 1 .. k
      BY <1>2, <2>2, <2>5
    <3>2. m[i].height = n[i].height /\ \A t \in Sides : m[i][t] = n[i][t]
      BY <1>3, <2>5, <3>1
    <3>3. \A t \in Sides : Height(m, m[i][t]) = Height(n, n[i][t])
      BY <1>2, <2>1, <3>1, <3>2
    <3> QED BY <3>1, <3>2, <3>3 DEF Fit
  <2> QED BY <2>4, <2>5
<1>8. ASSUME p # Null, n[p].height = 0, h = 1 PROVE Climbing(m, k + 1, k + 1, p, n[p].parent)
  <2>1. PICK g \in 0 .. k : g = n[p].parent
    BY <1>2, <1>8 DEF Null
  <2>2. p \in 1 .. k /\ Fit(n, p)
    BY <1>8 DEF Null
  <2>3. \A t \in Sides : n[p][t] = Null
    <3> TAKE t \in Sides
    <3>1. Height(n, n[p][t]) < 0 /\ n[p][t] \in 0 .. k
      BY <1>2, <1>8, <2>2 DEF Fit
    <3> QED BY <3>1, Heights
  <2>4. g # p
    <3>1. ASSUME g = p PROVE FALSE
      <4>1. \E t \in Sides : n[p][t] = p
        BY <1>8, <2>1, <2>2, <3>1 DEF Linked
      <4> QED BY <1>8, <2>3, <4>1
    <3> QED BY <3>1
  <2>5. PICK t \in Sides : t # s
    BY DEF Sides
  <2>6. \A u \in Sides : u = s \/ u = t
    BY <2>5 DEF Sides
  <2>7. /\ m[p].parent = g /\ m[p].height = 1 /\ m[p][s] = k + 1 /\ m[p][t] = Null
        /\ Height(m, m[p][s]) = 0 /\ Height(m, m[p][t]) = -1
    BY <1>3, <1>5, <1>8, <2>1, <2>2, <2>3, <2>5
  <2>8. Fit(m, p)
    BY <2>6, <2>7 DEF Fit
  <2>9. \A i \in 1 .. k + 1 : i # g => Fit(m, i)
    BY <1>6, <2>1, <2>8
  <2>10. g # Null => Grown(m, g, p)
    <3> SUFFICES ASSUME g # Null PROVE Grown(m, g, p)
      OBVIOUS
    <3>1. g \in 1 .. k /\ Fit(n, g)
      BY DEF Null
    <3>2. PICK u \in Sides : n[g][u] = p
      BY <2>1, <2>2 DEF Linked
    <3>3. PICK v \in Sides : v # u
      BY DEF Sides
    <3>4. n[g][v] # p
      BY <1>8, <3>1, <3>2, <3>3 DEF Linked
    <3>5. /\ m[g].height = n[g].height /\ m[g][u] = p /\ m[g][v] = n[g][v]
          /\ Height(m, m[g][v]) = Height(n, n[g][v]) /\ Height(n, n[g][u]) = 0
      BY <1>2, <1>3, <1>4, <1>8, <2>2, <2>4, <3>1, <3>2, <3>4 DEF Height
    <3>6. \A w \in Sides : w = u \/ w = v
      BY <3>3 DEF Sides
    <3>7. \/ n[g].height = 1 /\ Height(n, n[g][v]) \in {0, -1}
          \/ n[g].height = 2 /\ Height(n, n[g][v]) = 1
      BY <1>2, <3>1, <3>5, <3>6 DEF Fit
    <3>8. /\ u # v /\ m[g][u] = p /\ m[p].height = 1
          /\ \/ m[g].height = 1 /\ Height(m, m[g][v]) \in {0, -1}
             \/ m[g].height = 2 /\ Height(m, m[g][v]) = 1
      BY <2>7, <3>3, <3>5, <3>7
    <3> QED BY <3>8 DEF Grown
  <2>11. m[k + 1].height = m[p].height - 1 /\ Height(m, m[p][t]) = m[p].height - 2
    BY <1>3, <2>7
  <2> QED BY <2>1, <2>2, <2>4, <2>5, <2>7, <2>9, <2>10, <2>11 DEF Climbing
<1> QED BY <1>6, <1>7, <1>8

(* The next step of the ascent: g becomes one higher than p.                *)
LEMMA ClimbFits ==
  ASSUME NEW k \in Nat, NEW n, IsTree(n, k), Linked(n, k),
         NEW e, NEW p, NEW g \in 1 .. k, Climbing(n, k, e, p, g),
         NEW s \in Sides, NEW t \in Sides, s # t, n[g][s] = p,
         n[g].height = n[p].height, Height(n, n[g][t]) = n[p].height - 1
  PROVE  /\ IsTree(WithHeight(n, g, n[p].height + 1), k)
         /\ Linked(WithHeight(n, g, n[p].height + 1), k)
         /\ Climbing(WithHeight(n, g, n[p].height + 1), k, p, g, n[g].parent)
<1>1. p \in 1 .. k /\ p # g /\ \A i \in 1 .. k : i # g => Fit(n, i)
  BY DEF Climbing
<1>2. \A i \in 1 .. k : /\ n[i].parent \in 0 .. k /\ n[i].height \in Nat
                        /\ \A u \in Sides : n[i][u] \in 0 .. k
  BY NodeTypes
<1>3. PICK h \in Nat : h = n[p].height
  BY <1>1, <1>2
<1>4. PICK m : m = WithHeight(n, g, h + 1)
  OBVIOUS
<1>5. IsTree(m, k) /\ HeightSet(n, m, k, g, h + 1)
  BY <1>4, SetHeight
<1>6. \A j \in 1 .. k : /\ m[j].parent = n[j].parent /\ m[j].height = (IF j = g THEN h + 1 ELSE n[j].height)
                        /\ \A u \in Sides : m[j][u] = n[j][u]
  BY <1>5 DEF HeightSet
<1>7. PICK q \in 0 .. k : q = n[g].parent
  BY <1>2
<1>8. \A u \in Sides : u = s \/ u = t
  BY DEF Sides
<1>9. \A i \in 1 .. k, u \in Sides : n[i][u] # Null => n[n[i][u]].parent = i
  BY DEF Linked
<1>10. n[g][t] # g
  <2>1. Height(n, g) = h
    BY <1>3 DEF Height, Null
  <2> QED BY <1>3, <2>1
<1>11. g # q
  <2>1. ASSUME g = q PROVE FALSE
    <3>1. \E u \in Sides : n[g][u] = g
      BY <1>7, <2>1 DEF Linked, Null
    <3> QED BY <1>1, <1>8, <1>10, <3>1
  <2> QED BY <2>1
<1>12. \A j \in 0 .. k : Height(m, j) = IF j = g THEN h + 1 ELSE Height(n, j)
  BY <1>6 DEF Height, Null
<1>13. Linked(m, k)
  <2>1. \A i \in 1 .. k, u \in Sides : m[i][u] # Null => m[m[i][u]].parent = i
    BY <1>2, <1>6, <1>9 DEF Null
  <2>2. \A i \in 1 .. k : n[i].parent # Null => \E u \in Sides : n[n[i].parent][u] = i
    BY DEF Linked
  <2>3. \A i \in 1 .. k : m[i].parent # Null => \E u \in Sides : m[m[i].parent][u] = i
    BY <1>2, <1>6, <2>2 DEF Null
  <2>4. \A i \in 1 .. k, u, v \in Sides : m[i][u] = m[i][v] /\ m[i][u] # Null => u = v
    BY <1>6 DEF Linked
  <2> QED BY <2>1, <2>3, <2>4 DEF Linked
<1>14. /\ m[g].height = h + 1 /\ m[g].parent = q /\ m[g][s] = p /\ m[p].height = h
       /\ Height(m, m[g][s]) = h /\ Height(m, m[g][t]) = h - 1
  <2>1. Height(n, p) = h
    BY <1>1, <1>3 DEF Height, Null
  <2> QED BY <1>1, <1>2, <1>3, <1>6, <1>7, <1>10, <1>12, <2>1
<1>15. \A i \in 1 .. k : i # q => Fit(m, i)
  <2> SUFFICES ASSUME NEW i \in 1 .. k, i # q PROVE Fit(m, i)
    OBVIOUS
  <2>1. CASE i = g
    BY <1>8, <1>14, <2>1 DEF Fit
  <2>2. CASE i # g
    <3>1. \A u \in Sides : n[i][u] # g
      BY <1>7, <1>9 DEF Null
    <3>2. m[i].height = n[i].height /\ \A u \in Sides : m[i][u] = n[i][u]
      BY <1>6, <2>2
    <3>3. \A u \in Sides : Height(m, m[i][u]) = Height(n, n[i][u])
      BY <1>2, <1>12, <3>1, <3>2
    <3> QED BY <1>1, <2>2, <3>2, <3>3 DEF Fit
  <2> QED BY <2>1, <2>2
<1>16. q # Null => Grown(m, q, g)
  <2> SUFFICES ASSUME q # Null PROVE Grown(m, q, g)
    OBVIOUS
  <2>1. q \in 1 .. k /\ Fit(n, q)
    BY <1>1, <1>11 DEF Null
  <2>2. PICK u \in Sides : n[q][u] = g
    BY <1>7 DEF Linked
  <2>3. PICK v \in Sides : v # u
    BY DEF Sides
  <2>4. n[q][v] # g
    BY <2>1, <2>2, <2>3 DEF Linked, Null
  <2>5. \A w \in Sides : w = u \/ w = v
    BY <2>3 DEF Sides
  <2>6. Height(n, n[q][u]) = h
    BY <1>3, <2>2 DEF Height, Null
  <2>7. \/ n[q].height = h + 1 /\ Height(n, n[q][v]) \in {h, h - 1}
        \/ n[q].height = h + 2 /\ Height(n, n[q][v]) = h + 1
    BY <1>2, <1>3, <2>1, <2>5, <2>6 DEF Fit
  <2>8. m[q][u] = g /\ m[q].height = n[q].height /\ Height(m, m[q][v]) = Height(n, n[q][v])
    BY <1>2, <1>6, <1>11, <1>12, <2>1, <2>2, <2>4
  <2> QED BY <1>3, <1>14, <2>3, <2>7, <2>8 DEF Grown
<1>17. Climbing(m, k, p, g, q)
  BY <1>1, <1>3, <1>11, <1>14, <1>15, <1>16 DEF Climbing
<1> QED BY <1>3, <1>4, <1>5, <1>7, <1>13, <1>17

(* The difference that the source computes, whatever side has grown.        *)
LEMMA DiffOfSides ==
  ASSUME NEW k \in Nat, IsTree(node, k), grandParent \in 1 .. k, NEW s \in Sides, NEW t \in Sides, s # t
  PROVE  /\ s = "small" => Diff = Height(node, node[grandParent][s]) - Height(node, node[grandParent][t])
         /\ s = "large" => Diff = Height(node, node[grandParent][t]) - Height(node, node[grandParent][s])
         /\ Height(node, node[grandParent][s]) \in Int /\ Height(node, node[grandParent][t]) \in Int
<1>1. /\ node[grandParent].small = node[grandParent]["small"] /\ node[grandParent].large = node[grandParent]["large"]
      /\ node[grandParent][s] \in 0 .. k /\ node[grandParent][t] \in 0 .. k
  BY NodeTypes
<1> QED BY <1>1, Heights DEF Diff, Sides

(* When the ascent ends without a rotation, every node fits.                *)
LEMMA StopFits ==
  ASSUME NEW k \in Nat, IsTree(node, k), grandParent \in 0 .. k,
         Climbing(node, k, entry, parent, grandParent),
         (grandParent # Null) => (Diff = 0)
  PROVE  \A i \in 1 .. k : Fit(node, i)
<1>1. parent \in 1 .. k /\ \A i \in 1 .. k : i # grandParent => Fit(node, i)
  BY DEF Climbing
<1>2. CASE grandParent = Null
  BY <1>1, <1>2 DEF Null
<1>3. CASE grandParent # Null
  <2>1. Grown(node, grandParent, parent) /\ grandParent \in 1 .. k
    BY <1>3 DEF Climbing, Null
  <2>2. PICK s, t \in Sides :
           /\ s # t /\ node[grandParent][s] = parent
           /\ \/ /\ node[grandParent].height = node[parent].height
                 /\ Height(node, node[grandParent][t]) \in {node[parent].height - 1, node[parent].height - 2}
              \/ /\ node[grandParent].height = node[parent].height + 1
                 /\ Height(node, node[grandParent][t]) = node[parent].height
    BY <2>1 DEF Grown
  <2>3. Height(node, node[grandParent][s]) = node[parent].height /\ node[parent].height \in Nat
    BY <1>1, <2>2, NodeTypes DEF Height, Null
  <2>4. Height(node, node[grandParent][t]) = node[parent].height
    BY <1>3, <2>1, <2>2, <2>3, DiffOfSides DEF Sides
  <2>5. node[grandParent].height = node[parent].height + 1
    BY <2>2, <2>3, <2>4
  <2>6. \A u \in Sides : u = s \/ u = t
    BY <2>2 DEF Sides
  <2>7. Fit(node, grandParent)
    BY <2>3, <2>4, <2>5, <2>6 DEF Fit
  <2> QED BY <1>1, <2>7
<1> QED BY <1>2, <1>3

(* The four rotations, with the root and the node that is returned.         *)
Turned(k, h, heavy, light) ==
  /\ TwoSides(heavy, light) /\ Leaning(node, k, h, heavy, light, entry, parent, grandParent)
  /\ \/ /\ node[parent][heavy] = entry /\ Height(node, node[parent][light]) = h - 2
        /\ newentry' = newentry
        /\ \/ /\ OuterPointersTurned(node, node', k, h, heavy, light, entry, parent, grandParent)
              /\ root' = IF grandParent = root THEN parent ELSE root
           \/ /\ OuterSwapTurned(node, node', k, h, heavy, light, entry, parent, grandParent)
              /\ root' = root
     \/ /\ node[parent][light] = entry /\ Height(node, node[parent][heavy]) = h - 2
        /\ \/ /\ InnerPointersTurned(node, node', k, h, heavy, light, entry, parent, grandParent)
              /\ root' = IF grandParent = root THEN entry ELSE root
              /\ newentry' = newentry
           \/ /\ InnerSwapTurned(node, node', k, h, heavy, light, entry, parent, grandParent)
              /\ root' = root
              /\ newentry' = IF entry = newentry THEN grandParent ELSE newentry

(* After a rotation, whichever it is, every node fits.                      *)
LEMMA RebalanceShapes ==
  ASSUME NEW k \in Nat, IsTree(node, k), Linked(node, k), grandParent \in 0 .. k,
         Climbing(node, k, entry, parent, grandParent), Rebalance, policy \in {"pointers", "swap"}
  PROVE  /\ IsTree(node', k) /\ Shaped(node', k)
         /\ \E h \in Nat, heavy, light \in Sides : Turned(k, h, heavy, light)
<1>1. grandParent \in 1 .. k /\ Diff \notin -1 .. 1
  BY DEF Rebalance, Null
<1>2. /\ entry \in 1 .. k /\ parent \in 1 .. k /\ parent # grandParent /\ node[parent].parent = grandParent
      /\ \A i \in 1 .. k : i # grandParent => Fit(node, i)
      /\ Grown(node, grandParent, parent)
  BY <1>1 DEF Climbing, Null
<1>3. PICK h \in Nat : h = node[parent].height
  BY <1>2, NodeTypes
<1>4. PICK s, t \in Sides :
         /\ s # t /\ node[grandParent][s] = parent
         /\ \/ node[grandParent].height = h /\ Height(node, node[grandParent][t]) \in {h - 1, h - 2}
            \/ node[grandParent].height = h + 1 /\ Height(node, node[grandParent][t]) = h
  BY <1>2, <1>3 DEF Grown
<1>5. Height(node, node[grandParent][s]) = h
  BY <1>2, <1>3, <1>4 DEF Height, Null
<1>6. /\ node[grandParent].height = h /\ Height(node, node[grandParent][t]) = h - 2
      /\ s = "small" <=> Diff > 1
  BY <1>1, <1>3, <1>4, <1>5, DiffOfSides DEF Sides
<1>7. (IF Diff > 1 THEN "small" ELSE "large") = s /\ (IF Diff > 1 THEN "large" ELSE "small") = t
  BY <1>4, <1>6 DEF Sides
<1>8. PICK u, v \in Sides : /\ u # v /\ node[parent][u] = entry /\ node[entry].height = h - 1
                            /\ Height(node, node[parent][v]) = h - 2
  BY <1>3 DEF Climbing
<1>9. Height(node, entry) = h - 1
  BY <1>2, <1>8 DEF Height, Null
<1>10. TwoSides(s, t) /\ Leaning(node, k, h, s, t, entry, parent, grandParent)
  BY <1>1, <1>2, <1>3, <1>4, <1>6, <1>8 DEF TwoSides, Leaning
<1>11. node' = IF policy = "pointers"
               THEN IF entry = node[parent][s] THEN RotateOuterPointers(s, t) ELSE RotateInnerPointers(s, t)
               ELSE IF entry = node[parent][s] THEN RotateOuterSwap(s, t) ELSE RotateInnerSwap(s, t)
  BY <1>7 DEF Rebalance
<1>12. CASE entry = node[parent][s]
  <2>1. node[parent][s] = entry /\ Height(node, node[parent][t]) = h - 2
    BY <1>3, <1>4, <1>8, <1>9, <1>12 DEF Sides
  <2>2. CASE policy = "pointers"
    <3>1. node' = RotateOuterPointers(s, t)
      BY <1>11, <1>12, <2>2
    <3>2. root' = (IF grandParent = root THEN parent ELSE root) /\ newentry' = newentry
      BY <1>7, <1>12, <2>2 DEF Rebalance, ReturnedNode
    <3>3. /\ IsTree(node', k) /\ Shaped(node', k)
          /\ OuterPointersTurned(node, node', k, h, s, t, entry, parent, grandParent)
      BY <1>10, <2>1, <3>1, RotateOuterPointersShapes
    <3>4. Turned(k, h, s, t)
      BY <1>10, <2>1, <3>2, <3>3 DEF Turned
    <3> QED BY <3>3, <3>4
  <2>3. CASE policy # "pointers"
    <3>1. node' = RotateOuterSwap(s, t)
      BY <1>11, <1>12, <2>3
    <3>2. root' = root /\ newentry' = newentry
      BY <1>7, <1>12, <2>3 DEF Rebalance, ReturnedNode
    <3>3. /\ IsTree(node', k) /\ Shaped(node', k)
          /\ OuterSwapTurned(node, node', k, h, s, t, entry, parent, grandParent)
      BY <1>10, <2>1, <3>1, RotateOuterSwapShapes
    <3>4. Turned(k, h, s, t)
      BY <1>10, <2>1, <3>2, <3>3 DEF Turned
    <3> QED BY <3>3, <3>4
  <2> QED BY <2>2, <2>3
<1>13. CASE entry # node[parent][s]
  <2>1. node[parent][t] = entry /\ Height(node, node[parent][s]) = h - 2
    BY <1>4, <1>8, <1>13 DEF Sides
  <2>2. CASE policy = "pointers"
    <3>1. node' = RotateInnerPointers(s, t)
      BY <1>11, <1>13, <2>2
    <3>2. root' = (IF grandParent = root THEN entry ELSE root) /\ newentry' = newentry
      BY <1>7, <1>13, <2>2 DEF Rebalance, ReturnedNode
    <3>3. /\ IsTree(node', k) /\ Shaped(node', k)
          /\ InnerPointersTurned(node, node', k, h, s, t, entry, parent, grandParent)
      BY <1>10, <2>1, <3>1, RotateInnerPointersShapes
    <3>4. Turned(k, h, s, t)
      BY <1>10, <2>1, <3>2, <3>3 DEF Turned
    <3> QED BY <3>3, <3>4
  <2>3. CASE policy # "pointers"
    <3>1. node' = RotateInnerSwap(s, t)
      BY <1>11, <1>13, <2>3
    <3>2. root' = root /\ newentry' = IF entry = newentry THEN grandParent ELSE newentry
      BY <1>7, <1>13, <2>3 DEF Rebalance, ReturnedNode
    <3>3. /\ IsTree(node', k) /\ Shaped(node', k)
          /\ InnerSwapTurned(node, node', k, h, s, t, entry, parent, grandParent)
      BY <1>10, <2>1, <3>1, RotateInnerSwapShapes
    <3>4. Turned(k, h, s, t)
      BY <1>10, <2>1, <3>2, <3>3 DEF Turned
    <3> QED BY <3>3, <3>4
  <2> QED BY <2>2, <2>3
<1> QED BY <1>12, <1>13

-----------------------------------------------------------------------------
(* Every action keeps the invariant. First, the types.                      *)
LEMMA TypesOfTree ==
  ASSUME TreeTypeOK
  PROVE  /\ Len(node) \in Nat /\ IsTree(node, Len(node))
         /\ {root, entry, parent, grandParent, newentry} \subseteq 0 .. Len(node)
  BY DEF TreeTypeOK, IsTree, NodeType

(* The node sequence of the next state, as far as types go.                  *)
LEMMA NextTypes ==
  ASSUME NEW k \in Nat, IsTree(node, k)', policy' \in Policies, contents' \subseteq Keys,
         {root', entry', parent', grandParent', newentry'} \subseteq 0 .. k,
         pc' \in {"rest", "search", "climb", "return"}
  PROVE  TreeTypeOK' /\ Len(node)' = k
  BY DEF TreeTypeOK, IsTree, NodeType

LEMMA FindInsertStep ==
  ASSUME TreeInv, NEW k \in Keys, FindInsert(k)
  PROVE  TreeInv'
<1> USE DEF FindInsert
<1>1. TreeTypes'
  BY TypesOfTree DEF TreeInv, TreeTypes, TreeTypeOK, Null
<1>2. TreeShape' /\ SearchedPlace' /\ Ascent'
  BY DEF TreeInv, TreeShape, SearchedPlace, Ascent, Null
<1> QED BY <1>1, <1>2 DEF TreeInv

LEMMA DescendStep ==
  ASSUME TreeInv, Descend
  PROVE  TreeInv'
<1> USE DEF Descend
<1>1. entry \in 1 .. Len(node) /\ node[entry].height \in Nat /\ \A s \in Sides : node[entry][s] \in 0 .. Len(node)
  BY TypesOfTree, NodeTypes DEF TreeInv, TreeTypes, Null
<1>2. side' \in Sides /\ entry' \in 0 .. Len(node) /\ node' = node
  BY <1>1 DEF Sides
<1>3. TreeTypes'
  BY <1>2 DEF TreeInv, TreeTypes, TreeTypeOK
<1>4. TreeShape' /\ SearchedPlace' /\ Ascent'
  BY <1>2 DEF TreeInv, TreeShape, SearchedPlace, Ascent
<1> QED BY <1>3, <1>4 DEF TreeInv

LEMMA FoundStep ==
  ASSUME TreeInv, Found
  PROVE  TreeInv'
<1> USE DEF Found
<1>1. TreeTypes'
  BY DEF TreeInv, TreeTypes, TreeTypeOK
<1>2. TreeShape' /\ SearchedPlace' /\ Ascent'
  BY DEF TreeInv, TreeShape, SearchedPlace, Ascent
<1> QED BY <1>1, <1>2 DEF TreeInv

(* Nodes refer to others of a longer sequence, too.                        *)
LEMMA WiderNodes ==
  ASSUME NEW k \in Nat, NEW n, IsTree(n, k), NEW c, c = k + 1
  PROVE  n \in Seq(NodeType(c)) /\ Len(n) = k
<1>1. NodeType(k) \subseteq NodeType(c)
  BY DEF NodeType
<1> QED BY <1>1 DEF IsTree

LEMMA ClimbStep ==
  ASSUME TreeInv, Climb
  PROVE  TreeInv'
<1> DEFINE k == Len(node)
<1>1. /\ k \in Nat /\ IsTree(node, k) /\ Linked(node, k) /\ grandParent \in 1 .. k
      /\ Climbing(node, k, entry, parent, grandParent) /\ Grown(node, grandParent, parent)
      /\ parent \in 1 .. k
  BY TypesOfTree DEF TreeInv, TreeTypes, TreeShape, Ascent, Climb, Climbing, Null
<1> HIDE DEF k
<1>2. PICK h \in Nat : h = node[parent].height
  BY <1>1, NodeTypes
<1>3. PICK s, t \in Sides :
         /\ s # t /\ node[grandParent][s] = parent
         /\ \/ node[grandParent].height = h /\ Height(node, node[grandParent][t]) \in {h - 1, h - 2}
            \/ node[grandParent].height = h + 1 /\ Height(node, node[grandParent][t]) = h
  BY <1>1, <1>2 DEF Grown
<1>4. Height(node, node[grandParent][s]) = h
  BY <1>1, <1>2, <1>3 DEF Height, Null
<1>5. Diff \in {-1, 1}
  BY DEF Climb
<1>6. node[grandParent].height = h /\ Height(node, node[grandParent][t]) = h - 1
  BY <1>1, <1>2, <1>3, <1>4, <1>5, DiffOfSides DEF Sides
<1>7. /\ node' = WithHeight(node, grandParent, node[parent].height + 1)
      /\ entry' = parent /\ parent' = grandParent /\ grandParent' = node[grandParent].parent
  BY DEF Climb, WithHeight
<1>8. IsTree(node', k) /\ Linked(node', k) /\ Climbing(node', k, entry', parent', grandParent')
  BY <1>1, <1>2, <1>3, <1>6, <1>7, ClimbFits
<1>9. grandParent' \in 0 .. k
  BY <1>1, <1>7, NodeTypes
<1>10. TreeTypeOK' /\ Len(node)' = k
  <2>1. {root', entry', parent', grandParent', newentry'} \subseteq 0 .. k
    BY <1>1, <1>7, <1>9 DEF TreeInv, TreeTypes, TreeTypeOK, Climb, k
  <2> QED BY <1>1, <1>8, <2>1, NextTypes DEF TreeInv, TreeTypes, TreeTypeOK, Climb
<1>11. TreeTypes'
  BY <1>10 DEF TreeInv, TreeTypes, Climb
<1>12. TreeShape' /\ SearchedPlace' /\ Ascent'
  BY <1>8, <1>10 DEF TreeShape, SearchedPlace, Ascent, Climb
<1> QED BY <1>11, <1>12 DEF TreeInv

LEMMA StopClimbingStep ==
  ASSUME TreeInv, StopClimbing
  PROVE  TreeInv'
<1>1. /\ Len(node) \in Nat /\ IsTree(node, Len(node)) /\ grandParent \in 0 .. Len(node)
      /\ Climbing(node, Len(node), entry, parent, grandParent)
      /\ (grandParent # Null) => (Diff = 0)
  BY TypesOfTree DEF TreeInv, TreeTypes, Ascent, StopClimbing
<1> HIDE DEF TreeInv
<1>2. \A i \in 1 .. Len(node) : Fit(node, i)
  BY ONLY <1>1, StopFits
<1> USE DEF StopClimbing
<1>3. TreeTypes'
  BY DEF TreeInv, TreeTypes, TreeTypeOK
<1>4. TreeShape' /\ SearchedPlace' /\ Ascent'
  BY <1>2 DEF TreeInv, TreeShape, SearchedPlace, Ascent
<1> QED BY <1>3, <1>4 DEF TreeInv

LEMMA RebalanceStep ==
  ASSUME TreeInv, Rebalance
  PROVE  TreeInv'
<1> DEFINE k == Len(node)
<1>1. /\ k \in Nat /\ IsTree(node, k) /\ Linked(node, k) /\ grandParent \in 0 .. k
      /\ Climbing(node, k, entry, parent, grandParent)
  BY TypesOfTree DEF TreeInv, TreeTypes, TreeShape, Ascent, Rebalance
<1> HIDE DEF k
<1>2. IsTree(node', k) /\ Shaped(node', k)
  <2>1. policy \in {"pointers", "swap"}
    BY PoliciesAssumption DEF TreeInv, TreeTypes, TreeTypeOK
  <2> QED BY <1>1, <2>1, RebalanceShapes
<1>3. /\ root' \in {root, parent, entry} /\ newentry' \in {newentry, grandParent} /\ newentry' # Null
      /\ pc' = "return" /\ UNCHANGED <<policy, key, entry, parent, grandParent, side, contents>>
  BY DEF TreeInv, TreeTypes, Rebalance, ReturnedNode
<1>4. TreeTypeOK' /\ Len(node)' = k
  <2>1. {root', entry', parent', grandParent', newentry'} \subseteq 0 .. k
    BY <1>3 DEF TreeInv, TreeTypes, TreeTypeOK, k
  <2> QED BY <1>1, <1>2, <1>3, <2>1, NextTypes DEF TreeInv, TreeTypes, TreeTypeOK
<1>5. TreeTypes'
  BY <1>3, <1>4 DEF TreeInv, TreeTypes, Rebalance
<1>6. TreeShape' /\ SearchedPlace' /\ Ascent'
  BY <1>2, <1>3, <1>4 DEF TreeShape, SearchedPlace, Ascent, Shaped
<1> QED BY <1>5, <1>6 DEF TreeInv

(* A key that is not in the tree is added with a leaf, in three ways.       *)
LEMMA AddLeafAdds ==
  ASSUME TreeInv, AddLeaf, NEW k \in Nat, k = Len(node)
  PROVE  /\ node'[k + 1].key = key /\ node'[k + 1].value = 0
         /\ \/ /\ parent = Null /\ pc' = "return" /\ grandParent' = grandParent
               /\ LeafAdded(node, node', k, parent, side, 0)
            \/ /\ parent # Null /\ node[parent].height > 0 /\ pc' = "return" /\ grandParent' = grandParent
               /\ LeafAdded(node, node', k, parent, side, node[parent].height)
            \/ /\ parent # Null /\ node[parent].height = 0 /\ pc' = "climb" /\ grandParent' = node[parent].parent
               /\ LeafAdded(node, node', k, parent, side, 1)
<1>1. k = Len(node)
  OBVIOUS
<1>2. /\ IsTree(node, k) /\ parent \in 0 .. k /\ side \in Sides /\ key \in Keys
  BY <1>1, TypesOfTree DEF TreeInv, TreeTypes, TreeTypeOK, AddLeaf
<1>3. PICK r : r = [small |-> Null, large |-> Null, height |-> 0, parent |-> parent, key |-> key, value |-> 0]
  OBVIOUS
<1>4. /\ r \in NodeType(k + 1) /\ r.parent = parent /\ r.height = 0
      /\ r.key = key /\ r.value = 0 /\ \A t \in Sides : r[t] = Null
  BY <1>1, <1>2, <1>3 DEF NodeType, Null, Sides
<1>5. PICK a : a = Append(node, r)
  OBVIOUS
<1>6. IsTree(a, k + 1) /\ a[k + 1] = r /\ \A j \in 1 .. k : a[j] = node[j]
  <2>1. IsTree(node, k) /\ r \in NodeType(k + 1)
    BY <1>2, <1>4
  <2>2. PICK c : c = k + 1
    OBVIOUS
  <2>3. r \in NodeType(c) /\ node \in Seq(NodeType(c)) /\ Len(node) = k
    BY <2>1, <2>2, WiderNodes
  <2>4. IsTree(a, c) /\ a[c] = r /\ \A j \in 1 .. k : a[j] = node[j]
    BY ONLY <1>5, <2>2, <2>3, k \in Nat DEF IsTree
  <2> QED BY <2>2, <2>4
<1>7. CASE parent = Null
  <2>1. node' = a /\ pc' = "return" /\ grandParent' = grandParent
    BY <1>3, <1>5, <1>7 DEF AddLeaf
  <2>2. LeafAdded(node, a, k, parent, side, 0)
    BY <1>2, <1>4, <1>6, <1>7 DEF LeafAdded, SameContents, Null
  <2> QED BY <1>4, <1>6, <1>7, <2>1, <2>2
<1>8. CASE parent # Null
  <2>1. parent \in 1 .. k /\ parent \in 1 .. k + 1 /\ k + 1 \in 1 .. k + 1
    BY <1>2, <1>8 DEF Null
  <2>2. node[parent].height \in Nat
    BY <1>2, <2>1, NodeTypes
  <2>3. PICK b : b = WithChild(a, parent, side, k + 1)
    OBVIOUS
  <2>4. IsTree(b, k + 1) /\ ChildSet(a, b, k + 1, parent, side, k + 1)
    BY <1>2, <1>6, <2>1, <2>3, SetChild
  <2>5. CASE node[parent].height > 0
    <3>1. node' = b /\ pc' = "return" /\ grandParent' = grandParent
      BY <1>1, <1>3, <1>5, <1>8, <2>3, <2>5 DEF AddLeaf, WithChild
    <3>2. LeafAdded(node, b, k, parent, side, node[parent].height)
      BY <1>2, <1>4, <1>6, <2>1, <2>4 DEF LeafAdded, ChildSet, SameContents
    <3>3. b[k + 1].key = key /\ b[k + 1].value = 0
      BY <1>4, <1>6, <2>1, <2>4 DEF ChildSet, SameContents
    <3> QED BY <1>8, <2>5, <3>1, <3>2, <3>3
  <2>6. CASE ~ (node[parent].height > 0)
    <3>1. PICK c : c = WithHeight(b, parent, 1)
      OBVIOUS
    <3>2. IsTree(c, k + 1) /\ HeightSet(b, c, k + 1, parent, 1)
      BY <2>1, <2>4, <3>1, SetHeight
    <3>3. node' = c /\ pc' = "climb" /\ grandParent' = node[parent].parent
      BY <1>1, <1>3, <1>5, <1>8, <2>3, <2>6, <3>1 DEF AddLeaf, WithChild, WithHeight
    <3>4. LeafAdded(node, c, k, parent, side, 1)
      BY <1>2, <1>4, <1>6, <2>1, <2>4, <3>2 DEF LeafAdded, ChildSet, HeightSet, SameContents
    <3>5. node[parent].height = 0
      BY <2>2, <2>6
    <3>6. c[k + 1].key = key /\ c[k + 1].value = 0
      BY <1>4, <1>6, <2>1, <2>4, <3>2 DEF ChildSet, HeightSet, SameContents
    <3> QED BY <1>8, <3>3, <3>4, <3>5, <3>6
  <2> QED BY <2>5, <2>6
<1> QED BY <1>7, <1>8

LEMMA AddLeafStep ==
  ASSUME TreeInv, AddLeaf
  PROVE  TreeInv'
<1>1. PICK k \in Nat : k = Len(node)
  BY TypesOfTree DEF TreeInv, TreeTypes
<1>2. /\ IsTree(node, k) /\ Linked(node, k) /\ \A i \in 1 .. k : Fit(node, i)
      /\ parent \in 0 .. k /\ grandParent \in 0 .. k /\ root \in 0 .. k
      /\ side \in Sides /\ key \in Keys /\ policy \in Policies /\ contents \subseteq Keys
      /\ parent # Null => node[parent][side] = Null
  BY <1>1, TypesOfTree DEF TreeInv, TreeTypes, TreeTypeOK, TreeShape, SearchedPlace, AddLeaf
<1>3. /\ newentry' = k + 1 /\ entry' = k + 1 /\ root' \in {k + 1, root}
      /\ contents' = contents \union {key}
      /\ UNCHANGED <<policy, key, parent, side>>
  BY <1>1 DEF AddLeaf
<1>4. \/ /\ pc' = "return" /\ grandParent' = grandParent
         /\ IsTree(node', k + 1) /\ Linked(node', k + 1) /\ \A i \in 1 .. k + 1 : Fit(node', i)
      \/ /\ pc' = "climb" /\ grandParent' \in 0 .. k
         /\ IsTree(node', k + 1) /\ Linked(node', k + 1)
         /\ Climbing(node', k + 1, k + 1, parent, grandParent')
  <2>1. CASE parent = Null
    <3>1. pc' = "return" /\ grandParent' = grandParent /\ LeafAdded(node, node', k, parent, side, 0)
      BY <1>1, <2>1, AddLeafAdds
    <3>2. Linked(node', k + 1)
      BY <1>2, <2>1, <3>1, LeafLinked
    <3>5. IsTree(node', k + 1)
      BY <3>1 DEF LeafAdded
    <3>3. \A i \in 1 .. k + 1 : i # parent /\ (parent # Null => i # node[parent].parent) => Fit(node', i)
      BY <1>2, <2>1, <3>1, LeafFits
    <3>4. \A i \in 1 .. k + 1 : Fit(node', i)
      BY <2>1, <3>3 DEF Null
    <3> QED BY <3>1, <3>2, <3>4, <3>5
  <2>2. CASE parent # Null /\ node[parent].height > 0 /\ pc' = "return"
    <3>1. grandParent' = grandParent /\ LeafAdded(node, node', k, parent, side, node[parent].height)
      BY <1>1, <2>2, AddLeafAdds
    <3>2. Linked(node', k + 1)
      BY <1>2, <2>2, <3>1, LeafLinked
    <3>5. IsTree(node', k + 1)
      BY <3>1 DEF LeafAdded
    <3>3. \A i \in 1 .. k + 1 : Fit(node', i)
      BY <1>2, <2>2, <3>1, LeafFits
    <3> QED BY <2>2, <3>1, <3>2, <3>3, <3>5
  <2>3. CASE parent # Null /\ node[parent].height = 0 /\ pc' = "climb"
    <3>1. grandParent' = node[parent].parent /\ LeafAdded(node, node', k, parent, side, 1)
      BY <1>1, <2>3, AddLeafAdds
    <3>2. Linked(node', k + 1)
      BY <1>2, <2>3, <3>1, LeafLinked
    <3>5. IsTree(node', k + 1)
      BY <3>1 DEF LeafAdded
    <3>3. Climbing(node', k + 1, k + 1, parent, node[parent].parent)
      BY <1>2, <2>3, <3>1, LeafFits
    <3>4. node[parent].parent \in 0 .. k
      BY <1>2, <2>3, NodeTypes DEF Null
    <3> QED BY <2>3, <3>1, <3>2, <3>3, <3>4, <3>5
  <2> QED BY <1>1, <2>1, <2>2, <2>3, AddLeafAdds
<1>5. TreeTypeOK' /\ Len(node)' = k + 1
  <2>1. {root', entry', parent', grandParent', newentry'} \subseteq 0 .. k + 1
    BY <1>2, <1>3, <1>4
  <2>2. k + 1 \in Nat /\ IsTree(node', k + 1) /\ policy' \in Policies /\ contents' \subseteq Keys
    BY <1>2, <1>3, <1>4
  <2>3. pc' \in {"rest", "search", "climb", "return"}
    BY <1>4
  <2> QED BY <2>1, <2>2, <2>3, NextTypes
<1>6. TreeTypes'
  BY <1>2, <1>3, <1>4, <1>5 DEF TreeTypes, Null
<1>7. TreeShape' /\ SearchedPlace' /\ Ascent'
  BY <1>3, <1>4, <1>5 DEF TreeShape, SearchedPlace, Ascent
<1> QED BY <1>6, <1>7 DEF TreeInv

LEMMA ReturnStep ==
  ASSUME TreeInv, Return
  PROVE  TreeInv'
<1>1. PICK k \in Nat : k = Len(node)
  BY TypesOfTree DEF TreeInv, TreeTypes
<1>2. /\ IsTree(node, k) /\ Linked(node, k) /\ \A i \in 1 .. k : Fit(node, i)
      /\ key \in Keys /\ newentry \in 1 .. k
  BY <1>1, TypesOfTree DEF TreeInv, TreeTypes, TreeShape, Return, Null
<1>3. PICK r : r = [node[newentry] EXCEPT !.value = key]
  OBVIOUS
<1>4. /\ r \in NodeType(k) /\ r.parent = node[newentry].parent /\ r.height = node[newentry].height
      /\ \A t \in Sides : r[t] = node[newentry][t]
  BY <1>2, <1>3, NodeTypes DEF NodeType, Sides
<1>5. node' = [node EXCEPT ![newentry] = r]
  BY <1>3 DEF Return
<1>6. IsTree(node', k) /\ \A j \in 1 .. k : node'[j] = IF j = newentry THEN r ELSE node[j]
  <2>1. IsTree(node, k) /\ r \in NodeType(k) /\ newentry \in 1 .. k
    BY <1>2, <1>4
  <2>2. PICK m : m = [node EXCEPT ![newentry] = r]
    OBVIOUS
  <2>3. IsTree(m, k)
    BY ONLY <2>1, <2>2, k \in Nat, SetNode
  <2>4. \A j \in 1 .. k : m[j] = IF j = newentry THEN r ELSE node[j]
    BY ONLY <2>1, <2>2, k \in Nat, SetNode
  <2> QED BY <1>5, <2>2, <2>3, <2>4
<1>7. \A j \in 1 .. k : /\ node'[j].parent = node[j].parent /\ node'[j].height = node[j].height
                        /\ \A t \in Sides : node'[j][t] = node[j][t]
  BY <1>4, <1>6
<1>8. \A j \in 1 .. k, t \in Sides : node[j][t] \in 0 .. k
  BY <1>2, NodeTypes
<1>9. \A j \in 1 .. k : node[j].parent \in 0 .. k
  BY <1>2, NodeTypes
<1>10. Linked(node', k)
  BY <1>2, <1>7, <1>8, <1>9 DEF Linked, Null
<1>11. \A j \in 0 .. k : Height(node', j) = Height(node, j)
  BY <1>7 DEF Height, Null
<1>12. \A i \in 1 .. k : Fit(node', i)
  BY <1>2, <1>7, <1>8, <1>11 DEF Fit
<1>13. TreeTypeOK' /\ Len(node)' = k
  <2>1. {root', entry', parent', grandParent', newentry'} \subseteq 0 .. k
    BY <1>1, TypesOfTree DEF TreeInv, TreeTypes, Return, Null
  <2> QED BY <1>6, <2>1, NextTypes DEF TreeInv, TreeTypes, TreeTypeOK, Return
<1>14. TreeTypes'
  BY <1>13 DEF TreeTypes, Return, Sides
<1>15. TreeShape' /\ SearchedPlace' /\ Ascent'
  BY <1>10, <1>12, <1>13 DEF TreeShape, SearchedPlace, Ascent, Return
<1> QED BY <1>14, <1>15 DEF TreeInv

(* A tree without nodes.                                                   *)
LEMMA EmptyTree ==
  IsTree(<< >>, 0) /\ Linked(<< >>, 0) /\ \A i \in 1 .. 0 : Fit(<< >>, i)
  BY DEF IsTree, Linked

LEMMA TreeClearStep ==
  ASSUME TreeInv, Clear
  PROVE  TreeInv'
<1>1. /\ node' = << >> /\ pc = "rest" /\ root' = 0 /\ contents' = {}
      /\ UNCHANGED <<policy, pc, key, entry, parent, grandParent, side, newentry>>
  BY DEF Clear, Null
<1>2. entry = 0 /\ parent = 0 /\ grandParent = 0 /\ newentry = 0
  BY <1>1 DEF TreeInv, TreeTypes, Null
<1>3. IsTree(node', 0) /\ Linked(node', 0)
  BY <1>1, EmptyTree
<1>4. TreeTypeOK' /\ Len(node)' = 0
  BY <1>1, <1>2, <1>3, NextTypes DEF TreeInv, TreeTypes, TreeTypeOK
<1>5. TreeTypes'
  BY <1>1, <1>2, <1>4 DEF TreeInv, TreeTypes
<1>6. TreeShape' /\ SearchedPlace' /\ Ascent'
  BY <1>1, <1>3, <1>4 DEF TreeShape, SearchedPlace, Ascent
<1> QED BY <1>5, <1>6 DEF TreeInv

(* The inductive invariant.                                                *)
LEMMA TreeInvHolds == TreeSpec => []TreeInv
<1>1. TreeInit => TreeInv
  <2> SUFFICES ASSUME TreeInit PROVE TreeInv
    OBVIOUS
  <2>1. node = << >> /\ pc = "rest"
    BY DEF TreeInit
  <2>2. TreeTypes
    BY DEF TreeInit, TreeTypes, TreeTypeOK, Sides, Null
  <2>3. Len(node) = 0 /\ Linked(node, 0)
    BY <2>1, EmptyTree
  <2> QED BY <2>1, <2>2, <2>3 DEF TreeInv, TreeShape, SearchedPlace, Ascent
<1>2. TreeInv /\ [TreeNext]_treeVars => TreeInv'
  <2> SUFFICES ASSUME TreeInv, [TreeNext]_treeVars PROVE TreeInv'
    OBVIOUS
  <2>1. ASSUME NEW k \in Keys, FindInsert(k) PROVE TreeInv'
    BY <2>1, FindInsertStep
  <2>2. CASE UNCHANGED treeVars
    BY <2>2 DEF treeVars, TreeInv, TreeTypes, TreeTypeOK, TreeShape, SearchedPlace, Ascent
  <2> QED BY <2>1, <2>2, DescendStep, FoundStep, AddLeafStep, ClimbStep, StopClimbingStep, RebalanceStep,
             ReturnStep, TreeClearStep DEF TreeNext
<1> QED BY <1>1, <1>2, PTL DEF TreeSpec

(* Whatever keys are inserted, in whatever order and with whatever policy,   *)
(* after every call the recorded heights are the real ones and no node      *)
(* leans by more than one.                                                  *)
THEOREM BalancedCorrect == TreeSpec => []Balanced
<1>1. TreeInv => Balanced
  <2> SUFFICES ASSUME TreeInv, pc = "rest", NEW i \in DOMAIN node
               PROVE  LET s == Height(node, node[i].small)
                          l == Height(node, node[i].large)
                      IN  s - l \in -1 .. 1 /\ node[i].height = (IF s > l THEN s ELSE l) + 1
    BY DEF Balanced
  <2>1. PICK k \in Nat : k = Len(node) /\ IsTree(node, k)
    BY TypesOfTree DEF TreeInv, TreeTypes
  <2>2. i \in 1 .. k
    BY <2>1 DEF IsTree
  <2>3. Fit(node, i)
    BY <2>1, <2>2 DEF TreeInv, TreeShape
  <2>4. /\ node[i].small = node[i]["small"] /\ node[i].large = node[i]["large"]
        /\ "small" \in Sides /\ "large" \in Sides /\ node[i].height \in Nat
        /\ \A s \in Sides : s = "small" \/ s = "large"
    BY <2>1, <2>2, NodeTypes DEF Sides
  <2> DEFINE s == Height(node, node[i].small)
             l == Height(node, node[i].large)
             h == node[i].height
  <2>5. s \in {h - 1, h - 2} /\ l \in {h - 1, h - 2} /\ (s = h - 1 \/ l = h - 1) /\ h \in Nat
    BY <2>3, <2>4 DEF Fit
  <2> HIDE DEF s, l, h
  <2>6. s - l \in -1 .. 1 /\ h = (IF s > l THEN s ELSE l) + 1
    BY <2>5
  <2> QED BY <2>6 DEF s, l, h
<1> QED BY <1>1, TreeInvHolds, PTL

-----------------------------------------------------------------------------
(* The order of the keys. The span of a node is the set of the keys that a   *)
(* search from the root would lead to it.                                  *)
OnSide(s, x, y) == IF s = "small" THEN x < y ELSE y < x
Below(S, s, y) == {x \in S : OnSide(s, x, y)}

Spans(n, k, span) ==
  /\ span \in [1 .. k -> SUBSET Keys]
  /\ \A i \in 1 .. k : n[i].key \in span[i]
  /\ \A i \in 1 .. k, s \in Sides : n[i][s] # Null => span[n[i][s]] = Below(span[i], s, n[i].key)

(* There is one root, and the search for any key begins there.              *)
Rooted(n, k, r, span) ==
  /\ r \in 0 .. k /\ (r = Null <=> k = 0)
  /\ \A i \in 1 .. k : n[i].parent = Null <=> i = r
  /\ r # Null => span[r] = Keys

Ordered(n, k, r, span) == Spans(n, k, span) /\ Rooted(n, k, r, span)

LEMMA KeysOrdered ==
  ASSUME NEW heavy, NEW light, TwoSides(heavy, light)
  PROVE  /\ \A x, y \in Keys : OnSide(heavy, x, y) <=> OnSide(light, y, x)
         /\ \A x, y, z \in Keys : \A s \in Sides : OnSide(s, x, y) /\ OnSide(s, y, z) => OnSide(s, x, z)
  BY KeysAssumption DEF TwoSides, Sides, OnSide

(* What is below both of two keys is what is below the further one.         *)
LEMMA BelowTwice ==
  ASSUME NEW S, S \subseteq Keys, NEW s \in Sides, NEW y \in S, NEW z \in Keys, OnSide(s, y, z)
  PROVE  Below(Below(S, s, z), s, y) = Below(S, s, y)
<1>1. \A x \in Keys : OnSide(s, x, y) => OnSide(s, x, z)
  BY KeysAssumption DEF OnSide
<1> QED BY <1>1 DEF Below

LEMMA BelowBoth ==
  ASSUME NEW S, NEW s, NEW t, NEW y, NEW z
  PROVE  Below(Below(S, s, z), t, y) = Below(Below(S, t, y), s, z)
  BY DEF Below

LEMMA BelowIn ==
  ASSUME NEW S, S \subseteq Keys, NEW s, NEW y
  PROVE  Below(S, s, y) \subseteq Keys /\ \A x : x \in Below(S, s, y) <=> x \in S /\ OnSide(s, x, y)
  BY DEF Below

(* Cases 1 and 4 of addValue_() keep the order.                             *)
LEMMA OuterPointersOrdered ==
  ASSUME NEW k \in Nat, NEW n, NEW h \in Nat, NEW heavy, NEW light, TwoSides(heavy, light),
         NEW e, NEW p, NEW g, Leaning(n, k, h, heavy, light, e, p, g),
         n[p][heavy] = e, Height(n, n[p][light]) = h - 2,
         NEW r, NEW span, Ordered(n, k, r, span),
         NEW m, OuterPointersTurned(n, m, k, h, heavy, light, e, p, g)
  PROVE  \E new : Ordered(m, k, IF g = r THEN p ELSE r, new)
<1> DEFINE apex == IF g = r THEN p ELSE r
<1>1. /\ e \in 1 .. k /\ p \in 1 .. k /\ g \in 1 .. k /\ n[g][heavy] = p /\ n[p].parent = g
      /\ heavy \in Sides /\ light \in Sides /\ heavy # light /\ \A s \in Sides : s = heavy \/ s = light
      /\ IsTree(n, k)
  BY TwoSidesAll DEF Leaning, TwoSides
<1>2. /\ e # p /\ e # g /\ p # g
      /\ n[g].parent \notin {e, p, g}
      /\ n[p][light] \in 0 .. k /\ n[g][light] \in 0 .. k
      /\ n[p][light] \notin {e, p, g} /\ n[g][light] \notin {e, p, g}
      /\ \A i \in 1 .. k, s \in Sides :
            /\ n[i][s] = g => i = n[g].parent
            /\ n[i][s] = p => i = g /\ s = heavy
  BY KeysApart DEF Distinct
<1>3. \A i \in 1 .. k, s \in Sides : n[i][s] \in 0 .. k
  BY <1>1, NodeTypes
<1>4. /\ span \in [1 .. k -> SUBSET Keys]
      /\ \A i \in 1 .. k : n[i].key \in span[i]
      /\ \A i \in 1 .. k, s \in Sides : n[i][s] # Null => span[n[i][s]] = Below(span[i], s, n[i].key)
      /\ r \in 0 .. k /\ (r = Null <=> k = 0)
      /\ \A i \in 1 .. k : n[i].parent = Null <=> i = r
      /\ r # Null => span[r] = Keys
  BY DEF Ordered, Spans, Rooted
<1>5. PICK S, P, G : S = span[g] /\ P = n[p].key /\ G = n[g].key
  OBVIOUS
<1>6. S \subseteq Keys /\ P \in Keys /\ G \in Keys /\ G \in S
  BY <1>1, <1>4, <1>5
<1>7. span[p] = Below(S, heavy, G) /\ P \in Below(S, heavy, G)
  BY <1>1, <1>4, <1>5 DEF Null
<1>8. P \in S /\ OnSide(heavy, P, G) /\ OnSide(light, G, P)
  BY <1>6, <1>7, BelowIn, KeysOrdered
<1> DEFINE T == [i \in 1 .. k |-> IF i = p THEN S ELSE IF i = g THEN Below(S, light, P) ELSE span[i]]
<1>9. /\ T[p] = S /\ T[g] = Below(S, light, P) /\ T \in [1 .. k -> SUBSET Keys]
      /\ \A i \in 1 .. k : i \notin {p, g} => T[i] = span[i]
  BY <1>1, <1>2, <1>4, <1>6, BelowIn
<1> HIDE DEF T
<1>10. /\ \A j \in 1 .. k : m[j].key = n[j].key
       /\ \A j \in 1 .. k, t \in Sides :
            m[j][t] = IF j = g /\ t = heavy THEN n[p][light] ELSE IF j = p /\ t = light THEN g
                      ELSE IF j = n[g].parent /\ n[j][t] = g THEN p ELSE n[j][t]
       /\ \A j \in 1 .. k : m[j].parent =
                           (IF j = p THEN n[g].parent ELSE IF j = g THEN p
                                           ELSE IF j = n[p][light] THEN g ELSE n[j].parent)
  BY DEF OuterPointersTurned, SameContents
<1>11. \A i \in 1 .. k : m[i].key \in T[i]
  <2>1. G \in Below(S, light, P)
    BY <1>6, <1>8, BelowIn
  <2> QED BY <1>4, <1>5, <1>8, <1>9, <1>10, <2>1
<1>12. ASSUME NEW i \in 1 .. k, NEW t \in Sides, m[i][t] # Null
       PROVE  T[m[i][t]] = Below(T[i], t, m[i].key)
  <2>1. CASE i = g /\ t = heavy
    <3>1. m[i][t] = n[p][light] /\ m[i].key = G /\ n[p][light] \in 1 .. k
      BY <1>2, <1>5, <1>10, <1>12, <2>1 DEF Null
    <3>2. T[m[i][t]] = Below(Below(S, heavy, G), light, P)
      BY <1>1, <1>2, <1>4, <1>5, <1>7, <1>9, <1>12, <3>1
    <3> QED BY <1>9, <2>1, <3>1, <3>2, BelowBoth
  <2>2. CASE i = g /\ t = light
    <3>1. m[i][t] = n[g][light] /\ m[i].key = G /\ n[g][light] \in 1 .. k
      BY <1>1, <1>2, <1>5, <1>10, <1>12, <2>2 DEF Null
    <3>2. T[m[i][t]] = Below(S, light, G)
      BY <1>1, <1>2, <1>4, <1>5, <1>9, <1>12, <3>1
    <3> QED BY <1>1, <1>6, <1>8, <1>9, <2>2, <3>1, <3>2, BelowTwice
  <2>3. CASE i = p /\ t = light
    BY <1>2, <1>5, <1>9, <1>10, <2>3
  <2>4. CASE i = p /\ t = heavy
    <3>1. m[i][t] = e /\ m[i].key = P
      BY <1>1, <1>2, <1>5, <1>10, <2>4
    <3>2. T[e] = Below(Below(S, heavy, G), heavy, P)
      <4>1. span[e] = Below(span[p], heavy, P)
        BY <1>1, <1>4, <1>5 DEF Null
      <4> QED BY <1>1, <1>2, <1>7, <1>9, <4>1
    <3> QED BY <1>1, <1>6, <1>8, <1>9, <2>4, <3>1, <3>2, BelowTwice
  <2>5. CASE i \notin {p, g} /\ n[i][t] = g
    <3>1. m[i][t] = p /\ i = n[g].parent /\ m[i].key = n[i].key
      BY <1>2, <1>10, <2>5
    <3>2. S = Below(span[i], t, n[i].key)
      BY <1>1, <1>4, <1>5, <2>5 DEF Null
    <3> QED BY <1>9, <2>5, <3>1, <3>2
  <2>6. CASE i \notin {p, g} /\ n[i][t] # g
    <3>1. m[i][t] = n[i][t] /\ m[i].key = n[i].key
      BY <1>10, <2>6
    <3>2. n[i][t] \in 1 .. k /\ n[i][t] \notin {p, g}
      BY <1>2, <1>3, <1>12, <2>6, <3>1 DEF Null
    <3> QED BY <1>4, <1>9, <1>12, <2>6, <3>1, <3>2
  <2> QED BY <1>1, <2>1, <2>2, <2>3, <2>4, <2>5, <2>6
<1>13. apex \in 0 .. k /\ (apex = Null <=> k = 0) /\ (apex # Null => T[apex] = Keys)
  <2>1. r # p
    BY <1>1, <1>4 DEF Null
  <2> QED BY <1>1, <1>4, <1>5, <1>9, <2>1 DEF Null
<1>14. \A i \in 1 .. k : m[i].parent = Null <=> i = apex
  <2>1. \A i \in 1 .. k : i = n[p][light] => i \notin {p, g} /\ n[i].parent = p
    BY <1>1, <1>2 DEF Leaning, Linked, Null
  <2> QED BY <1>1, <1>2, <1>4, <1>10, <2>1 DEF Null
<1>15. Ordered(m, k, apex, T)
  BY <1>9, <1>11, <1>12, <1>13, <1>14 DEF Ordered, Spans, Rooted
<1> QED BY <1>15

(* Cases 2 and 3 of addValue_() keep the order.                             *)
LEMMA InnerPointersOrdered ==
  ASSUME NEW k \in Nat, NEW n, NEW h \in Nat, NEW heavy, NEW light, TwoSides(heavy, light),
         NEW e, NEW p, NEW g, Leaning(n, k, h, heavy, light, e, p, g),
         n[p][light] = e, Height(n, n[p][heavy]) = h - 2,
         NEW r, NEW span, Ordered(n, k, r, span),
         NEW m, InnerPointersTurned(n, m, k, h, heavy, light, e, p, g)
  PROVE  \E new : Ordered(m, k, IF g = r THEN e ELSE r, new)
<1> DEFINE apex == IF g = r THEN e ELSE r
<1>1. /\ e \in 1 .. k /\ p \in 1 .. k /\ g \in 1 .. k /\ n[g][heavy] = p /\ n[p].parent = g
      /\ heavy \in Sides /\ light \in Sides /\ heavy # light /\ \A s \in Sides : s = heavy \/ s = light
      /\ IsTree(n, k) /\ TwoSides(light, heavy)
  BY TwoSidesAll DEF Leaning, TwoSides
<1>2. /\ e # p /\ e # g /\ p # g
      /\ n[g].parent \notin {e, p, g} /\ n[e].parent = p
      /\ n[p][heavy] \in 0 .. k /\ n[g][light] \in 0 .. k
      /\ n[p][heavy] \notin {e, p, g} /\ n[g][light] \notin {e, p, g}
      /\ \A s \in Sides : n[e][s] \in 0 .. k /\ n[e][s] \notin {e, p, g}
      /\ \A i \in 1 .. k, s \in Sides :
            /\ n[i][s] = g => i = n[g].parent
            /\ n[i][s] = p => i = g /\ s = heavy
            /\ n[i][s] = e => i = p /\ s = light
  BY <1>1, KeysApart DEF Distinct
<1>3. \A i \in 1 .. k, s \in Sides : n[i][s] \in 0 .. k
  BY <1>1, NodeTypes
<1>4. /\ span \in [1 .. k -> SUBSET Keys]
      /\ \A i \in 1 .. k : n[i].key \in span[i]
      /\ \A i \in 1 .. k, s \in Sides : n[i][s] # Null => span[n[i][s]] = Below(span[i], s, n[i].key)
      /\ r \in 0 .. k /\ (r = Null <=> k = 0)
      /\ \A i \in 1 .. k : n[i].parent = Null <=> i = r
      /\ r # Null => span[r] = Keys
  BY DEF Ordered, Spans, Rooted
<1>5. PICK S, P, G, E : S = span[g] /\ P = n[p].key /\ G = n[g].key /\ E = n[e].key
  OBVIOUS
<1>6. S \subseteq Keys /\ P \in Keys /\ G \in Keys /\ E \in Keys /\ G \in S
  BY <1>1, <1>4, <1>5
<1>7. /\ span[p] = Below(S, heavy, G) /\ P \in Below(S, heavy, G)
      /\ span[e] = Below(Below(S, heavy, G), light, P) /\ E \in Below(Below(S, heavy, G), light, P)
  <2>1. span[p] = Below(S, heavy, G)
    BY <1>1, <1>4, <1>5 DEF Null
  <2>2. span[e] = Below(span[p], light, P)
    BY <1>1, <1>4, <1>5 DEF Null
  <2>3. P \in span[p] /\ E \in span[e]
    BY <1>1, <1>4, <1>5
  <2> QED BY <2>1, <2>2, <2>3
<1>8. /\ P \in S /\ OnSide(heavy, P, G)
      /\ E \in S /\ OnSide(heavy, E, G) /\ OnSide(light, E, P) /\ OnSide(heavy, P, E) /\ OnSide(light, G, E)
  <2>1. Below(S, heavy, G) \subseteq Keys
    BY <1>6, BelowIn
  <2>2. P \in S /\ OnSide(heavy, P, G) /\ E \in Below(S, heavy, G) /\ OnSide(light, E, P)
    BY <1>6, <1>7, <2>1, BelowIn
  <2>3. E \in S /\ OnSide(heavy, E, G)
    BY <1>6, <2>2, BelowIn
  <2> QED BY <1>1, <1>6, <2>2, <2>3, KeysOrdered
<1> DEFINE T == [i \in 1 .. k |-> IF i = e THEN S ELSE IF i = p THEN Below(S, heavy, E)
                                  ELSE IF i = g THEN Below(S, light, E) ELSE span[i]]
<1>9. /\ T[e] = S /\ T[p] = Below(S, heavy, E) /\ T[g] = Below(S, light, E)
      /\ T \in [1 .. k -> SUBSET Keys]
      /\ \A i \in 1 .. k : i \notin {e, p, g} => T[i] = span[i]
  BY <1>1, <1>2, <1>4, <1>6, BelowIn
<1> HIDE DEF T
<1>10. /\ \A j \in 1 .. k : m[j].key = n[j].key
       /\ \A j \in 1 .. k, t \in Sides :
            m[j][t] = IF j = e THEN (IF t = heavy THEN p ELSE g)
                      ELSE IF j = g /\ t = heavy THEN n[e][light]
                      ELSE IF j = p /\ t = light THEN n[e][heavy]
                      ELSE IF j = n[g].parent /\ n[j][t] = g THEN e ELSE n[j][t]
       /\ \A j \in 1 .. k : m[j].parent =
                           (IF j = e THEN n[g].parent ELSE IF j \in {p, g} THEN e
                                           ELSE IF j = n[e][light] THEN g
                                           ELSE IF j = n[e][heavy] THEN p ELSE n[j].parent)
  BY DEF InnerPointersTurned, SameContents
<1>11. \A i \in 1 .. k : m[i].key \in T[i]
  <2>1. G \in Below(S, light, E) /\ P \in Below(S, heavy, E)
    BY <1>6, <1>8, BelowIn
  <2> QED BY <1>4, <1>5, <1>8, <1>9, <1>10, <2>1
<1>12. ASSUME NEW i \in 1 .. k, NEW t \in Sides, m[i][t] # Null
       PROVE  T[m[i][t]] = Below(T[i], t, m[i].key)
  <2>1. CASE i = e
    BY <1>1, <1>2, <1>5, <1>9, <1>10, <2>1
  <2>2. CASE i = g /\ t = heavy
    <3>1. m[i][t] = n[e][light] /\ m[i].key = G /\ n[e][light] \in 1 .. k /\ n[e][light] \notin {e, p, g}
      BY <1>1, <1>2, <1>5, <1>10, <1>12, <2>2 DEF Null
    <3>2. T[m[i][t]] = Below(Below(Below(S, heavy, G), light, P), light, E)
      BY <1>1, <1>4, <1>5, <1>7, <1>9, <1>12, <3>1
    <3>3. Below(Below(Below(S, heavy, G), light, P), light, E) = Below(Below(S, heavy, G), light, E)
      <4>1. Below(S, heavy, G) \subseteq Keys /\ E \in Below(S, heavy, G)
        BY <1>6, <1>8, BelowIn
      <4> QED BY <1>1, <1>6, <1>8, <4>1, BelowTwice
    <3> QED BY <1>9, <2>2, <3>1, <3>2, <3>3, BelowBoth
  <2>3. CASE i = g /\ t = light
    <3>1. m[i][t] = n[g][light] /\ m[i].key = G /\ n[g][light] \in 1 .. k /\ n[g][light] \notin {e, p, g}
      BY <1>1, <1>2, <1>5, <1>10, <1>12, <2>3 DEF Null
    <3>2. T[m[i][t]] = Below(S, light, G)
      BY <1>1, <1>4, <1>5, <1>9, <1>12, <3>1
    <3> QED BY <1>1, <1>6, <1>8, <1>9, <2>3, <3>1, <3>2, BelowTwice
  <2>4. CASE i = p /\ t = light
    <3>1. m[i][t] = n[e][heavy] /\ m[i].key = P /\ n[e][heavy] \in 1 .. k /\ n[e][heavy] \notin {e, p, g}
      BY <1>1, <1>2, <1>5, <1>10, <1>12, <2>4 DEF Null
    <3>2. T[m[i][t]] = Below(Below(Below(S, heavy, G), light, P), heavy, E)
      BY <1>1, <1>4, <1>5, <1>7, <1>9, <1>12, <3>1
    <3>3. Below(Below(Below(S, heavy, G), light, P), heavy, E) = Below(Below(Below(S, heavy, G), heavy, E), light, P)
      BY BelowBoth
    <3>4. Below(Below(S, heavy, G), heavy, E) = Below(S, heavy, E)
      BY <1>1, <1>6, <1>8, BelowTwice
    <3> QED BY <1>9, <2>4, <3>1, <3>2, <3>3, <3>4
  <2>5. CASE i = p /\ t = heavy
    <3>1. m[i][t] = n[p][heavy] /\ m[i].key = P /\ n[p][heavy] \in 1 .. k /\ n[p][heavy] \notin {e, p, g}
      BY <1>1, <1>2, <1>5, <1>10, <1>12, <2>5 DEF Null
    <3>2. T[m[i][t]] = Below(Below(S, heavy, G), heavy, P)
      BY <1>1, <1>4, <1>5, <1>7, <1>9, <1>12, <3>1
    <3>3. Below(Below(S, heavy, G), heavy, P) = Below(S, heavy, P)
      BY <1>1, <1>6, <1>8, BelowTwice
    <3>4. Below(Below(S, heavy, E), heavy, P) = Below(S, heavy, P)
      BY <1>1, <1>6, <1>8, BelowTwice
    <3> QED BY <1>9, <2>5, <3>1, <3>2, <3>3, <3>4
  <2>6. CASE i \notin {e, p, g} /\ n[i][t] = g
    <3>1. m[i][t] = e /\ i = n[g].parent /\ m[i].key = n[i].key
      BY <1>2, <1>10, <2>6
    <3>2. S = Below(span[i], t, n[i].key)
      BY <1>1, <1>4, <1>5, <2>6 DEF Null
    <3> QED BY <1>9, <2>6, <3>1, <3>2
  <2>7. CASE i \notin {e, p, g} /\ n[i][t] # g
    <3>1. m[i][t] = n[i][t] /\ m[i].key = n[i].key
      BY <1>10, <2>7
    <3>2. n[i][t] \in 1 .. k /\ n[i][t] \notin {e, p, g}
      BY <1>2, <1>3, <1>12, <2>7, <3>1 DEF Null
    <3> QED BY <1>4, <1>9, <1>12, <2>7, <3>1, <3>2
  <2> QED BY <1>1, <2>1, <2>2, <2>3, <2>4, <2>5, <2>6, <2>7
<1>13. apex \in 0 .. k /\ (apex = Null <=> k = 0) /\ (apex # Null => T[apex] = Keys)
  <2>1. r # p /\ r # e
    BY <1>1, <1>2, <1>4 DEF Null
  <2> QED BY <1>1, <1>4, <1>5, <1>9, <2>1 DEF Null
<1>14. \A i \in 1 .. k : m[i].parent = Null <=> i = apex
  <2>1. \A i \in 1 .. k, s \in Sides : i = n[e][s] => i \notin {e, p, g} /\ n[i].parent = e
    BY <1>1, <1>2 DEF Leaning, Linked, Null
  <2>2. e # Null /\ p # Null /\ g # Null
    BY <1>1 DEF Null
  <2>3. r # e /\ r # p
    BY <1>1, <1>2, <1>4, <2>2
  <2>4. ASSUME NEW i \in 1 .. k
        PROVE  m[i].parent = Null <=> i = apex
    <3>1. m[i].parent = (IF i = e THEN n[g].parent ELSE IF i \in {p, g} THEN e
                         ELSE IF i = n[e][light] THEN g ELSE IF i = n[e][heavy] THEN p ELSE n[i].parent)
      BY <1>10
    <3>2. CASE i \in {e, p, g}
      BY <1>1, <1>2, <1>4, <2>2, <2>3, <3>1, <3>2
    <3>3. CASE i \notin {e, p, g} /\ (i = n[e][light] \/ i = n[e][heavy])
      BY <1>1, <1>4, <2>1, <2>2, <3>1, <3>3
    <3>4. CASE i \notin {e, p, g} /\ i # n[e][light] /\ i # n[e][heavy]
      BY <1>1, <1>4, <3>1, <3>4
    <3> QED BY <3>2, <3>3, <3>4
  <2> QED BY <2>4
<1>15. Ordered(m, k, apex, T)
  BY <1>9, <1>11, <1>12, <1>13, <1>14 DEF Ordered, Spans, Rooted
<1> QED BY <1>15

(* Cases 1 and 4 of addValueSwap_() keep the order: the keys of p and g are  *)
(* exchanged.                                                               *)
LEMMA OuterSwapOrdered ==
  ASSUME NEW k \in Nat, NEW n, NEW h \in Nat, NEW heavy, NEW light, TwoSides(heavy, light),
         NEW e, NEW p, NEW g, Leaning(n, k, h, heavy, light, e, p, g),
         n[p][heavy] = e, Height(n, n[p][light]) = h - 2,
         NEW r, NEW span, Ordered(n, k, r, span),
         NEW m, OuterSwapTurned(n, m, k, h, heavy, light, e, p, g)
  PROVE  \E new : Ordered(m, k, r, new)
<1>1. /\ e \in 1 .. k /\ p \in 1 .. k /\ g \in 1 .. k /\ n[g][heavy] = p /\ n[p].parent = g
      /\ heavy \in Sides /\ light \in Sides /\ heavy # light /\ \A s \in Sides : s = heavy \/ s = light
      /\ IsTree(n, k)
  BY TwoSidesAll DEF Leaning, TwoSides
<1>2. /\ e # p /\ e # g /\ p # g /\ n[e].parent = p
      /\ n[p][light] \in 0 .. k /\ n[g][light] \in 0 .. k
      /\ n[p][light] \notin {e, p, g} /\ n[g][light] \notin {e, p, g}
      /\ \A i \in 1 .. k, s \in Sides : n[i][s] = p => i = g /\ s = heavy
  BY KeysApart DEF Distinct
<1>3. \A i \in 1 .. k, s \in Sides : n[i][s] \in 0 .. k
  BY <1>1, NodeTypes
<1>4. /\ span \in [1 .. k -> SUBSET Keys]
      /\ \A i \in 1 .. k : n[i].key \in span[i]
      /\ \A i \in 1 .. k, s \in Sides : n[i][s] # Null => span[n[i][s]] = Below(span[i], s, n[i].key)
      /\ r \in 0 .. k /\ (r = Null <=> k = 0)
      /\ \A i \in 1 .. k : n[i].parent = Null <=> i = r
      /\ r # Null => span[r] = Keys
  BY DEF Ordered, Spans, Rooted
<1>5. PICK S, P, G : S = span[g] /\ P = n[p].key /\ G = n[g].key
  OBVIOUS
<1>6. S \subseteq Keys /\ P \in Keys /\ G \in Keys /\ G \in S
  BY <1>1, <1>4, <1>5
<1>7. span[p] = Below(S, heavy, G) /\ P \in Below(S, heavy, G)
  BY <1>1, <1>4, <1>5 DEF Null
<1>8. P \in S /\ OnSide(heavy, P, G) /\ OnSide(light, G, P)
  BY <1>6, <1>7, BelowIn, KeysOrdered
<1> DEFINE T == [i \in 1 .. k |-> IF i = p THEN Below(S, light, P) ELSE span[i]]
<1>9. /\ T[g] = S /\ T[p] = Below(S, light, P) /\ T \in [1 .. k -> SUBSET Keys]
      /\ \A i \in 1 .. k : i # p => T[i] = span[i]
  BY <1>1, <1>2, <1>4, <1>5, <1>6, BelowIn
<1> HIDE DEF T
<1>10. /\ \A j \in 1 .. k : m[j].key = IF j = p THEN G ELSE IF j = g THEN P ELSE n[j].key
       /\ \A j \in 1 .. k, t \in Sides :
            m[j][t] = IF j = g THEN (IF t = heavy THEN e ELSE p)
                      ELSE IF j = p THEN (IF t = heavy THEN n[p][light] ELSE n[g][light]) ELSE n[j][t]
       /\ \A j \in 1 .. k : m[j].parent =
                           (IF j = e THEN g ELSE IF j = n[g][light] THEN p ELSE n[j].parent)
  BY <1>5 DEF OuterSwapTurned, ContentsExchanged
<1>11. \A i \in 1 .. k : m[i].key \in T[i]
  <2>1. G \in Below(S, light, P)
    BY <1>6, <1>8, BelowIn
  <2> QED BY <1>4, <1>5, <1>8, <1>9, <1>10, <2>1
<1>12. ASSUME NEW i \in 1 .. k, NEW t \in Sides, m[i][t] # Null
       PROVE  T[m[i][t]] = Below(T[i], t, m[i].key)
  <2>1. CASE i = g /\ t = heavy
    <3>1. m[i][t] = e /\ m[i].key = P
      BY <1>1, <1>2, <1>10, <2>1
    <3>2. T[e] = Below(Below(S, heavy, G), heavy, P)
      <4>1. span[e] = Below(span[p], heavy, P)
        BY <1>1, <1>4, <1>5 DEF Null
      <4> QED BY <1>1, <1>2, <1>7, <1>9, <4>1
    <3> QED BY <1>1, <1>6, <1>8, <1>9, <2>1, <3>1, <3>2, BelowTwice
  <2>2. CASE i = g /\ t = light
    BY <1>1, <1>2, <1>9, <1>10, <2>2
  <2>3. CASE i = p /\ t = heavy
    <3>1. m[i][t] = n[p][light] /\ m[i].key = G /\ n[p][light] \in 1 .. k
      BY <1>2, <1>10, <1>12, <2>3 DEF Null
    <3>2. T[m[i][t]] = Below(Below(S, heavy, G), light, P)
      BY <1>1, <1>2, <1>4, <1>5, <1>7, <1>9, <1>12, <3>1
    <3> QED BY <1>9, <2>3, <3>1, <3>2, BelowBoth
  <2>4. CASE i = p /\ t = light
    <3>1. m[i][t] = n[g][light] /\ m[i].key = G /\ n[g][light] \in 1 .. k
      BY <1>1, <1>2, <1>10, <1>12, <2>4 DEF Null
    <3>2. T[m[i][t]] = Below(S, light, G)
      BY <1>1, <1>2, <1>4, <1>5, <1>9, <1>12, <3>1
    <3> QED BY <1>1, <1>6, <1>8, <1>9, <2>4, <3>1, <3>2, BelowTwice
  <2>5. CASE i \notin {p, g}
    <3>1. m[i][t] = n[i][t] /\ m[i].key = n[i].key
      BY <1>10, <2>5
    <3>2. n[i][t] \in 1 .. k /\ n[i][t] # p
      BY <1>2, <1>3, <1>12, <2>5, <3>1 DEF Null
    <3> QED BY <1>4, <1>9, <1>12, <2>5, <3>1, <3>2
  <2> QED BY <1>1, <2>1, <2>2, <2>3, <2>4, <2>5
<1>13. r \in 0 .. k /\ (r = Null <=> k = 0) /\ (r # Null => T[r] = Keys)
  <2>1. r # p
    BY <1>1, <1>4 DEF Null
  <2> QED BY <1>4, <1>9, <2>1 DEF Null
<1>14. \A i \in 1 .. k : m[i].parent = Null <=> i = r
  <2>1. \A i \in 1 .. k : i = n[g][light] => n[i].parent = g
    BY <1>1, <1>2 DEF Leaning, Linked, Null
  <2> QED BY <1>1, <1>2, <1>4, <1>10, <2>1 DEF Null
<1>15. Ordered(m, k, r, T)
  BY <1>9, <1>11, <1>12, <1>13, <1>14 DEF Ordered, Spans, Rooted
<1> QED BY <1>15

(* Cases 2 and 3 of addValueSwap_() keep the order: the keys of e and g are  *)
(* exchanged.                                                               *)
LEMMA InnerSwapOrdered ==
  ASSUME NEW k \in Nat, NEW n, NEW h \in Nat, NEW heavy, NEW light, TwoSides(heavy, light),
         NEW e, NEW p, NEW g, Leaning(n, k, h, heavy, light, e, p, g),
         n[p][light] = e, Height(n, n[p][heavy]) = h - 2,
         NEW r, NEW span, Ordered(n, k, r, span),
         NEW m, InnerSwapTurned(n, m, k, h, heavy, light, e, p, g)
  PROVE  \E new : Ordered(m, k, r, new)
<1>1. /\ e \in 1 .. k /\ p \in 1 .. k /\ g \in 1 .. k /\ n[g][heavy] = p /\ n[p].parent = g
      /\ heavy \in Sides /\ light \in Sides /\ heavy # light /\ \A s \in Sides : s = heavy \/ s = light
      /\ IsTree(n, k) /\ TwoSides(light, heavy)
  BY TwoSidesAll DEF Leaning, TwoSides
<1>2. /\ e # p /\ e # g /\ p # g /\ n[e].parent = p
      /\ n[p][heavy] \in 0 .. k /\ n[g][light] \in 0 .. k
      /\ n[p][heavy] \notin {e, p, g} /\ n[g][light] \notin {e, p, g}
      /\ \A s \in Sides : n[e][s] \in 0 .. k /\ n[e][s] \notin {e, p, g}
      /\ \A i \in 1 .. k, s \in Sides :
            /\ n[i][s] = p => i = g /\ s = heavy
            /\ n[i][s] = e => i = p /\ s = light
  BY <1>1, KeysApart DEF Distinct
<1>3. \A i \in 1 .. k, s \in Sides : n[i][s] \in 0 .. k
  BY <1>1, NodeTypes
<1>4. /\ span \in [1 .. k -> SUBSET Keys]
      /\ \A i \in 1 .. k : n[i].key \in span[i]
      /\ \A i \in 1 .. k, s \in Sides : n[i][s] # Null => span[n[i][s]] = Below(span[i], s, n[i].key)
      /\ r \in 0 .. k /\ (r = Null <=> k = 0)
      /\ \A i \in 1 .. k : n[i].parent = Null <=> i = r
      /\ r # Null => span[r] = Keys
  BY DEF Ordered, Spans, Rooted
<1>5. PICK S, P, G, E : S = span[g] /\ P = n[p].key /\ G = n[g].key /\ E = n[e].key
  OBVIOUS
<1>6. S \subseteq Keys /\ P \in Keys /\ G \in Keys /\ E \in Keys /\ G \in S
  BY <1>1, <1>4, <1>5
<1>7. /\ span[p] = Below(S, heavy, G) /\ P \in Below(S, heavy, G)
      /\ span[e] = Below(Below(S, heavy, G), light, P) /\ E \in Below(Below(S, heavy, G), light, P)
  <2>1. span[p] = Below(S, heavy, G)
    BY <1>1, <1>4, <1>5 DEF Null
  <2>2. span[e] = Below(span[p], light, P)
    BY <1>1, <1>4, <1>5 DEF Null
  <2>3. P \in span[p] /\ E \in span[e]
    BY <1>1, <1>4, <1>5
  <2> QED BY <2>1, <2>2, <2>3
<1>8. /\ P \in S /\ OnSide(heavy, P, G)
      /\ E \in S /\ OnSide(heavy, E, G) /\ OnSide(light, E, P) /\ OnSide(heavy, P, E) /\ OnSide(light, G, E)
  <2>1. Below(S, heavy, G) \subseteq Keys
    BY <1>6, BelowIn
  <2>2. P \in S /\ OnSide(heavy, P, G) /\ E \in Below(S, heavy, G) /\ OnSide(light, E, P)
    BY <1>6, <1>7, <2>1, BelowIn
  <2>3. E \in S /\ OnSide(heavy, E, G)
    BY <1>6, <2>2, BelowIn
  <2> QED BY <1>1, <1>6, <2>2, <2>3, KeysOrdered
<1> DEFINE T == [i \in 1 .. k |-> IF i = p THEN Below(S, heavy, E)
                                  ELSE IF i = e THEN Below(S, light, E) ELSE span[i]]
<1>9. /\ T[g] = S /\ T[p] = Below(S, heavy, E) /\ T[e] = Below(S, light, E)
      /\ T \in [1 .. k -> SUBSET Keys]
      /\ \A i \in 1 .. k : i \notin {e, p} => T[i] = span[i]
  BY <1>1, <1>2, <1>4, <1>5, <1>6, BelowIn
<1> HIDE DEF T
<1>10. /\ \A j \in 1 .. k : m[j].key = IF j = e THEN G ELSE IF j = g THEN E ELSE n[j].key
       /\ \A j \in 1 .. k, t \in Sides :
            m[j][t] = IF j = g THEN (IF t = heavy THEN p ELSE e)
                      ELSE IF j = p /\ t = light THEN n[e][heavy]
                      ELSE IF j = e THEN (IF t = heavy THEN n[e][light] ELSE n[g][light]) ELSE n[j][t]
       /\ \A j \in 1 .. k : m[j].parent =
                           (IF j = e THEN g ELSE IF j = n[g][light] THEN e
                                   ELSE IF j = n[e][heavy] THEN p ELSE n[j].parent)
  BY <1>5 DEF InnerSwapTurned, ContentsExchanged
<1>11. \A i \in 1 .. k : m[i].key \in T[i]
  <2>1. G \in Below(S, light, E) /\ P \in Below(S, heavy, E)
    BY <1>6, <1>8, BelowIn
  <2> QED BY <1>4, <1>5, <1>8, <1>9, <1>10, <2>1
<1>12. ASSUME NEW i \in 1 .. k, NEW t \in Sides, m[i][t] # Null
       PROVE  T[m[i][t]] = Below(T[i], t, m[i].key)
  <2>1. CASE i = g
    BY <1>1, <1>2, <1>9, <1>10, <2>1
  <2>2. CASE i = e /\ t = heavy
    <3>1. m[i][t] = n[e][light] /\ m[i].key = G /\ n[e][light] \in 1 .. k /\ n[e][light] \notin {e, p, g}
      BY <1>1, <1>2, <1>10, <1>12, <2>2 DEF Null
    <3>2. T[m[i][t]] = Below(Below(Below(S, heavy, G), light, P), light, E)
      BY <1>1, <1>4, <1>5, <1>7, <1>9, <1>12, <3>1
    <3>3. Below(Below(Below(S, heavy, G), light, P), light, E) = Below(Below(S, heavy, G), light, E)
      <4>1. Below(S, heavy, G) \subseteq Keys /\ E \in Below(S, heavy, G)
        BY <1>6, <1>8, BelowIn
      <4> QED BY <1>1, <1>6, <1>8, <4>1, BelowTwice
    <3> QED BY <1>9, <2>2, <3>1, <3>2, <3>3, BelowBoth
  <2>3. CASE i = e /\ t = light
    <3>1. m[i][t] = n[g][light] /\ m[i].key = G /\ n[g][light] \in 1 .. k /\ n[g][light] \notin {e, p, g}
      BY <1>1, <1>2, <1>10, <1>12, <2>3 DEF Null
    <3>2. T[m[i][t]] = Below(S, light, G)
      BY <1>1, <1>4, <1>5, <1>9, <1>12, <3>1
    <3> QED BY <1>1, <1>6, <1>8, <1>9, <2>3, <3>1, <3>2, BelowTwice
  <2>4. CASE i = p /\ t = light
    <3>1. m[i][t] = n[e][heavy] /\ m[i].key = P /\ n[e][heavy] \in 1 .. k /\ n[e][heavy] \notin {e, p, g}
      BY <1>1, <1>2, <1>5, <1>10, <1>12, <2>4 DEF Null
    <3>2. T[m[i][t]] = Below(Below(Below(S, heavy, G), light, P), heavy, E)
      BY <1>1, <1>4, <1>5, <1>7, <1>9, <1>12, <3>1
    <3>3. Below(Below(Below(S, heavy, G), light, P), heavy, E) = Below(Below(Below(S, heavy, G), heavy, E), light, P)
      BY BelowBoth
    <3>4. Below(Below(S, heavy, G), heavy, E) = Below(S, heavy, E)
      BY <1>1, <1>6, <1>8, BelowTwice
    <3> QED BY <1>9, <2>4, <3>1, <3>2, <3>3, <3>4
  <2>5. CASE i = p /\ t = heavy
    <3>1. m[i][t] = n[p][heavy] /\ m[i].key = P /\ n[p][heavy] \in 1 .. k /\ n[p][heavy] \notin {e, p, g}
      BY <1>1, <1>2, <1>5, <1>10, <1>12, <2>5 DEF Null
    <3>2. T[m[i][t]] = Below(Below(S, heavy, G), heavy, P)
      BY <1>1, <1>4, <1>5, <1>7, <1>9, <1>12, <3>1
    <3>3. Below(Below(S, heavy, G), heavy, P) = Below(S, heavy, P)
      BY <1>1, <1>6, <1>8, BelowTwice
    <3>4. Below(Below(S, heavy, E), heavy, P) = Below(S, heavy, P)
      BY <1>1, <1>6, <1>8, BelowTwice
    <3> QED BY <1>9, <2>5, <3>1, <3>2, <3>3, <3>4
  <2>6. CASE i \notin {e, p, g}
    <3>1. m[i][t] = n[i][t] /\ m[i].key = n[i].key
      BY <1>10, <2>6
    <3>2. n[i][t] \in 1 .. k /\ n[i][t] \notin {e, p}
      BY <1>2, <1>3, <1>12, <2>6, <3>1 DEF Null
    <3> QED BY <1>4, <1>9, <1>12, <2>6, <3>1, <3>2
  <2> QED BY <1>1, <2>1, <2>2, <2>3, <2>4, <2>5, <2>6
<1>13. r \in 0 .. k /\ (r = Null <=> k = 0) /\ (r # Null => T[r] = Keys)
  <2>1. r # p /\ r # e
    BY <1>1, <1>2, <1>4 DEF Null
  <2> QED BY <1>4, <1>9, <2>1 DEF Null
<1>14. \A i \in 1 .. k : m[i].parent = Null <=> i = r
  <2>1. \A i \in 1 .. k : /\ i = n[g][light] => n[i].parent = g
                          /\ i = n[e][heavy] => n[i].parent = e
    BY <1>1, <1>2 DEF Leaning, Linked, Null
  <2>2. e # Null /\ p # Null /\ g # Null /\ n[e].parent = p
    BY <1>1, <1>2 DEF Null
  <2>3. \A i \in 1 .. k : m[i].parent = (IF i = e THEN g ELSE IF i = n[g][light] THEN e
                                         ELSE IF i = n[e][heavy] THEN p ELSE n[i].parent)
    BY <1>10
  <2>4. \A i \in 1 .. k : m[i].parent = Null <=> n[i].parent = Null
    BY <2>1, <2>2, <2>3
  <2> QED BY <1>4, <2>4
<1>15. Ordered(m, k, r, T)
  BY <1>9, <1>11, <1>12, <1>13, <1>14 DEF Ordered, Spans, Rooted
<1> QED BY <1>15

-----------------------------------------------------------------------------
(* The inductive invariant of the contents.                                 *)
Filled(n, k, S, new) ==
  /\ S = {n[i].key : i \in 1 .. k}
  /\ \A i \in 1 .. k : i # new => n[i].value = n[i].key

Contents ==
  /\ Filled(node, Len(node), contents, newentry)
  /\ pc \in {"climb", "return"} => newentry # Null /\ node[newentry].key = key
  /\ pc \notin {"climb", "return"} => newentry = Null
  /\ pc = "climb" => node[newentry].height = 0

(* A search is at the place of its key.                                     *)
Searching(n, r, span) ==
  pc = "search" => IF parent = Null THEN entry = r
                   ELSE key \in span[parent] /\ OnSide(side, key, n[parent].key)

Order == \E span : Ordered(node, Len(node), root, span) /\ Searching(node, root, span)

OrderInv == TreeInv /\ Contents /\ Order

LEMMA SameFilled ==
  ASSUME NEW k \in Nat, NEW n, NEW m, NEW S, NEW new, SameContents(n, m, k), Filled(n, k, S, new)
  PROVE  Filled(m, k, S, new)
  BY DEF Filled, SameContents

LEMMA ExchangedFilled ==
  ASSUME NEW k \in Nat, NEW n, NEW m, NEW S, NEW i \in 1 .. k, NEW l \in 1 .. k,
         NEW new, NEW moved, moved = (IF new = i THEN l ELSE IF new = l THEN i ELSE new),
         ContentsExchanged(n, m, k, i, l), Filled(n, k, S, new)
  PROVE  Filled(m, k, S, moved) /\ (new \in 1 .. k => m[moved].key = n[new].key /\ moved \in 1 .. k)
<1> DEFINE x(j) == IF j = i THEN l ELSE IF j = l THEN i ELSE j
<1>1. \A j \in 1 .. k : x(j) \in 1 .. k /\ x(x(j)) = j
  OBVIOUS
<1>2. \A j \in 1 .. k : m[j].key = n[x(j)].key /\ m[j].value = n[x(j)].value
  BY DEF ContentsExchanged
<1>3. moved = x(new) /\ x(moved) = new
  OBVIOUS
<1> HIDE DEF x
<1>4. S = {m[j].key : j \in 1 .. k}
  BY <1>1, <1>2 DEF Filled
<1>5. \A j \in 1 .. k : j # moved => m[j].value = m[j].key
  BY <1>1, <1>2, <1>3 DEF Filled
<1>6. new \in 1 .. k => m[moved].key = n[new].key /\ moved \in 1 .. k
  BY <1>1, <1>2, <1>3
<1> QED BY <1>4, <1>5, <1>6 DEF Filled

(* Nothing that the order depends on.                                       *)
LEMMA SameOrdered ==
  ASSUME NEW k \in Nat, NEW n, NEW m, NEW r, NEW span, Ordered(n, k, r, span),
         \A j \in 1 .. k : /\ m[j].key = n[j].key /\ m[j].parent = n[j].parent
                           /\ \A t \in Sides : m[j][t] = n[j][t]
  PROVE  Ordered(m, k, r, span)
<1>1. Spans(m, k, span)
  BY DEF Ordered, Spans
<1>2. Rooted(m, k, r, span)
  BY DEF Ordered, Rooted
<1> QED BY <1>1, <1>2 DEF Ordered

(* A new leaf at the place that the search has found.                       *)
LEMMA LeafOrdered ==
  ASSUME NEW k \in Nat, NEW n, IsTree(n, k), NEW r, NEW span, Ordered(n, k, r, span),
         NEW p \in 0 .. k, NEW s \in Sides, NEW h, NEW x \in Keys,
         p = Null => r = Null,
         p # Null => x \in span[p] /\ OnSide(s, x, n[p].key) /\ n[p][s] = Null,
         NEW m, LeafAdded(n, m, k, p, s, h), m[k + 1].key = x
  PROVE  \E new : Ordered(m, k + 1, IF p = Null THEN k + 1 ELSE r, new)
<1> DEFINE apex == IF p = Null THEN k + 1 ELSE r
           T == [i \in 1 .. k + 1 |-> IF i = k + 1 THEN (IF p = Null THEN Keys ELSE Below(span[p], s, n[p].key)) ELSE span[i]]
<1>1. /\ span \in [1 .. k -> SUBSET Keys]
      /\ \A i \in 1 .. k : n[i].key \in span[i]
      /\ \A i \in 1 .. k, t \in Sides : n[i][t] # Null => span[n[i][t]] = Below(span[i], t, n[i].key)
      /\ r \in 0 .. k /\ (r = Null <=> k = 0)
      /\ \A i \in 1 .. k : n[i].parent = Null <=> i = r
      /\ r # Null => span[r] = Keys
  BY DEF Ordered, Spans, Rooted
<1>2. \A i \in 1 .. k, t \in Sides : n[i][t] \in 0 .. k
  BY NodeTypes
<1>3. /\ \A j \in 1 .. k : /\ m[j].key = n[j].key /\ m[j].parent = n[j].parent
                           /\ \A t \in Sides : m[j][t] = IF j = p /\ t = s THEN k + 1 ELSE n[j][t]
      /\ m[k + 1].parent = p
      /\ \A t \in Sides : m[k + 1][t] = Null
  BY DEF LeafAdded, SameContents
<1>4. p # Null => p \in 1 .. k
  BY DEF Null
<1>5. /\ T \in [1 .. k + 1 -> SUBSET Keys]
      /\ T[k + 1] = IF p = Null THEN Keys ELSE Below(span[p], s, n[p].key)
      /\ \A i \in 1 .. k : T[i] = span[i]
  <2>1. p # Null => Below(span[p], s, n[p].key) \subseteq Keys
    BY <1>1, <1>4, BelowIn
  <2>2. (IF p = Null THEN Keys ELSE Below(span[p], s, n[p].key)) \subseteq Keys
    BY <2>1
  <2> QED BY <1>1, <2>2
<1> HIDE DEF T
<1>6. \A i \in 1 .. k + 1 : m[i].key \in T[i]
  <2>1. m[k + 1].key \in T[k + 1]
    BY <1>1, <1>4, <1>5, BelowIn
  <2> QED BY <1>1, <1>3, <1>5, <2>1
<1>7. ASSUME NEW i \in 1 .. k + 1, NEW t \in Sides, m[i][t] # Null
      PROVE  T[m[i][t]] = Below(T[i], t, m[i].key)
  <2>1. i \in 1 .. k
    BY <1>3, <1>7
  <2>2. CASE i = p /\ t = s
    BY <1>3, <1>4, <1>5, <2>1, <2>2 DEF Null
  <2>3. CASE ~(i = p /\ t = s)
    <3>1. m[i][t] = n[i][t] /\ n[i][t] \in 1 .. k
      BY <1>2, <1>3, <1>7, <2>1, <2>3 DEF Null
    <3> QED BY <1>1, <1>3, <1>5, <1>7, <2>1, <3>1
  <2> QED BY <2>2, <2>3
<1>8. /\ apex \in 0 .. k + 1 /\ (apex = Null <=> k + 1 = 0)
      /\ apex # Null => T[apex] = Keys
      /\ \A i \in 1 .. k + 1 : m[i].parent = Null <=> i = apex
  BY <1>1, <1>3, <1>4, <1>5 DEF Null
<1>9. Ordered(m, k + 1, apex, T)
  BY <1>5, <1>6, <1>7, <1>8 DEF Ordered, Spans, Rooted
<1> QED BY <1>9

LEMMA FindInsertOrder ==
  ASSUME OrderInv, NEW k \in Keys, FindInsert(k)
  PROVE  Contents' /\ Order'
<1>1. UNCHANGED <<node, root, contents, newentry>> /\ pc = "rest" /\ pc' = "search" /\ parent' = Null /\ entry' = root
  BY DEF FindInsert
<1>2. Contents'
  BY <1>1 DEF OrderInv, Contents
<1>3. Order'
  BY <1>1 DEF OrderInv, Order, Searching
<1> QED BY <1>2, <1>3

LEMMA DescendOrder ==
  ASSUME OrderInv, Descend
  PROVE  Contents' /\ Order'
<1>1. /\ UNCHANGED <<node, root, contents, newentry, pc, key>> /\ pc = "search" /\ parent' = entry /\ entry # Null
      /\ node[entry].key # key /\ side' = (IF key < node[entry].key THEN "small" ELSE "large")
  BY DEF Descend
<1>2. Contents'
  BY <1>1 DEF OrderInv, Contents
<1>3. PICK span : Ordered(node, Len(node), root, span) /\ Searching(node, root, span)
  BY DEF OrderInv, Order
<1>4. PICK k \in Nat : k = Len(node) /\ IsTree(node, k)
  BY TypesOfTree DEF OrderInv, TreeInv, TreeTypes
<1>5. entry \in 1 .. k /\ key \in Keys /\ side \in Sides /\ parent \in 0 .. k
  BY <1>1, <1>4, TypesOfTree DEF OrderInv, TreeInv, TreeTypes, Null
<1>6. key \in span[entry] /\ node[entry].key \in span[entry] /\ span[entry] \subseteq Keys
  <2>1. node[entry].key \in span[entry] /\ span[entry] \subseteq Keys
    BY <1>3, <1>4, <1>5 DEF Ordered, Spans
  <2>2. CASE parent = Null
    BY <1>1, <1>3, <1>5, <2>1, <2>2 DEF Searching, Ordered, Rooted
  <2>3. CASE parent # Null
    <3>1. key \in span[parent] /\ OnSide(side, key, node[parent].key) /\ entry = node[parent][side] /\ parent \in 1 .. k
      BY <1>1, <1>3, <1>5, <2>3 DEF Searching, OrderInv, TreeInv, SearchedPlace, Null
    <3>2. span[entry] = Below(span[parent], side, node[parent].key)
      BY <1>1, <1>3, <1>4, <1>5, <3>1 DEF Ordered, Spans
    <3> QED BY <2>1, <3>1, <3>2 DEF Below
  <2> QED BY <2>2, <2>3
<1>7. OnSide(side', key, node[entry].key)
  <2>1. PICK y : y = node[entry].key
    OBVIOUS
  <2>2. y \in Nat /\ key \in Nat /\ y # key
    BY <1>1, <1>5, <1>6, <2>1, KeysAssumption
  <2>3. side' = IF key < y THEN "small" ELSE "large"
    BY <1>1, <2>1
  <2>4. OnSide(side', key, y)
    BY ONLY <2>2, <2>3 DEF OnSide
  <2> QED BY <2>1, <2>4
<1>8. Searching(node, root, span)'
  BY <1>1, <1>6, <1>7 DEF Searching
<1>9. Ordered(node, Len(node), root, span)'
  BY <1>1, <1>3
<1> QED BY <1>2, <1>8, <1>9 DEF Order

LEMMA FoundOrder ==
  ASSUME OrderInv, Found
  PROVE  Contents' /\ Order'
<1>1. /\ UNCHANGED <<node, root, contents, key>> /\ pc = "search" /\ pc' = "return"
      /\ entry # Null /\ node[entry].key = key /\ newentry' = entry
  BY DEF Found
<1>2. Contents'
  <2>1. Len(node) \in Nat
    BY TypesOfTree DEF OrderInv, TreeInv, TreeTypes
  <2>2. \A i \in 1 .. Len(node) : i # Null
    BY <2>1 DEF Null
  <2> QED BY <1>1, <2>2 DEF OrderInv, Contents, Filled
<1>3. Order'
  BY <1>1 DEF OrderInv, Order, Searching
<1> QED BY <1>2, <1>3

LEMMA AddLeafOrder ==
  ASSUME OrderInv, AddLeaf
  PROVE  Contents' /\ Order'
<1>1. PICK k \in Nat : k = Len(node) /\ IsTree(node, k)
  BY TypesOfTree DEF OrderInv, TreeInv, TreeTypes
<1>2. /\ pc = "search" /\ entry = Null /\ newentry' = k + 1 /\ root' = IF parent = Null THEN k + 1 ELSE root
      /\ contents' = contents \union {key} /\ key' = key /\ pc' \in {"climb", "return"}
  BY <1>1 DEF AddLeaf
<1>3. /\ parent \in 0 .. k /\ side \in Sides /\ key \in Keys
      /\ parent # Null => node[parent][side] = Null
  BY <1>1, <1>2, TypesOfTree DEF OrderInv, TreeInv, TreeTypes, SearchedPlace
<1>4. /\ node'[k + 1].key = key /\ node'[k + 1].value = 0
      /\ \E h : LeafAdded(node, node', k, parent, side, h)
  BY <1>1, AddLeafAdds DEF OrderInv
<1>5. PICK h : LeafAdded(node, node', k, parent, side, h)
  BY <1>4
<1>6. Len(node)' = k + 1
  BY <1>5 DEF LeafAdded, IsTree
<1>7. PICK span : Ordered(node, k, root, span) /\ Searching(node, root, span)
  BY <1>1 DEF OrderInv, Order
<1>8. /\ parent = Null => root = Null
      /\ parent # Null => key \in span[parent] /\ OnSide(side, key, node[parent].key) /\ node[parent][side] = Null
  BY <1>2, <1>3, <1>7 DEF Searching
<1>9. \E new : Ordered(node', k + 1, IF parent = Null THEN k + 1 ELSE root, new)
  BY <1>1, <1>3, <1>4, <1>5, <1>7, <1>8, LeafOrdered
<1>10. Order'
  BY <1>2, <1>6, <1>9 DEF Order, Searching
<1>11. Filled(node', k + 1, contents', newentry')
  <2>1. contents = {node[i].key : i \in 1 .. k} /\ newentry = Null /\ \A i \in 1 .. k : i # newentry => node[i].value = node[i].key
    BY <1>1, <1>2 DEF OrderInv, Contents, Filled
  <2>2. \A i \in 1 .. k : node'[i].key = node[i].key /\ node'[i].value = node[i].value
    BY <1>5 DEF LeafAdded, SameContents
  <2>3. contents' = {node'[i].key : i \in 1 .. k + 1}
    <3>1. \A i \in 1 .. k + 1 : i \in 1 .. k \/ i = k + 1
      OBVIOUS
    <3>2. \A i \in 1 .. k : i \in 1 .. k + 1
      OBVIOUS
    <3>3. k + 1 \in 1 .. k + 1
      OBVIOUS
    <3>4. PICK u : u = k + 1
      OBVIOUS
    <3>5. PICK D : D = 1 .. u
      OBVIOUS
    <3>6. PICK C : C = 1 .. k
      OBVIOUS
    <3>7. contents' = {node'[i].key : i \in D}
      BY ONLY <1>2, <1>4, <2>1, <2>2, <3>1, <3>2, <3>3, <3>4, <3>5, <3>6
    <3> QED BY <3>4, <3>5, <3>7
  <2>4. \A i \in 1 .. k + 1 : i # k + 1 => i \in 1 .. k /\ i # Null
    BY DEF Null
  <2> QED BY <1>2, <2>1, <2>2, <2>3, <2>4 DEF Filled
<1>12. pc' = "climb" => node'[k + 1].height = 0
  BY <1>5 DEF LeafAdded
<1>13. Contents'
  BY <1>2, <1>4, <1>6, <1>11, <1>12 DEF Contents, Null
<1> QED BY <1>10, <1>13

(* The new node is below those that the ascent changes.                     *)
LEMMA ClimbHeights ==
  ASSUME NEW k \in Nat, NEW n, IsTree(n, k), NEW e, NEW p, NEW g \in 0 .. k, Climbing(n, k, e, p, g)
  PROVE  /\ e \in 1 .. k /\ p \in 1 .. k /\ n[p].height # 0
         /\ g # Null => g \in 1 .. k /\ n[g].height # 0
<1>1. e \in 1 .. k /\ p \in 1 .. k /\ n[e].height = n[p].height - 1
  BY DEF Climbing
<1>2. n[e].height \in Nat /\ n[p].height \in Nat
  BY <1>1, NodeTypes
<1>3. n[p].height # 0
  BY <1>1, <1>2
<1>4. ASSUME g # Null
      PROVE  g \in 1 .. k /\ n[g].height # 0
  <2>1. g \in 1 .. k
    BY <1>4 DEF Null
  <2>2. n[g].height = n[p].height \/ n[g].height = n[p].height + 1
    BY <1>4 DEF Climbing, Grown
  <2> QED BY <1>2, <1>3, <2>1, <2>2
<1> QED BY <1>1, <1>3, <1>4

LEMMA ClimbOrder ==
  ASSUME OrderInv, Climb
  PROVE  Contents' /\ Order'
<1>1. PICK k \in Nat : k = Len(node) /\ IsTree(node, k)
  BY TypesOfTree DEF OrderInv, TreeInv, TreeTypes
<1>2. /\ pc = "climb" /\ grandParent # Null /\ UNCHANGED <<root, pc, key, newentry, contents>>
      /\ node' = WithHeight(node, grandParent, node[parent].height + 1)
  BY DEF Climb, WithHeight
<1>3. Climbing(node, k, entry, parent, grandParent) /\ grandParent \in 0 .. k
  BY <1>1, <1>2, TypesOfTree DEF OrderInv, TreeInv, TreeTypes, Ascent
<1>4. parent \in 1 .. k /\ grandParent \in 1 .. k /\ node[grandParent].height # 0
  BY <1>1, <1>2, <1>3, ClimbHeights
<1>5. node[parent].height + 1 \in Nat
  BY <1>1, <1>4, NodeTypes
<1>6. IsTree(node', k) /\ HeightSet(node, node', k, grandParent, node[parent].height + 1)
  BY <1>1, <1>2, <1>4, <1>5, SetHeight
<1>7. Len(node)' = k
  BY <1>6 DEF IsTree
<1>8. SameContents(node, node', k)
  BY <1>6 DEF HeightSet
<1>9. newentry \in 1 .. k /\ node[newentry].height = 0 /\ node[newentry].key = key
  BY <1>1, <1>2, TypesOfTree DEF OrderInv, TreeInv, TreeTypes, Contents, Null
<1>10. Filled(node', k, contents', newentry')
  BY <1>1, <1>2, <1>8, SameFilled DEF OrderInv, Contents
<1>11. node'[newentry].key = key /\ node'[newentry].height = 0
  <2>1. newentry # grandParent
    BY <1>4, <1>9
  <2> QED BY <1>6, <1>9, <2>1 DEF HeightSet, SameContents
<1>12. Contents'
  BY <1>2, <1>7, <1>9, <1>10, <1>11 DEF Contents, Null
<1>13. PICK span : Ordered(node, k, root, span)
  BY <1>1 DEF OrderInv, Order
<1>14. Ordered(node', k, root, span)
  BY <1>6, <1>13, SameOrdered DEF HeightSet, SameContents
<1>15. Order'
  BY <1>2, <1>7, <1>14 DEF Order, Searching
<1> QED BY <1>12, <1>15

LEMMA StopClimbingOrder ==
  ASSUME OrderInv, StopClimbing
  PROVE  Contents' /\ Order'
<1>1. UNCHANGED <<node, root, contents, key, newentry>> /\ pc = "climb" /\ pc' = "return"
  BY DEF StopClimbing
<1>2. Contents'
  BY <1>1 DEF OrderInv, Contents
<1>3. Order'
  BY <1>1 DEF OrderInv, Order, Searching
<1> QED BY <1>2, <1>3

LEMMA RebalanceOrder ==
  ASSUME OrderInv, Rebalance
  PROVE  Contents' /\ Order'
<1>1. PICK k \in Nat : k = Len(node) /\ IsTree(node, k)
  BY TypesOfTree DEF OrderInv, TreeInv, TreeTypes
<1>2. pc = "climb" /\ grandParent # Null /\ pc' = "return" /\ UNCHANGED <<key, contents>>
  BY DEF Rebalance
<1>3. Climbing(node, k, entry, parent, grandParent) /\ grandParent \in 0 .. k /\ Linked(node, k)
  BY <1>1, <1>2, TypesOfTree DEF OrderInv, TreeInv, TreeTypes, TreeShape, Ascent
<1>4. /\ entry \in 1 .. k /\ parent \in 1 .. k /\ grandParent \in 1 .. k
      /\ node[parent].height # 0 /\ node[grandParent].height # 0
  BY <1>1, <1>2, <1>3, ClimbHeights
<1>5. newentry \in 1 .. k /\ node[newentry].height = 0 /\ node[newentry].key = key /\ Filled(node, k, contents, newentry)
  BY <1>1, <1>2, TypesOfTree DEF OrderInv, TreeInv, TreeTypes, Contents, Null
<1>6. newentry \notin {parent, grandParent}
  BY <1>4, <1>5
<1>7. PICK span : Ordered(node, k, root, span)
  BY <1>1 DEF OrderInv, Order
<1>8. policy \in {"pointers", "swap"}
  BY PoliciesAssumption DEF OrderInv, TreeInv, TreeTypes, TreeTypeOK
<1>9. IsTree(node', k) /\ \E h \in Nat, heavy, light \in Sides : Turned(k, h, heavy, light)
  BY <1>1, <1>3, <1>8, RebalanceShapes
<1>10. PICK h \in Nat, heavy, light \in Sides : Turned(k, h, heavy, light)
  BY <1>9
<1>11. TwoSides(heavy, light) /\ Leaning(node, k, h, heavy, light, entry, parent, grandParent)
  BY <1>10 DEF Turned
<1> DEFINE Kept == /\ Filled(node', k, contents, newentry') /\ newentry' \in 1 .. k /\ node'[newentry'].key = key
                   /\ \E new : Ordered(node', k, root', new)
<1>12. ASSUME /\ node[parent][heavy] = entry /\ Height(node, node[parent][light]) = h - 2
              /\ newentry' = newentry
              /\ OuterPointersTurned(node, node', k, h, heavy, light, entry, parent, grandParent)
              /\ root' = IF grandParent = root THEN parent ELSE root
      PROVE  Kept
  <2>1. \E new : Ordered(node', k, root', new)
    BY <1>7, <1>11, <1>12, OuterPointersOrdered
  <2>2. SameContents(node, node', k)
    BY <1>12 DEF OuterPointersTurned
  <2>3. Filled(node', k, contents, newentry) /\ node'[newentry].key = key
    BY <1>5, <2>2, SameFilled DEF SameContents
  <2> QED BY <1>5, <1>12, <2>1, <2>3
<1>13. ASSUME /\ node[parent][heavy] = entry /\ Height(node, node[parent][light]) = h - 2
              /\ newentry' = newentry
              /\ OuterSwapTurned(node, node', k, h, heavy, light, entry, parent, grandParent)
              /\ root' = root
      PROVE  Kept
  <2>1. \E new : Ordered(node', k, root', new)
    BY <1>7, <1>11, <1>13, OuterSwapOrdered
  <2>2. ContentsExchanged(node, node', k, parent, grandParent)
    BY <1>13 DEF OuterSwapTurned
  <2>3. newentry = IF newentry = parent THEN grandParent ELSE IF newentry = grandParent THEN parent ELSE newentry
    BY <1>6
  <2>4. Filled(node', k, contents, newentry) /\ node'[newentry].key = key
    BY <1>4, <1>5, <2>2, <2>3, ExchangedFilled
  <2> QED BY <1>5, <1>13, <2>1, <2>4
<1>14. ASSUME /\ node[parent][light] = entry /\ Height(node, node[parent][heavy]) = h - 2
              /\ newentry' = newentry
              /\ InnerPointersTurned(node, node', k, h, heavy, light, entry, parent, grandParent)
              /\ root' = IF grandParent = root THEN entry ELSE root
      PROVE  Kept
  <2>1. \E new : Ordered(node', k, root', new)
    BY <1>7, <1>11, <1>14, InnerPointersOrdered
  <2>2. SameContents(node, node', k)
    BY <1>14 DEF InnerPointersTurned
  <2>3. Filled(node', k, contents, newentry) /\ node'[newentry].key = key
    BY <1>5, <2>2, SameFilled DEF SameContents
  <2> QED BY <1>5, <1>14, <2>1, <2>3
<1>15. ASSUME /\ node[parent][light] = entry /\ Height(node, node[parent][heavy]) = h - 2
              /\ InnerSwapTurned(node, node', k, h, heavy, light, entry, parent, grandParent)
              /\ root' = root
              /\ newentry' = IF entry = newentry THEN grandParent ELSE newentry
      PROVE  Kept
  <2>1. \E new : Ordered(node', k, root', new)
    BY <1>7, <1>11, <1>15, InnerSwapOrdered
  <2>2. ContentsExchanged(node, node', k, entry, grandParent)
    BY <1>15 DEF InnerSwapTurned
  <2>3. newentry' = IF newentry = entry THEN grandParent ELSE IF newentry = grandParent THEN entry ELSE newentry
    BY <1>6, <1>15
  <2>4. Filled(node', k, contents, newentry') /\ node'[newentry'].key = key /\ newentry' \in 1 .. k
    <3>1. PICK moved : moved = newentry'
      OBVIOUS
    <3>2. Filled(node', k, contents, moved) /\ node'[moved].key = key /\ moved \in 1 .. k
      BY <1>4, <1>5, <2>2, <2>3, <3>1, ExchangedFilled
    <3> QED BY <3>1, <3>2
  <2> QED BY <2>1, <2>4
<1>16. Kept
  <2> HIDE DEF Kept
  <2> QED BY <1>10, <1>12, <1>13, <1>14, <1>15 DEF Turned
<1>17. Len(node)' = k
  BY <1>9 DEF IsTree
<1>18. Contents'
  BY <1>2, <1>16, <1>17 DEF Contents, Null
<1>19. Order'
  BY <1>2, <1>16, <1>17 DEF Order, Searching
<1> QED BY <1>18, <1>19

LEMMA ReturnOrder ==
  ASSUME OrderInv, Return
  PROVE  Contents' /\ Order'
<1>1. PICK k \in Nat : k = Len(node) /\ IsTree(node, k)
  BY TypesOfTree DEF OrderInv, TreeInv, TreeTypes
<1>2. /\ pc = "return" /\ pc' = "rest" /\ node' = [node EXCEPT ![newentry].value = key]
      /\ UNCHANGED <<root, contents>> /\ newentry' = Null
  BY DEF Return
<1>3. newentry \in 1 .. k /\ node[newentry].key = key /\ key \in Keys /\ Filled(node, k, contents, newentry)
  BY <1>1, <1>2, TypesOfTree DEF OrderInv, TreeInv, TreeTypes, Contents, Null
<1>4. PICK r : r = [node[newentry] EXCEPT !.value = key]
  OBVIOUS
<1>5. node[newentry] \in NodeType(k)
  BY <1>1, <1>3, NodeTypes
<1>6. /\ r \in NodeType(k) /\ r.parent = node[newentry].parent /\ r.key = node[newentry].key
      /\ r.value = key /\ \A t \in Sides : r[t] = node[newentry][t]
  BY <1>3, <1>4, <1>5 DEF NodeType, Sides
<1>7. node' = [node EXCEPT ![newentry] = r]
  BY <1>2, <1>4
<1>8. IsTree(node', k) /\ \A j \in 1 .. k : node'[j] = IF j = newentry THEN r ELSE node[j]
  <2>1. IsTree(node, k) /\ r \in NodeType(k) /\ newentry \in 1 .. k
    BY <1>1, <1>3, <1>6
  <2>2. PICK m : m = [node EXCEPT ![newentry] = r]
    OBVIOUS
  <2>3. IsTree(m, k)
    BY ONLY <2>1, <2>2, k \in Nat, SetNode
  <2>4. \A j \in 1 .. k : m[j] = IF j = newentry THEN r ELSE node[j]
    BY ONLY <2>1, <2>2, k \in Nat, SetNode
  <2> QED BY <1>7, <2>2, <2>3, <2>4
<1>9. Len(node)' = k
  BY <1>8 DEF IsTree
<1>10. \A j \in 1 .. k : /\ node'[j].key = node[j].key /\ node'[j].parent = node[j].parent
                         /\ \A t \in Sides : node'[j][t] = node[j][t]
  BY <1>6, <1>8
<1>11. \A j \in 1 .. k : node'[j].value = node'[j].key
  <2>1. ASSUME NEW j \in 1 .. k PROVE node'[j].value = node'[j].key
    <3>1. CASE j = newentry
      BY <1>3, <1>6, <1>8, <3>1
    <3>2. CASE j # newentry
      BY <1>3, <1>8, <3>2 DEF Filled
    <3> QED BY <3>1, <3>2
  <2> QED BY <2>1
<1>12. contents = {node'[j].key : j \in 1 .. k}
  BY <1>3, <1>10 DEF Filled
<1>13. Contents'
  BY <1>2, <1>9, <1>11, <1>12 DEF Contents, Filled
<1>14. PICK span : Ordered(node, k, root, span)
  BY <1>1 DEF OrderInv, Order
<1>15. Ordered(node', k, root, span)
  BY <1>10, <1>14, SameOrdered
<1>16. Order'
  BY <1>2, <1>9, <1>15 DEF Order, Searching
<1> QED BY <1>13, <1>16

LEMMA EmptyOrdered ==
  /\ Filled(<< >>, 0, {}, 0) /\ \E span : Ordered(<< >>, 0, 0, span)
<1>1. Filled(<< >>, 0, {}, 0)
  <2>1. 1 .. 0 = {}
    OBVIOUS
  <2> QED BY <2>1 DEF Filled
<1>2. PICK span : span = [i \in 1 .. 0 |-> {}]
  OBVIOUS
<1>3. Ordered(<< >>, 0, 0, span)
  BY <1>2 DEF Ordered, Spans, Rooted, Null
<1> QED BY <1>1, <1>3

LEMMA ClearOrder ==
  ASSUME OrderInv, Clear
  PROVE  Contents' /\ Order'
<1>1. node' = << >> /\ pc = "rest" /\ pc' = "rest" /\ root' = 0 /\ contents' = {} /\ UNCHANGED newentry
  BY DEF Clear, Null
<1>2. newentry = 0
  BY <1>1 DEF OrderInv, TreeInv, TreeTypes, Null
<1>3. Len(node)' = 0
  BY <1>1
<1>4. Contents'
  BY <1>1, <1>2, <1>3, EmptyOrdered DEF Contents, Null
<1>5. Order'
  BY <1>1, <1>3, EmptyOrdered DEF Order, Searching
<1> QED BY <1>4, <1>5

(* The invariant of the contents and their order.                           *)
LEMMA OrderInvHolds == TreeSpec => []OrderInv
<1>1. TreeInit => Contents /\ Order
  <2> SUFFICES ASSUME TreeInit PROVE Contents /\ Order
    OBVIOUS
  <2>1. node = << >> /\ pc = "rest" /\ root = 0 /\ contents = {} /\ newentry = 0 /\ Len(node) = 0
    BY DEF TreeInit, Null
  <2>2. Contents
    BY <2>1, EmptyOrdered DEF Contents, Null
  <2>3. Order
    BY <2>1, EmptyOrdered DEF Order, Searching
  <2> QED BY <2>2, <2>3
<1>2. TreeInv /\ (Contents /\ Order) /\ [TreeNext]_treeVars => (Contents /\ Order)'
  <2> SUFFICES ASSUME OrderInv, [TreeNext]_treeVars PROVE Contents' /\ Order'
    BY DEF OrderInv
  <2>1. ASSUME NEW k \in Keys, FindInsert(k) PROVE Contents' /\ Order'
    BY <2>1, FindInsertOrder
  <2>2. CASE UNCHANGED treeVars
    BY <2>2 DEF treeVars, OrderInv, Contents, Order, Searching
  <2> QED BY <2>1, <2>2, DescendOrder, FoundOrder, AddLeafOrder, ClimbOrder, StopClimbingOrder,
             RebalanceOrder, ReturnOrder, ClearOrder DEF TreeNext
<1>3. TreeInv /\ (Contents /\ Order) => OrderInv
  BY DEF OrderInv
<1> QED BY <1>1, <1>2, <1>3, TreeInvHolds, PTL DEF TreeSpec

-----------------------------------------------------------------------------
(* The tree between two calls, field by field.                              *)
InOrder(k, span) ==
  /\ k \in Nat /\ DOMAIN node = 1 .. k /\ Len(node) = k
  /\ root \in 0 .. k /\ (root = Null <=> k = 0) /\ (root # Null => span[root] = Keys)
  /\ \A i \in 1 .. k :
        /\ node[i].key \in span[i] /\ span[i] \subseteq Keys /\ node[i].height \in Nat
        /\ {node[i].small, node[i].large, node[i].parent} \subseteq 0 .. k
        /\ node[i].parent = Null <=> i = root
        /\ node[i].parent # Null => i \in {node[node[i].parent].small, node[node[i].parent].large}
  /\ \A i, j \in 1 .. k :
        /\ j = node[i].small => /\ node[j].height < node[i].height /\ node[j].parent = i
                                /\ span[j] = {x \in span[i] : x < node[i].key}
        /\ j = node[i].large => /\ node[j].height < node[i].height /\ node[j].parent = i
                                /\ span[j] = {x \in span[i] : node[i].key < x}

LEMMA RestInOrder ==
  ASSUME OrderInv, pc = "rest"
  PROVE  /\ \E k, span : InOrder(k, span)
         /\ contents = {node[i].key : i \in DOMAIN node}
         /\ \A i \in DOMAIN node : node[i].value = node[i].key
<1>1. PICK k \in Nat : k = Len(node) /\ IsTree(node, k)
  BY TypesOfTree DEF OrderInv, TreeInv, TreeTypes
<1>2. DOMAIN node = 1 .. k
  BY <1>1 DEF IsTree
<1>3. Filled(node, k, contents, Null)
  BY <1>1 DEF OrderInv, Contents
<1>4. contents = {node[i].key : i \in DOMAIN node} /\ \A i \in DOMAIN node : node[i].value = node[i].key
  BY <1>2, <1>3 DEF Filled, Null
<1>5. PICK span : Ordered(node, k, root, span)
  BY <1>1 DEF OrderInv, Order
<1>6. Linked(node, k) /\ \A i \in 1 .. k : Fit(node, i)
  BY <1>1 DEF OrderInv, TreeInv, TreeShape
<1>7. \A i \in 1 .. k : /\ node[i].height \in Nat /\ node[i].parent \in 0 .. k
                        /\ node[i]["small"] = node[i].small /\ node[i]["large"] = node[i].large
                        /\ node[i]["small"] \in 0 .. k /\ node[i]["large"] \in 0 .. k
  BY <1>1, NodeTypes DEF Sides
<1>8. \A i \in 1 .. k : /\ node[i].key \in span[i] /\ span[i] \subseteq Keys
                        /\ node[i].parent = Null <=> i = root
  BY <1>5 DEF Ordered, Spans, Rooted
<1>9. root \in 0 .. k /\ (root = Null <=> k = 0) /\ (root # Null => span[root] = Keys)
  BY <1>5 DEF Ordered, Rooted
<1>10. ASSUME NEW i \in 1 .. k, node[i].parent # Null
       PROVE  i \in {node[node[i].parent].small, node[node[i].parent].large}
  <2>1. node[i].parent \in 1 .. k
    BY <1>7, <1>10 DEF Null
  <2>2. PICK s \in Sides : node[node[i].parent][s] = i
    BY <1>6, <1>10 DEF Linked
  <2> QED BY <1>7, <2>1, <2>2 DEF Sides
<1>11. ASSUME NEW i \in 1 .. k, NEW j \in 1 .. k, NEW s \in Sides, j = node[i][s]
       PROVE  /\ node[j].height < node[i].height /\ node[j].parent = i
              /\ span[j] = Below(span[i], s, node[i].key)
  <2>1. j # Null
    BY DEF Null
  <2>2. Height(node, j) \in {node[i].height - 1, node[i].height - 2}
    BY <1>6, <1>11 DEF Fit
  <2>3. node[j].height < node[i].height
    BY <1>7, <2>1, <2>2 DEF Height
  <2>4. node[j].parent = i
    BY <1>6, <1>11, <2>1 DEF Linked
  <2>5. span[j] = Below(span[i], s, node[i].key)
    BY <1>5, <1>11, <2>1 DEF Ordered, Spans
  <2> QED BY <2>3, <2>4, <2>5
<1>12. ASSUME NEW i \in 1 .. k, NEW j \in 1 .. k
       PROVE  /\ j = node[i].small => /\ node[j].height < node[i].height /\ node[j].parent = i
                                      /\ span[j] = {x \in span[i] : x < node[i].key}
              /\ j = node[i].large => /\ node[j].height < node[i].height /\ node[j].parent = i
                                      /\ span[j] = {x \in span[i] : node[i].key < x}
  <2>1. "small" \in Sides /\ "large" \in Sides /\ node[i]["small"] = node[i].small /\ node[i]["large"] = node[i].large
    BY <1>7 DEF Sides
  <2>2. /\ Below(span[i], "small", node[i].key) = {x \in span[i] : x < node[i].key}
        /\ Below(span[i], "large", node[i].key) = {x \in span[i] : node[i].key < x}
    BY DEF Below, OnSide
  <2> QED BY <1>11, <2>1, <2>2
<1>13. \A i \in 1 .. k : {node[i].small, node[i].large, node[i].parent} \subseteq 0 .. k
  BY <1>7
<1>14. InOrder(k, span)
  BY <1>1, <1>2, <1>7, <1>8, <1>9, <1>10, <1>12, <1>13 DEF InOrder
<1> QED BY <1>4, <1>14

(* No node is higher than some number.                                     *)
LEMMA HeightBound ==
  ASSUME NEW k, NEW span, InOrder(k, span)
  PROVE  \E N \in Nat : \A i \in 1 .. k : node[i].height <= N
<1>1. k \in Nat /\ \A i \in 1 .. k : node[i].height \in Nat
  BY DEF InOrder
<1> DEFINE T == {m \in 0 .. k : \E N \in Nat : \A i \in 1 .. m : node[i].height <= N}
<1>2. 0 \in T
  BY <1>1
<1>3. ASSUME NEW m \in 0 .. k - 1, m \in T
      PROVE  m + 1 \in T
  <2>1. PICK N \in Nat : \A i \in 1 .. m : node[i].height <= N
    BY <1>3
  <2>2. m + 1 \in 1 .. k /\ node[m + 1].height \in Nat
    BY <1>1
  <2>3. PICK h \in Nat : h = node[m + 1].height
    BY <2>2
  <2>4. \A i \in 1 .. m + 1 : i = m + 1 \/ i \in 1 .. m
    OBVIOUS
  <2>5. \A i \in 1 .. m : node[i].height \in Nat
    BY <1>1
  <2>6. \A i \in 1 .. m + 1 : node[i].height <= N + h
    BY <2>1, <2>3, <2>4, <2>5
  <2>7. N + h \in Nat /\ m + 1 \in 0 .. k
    BY <1>1
  <2> QED BY <2>6, <2>7
<1>4. k \in 0 .. k
  BY <1>1
<1> HIDE DEF T
<1>5. k \in T
  BY <1>1, <1>2, <1>3, <1>4, InductionUpTo
<1> QED BY <1>5 DEF T

(* Induction downwards, from the nodes to their children, and upwards.       *)
LEMMA Downwards ==
  ASSUME NEW k, NEW span, InOrder(k, span), NEW T,
         \A i \in 1 .. k : (\A j \in 1 .. k : j \in {node[i].small, node[i].large} => j \in T) => i \in T
  PROVE  \A i \in 1 .. k : i \in T
<1> DEFINE S == 1 .. k
           m == [i \in S |-> node[i].height]
<1>1. m \in [S -> Nat]
  BY DEF InOrder
<1>2. \A i, j \in 1 .. k : j \in {node[i].small, node[i].large} => node[j].height < node[i].height
  BY DEF InOrder
<1>3. \A i \in S : (\A j \in S : m[j] < m[i] => j \in T) => i \in T
  BY <1>2
<1> HIDE DEF S, m
<1>4. \A i \in S : i \in T
  BY <1>1, <1>3, MeasureInduction
<1> QED BY <1>4 DEF S

LEMMA Upwards ==
  ASSUME NEW k, NEW span, InOrder(k, span), NEW T,
         \A i \in 1 .. k : (node[i].parent # Null => node[i].parent \in T) => i \in T
  PROVE  \A i \in 1 .. k : i \in T
<1>1. PICK N \in Nat : \A i \in 1 .. k : node[i].height <= N
  BY HeightBound
<1> DEFINE S == 1 .. k
           m == [i \in S |-> N - node[i].height]
<1>2. \A i \in S : node[i].height \in Nat
  BY DEF InOrder
<1>3. \A i \in S : N - node[i].height \in Nat
  BY <1>1, <1>2
<1>4. m \in [S -> Nat]
  BY <1>3
<1>5. ASSUME NEW i \in S, node[i].parent # Null
      PROVE  node[i].parent \in S /\ m[node[i].parent] < m[i]
  <2>1. PICK p \in 1 .. k : p = node[i].parent
    BY <1>5 DEF InOrder, Null
  <2>2. i \in {node[p].small, node[p].large}
    BY <1>5, <2>1 DEF InOrder
  <2>3. node[i].height < node[p].height
    BY <2>2 DEF InOrder
  <2> QED BY <1>2, <2>1, <2>3
<1>6. \A i \in S : (\A j \in S : m[j] < m[i] => j \in T) => i \in T
  BY <1>5
<1> HIDE DEF S, m
<1>7. \A i \in S : i \in T
  BY <1>4, <1>6, MeasureInduction
<1> QED BY <1>7 DEF S

-----------------------------------------------------------------------------
(* The loops of the source end: the functions that stand for them exist.    *)
IsLeftmost(f) == f = [i \in DOMAIN node |-> IF node[i].small = Null THEN i ELSE f[node[i].small]]

IsNextAbove(f) ==
  f = [i \in DOMAIN node |-> LET p == node[i].parent
                             IN  IF p = Null \/ node[p].small = i THEN p ELSE f[p]]

IsFind(x, f) ==
  f = [i \in 0 .. Len(node) |-> IF i = Null \/ node[i].key = x THEN i
                                ELSE f[IF x < node[i].key THEN node[i].small ELSE node[i].large]]

IsIterator(f) ==
  f = [n \in 0 .. Len(node) |-> IF n = 0 THEN Begin
                                ELSE LET i == f[n - 1] IN IF i = Null THEN Null ELSE NextNode(i)]

LEMMA LeftmostIs ==
  ASSUME NEW k, NEW span, InOrder(k, span)
  PROVE  IsLeftmost(Leftmost)
<1>1. /\ k \in Nat /\ DOMAIN node = 1 .. k
      /\ \A i \in 1 .. k : node[i].height \in Nat /\ node[i].small \in 0 .. k
      /\ \A i, j \in 1 .. k : j = node[i].small => node[j].height < node[i].height
  BY DEF InOrder
<1>2. PICK N \in Nat : \A i \in 1 .. k : node[i].height <= N
  BY HeightBound
<1> DEFINE S    == 1 .. k
           R    == 0 .. k
           D    == {i \in S : node[i].small = Null}
           out  == [i \in S |-> i]
           next == [i \in S |-> IF node[i].small = Null THEN i ELSE node[i].small]
           m    == [i \in S |-> node[i].height]
<1>3. /\ 0 \in R /\ out \in [S -> R] /\ m \in [S -> 0 .. N]
      /\ \A i \in S : out[i] = i /\ (i \in D <=> node[i].small = Null)
  BY <1>1, <1>2
<1>4. next \in [S -> S] /\ \A i \in S : i \notin D => next[i] = node[i].small
  BY <1>1 DEF Null
<1>5. \A i \in S : i \notin D => m[next[i]] < m[i]
  BY <1>1 DEF Null
<1> HIDE DEF R, D, out, next, m
<1>6. PICK f \in [S -> R] : IsTailRecursion(S, D, out, next, f)
  <2> HIDE DEF S
  <2> QED BY <1>2, <1>3, <1>4, <1>5, TailRecursion
<1>7. f = [i \in DOMAIN node |-> IF node[i].small = Null THEN i ELSE f[node[i].small]]
  <2>1. f = [i \in S |-> IF i \in D THEN out[i] ELSE f[next[i]]]
    BY <1>6 DEF IsTailRecursion
  <2> QED BY <1>1, <1>3, <1>4, <2>1
<1>8. \E g : IsLeftmost(g)
  BY <1>7 DEF IsLeftmost
<1>9. Leftmost = CHOOSE g : IsLeftmost(g)
  BY DEF Leftmost, IsLeftmost
<1> QED BY <1>8, <1>9

LEMMA NextAboveIs ==
  ASSUME NEW k, NEW span, InOrder(k, span)
  PROVE  IsNextAbove(NextAbove)
<1>1. /\ k \in Nat /\ DOMAIN node = 1 .. k
      /\ \A i \in 1 .. k : node[i].height \in Nat /\ node[i].parent \in 0 .. k
  BY DEF InOrder
<1>2. PICK N \in Nat : \A i \in 1 .. k : node[i].height <= N
  BY HeightBound
<1> DEFINE S    == 1 .. k
           R    == 0 .. k
           D    == {i \in S : node[i].parent = Null \/ node[node[i].parent].small = i}
           out  == [i \in S |-> node[i].parent]
           next == [i \in S |-> IF node[i].parent = Null THEN i ELSE node[i].parent]
           m    == [i \in S |-> N - node[i].height]
<1>3. /\ 0 \in R /\ out \in [S -> R]
      /\ \A i \in S : out[i] = node[i].parent /\ (i \in D <=> node[i].parent = Null \/ node[node[i].parent].small = i)
  BY <1>1
<1>4. next \in [S -> S] /\ \A i \in S : i \notin D => next[i] = node[i].parent
  BY <1>1 DEF Null
<1>5. m \in [S -> 0 .. N]
  BY <1>1, <1>2
<1>6. ASSUME NEW i \in S, i \notin D
      PROVE  m[next[i]] < m[i]
  <2>1. PICK p \in 1 .. k : p = node[i].parent /\ p # Null
    BY <1>1, <1>6 DEF Null
  <2>2. i \in {node[p].small, node[p].large}
    BY <2>1 DEF InOrder
  <2>3. node[i].height < node[p].height
    BY <2>2 DEF InOrder
  <2>4. next[i] = p
    BY <2>1
  <2> QED BY <1>1, <2>3, <2>4
<1> HIDE DEF R, D, out, next, m
<1>7. PICK f \in [S -> R] : IsTailRecursion(S, D, out, next, f)
  <2> HIDE DEF S
  <2> QED BY <1>2, <1>3, <1>4, <1>5, <1>6, TailRecursion
<1>8. f = [i \in DOMAIN node |-> LET p == node[i].parent
                                 IN  IF p = Null \/ node[p].small = i THEN p ELSE f[p]]
  <2>1. f = [i \in S |-> IF i \in D THEN out[i] ELSE f[next[i]]]
    BY <1>7 DEF IsTailRecursion
  <2> QED BY <1>1, <1>3, <1>4, <2>1
<1>9. \E g : IsNextAbove(g)
  BY <1>8 DEF IsNextAbove
<1>10. NextAbove = CHOOSE g : IsNextAbove(g)
  BY DEF NextAbove, IsNextAbove
<1> QED BY <1>9, <1>10

LEMMA FindIs ==
  ASSUME NEW k, NEW span, InOrder(k, span), NEW x
  PROVE  \E f : IsFind(x, f) /\ FindNode(x) = f[root]
<1>1. /\ k \in Nat /\ Len(node) = k
      /\ \A i \in 1 .. k : node[i].height \in Nat /\ node[i].small \in 0 .. k /\ node[i].large \in 0 .. k
      /\ \A i, j \in 1 .. k : j \in {node[i].small, node[i].large} => node[j].height < node[i].height
  BY DEF InOrder
<1>2. PICK N \in Nat : \A i \in 1 .. k : node[i].height <= N
  BY HeightBound
<1> DEFINE S    == 0 .. k
           D    == {i \in S : i = Null \/ node[i].key = x}
           out  == [i \in S |-> i]
           next == [i \in S |-> IF i = Null THEN i ELSE IF x < node[i].key THEN node[i].small ELSE node[i].large]
           m    == [i \in S |-> IF i = Null THEN 0 ELSE node[i].height + 1]
<1>3. /\ 0 \in S /\ out \in [S -> S] /\ N + 1 \in Nat
      /\ \A i \in S : out[i] = i /\ (i \in D <=> i = Null \/ node[i].key = x)
  BY <1>1
<1>4. next \in [S -> S] /\ \A i \in S : i \notin D => next[i] = IF x < node[i].key THEN node[i].small ELSE node[i].large
  BY <1>1 DEF Null
<1>5. m \in [S -> 0 .. N + 1]
  BY <1>1, <1>2 DEF Null
<1>6. ASSUME NEW i \in S, i \notin D
      PROVE  m[next[i]] < m[i]
  <2>1. i \in 1 .. k /\ next[i] \in {node[i].small, node[i].large} /\ next[i] \in 0 .. k
    BY <1>1, <1>4, <1>6 DEF Null
  <2> HIDE DEF next
  <2>2. PICK j \in 0 .. k : j = next[i]
    BY <2>1
  <2>3. CASE j = Null
    BY <1>1, <2>1, <2>2, <2>3 DEF Null
  <2>4. CASE j # Null
    <3>1. j \in 1 .. k /\ node[j].height < node[i].height
      BY <1>1, <2>1, <2>2, <2>4 DEF Null
    <3>2. m[i] = node[i].height + 1 /\ m[j] = node[j].height + 1
      BY <2>1, <2>4, <3>1 DEF Null
    <3> QED BY <1>1, <2>1, <2>2, <3>1, <3>2
  <2> QED BY <2>3, <2>4
<1> HIDE DEF D, out, next, m
<1>7. PICK f \in [S -> S] : IsTailRecursion(S, D, out, next, f)
  <2> HIDE DEF S
  <2> QED BY <1>2, <1>3, <1>4, <1>5, <1>6, TailRecursion
<1>8. f = [i \in 0 .. Len(node) |-> IF i = Null \/ node[i].key = x THEN i
                                    ELSE f[IF x < node[i].key THEN node[i].small ELSE node[i].large]]
  <2>1. f = [i \in S |-> IF i \in D THEN out[i] ELSE f[next[i]]]
    BY <1>7 DEF IsTailRecursion
  <2>2. ASSUME NEW i \in S
        PROVE  (IF i \in D THEN out[i] ELSE f[next[i]])
                 = IF i = Null \/ node[i].key = x THEN i
                   ELSE f[IF x < node[i].key THEN node[i].small ELSE node[i].large]
    BY <1>3, <1>4
  <2>3. S = 0 .. Len(node)
    BY <1>1
  <2> HIDE DEF S
  <2>4. f = [i \in S |-> IF i = Null \/ node[i].key = x THEN i
                         ELSE f[IF x < node[i].key THEN node[i].small ELSE node[i].large]]
    BY ONLY <2>1, <2>2
  <2> QED BY ONLY <2>3, <2>4
<1>9. \E g : IsFind(x, g)
  BY <1>8 DEF IsFind
<1>10. FindNode(x) = (CHOOSE g : IsFind(x, g))[root]
  BY DEF FindNode, IsFind
<1> QED BY <1>9, <1>10

-----------------------------------------------------------------------------
(* Lookup                                                                  *)
TreeKeys(k) == {node[i].key : i \in 1 .. k}

LEMMA OrderFacts ==
  ASSUME NEW k, NEW span, InOrder(k, span)
  PROVE  /\ k \in Nat /\ TreeKeys(k) \subseteq Nat /\ TreeKeys(k) \subseteq Keys
         /\ \A i \in 1 .. k : /\ node[i].key \in Nat /\ node[i].key \in span[i] /\ span[i] \subseteq Nat
                              /\ node[i].key \in TreeKeys(k) /\ node[i].key \in Keys /\ span[i] \subseteq Keys
                              /\ node[i].small \in 0 .. k /\ node[i].large \in 0 .. k /\ node[i].parent \in 0 .. k
<1>1. \A i \in 1 .. k : span[i] \subseteq Nat
  BY KeysAssumption DEF InOrder
<1>2. \A i \in 1 .. k : node[i].key \in Keys
  BY DEF InOrder
<1>3. TreeKeys(k) \subseteq Keys /\ TreeKeys(k) \subseteq Nat
  BY <1>2, KeysAssumption DEF TreeKeys
<1> QED BY <1>1, <1>2, <1>3 DEF InOrder, TreeKeys

(* A search from a node whose span has the key ends where one from the root does.*)
LEMMA FindFromRoot ==
  ASSUME NEW k, NEW span, InOrder(k, span), NEW x \in Nat, NEW f, IsFind(x, f)
  PROVE  \A i \in 1 .. k : x \in span[i] => f[i] = f[root]
<1>1. k \in Nat /\ \A i \in 0 .. k : f[i] = IF i = Null \/ node[i].key = x THEN i
                                ELSE f[IF x < node[i].key THEN node[i].small ELSE node[i].large]
  <2>1. k \in Nat /\ Len(node) = k
    BY DEF InOrder
  <2> QED BY <2>1 DEF IsFind
<1> DEFINE T == {i \in 1 .. k : x \in span[i] => f[i] = f[root]}
<1>2. ASSUME NEW i \in 1 .. k, node[i].parent # Null => node[i].parent \in T
      PROVE  i \in T
  <2>1. SUFFICES ASSUME x \in span[i] PROVE f[i] = f[root]
    OBVIOUS
  <2>2. CASE node[i].parent = Null
    BY <2>2 DEF InOrder
  <2>3. CASE node[i].parent # Null
    <3>1. PICK p \in 1 .. k : p = node[i].parent /\ p # Null
      BY <2>3, OrderFacts DEF Null
    <3>2. i \in {node[p].small, node[p].large} /\ p \in T
      BY <1>2, <2>3, <3>1 DEF InOrder
    <3>3. /\ i = node[p].small => x \in span[p] /\ x < node[p].key
          /\ i = node[p].large => x \in span[p] /\ node[p].key < x
      BY <2>1 DEF InOrder
    <3>4. PICK y \in Nat : y = node[p].key
      BY OrderFacts
    <3>5. y # x /\ (IF x < y THEN node[p].small ELSE node[p].large) = i
      BY <3>2, <3>3, <3>4
    <3>6. f[p] = f[i]
      BY <1>1, <3>1, <3>4, <3>5
    <3> QED BY <3>2, <3>3, <3>6
  <2> QED BY <2>2, <2>3
<1> HIDE DEF T
<1>3. \A i \in 1 .. k : i \in T
  BY <1>2, Upwards
<1> QED BY <1>3 DEF T

(* Every key is in one node, and a lookup finds it.                         *)
LEMMA FindFinds ==
  ASSUME NEW k, NEW span, InOrder(k, span), NEW x \in Nat, NEW f, IsFind(x, f)
  PROVE  /\ \A j \in 1 .. k : node[j].key = x => f[root] = j
         /\ f[root] # Null <=> x \in TreeKeys(k)
<1>1. /\ k \in Nat /\ root \in 0 .. k
      /\ \A i \in 0 .. k : f[i] = IF i = Null \/ node[i].key = x THEN i
                                ELSE f[IF x < node[i].key THEN node[i].small ELSE node[i].large]
  <2>1. k \in Nat /\ Len(node) = k /\ root \in 0 .. k
    BY DEF InOrder
  <2> QED BY <2>1 DEF IsFind
<1>2. ASSUME NEW j \in 1 .. k, node[j].key = x
      PROVE  f[root] = j
  <2>1. f[j] = j
    BY <1>1, <1>2
  <2>2. x \in span[j]
    BY <1>2, OrderFacts
  <2> QED BY <2>1, <2>2, FindFromRoot
<1> DEFINE T == {i \in 1 .. k : f[i] # Null => x \in TreeKeys(k)}
<1>3. ASSUME NEW i \in 1 .. k, \A j \in 1 .. k : j \in {node[i].small, node[i].large} => j \in T
      PROVE  i \in T
  <2>1. CASE node[i].key = x
    BY <2>1, OrderFacts
  <2>2. CASE node[i].key # x
    <3>1. PICK j : j = IF x < node[i].key THEN node[i].small ELSE node[i].large
      OBVIOUS
    <3>2. j \in 0 .. k /\ j \in {node[i].small, node[i].large}
      BY <3>1, OrderFacts
    <3>3. f[i] = f[j]
      BY <1>1, <2>2, <3>1 DEF Null
    <3>4. CASE j = Null
      BY <1>1, <3>3, <3>4 DEF Null
    <3>5. CASE j # Null
      BY <1>3, <3>2, <3>3, <3>5 DEF Null
    <3> QED BY <3>4, <3>5
  <2> QED BY <2>1, <2>2
<1> HIDE DEF T
<1>4. \A i \in 1 .. k : i \in T
  BY <1>3, Downwards
<1>5. f[root] # Null => x \in TreeKeys(k)
  <2>1. CASE root = Null
    BY <1>1, <2>1 DEF Null
  <2>2. CASE root # Null
    BY <1>1, <1>4, <2>2 DEF T, Null
  <2> QED BY <2>1, <2>2
<1>6. x \in TreeKeys(k) => f[root] # Null
  BY <1>2 DEF TreeKeys, Null
<1> QED BY <1>2, <1>5, <1>6

LEMMA OneNode ==
  ASSUME NEW k, NEW span, InOrder(k, span), NEW i \in 1 .. k, NEW j \in 1 .. k, node[i].key = node[j].key
  PROVE  i = j
<1>1. PICK x \in Nat : x = node[i].key
  BY OrderFacts
<1>2. PICK f : IsFind(x, f)
  BY FindIs
<1>3. f[root] = i
  BY <1>1, <1>2, FindFinds
<1>4. f[root] = j
  BY <1>1, <1>2, FindFinds
<1> QED BY <1>3, <1>4

(* There is a child where there are keys.                                   *)
LEMMA ChildThere ==
  ASSUME NEW k, NEW span, InOrder(k, span), NEW i \in 1 .. k, NEW x \in TreeKeys(k), x \in span[i]
  PROVE  /\ x < node[i].key => node[i].small # Null
         /\ node[i].key < x => node[i].large # Null
<1>1. x \in Nat
  BY OrderFacts
<1>2. PICK f : IsFind(x, f)
  BY <1>1, FindIs
<1>3. f[i] # Null
  BY <1>1, <1>2, FindFromRoot, FindFinds
<1>4. k \in Nat /\ \A j \in 0 .. k : f[j] = IF j = Null \/ node[j].key = x THEN j
                                ELSE f[IF x < node[j].key THEN node[j].small ELSE node[j].large]
  <2>1. k \in Nat /\ Len(node) = k
    BY DEF InOrder
  <2> QED BY <1>2, <2>1 DEF IsFind
<1>5. f[Null] = Null
  BY <1>4 DEF Null
<1>6. PICK y \in Nat : y = node[i].key
  BY OrderFacts
<1>7. y # x => f[i] = f[IF x < y THEN node[i].small ELSE node[i].large]
  BY <1>4, <1>6 DEF Null
<1> QED BY <1>1, <1>3, <1>5, <1>6, <1>7

-----------------------------------------------------------------------------
(* Iteration                                                               *)
LEMMA LeftmostLeast ==
  ASSUME NEW k, NEW span, InOrder(k, span)
  PROVE  \A i \in 1 .. k : /\ Leftmost[i] \in 1 .. k /\ node[Leftmost[i]].key \in span[i]
                           /\ \A x \in TreeKeys(k) : x \in span[i] => node[Leftmost[i]].key <= x
<1>1. /\ k \in Nat
      /\ \A i \in 1 .. k : Leftmost[i] = IF node[i].small = Null THEN i ELSE Leftmost[node[i].small]
  <2>1. DOMAIN node = 1 .. k /\ k \in Nat
    BY DEF InOrder
  <2>2. IsLeftmost(Leftmost)
    BY LeftmostIs
  <2>3. PICK f : f = Leftmost
    OBVIOUS
  <2>4. \A i \in 1 .. k : f[i] = IF node[i].small = Null THEN i ELSE f[node[i].small]
    BY ONLY <2>1, <2>2, <2>3 DEF IsLeftmost
  <2> QED BY <2>1, <2>3, <2>4
<1> DEFINE T == {i \in 1 .. k : /\ Leftmost[i] \in 1 .. k /\ node[Leftmost[i]].key \in span[i]
                               /\ \A x \in TreeKeys(k) : x \in span[i] => node[Leftmost[i]].key <= x}
<1>2. ASSUME NEW i \in 1 .. k, \A j \in 1 .. k : j \in {node[i].small, node[i].large} => j \in T
      PROVE  i \in T
  <2>1. PICK y \in Nat : y = node[i].key /\ y \in span[i] /\ span[i] \subseteq Nat
    BY OrderFacts
  <2>2. CASE node[i].small = Null
    <3>1. Leftmost[i] = i
      BY <1>1, <2>2
    <3>2. ASSUME NEW x \in TreeKeys(k), x \in span[i] PROVE y <= x
      <4>1. x \in Nat /\ ~(x < y)
        BY <2>1, <2>2, <3>2, ChildThere
      <4> QED BY <2>1, <4>1
    <3> QED BY <2>1, <3>1, <3>2
  <2>3. CASE node[i].small # Null
    <3>1. PICK c \in 1 .. k : c = node[i].small /\ c # Null
      BY <1>1, <2>3, OrderFacts DEF Null
    <3>2. c \in T /\ Leftmost[i] = Leftmost[c]
      BY <1>1, <1>2, <3>1
    <3>3. span[c] = {x \in span[i] : x < y}
      <4>1. span[c] = {x \in span[i] : x < node[i].key}
        BY <3>1 DEF InOrder
      <4> QED BY <2>1, <4>1
    <3>4. PICK z : z = node[Leftmost[c]].key /\ z \in span[c] /\ \A x \in TreeKeys(k) : x \in span[c] => z <= x
      BY <3>2
    <3>5. z \in span[i] /\ z \in Nat /\ z < y
      BY <2>1, <3>3, <3>4
    <3>6. ASSUME NEW x \in TreeKeys(k), x \in span[i] PROVE z <= x
      <4>1. x \in Nat
        BY <2>1, <3>6
      <4>2. CASE x < y
        BY <3>3, <3>4, <3>6, <4>2
      <4>3. CASE ~(x < y)
        BY <2>1, <3>5, <4>1, <4>3
      <4> QED BY <4>2, <4>3
    <3> QED BY <3>2, <3>4, <3>5, <3>6
  <2> QED BY <2>2, <2>3
<1> HIDE DEF T
<1>3. \A i \in 1 .. k : i \in T
  BY <1>2, Downwards
<1> QED BY <1>3 DEF T

(* r bounds the keys below i from above.                                    *)
Bounds(k, S, r) ==
  /\ r \in 0 .. k
  /\ \A y \in S : /\ r # Null => y < node[r].key
                  /\ \A x \in Keys : y < x => (x \in S <=> r = Null \/ x < node[r].key)

LEMMA NextAboveBounds ==
  ASSUME NEW k, NEW span, InOrder(k, span)
  PROVE  \A i \in 1 .. k : Bounds(k, span[i], NextAbove[i])
<1>1. /\ k \in Nat
      /\ \A i \in 1 .. k : NextAbove[i] = IF node[i].parent = Null \/ node[node[i].parent].small = i
                                           THEN node[i].parent ELSE NextAbove[node[i].parent]
  <2>1. DOMAIN node = 1 .. k /\ k \in Nat
    BY DEF InOrder
  <2>2. IsNextAbove(NextAbove)
    BY NextAboveIs
  <2>3. PICK f : f = NextAbove
    OBVIOUS
  <2>4. \A i \in 1 .. k : f[i] = IF node[i].parent = Null \/ node[node[i].parent].small = i
                                  THEN node[i].parent ELSE f[node[i].parent]
    BY ONLY <2>1, <2>2, <2>3 DEF IsNextAbove
  <2> QED BY <2>1, <2>3, <2>4
<1> DEFINE T == {i \in 1 .. k : Bounds(k, span[i], NextAbove[i])}
<1>2. ASSUME NEW i \in 1 .. k, node[i].parent # Null => node[i].parent \in T
      PROVE  i \in T
  <2>1. CASE node[i].parent = Null
    <3>1. NextAbove[i] = Null /\ i = root /\ span[i] = Keys
      BY <1>1, <2>1 DEF InOrder, Null
    <3> QED BY <1>1, <3>1 DEF Bounds, Null
  <2>2. CASE node[i].parent # Null
    <3>1. PICK p \in 1 .. k : p = node[i].parent /\ p # Null
      BY <1>1, <2>2, OrderFacts DEF Null
    <3>2. p \in T /\ i \in {node[p].small, node[p].large}
      BY <1>2, <3>1 DEF InOrder
    <3>3. PICK q : q = NextAbove[p] /\ Bounds(k, span[p], q)
      BY <3>2
    <3>4. PICK P : P = span[p] /\ P \subseteq Nat /\ P \subseteq Keys
      BY OrderFacts
    <3>5. PICK S : S = span[i]
      OBVIOUS
    <3>6. PICK z \in Nat : z = node[p].key /\ z \in P /\ z \in Keys
      BY <3>4, OrderFacts
    <3>7. /\ q \in 0 .. k
          /\ \A y \in P : q # Null => y < node[q].key
          /\ \A y \in P : \A x \in Keys : y < x => (x \in P <=> q = Null \/ x < node[q].key)
      BY <3>3, <3>4 DEF Bounds
    <3>8. q # Null => node[q].key \in Nat
      BY <3>7, OrderFacts DEF Null
    <3>9. Keys \subseteq Nat
      BY KeysAssumption
    <3>10. CASE i = node[p].small
      <4>1. NextAbove[i] = p /\ S = {x \in P : x < z}
        <5>1. NextAbove[i] = p
          BY <1>1, <3>1, <3>10
        <5>2. span[i] = {x \in span[p] : x < node[p].key}
          BY <3>10 DEF InOrder
        <5> QED BY <3>4, <3>5, <3>6, <5>1, <5>2
      <4>2. ASSUME NEW y \in S, NEW x \in Keys, y < x
            PROVE  x \in S <=> x < z
        <5>1. SUFFICES ASSUME x < z PROVE x \in P
          BY <4>1
        <5>2. y \in P /\ x \in Nat /\ y \in Nat
          BY <3>4, <3>9, <4>1
        <5>3. q # Null => x < node[q].key
          <6>1. q # Null => z < node[q].key
            BY <3>6, <3>7
          <6> QED BY <3>6, <3>8, <5>1, <5>2, <6>1
        <5> QED BY <3>7, <4>2, <5>2, <5>3
      <4>3. Bounds(k, S, p)
        BY <3>1, <3>6, <4>1, <4>2 DEF Bounds
      <4> QED BY <3>5, <4>1, <4>3
    <3>11. CASE i # node[p].small
      <4>1. NextAbove[i] = q /\ S = {x \in P : z < x}
        <5>1. NextAbove[i] = q
          BY <1>1, <3>1, <3>3, <3>11
        <5>2. span[i] = {x \in span[p] : node[p].key < x}
          BY <3>2, <3>11 DEF InOrder
        <5> QED BY <3>4, <3>5, <3>6, <5>1, <5>2
      <4>2. ASSUME NEW y \in S, NEW x \in Keys, y < x
            PROVE  x \in S <=> q = Null \/ x < node[q].key
        <5>1. y \in P /\ z < y /\ y \in Nat /\ x \in Nat
          BY <3>4, <3>9, <4>1
        <5>2. z < x
          BY <3>6, <4>2, <5>1
        <5> QED BY <3>7, <4>1, <4>2, <5>1, <5>2
      <4>3. \A y \in S : q # Null => y < node[q].key
        BY <3>7, <4>1
      <4>4. Bounds(k, S, q)
        BY <3>7, <4>2, <4>3 DEF Bounds
      <4> QED BY <3>5, <4>1, <4>4
    <3> QED BY <3>10, <3>11
  <2> QED BY <2>1, <2>2
<1> HIDE DEF T
<1>3. \A i \in 1 .. k : i \in T
  BY <1>2, Upwards
<1> QED BY <1>3 DEF T

(* An increment leads to the next greater key, if there is one.              *)
Follows(k, x, j) ==
  /\ j \in 0 .. k
  /\ j # Null => x < node[j].key
  /\ \A z \in TreeKeys(k) : x < z => j # Null /\ node[j].key <= z

LEMMA NextNodeFollows ==
  ASSUME NEW k, NEW span, InOrder(k, span), NEW i \in 1 .. k
  PROVE  Follows(k, node[i].key, NextNode(i))
<1>1. PICK x \in Nat : x = node[i].key /\ x \in span[i] /\ x \in Keys /\ span[i] \subseteq Nat
  BY OrderFacts
<1>2. PICK r : r = NextAbove[i] /\ Bounds(k, span[i], r)
  BY NextAboveBounds
<1>3. /\ r \in 0 .. k /\ (r # Null => x < node[r].key)
      /\ \A y \in span[i] : r # Null => y < node[r].key
      /\ \A z \in Keys : x < z => (z \in span[i] <=> r = Null \/ z < node[r].key)
  BY <1>1, <1>2 DEF Bounds
<1>4. TreeKeys(k) \subseteq Keys /\ TreeKeys(k) \subseteq Nat /\ k \in Nat
  BY OrderFacts
<1>5. r # Null => node[r].key \in Nat
  BY <1>3, OrderFacts DEF Null
<1>6. CASE node[i].large = Null
  <2>1. NextNode(i) = r
    BY <1>2, <1>6 DEF NextNode
  <2>2. ASSUME NEW z \in TreeKeys(k), x < z
        PROVE  r # Null /\ node[r].key <= z
    <3>1. z \notin span[i]
      BY <1>1, <1>6, <2>2, ChildThere
    <3> QED BY <1>3, <1>4, <1>5, <2>2, <3>1
  <2> QED BY <1>1, <1>3, <2>1, <2>2 DEF Follows
<1>7. CASE node[i].large # Null
  <2>1. PICK c \in 1 .. k : c = node[i].large
    BY <1>4, <1>7, OrderFacts DEF Null
  <2>2. span[c] = {z \in span[i] : x < z}
    <3>1. span[c] = {z \in span[i] : node[i].key < z}
      BY <2>1 DEF InOrder
    <3> QED BY <1>1, <3>1
  <2>3. PICK j : j = NextNode(i)
    OBVIOUS
  <2>4. j = Leftmost[c]
    BY <1>7, <2>1, <2>3 DEF NextNode
  <2>5. j \in 1 .. k /\ node[j].key \in span[c] /\ \A z \in TreeKeys(k) : z \in span[c] => node[j].key <= z
    BY <2>4, LeftmostLeast
  <2>6. PICK y : y = node[j].key /\ y \in span[i] /\ x < y /\ y \in Nat
    BY <1>1, <2>2, <2>5
  <2>7. ASSUME NEW z \in TreeKeys(k), x < z
        PROVE  y <= z
    <3>1. CASE z \in span[i]
      BY <2>2, <2>5, <2>6, <2>7, <3>1
    <3>2. CASE z \notin span[i]
      <4>1. r # Null /\ ~(z < node[r].key) /\ z \in Nat /\ y < node[r].key
        BY <1>3, <1>4, <2>6, <2>7, <3>2
      <4> QED BY <1>5, <2>6, <4>1
    <3> QED BY <3>1, <3>2
  <2> QED BY <1>1, <2>3, <2>5, <2>6, <2>7 DEF Follows, Null
<1> QED BY <1>6, <1>7

LEMMA BeginLeast ==
  ASSUME NEW k, NEW span, InOrder(k, span)
  PROVE  Begin \in 0 .. k /\ \A z \in TreeKeys(k) : Begin # Null /\ node[Begin].key <= z
<1>1. k \in Nat /\ root \in 0 .. k /\ (root = Null <=> k = 0) /\ (root # Null => span[root] = Keys)
  BY DEF InOrder
<1>2. TreeKeys(k) \subseteq Keys
  BY DEF InOrder, TreeKeys
<1>3. CASE root = Null
  <2>1. TreeKeys(k) = {}
    BY <1>1, <1>3 DEF TreeKeys
  <2> QED BY <1>1, <1>3, <2>1 DEF Begin, Null
<1>4. CASE root # Null
  <2>1. root \in 1 .. k /\ span[root] = Keys
    BY <1>1, <1>4 DEF Null
  <2>2. PICK j : j = Leftmost[root]
    OBVIOUS
  <2>3. j \in 1 .. k /\ \A z \in TreeKeys(k) : node[j].key <= z
    BY <1>2, <2>1, <2>2, LeftmostLeast
  <2>4. Begin = j
    BY <1>4, <2>2 DEF Begin
  <2> QED BY <2>3, <2>4 DEF Null
<1> QED BY <1>3, <1>4

LEMMA IteratorIs ==
  ASSUME NEW k, NEW span, InOrder(k, span)
  PROVE  \E f \in [0 .. k -> 0 .. k] : f = Iterator /\ IsIterator(f)
<1>1. k \in Nat /\ Len(node) = k
  BY DEF InOrder
<1>2. PICK v \in 0 .. k : v = Begin
  BY BeginLeast
<1> DEFINE V == 0 .. k
           G == [a \in (1 .. k) \X V |-> IF a[2] = Null THEN Null ELSE NextNode(a[2])]
<1>3. \A i \in V : i # Null => NextNode(i) \in V
  <2>1. ASSUME NEW i \in V, i # Null PROVE NextNode(i) \in V
    <3>1. i \in 1 .. k
      BY <1>1, <2>1 DEF Null
    <3>2. Follows(k, node[i].key, NextNode(i))
      BY <3>1, NextNodeFollows
    <3> QED BY <3>2 DEF Follows
  <2> QED BY <2>1
<1>4. /\ G \in [(1 .. k) \X V -> V]
      /\ \A n \in 1 .. k, i \in V : G[<<n, i>>] = IF i = Null THEN Null ELSE NextNode(i)
  BY <1>1, <1>3 DEF Null
<1> HIDE DEF G
<1>5. PICK f \in [0 .. k -> V] : IsRecursion(k, v, G, f)
  <2> HIDE DEF V
  <2>1. v \in V
    BY <1>2 DEF V
  <2> QED BY <1>1, <1>4, <2>1, RecursionUpTo
<1>6. f = [n \in 0 .. k |-> IF n = 0 THEN v ELSE G[<<n, f[n - 1]>>]]
  BY <1>5 DEF IsRecursion
<1>7. ASSUME NEW n \in 0 .. k
      PROVE  (IF n = 0 THEN v ELSE G[<<n, f[n - 1]>>])
               = IF n = 0 THEN Begin ELSE LET i == f[n - 1] IN IF i = Null THEN Null ELSE NextNode(i)
  <2>1. CASE n = 0
    BY <1>2, <2>1
  <2>2. CASE n # 0
    <3>1. n \in 1 .. k /\ n - 1 \in 0 .. k
      BY <1>1, <2>2
    <3>2. f[n - 1] \in V
      BY <1>5, <3>1
    <3> QED BY <1>4, <2>2, <3>1, <3>2
  <2> QED BY <2>1, <2>2
<1>8. f = [n \in 0 .. Len(node) |-> IF n = 0 THEN Begin
                                    ELSE LET i == f[n - 1] IN IF i = Null THEN Null ELSE NextNode(i)]
  BY <1>1, <1>6, <1>7
<1>9. \E g : IsIterator(g)
  BY <1>8 DEF IsIterator
<1>10. Iterator = CHOOSE g : IsIterator(g)
  BY DEF Iterator, IsIterator
<1>11. IsIterator(Iterator)
  BY <1>9, <1>10
<1>12. PICK g : g = Iterator
  OBVIOUS
<1>13. g = [n \in 0 .. k |-> IF n = 0 THEN Begin
                             ELSE LET i == g[n - 1] IN IF i = Null THEN Null ELSE NextNode(i)]
  BY <1>1, <1>11, <1>12 DEF IsIterator
<1>14. g[0] = Begin /\ \A n \in 1 .. k : g[n] = IF g[n - 1] = Null THEN Null ELSE NextNode(g[n - 1])
  <2>1. \A n \in 1 .. k : n \in 0 .. k /\ n # 0
    BY <1>1
  <2>2. 0 \in 0 .. k
    BY <1>1
  <2> QED BY ONLY <1>13, <2>1, <2>2
<1> DEFINE T == {n \in 0 .. k : g[n] \in V}
<1>15. 0 \in T
  <2>1. 0 \in 0 .. k /\ g[0] \in V
    BY <1>1, <1>2, <1>14
  <2> QED BY <2>1
<1>16. ASSUME NEW n \in 0 .. k - 1, n \in T
       PROVE  n + 1 \in T
  <2>1. n + 1 \in 1 .. k /\ n + 1 - 1 = n /\ n + 1 \in 0 .. k
    BY <1>1
  <2>2. g[n + 1] = IF g[n] = Null THEN Null ELSE NextNode(g[n])
    BY <1>14, <2>1
  <2>3. g[n] \in V /\ Null \in V
    BY <1>1, <1>16 DEF Null
  <2> QED BY <1>3, <2>1, <2>2, <2>3
<1>17. \A n \in 0 .. k : n \in T
  <2> HIDE DEF T
  <2> QED BY <1>1, <1>15, <1>16, InductionUpTo
<1>18. g \in [0 .. k -> 0 .. k]
  BY <1>13, <1>17
<1> QED BY <1>11, <1>12, <1>18

(* The increments visit the keys in ascending order.                        *)
LEMMA VisitsAscend ==
  ASSUME NEW k, NEW span, InOrder(k, span), NEW f \in [0 .. k -> 0 .. k], IsIterator(f)
  PROVE  /\ \A n1, n2 \in 0 .. k : n1 < n2 /\ f[n2] # Null => f[n1] # Null /\ node[f[n1]].key < node[f[n2]].key
         /\ f[k] = Null
         /\ \A x \in TreeKeys(k) : \E n \in 0 .. k : f[n] # Null /\ node[f[n]].key = x
<1>1. /\ k \in Nat /\ f[0] = Begin
      /\ \A n \in 1 .. k : f[n] = IF f[n - 1] = Null THEN Null ELSE NextNode(f[n - 1])
  <2>1. k \in Nat /\ Len(node) = k
    BY DEF InOrder
  <2> QED BY <2>1 DEF IsIterator
<1>2. \A i \in 0 .. k : i # Null => i \in 1 .. k /\ node[i].key \in Nat /\ node[i].key \in TreeKeys(k)
  <2>1. \A i \in 0 .. k : i # Null => i \in 1 .. k
    BY <1>1 DEF Null
  <2>2. \A i \in 1 .. k : node[i].key \in Nat /\ node[i].key \in TreeKeys(k)
    BY OrderFacts
  <2> QED BY <2>1, <2>2
<1>3. ASSUME NEW n \in 0 .. k - 1
      PROVE  /\ n \in 0 .. k /\ n + 1 \in 0 .. k /\ f[n] \in 0 .. k /\ f[n + 1] \in 0 .. k
             /\ f[n] = Null => f[n + 1] = Null
             /\ f[n] # Null => Follows(k, node[f[n]].key, f[n + 1])
  <2>1. n + 1 \in 1 .. k /\ n + 1 - 1 = n /\ n \in 0 .. k /\ n + 1 \in 0 .. k
    <3>1. k \in Nat
      BY <1>1
    <3> QED BY ONLY <3>1, n \in 0 .. k - 1
  <2>2. f[n + 1] = IF f[n] = Null THEN Null ELSE NextNode(f[n])
    <3>1. PICK u : u = n + 1
      OBVIOUS
    <3>2. u \in 1 .. k /\ u - 1 = n
      BY <2>1, <3>1
    <3> QED BY <1>1, <3>1, <3>2
  <2>3. f[n] # Null => Follows(k, node[f[n]].key, NextNode(f[n]))
    BY <1>2, <2>1, NextNodeFollows
  <2> QED BY <2>1, <2>2, <2>3
<1> DEFINE Below2(n2) == \A n1 \in 0 .. n2 - 1 : f[n2] # Null => f[n1] # Null /\ node[f[n1]].key < node[f[n2]].key
           T == {n \in 0 .. k : Below2(n)}
<1>4. 0 \in T
  BY <1>1
<1>5. ASSUME NEW n \in 0 .. k - 1, n \in T
      PROVE  n + 1 \in T
  <2>1. SUFFICES ASSUME NEW n1 \in 0 .. n, f[n + 1] # Null
                 PROVE  f[n1] # Null /\ node[f[n1]].key < node[f[n + 1]].key
    BY <1>3
  <2>2. f[n] # Null /\ node[f[n]].key < node[f[n + 1]].key
    BY <1>3, <2>1 DEF Follows
  <2>3. CASE n1 = n
    BY <2>2, <2>3
  <2>4. CASE n1 # n
    <3>1. n1 \in 0 .. n - 1
      BY <2>4
    <3>2. f[n1] # Null /\ node[f[n1]].key < node[f[n]].key
      BY <1>5, <2>2, <3>1
    <3>3. f[n1] \in 0 .. k /\ f[n] \in 0 .. k /\ f[n + 1] \in 0 .. k
      <4>1. k \in Nat
        BY <1>1
      <4>2. n1 \in 0 .. k
        BY ONLY <4>1, n \in 0 .. k - 1, n1 \in 0 .. n
      <4> QED BY <1>3, <4>2
    <3>4. PICK a, b, c \in Nat : a = node[f[n1]].key /\ b = node[f[n]].key /\ c = node[f[n + 1]].key
      BY <1>2, <2>1, <2>2, <3>2, <3>3
    <3> QED BY <2>2, <3>2, <3>4
  <2> QED BY <2>3, <2>4
<1>6. \A n \in 0 .. k : n \in T
  <2> HIDE DEF T
  <2> QED BY <1>1, <1>4, <1>5, InductionUpTo
<1>7. \A n1, n2 \in 0 .. k : n1 < n2 /\ f[n2] # Null => f[n1] # Null /\ node[f[n1]].key < node[f[n2]].key
  <2>1. ASSUME NEW n1 \in 0 .. k, NEW n2 \in 0 .. k, n1 < n2
        PROVE  n1 \in 0 .. n2 - 1 /\ n2 \in T
    BY <1>6, <2>1
  <2> QED BY <2>1
<1>8. f[k] = Null
  <2> SUFFICES ASSUME f[k] # Null PROVE FALSE
    OBVIOUS
  <2>1. \A n \in 0 .. k : f[n] # Null
    <3>1. \A n \in 0 .. k : n < k \/ n = k
      BY <1>1
    <3>2. k \in 0 .. k
      BY <1>1
    <3> QED BY <1>7, <3>1, <3>2
  <2>2. f \in [0 .. k -> 1 .. k]
    <3>1. \A n \in 0 .. k : f[n] \in 1 .. k
      BY <1>2, <2>1
    <3> QED BY <3>1
  <2>3. IsFiniteSet(0 .. k) /\ Cardinality(0 .. k) = k + 1 /\ IsFiniteSet(1 .. k) /\ Cardinality(1 .. k) = k
    BY <1>1, FS_Interval
  <2>4. PICK n1, n2 \in 0 .. k : n1 # n2 /\ f[n1] = f[n2]
    <3>1. Cardinality(1 .. k) < Cardinality(0 .. k)
      BY <1>1, <2>3
    <3> QED BY <2>2, <2>3, <3>1, FS_PigeonHole
  <2>5. node[f[n1]].key \in Nat
    BY <1>2, <2>1
  <2>6. CASE n1 < n2
    BY <1>7, <2>1, <2>4, <2>5, <2>6
  <2>7. CASE n2 < n1
    BY <1>7, <2>1, <2>4, <2>5, <2>7
  <2> QED BY <2>4, <2>6, <2>7
<1>9. ASSUME NEW x \in TreeKeys(k)
      PROVE  \E n \in 0 .. k : f[n] # Null /\ node[f[n]].key = x
  <2> DEFINE U == {n \in 0 .. k : \/ \E n1 \in 0 .. k : f[n1] # Null /\ node[f[n1]].key = x
                                  \/ f[n] # Null /\ node[f[n]].key <= x}
  <2>1. 0 \in U
    BY <1>1, BeginLeast
  <2>2. ASSUME NEW n \in 0 .. k - 1, n \in U
        PROVE  n + 1 \in U
    <3>1. CASE \E n1 \in 0 .. k : f[n1] # Null /\ node[f[n1]].key = x
      BY <1>3, <3>1
    <3>2. CASE f[n] # Null /\ node[f[n]].key < x
      BY <1>3, <3>2 DEF Follows
    <3>3. CASE f[n] # Null /\ node[f[n]].key = x
      BY <1>3, <3>3
    <3>4. f[n] # Null => node[f[n]].key \in Nat
      BY <1>2, <1>3
    <3>5. x \in Nat
      BY OrderFacts
    <3> QED BY <2>2, <3>1, <3>2, <3>3, <3>4, <3>5
  <2>3. k \in 0 .. k
    BY <1>1
  <2>4. k \in U
    <3> HIDE DEF U
    <3> QED BY <1>1, <2>1, <2>2, <2>3, InductionUpTo
  <2> QED BY <1>8, <2>4
<1> QED BY <1>7, <1>8, <1>9

(* Whatever keys are inserted, in whatever order and with whatever policy,   *)
(* between two calls a loop over the tree ends and visits every key that was *)
(* inserted once, in order, with its own value, and every lookup finds what *)
(* was inserted and nothing else.                                           *)
THEOREM IterationCorrect == TreeSpec => []IterationIsSortedMap
<1>1. OrderInv => IterationIsSortedMap
  <2> SUFFICES ASSUME OrderInv, pc = "rest"
               PROVE  LET visits == {n \in 0 .. Len(node) : Iterator[n] # Null}
                          visited(n) == node[Iterator[n]].key
                      IN  /\ Len(node) \notin visits
                          /\ {visited(n) : n \in visits} = contents
                          /\ \A n1, n2 \in visits : n1 < n2 => visited(n1) < visited(n2)
                          /\ \A i \in DOMAIN node : node[i].value = node[i].key
                          /\ \A k \in Keys : FindNode(k) # Null <=> k \in contents
    BY DEF IterationIsSortedMap
  <2>1. PICK k, span : InOrder(k, span)
    BY RestInOrder
  <2>2. contents = TreeKeys(k) /\ (\A i \in DOMAIN node : node[i].value = node[i].key) /\ Len(node) = k
    BY <2>1, RestInOrder DEF InOrder, TreeKeys
  <2>3. PICK f \in [0 .. k -> 0 .. k] : f = Iterator /\ IsIterator(f)
    BY <2>1, IteratorIs
  <2>4. /\ \A n1, n2 \in 0 .. k : n1 < n2 /\ f[n2] # Null => f[n1] # Null /\ node[f[n1]].key < node[f[n2]].key
        /\ f[k] = Null
        /\ \A x \in TreeKeys(k) : \E n \in 0 .. k : f[n] # Null /\ node[f[n]].key = x
    <3>1. InOrder(k, span) /\ IsIterator(f) /\ f \in [0 .. k -> 0 .. k]
      BY <2>1, <2>3
    <3> QED BY ONLY <3>1, VisitsAscend
  <2>5. {node[f[n]].key : n \in {n \in 0 .. k : f[n] # Null}} = TreeKeys(k)
    <3>1. \A n \in 0 .. k : f[n] # Null => node[f[n]].key \in TreeKeys(k)
      BY <2>1, OrderFacts DEF Null
    <3> QED BY <2>4, <3>1
  <2>6. ASSUME NEW x \in Keys PROVE FindNode(x) # Null <=> x \in contents
    <3>1. PICK g : IsFind(x, g) /\ FindNode(x) = g[root]
      BY <2>1, FindIs
    <3>2. x \in Nat
      BY KeysAssumption
    <3> QED BY <2>1, <2>2, <3>1, <3>2, FindFinds
  <2> QED BY <2>2, <2>3, <2>4, <2>5, <2>6
<1> QED BY <1>1, OrderInvHolds, PTL
=============================================================================

-------------------------- MODULE MainWindow_proofs --------------------------
(***************************************************************************)
(* Proofs about what the main window shows.                                *)
(*                                                                         *)
(* The filters of the events view: what the filtered list contains, that   *)
(* the view always matches the filters, and when it may become stale. The  *)
(* list is computed by a loop over the events.                             *)
(*                                                                         *)
(* The cursors: where the searches of the analyzer move them. The searches *)
(* halve an interval of indices until it cannot be halved.                 *)
(*                                                                         *)
(* The statistics dialog: the graph that the events make of a task is up   *)
(* when the task is on a CPU; the sum over the points between the cursors  *)
(* counts the moments at which it is up; those of all tasks and of the     *)
(* idle task are apart, and are all moments of all CPUs; and heapsort()    *)
(* sorts the rows.                                                         *)
(*                                                                         *)
(* What the loops and the searches compute is proved by the inductions of  *)
(* Recursion_proofs.                                                       *)
(***************************************************************************)
EXTENDS EventFilter, Cursors, Recursion_proofs, FiniteSetTheorems

-----------------------------------------------------------------------------
(* The loop of processAllFilters().                                          *)

(* The list of each turn of the loop.                                        *)
Lists(f, es, list) ==
  list = [n \in 0 .. Len(es) |->
            IF n = 0 THEN <<>>
              ELSE IF Selected(f, es[n]) THEN Append(list[n - 1], es[n]) ELSE list[n - 1]]

(* A list of the events that pass among the first n, in their order, each of  *)
(* them once: at is where each comes from.                                    *)
IsSelection(f, es, n, list) ==
  \E at \in [1 .. Len(list) -> 1 .. n] :
    /\ \A i \in 1 .. Len(list) : list[i] = es[at[i]] /\ Selected(f, es[at[i]])
    /\ \A i, j \in 1 .. Len(list) : i < j => at[i] < at[j]
    /\ \A k \in 1 .. n : Selected(f, es[k]) => \E i \in 1 .. Len(list) : at[i] = k

LEMMA ListsExist ==
  ASSUME NEW f, NEW S, NEW es \in Seq(S)
  PROVE  \E list \in [0 .. Len(es) -> Seq(S)] : Lists(f, es, list)
  <1> DEFINE L == Len(es)
             G == [p \in (1 .. L) \X Seq(S) |->
                     IF Selected(f, es[p[1]]) THEN Append(p[2], es[p[1]]) ELSE p[2]]
  <1>1. L \in Nat /\ <<>> \in Seq(S)
    OBVIOUS
  <1>2. G \in [(1 .. L) \X Seq(S) -> Seq(S)]
    <2>1. ASSUME NEW p \in (1 .. L) \X Seq(S) PROVE es[p[1]] \in S /\ p[2] \in Seq(S)
      OBVIOUS
    <2> HIDE DEF L
    <2>2. ASSUME NEW p \in (1 .. L) \X Seq(S)
          PROVE  (IF Selected(f, es[p[1]]) THEN Append(p[2], es[p[1]]) ELSE p[2])
                   \in Seq(S)
      BY <2>1
    <2> QED
      BY <2>2
  <1>3. ASSUME NEW list \in [0 .. L -> Seq(S)], IsRecursion(L, <<>>, G, list)
        PROVE  Lists(f, es, list)
    <2>1. ASSUME NEW n \in 0 .. L, n # 0
          PROVE  G[<<n, list[n - 1]>>]
                   = IF Selected(f, es[n]) THEN Append(list[n - 1], es[n])
                                               ELSE list[n - 1]
      <3>1. n \in 1 .. L /\ n - 1 \in 0 .. L
        BY <1>1, <2>1
      <3>2. <<n, list[n - 1]>> \in (1 .. L) \X Seq(S)
        BY <1>3, <3>1
      <3> QED
        BY <3>2
    <2> QED
      BY <1>3, <2>1 DEF Lists, IsRecursion
  <1> HIDE DEF L, G
  <1>4. \E list \in [0 .. L -> Seq(S)] : Lists(f, es, list)
    <2>1. \E list \in [0 .. L -> Seq(S)] : IsRecursion(L, <<>>, G, list)
      BY ONLY <1>1, <1>2, RecursionUpTo
    <2> QED
      BY <1>3, <2>1
  <1> QED
    BY <1>4 DEF L

(* One turn of the loop.                                                     *)
LEMMA SelectionGrows ==
  ASSUME NEW f, NEW S, NEW es \in Seq(S), NEW n \in 0 .. Len(es) - 1,
         NEW list \in Seq(S), IsSelection(f, es, n, list)
  PROVE  IsSelection(f, es, n + 1,
                     IF Selected(f, es[n + 1]) THEN Append(list, es[n + 1]) ELSE list)
  <1>1. PICK at \in [1 .. Len(list) -> 1 .. n] :
          /\ \A i \in 1 .. Len(list) : list[i] = es[at[i]] /\ Selected(f, es[at[i]])
          /\ \A i, j \in 1 .. Len(list) : i < j => at[i] < at[j]
          /\ \A k \in 1 .. n : Selected(f, es[k]) => \E i \in 1 .. Len(list) : at[i] = k
    BY DEF IsSelection
  <1>2. n \in Nat /\ n + 1 \in 1 .. Len(es) /\ Len(list) \in Nat /\ es[n + 1] \in S
    OBVIOUS
  <1>3. \A k \in 1 .. n + 1 : k = n + 1 \/ k \in 1 .. n
    BY <1>2
  <1>4. CASE ~Selected(f, es[n + 1])
    <2>1. at \in [1 .. Len(list) -> 1 .. n + 1]
      BY <1>1, <1>2
    <2>2. \A k \in 1 .. n + 1 : Selected(f, es[k]) => \E i \in 1 .. Len(list) : at[i] = k
      BY <1>1, <1>3, <1>4
    <2>3. IsSelection(f, es, n + 1, list)
      BY <1>1, <2>1, <2>2 DEF IsSelection
    <2> QED
      BY <1>4, <2>3
  <1>5. CASE Selected(f, es[n + 1])
    <2> DEFINE L  == Len(list)
               to == [i \in 1 .. L + 1 |-> IF i = L + 1 THEN n + 1 ELSE at[i]]
               r  == Append(list, es[n + 1])
    <2>1. /\ Len(r) = L + 1 /\ L + 1 \in 1 .. L + 1 /\ r[L + 1] = es[n + 1]
          /\ \A i \in 1 .. L : r[i] = list[i]
      BY <1>2
    <2>2. \A i \in 1 .. L + 1 : i = L + 1 \/ i \in 1 .. L
      BY <1>2
    <2>3. \A i \in 1 .. L : i \in 1 .. L + 1 /\ i # L + 1 /\ at[i] \in 1 .. n /\ at[i] < n + 1
      BY <1>1, <1>2
    <2>4. to[L + 1] = n + 1 /\ \A i \in 1 .. L : to[i] = at[i]
      BY <2>1, <2>3
    <2>5. to \in [1 .. L + 1 -> 1 .. n + 1]
      BY <1>1, <1>2, <2>2, <2>3
    <2> HIDE DEF to, r
    <2>6. \A i \in 1 .. L + 1 : r[i] = es[to[i]] /\ Selected(f, es[to[i]])
      BY <1>1, <1>5, <2>1, <2>2, <2>4
    <2>7. \A i, j \in 1 .. L + 1 : i < j => to[i] < to[j]
      <3> SUFFICES ASSUME NEW i \in 1 .. L + 1, NEW j \in 1 .. L + 1, i < j
                   PROVE  to[i] < to[j]
        OBVIOUS
      <3>1. i \in 1 .. L
        BY <1>2
      <3>2. CASE j = L + 1
        BY <2>3, <2>4, <3>1, <3>2
      <3>3. CASE j \in 1 .. L
        BY <1>1, <2>4, <3>1, <3>3
      <3> QED
        BY <2>2, <3>2, <3>3
    <2>8. \A k \in 1 .. n + 1 : Selected(f, es[k]) => \E i \in 1 .. L + 1 : to[i] = k
      BY <1>1, <1>3, <2>1, <2>3, <2>4
    <2>9. IsSelection(f, es, n + 1, r)
      <3>1. Len(r) = L + 1
        BY <2>1
      <3> HIDE DEF L
      <3>2. to \in [1 .. Len(r) -> 1 .. n + 1]
        BY ONLY <2>5, <3>1
      <3>3. \A i \in 1 .. Len(r) : r[i] = es[to[i]] /\ Selected(f, es[to[i]])
        BY ONLY <2>6, <3>1
      <3>4. \A i, j \in 1 .. Len(r) : i < j => to[i] < to[j]
        BY ONLY <2>7, <3>1
      <3>5. \A k \in 1 .. n + 1 : Selected(f, es[k]) => \E i \in 1 .. Len(r) : to[i] = k
        BY ONLY <2>8, <3>1
      <3> QED
        BY ONLY <3>2, <3>3, <3>4, <3>5 DEF IsSelection
    <2> QED
      BY <1>5, <2>9 DEF r
  <1> QED
    BY <1>4, <1>5

(* processAllFilters() lists the events that pass the filters, in the order    *)
(* of the trace, each of them once, and no others.                           *)
THEOREM FilteredIsSelection ==
  ASSUME NEW f, NEW S, NEW es \in Seq(S)
  PROVE  /\ Filtered(f, es) \in Seq(S)
         /\ IsSelection(f, es, Len(es), Filtered(f, es))
  <1> DEFINE list == CHOOSE list : Lists(f, es, list)
             L    == Len(es)
             T    == {n \in 0 .. L : list[n] \in Seq(S) /\ IsSelection(f, es, n, list[n])}
  <1>1. L \in Nat
    OBVIOUS
  <1>2. Lists(f, es, list)
    BY ListsExist
  <1>3. Filtered(f, es) = list[L]
    BY DEF Filtered, Lists
  <1> HIDE DEF list
  <1>4. /\ list[0] = <<>>
        /\ \A n \in 0 .. L - 1 :
             list[n + 1] = IF Selected(f, es[n + 1]) THEN Append(list[n], es[n + 1])
                                                        ELSE list[n]
    <2>1. \A n \in 0 .. L - 1 : n + 1 \in 0 .. L /\ n + 1 # 0 /\ n + 1 - 1 = n
      BY <1>1
    <2>2. 0 \in 0 .. L
      BY <1>1
    <2>3. \A n \in 0 .. L :
            list[n] = IF n = 0 THEN <<>>
                        ELSE IF Selected(f, es[n]) THEN Append(list[n - 1], es[n])
                                                       ELSE list[n - 1]
      BY <1>2 DEF Lists
    <2> HIDE DEF L
    <2>4. ASSUME NEW n \in 0 .. L - 1
          PROVE  list[n + 1] = IF Selected(f, es[n + 1]) THEN Append(list[n], es[n + 1])
                                                            ELSE list[n]
      <3>1. n + 1 \in 0 .. L /\ n + 1 # 0 /\ n + 1 - 1 = n
        BY <2>1
      <3>2. list[n + 1] = IF n + 1 = 0 THEN <<>>
              ELSE IF Selected(f, es[n + 1]) THEN Append(list[n + 1 - 1], es[n + 1])
                                                 ELSE list[n + 1 - 1]
        BY <2>3, <3>1
      <3> QED
        BY <3>1, <3>2
    <2> QED
      BY <2>2, <2>3, <2>4
  <1>5. 0 \in T
    <2>1. [i \in 1 .. 0 |-> 0] \in [1 .. Len(<<>>) -> 1 .. 0]
      OBVIOUS
    <2>2. Len(<<>>) = 0 /\ (\A i \in 1 .. 0 : FALSE) /\ <<>> \in Seq(S) /\ 0 \in 0 .. L
      BY <1>1
    <2>3. IsSelection(f, es, 0, <<>>)
      BY <2>1, <2>2 DEF IsSelection
    <2> QED
      BY <1>4, <2>2, <2>3
  <1>6. ASSUME NEW n \in 0 .. L - 1, n \in T
        PROVE  n + 1 \in T
    <2>1. n + 1 \in 0 .. L /\ n + 1 \in 1 .. L /\ es[n + 1] \in S
      BY <1>1
    <2>2. list[n] \in Seq(S) /\ IsSelection(f, es, n, list[n])
      BY <1>6
    <2>3. IsSelection(f, es, n + 1, list[n + 1])
      BY <1>4, <2>2, SelectionGrows
    <2>4. list[n + 1] \in Seq(S)
      <3>1. list[n + 1] = IF Selected(f, es[n + 1]) THEN Append(list[n], es[n + 1])
                                                       ELSE list[n]
        BY <1>4
      <3>2. Append(list[n], es[n + 1]) \in Seq(S)
        BY <2>1, <2>2
      <3> QED
        BY <2>2, <3>1, <3>2
    <2> QED
      BY <2>1, <2>3, <2>4
  <1>7. L \in 0 .. L
    BY <1>1
  <1> HIDE DEF T
  <1>8. L \in T
    BY <1>1, <1>5, <1>6, <1>7, InductionUpTo
  <1> QED
    BY <1>3, <1>8 DEF T

-----------------------------------------------------------------------------
(* Types.                                                                    *)

LEMMA TraceTypes == trace \in Traces \cup {NoTrace} => trace \in TraceType
  <1>1. <<>> \in Seq(EventType) /\ {} \in SUBSET (Pids \ {0}) /\ {} \in SUBSET CPUs
    OBVIOUS
  <1>2. NoTrace \in TraceType
    BY <1>1 DEF NoTrace, TraceType
  <1> QED
    BY <1>2, TracesAssumption

LEMMA FilteredType ==
  ASSUME trace \in Traces \cup {NoTrace}, NEW f
  PROVE  ProcessAllFilters(f) \in Seq(EventType)
  <1>1. trace.events \in Seq(EventType)
    BY TraceTypes DEF TraceType
  <1> QED
    BY <1>1, FilteredIsSelection DEF ProcessAllFilters

LEMMA NoFilterType == NoFilter \in FilterType
  BY DEF NoFilter, FilterType

LEMMA PidMapsType ==
  ASSUME trace \in Traces \cup {NoTrace}
  PROVE  /\ \A map \in PidMaps : map \subseteq Pids
         /\ \A map \in SUBSET trace.cpus : map \subseteq CPUs
  <1>1. trace \in TraceType
    BY TraceTypes
  <1>2. trace.events \in Seq(EventType) /\ trace.tasks \subseteq Pids /\ trace.cpus \subseteq CPUs
    BY <1>1 DEF TraceType
  <1>3. \A i \in DOMAIN trace.events : trace.events[i].pid \in Pids
    <2>1. \A i \in DOMAIN trace.events : trace.events[i] \in EventType
      BY <1>2
    <2> QED
      BY <2>1 DEF EventType
  <1>4. trace.tasks \cup (IF Open THEN {0} ELSE {}) \subseteq Pids
    BY <1>2, PidsAssumption
  <1> QED
    BY <1>2, <1>3, <1>4 DEF PidMaps

(* What a request does to the filters and the list: the list is that of the    *)
(* new filters, or no list is needed, or there is nothing new.                *)
Refiltered ==
  /\ filter' \in [Logics -> FilterType]
  /\ \/ filteredEvents' = ProcessAllFilters(filter')
     \/ ~IsFiltered(filter') /\ filteredEvents' \in {<<>>, filteredEvents}
     \/ filter' = filter /\ filteredEvents' = filteredEvents

LEMMA EnableRefilters ==
  ASSUME TypeOK, NEW l \in Logics, NEW k \in Kinds, NEW c \in FilterType, EnableFilter(l, k, c)
  PROVE  Refiltered
  <1> DEFINE d == [c EXCEPT !.on = @ \cup {k}]
             f == [filter EXCEPT ![l] = d]
  <1>1. d \in FilterType
    <2>1. c.on \cup {k} \in SUBSET Kinds
      BY DEF FilterType
    <2> QED
      BY <2>1 DEF FilterType
  <1>2. f \in [Logics -> FilterType]
    BY <1>1 DEF TypeOK
  <1>3. filter' = f /\ filteredEvents' = IF IsFiltered(f) THEN ProcessAllFilters(f)
                                                         ELSE filteredEvents
    BY DEF EnableFilter
  <1> HIDE DEF d, f
  <1> QED
    BY <1>2, <1>3 DEF Refiltered

LEMMA WithoutType ==
  ASSUME NEW k, NEW c \in FilterType
  PROVE  Without(k, c) \in FilterType
  <1>1. /\ c.on \ {k} \in SUBSET Kinds
        /\ (IF k = "PID" THEN {} ELSE c.pids) \in SUBSET Pids
        /\ (IF k = "EVENT" THEN {} ELSE c.types) \in SUBSET Types
        /\ (IF k = "CPU" THEN {} ELSE c.cpus) \in SUBSET CPUs
        /\ (IF k = "TIME" THEN 0 ELSE c.low) \in Int
        /\ (IF k = "TIME" THEN 0 ELSE c.high) \in Int
        /\ (IF k = "REGEX" THEN NoRegex ELSE c.regex) \in Regexes \cup {NoRegex}
    BY DEF FilterType
  <1>2. (IF k = "PID" THEN FALSE ELSE c.inclusive) \in BOOLEAN
    BY Zenon DEF FilterType
  <1> QED
    BY <1>1, <1>2 DEF Without, FilterType

LEMMA DisableRefilters ==
  ASSUME TypeOK, NEW k, DisableFilter(k)
  PROVE  Refiltered
  <1> DEFINE f == [l \in Logics |-> Without(k, filter[l])]
  <1>1. \A l \in Logics : filter[l] \in FilterType
    BY DEF TypeOK
  <1>2. f \in [Logics -> FilterType]
    BY <1>1, WithoutType
  <1>3. filter' = f /\ filteredEvents' = IF IsFiltered(f) THEN ProcessAllFilters(f) ELSE <<>>
    BY DEF DisableFilter
  <1> HIDE DEF f
  <1> QED
    BY <1>2, <1>3 DEF Refiltered

LEMMA DropRefilters ==
  ASSUME TypeOK, NEW k, DropFilter(k)
  PROVE  Refiltered
  BY DisableRefilters DEF DropFilter, Refiltered, TypeOK

LEMMA AllFiltersGo ==
  ASSUME DisableAllFilters
  PROVE  /\ Refiltered /\ ~IsFiltered(filter') /\ filteredEvents' = <<>>
  BY NoFilterType DEF DisableAllFilters, Refiltered, IsFiltered, NoFilter, Logics

(* Every request of a dialog ends with the view brought up to date; all but    *)
(* one that has a bad regex also bring the list up to date.                   *)
LEMMA RequestRefilters ==
  ASSUME TypeOK, DialogRequest
  PROVE  /\ UpdateView
         /\ \/ Refiltered /\ warned' = FALSE
            \/ /\ filter' \in [Logics -> FilterType] /\ filteredEvents' = filteredEvents
               /\ warned' = TRUE
  <1>1. PICK l \in Logics :
          \/ \E map \in PidMaps, incl \in BOOLEAN : CreatePidFilter(l, map, incl)
          \/ \E map \in SUBSET trace.cpus : CreateCPUFilter(l, map)
          \/ \E map \in SUBSET (IF Open THEN Types ELSE {}) : CreateEventFilter(l, map)
          \/ \E rx \in Regexes : CreateRegexFilter(l, rx)
    BY DEF DialogRequest
  <1>2. filter[l] \in FilterType /\ filter \in [Logics -> FilterType]
        /\ trace \in Traces \cup {NoTrace}
    BY DEF TypeOK
  <1>3. {"PID", "CPU", "EVENT", "REGEX"} \subseteq Kinds
    BY DEF Kinds
  <1>4. ASSUME NEW map \in PidMaps, NEW incl \in BOOLEAN, CreatePidFilter(l, map, incl)
        PROVE  UpdateView /\ Refiltered /\ warned' = FALSE
    <2>1. map \subseteq Pids
      BY <1>2, PidMapsType
    <2>2. [filter[l] EXCEPT !.pids = map, !.inclusive = incl] \in FilterType
      BY <1>2, <2>1 DEF FilterType
    <2> QED
      BY <1>3, <1>4, <2>2, EnableRefilters, DropRefilters DEF CreatePidFilter
  <1>5. ASSUME NEW map \in SUBSET trace.cpus, CreateCPUFilter(l, map)
        PROVE  UpdateView /\ Refiltered /\ warned' = FALSE
    <2>1. map \subseteq CPUs
      BY <1>2, PidMapsType
    <2>2. [filter[l] EXCEPT !.cpus = map] \in FilterType
      BY <1>2, <2>1 DEF FilterType
    <2> QED
      BY <1>3, <1>5, <2>2, EnableRefilters, DropRefilters DEF CreateCPUFilter
  <1>6. ASSUME NEW map \in SUBSET (IF Open THEN Types ELSE {}), CreateEventFilter(l, map)
        PROVE  UpdateView /\ Refiltered /\ warned' = FALSE
    <2>1. map \subseteq Types
      OBVIOUS
    <2>2. [filter[l] EXCEPT !.types = map] \in FilterType
      BY <1>2, <2>1 DEF FilterType
    <2> QED
      BY <1>3, <1>6, <2>2, EnableRefilters, DropRefilters DEF CreateEventFilter
  <1>7. ASSUME NEW rx \in Regexes, CreateRegexFilter(l, rx), rx \notin BadRegexes
        PROVE  UpdateView /\ Refiltered /\ warned' = FALSE
    <2>1. [filter[l] EXCEPT !.regex = rx] \in FilterType
      BY <1>2 DEF FilterType
    <2> QED
      <3>1. UpdateView /\ EnableFilter(l, "REGEX", [filter[l] EXCEPT !.regex = rx])
        BY <1>7 DEF CreateRegexFilter
      <3>2. warned' = FALSE
        <4>1. warned' = (rx \in BadRegexes)
          BY <1>7 DEF CreateRegexFilter
        <4>2. (rx \in BadRegexes) = FALSE
          BY <1>7
        <4> QED
          BY <4>1, <4>2
      <3> QED
        BY <1>3, <2>1, <3>1, <3>2, EnableRefilters
  <1>8. ASSUME NEW rx \in Regexes, CreateRegexFilter(l, rx), rx \in BadRegexes
        PROVE  UpdateView /\ filter' \in [Logics -> FilterType] /\ filteredEvents' = filteredEvents
               /\ warned' = TRUE
    <2>1. Without("REGEX", filter[l]) \in FilterType
      BY <1>2, WithoutType
    <2> QED
      BY <1>2, <1>8, <2>1 DEF CreateRegexFilter
  <1> QED
    BY <1>1, <1>4, <1>5, <1>6, <1>7, <1>8

(* A filter on the interval between the cursors, or the end of one filter.     *)
LEMMA OtherRequestsRefilter ==
  ASSUME TypeOK,
         \/ \E interval \in Intervals : CreateTimeFilter(interval[1], interval[2])
         \/ \E k \in Kinds : ResetFilter(k)
         \/ ResetFilters
  PROVE  UpdateView /\ Refiltered /\ warned' = FALSE
  <1>1. CASE \E interval \in Intervals : CreateTimeFilter(interval[1], interval[2])
    <2>1. PICK interval \in Intervals : CreateTimeFilter(interval[1], interval[2])
      BY <1>1
    <2>2. interval[1] \in Int /\ interval[2] \in Int
      BY TimesAssumption
    <2> DEFINE c == [filter["AND"] EXCEPT !.low = interval[1], !.high = interval[2]]
    <2>3. c \in FilterType /\ filter \in [Logics -> FilterType]
      BY <2>2 DEF FilterType, TypeOK, Logics
    <2>4. \/ UNCHANGED <<filter, filteredEvents>>
          \/ EnableFilter("AND", "TIME", c)
      BY <2>1 DEF CreateTimeFilter
    <2>5. Refiltered
      <3>1. "AND" \in Logics /\ "TIME" \in Kinds
        BY DEF Logics, Kinds
      <3> HIDE DEF c
      <3> QED
        BY <2>3, <2>4, <3>1, EnableRefilters DEF Refiltered
    <2> QED
      BY <2>1, <2>5 DEF CreateTimeFilter
  <1>2. CASE \E k \in Kinds : ResetFilter(k)
    BY <1>2, DisableRefilters DEF ResetFilter
  <1>3. CASE ResetFilters
    BY <1>3, AllFiltersGo DEF ResetFilters
  <1> QED
    BY <1>1, <1>2, <1>3

LEMMA SettingsRefilter ==
  ASSUME TypeOK, NEW incl \in BOOLEAN, ConsumeFilterSettings(incl)
  PROVE  Refiltered /\ (IsFiltered(filter') <=> IsFiltered(filter))
  <1> DEFINE f == [l \in Logics |-> IF "PID" \in filter[l].on
                                      THEN [filter[l] EXCEPT !.inclusive = incl] ELSE filter[l]]
  <1>1. ASSUME NEW l \in Logics
        PROVE  f[l] \in FilterType /\ f[l].on = filter[l].on
    <2>1. filter[l] \in FilterType
      BY DEF TypeOK
    <2>2. [filter[l] EXCEPT !.inclusive = incl] \in FilterType
      BY <2>1 DEF FilterType
    <2>3. [filter[l] EXCEPT !.inclusive = incl].on = filter[l].on
      BY <2>1 DEF FilterType
    <2> QED
      BY <2>1, <2>2, <2>3
  <1>2. f \in [Logics -> FilterType]
    BY <1>1
  <1>3. filter' = f /\ filteredEvents' = IF IsFiltered(f) /\ f # filter
                                           THEN ProcessAllFilters(f) ELSE filteredEvents
    BY DEF ConsumeFilterSettings
  <1>4. "AND" \in Logics
    BY DEF Logics
  <1> HIDE DEF f
  <1>5. IsFiltered(filter') <=> IsFiltered(filter)
    BY <1>1, <1>3, <1>4 DEF IsFiltered
  <1> QED
    BY <1>2, <1>3, <1>5 DEF Refiltered

-----------------------------------------------------------------------------
(* The view.                                                                 *)

LEMMA InitTypeOK == Init => TypeOK
  <1>1. <<>> \in Seq(EventType)
    OBVIOUS
  <1> QED
    BY <1>1, NoFilterType DEF Init, TypeOK

(* A list that was filtered again has events of the open trace only.          *)
LEMMA RefilteredList ==
  ASSUME TypeOK, NoDanglingEvent, Refiltered, trace' = trace
  PROVE  filteredEvents' \in Seq(EventType) /\ NoDanglingEvent'
  <1>1. trace.events \in Seq(EventType)
    BY TraceTypes DEF TypeOK, TraceType
  <1>2. CASE filteredEvents' = ProcessAllFilters(filter')
    <2> DEFINE r == Filtered(filter', trace.events)
    <2>1. r \in Seq(EventType) /\ IsSelection(filter', trace.events, Len(trace.events), r)
      BY <1>1, FilteredIsSelection
    <2>2. filteredEvents' = r
      BY <1>2 DEF ProcessAllFilters
    <2> HIDE DEF r
    <2>3. \A i \in 1 .. Len(r) : \E j \in 1 .. Len(trace.events) : r[i] = trace.events[j]
      BY <2>1 DEF IsSelection
    <2>4. DOMAIN r = 1 .. Len(r) /\ DOMAIN trace.events = 1 .. Len(trace.events)
      BY <1>1, <2>1
    <2> QED
      BY <2>1, <2>2, <2>3, <2>4 DEF NoDanglingEvent
  <1>3. CASE filteredEvents' = <<>>
    <2>1. DOMAIN <<>> = {} /\ <<>> \in Seq(EventType)
      OBVIOUS
    <2> QED
      BY <1>3, <2>1 DEF NoDanglingEvent
  <1>4. CASE filteredEvents' = filteredEvents
    BY <1>4 DEF NoDanglingEvent, TypeOK
  <1> QED
    BY <1>2, <1>3, <1>4 DEF Refiltered

(* What holds between the slots: the button follows the AND filters even when  *)
(* no trace is open, and filters that are early were made by then.            *)
ViewInv ==
  /\ TypeOK /\ NoDanglingEvent
  /\ resetEnabled <=> IsFiltered(filter)
  /\ ~Open => (early <=> IsFiltered(filter))
  /\ Open /\ ~early => shown = IF IsFiltered(filter) THEN "filteredEvents" ELSE "events"

LEMMA InitViewInv == Init => ViewInv
  <1> SUFFICES ASSUME Init PROVE ViewInv
    OBVIOUS
  <1>1. "AND" \in Logics /\ DOMAIN <<>> = {}
    BY DEF Logics
  <1>2. ~IsFiltered(filter)
    BY <1>1 DEF Init, IsFiltered, NoFilter
  <1>3. trace # NoTrace
    BY TracesAssumption DEF Init, NoTrace
  <1> QED
    BY <1>1, <1>2, <1>3, InitTypeOK DEF Init, ViewInv, NoDanglingEvent, Open

(* After a request.                                                          *)
LEMMA UpdatedView ==
  ASSUME ViewInv, UpdateView, warned' \in BOOLEAN,
         \/ Refiltered
         \/ filter' \in [Logics -> FilterType] /\ filteredEvents' = filteredEvents
  PROVE  ViewInv'
  <1>1. /\ trace' = trace /\ (Open' <=> Open)
        /\ shown' = IF IsFiltered(filter') THEN "filteredEvents" ELSE "events"
        /\ resetEnabled' = IsFiltered(filter')
        /\ early' = (~Open /\ IsFiltered(filter'))
    BY DEF UpdateView, Open
  <1>2. filter' \in [Logics -> FilterType] /\ filteredEvents' \in Seq(EventType) /\ NoDanglingEvent'
    <2>1. CASE Refiltered
      BY <1>1, <2>1, RefilteredList DEF ViewInv, Refiltered
    <2>2. CASE filter' \in [Logics -> FilterType] /\ filteredEvents' = filteredEvents
      BY <1>1, <2>2 DEF ViewInv, TypeOK, NoDanglingEvent
    <2> QED
      BY <2>1, <2>2
  <1>3. resetEnabled' \in BOOLEAN /\ early' \in BOOLEAN
    <2>1. IsFiltered(filter') \in BOOLEAN /\ (~Open /\ IsFiltered(filter')) \in BOOLEAN
      BY DEF IsFiltered
    <2> QED
      BY <1>1, <2>1
  <1>4. TypeOK'
    BY <1>1, <1>2, <1>3 DEF ViewInv, TypeOK
  <1>5. IsFiltered(filter)' <=> IsFiltered(filter')
    BY DEF IsFiltered
  <1>6. /\ resetEnabled' <=> IsFiltered(filter)'
        /\ ~Open' => (early' <=> IsFiltered(filter)')
        /\ Open' /\ ~early' => shown' = IF IsFiltered(filter)' THEN "filteredEvents" ELSE "events"
    BY <1>1, <1>5
  <1> QED
    BY <1>2, <1>4, <1>6 DEF ViewInv

LEMMA NextViewInv ==
  ASSUME ViewInv, [Next]_vars
  PROVE  ViewInv'
  <1>1. TypeOK /\ NoDanglingEvent
    BY DEF ViewInv
  <1>2. CASE DialogRequest
    BY <1>1, <1>2, RequestRefilters, UpdatedView
  <1>3. CASE \/ \E interval \in Intervals : CreateTimeFilter(interval[1], interval[2])
             \/ \E k \in Kinds : ResetFilter(k)
             \/ ResetFilters
    BY <1>1, <1>3, OtherRequestsRefilter, UpdatedView
  <1>4. CASE \E incl \in BOOLEAN : ConsumeFilterSettings(incl)
    <2>1. /\ Refiltered /\ (IsFiltered(filter') <=> IsFiltered(filter))
          /\ UNCHANGED <<trace, shown, resetEnabled, early>> /\ warned' = FALSE
      BY <1>1, <1>4, SettingsRefilter DEF ConsumeFilterSettings
    <2>2. filteredEvents' \in Seq(EventType) /\ NoDanglingEvent'
      BY <1>1, <2>1, RefilteredList
    <2>3. TypeOK'
      BY <1>1, <2>1, <2>2 DEF TypeOK, Refiltered
    <2>4. (IsFiltered(filter)' <=> IsFiltered(filter)) /\ (Open' <=> Open)
      BY <2>1 DEF IsFiltered, Open
    <2> QED
      BY <2>1, <2>2, <2>3, <2>4 DEF ViewInv
  <1>5. CASE CloseTrace
    <2>1. /\ Refiltered /\ ~IsFiltered(filter') /\ filteredEvents' = <<>>
          /\ trace' = NoTrace /\ shown' = "none"
          /\ resetEnabled' = (resetEnabled /\ ~IsFiltered(filter))
          /\ warned' = FALSE /\ early' = FALSE
      BY <1>5, AllFiltersGo DEF CloseTrace
    <2>2. resetEnabled' = FALSE
      BY <2>1 DEF ViewInv
    <2>3. DOMAIN <<>> = {} /\ <<>> \in Seq(EventType)
      OBVIOUS
    <2>4. TypeOK' /\ NoDanglingEvent'
      BY <2>1, <2>2, <2>3 DEF TypeOK, NoDanglingEvent, Refiltered
    <2>5. ~IsFiltered(filter)' /\ ~Open'
      BY <2>1 DEF IsFiltered, Open
    <2> QED
      BY <2>1, <2>2, <2>4, <2>5 DEF ViewInv
  <1>6. CASE OpenFile
    <2>1. /\ ~Open /\ trace' \in Traces /\ shown' = "events"
          /\ UNCHANGED <<filter, filteredEvents, resetEnabled, early>> /\ warned' = FALSE
      BY <1>6 DEF OpenFile
    <2>2. TypeOK'
      BY <1>1, <2>1 DEF TypeOK
    <2>3. NoDanglingEvent'
      <3>1. DOMAIN trace.events = {}
        BY <2>1 DEF Open, NoTrace
      <3> QED
        BY <1>1, <2>1, <3>1 DEF NoDanglingEvent
    <2>4. Open'
      BY <2>1, TracesAssumption DEF Open, NoTrace
    <2>5. (IsFiltered(filter)' <=> IsFiltered(filter)) /\ (early' <=> IsFiltered(filter))
      BY <2>1 DEF IsFiltered, ViewInv
    <2> QED
      BY <2>1, <2>2, <2>3, <2>4, <2>5 DEF ViewInv
  <1>7. CASE UNCHANGED vars
    BY <1>7 DEF vars, ViewInv, TypeOK, NoDanglingEvent, Open, IsFiltered
  <1> QED
    BY <1>2, <1>3, <1>4, <1>5, <1>6, <1>7 DEF Next

(* Every variable has a value of its C++ type.                                *)
THEOREM TypeCorrect == Spec => []TypeOK
  <1>1. ViewInv => TypeOK
    BY DEF ViewInv
  <1> QED
    BY InitViewInv, NextViewInv, <1>1, PTL DEF Spec

(* After every slot the widget shows the list the filters call for, and the    *)
(* filtered list points to events of the open trace.                          *)
THEOREM ViewFollowsFilter == Spec => []ViewMatchesFilter
  <1>1. ViewInv => ViewMatchesFilter
    <2> SUFFICES ASSUME ViewInv PROVE ViewMatchesFilter
      OBVIOUS
    <2>1. resetEnabled \in BOOLEAN /\ IsFiltered(filter) \in BOOLEAN
      BY DEF ViewInv, TypeOK, IsFiltered
    <2>2. resetEnabled = IsFiltered(filter)
      BY <2>1 DEF ViewInv
    <2> QED
      BY <2>2 DEF ViewInv, ViewMatchesFilter
  <1> QED
    BY InitViewInv, NextViewInv, <1>1, PTL DEF Spec

(* A step that leaves the list stale warned the user, or met filters that     *)
(* were made before the trace was opened.                                    *)
LEMMA StaleStep ==
  ASSUME ViewInv, [Next]_vars, Fresh, ~warned', ~early'
  PROVE  Fresh'
  <1>1. TypeOK
    BY DEF ViewInv
  <1>2. ASSUME Refiltered, trace' = trace
        PROVE  Fresh'
    <2>1. /\ IsFiltered(filter)' <=> IsFiltered(filter')
          /\ ProcessAllFilters(filter)' = ProcessAllFilters(filter')
      BY <1>2 DEF IsFiltered, ProcessAllFilters
    <2>2. CASE filteredEvents' = ProcessAllFilters(filter')
      BY <2>1, <2>2 DEF Fresh
    <2>3. CASE ~IsFiltered(filter')
      BY <2>1, <2>3 DEF Fresh
    <2>4. CASE filter' = filter /\ filteredEvents' = filteredEvents
      BY <2>1, <2>4 DEF Fresh
    <2> QED
      BY <1>2, <2>2, <2>3, <2>4 DEF Refiltered
  <1>3. CASE DialogRequest
    BY <1>1, <1>2, <1>3, RequestRefilters DEF UpdateView
  <1>4. CASE \/ \E interval \in Intervals : CreateTimeFilter(interval[1], interval[2])
             \/ \E k \in Kinds : ResetFilter(k)
             \/ ResetFilters
    BY <1>1, <1>2, <1>4, OtherRequestsRefilter DEF UpdateView
  <1>5. CASE \E incl \in BOOLEAN : ConsumeFilterSettings(incl)
    BY <1>1, <1>2, <1>5, SettingsRefilter DEF ConsumeFilterSettings
  <1>6. CASE CloseTrace
    <2>1. ~IsFiltered(filter')
      BY <1>6, AllFiltersGo DEF CloseTrace
    <2> QED
      BY <2>1 DEF Fresh, IsFiltered
  <1>7. CASE OpenFile
    <2>1. ~IsFiltered(filter) /\ filter' = filter
      BY <1>7 DEF OpenFile, ViewInv
    <2> QED
      BY <2>1 DEF Fresh, IsFiltered
  <1>8. CASE UNCHANGED vars
    BY <1>8 DEF vars, Fresh, IsFiltered, ProcessAllFilters
  <1> QED
    BY <1>3, <1>4, <1>5, <1>6, <1>7, <1>8 DEF Next

(* What is shown is what the filters select after every sequence of requests,  *)
(* settings, closings and openings, but for the two cases the user can tell.  *)
THEOREM StaleIsAnnounced == Spec => StaleOnlyAfterWarning
  <1>1. ViewInv /\ [Next]_vars => [Fresh /\ ~warned' /\ ~early' => Fresh']_vars
    BY StaleStep
  <1> QED
    BY InitViewInv, NextViewInv, <1>1, PTL DEF Spec, StaleOnlyAfterWarning

-----------------------------------------------------------------------------
(* Filters that are added.                                                   *)

(* The criteria of kind k are the same in c and d.                           *)
SameCriteria(k, c, d) ==
  /\ k = "PID" => c.pids = d.pids /\ c.inclusive = d.inclusive
  /\ k = "EVENT" => c.types = d.types
  /\ k = "TIME" => c.low = d.low /\ c.high = d.high
  /\ k = "CPU" => c.cpus = d.cpus
  /\ k = "REGEX" => c.regex = d.regex

LEMMA SameCriteriaMatch ==
  ASSUME NEW f, NEW g, NEW l, NEW k, NEW e, SameCriteria(k, f[l], g[l]),
         k = "PID" /\ f[l].inclusive => f["AND"].pids = g["AND"].pids
  PROVE  Matches(f, l, k, e) <=> Matches(g, l, k, e)
  <1>1. CASE k = "PID"
    <2>1. PidMatches(f, l, e) <=> PidMatches(g, l, e)
      BY <1>1 DEF SameCriteria, PidMatches
    <2> QED
      BY <1>1, <2>1 DEF Matches
  <1>2. CASE k # "PID"
    BY <1>2 DEF SameCriteria, Matches
  <1> QED
    BY <1>1, <1>2

(* The filter of kind k and logic l is enabled, with criteria of its own; the  *)
(* rest stays.                                                               *)
Enables(l, k) ==
  /\ trace' = trace
  /\ \A m \in Logics \ {l} : filter'[m] = filter[m]
  /\ filter'[l].on = filter[l].on \cup {k}
  /\ \A j \in Kinds \ {k} : SameCriteria(j, filter[l], filter'[l])

NothingEnabled == \A l \in Logics : filter'[l].on \subseteq filter[l].on

LEMMA EnableFilterEnables ==
  ASSUME TypeOK, trace' = trace, NEW l \in Logics, NEW k \in Kinds, NEW c \in FilterType,
         c.on = filter[l].on, \A j \in Kinds \ {k} : SameCriteria(j, filter[l], c),
         EnableFilter(l, k, c)
  PROVE  Enables(l, k)
  <1> DEFINE d == [c EXCEPT !.on = @ \cup {k}]
  <1>1. filter' = [filter EXCEPT ![l] = d] /\ DOMAIN filter = Logics
    BY DEF EnableFilter, TypeOK
  <1>2. /\ d.on = c.on \cup {k} /\ d.pids = c.pids /\ d.inclusive = c.inclusive
        /\ d.cpus = c.cpus /\ d.types = c.types /\ d.low = c.low /\ d.high = c.high
        /\ d.regex = c.regex
    BY DEF FilterType
  <1> HIDE DEF d
  <1>3. filter'[l] = d /\ \A m \in Logics \ {l} : filter'[m] = filter[m]
    BY <1>1
  <1>4. ASSUME NEW j \in Kinds \ {k}
        PROVE  SameCriteria(j, filter[l], d)
    BY <1>2 DEF SameCriteria
  <1> QED
    BY <1>2, <1>3, <1>4 DEF Enables

LEMMA WithoutEnablesNothing ==
  ASSUME NEW k, NEW c \in FilterType
  PROVE  Without(k, c).on = c.on \ {k}
  BY DEF Without, FilterType

LEMMA DropEnablesNothing ==
  ASSUME TypeOK, NEW k, DropFilter(k) \/ DisableFilter(k)
  PROVE  NothingEnabled
  <1>1. \A l \in Logics : filter[l] \in FilterType
    BY DEF TypeOK
  <1>2. CASE DisableFilter(k)
    <2>1. \A l \in Logics : filter'[l] = Without(k, filter[l])
      BY <1>2 DEF DisableFilter
    <2>2. \A l \in Logics : filter'[l].on = filter[l].on \ {k}
      BY <1>1, <2>1, WithoutEnablesNothing
    <2> QED
      BY <2>2 DEF NothingEnabled
  <1>3. CASE filter' = filter
    BY <1>3 DEF NothingEnabled
  <1> QED
    BY <1>2, <1>3 DEF DropFilter

LEMMA DisableAllEnablesNothing ==
  ASSUME DisableAllFilters
  PROVE  NothingEnabled
  BY DEF DisableAllFilters, NothingEnabled, NoFilter

(* A step enables one filter, or none.                                       *)
LEMMA StepEnables ==
  ASSUME TypeOK, [Next]_vars
  PROVE  NothingEnabled \/ \E l \in Logics, k \in Kinds : Enables(l, k)
  <1>k. {"PID", "EVENT", "TIME", "CPU", "REGEX"} = Kinds
    BY DEF Kinds
  <1>1. CASE DialogRequest
    <2>1. PICK l \in Logics :
            \/ \E map \in PidMaps, incl \in BOOLEAN : CreatePidFilter(l, map, incl)
            \/ \E map \in SUBSET trace.cpus : CreateCPUFilter(l, map)
            \/ \E map \in SUBSET (IF Open THEN Types ELSE {}) : CreateEventFilter(l, map)
            \/ \E rx \in Regexes : CreateRegexFilter(l, rx)
      BY <1>1 DEF DialogRequest
    <2>2. filter[l] \in FilterType /\ trace \in Traces \cup {NoTrace}
      BY DEF TypeOK
    <2>3. ASSUME NEW map \in PidMaps, NEW incl \in BOOLEAN, CreatePidFilter(l, map, incl)
          PROVE  NothingEnabled \/ Enables(l, "PID")
      <3> DEFINE c == [filter[l] EXCEPT !.pids = map, !.inclusive = incl]
      <3>1. map \subseteq Pids
        BY <2>2, PidMapsType
      <3>2. /\ c \in FilterType /\ c.on = filter[l].on
            /\ \A j \in Kinds \ {"PID"} : SameCriteria(j, filter[l], c)
        BY <2>2, <3>1 DEF FilterType, SameCriteria
      <3>3. trace' = trace /\ (DropFilter("PID") \/ EnableFilter(l, "PID", c))
        BY <2>3 DEF CreatePidFilter, UpdateView
      <3> HIDE DEF c
      <3> QED
        BY <1>k, <3>2, <3>3, EnableFilterEnables, DropEnablesNothing
    <2>4. ASSUME NEW map \in SUBSET trace.cpus, CreateCPUFilter(l, map)
          PROVE  NothingEnabled \/ Enables(l, "CPU")
      <3> DEFINE c == [filter[l] EXCEPT !.cpus = map]
      <3>1. map \subseteq CPUs
        BY <2>2, PidMapsType
      <3>2. /\ c \in FilterType /\ c.on = filter[l].on
            /\ \A j \in Kinds \ {"CPU"} : SameCriteria(j, filter[l], c)
        BY <2>2, <3>1 DEF FilterType, SameCriteria
      <3>3. trace' = trace /\ (DropFilter("CPU") \/ EnableFilter(l, "CPU", c))
        BY <2>4 DEF CreateCPUFilter, UpdateView
      <3> HIDE DEF c
      <3> QED
        BY <1>k, <3>2, <3>3, EnableFilterEnables, DropEnablesNothing
    <2>5. ASSUME NEW map \in SUBSET (IF Open THEN Types ELSE {}), CreateEventFilter(l, map)
          PROVE  NothingEnabled \/ Enables(l, "EVENT")
      <3> DEFINE c == [filter[l] EXCEPT !.types = map]
      <3>1. map \subseteq Types
        OBVIOUS
      <3>2. /\ c \in FilterType /\ c.on = filter[l].on
            /\ \A j \in Kinds \ {"EVENT"} : SameCriteria(j, filter[l], c)
        BY <2>2, <3>1 DEF FilterType, SameCriteria
      <3>3. trace' = trace /\ (DropFilter("EVENT") \/ EnableFilter(l, "EVENT", c))
        BY <2>5 DEF CreateEventFilter, UpdateView
      <3> HIDE DEF c
      <3> QED
        BY <1>k, <3>2, <3>3, EnableFilterEnables, DropEnablesNothing
    <2>6. ASSUME NEW rx \in Regexes, CreateRegexFilter(l, rx)
          PROVE  NothingEnabled \/ Enables(l, "REGEX")
      <3> DEFINE c == [filter[l] EXCEPT !.regex = rx]
      <3>1. /\ c \in FilterType /\ c.on = filter[l].on
            /\ \A j \in Kinds \ {"REGEX"} : SameCriteria(j, filter[l], c)
        BY <2>2 DEF FilterType, SameCriteria
      <3>2. /\ trace' = trace
            /\ \/ filter' = [filter EXCEPT ![l] = Without("REGEX", @)]
               \/ EnableFilter(l, "REGEX", c)
        BY <2>6 DEF CreateRegexFilter, UpdateView
      <3> HIDE DEF c
      <3>3. CASE EnableFilter(l, "REGEX", c)
        BY <1>k, <3>1, <3>2, <3>3, EnableFilterEnables
      <3>4. CASE filter' = [filter EXCEPT ![l] = Without("REGEX", @)]
        <4>1. Without("REGEX", filter[l]).on \subseteq filter[l].on
          BY <2>2, WithoutEnablesNothing
        <4>2. filter'[l].on \subseteq filter[l].on /\ \A m \in Logics \ {l} : filter'[m] = filter[m]
          BY <3>4, <4>1 DEF TypeOK
        <4> QED
          BY <4>2 DEF NothingEnabled
      <3> QED
        BY <3>2, <3>3, <3>4
    <2> QED
      BY <1>k, <2>1, <2>3, <2>4, <2>5, <2>6
  <1>2. CASE \E interval \in Intervals : CreateTimeFilter(interval[1], interval[2])
    <2>1. PICK interval \in Intervals : CreateTimeFilter(interval[1], interval[2])
      BY <1>2
    <2>2. interval[1] \in Int /\ interval[2] \in Int
      BY TimesAssumption
    <2>3. filter["AND"] \in FilterType /\ "AND" \in Logics
      BY DEF TypeOK, Logics
    <2> DEFINE c == [filter["AND"] EXCEPT !.low = interval[1], !.high = interval[2]]
    <2>4. /\ c \in FilterType /\ c.on = filter["AND"].on
          /\ \A j \in Kinds \ {"TIME"} : SameCriteria(j, filter["AND"], c)
      BY <2>2, <2>3 DEF FilterType, SameCriteria
    <2>5. trace' = trace /\ (filter' = filter \/ EnableFilter("AND", "TIME", c))
      BY <2>1 DEF CreateTimeFilter, UpdateView
    <2> HIDE DEF c
    <2>6. CASE filter' = filter
      BY <2>6 DEF NothingEnabled
    <2>7. CASE EnableFilter("AND", "TIME", c)
      BY <1>k, <2>3, <2>4, <2>5, <2>7, EnableFilterEnables
    <2> QED
      BY <2>5, <2>6, <2>7
  <1>3. CASE (\E k \in Kinds : ResetFilter(k)) \/ ResetFilters \/ CloseTrace
    BY <1>3, DropEnablesNothing, DisableAllEnablesNothing DEF ResetFilter, ResetFilters, CloseTrace
  <1>4. CASE \E incl \in BOOLEAN : ConsumeFilterSettings(incl)
    <2>1. PICK incl \in BOOLEAN : ConsumeFilterSettings(incl)
      BY <1>4
    <2>2. ASSUME NEW l \in Logics
          PROVE  filter'[l].on = filter[l].on
      <3>1. filter[l] \in FilterType
        BY DEF TypeOK
      <3>2. [filter[l] EXCEPT !.inclusive = incl].on = filter[l].on
        BY <3>1 DEF FilterType
      <3>3. filter'[l] = IF "PID" \in filter[l].on THEN [filter[l] EXCEPT !.inclusive = incl]
                                                   ELSE filter[l]
        BY <2>1 DEF ConsumeFilterSettings
      <3> QED
        BY <3>2, <3>3
    <2> QED
      BY <2>2 DEF NothingEnabled
  <1>5. CASE OpenFile \/ UNCHANGED vars
    BY <1>5 DEF OpenFile, vars, NothingEnabled
  <1> QED
    BY <1>1, <1>2, <1>3, <1>4, <1>5 DEF Next

LEMMA NewFilterEnables ==
  ASSUME TypeOK, [Next]_vars, NEW l \in Logics, NewFilter(l)
  PROVE  \E k \in Kinds \ filter[l].on : Enables(l, k)
  <1>1. PICK k \in Kinds \ filter[l].on : filter'[l].on = filter[l].on \cup {k}
    BY DEF NewFilter
  <1>2. ~NothingEnabled
    BY <1>1 DEF NothingEnabled
  <1>3. PICK m \in Logics, j \in Kinds : Enables(m, j)
    BY <1>2, StepEnables
  <1>4. m = l
    <2>1. m # l => filter'[l] = filter[l]
      BY <1>3 DEF Enables
    <2> QED
      BY <1>1, <2>1
  <1>5. j = k
    BY <1>1, <1>3, <1>4 DEF Enables
  <1> QED
    BY <1>3, <1>4, <1>5

(* One more OR filter never hides an event.                                  *)
LEMMA OrFilterAdds ==
  ASSUME TypeOK, [Next]_vars, NewFilter("OR")
  PROVE  SelectedIds \subseteq SelectedIds'
  <1>1. "OR" \in Logics /\ "AND" \in Logics \ {"OR"}
    BY DEF Logics
  <1>2. PICK k \in Kinds \ filter["OR"].on : Enables("OR", k)
    BY <1>1, NewFilterEnables
  <1>3. /\ trace' = trace /\ filter'["AND"] = filter["AND"]
        /\ filter'["OR"].on = filter["OR"].on \cup {k}
        /\ \A j \in Kinds \ {k} : SameCriteria(j, filter["OR"], filter'["OR"])
    BY <1>1, <1>2 DEF Enables
  <1>4. filter["OR"].on \subseteq Kinds
    BY <1>1 DEF TypeOK, FilterType
  <1>5. ASSUME NEW e, Selected(filter, e)
        PROVE  Selected(filter', e)
    <2>1. CASE \E j \in filter["OR"].on : Matches(filter, "OR", j, e)
      <3>1. PICK j \in filter["OR"].on : Matches(filter, "OR", j, e)
        BY <2>1
      <3>2. j \in Kinds \ {k} /\ j \in filter'["OR"].on
        BY <1>3, <1>4
      <3>3. Matches(filter', "OR", j, e)
        BY <1>3, <3>1, <3>2, SameCriteriaMatch
      <3> QED
        BY <3>2, <3>3 DEF Selected
    <2>2. CASE \A j \in filter["AND"].on : Matches(filter, "AND", j, e)
      <3>1. ASSUME NEW j
            PROVE  Matches(filter', "AND", j, e) <=> Matches(filter, "AND", j, e)
        BY <1>3, SameCriteriaMatch DEF SameCriteria
      <3> QED
        BY <1>3, <2>2, <3>1 DEF Selected
    <2> QED
      BY <1>5, <2>1, <2>2 DEF Selected
  <1> QED
    BY <1>3, <1>5 DEF SelectedIds

(* One more AND filter never brings an event back.                           *)
LEMMA AndFilterTakesAway ==
  ASSUME TypeOK, [Next]_vars, NewFilter("AND"),
         ~("PID" \in filter["OR"].on /\ filter["OR"].inclusive)
  PROVE  SelectedIds' \subseteq SelectedIds
  <1>1. "AND" \in Logics /\ "OR" \in Logics \ {"AND"}
    BY DEF Logics
  <1>2. PICK k \in Kinds \ filter["AND"].on : Enables("AND", k)
    BY <1>1, NewFilterEnables
  <1>3. /\ trace' = trace /\ filter'["OR"] = filter["OR"]
        /\ filter'["AND"].on = filter["AND"].on \cup {k}
        /\ \A j \in Kinds \ {k} : SameCriteria(j, filter["AND"], filter'["AND"])
    BY <1>1, <1>2 DEF Enables
  <1>4. filter["AND"].on \subseteq Kinds
    BY <1>1 DEF TypeOK, FilterType
  <1>5. ASSUME NEW e, Selected(filter', e)
        PROVE  Selected(filter, e)
    <2>1. CASE \E j \in filter'["OR"].on : Matches(filter', "OR", j, e)
      <3>1. PICK j \in filter["OR"].on : Matches(filter', "OR", j, e)
        BY <1>3, <2>1
      <3>2. Matches(filter, "OR", j, e)
        BY <1>3, <3>1, SameCriteriaMatch DEF SameCriteria
      <3> QED
        BY <3>1, <3>2 DEF Selected
    <2>2. CASE \A j \in filter'["AND"].on : Matches(filter', "AND", j, e)
      <3>1. ASSUME NEW j \in filter["AND"].on
            PROVE  Matches(filter, "AND", j, e)
        <4>1. j \in Kinds \ {k} /\ j \in filter'["AND"].on
          BY <1>3, <1>4
        <4>2. SameCriteria(j, filter["AND"], filter'["AND"])
          BY <1>3, <4>1
        <4>3. Matches(filter', "AND", j, e)
          BY <2>2, <4>1
        <4>4. j = "PID" => filter["AND"].pids = filter'["AND"].pids
          BY <4>2 DEF SameCriteria
        <4> QED
          BY <4>2, <4>3, <4>4, SameCriteriaMatch
      <3> QED
        BY <3>1 DEF Selected
    <2> QED
      BY <1>5, <2>1, <2>2 DEF Selected
  <1> QED
    BY <1>3, <1>5 DEF SelectedIds

(* Whatever criteria a new filter has, one more OR filter adds events and one  *)
(* more AND filter takes some away.                                          *)
THEOREM NewFiltersAddUp == Spec => FiltersAddUp
  <1>1. ViewInv /\ [Next]_vars
          => [/\ NewFilter("OR") => SelectedIds \subseteq SelectedIds'
              /\ NewFilter("AND") /\ ~("PID" \in filter["OR"].on /\ filter["OR"].inclusive)
                   => SelectedIds' \subseteq SelectedIds]_vars
    BY OrFilterAdds, AndFilterTakesAway DEF ViewInv
  <1> QED
    BY InitViewInv, NextViewInv, <1>1, PTL DEF Spec, FiltersAddUp

(***************************************************************************)
(* The searches.                                                            *)
(***************************************************************************)
InOrder(tr) == \A i, j \in 1 .. Len(tr) : i <= j => tr[i].time <= tr[j].time

IsTrace(tr) == tr \in Seq(TracedEvent) /\ tr # <<>> /\ InOrder(tr)

LEMMA EventTime ==
  ASSUME NEW tr \in Seq(TracedEvent), NEW i \in 1 .. Len(tr)
  PROVE  tr[i].time \in Nat
<1>1. tr[i] \in TracedEvent
  OBVIOUS
<1> QED
  BY <1>1 DEF TracedEvent

(* Neighbours in order are all in order.                                    *)
LEMMA OpenedIsTrace ==
  ASSUME NEW tr \in OpenedTraces
  PROVE  IsTrace(tr)
<1>1. /\ tr \in Seq(TracedEvent) /\ tr # <<>>
      /\ \A i \in 2 .. Len(tr) : tr[i - 1].time <= tr[i].time
  BY OpenedAssumption
<1>2. \A i \in 1 .. Len(tr) : tr[i].time \in Nat
  BY <1>1, EventTime
<1>3. ASSUME NEW i \in 1 .. Len(tr)
      PROVE  \A j \in 1 .. Len(tr) : i <= j => tr[i].time <= tr[j].time
  <2> DEFINE T == {d \in Nat : i + d <= Len(tr) => tr[i].time <= tr[i + d].time}
  <2>1. 0 \in T
    BY <1>2
  <2>2. ASSUME NEW d \in Nat, d \in T
        PROVE  d + 1 \in T
    <3>1. CASE ~(i + (d + 1) <= Len(tr))
      BY <3>1
    <3>2. CASE i + (d + 1) <= Len(tr)
      <4>1. i + d \in 1 .. Len(tr) /\ i + (d + 1) \in 2 .. Len(tr) /\ (i + (d + 1)) - 1 = i + d
        BY <1>1, <3>2
      <4>2. tr[i].time <= tr[i + d].time
        BY <2>2, <4>1
      <4>3. tr[i + d].time <= tr[i + (d + 1)].time
        BY <1>1, <4>1
      <4> QED
        BY <1>2, <4>1, <4>2, <4>3
    <3> QED
      BY <3>1, <3>2
  <2> HIDE DEF T
  <2>3. \A d \in Nat : d \in T
    BY <2>1, <2>2, InductionOnNat
  <2>4. ASSUME NEW j \in 1 .. Len(tr), i <= j
        PROVE  tr[i].time <= tr[j].time
    <3>1. j - i \in Nat /\ i + (j - i) = j
      BY <2>4
    <3>2. j - i \in T
      BY <2>3, <3>1
    <3> QED
      BY <3>1, <3>2 DEF T
  <2> QED
    BY <2>4
<1> QED
  BY <1>1, <1>3 DEF IsTrace, InOrder

(* What binarySearch() computes from the intervals of indices.              *)
SearchIntervals(n) == {q \in [start : 1 .. n, end : 1 .. n] : q.start <= q.end}
Pivot(r) == (r.start + r.end) \div 2
Half(tr, t, r) == IF t < tr[Pivot(r)].time THEN [r EXCEPT !.end = Pivot(r)]
                                           ELSE [r EXCEPT !.start = Pivot(r)]
IsSearch(tr, t, f) ==
  f = [r \in SearchIntervals(Len(tr)) |-> IF Pivot(r) = r.start THEN Pivot(r) ELSE f[Half(tr, t, r)]]

LEMMA PivotInside ==
  ASSUME NEW n \in Nat, NEW r \in SearchIntervals(n)
  PROVE  /\ r.start \in 1 .. n /\ r.end \in 1 .. n /\ r.start <= r.end
         /\ Pivot(r) \in 1 .. n /\ r.start <= Pivot(r) /\ Pivot(r) <= r.end
         /\ Pivot(r) # r.start => Pivot(r) < r.end
         /\ Pivot(r) = r.start => r.end <= r.start + 1
BY DEF SearchIntervals, Pivot

LEMMA HalfInside ==
  ASSUME NEW tr, NEW n \in Nat, NEW t, NEW r \in SearchIntervals(n)
  PROVE  /\ Half(tr, t, r) \in SearchIntervals(n)
         /\ t < tr[Pivot(r)].time =>
              Half(tr, t, r).start = r.start /\ Half(tr, t, r).end = Pivot(r)
         /\ ~(t < tr[Pivot(r)].time) =>
              Half(tr, t, r).start = Pivot(r) /\ Half(tr, t, r).end = r.end
<1> DEFINE p == Pivot(r)
<1>1. r \in [start : 1 .. n, end : 1 .. n] /\ p \in 1 .. n /\ r.start <= p /\ p <= r.end
  BY PivotInside DEF SearchIntervals
<1> HIDE DEF p
<1> QED
  BY <1>1 DEF Half, SearchIntervals, p

LEMMA SearchExists ==
  ASSUME NEW tr, Len(tr) \in Nat \ {0}, NEW t
  PROVE  \E f : IsSearch(tr, t, f)
<1> DEFINE n == Len(tr)
           S == SearchIntervals(n)
           D == {r \in S : Pivot(r) = r.start}
           out == [r \in S |-> Pivot(r)]
           next == [r \in S |-> Half(tr, t, r)]
           m == [r \in S |-> r.end - r.start]
<1>1. n \in Nat /\ 1 \in 1 .. n
  OBVIOUS
<1>2. out \in [S -> 1 .. n] /\ next \in [S -> S] /\ m \in [S -> 0 .. n]
  <2>1. \A r \in S : Pivot(r) \in 1 .. n /\ Half(tr, t, r) \in S /\ r.end - r.start \in 0 .. n
    BY <1>1, PivotInside, HalfInside
  <2> QED
    BY <2>1
<1>3. \A r \in S : r \notin D => m[next[r]] < m[r]
  <2>1. SUFFICES ASSUME NEW r \in S, Pivot(r) # r.start
                 PROVE  Half(tr, t, r).end - Half(tr, t, r).start < r.end - r.start
    BY <1>1, HalfInside
  <2>2. Pivot(r) \in 1 .. n /\ r.start < Pivot(r) /\ Pivot(r) < r.end /\ r.start \in 1 .. n /\ r.end \in 1 .. n
    BY <1>1, <2>1, PivotInside
  <2>3. \/ Half(tr, t, r).start = r.start /\ Half(tr, t, r).end = Pivot(r)
        \/ Half(tr, t, r).start = Pivot(r) /\ Half(tr, t, r).end = r.end
    BY <1>1, HalfInside
  <2> QED
    BY <2>2, <2>3
<1>4. PICK f \in [S -> 1 .. n] : IsTailRecursion(S, D, out, next, f)
  <2> HIDE DEF S, D, out, next, m, n
  <2> QED
    BY <1>1, <1>2, <1>3, TailRecursion
<1>5. f = [r \in S |-> IF Pivot(r) = r.start THEN Pivot(r) ELSE f[Half(tr, t, r)]]
  BY <1>4 DEF IsTailRecursion
<1> QED
  BY <1>5 DEF IsSearch

(* The last event that is not later, or the first of all.                   *)
LEMMA BinarySearch ==
  ASSUME NEW tr, IsTrace(tr), NEW t \in Int, NEW b, b = binarySearch(tr, t, 1, Len(tr))
  PROVE  /\ b \in 1 .. Len(tr)
         /\ b = 1 \/ tr[b].time <= t
         /\ \A i \in 1 .. Len(tr) : b < i => i = Len(tr) \/ t < tr[i].time
<1> DEFINE f == CHOOSE f : IsSearch(tr, t, f)
           n == Len(tr)
           S == SearchIntervals(n)
<1>1. n \in Nat \ {0} /\ (\A i \in 1 .. n : tr[i].time \in Int) /\ InOrder(tr)
  BY EventTime DEF IsTrace
<1>2. IsSearch(tr, t, f)
  BY <1>1, SearchExists
<1>3. b = f[[start |-> 1, end |-> n]]
  BY DEF binarySearch, IsSearch, SearchIntervals, Pivot, Half
<1> HIDE DEF f
<1> DEFINE Found(r) ==
             /\ f[r] \in 1 .. n
             /\ f[r] = r.start \/ tr[f[r]].time <= t
             /\ \A i \in 1 .. n : f[r] < i => r.end <= i \/ t < tr[i].time
           T == {r \in S : Found(r)}
           m == [r \in S |-> r.end - r.start]
<1>4. m \in [S -> Nat]
  BY <1>1, PivotInside
<1>5. ASSUME NEW r \in S, \A q \in S : m[q] < m[r] => q \in T
      PROVE  r \in T
  <2>1. f[r] = IF Pivot(r) = r.start THEN Pivot(r) ELSE f[Half(tr, t, r)]
    BY <1>2 DEF IsSearch
  <2>2. /\ r.start \in 1 .. n /\ r.end \in 1 .. n /\ Pivot(r) \in 1 .. n
        /\ r.start <= Pivot(r) /\ Pivot(r) <= r.end
        /\ Pivot(r) # r.start => Pivot(r) < r.end
        /\ Pivot(r) = r.start => r.end <= r.start + 1
    BY <1>1, PivotInside
  <2>3. CASE Pivot(r) = r.start
    BY <2>1, <2>2, <2>3
  <2>4. CASE Pivot(r) # r.start
    <3> DEFINE h == Half(tr, t, r)
    <3>1. /\ h \in S
          /\ t < tr[Pivot(r)].time => h.start = r.start /\ h.end = Pivot(r)
          /\ ~(t < tr[Pivot(r)].time) => h.start = Pivot(r) /\ h.end = r.end
      BY <1>1, HalfInside
    <3> HIDE DEF h
    <3>2. m[h] < m[r]
      BY <2>2, <2>4, <3>1
    <3>3. Found(h) /\ f[r] = f[h]
      BY <1>5, <2>1, <2>4, <3>1, <3>2 DEF h
    <3>4. \A i \in 1 .. n : Pivot(r) <= i => tr[Pivot(r)].time <= tr[i].time
      BY <1>1, <2>2 DEF InOrder
    <3>5. tr[Pivot(r)].time \in Int
      BY <1>1, <2>2
    <3>6. CASE t < tr[Pivot(r)].time
      <4>1. \A i \in 1 .. n : h.end <= i => t < tr[i].time
        BY <1>1, <3>1, <3>4, <3>5, <3>6
      <4> QED
        BY <3>1, <3>3, <3>6, <4>1
    <3>7. CASE ~(t < tr[Pivot(r)].time)
      BY <3>1, <3>3, <3>5, <3>7
    <3> QED
      BY <3>6, <3>7
  <2> QED
    BY <2>3, <2>4
<1>6. \A r \in S : r \in T
  <2> HIDE DEF T, S, m
  <2> QED
    BY <1>4, <1>5, MeasureInduction
<1>7. [start |-> 1, end |-> n] \in S
  BY <1>1 DEF SearchIntervals
<1>8. Found([start |-> 1, end |-> n])
  BY <1>6, <1>7
<1> QED
  BY <1>1, <1>3, <1>8

(* Max() and Min() of the indices that a search collects.                   *)
LEMMA MaxIndex ==
  ASSUME NEW n \in Nat, NEW S, S \subseteq 1 .. n, S # {}
  PROVE  Max(S) \in S /\ \A i \in S : i <= Max(S)
<1>1. PICK u \in S : \A v \in S : v <= u
  <2>1. S \subseteq Int /\ n \in Int /\ \A x \in S : x <= n
    OBVIOUS
  <2> QED
    BY <2>1, Greatest
<1> QED
  BY <1>1 DEF Max

LEMMA MinIndex ==
  ASSUME NEW n \in Nat, NEW S, S \subseteq 1 .. n, S # {}
  PROVE  Min(S) \in S /\ \A i \in S : Min(S) <= i
<1>1. PICK u \in S : \A v \in S : u <= v
  <2>1. S \subseteq Int /\ 1 \in Int /\ \A x \in S : 1 <= x
    OBVIOUS
  <2> QED
    BY <2>1, Least
<1> QED
  BY <1>1 DEF Min

(* Everything after the index is not earlier; the index is earlier, or the   *)
(* first of all.                                                            *)
LEMMA IndexBefore ==
  ASSUME NEW tr, IsTrace(tr), NEW t \in Int, NEW b, b = findIndexBefore(tr, t)
  PROVE  /\ b \in 1 .. Len(tr)
         /\ b = 1 \/ tr[b].time < t
         /\ \A i \in 1 .. Len(tr) : b < i => t <= tr[i].time
<1> DEFINE n == Len(tr)
           s == binarySearch(tr, t, 1, Len(tr))
           earlier == {i \in 1 .. s : tr[i].time < t}
<1>1. n \in Nat \ {0} /\ (\A i \in 1 .. n : tr[i].time \in Int) /\ InOrder(tr) /\ n \in 1 .. n
  BY EventTime DEF IsTrace
<1>2. /\ s \in 1 .. n
      /\ \A i \in 1 .. n : s < i => i = n \/ t < tr[i].time
  BY BinarySearch
<1>3. CASE t > tr[n].time
  BY <1>1, <1>3 DEF findIndexBefore, EndTime
<1>4. CASE ~(t > tr[n].time)
  <2>1. \A i \in 1 .. n : s < i => t <= tr[i].time
    BY <1>1, <1>2, <1>4
  <2>2. CASE earlier = {}
    <3>1. b = 1
      BY <1>4, <2>2 DEF findIndexBefore, EndTime
    <3>2. \A i \in 1 .. n : i <= s => t <= tr[i].time
      BY <1>1, <1>2, <2>2
    <3> QED
      BY <1>1, <1>2, <2>1, <3>1, <3>2
  <2>3. CASE earlier # {}
    <3>1. b = Max(earlier)
      BY <1>4, <2>3 DEF findIndexBefore, EndTime
    <3>2. earlier \subseteq 1 .. s /\ s \in Nat
      BY <1>2
    <3> HIDE DEF s, earlier
    <3>3. b \in earlier /\ \A i \in earlier : i <= b
      BY <2>3, <3>1, <3>2, MaxIndex
    <3>4. b \in 1 .. s /\ tr[b].time < t
      BY <3>3 DEF earlier
    <3>5. \A i \in 1 .. n : b < i /\ i <= s => t <= tr[i].time
      BY <1>1, <1>2, <3>3, <3>4 DEF earlier
    <3> QED
      BY <1>1, <1>2, <2>1, <3>4, <3>5
  <2> QED
    BY <2>2, <2>3
<1> QED
  BY <1>3, <1>4

(* Everything before the index is not later, and the index and everything     *)
(* after it are, if the time is before the end of the trace.                *)
LEMMA IndexAfter ==
  ASSUME NEW tr, IsTrace(tr), NEW t \in Int, t < EndTime(tr), NEW b, b = findIndexAfter(tr, t)
  PROVE  /\ b \in 1 .. Len(tr)
         /\ \A i \in 1 .. Len(tr) : IF b <= i THEN t < tr[i].time ELSE tr[i].time <= t
<1> DEFINE n == Len(tr)
           s == binarySearch(tr, t, 1, Len(tr))
           later == {i \in s .. n : tr[i].time > t}
<1>1. n \in Nat \ {0} /\ (\A i \in 1 .. n : tr[i].time \in Int) /\ InOrder(tr) /\ n \in 1 .. n /\ 1 \in 1 .. n
  BY EventTime DEF IsTrace
<1>2. s \in 1 .. n /\ (s = 1 \/ tr[s].time <= t)
  BY BinarySearch
<1>3. t < tr[n].time
  BY DEF EndTime
<1>4. n \in later
  BY <1>1, <1>2, <1>3
<1>5. CASE t < tr[1].time
  <2>1. b = 1
    BY <1>1, <1>3, <1>4, <1>5 DEF findIndexAfter, EndTime, StartTime
  <2>2. \A i \in 1 .. n : tr[1].time <= tr[i].time
    BY <1>1 DEF InOrder
  <2> QED
    BY <1>1, <1>5, <2>1, <2>2
<1>6. CASE ~(t < tr[1].time)
  <2>1. b = Min(later)
    BY <1>1, <1>3, <1>4, <1>6 DEF findIndexAfter, EndTime, StartTime
  <2>2. later \subseteq 1 .. n /\ later # {}
    BY <1>1, <1>2, <1>4
  <2> HIDE DEF s, later
  <2>3. b \in later /\ \A i \in later : b <= i
    BY <1>1, <2>1, <2>2, MinIndex
  <2>4. b \in 1 .. n /\ s <= b /\ t < tr[b].time
    BY <1>2, <2>3 DEF later
  <2>5. ASSUME NEW i \in 1 .. n, b <= i
        PROVE  t < tr[i].time
    <3>1. tr[b].time <= tr[i].time
      BY <1>1, <2>4, <2>5 DEF InOrder
    <3> QED
      BY <1>1, <2>4, <3>1
  <2>6. ASSUME NEW i \in 1 .. n, ~(b <= i)
        PROVE  tr[i].time <= t
    <3>1. CASE s <= i
      BY <1>1, <1>2, <2>3, <2>6, <3>1 DEF later
    <3>2. CASE ~(s <= i)
      <4>1. tr[i].time <= tr[s].time /\ s # 1
        BY <1>1, <1>2, <3>2 DEF InOrder
      <4> QED
        BY <1>1, <1>2, <4>1
    <3> QED
      BY <3>1, <3>2
  <2> QED
    BY <2>4, <2>5, <2>6
<1> QED
  BY <1>5, <1>6

LEMMA IndexAfterInside ==
  ASSUME NEW tr, IsTrace(tr), NEW t \in Int
  PROVE  findIndexAfter(tr, t) \in 1 .. Len(tr)
<1>1. /\ Len(tr) \in Nat \ {0} /\ tr[Len(tr)].time \in Int
      /\ Len(tr) \in 1 .. Len(tr) /\ 1 \in 1 .. Len(tr)
  BY EventTime DEF IsTrace
<1>2. CASE t < EndTime(tr)
  BY <1>2, IndexAfter
<1>3. CASE ~(t < EndTime(tr))
  <2> DEFINE s == binarySearch(tr, t, 1, Len(tr))
             later == {i \in s .. Len(tr) : tr[i].time > t}
  <2>1. s \in 1 .. Len(tr)
    BY BinarySearch
  <2>2. \A i \in 1 .. Len(tr) : tr[i].time \in Int /\ tr[i].time <= tr[Len(tr)].time
    BY <1>1, EventTime DEF IsTrace, InOrder
  <2>3. later = {}
    BY <1>1, <1>3, <2>1, <2>2 DEF EndTime
  <2> QED
    BY <1>1, <2>3 DEF findIndexAfter
<1> QED
  BY <1>2, <1>3

(* The greatest and the least index in a set, if there is one.              *)
LEMMA LatestIndex ==
  ASSUME NEW n \in Nat, NEW S, S \subseteq 1 .. n, NEW k \in Latest(S)
  PROVE  k \in S /\ \A i \in S : i <= k
BY MaxIndex DEF Latest

LEMMA EarliestIndex ==
  ASSUME NEW n \in Nat, NEW S, S \subseteq 1 .. n, NEW k \in Earliest(S)
  PROVE  k \in S /\ \A i \in S : k <= i
BY MinIndex DEF Earliest

LEMMA PreviousSched ==
  ASSUME NEW tr, IsTrace(tr), NEW t \in Int, NEW pid, NEW k \in findPreviousSchedEvent(tr, t, pid)
  PROVE  /\ k \in 1 .. Len(tr) /\ tr[k].type = "switch" /\ tr[k].target = pid
         /\ k = 1 \/ tr[k].time < t
         /\ \A i \in 1 .. Len(tr) : k < i /\ tr[i].type = "switch" /\ tr[i].target = pid
                                      => t <= tr[i].time
<1> DEFINE b == findIndexBefore(tr, t)
           S == {i \in 1 .. b : tr[i].type = "switch" /\ tr[i].target = pid}
<1>1. Len(tr) \in Nat /\ (\A i \in 1 .. Len(tr) : tr[i].time \in Int) /\ InOrder(tr)
  BY EventTime DEF IsTrace
<1>2. /\ b \in 1 .. Len(tr)
      /\ b = 1 \/ tr[b].time < t
      /\ \A i \in 1 .. Len(tr) : b < i => t <= tr[i].time
  BY IndexBefore
<1>3. k \in Latest(S)
  BY DEF findPreviousSchedEvent
<1> HIDE DEF b
<1>4. S \subseteq 1 .. b /\ b \in Nat
  BY <1>2
<1>5. k \in S /\ \A i \in S : i <= k
  <2> HIDE DEF S
  <2> QED
    BY <1>3, <1>4, LatestIndex
<1>6. k \in 1 .. b /\ k \in 1 .. Len(tr) /\ tr[k].type = "switch" /\ tr[k].target = pid
  BY <1>2, <1>5
<1>7. k = 1 \/ tr[k].time < t
  <2>1. tr[k].time <= tr[b].time
    BY <1>1, <1>2, <1>6 DEF InOrder
  <2> QED
    BY <1>1, <1>2, <1>6, <2>1
<1>8. ASSUME NEW i \in 1 .. Len(tr), k < i, tr[i].type = "switch", tr[i].target = pid
      PROVE  t <= tr[i].time
  <2>1. i \notin S
    BY <1>5, <1>6, <1>8
  <2>2. b < i
    BY <1>2, <1>8, <2>1
  <2> QED
    BY <1>2, <2>2
<1> QED
  BY <1>6, <1>7, <1>8

LEMMA PreviousWak ==
  ASSUME NEW tr, NEW start \in Nat, NEW pid, NEW wanted,
         NEW k \in findPreviousWakEvent(tr, start, pid, wanted)
  PROVE  /\ k \in 1 .. start /\ tr[k].type = wanted /\ tr[k].target = pid
         /\ \A i \in 1 .. start : tr[i].type = wanted /\ tr[i].target = pid => i <= k
<1> DEFINE S == {i \in 1 .. start : tr[i].type = wanted /\ tr[i].target = pid}
<1>1. S \subseteq 1 .. start /\ k \in Latest(S)
  BY DEF findPreviousWakEvent
<1>2. k \in S /\ \A i \in S : i <= k
  <2> HIDE DEF S
  <2> QED
    BY <1>1, LatestIndex
<1> QED
  BY <1>2

LEMMA NextSleep ==
  ASSUME NEW tr, IsTrace(tr), NEW t \in Int, t < EndTime(tr), NEW pid,
         NEW k \in findNextSchedSleepEvent(tr, t, pid)
  PROVE  /\ k \in 1 .. Len(tr) /\ t < tr[k].time
         /\ \A i \in 1 .. Len(tr) : tr[i].type = "switch" /\ tr[i].pid = pid /\ tr[i].sleeps
                                      => k <= i \/ tr[i].time <= t
<1> DEFINE b == findIndexAfter(tr, t)
           S == {i \in b .. Len(tr) : tr[i].type = "switch" /\ tr[i].pid = pid /\ tr[i].sleeps}
<1>1. Len(tr) \in Nat
  BY DEF IsTrace
<1>2. /\ b \in 1 .. Len(tr)
      /\ \A i \in 1 .. Len(tr) : IF b <= i THEN t < tr[i].time ELSE tr[i].time <= t
  BY IndexAfter
<1>3. k \in Earliest(S)
  BY DEF findNextSchedSleepEvent
<1> HIDE DEF b
<1>4. S \subseteq 1 .. Len(tr)
  BY <1>2
<1>5. k \in S /\ \A i \in S : k <= i
  <2> HIDE DEF S
  <2> QED
    BY <1>1, <1>3, <1>4, EarliestIndex
<1> QED
  BY <1>2, <1>5


(***************************************************************************)
(* What every state of the cursors keeps.                                   *)
(***************************************************************************)
CursorInv ==
  /\ events # <<>> => events \in OpenedTraces
  /\ time \in [Cursor -> Nat]
  /\ active \in Cursor

LEMMA ConvertedTime ==
  ASSUME NEW t \in Nat
  PROVE  Converted(t) \in Nat /\ Converted(t) <= t /\ t <= Converted(t) + 1
                              /\ (t \notin Inexact => Converted(t) = t)
BY UserTimesAssumption DEF Converted

LEMMA OtherCursor ==
  ASSUME NEW c \in Cursor
  PROVE  Other(c) \in Cursor /\ Other(c) # c
BY DEF Cursor, Other

(* A slot moves one cursor, or both.                                        *)
LEMMA MoveOne ==
  ASSUME NEW c \in Cursor, NEW t \in Nat, time \in [Cursor -> Nat], MoveTo(One(c, t))
  PROVE  time' \in [Cursor -> Nat] /\ time'[c] = t /\ UNCHANGED <<events, active>>
<1>1. time' = Moved(One(c, t), time) /\ UNCHANGED <<events, active>>
  BY DEF MoveTo, SetPositions
<1> QED
  BY <1>1 DEF Moved, One

LEMMA MoveBoth ==
  ASSUME NEW t \in Nat, NEW u \in Nat, active \in Cursor, time \in [Cursor -> Nat],
         MoveTo(Both(t, u))
  PROVE  /\ time' \in [Cursor -> Nat] /\ time'[active] = t /\ time'[Other(active)] = u
         /\ UNCHANGED <<events, active>>
<1>1. time' = Moved(Both(t, u), time) /\ UNCHANGED <<events, active>>
  BY DEF MoveTo, SetPositions
<1> QED
  BY <1>1, OtherCursor DEF Moved, Both

LEMMA OpenTrace ==
  ASSUME CursorInv, events # <<>>
  PROVE  /\ IsTrace(events) /\ Len(events) \in Nat \ {0}
         /\ \A i \in 1 .. Len(events) : events[i].time \in Nat
<1>1. IsTrace(events)
  BY OpenedIsTrace DEF CursorInv
<1> QED
  BY <1>1, EventTime DEF IsTrace


LEMMA CursorInitInv == CursorInit => CursorInv
BY DEF CursorInit, CursorInv, Cursor

(* What the indices of the searches have in common.                         *)
LEMMA WakeupSearch ==
  ASSUME CursorInv, NEW pid, NEW wanted, FindWakeup(pid, wanted)
  PROVE  \E sched \in findPreviousSchedEvent(events, Converted(time[active]), pid) :
         \E wakeup \in findPreviousWakEvent(events, sched, pid, wanted) :
            /\ sched \in 1 .. Len(events) /\ wakeup \in 1 .. Len(events)
            /\ time' \in [Cursor -> Nat]
            /\ MoveTo(Both(events[wakeup].time, events[sched].time))
            /\ time'[active] = events[wakeup].time /\ time'[Other(active)] = events[sched].time
            /\ UNCHANGED <<events, active>>
<1>1. events # <<>>
  BY DEF FindWakeup
<1>2. /\ IsTrace(events) /\ Len(events) \in Nat \ {0}
      /\ \A i \in 1 .. Len(events) : events[i].time \in Nat
  BY <1>1, OpenTrace
<1>3. PICK sched \in findPreviousSchedEvent(events, Converted(time[active]), pid) :
             \E wakeup \in findPreviousWakEvent(events, sched, pid, wanted) :
               MoveTo(Both(events[wakeup].time, events[sched].time))
  BY DEF FindWakeup
<1> PICK wakeup \in findPreviousWakEvent(events, sched, pid, wanted) :
           MoveTo(Both(events[wakeup].time, events[sched].time))
  BY <1>3
<1>4. Converted(time[active]) \in Int
  BY ConvertedTime DEF CursorInv
<1>5. sched \in 1 .. Len(events)
  BY <1>2, <1>4, PreviousSched
<1>6. wakeup \in 1 .. Len(events)
  <2>1. sched \in Nat /\ sched <= Len(events)
    BY <1>2, <1>5
  <2>2. wakeup \in 1 .. sched
    BY <2>1, PreviousWak
  <2> QED
    BY <1>2, <2>1, <2>2
<1>7. /\ time' \in [Cursor -> Nat]
      /\ time'[active] = events[wakeup].time /\ time'[Other(active)] = events[sched].time
      /\ UNCHANGED <<events, active>>
  BY <1>2, <1>3, <1>5, <1>6, MoveBoth DEF CursorInv
<1> QED
  BY <1>3, <1>5, <1>6, <1>7

LEMMA WakingSearch ==
  ASSUME CursorInv, NEW w, FindWaking(w)
  PROVE  /\ w \in 1 .. Len(events) /\ events[w].type = "wakeup"
         /\ \E i \in findWakingEvent(events, w) :
              /\ i \in 1 .. Len(events)
              /\ i \in 1 .. findIndexBefore(events, events[w].time)
              /\ MoveTo(One(active, events[i].time))
              /\ time' \in [Cursor -> Nat] /\ time'[active] = events[i].time
              /\ UNCHANGED <<events, active>>
<1>1. w \in DOMAIN events /\ events[w].type = "wakeup"
  BY DEF FindWaking
<1>2. events # <<>>
  BY <1>1
<1>3. /\ IsTrace(events) /\ Len(events) \in Nat \ {0}
      /\ \A i \in 1 .. Len(events) : events[i].time \in Nat
  BY <1>2, OpenTrace
<1>4. w \in 1 .. Len(events)
  BY <1>1, <1>3 DEF IsTrace
<1>5. PICK i \in findWakingEvent(events, w) : MoveTo(One(active, events[i].time))
  BY DEF FindWaking
<1> DEFINE b == findIndexBefore(events, events[w].time)
<1>6. b \in 1 .. Len(events)
  <2>1. events[w].time \in Int
    BY <1>3, <1>4
  <2> QED
    BY <1>3, <2>1, IndexBefore
<1>7. i \in 1 .. b
  <2>1. b \in Nat /\ i \in findPreviousWakEvent(events, b, events[w].target, "waking")
    BY <1>3, <1>5, <1>6 DEF findWakingEvent
  <2> HIDE DEF b
  <2> QED
    BY <2>1, PreviousWak
<1>8. i \in 1 .. Len(events)
  BY <1>3, <1>6, <1>7
<1>9. /\ time' \in [Cursor -> Nat] /\ time'[active] = events[i].time
      /\ UNCHANGED <<events, active>>
  BY <1>3, <1>5, <1>8, MoveOne DEF CursorInv
<1> QED
  BY <1>1, <1>4, <1>5, <1>7, <1>8, <1>9

LEMMA SleepSearch ==
  ASSUME CursorInv, NEW pid, FindSleep(pid)
  PROVE  /\ events # <<>>
         /\ \E i \in findNextSchedSleepEvent(events, Converted(time[active]), pid) :
              /\ i \in 1 .. Len(events)
              /\ MoveTo(One(active, events[i].time))
              /\ time' \in [Cursor -> Nat] /\ time'[active] = events[i].time
              /\ UNCHANGED <<events, active>>
<1>1. events # <<>>
  BY DEF FindSleep
<1>2. /\ IsTrace(events) /\ Len(events) \in Nat \ {0}
      /\ \A i \in 1 .. Len(events) : events[i].time \in Nat
  BY <1>1, OpenTrace
<1>3. PICK i \in findNextSchedSleepEvent(events, Converted(time[active]), pid) :
             MoveTo(One(active, events[i].time))
  BY DEF FindSleep
<1> DEFINE b == findIndexAfter(events, Converted(time[active]))
<1>4. b \in 1 .. Len(events)
  <2>1. Converted(time[active]) \in Int
    BY ConvertedTime DEF CursorInv
  <2> QED
    BY <1>2, <2>1, IndexAfterInside
<1>5. i \in b .. Len(events)
  <2> DEFINE S == {k \in b .. Len(events) :
                     events[k].type = "switch" /\ events[k].pid = pid /\ events[k].sleeps}
  <2>1. i \in Earliest(S)
    BY <1>3 DEF findNextSchedSleepEvent
  <2>2. S \subseteq 1 .. Len(events) /\ Len(events) \in Nat
    BY <1>2, <1>4
  <2>3. i \in S
    <3> HIDE DEF S, b
    <3> QED
      BY <2>1, <2>2, EarliestIndex
  <2> QED
    BY <2>3
<1>6. i \in 1 .. Len(events)
  BY <1>2, <1>4, <1>5
<1>7. /\ time' \in [Cursor -> Nat] /\ time'[active] = events[i].time
      /\ UNCHANGED <<events, active>>
  BY <1>2, <1>3, <1>6, MoveOne DEF CursorInv
<1> QED
  BY <1>1, <1>3, <1>6, <1>7


LEMMA CursorStep == CursorInv /\ [CursorNext]_cursorVars => CursorInv'
<1> SUFFICES ASSUME CursorInv, [CursorNext]_cursorVars PROVE CursorInv'
  OBVIOUS
<1> DEFINE Kept == time' \in [Cursor -> Nat] /\ UNCHANGED <<events, active>>
<1>0. Kept => CursorInv'
  BY DEF CursorInv
<1>1. CASE \E tr \in OpenedTraces : SetupCursors(tr)
  <2>1. PICK tr \in OpenedTraces : SetupCursors(tr)
    BY <1>1
  <2>2. IsTrace(tr) /\ Len(tr) \in Nat \ {0}
    BY OpenedIsTrace DEF IsTrace
  <2> DEFINE s == StartTime(tr)
             e == EndTime(tr)
  <2>3. s \in Nat /\ e \in Nat /\ s <= e
    <3>1. 1 \in 1 .. Len(tr) /\ Len(tr) \in 1 .. Len(tr)
      BY <2>2
    <3> QED
      BY <2>2, <3>1, EventTime DEF StartTime, EndTime, IsTrace, InOrder
  <2> DEFINE middle == (s + e) \div 2
             t == [c \in Cursor |-> IF c = "red" THEN middle ELSE middle + (e - s) \div 10]
  <2>4. time' = t /\ events' = tr /\ active' = active
    BY <2>1 DEF SetupCursors, SetPositions
  <2> HIDE DEF s, e
  <2>5. middle \in Nat /\ (e - s) \div 10 \in Nat
    BY <2>3
  <2>6. t \in [Cursor -> Nat]
    BY <2>5
  <2> QED
    BY <2>4, <2>6 DEF CursorInv
<1>2. CASE Close
  BY <1>2 DEF Close, CursorInv
<1>3. CASE ConsumeSettings
  <2>1. time' = Moved(time, time) /\ UNCHANGED <<events, active>>
    BY <1>3 DEF ConsumeSettings, MoveTo, SetPositions
  <2>2. time' \in [Cursor -> Nat]
    BY <2>1 DEF Moved, CursorInv
  <2> QED
    BY <1>0, <2>1, <2>2
<1>4. CASE \E t \in UserTimes : PlotDoubleClicked(t)
  <2>1. PICK t \in UserTimes : PlotDoubleClicked(t)
    BY <1>4
  <2>2. time' = [time EXCEPT ![active] = t] /\ UNCHANGED <<events, active>> /\ t \in Nat
    BY <2>1, UserTimesAssumption DEF PlotDoubleClicked, SetPositions
  <2>3. time' \in [Cursor -> Nat]
    BY <2>2 DEF CursorInv
  <2> QED
    BY <1>0, <2>2, <2>3
<1>5. CASE \E t \in UserTimes, c \in Cursor : InfoValueChanged(c, t)
  <2>1. PICK t \in UserTimes, c \in Cursor : MoveTo(One(c, t))
    BY <1>5 DEF InfoValueChanged
  <2>2. t \in Nat /\ time \in [Cursor -> Nat]
    BY UserTimesAssumption DEF CursorInv
  <2> QED
    BY <1>0, <2>1, <2>2, MoveOne
<1>6. CASE \E i \in DOMAIN events, c \in Cursor : MoveCursor(c, i)
  <2>1. PICK i \in DOMAIN events, c \in Cursor : MoveTo(One(c, events[i].time))
    BY <1>6 DEF MoveCursor
  <2>2. events[i].time \in Nat /\ time \in [Cursor -> Nat]
    BY <2>1, OpenTrace DEF CursorInv, IsTrace
  <2> QED
    BY <1>0, <2>1, <2>2, MoveOne
<1>7. CASE \E i \in DOMAIN events : FindWaking(i)
  BY <1>0, <1>7, WakingSearch
<1>8. CASE \E i, j \in DOMAIN events : ShowLatency(i, j)
  <2>1. PICK i \in DOMAIN events, j \in DOMAIN events : MoveTo(Both(events[i].time, events[j].time))
    BY <1>8 DEF ShowLatency
  <2>2. events[i].time \in Nat /\ events[j].time \in Nat /\ active \in Cursor /\ time \in [Cursor -> Nat]
    BY <2>1, OpenTrace DEF CursorInv, IsTrace
  <2> QED
    BY <1>0, <2>1, <2>2, MoveBoth
<1>9. CASE \E pid \in Tasks : \E wanted \in {"wakeup", "waking"} : FindWakeup(pid, wanted)
  BY <1>0, <1>9, WakeupSearch
<1>10. CASE \E pid \in Tasks : FindSleep(pid)
  BY <1>0, <1>10, SleepSearch
<1>11. CASE ShowStatsTimeLimited
  BY <1>11 DEF ShowStatsTimeLimited, CursorInv
<1>12. CASE ChooseCursor
  BY <1>12, OtherCursor DEF ChooseCursor, CursorInv
<1>13. CASE UNCHANGED cursorVars
  BY <1>13 DEF cursorVars, CursorInv
<1> QED
  BY <1>1, <1>2, <1>3, <1>4, <1>5, <1>6, <1>7, <1>8, <1>9, <1>10, <1>11, <1>12, <1>13 DEF CursorNext

(* The searches of the analyzer and the slots that use them: the cursors go  *)
(* to neighbouring events (binarySearch(), findIndexBefore(),                *)
(* findIndexAfter(), showWakeupOrWaking(), showWaking(),                    *)
(* findSleepTriggered()), for any traces and times.                         *)
THEOREM NeighboursAreFound == CursorSpec => SearchesFindNeighbours
<1> DEFINE here == time[active]
           found == time'[active]
           scheduled == time'[Other(active)]
<1>1. ASSUME CursorInv, NEW pid \in Tasks, NEW wanted \in {"wakeup", "waking"}, FindWakeup(pid, wanted)
      PROVE  /\ found <= scheduled /\ scheduled < here
             /\ NoneBetween(TimesOf("switch", pid), scheduled, Converted(here))
             /\ NoneBetween(TimesOf(wanted, pid), found, scheduled)
  <2>1. events # <<>>
    BY <1>1 DEF FindWakeup
  <2>2. /\ IsTrace(events) /\ Len(events) \in Nat \ {0}
        /\ \A i \in 1 .. Len(events) : events[i].time \in Nat
    BY <1>1, <2>1, OpenTrace
  <2> DEFINE t == Converted(here)
  <2>3. here \in Nat /\ t \in Nat /\ t <= here
    BY <1>1, ConvertedTime DEF CursorInv
  <2> HIDE DEF t
  <2>4. PICK sched \in findPreviousSchedEvent(events, t, pid) :
          \E wakeup \in findPreviousWakEvent(events, sched, pid, wanted) :
            /\ sched \in 1 .. Len(events) /\ wakeup \in 1 .. Len(events)
            /\ found = events[wakeup].time /\ scheduled = events[sched].time
    BY <1>1, WakeupSearch DEF t
  <2> PICK wakeup \in findPreviousWakEvent(events, sched, pid, wanted) :
            /\ sched \in 1 .. Len(events) /\ wakeup \in 1 .. Len(events)
            /\ found = events[wakeup].time /\ scheduled = events[sched].time
    BY <2>4
  <2>5. /\ events[sched].type = "switch" /\ events[sched].target = pid
        /\ sched = 1 \/ events[sched].time < t
        /\ \A i \in 1 .. Len(events) : sched < i /\ events[i].type = "switch" /\ events[i].target = pid
                                         => t <= events[i].time
    BY <2>2, <2>3, PreviousSched
  <2>6. /\ wakeup \in 1 .. sched /\ events[wakeup].type = wanted
        /\ \A i \in 1 .. sched : events[i].type = wanted /\ events[i].target = pid => i <= wakeup
    <3>1. sched \in Nat
      BY <2>2
    <3> QED
      BY <3>1, PreviousWak
  <2>7. DOMAIN events = 1 .. Len(events) /\ InOrder(events)
    BY <2>2 DEF IsTrace
  <2>8. /\ sched \in 1 .. Len(events) /\ wakeup \in 1 .. Len(events)
         /\ found = events[wakeup].time /\ scheduled = events[sched].time
    OBVIOUS
  <2>9. events[wakeup].time <= events[sched].time
    <3>1. wakeup <= sched
      BY <2>6, <2>8
    <3> QED
      BY <2>7, <2>8, <3>1 DEF InOrder
  <2> HIDE DEF here, found, scheduled
  <2>10. found <= scheduled
    BY ONLY <2>8, <2>9
  <2>11. scheduled < here
    <3>1. wakeup # sched
      BY <2>5, <2>6
    <3>2. sched # 1
      BY <2>2, <2>6, <3>1
    <3> QED
      BY <2>2, <2>3, <2>5, <3>2
  <2>12. ASSUME NEW k \in 1 .. Len(events), events[k].type = "switch", events[k].target = pid
         PROVE  events[k].time <= scheduled \/ events[k].time >= t
    <3>1. CASE sched < k
      BY <2>2, <2>3, <2>5, <2>12, <3>1
    <3>2. CASE ~(sched < k)
      <4>1. k <= sched
        BY <2>2, <3>2
      <4> QED
        BY <2>7, <4>1 DEF InOrder
    <3> QED
      BY <3>1, <3>2
  <2>13. ASSUME NEW k \in 1 .. Len(events), events[k].type = wanted, events[k].target = pid
         PROVE  events[k].time <= found \/ events[k].time >= scheduled
    <3>1. CASE sched <= k
      BY <2>2, <2>7, <3>1 DEF InOrder
    <3>2. CASE ~(sched <= k)
      <4>1. k \in 1 .. sched
        BY <2>2, <3>2
      <4>2. k <= wakeup
        BY <2>6, <2>13, <4>1
      <4> QED
        BY <2>7, <4>2 DEF InOrder
    <3> QED
      BY <3>1, <3>2
  <2>14. NoneBetween(TimesOf("switch", pid), scheduled, t)
    BY <2>7, <2>12 DEF NoneBetween, TimesOf
  <2>15. NoneBetween(TimesOf(wanted, pid), found, scheduled)
    BY <2>7, <2>13 DEF NoneBetween, TimesOf
  <2> QED
    BY <2>10, <2>11, <2>14, <2>15 DEF t
<1>2. ASSUME CursorInv, NEW w \in DOMAIN events, FindWaking(w)
      PROVE  /\ found <= events[w].time
             /\ NoneBetween(TimesOf("waking", events[w].target), found, events[w].time)
  <2>1. PICK i \in findWakingEvent(events, w) :
              /\ w \in 1 .. Len(events)
              /\ i \in 1 .. Len(events)
              /\ i \in 1 .. findIndexBefore(events, events[w].time)
              /\ found = events[i].time
    BY <1>2, WakingSearch
  <2>2. events # <<>>
    BY <1>2
  <2>3. /\ IsTrace(events) /\ Len(events) \in Nat \ {0}
        /\ \A k \in 1 .. Len(events) : events[k].time \in Nat
    BY <1>2, <2>2, OpenTrace
  <2>4. DOMAIN events = 1 .. Len(events) /\ InOrder(events)
    BY <2>3 DEF IsTrace
  <2> DEFINE t == events[w].time
             b == findIndexBefore(events, t)
  <2>5. t \in Nat /\ t \in Int
    BY <2>1, <2>3
  <2> HIDE DEF t
  <2>6. /\ b \in 1 .. Len(events)
        /\ b = 1 \/ events[b].time < t
        /\ \A k \in 1 .. Len(events) : b < k => t <= events[k].time
    BY <2>3, <2>5, IndexBefore
  <2>7. \A k \in 1 .. b : events[k].type = "waking" /\ events[k].target = events[w].target => k <= i
    <3>1. i \in findPreviousWakEvent(events, b, events[w].target, "waking") /\ b \in Nat
      BY <2>1, <2>3, <2>6 DEF findWakingEvent, t
    <3> HIDE DEF b
    <3> QED
      BY <3>1, PreviousWak
  <2>8. i \in 1 .. b
    BY <2>1 DEF t
  <2> HIDE DEF b, found
  <2>9. found <= t
    <3>1. events[i].time <= events[b].time
      BY <2>1, <2>3, <2>4, <2>6, <2>8 DEF InOrder
    <3>2. events[1].time <= t
      BY <2>1, <2>3, <2>4 DEF InOrder, t
    <3>3. b = 1 => i = 1
      BY <2>8
    <3>4. events[i].time <= t
      <4>1. events[i].time \in Nat /\ events[b].time \in Nat
        BY <2>1, <2>3, <2>6
      <4> QED
        BY <2>6, <2>5, <3>1, <3>2, <3>3, <4>1
    <3> QED
      BY <2>1, <3>4 DEF found
  <2>10. ASSUME NEW k \in 1 .. Len(events), events[k].type = "waking", events[k].target = events[w].target
        PROVE  events[k].time <= found \/ events[k].time >= t
    <3>1. CASE b < k
      BY <2>3, <2>6, <3>1
    <3>2. CASE ~(b < k)
      <4>1. k \in 1 .. b
        BY <2>3, <2>6, <3>2
      <4>2. k <= i
        BY <2>7, <2>10, <4>1
      <4> QED
        BY <2>1, <2>4, <4>2 DEF InOrder
    <3> QED
      BY <3>1, <3>2
  <2>11. NoneBetween(TimesOf("waking", events[w].target), found, t)
    BY <2>4, <2>10 DEF NoneBetween, TimesOf
  <2> QED
    BY <2>9, <2>11 DEF found, t
<1>3. ASSUME CursorInv, NEW pid \in Tasks, FindSleep(pid), here \notin Inexact, here < EndTime(events)
      PROVE  here < found /\ NoneBetween(SleepTimes(pid), here, found)
  <2>1. here \in Nat /\ Converted(here) = here
    BY <1>3, ConvertedTime DEF CursorInv
  <2>2. events # <<>>
    BY <1>3 DEF FindSleep
  <2>3. /\ IsTrace(events) /\ Len(events) \in Nat \ {0}
        /\ \A k \in 1 .. Len(events) : events[k].time \in Nat
    BY <1>3, <2>2, OpenTrace
  <2>4. PICK i \in findNextSchedSleepEvent(events, here, pid) :
              i \in 1 .. Len(events) /\ found = events[i].time
    BY <1>3, <2>1, SleepSearch
  <2>5. DOMAIN events = 1 .. Len(events) /\ InOrder(events)
    BY <2>3 DEF IsTrace
  <2> HIDE DEF here, found
  <2>6. /\ here < events[i].time
        /\ \A k \in 1 .. Len(events) : events[k].type = "switch" /\ events[k].pid = pid /\ events[k].sleeps
                                         => i <= k \/ events[k].time <= here
    BY <1>3, <2>1, <2>3, NextSleep
  <2>7. ASSUME NEW k \in 1 .. Len(events), events[k].type = "switch", events[k].pid = pid, events[k].sleeps
        PROVE  events[k].time <= here \/ events[k].time >= found
    <3>1. CASE i <= k
      BY <2>3, <2>4, <2>5, <3>1 DEF InOrder
    <3> QED
      BY <2>6, <2>7, <3>1
  <2>8. NoneBetween(SleepTimes(pid), here, found)
    BY <2>5, <2>7 DEF NoneBetween, SleepTimes
  <2> QED
    BY <2>4, <2>6, <2>8
<1> DEFINE Found ==
     /\ \A pid \in Tasks, wanted \in {"wakeup", "waking"} :
           FindWakeup(pid, wanted) =>
              /\ found <= scheduled /\ scheduled < here
              /\ NoneBetween(TimesOf("switch", pid), scheduled, Converted(here))
              /\ NoneBetween(TimesOf(wanted, pid), found, scheduled)
     /\ \A i \in DOMAIN events :
           FindWaking(i) =>
              /\ found <= events[i].time
              /\ NoneBetween(TimesOf("waking", events[i].target), found, events[i].time)
     /\ \A pid \in Tasks :
           FindSleep(pid) /\ here \notin Inexact /\ here < EndTime(events) =>
              /\ here < found
              /\ NoneBetween(SleepTimes(pid), here, found)
<1>4. CursorInv => Found
  <2> HIDE DEF here, found, scheduled
  <2> QED
    BY <1>1, <1>2, <1>3
<1>5. CursorInv /\ [CursorNext]_cursorVars => [Found]_cursorVars
  BY <1>4
<1>6. CursorSpec => [][Found]_cursorVars
  <2> HIDE DEF Found
  <2> QED
    BY <1>5, CursorInitInv, CursorStep, PTL DEF CursorSpec
<1> QED
  BY <1>6 DEF SearchesFindNeighbours

(***************************************************************************)
(* Sums over the parts of a set.                                             *)
(***************************************************************************)
(* The sum of the sizes of sets that have nothing in common.                *)
Parts(A, S) == UNION {A[x] : x \in S}
Apart(A, S) == /\ \A x \in S : IsFiniteSet(A[x])
               /\ \A x, y \in S : x # y => A[x] \cap A[y] = {}
IsSum(f, S, sum) ==
  sum = [s \in SUBSET S |-> IF s = {} THEN 0
                            ELSE LET x == CHOOSE x \in s : TRUE IN f[x] + sum[s \ {x}]]

LEMMA SumDef ==
  ASSUME NEW S, NEW f, DOMAIN f = S
  PROVE  SumFunction(f) = (CHOOSE sum : IsSum(f, S, sum))[S]
BY DEF SumFunction, SumFunctionOnSet, FoldFunctionOnSet, MapThenFoldSet, IsSum

(* A part taken away, as SumFunction() takes it.                             *)
LEMMA OnePartLess ==
  ASSUME NEW S, IsFiniteSet(S), NEW A, Apart(A, S), IsFiniteSet(Parts(A, S \ {CHOOSE x \in S : TRUE})),
         S # {}
  PROVE  LET x == CHOOSE x \in S : TRUE
         IN  /\ x \in S /\ IsFiniteSet(Parts(A, S))
             /\ Cardinality(Parts(A, S)) = Cardinality(A[x]) + Cardinality(Parts(A, S \ {x}))
<1> DEFINE x == CHOOSE x \in S : TRUE
           P == Parts(A, S \ {x})
<1>1. x \in S
  OBVIOUS
<1>2. Parts(A, S) = A[x] \cup P
  BY <1>1 DEF Parts
<1>3. A[x] \cap P = {}
  BY <1>1 DEF Parts, Apart
<1>4. IsFiniteSet(A[x]) /\ IsFiniteSet(P)
  BY <1>1 DEF Apart
<1> HIDE DEF P, x
<1>5. IsFiniteSet(A[x] \cup P) /\ Cardinality(A[x] \cup P) = Cardinality(A[x]) + Cardinality(P)
  <2>1. /\ IsFiniteSet(A[x] \cup P)
        /\ Cardinality(A[x] \cup P) = Cardinality(A[x]) + Cardinality(P) - Cardinality(A[x] \cap P)
    BY <1>4, FS_Union
  <2>2. Cardinality(A[x]) \in Nat /\ Cardinality(P) \in Nat /\ Cardinality({}) = 0
    BY <1>4, FS_CardinalityType, FS_EmptySet
  <2>3. Cardinality(A[x] \cap P) = 0
    BY <1>3, <2>2
  <2> QED BY <2>1, <2>2, <2>3
<1> QED BY <1>1, <1>2, <1>5 DEF x, P

(* Finitely many finite parts make a finite set.                             *)
LEMMA PartsFinite ==
  ASSUME NEW S, IsFiniteSet(S), NEW A, Apart(A, S)
  PROVE  \A s \in SUBSET S : IsFiniteSet(s) /\ Cardinality(s) \in Nat /\ Apart(A, s) /\ IsFiniteSet(Parts(A, s))
<1>1. \A s \in SUBSET S : IsFiniteSet(s) /\ Cardinality(s) \in Nat /\ Apart(A, s)
  BY FS_Subset, FS_CardinalityType DEF Apart
<1> DEFINE T == {s \in SUBSET S : IsFiniteSet(Parts(A, s))}
           m == [s \in SUBSET S |-> Cardinality(s)]
<1>2. m \in [SUBSET S -> Nat]
  BY <1>1
<1>3. ASSUME NEW s \in SUBSET S, \A q \in SUBSET S : m[q] < m[s] => q \in T
      PROVE  s \in T
  <2>1. CASE s = {}
    <3>1. Parts(A, s) = {}
      BY <2>1 DEF Parts
    <3> QED BY <3>1, FS_EmptySet
  <2>2. CASE s # {}
    <3> DEFINE x == CHOOSE x \in s : TRUE
    <3>1. x \in s
      BY <2>2
    <3>2. Cardinality(s \ {x}) = Cardinality(s) - 1
      BY <1>1, <3>1, FS_RemoveElement
    <3>3. s \ {x} \in T
      <4>1. s \ {x} \in SUBSET S /\ m[s \ {x}] < m[s]
        BY <1>1, <3>2
      <4> QED BY <1>3, <4>1
    <3>4. IsFiniteSet(Parts(A, s))
      BY <1>1, <2>2, <3>3, OnePartLess
    <3> QED BY <3>4
  <2> QED BY <2>1, <2>2
<1>4. \A s \in SUBSET S : s \in T
  <2> HIDE DEF T, m
  <2> QED BY <1>2, <1>3, MeasureInduction
<1> QED BY <1>1, <1>4

(* The sum of the sizes of parts that are apart is the size of their union.  *)
LEMMA SumOfParts ==
  ASSUME NEW S, IsFiniteSet(S), NEW A, Apart(A, S),
         NEW f, f = [x \in S |-> Cardinality(A[x])]
  PROVE  IsFiniteSet(Parts(A, S)) /\ SumFunction(f) = Cardinality(Parts(A, S))
<1> DEFINE w == [s \in SUBSET S |-> Cardinality(Parts(A, s))]
<1>1. \A s \in SUBSET S : /\ s = {} => w[s] = 0
                          /\ s # {} => LET x == CHOOSE x \in s : TRUE IN
                                         /\ x \in s /\ s \ {x} \in SUBSET S
                                         /\ Cardinality(s \ {x}) = Cardinality(s) - 1
                                         /\ w[s] = f[x] + w[s \ {x}]
  <2>1. ASSUME NEW s \in SUBSET S, s = {}
        PROVE  w[s] = 0
    <3>1. Parts(A, s) = {}
      BY <2>1 DEF Parts
    <3> QED BY <3>1, FS_EmptySet
  <2>2. ASSUME NEW s \in SUBSET S, s # {}
        PROVE  LET x == CHOOSE x \in s : TRUE
               IN  /\ x \in s /\ s \ {x} \in SUBSET S
                   /\ Cardinality(s \ {x}) = Cardinality(s) - 1
                   /\ w[s] = f[x] + w[s \ {x}]
    <3> DEFINE x == CHOOSE x \in s : TRUE
    <3>1. x \in s /\ s \ {x} \in SUBSET S
      BY <2>2
    <3>2. Cardinality(s \ {x}) = Cardinality(s) - 1
      BY <3>1, PartsFinite, FS_RemoveElement
    <3>3. Cardinality(Parts(A, s)) = Cardinality(A[x]) + Cardinality(Parts(A, s \ {x}))
      BY <2>2, <3>1, PartsFinite, OnePartLess
    <3> HIDE DEF x
    <3>4. w[s] = f[x] + w[s \ {x}]
      BY <3>1, <3>3
    <3> QED BY <3>1, <3>2, <3>4 DEF x
  <2> QED BY <2>1, <2>2
<1> HIDE DEF w
<1>2. IsSum(f, S, w)
  <2> DEFINE v == [s \in SUBSET S |-> IF s = {} THEN 0
                                     ELSE LET x == CHOOSE x \in s : TRUE IN f[x] + w[s \ {x}]]
  <2>1. \A s \in SUBSET S : w[s] = v[s]
    BY <1>1
  <2>2. w = [s \in SUBSET S |-> w[s]]
    BY DEF w
  <2>3. v = [s \in SUBSET S |-> v[s]]
    OBVIOUS
  <2> HIDE DEF v
  <2>4. w = v
    BY <2>1, <2>2, <2>3
  <2> QED BY <2>4 DEF v, IsSum
<1>3. ASSUME NEW sum, IsSum(f, S, sum)
      PROVE  \A s \in SUBSET S : sum[s] = w[s]
  <2> DEFINE T == {s \in SUBSET S : sum[s] = w[s]}
             m == [s \in SUBSET S |-> Cardinality(s)]
  <2>1. m \in [SUBSET S -> Nat]
    BY PartsFinite
  <2>2. ASSUME NEW s \in SUBSET S, \A q \in SUBSET S : m[q] < m[s] => q \in T
        PROVE  s \in T
    <3>1. sum[s] = IF s = {} THEN 0 ELSE LET x == CHOOSE x \in s : TRUE IN f[x] + sum[s \ {x}]
      BY <1>3 DEF IsSum
    <3>2. CASE s = {}
      BY <1>1, <3>1, <3>2
    <3>3. CASE s # {}
      <4> DEFINE x == CHOOSE x \in s : TRUE
      <4>1. /\ x \in s /\ s \ {x} \in SUBSET S
            /\ Cardinality(s \ {x}) = Cardinality(s) - 1
            /\ w[s] = f[x] + w[s \ {x}]
        BY <1>1, <3>3
      <4>2. m[s \ {x}] < m[s]
        BY <2>1, <4>1
      <4>3. sum[s] = f[x] + sum[s \ {x}]
        BY <3>1, <3>3
      <4>4. sum[s \ {x}] = w[s \ {x}]
        BY <2>2, <4>1, <4>2
      <4> HIDE DEF x
      <4> QED BY <4>1, <4>3, <4>4
    <3> QED BY <3>2, <3>3
  <2>3. \A s \in SUBSET S : s \in T
    <3> HIDE DEF T, m
    <3> QED BY <2>1, <2>2, MeasureInduction
  <2> QED BY <2>3
<1>4. DOMAIN f = S
  OBVIOUS
<1> DEFINE c == CHOOSE sum : IsSum(f, S, sum)
<1>5. IsSum(f, S, c)
  BY <1>2
<1>6. SumFunction(f) = c[S]
  BY <1>4, SumDef
<1> HIDE DEF c
<1>7. c[S] = w[S]
  BY <1>3, <1>5
<1>8. w[S] = Cardinality(Parts(A, S))
  BY DEF w
<1> QED BY <1>6, <1>7, <1>8, PartsFinite

(***************************************************************************)
(* Which task is on which CPU, as the trace shows it.                        *)
(***************************************************************************)
LEMMA MaxBounded ==
  ASSUME NEW S, S \subseteq Int, S # {}, NEW b \in Int, \A x \in S : x <= b
  PROVE  Max(S) \in S /\ \A x \in S : x <= Max(S)
<1>1. PICK u \in S : \A v \in S : v <= u
  BY Greatest
<1> QED BY <1>1 DEF Max

(* The CPUs of a trace.                                                     *)
LEMMA TraceCPUs ==
  ASSUME NEW tr, IsTrace(tr)
  PROVE  /\ NrCPUs(tr) \in Nat \ {0}
         /\ \A i \in 1 .. Len(tr) : tr[i].cpu \in CPUNumbers(tr)
<1> DEFINE S == {tr[i].cpu : i \in DOMAIN tr}
<1>1. tr \in Seq(TracedEvent) /\ Len(tr) \in Nat \ {0} /\ DOMAIN tr = 1 .. Len(tr)
  BY DEF IsTrace
<1>2. \A i \in 1 .. Len(tr) : tr[i].cpu \in Nat
  <2>1. \A i \in 1 .. Len(tr) : tr[i] \in TracedEvent
    BY <1>1
  <2> QED BY <2>1 DEF TracedEvent
<1>3. S \subseteq Nat /\ S # {}
  BY <1>1, <1>2
<1>4. \E b \in Nat : \A x \in S : x <= b
  <2> DEFINE Bound(n) == \E b \in Nat : \A i \in 1 .. n : tr[i].cpu <= b
             T == {n \in 0 .. Len(tr) : Bound(n)}
  <2>1. 0 \in T
    <3>1. \A i \in 1 .. 0 : tr[i].cpu <= 0
      OBVIOUS
    <3> QED BY <1>1, <3>1
  <2>2. ASSUME NEW n \in 0 .. Len(tr) - 1, n \in T
        PROVE  n + 1 \in T
    <3>1. PICK b \in Nat : \A i \in 1 .. n : tr[i].cpu <= b
      BY <2>2
    <3>2. n + 1 \in 1 .. Len(tr) /\ n + 1 \in 0 .. Len(tr)
      BY <1>1
    <3>3. tr[n + 1].cpu \in Nat
      BY <1>2, <3>2
    <3>4. b + tr[n + 1].cpu \in Nat
      BY <3>3
    <3>5. \A i \in 1 .. n + 1 : tr[i].cpu <= b + tr[n + 1].cpu
      <4>1. ASSUME NEW i \in 1 .. n + 1
            PROVE  tr[i].cpu <= b + tr[n + 1].cpu
        <5>1. CASE i = n + 1
          BY <3>3, <5>1
        <5>2. CASE i # n + 1
          <6>1. i \in 1 .. n /\ i \in 1 .. Len(tr)
            BY <1>1, <5>2
          <6>2. tr[i].cpu <= b /\ tr[i].cpu \in Nat
            BY <1>2, <3>1, <6>1
          <6> QED BY <3>3, <6>2
        <5> QED BY <5>1, <5>2
      <4> QED BY <4>1
    <3> QED BY <3>2, <3>4, <3>5
  <2>3. Len(tr) \in T
    <3> HIDE DEF T
    <3>1. Len(tr) \in 0 .. Len(tr) /\ Len(tr) \in Nat
      BY <1>1
    <3> QED BY <2>1, <2>2, <3>1, InductionUpTo
  <2> QED BY <1>1, <2>3
<1>5. Max(S) \in S /\ \A x \in S : x <= Max(S)
  <2>1. PICK b \in Nat : \A x \in S : x <= b
    BY <1>4
  <2>2. S \subseteq Int /\ S # {} /\ b \in Int
    BY <1>3
  <2> HIDE DEF S
  <2> QED BY <2>1, <2>2, MaxBounded
<1>6. NrCPUs(tr) = 1 + Max(S)
  BY DEF NrCPUs
<1>7. \A i \in 1 .. Len(tr) : tr[i].cpu \in S
  BY <1>1
<1> DEFINE m == Max(S)
<1>8. m \in Nat /\ NrCPUs(tr) = 1 + m /\ \A i \in 1 .. Len(tr) : tr[i].cpu <= m
  BY <1>3, <1>5, <1>6, <1>7
<1> HIDE DEF S, m
<1> QED BY <1>2, <1>8 DEF CPUNumbers

(* The events up to a time.                                                 *)
LEMMA UntilFacts ==
  ASSUME NEW tr, IsTrace(tr), NEW t \in Int
  PROVE  /\ EventsUntil(tr, t) \in 0 .. Len(tr)
         /\ \A i \in 1 .. Len(tr) : i <= EventsUntil(tr, t) <=> tr[i].time <= t
<1> DEFINE S == {0} \union {i \in DOMAIN tr : tr[i].time <= t}
           K == Max(S)
<1>1. tr \in Seq(TracedEvent) /\ Len(tr) \in Nat \ {0} /\ DOMAIN tr = 1 .. Len(tr)
  BY DEF IsTrace
<1>2. S \subseteq Int /\ S # {} /\ Len(tr) \in Int /\ \A x \in S : x <= Len(tr)
  BY <1>1
<1>3. K \in S /\ \A x \in S : x <= K
  <2> HIDE DEF S
  <2> QED BY <1>2, MaxBounded
<1>4. K \in 0 .. Len(tr)
  BY <1>1, <1>3
<1>5. ASSUME NEW i \in 1 .. Len(tr)
      PROVE  i <= K <=> tr[i].time <= t
  <2>1. tr[i].time <= t => i <= K
    BY <1>1, <1>3
  <2>2. ASSUME i <= K
        PROVE  tr[i].time <= t
    <3>1. K \in 1 .. Len(tr) /\ K # 0
      BY <1>4, <2>2
    <3>2. tr[K].time <= t
      BY <1>3, <3>1
    <3>3. tr[i].time <= tr[K].time
      BY <2>2, <3>1 DEF IsTrace, InOrder
    <3>4. tr[i].time \in Nat /\ tr[K].time \in Nat
      BY <1>1, <3>1, EventTime
    <3> QED BY <3>2, <3>3, <3>4
  <2> QED BY <2>1, <2>2
<1> HIDE DEF K
<1> QED BY <1>4, <1>5 DEF K, EventsUntil

SwitchesOf(tr, c) == {i \in DOMAIN tr : tr[i].type = "switch" /\ tr[i].cpu = c}

(* What an event does to the task on a CPU.                                 *)
LEMMA CPUStep ==
  ASSUME NEW tr, IsTrace(tr), NEW n \in 1 .. Len(tr), NEW c
  PROVE  OnCPU(tr, c, n) = IF tr[n].type = "switch" /\ tr[n].cpu = c THEN tr[n].target
                           ELSE OnCPU(tr, c, n - 1)
<1> DEFINE S == SwitchesOf(tr, c)
           B == {i \in S : i <= n}
           A == {i \in S : i <= n - 1}
<1>1. tr \in Seq(TracedEvent) /\ Len(tr) \in Nat \ {0} /\ DOMAIN tr = 1 .. Len(tr)
  BY DEF IsTrace
<1>2. OnCPU(tr, c, n) = IF B # {} THEN tr[Max(B)].target
                        ELSE IF S # {} THEN tr[Min(S)].pid ELSE Idle
  BY DEF OnCPU, SwitchesOf
<1>3. OnCPU(tr, c, n - 1) = IF A # {} THEN tr[Max(A)].target
                            ELSE IF S # {} THEN tr[Min(S)].pid ELSE Idle
  BY DEF OnCPU, SwitchesOf
<1>4. CASE tr[n].type = "switch" /\ tr[n].cpu = c
  <2>1. n \in B
    BY <1>1, <1>4 DEF SwitchesOf
  <2>2. B \subseteq 1 .. Len(tr)
    BY <1>1 DEF SwitchesOf
  <2>3. Max(B) \in B /\ \A i \in B : i <= Max(B)
    <3> HIDE DEF B
    <3> QED BY <1>1, <2>1, <2>2, MaxIndex
  <2>4. Max(B) \in 1 .. Len(tr) /\ n <= Max(B) /\ Max(B) <= n
    BY <2>1, <2>2, <2>3
  <2>5. Max(B) = n
    BY <2>4
  <2> HIDE DEF B
  <2> QED BY <1>2, <1>4, <2>1, <2>5
<1>5. CASE ~(tr[n].type = "switch" /\ tr[n].cpu = c)
  <2>1. A = B
    BY <1>1, <1>5 DEF SwitchesOf
  <2> HIDE DEF A, B
  <2> QED BY <1>2, <1>3, <1>5, <2>1
<1> QED BY <1>4, <1>5

(* Without a switch from or to a task, or before the first, it is nowhere new. *)
On(tr, pid, n) == \E c \in CPUNumbers(tr) : OnCPU(tr, c, n) = pid

(* In a trace that is complete a task leaves its CPU and enters one with its *)
(* own switches only.                                                        *)
LEMMA OnStep ==
  ASSUME NEW tr, IsTrace(tr), IsComplete(tr), NEW n \in 1 .. Len(tr), NEW pid \in Tasks
  PROVE  /\ tr[n].type = "switch" /\ tr[n].pid = pid => On(tr, pid, n - 1) /\ ~On(tr, pid, n)
         /\ tr[n].type = "switch" /\ tr[n].target = pid => ~On(tr, pid, n - 1) /\ On(tr, pid, n)
         /\ tr[n].type = "wakeup" /\ tr[n].target = pid => ~On(tr, pid, n - 1)
         /\ ~(tr[n].type = "switch" /\ pid \in {tr[n].pid, tr[n].target}) =>
              On(tr, pid, n) = On(tr, pid, n - 1)
<1>1. pid # Idle /\ n - 1 \in 0 .. Len(tr) /\ n \in DOMAIN tr /\ n \in 0 .. Len(tr)
  BY IdleAssumption DEF IsTrace
<1> DEFINE cpu == tr[n].cpu
<1>2. cpu \in CPUNumbers(tr)
  BY TraceCPUs
<1>3. tr[n].type = "switch" => tr[n].pid = OnCPU(tr, cpu, n - 1)
  BY <1>1 DEF IsComplete
<1>4. tr[n].type # "waking" /\ tr[n].target = pid => ~On(tr, pid, n - 1)
  BY <1>1 DEF IsComplete, On
<1>5. \A c \in CPUNumbers(tr) : c # cpu /\ OnCPU(tr, c, n - 1) = pid => OnCPU(tr, cpu, n - 1) # pid
  BY <1>1, <1>2 DEF IsComplete
<1>6. \A c : OnCPU(tr, c, n) = IF tr[n].type = "switch" /\ cpu = c THEN tr[n].target
                               ELSE OnCPU(tr, c, n - 1)
  BY CPUStep
<1> HIDE DEF cpu
<1>7. ASSUME tr[n].type = "switch", tr[n].pid = pid
      PROVE  On(tr, pid, n - 1) /\ ~On(tr, pid, n)
  <2>1. On(tr, pid, n - 1)
    BY <1>2, <1>3, <1>7 DEF On
  <2>2. tr[n].target # pid
    BY <1>4, <1>7, <2>1
  <2>3. \A c \in CPUNumbers(tr) : OnCPU(tr, c, n) # pid
    BY <1>3, <1>5, <1>6, <1>7, <2>2
  <2> QED BY <2>1, <2>3 DEF On
<1>8. ASSUME tr[n].type = "switch", tr[n].target = pid
      PROVE  ~On(tr, pid, n - 1) /\ On(tr, pid, n)
  <2>1. OnCPU(tr, cpu, n) = pid
    BY <1>6, <1>8
  <2> QED BY <1>2, <1>4, <1>8, <2>1 DEF On
<1>9. ASSUME ~(tr[n].type = "switch" /\ pid \in {tr[n].pid, tr[n].target})
      PROVE  On(tr, pid, n) = On(tr, pid, n - 1)
  <2>1. \A c : OnCPU(tr, c, n) = pid <=> OnCPU(tr, c, n - 1) = pid
    BY <1>3, <1>6, <1>9
  <2> QED BY <2>1 DEF On
<1> QED BY <1>4, <1>7, <1>8, <1>9

(***************************************************************************)
(* The unified graph of a task, AbstractTask, as the events make it.         *)
(***************************************************************************)
PointType == [time : Nat, running : BOOLEAN]

(* What a graph says of a time: the last point up to it.                    *)
Runs(p, t) == \E i \in 1 .. Len(p) : /\ p[i].time <= t /\ p[i].running
                                     /\ \A k \in 1 .. Len(p) : i < k => t < p[k].time

(* A point says what holds from its time on.                                 *)
LEMMA RunsAppended ==
  ASSUME NEW p \in Seq(PointType), NEW e \in PointType, NEW t \in Int
  PROVE  /\ e.time <= t => (Runs(Append(p, e), t) <=> e.running)
         /\ t < e.time => (Runs(Append(p, e), t) <=> Runs(p, t))
<1> DEFINE q == Append(p, e)
           n == Len(p)
<1>1. n \in Nat /\ Len(q) = n + 1 /\ q[n + 1] = e /\ \A i \in 1 .. n : q[i] = p[i]
  OBVIOUS
<1>2. e.time \in Nat /\ \A i \in 1 .. n : p[i].time \in Nat
  <2>1. \A i \in 1 .. n : p[i] \in PointType
    OBVIOUS
  <2> QED BY <2>1 DEF PointType
<1> HIDE DEF q, n
<1>3. Runs(q, t) <=> \E i \in 1 .. n + 1 : /\ q[i].time <= t /\ q[i].running
                                           /\ \A k \in 1 .. n + 1 : i < k => t < q[k].time
  BY <1>1 DEF Runs
<1>4. Runs(p, t) <=> \E i \in 1 .. n : /\ p[i].time <= t /\ p[i].running
                                       /\ \A k \in 1 .. n : i < k => t < p[k].time
  BY DEF Runs, n
<1>5. ASSUME e.time <= t
      PROVE  Runs(q, t) <=> e.running
  <2>1. ASSUME Runs(q, t)
        PROVE  e.running
    <3>1. PICK i \in 1 .. n + 1 : q[i].time <= t /\ q[i].running /\ \A k \in 1 .. n + 1 : i < k => t < q[k].time
      BY <1>3, <2>1
    <3>2. n + 1 \in 1 .. n + 1 /\ ~(t < q[n + 1].time)
      BY <1>1, <1>2, <1>5
    <3>3. ~(i < n + 1)
      BY <3>1, <3>2
    <3>4. i = n + 1
      BY <1>1, <3>3
    <3> QED BY <1>1, <3>1, <3>4
  <2>2. ASSUME e.running
        PROVE  Runs(q, t)
    <3>1. n + 1 \in 1 .. n + 1 /\ \A k \in 1 .. n + 1 : ~(n + 1 < k)
      BY <1>1
    <3> QED BY <1>1, <1>3, <1>5, <2>2, <3>1
  <2> QED BY <2>1, <2>2
<1>6. ASSUME t < e.time
      PROVE  Runs(q, t) <=> Runs(p, t)
  <2>1. ASSUME Runs(q, t)
        PROVE  Runs(p, t)
    <3>1. PICK i \in 1 .. n + 1 : q[i].time <= t /\ q[i].running /\ \A k \in 1 .. n + 1 : i < k => t < q[k].time
      BY <1>3, <2>1
    <3>2. i # n + 1
      BY <1>1, <1>2, <1>6, <3>1
    <3>3. i \in 1 .. n
      BY <1>1, <3>2
    <3>4. \A k \in 1 .. n : k \in 1 .. n + 1 /\ q[k] = p[k]
      BY <1>1
    <3> QED BY <1>4, <3>1, <3>3, <3>4
  <2>2. ASSUME Runs(p, t)
        PROVE  Runs(q, t)
    <3>1. PICK i \in 1 .. n : p[i].time <= t /\ p[i].running /\ \A k \in 1 .. n : i < k => t < p[k].time
      BY <1>4, <2>2
    <3>2. i \in 1 .. n + 1 /\ q[i] = p[i]
      BY <1>1
    <3>3. ASSUME NEW k \in 1 .. n + 1, i < k
          PROVE  t < q[k].time
      <4>1. CASE k = n + 1
        BY <1>1, <1>6, <4>1
      <4>2. CASE k # n + 1
        <5>1. k \in 1 .. n /\ q[k] = p[k]
          BY <1>1, <4>2
        <5> QED BY <3>1, <3>3, <5>1
      <4> QED BY <4>1, <4>2
    <3> QED BY <1>3, <3>1, <3>2, <3>3
  <2> QED BY <2>1, <2>2
<1> QED BY <1>5, <1>6 DEF q

(* A graph p of task pid after n events.                                    *)
Past(tr, t, n) == IF EventsUntil(tr, t) <= n THEN EventsUntil(tr, t) ELSE n
TimeAt(tr, n) == IF n = 0 THEN StartTime(tr) ELSE tr[n].time
IsGraphOf(tr, p) ==
  /\ p \in Seq(PointType) /\ p # <<>>
  /\ p[1].time = StartTime(tr)
  /\ \A i, j \in 1 .. Len(p) : i <= j => p[i].time <= p[j].time
Shows(tr, pid, n, p) ==
  /\ IsGraphOf(tr, p)
  /\ p[Len(p)].time <= TimeAt(tr, n)
  /\ \A t \in Nat : StartTime(tr) <= t => (Runs(p, t) <=> On(tr, pid, Past(tr, t, n)))
Involves(tr, pid, n) == tr[n].type = "switch" /\ pid \in {tr[n].pid, tr[n].target}

(* The events until a time, among the first n.                               *)
LEMMA PastFacts ==
  ASSUME NEW tr, IsTrace(tr), NEW n \in 1 .. Len(tr), NEW t \in Nat
  PROVE  /\ tr[n].time <= t => Past(tr, t, n) = n
         /\ t < tr[n].time => Past(tr, t, n) = Past(tr, t, n - 1) /\ Past(tr, t, n) <= n - 1
         /\ tr[n].time <= t => Past(tr, t, n - 1) = n - 1
         /\ Past(tr, t, n) \in 0 .. n
<1>1. Len(tr) \in Nat /\ tr[n].time \in Nat
  BY EventTime DEF IsTrace
<1>2. EventsUntil(tr, t) \in 0 .. Len(tr) /\ (n <= EventsUntil(tr, t) <=> tr[n].time <= t)
  BY UntilFacts, SMTT(30)
<1> QED BY <1>1, <1>2 DEF Past

LEMMA TraceTimes ==
  ASSUME NEW tr, IsTrace(tr)
  PROVE  /\ Len(tr) \in Nat \ {0} /\ StartTime(tr) \in Nat /\ EndTime(tr) \in Nat
         /\ \A n \in 1 .. Len(tr) : /\ tr[n].time \in Nat
                                    /\ StartTime(tr) <= tr[n].time /\ tr[n].time <= EndTime(tr)
         /\ \A n \in 0 .. Len(tr) : TimeAt(tr, n) \in Nat /\ StartTime(tr) <= TimeAt(tr, n)
         /\ \A n \in 1 .. Len(tr) : TimeAt(tr, n) = tr[n].time /\ TimeAt(tr, n - 1) <= tr[n].time
<1>1. Len(tr) \in Nat \ {0} /\ \A n \in 1 .. Len(tr) : tr[n].time \in Nat
  BY EventTime DEF IsTrace
<1>2. \A n, m \in 1 .. Len(tr) : n <= m => tr[n].time <= tr[m].time
  BY DEF IsTrace, InOrder
<1>3. 1 \in 1 .. Len(tr) /\ Len(tr) \in 1 .. Len(tr)
  BY <1>1
<1>4. \A n \in 1 .. Len(tr) : tr[1].time <= tr[n].time /\ tr[n].time <= tr[Len(tr)].time
  BY <1>1, <1>2, <1>3
<1>5. \A n \in 1 .. Len(tr) : TimeAt(tr, n) = tr[n].time
  BY <1>1 DEF TimeAt
<1>6. ASSUME NEW n \in 0 .. Len(tr)
      PROVE  TimeAt(tr, n) \in Nat /\ StartTime(tr) <= TimeAt(tr, n)
  <2>1. CASE n = 0
    BY <1>1, <1>3, <2>1 DEF TimeAt, StartTime
  <2>2. CASE n # 0
    <3>1. n \in 1 .. Len(tr)
      BY <2>2
    <3> QED BY <1>1, <1>4, <1>5, <3>1 DEF StartTime
  <2> QED BY <2>1, <2>2
<1>7. ASSUME NEW n \in 1 .. Len(tr)
      PROVE  TimeAt(tr, n - 1) <= tr[n].time
  <2>1. CASE n = 1
    BY <1>1, <1>4, <2>1 DEF TimeAt, StartTime
  <2>2. CASE n # 1
    <3>1. n - 1 \in 1 .. Len(tr) /\ n - 1 <= n
      BY <2>2
    <3> QED BY <1>2, <1>5, <3>1
  <2> QED BY <2>1, <2>2
<1> QED BY <1>1, <1>3, <1>4, <1>5, <1>6, <1>7 DEF StartTime, EndTime

(* The first point, before which the task was not involved in a switch.      *)
LEMMA BeginShows ==
  ASSUME NEW tr, IsTrace(tr), IsComplete(tr), NEW pid \in Tasks, NEW n \in 0 .. Len(tr),
         \A i \in 1 .. n : ~Involves(tr, pid, i), NEW running \in BOOLEAN,
         running <=> On(tr, pid, n)
  PROVE  Shows(tr, pid, n, <<Point(StartTime(tr), running)>>)
<1> DEFINE e == Point(StartTime(tr), running)
           p == <<e>>
<1>1. /\ Len(tr) \in Nat \ {0} /\ StartTime(tr) \in Nat
      /\ TimeAt(tr, n) \in Nat /\ StartTime(tr) <= TimeAt(tr, n)
  BY TraceTimes
<1>2. e \in PointType /\ e.time = StartTime(tr) /\ e.running = running
  BY <1>1 DEF PointType, Point
<1> HIDE DEF e
<1>3. p \in Seq(PointType) /\ Len(p) = 1 /\ p[1] = e /\ p # <<>>
  BY <1>2
<1>4. \A d \in 0 .. n : On(tr, pid, n - d) = On(tr, pid, n)
  <2> DEFINE T == {d \in 0 .. n : On(tr, pid, n - d) = On(tr, pid, n)}
  <2>1. 0 \in T
    OBVIOUS
  <2>2. ASSUME NEW d \in 0 .. n - 1, d \in T
        PROVE  d + 1 \in T
    <3>1. n - d \in 1 .. Len(tr) /\ n - d \in 1 .. n /\ n - (d + 1) = (n - d) - 1 /\ d + 1 \in 0 .. n
      BY <1>1
    <3>2. On(tr, pid, n - d) = On(tr, pid, (n - d) - 1)
      BY <3>1, OnStep DEF Involves
    <3> QED BY <2>2, <3>1, <3>2
  <2>3. \A d \in 0 .. n : d \in T
    <3>1. n \in Nat
      BY <1>1
    <3> HIDE DEF T
    <3> QED BY <2>1, <2>2, <3>1, InductionUpTo
  <2> QED BY <2>3
<1>5. ASSUME NEW t \in Nat, StartTime(tr) <= t
      PROVE  Runs(p, t) <=> On(tr, pid, Past(tr, t, n))
  <2>1. EventsUntil(tr, t) \in 0 .. Len(tr)
    BY UntilFacts
  <2>2. Past(tr, t, n) \in 0 .. n
    BY <1>1, <2>1 DEF Past
  <2>3. n - Past(tr, t, n) \in 0 .. n /\ n - (n - Past(tr, t, n)) = Past(tr, t, n)
    BY <1>1, <2>2
  <2>4. On(tr, pid, Past(tr, t, n)) = On(tr, pid, n)
    BY <1>4, <2>3
  <2>5. Runs(p, t) <=> running
    BY <1>1, <1>2, <1>3, <1>5 DEF Runs
  <2> QED BY <2>4, <2>5
<1>6. IsGraphOf(tr, p)
  BY <1>1, <1>2, <1>3 DEF IsGraphOf
<1> HIDE DEF p
<1>7. Shows(tr, pid, n, p)
  BY <1>1, <1>2, <1>3, <1>5, <1>6 DEF Shows
<1> QED BY <1>7 DEF p, e

(* The points of a graph lie between the start of the trace and its last point. *)
LEMMA GraphTimes ==
  ASSUME NEW tr, NEW p, IsGraphOf(tr, p)
  PROVE  /\ Len(p) \in Nat \ {0} /\ p[Len(p)] \in PointType
         /\ \A i \in 1 .. Len(p) : /\ p[i] \in PointType /\ p[i].time \in Nat /\ p[i].running \in BOOLEAN
                                   /\ StartTime(tr) <= p[i].time /\ p[i].time <= p[Len(p)].time
<1>1. Len(p) \in Nat \ {0} /\ \A i \in 1 .. Len(p) : p[i] \in PointType
  BY DEF IsGraphOf
<1>2. \A i \in 1 .. Len(p) : p[i].time \in Nat /\ p[i].running \in BOOLEAN
  BY <1>1 DEF PointType
<1>3. 1 \in 1 .. Len(p) /\ Len(p) \in 1 .. Len(p)
  BY <1>1
<1>4. \A i \in 1 .. Len(p) : p[1].time <= p[i].time /\ p[i].time <= p[Len(p)].time
  BY <1>1, <1>3 DEF IsGraphOf
<1> QED BY <1>1, <1>2, <1>3, <1>4 DEF IsGraphOf

LEMMA AppendedGraph ==
  ASSUME NEW tr, NEW p, IsGraphOf(tr, p), NEW e \in PointType, p[Len(p)].time <= e.time
  PROVE  /\ IsGraphOf(tr, Append(p, e))
         /\ Len(Append(p, e)) = Len(p) + 1 /\ Append(p, e)[Len(p) + 1] = e
<1> DEFINE q == Append(p, e)
           n == Len(p)
<1>1. n \in Nat \ {0} /\ p \in Seq(PointType) /\ p[n].time \in Nat /\ e.time \in Nat
  BY GraphTimes DEF IsGraphOf, PointType
<1>2. q \in Seq(PointType) /\ q # <<>> /\ Len(q) = n + 1 /\ q[n + 1] = e /\ \A i \in 1 .. n : q[i] = p[i]
  BY <1>1
<1>3. \A i \in 1 .. n : p[i].time \in Nat /\ p[i].time <= p[n].time
  BY GraphTimes
<1> HIDE DEF q, n
<1>4. ASSUME NEW i \in 1 .. Len(q), NEW j \in 1 .. Len(q), i <= j
      PROVE  q[i].time <= q[j].time
  <2>1. CASE j = n + 1
    <3>1. CASE i = n + 1
      BY <1>1, <1>2, <2>1, <3>1
    <3>2. CASE i # n + 1
      <4>1. i \in 1 .. n /\ q[i] = p[i]
        BY <1>1, <1>2, <3>2
      <4> QED BY <1>1, <1>2, <1>3, <2>1, <4>1 DEF n
    <3> QED BY <3>1, <3>2
  <2>2. CASE j # n + 1
    <3>1. i \in 1 .. n /\ j \in 1 .. n /\ q[i] = p[i] /\ q[j] = p[j]
      BY <1>1, <1>2, <1>4, <2>2
    <3> QED BY <1>4, <3>1 DEF IsGraphOf, n
  <2> QED BY <2>1, <2>2
<1>5. q[1].time = StartTime(tr)
  <2>1. 1 \in 1 .. n
    BY <1>1
  <2> QED BY <1>2, <2>1 DEF IsGraphOf
<1> QED BY <1>2, <1>4, <1>5 DEF IsGraphOf, q, n

(* An event that is about the task appends a point, one that is not leaves what *)
(* the graph shows.                                                          *)
LEMMA AppendShows ==
  ASSUME NEW tr, IsTrace(tr), NEW pid, NEW n \in 1 .. Len(tr), NEW p, Shows(tr, pid, n - 1, p),
         NEW running \in BOOLEAN, running <=> On(tr, pid, n)
  PROVE  Shows(tr, pid, n, Append(p, Point(tr[n].time, running)))
<1> DEFINE e == Point(tr[n].time, running)
           q == Append(p, e)
<1>1. /\ Len(tr) \in Nat \ {0} /\ tr[n].time \in Nat /\ TimeAt(tr, n - 1) \in Nat
      /\ TimeAt(tr, n) = tr[n].time /\ TimeAt(tr, n - 1) <= tr[n].time
  <2>1. n - 1 \in 0 .. Len(tr)
    BY DEF IsTrace
  <2> QED BY <2>1, TraceTimes
<1>2. e \in PointType /\ e.time = tr[n].time /\ e.running = running
  BY <1>1 DEF PointType, Point
<1> HIDE DEF e
<1>3. IsGraphOf(tr, p) /\ p \in Seq(PointType) /\ p[Len(p)].time \in Nat /\ p[Len(p)].time <= TimeAt(tr, n - 1)
  BY GraphTimes DEF Shows, IsGraphOf, PointType
<1>4. p[Len(p)].time <= e.time
  BY <1>1, <1>2, <1>3
<1>5. IsGraphOf(tr, q) /\ Len(q) = Len(p) + 1 /\ q[Len(p) + 1] = e
  BY <1>2, <1>3, <1>4, AppendedGraph
<1>6. ASSUME NEW t \in Nat, StartTime(tr) <= t
      PROVE  Runs(q, t) <=> On(tr, pid, Past(tr, t, n))
  <2>1. CASE tr[n].time <= t
    <3>1. Past(tr, t, n) = n
      BY <2>1, PastFacts
    <3>2. Runs(q, t) <=> running
      BY <1>2, <1>3, <2>1, RunsAppended
    <3> QED BY <3>1, <3>2
  <2>2. CASE t < tr[n].time
    <3>1. Past(tr, t, n) = Past(tr, t, n - 1)
      BY <2>2, PastFacts
    <3>2. Runs(q, t) <=> Runs(p, t)
      BY <1>2, <1>3, <2>2, RunsAppended
    <3> QED BY <1>6, <3>1, <3>2 DEF Shows
  <2> QED BY <1>1, <2>1, <2>2
<1> HIDE DEF q
<1>7. q[Len(q)].time <= TimeAt(tr, n)
  BY <1>1, <1>2, <1>5
<1>8. Shows(tr, pid, n, q)
  BY <1>5, <1>6, <1>7 DEF Shows
<1> QED BY <1>8 DEF q, e

LEMMA StayShows ==
  ASSUME NEW tr, IsTrace(tr), NEW pid, NEW n \in 1 .. Len(tr), NEW p, Shows(tr, pid, n - 1, p),
         On(tr, pid, n) = On(tr, pid, n - 1)
  PROVE  Shows(tr, pid, n, p)
<1>1. /\ Len(tr) \in Nat \ {0} /\ tr[n].time \in Nat /\ TimeAt(tr, n - 1) \in Nat
      /\ TimeAt(tr, n) = tr[n].time /\ TimeAt(tr, n - 1) <= tr[n].time
  <2>1. n - 1 \in 0 .. Len(tr)
    BY DEF IsTrace
  <2> QED BY <2>1, TraceTimes
<1>2. IsGraphOf(tr, p) /\ p[Len(p)].time \in Nat /\ p[Len(p)].time <= TimeAt(tr, n - 1)
  BY GraphTimes DEF Shows, IsGraphOf, PointType
<1>3. ASSUME NEW t \in Nat, StartTime(tr) <= t
      PROVE  Runs(p, t) <=> On(tr, pid, Past(tr, t, n))
  <2>1. On(tr, pid, Past(tr, t, n)) = On(tr, pid, Past(tr, t, n - 1))
    <3>1. CASE tr[n].time <= t
      BY <3>1, PastFacts
    <3>2. CASE t < tr[n].time
      BY <3>2, PastFacts
    <3> QED BY <1>1, <3>1, <3>2
  <2> QED BY <1>3, <2>1 DEF Shows
<1>4. p[Len(p)].time <= TimeAt(tr, n)
  BY <1>1, <1>2
<1> QED BY <1>2, <1>3, <1>4 DEF Shows

(***************************************************************************)
(* The graph is up at the moments at which the task is on a CPU.             *)
(***************************************************************************)
IsFold(tr, pid, g) ==
  g = [n \in 0 .. Len(tr) |-> IF n = 0 THEN <<>> ELSE AddEvent(tr, pid, g[n - 1], tr[n])]

LEMMA FoldExists ==
  ASSUME NEW tr, IsTrace(tr), NEW pid
  PROVE  \E g : IsFold(tr, pid, g)
<1> DEFINE V == Seq(PointType)
           N == Len(tr)
           G == [x \in (1 .. N) \X V |-> AddEvent(tr, pid, x[2], tr[x[1]])]
<1>1. N \in Nat \ {0} /\ StartTime(tr) \in Nat /\ \A n \in 1 .. N : tr[n].time \in Nat
  BY TraceTimes
<1>2. ASSUME NEW n \in 1 .. N, NEW p \in V
      PROVE  AddEvent(tr, pid, p, tr[n]) \in V
  <2>1. \A running \in BOOLEAN : /\ Point(StartTime(tr), running) \in PointType
                                 /\ Point(tr[n].time, running) \in PointType
    BY <1>1 DEF PointType, Point
  <2>2. \A running \in BOOLEAN : (IF p = <<>> THEN <<Point(StartTime(tr), running)>> ELSE p) \in V
    BY <2>1
  <2>3. \A q \in V, e \in PointType : Append(q, e) \in V
    OBVIOUS
  <2> HIDE DEF V
  <2> QED BY <1>2, <2>1, <2>2, <2>3 DEF AddEvent
<1>3. G \in [(1 .. N) \X V -> V]
  <2> HIDE DEF V, N
  <2> QED BY <1>2
<1>4. <<>> \in V
  OBVIOUS
<1> HIDE DEF V, G
<1>5. PICK f \in [0 .. N -> V] : IsRecursion(N, <<>>, G, f)
  BY <1>1, <1>3, <1>4, RecursionUpTo
<1>6. \A n \in 1 .. N : G[<<n, f[n - 1]>>] = AddEvent(tr, pid, f[n - 1], tr[n])
  <2>1. \A n \in 1 .. N : n - 1 \in 0 .. N
    BY <1>1
  <2> QED BY <2>1 DEF G
<1>7. f = [n \in 0 .. N |-> IF n = 0 THEN <<>> ELSE G[<<n, f[n - 1]>>]]
  BY <1>5 DEF IsRecursion
<1>8. \A n \in 0 .. N : n # 0 => n \in 1 .. N
  BY <1>1
<1>9. f = [n \in 0 .. N |-> IF n = 0 THEN <<>> ELSE AddEvent(tr, pid, f[n - 1], tr[n])]
  BY <1>6, <1>7, <1>8
<1> QED BY <1>9 DEF IsFold

(* After n events.                                                          *)
FoldInv(tr, pid, n, p) ==
  \/ p = <<>> /\ \A i \in 1 .. n : ~Involves(tr, pid, i)
  \/ Shows(tr, pid, n, p) /\ (Len(p) >= 2 \/ ~p[1].running)

(* The handlers of the events keep what the graph shows.                     *)
LEMMA AddEventKeeps ==
  ASSUME NEW tr, IsTrace(tr), IsComplete(tr), NEW pid \in Tasks, NEW n \in 1 .. Len(tr),
         NEW p, FoldInv(tr, pid, n - 1, p)
  PROVE  FoldInv(tr, pid, n, AddEvent(tr, pid, p, tr[n]))
<1> DEFINE e == tr[n]
           Begin(running) == IF p = <<>> THEN <<Point(StartTime(tr), running)>> ELSE p
<1>1. n - 1 \in 0 .. Len(tr) /\ Len(tr) \in Nat \ {0} /\ n - 1 + 1 = n
  BY TraceTimes
<1>2. AddEvent(tr, pid, p, e) =
        IF e.type = "switch" /\ e.pid = pid THEN Append(Begin(TRUE), Point(e.time, FALSE))
        ELSE IF e.type = "switch" /\ e.target = pid THEN Append(Begin(FALSE), Point(e.time, TRUE))
        ELSE IF e.type = "wakeup" /\ e.target = pid THEN Begin(FALSE)
        ELSE p
  BY DEF AddEvent
<1>3. ASSUME NEW running \in BOOLEAN, running <=> On(tr, pid, n - 1)
      PROVE  /\ Shows(tr, pid, n - 1, Begin(running)) /\ Len(Begin(running)) >= 1
             /\ p # <<>> \/ ~running => Len(Begin(running)) >= 2 \/ ~Begin(running)[1].running
  <2>1. CASE p = <<>>
    <3>1. Shows(tr, pid, n - 1, <<Point(StartTime(tr), running)>>)
      <4>1. Len(p) = 0
        BY <2>1
      <4>2. \A i \in 1 .. n - 1 : ~Involves(tr, pid, i)
        <5>1. p # <<>> => FALSE
          BY <2>1
        <5>2. ~Shows(tr, pid, n - 1, p)
          BY <5>1 DEF Shows, IsGraphOf
        <5> QED BY <5>2 DEF FoldInv
      <4> QED BY <1>1, <1>3, <4>2, BeginShows
    <3>2. <<Point(StartTime(tr), running)>>[1].running = running
      BY DEF Point
    <3> QED BY <2>1, <3>1, <3>2
  <2>2. CASE p # <<>>
    <3>1. Shows(tr, pid, n - 1, p) /\ (Len(p) >= 2 \/ ~p[1].running)
      BY <2>2 DEF FoldInv
    <3>2. Len(p) >= 1
      BY <3>1, GraphTimes DEF Shows
    <3> QED BY <2>2, <3>1, <3>2
  <2> QED BY <2>1, <2>2
<1>4. ASSUME NEW running \in BOOLEAN, NEW q, Shows(tr, pid, n - 1, q), running <=> On(tr, pid, n)
      PROVE  FoldInv(tr, pid, n, Append(q, Point(e.time, running)))
  <2>1. Shows(tr, pid, n, Append(q, Point(e.time, running)))
    BY <1>4, AppendShows
  <2>2. q \in Seq(PointType) /\ Len(q) \in Nat \ {0}
    BY <1>4, GraphTimes DEF Shows, IsGraphOf
  <2>3. Len(Append(q, Point(e.time, running))) >= 2
    BY <2>2
  <2> QED BY <2>1, <2>3 DEF FoldInv
<1>5. CASE e.type = "switch" /\ e.pid = pid
  <2>1. On(tr, pid, n - 1) /\ ~On(tr, pid, n)
    BY <1>5, OnStep
  <2>2. Shows(tr, pid, n - 1, Begin(TRUE))
    BY <1>3, <2>1
  <2> HIDE DEF Begin
  <2>3. AddEvent(tr, pid, p, e) = Append(Begin(TRUE), Point(e.time, FALSE))
    BY <1>2, <1>5
  <2> QED BY <1>4, <2>1, <2>2, <2>3
<1>6. CASE e.type = "switch" /\ e.target = pid /\ e.pid # pid
  <2>1. ~On(tr, pid, n - 1) /\ On(tr, pid, n)
    BY <1>6, OnStep
  <2>2. Shows(tr, pid, n - 1, Begin(FALSE))
    BY <1>3, <2>1
  <2> HIDE DEF Begin
  <2>3. AddEvent(tr, pid, p, e) = Append(Begin(FALSE), Point(e.time, TRUE))
    BY <1>2, <1>6
  <2> QED BY <1>4, <2>1, <2>2, <2>3
<1>7. CASE e.type = "wakeup" /\ e.target = pid
  <2>1. ~On(tr, pid, n - 1) /\ On(tr, pid, n) = On(tr, pid, n - 1)
    BY <1>7, OnStep
  <2>2. /\ Shows(tr, pid, n - 1, Begin(FALSE))
        /\ Len(Begin(FALSE)) >= 2 \/ ~Begin(FALSE)[1].running
    BY <1>3, <2>1
  <2> HIDE DEF Begin
  <2>3. Shows(tr, pid, n, Begin(FALSE))
    BY <2>1, <2>2, StayShows
  <2>4. AddEvent(tr, pid, p, e) = Begin(FALSE)
    BY <1>2, <1>7
  <2> QED BY <2>2, <2>3, <2>4 DEF FoldInv
<1>8. CASE /\ ~(e.type = "switch" /\ pid \in {e.pid, e.target})
           /\ ~(e.type = "wakeup" /\ e.target = pid)
  <2>1. AddEvent(tr, pid, p, e) = p
    BY <1>2, <1>8
  <2>2. On(tr, pid, n) = On(tr, pid, n - 1)
    BY <1>8, OnStep
  <2>3. CASE p = <<>> /\ \A i \in 1 .. n - 1 : ~Involves(tr, pid, i)
    <3>1. ASSUME NEW i \in 1 .. n
          PROVE  ~Involves(tr, pid, i)
      <4>1. CASE i = n
        BY <1>8, <4>1 DEF Involves
      <4>2. CASE i # n
        <5>1. i \in 1 .. n - 1
          BY <1>1, <4>2
        <5> QED BY <2>3, <5>1
      <4> QED BY <4>1, <4>2
    <3> QED BY <2>1, <2>3, <3>1 DEF FoldInv
  <2>4. CASE Shows(tr, pid, n - 1, p) /\ (Len(p) >= 2 \/ ~p[1].running)
    BY <2>1, <2>2, <2>4, StayShows DEF FoldInv
  <2> QED BY <2>3, <2>4 DEF FoldInv
<1> QED BY <1>5, <1>6, <1>7, <1>8

(* The graph of a task, with its tail, shows when the task had a CPU.        *)
LEMMA PointsShow ==
  ASSUME NEW tr, IsTrace(tr), IsComplete(tr), NEW pid \in Tasks, NEW p, p = Points(tr, pid)
  PROVE  \/ p = <<>> /\ \A n \in 0 .. Len(tr) : ~On(tr, pid, n)
         \/ /\ IsGraphOf(tr, p) /\ Len(p) >= 2 /\ p[Len(p)].time = EndTime(tr)
            /\ \A t \in Nat : StartTime(tr) <= t => (Runs(p, t) <=> On(tr, pid, EventsUntil(tr, t)))
<1> DEFINE N == Len(tr)
           g == CHOOSE f : IsFold(tr, pid, f)
           q == g[N]
           e == Point(EndTime(tr), q[Len(q)].running)
<1>1. N \in Nat \ {0} /\ EndTime(tr) \in Nat /\ TimeAt(tr, N) = EndTime(tr)
  BY TraceTimes DEF TimeAt, EndTime
<1>2. IsFold(tr, pid, g)
  BY FoldExists
<1>3. p = IF q = <<>> \/ (q[Len(q)].running /\ q[Len(q)].time = EndTime(tr)) THEN q
          ELSE Append(q, e)
  BY DEF Points, IsFold
<1> HIDE DEF g
<1>4. g[0] = <<>> /\ \A n \in 1 .. N : g[n] = AddEvent(tr, pid, g[n - 1], tr[n])
  <2> DEFINE h(n) == IF n = 0 THEN <<>> ELSE AddEvent(tr, pid, g[n - 1], tr[n])
  <2>1. g = [n \in 0 .. N |-> h(n)]
    BY <1>2 DEF IsFold
  <2>2. \A n \in 0 .. N : g[n] = h(n)
    <3> HIDE DEF h
    <3> QED BY <2>1
  <2>3. 0 \in 0 .. N /\ \A n \in 1 .. N : n \in 0 .. N /\ n # 0
    BY <1>1
  <2> QED BY <2>2, <2>3
<1>5. FoldInv(tr, pid, N, q)
  <2> DEFINE T == {n \in 0 .. N : FoldInv(tr, pid, n, g[n])}
  <2>1. 0 \in T
    BY <1>1, <1>4 DEF FoldInv
  <2>2. ASSUME NEW n \in 0 .. N - 1, n \in T
        PROVE  n + 1 \in T
    <3>1. n + 1 \in 1 .. N /\ (n + 1) - 1 = n /\ n + 1 \in 0 .. N
      BY <1>1
    <3>2. g[n + 1] = AddEvent(tr, pid, g[n], tr[n + 1])
      BY <1>4, <3>1
    <3>3. FoldInv(tr, pid, (n + 1) - 1, g[n])
      BY <2>2, <3>1
    <3> QED BY <3>1, <3>2, <3>3, AddEventKeeps
  <2>3. N \in T
    <3>1. N \in 0 .. N /\ N \in Nat
      BY <1>1
    <3> HIDE DEF T, N
    <3> QED BY <2>1, <2>2, <3>1, InductionUpTo
  <2> QED BY <2>3
<1> HIDE DEF q
<1>6. \A t \in Nat : Past(tr, t, N) = EventsUntil(tr, t)
  BY UntilFacts DEF Past
<1>7. CASE q = <<>> /\ \A i \in 1 .. N : ~Involves(tr, pid, i)
  <2>1. p = <<>>
    BY <1>3, <1>7
  <2>2. ASSUME NEW n \in 0 .. N, NEW c
        PROVE  OnCPU(tr, c, n) # pid
    <3> DEFINE S == SwitchesOf(tr, c)
               B == {i \in S : i <= n}
    <3>1. OnCPU(tr, c, n) = IF B # {} THEN tr[Max(B)].target
                            ELSE IF S # {} THEN tr[Min(S)].pid ELSE Idle
      BY DEF OnCPU, SwitchesOf
    <3>2. S \subseteq 1 .. N /\ B \subseteq S /\ \A i \in S : pid \notin {tr[i].pid, tr[i].target}
      BY <1>7 DEF SwitchesOf, Involves, IsTrace
    <3> HIDE DEF S, B
    <3>3. B # {} => Max(B) \in S
      BY <1>1, <3>2, MaxIndex
    <3>4. S # {} => Min(S) \in S
      BY <1>1, <3>2, MinIndex
    <3>5. pid # Idle
      BY IdleAssumption
    <3> QED BY <3>1, <3>2, <3>3, <3>4, <3>5
  <2> QED BY <2>1, <2>2 DEF On
<1>8. CASE Shows(tr, pid, N, q) /\ (Len(q) >= 2 \/ ~q[1].running)
  <2>1. IsGraphOf(tr, q) /\ q # <<>> /\ q[Len(q)].time <= EndTime(tr) /\ q \in Seq(PointType)
    BY <1>1, <1>8 DEF Shows, IsGraphOf
  <2>2. /\ Len(q) \in Nat \ {0} /\ q[Len(q)].time \in Nat /\ q[Len(q)].running \in BOOLEAN
        /\ \A i \in 1 .. Len(q) : q[i].time \in Nat /\ q[i].time <= q[Len(q)].time
    <3>1. Len(q) \in Nat \ {0}
      BY <2>1, GraphTimes
    <3>2. Len(q) \in 1 .. Len(q)
      BY <3>1
    <3> QED BY <2>1, <3>1, <3>2, GraphTimes
  <2>3. \A t \in Nat : StartTime(tr) <= t => (Runs(q, t) <=> On(tr, pid, EventsUntil(tr, t)))
    BY <1>6, <1>8 DEF Shows
  <2>4. CASE q[Len(q)].running /\ q[Len(q)].time = EndTime(tr)
    <3>1. p = q
      BY <1>3, <2>4
    <3>2. Len(q) >= 2
      <4>1. Len(q) = 1 => FALSE
        BY <1>8, <2>4
      <4> QED BY <2>2, <4>1
    <3> QED BY <2>1, <2>3, <2>4, <3>1, <3>2
  <2>5. CASE ~(q[Len(q)].running /\ q[Len(q)].time = EndTime(tr))
    <3>1. p = Append(q, e)
      BY <1>3, <2>1, <2>5
    <3>2. e \in PointType /\ e.time = EndTime(tr) /\ e.running = q[Len(q)].running
      BY <1>1, <2>2 DEF PointType, Point
    <3> HIDE DEF e
    <3>3. IsGraphOf(tr, p) /\ Len(p) = Len(q) + 1 /\ p[Len(q) + 1] = e
      BY <2>1, <3>1, <3>2, AppendedGraph
    <3>4. ASSUME NEW t \in Nat, StartTime(tr) <= t
          PROVE  Runs(p, t) <=> Runs(q, t)
      <4>1. CASE t < EndTime(tr)
        BY <2>1, <3>1, <3>2, <4>1, RunsAppended
      <4>2. CASE EndTime(tr) <= t
        <5>1. Runs(p, t) <=> q[Len(q)].running
          BY <2>1, <3>1, <3>2, <4>2, RunsAppended
        <5>2. Runs(q, t) <=> q[Len(q)].running
          <6>1. \A i \in 1 .. Len(q) : q[i].time <= t
            BY <1>1, <2>1, <2>2, <4>2
          <6>2. Len(q) \in 1 .. Len(q) /\ \A k \in 1 .. Len(q) : ~(Len(q) < k)
            BY <2>2
          <6>3. \A k \in 1 .. Len(q) : ~(t < q[k].time)
            BY <2>2, <6>1
          <6>4. ASSUME Runs(q, t)
                PROVE  q[Len(q)].running
            <7>1. PICK i \in 1 .. Len(q) : q[i].running /\ \A k \in 1 .. Len(q) : i < k => t < q[k].time
              BY <6>4 DEF Runs
            <7>2. ~(i < Len(q))
              BY <6>2, <6>3, <7>1
            <7>3. i = Len(q)
              BY <2>2, <7>2
            <7> QED BY <7>1, <7>3
          <6>5. ASSUME q[Len(q)].running
                PROVE  Runs(q, t)
            BY <6>1, <6>2, <6>5 DEF Runs
          <6> QED BY <6>4, <6>5
        <5> QED BY <5>1, <5>2
      <4> QED BY <1>1, <4>1, <4>2
    <3> QED BY <2>2, <2>3, <3>2, <3>3, <3>4
  <2> QED BY <2>4, <2>5
<1> QED BY <1>5, <1>7, <1>8 DEF FoldInv

(***************************************************************************)
(* The search for a point of a graph, AbstractTask::findLower().             *)
(***************************************************************************)
(* What binarySearch_() computes from the intervals of indices.             *)
LowerIntervals(n) == {q \in [lower : 1 .. n, higher : 1 .. n] : q.lower <= q.higher}
Middle(r) == (r.lower + r.higher) \div 2
LowerHalf(p, t, r) == IF p[Middle(r)].time < t THEN [r EXCEPT !.lower = Middle(r)]
                                               ELSE [r EXCEPT !.higher = Middle(r)]
LowerEnd(p, t, r) == IF p[Middle(r)].time < t THEN r.higher ELSE r.lower
IsLowerSearch(p, t, f) ==
  f = [r \in LowerIntervals(Len(p)) |-> IF r.higher - r.lower < 2 THEN LowerEnd(p, t, r)
                                        ELSE f[LowerHalf(p, t, r)]]

(* What is left of the interval of the search.                               *)
LEMMA LowerHalfInside ==
  ASSUME NEW p, NEW n \in Nat, NEW t, NEW r \in LowerIntervals(n)
  PROVE  /\ r.lower \in 1 .. n /\ r.higher \in 1 .. n /\ r.lower <= r.higher /\ Middle(r) \in 1 .. n
         /\ r.higher - r.lower < 2 => Middle(r) = r.lower
         /\ LowerHalf(p, t, r) \in LowerIntervals(n)
         /\ r.higher - r.lower >= 2 =>
              LowerHalf(p, t, r).higher - LowerHalf(p, t, r).lower < r.higher - r.lower
         /\ LowerHalf(p, t, r).higher \in {r.higher, Middle(r)}
         /\ ~(p[Middle(r)].time < t) => LowerHalf(p, t, r).higher = Middle(r)
         /\ p[Middle(r)].time < t => LowerHalf(p, t, r).higher = r.higher
<1> DEFINE m == Middle(r)
<1>1. r \in [lower : 1 .. n, higher : 1 .. n] /\ r.lower <= r.higher
  BY DEF LowerIntervals
<1>2. /\ m \in 1 .. n /\ r.lower <= m /\ m <= r.higher
      /\ r.higher - r.lower < 2 => m = r.lower
      /\ r.higher - r.lower >= 2 => r.lower < m /\ m < r.higher
  BY <1>1 DEF Middle
<1> HIDE DEF m
<1>3. LowerHalf(p, t, r) = IF p[m].time < t THEN [r EXCEPT !.lower = m] ELSE [r EXCEPT !.higher = m]
  BY DEF LowerHalf, m
<1>4. CASE p[m].time < t
  <2>1. /\ LowerHalf(p, t, r) \in [lower : 1 .. n, higher : 1 .. n]
        /\ LowerHalf(p, t, r).lower = m /\ LowerHalf(p, t, r).higher = r.higher
    BY <1>1, <1>2, <1>3, <1>4
  <2> QED BY <1>1, <1>2, <1>4, <2>1 DEF LowerIntervals, m
<1>5. CASE ~(p[m].time < t)
  <2>1. /\ LowerHalf(p, t, r) \in [lower : 1 .. n, higher : 1 .. n]
        /\ LowerHalf(p, t, r).lower = r.lower /\ LowerHalf(p, t, r).higher = m
    BY <1>1, <1>2, <1>3, <1>5
  <2> QED BY <1>1, <1>2, <1>5, <2>1 DEF LowerIntervals, m
<1> QED BY <1>4, <1>5

LEMMA LowerSearchExists ==
  ASSUME NEW p, Len(p) \in Nat \ {0}, NEW t
  PROVE  \E f : IsLowerSearch(p, t, f)
<1> DEFINE n == Len(p)
           S == LowerIntervals(n)
           D == {r \in S : r.higher - r.lower < 2}
           out == [r \in S |-> LowerEnd(p, t, r)]
           next == [r \in S |-> LowerHalf(p, t, r)]
           m == [r \in S |-> r.higher - r.lower]
<1>1. n \in Nat /\ 1 \in 1 .. n
  OBVIOUS
<1>2. /\ out \in [S -> 1 .. n] /\ next \in [S -> S] /\ m \in [S -> 0 .. n]
      /\ \A r \in S : r \notin D => m[next[r]] < m[r]
  <2>1. ASSUME NEW r \in S
        PROVE  /\ LowerEnd(p, t, r) \in 1 .. n /\ LowerHalf(p, t, r) \in S /\ r.higher - r.lower \in 0 .. n
               /\ r \notin D => LowerHalf(p, t, r).higher - LowerHalf(p, t, r).lower < r.higher - r.lower
    <3>1. /\ r.lower \in 1 .. n /\ r.higher \in 1 .. n /\ r.lower <= r.higher
          /\ LowerHalf(p, t, r) \in S
          /\ r.higher - r.lower >= 2 =>
              LowerHalf(p, t, r).higher - LowerHalf(p, t, r).lower < r.higher - r.lower
      BY <1>1, LowerHalfInside
    <3> HIDE DEF S
    <3> QED BY <1>1, <3>1 DEF LowerEnd
  <2> HIDE DEF S, D
  <2> QED BY <2>1
<1>3. PICK f \in [S -> 1 .. n] : IsTailRecursion(S, D, out, next, f)
  <2> HIDE DEF S, D, out, next, m, n
  <2> QED BY <1>1, <1>2, TailRecursion
<1>4. f = [r \in S |-> IF r.higher - r.lower < 2 THEN LowerEnd(p, t, r) ELSE f[LowerHalf(p, t, r)]]
  BY <1>3 DEF IsTailRecursion
<1> QED BY <1>4 DEF IsLowerSearch

(* The index is the last one, or its point is not earlier.                  *)
LEMMA LowerSearch ==
  ASSUME NEW p, Len(p) \in Nat \ {0}, NEW t, NEW b, b = binarySearch_(p, t, 1, Len(p))
  PROVE  b \in 1 .. Len(p) /\ (b = Len(p) \/ ~(p[b].time < t))
<1> DEFINE n == Len(p)
           f == CHOOSE f : IsLowerSearch(p, t, f)
           S == LowerIntervals(n)
           Good(i) == i = n \/ ~(p[i].time < t)
           T == {r \in S : Good(r.higher) => f[r] \in 1 .. n /\ Good(f[r])}
           m == [r \in S |-> r.higher - r.lower]
           all == [lower |-> 1, higher |-> n]
<1>1. n \in Nat /\ all \in S
  BY DEF LowerIntervals
<1>2. b = f[all]
  BY DEF binarySearch_, IsLowerSearch, LowerIntervals, LowerHalf, LowerEnd, Middle
<1>3. IsLowerSearch(p, t, f)
  BY LowerSearchExists
<1> HIDE DEF f
<1>4. \A r \in S : f[r] = IF r.higher - r.lower < 2 THEN LowerEnd(p, t, r) ELSE f[LowerHalf(p, t, r)]
  <2> DEFINE h(r) == IF r.higher - r.lower < 2 THEN LowerEnd(p, t, r) ELSE f[LowerHalf(p, t, r)]
  <2>1. f = [r \in S |-> h(r)]
    BY <1>3 DEF IsLowerSearch
  <2> HIDE DEF h, S
  <2>2. \A r \in S : f[r] = h(r)
    BY <2>1
  <2> QED BY <2>2 DEF h
<1>5. ASSUME NEW r \in S
      PROVE  /\ r.lower \in 1 .. n /\ r.higher \in 1 .. n /\ r.lower <= r.higher /\ Middle(r) \in 1 .. n
             /\ r.higher - r.lower < 2 => Middle(r) = r.lower
             /\ LowerHalf(p, t, r) \in S
             /\ r.higher - r.lower >= 2 =>
                  LowerHalf(p, t, r).higher - LowerHalf(p, t, r).lower < r.higher - r.lower
             /\ ~(p[Middle(r)].time < t) => LowerHalf(p, t, r).higher = Middle(r)
             /\ p[Middle(r)].time < t => LowerHalf(p, t, r).higher = r.higher
  BY <1>1, LowerHalfInside
<1> HIDE DEF S
<1>6. m \in [S -> Nat]
  <2>1. \A r \in S : r.higher - r.lower \in Nat
    BY <1>1, <1>5
  <2> QED BY <2>1
<1>7. ASSUME NEW r \in S, \A q \in S : m[q] < m[r] => q \in T
      PROVE  r \in T
  <2> SUFFICES ASSUME Good(r.higher) PROVE f[r] \in 1 .. n /\ Good(f[r])
    OBVIOUS
  <2>1. CASE r.higher - r.lower < 2
    <3>1. f[r] = IF p[r.lower].time < t THEN r.higher ELSE r.lower
      BY <1>4, <1>5, <2>1 DEF LowerEnd
    <3> QED BY <1>5, <3>1
  <2>2. CASE ~(r.higher - r.lower < 2)
    <3> DEFINE h == LowerHalf(p, t, r)
    <3>1. r.higher - r.lower >= 2
      BY <1>5, <2>2
    <3>2. h \in S /\ m[h] < m[r]
      BY <1>5, <3>1
    <3>3. h \in T
      BY <1>7, <3>2
    <3>4. f[r] = f[h]
      BY <1>4, <2>2
    <3>5. Good(h.higher)
      BY <1>5
    <3> QED BY <3>3, <3>4, <3>5
  <2> QED BY <2>1, <2>2
<1>8. \A r \in S : r \in T
  <2> HIDE DEF T, m
  <2> QED BY <1>6, <1>7, MeasureInduction
<1>9. Good(all.higher)
  OBVIOUS
<1> HIDE DEF Good
<1>10. f[all] \in 1 .. n /\ Good(f[all])
  BY <1>1, <1>8, <1>9
<1> QED BY <1>2, <1>10 DEF Good

(* The last point that is not later, or one of several at the very time.     *)
LEMMA LowerPoint ==
  ASSUME NEW p, Len(p) \in Nat \ {0}, \A i \in 1 .. Len(p) : p[i].time \in Nat,
         \A i, j \in 1 .. Len(p) : i <= j => p[i].time <= p[j].time,
         NEW t \in Int, NEW b, b = findLower(p, t)
  PROVE  /\ b \in 1 .. Len(p)
         /\ b = 1 \/ p[b].time <= t
         /\ \A i \in 1 .. Len(p) : b < i => t <= p[i].time
<1> DEFINE idx == binarySearch_(p, t, 1, Len(p))
           S == {i \in 1 .. idx : p[i].time <= t} \union {1}
<1>1. idx \in 1 .. Len(p) /\ (idx = Len(p) \/ ~(p[idx].time < t))
  BY LowerSearch
<1>2. b = Max(S)
  BY DEF findLower
<1> HIDE DEF idx
<1>3. S \subseteq 1 .. Len(p) /\ S # {}
  BY <1>1
<1>4. b \in S /\ \A i \in S : i <= b
  <2> HIDE DEF S
  <2> QED BY <1>2, <1>3, MaxIndex
<1>5. ASSUME NEW i \in 1 .. Len(p), b < i
      PROVE  t <= p[i].time
  <2>1. CASE i <= idx
    <3>1. i \in 1 .. idx /\ i \notin S
      BY <1>1, <1>3, <1>4, <1>5, <2>1
    <3> QED BY <3>1
  <2>2. CASE ~(i <= idx)
    <3>1. idx <= i /\ idx # Len(p)
      BY <1>1, <2>2
    <3>2. t <= p[idx].time /\ p[idx].time <= p[i].time /\ p[idx].time \in Nat /\ p[i].time \in Nat
      BY <1>1, <3>1
    <3> QED BY <3>2
  <2> QED BY <2>1, <2>2
<1> QED BY <1>3, <1>4, <1>5

(***************************************************************************)
(* AbstractTask::doStatsTimeLimited() counts moments.                        *)
(***************************************************************************)
LEMMA MaxOfTwo ==
  ASSUME NEW a \in Int, NEW b \in Int
  PROVE  Max({a, b}) = IF a <= b THEN b ELSE a
<1> DEFINE S == {a, b}
<1>1. \A x \in S : x <= a \/ x <= b
  OBVIOUS
<1>2. S \subseteq Int /\ S # {}
  OBVIOUS
<1>3. PICK u \in Int : \A x \in S : x <= u
  <2>1. CASE a <= b
    BY <2>1
  <2>2. CASE ~(a <= b)
    BY <2>2
  <2> QED BY <2>1, <2>2
<1>4. Max(S) \in S /\ \A x \in S : x <= Max(S)
  <2> HIDE DEF S
  <2> QED BY <1>2, <1>3, MaxBounded
<1> DEFINE m == Max(S)
<1>5. m \in {a, b} /\ a <= m /\ b <= m
  BY <1>4
<1> HIDE DEF m
<1> QED BY <1>5 DEF m

LEMMA MinOfTwo ==
  ASSUME NEW a \in Int, NEW b \in Int
  PROVE  Min({a, b}) = IF a <= b THEN a ELSE b
<1> DEFINE m == IF a <= b THEN a ELSE b
<1>1. m \in {a, b} /\ \A x \in {a, b} : m <= x
  OBVIOUS
<1>2. \A x \in {a, b} : (\A y \in {a, b} : x <= y) => x = m
  OBVIOUS
<1> HIDE DEF m
<1>3. Min({a, b}) = m
  BY <1>1, <1>2 DEF Min
<1> QED BY <1>3 DEF m

Count(p, start, end) == {t \in start .. end - 1 : Runs(p, t)}

LEMMA CountFinite ==
  ASSUME NEW p, NEW start \in Int, NEW end \in Int
  PROVE  IsFiniteSet(Count(p, start, end)) /\ Cardinality(Count(p, start, end)) \in Nat
<1>1. IsFiniteSet(start .. end - 1)
  BY FS_Interval
<1>2. Count(p, start, end) \in SUBSET (start .. end - 1)
  BY DEF Count
<1> QED BY <1>1, <1>2, FS_Subset, FS_CardinalityType

(* AbstractTask::doStatsTimeLimited() counts the moments at which the graph   *)
(* is up, unless all points are before the start.                           *)
LEMMA StatsCount ==
  ASSUME NEW tr, NEW p, IsGraphOf(tr, p), Len(p) >= 2,
         NEW start \in Nat, NEW end \in Nat, start <= end,
         NEW d, d = doStatsTimeLimited(p, start, end)
  PROVE  /\ d = 0 \/ d = Cardinality(Count(p, start, end))
         /\ start <= p[Len(p)].time => d = Cardinality(Count(p, start, end))
<1> DEFINE n == Len(p)
           i1 == findLower(p, start)
           l2 == findLower(p, end)
           i2 == Max({i1, l2})
           From(i) == IF i = i1 THEN Max({start, p[i].time}) ELSE p[i].time
           To(i) == IF i < i2 THEN p[i + 1].time ELSE Max({end, From(i)})
           ran == [i \in i1 .. i2 |-> IF p[i].running THEN To(i) - From(i) ELSE 0]
           C == Count(p, start, end)
<1>1. /\ n \in Nat \ {0} /\ 1 \in 1 .. n /\ n \in 1 .. n
      /\ \A i \in 1 .. n : p[i].time \in Nat /\ p[i].running \in BOOLEAN
  BY GraphTimes
<1>2. \A i, j \in 1 .. n : i <= j => p[i].time <= p[j].time
  BY DEF IsGraphOf
<1>3. d = IF p[n].time < start \/ p[1].time > end \/ p[i1].time >= end THEN 0 ELSE SumFunction(ran)
  <2>1. n # 0 /\ n # 1
    BY <1>1
  <2> QED BY <2>1 DEF doStatsTimeLimited
<1>4. i1 \in 1 .. n /\ (i1 = 1 \/ p[i1].time <= start) /\ \A i \in 1 .. n : i1 < i => start <= p[i].time
  <2> HIDE DEF i1, n
  <2>1. Len(p) \in Nat \ {0} /\ start \in Int
    BY <1>1 DEF n
  <2> QED BY <1>1, <1>2, <2>1, LowerPoint DEF i1, n
<1>5. l2 \in 1 .. n /\ (l2 = 1 \/ p[l2].time <= end) /\ \A i \in 1 .. n : l2 < i => end <= p[i].time
  <2> HIDE DEF l2, n
  <2>1. Len(p) \in Nat \ {0} /\ end \in Int
    BY <1>1 DEF n
  <2> QED BY <1>1, <1>2, <2>1, LowerPoint DEF l2, n
<1> HIDE DEF i1, l2
<1>6. i2 \in 1 .. n /\ i1 <= i2 /\ l2 <= i2 /\ i2 \in {i1, l2}
  <2>1. i2 = IF i1 <= l2 THEN l2 ELSE i1
    BY <1>4, <1>5, MaxOfTwo
  <2> QED BY <1>4, <1>5, <2>1
<1> HIDE DEF i2
<1>7. \A t \in start .. end - 1 : t \in Nat /\ start <= t /\ t < end
  OBVIOUS
<1>8. ASSUME p[1].time > end \/ p[i1].time >= end
      PROVE  C = {}
  <2>1. SUFFICES ASSUME NEW t \in C PROVE FALSE
    OBVIOUS
  <2>2. t \in start .. end - 1 /\ Runs(p, t)
    BY <2>1 DEF Count
  <2>3. PICK i \in 1 .. n : p[i].time <= t
    BY <2>2 DEF Runs
  <2>4. p[1].time <= p[i].time /\ t \in Nat /\ start <= t /\ t < end
    BY <1>1, <1>2, <1>7, <2>2
  <2>5. p[1].time < end
    BY <1>1, <2>3, <2>4
  <2>6. p[i1].time >= end
    BY <1>1, <1>8, <2>5
  <2>7. i1 # 1
    BY <1>1, <2>5, <2>6
  <2>8. p[i1].time <= start
    BY <1>4, <2>7
  <2> QED BY <1>1, <1>4, <2>4, <2>6, <2>8
<1>9. CASE p[n].time < start \/ p[1].time > end \/ p[i1].time >= end
  <2>1. d = 0
    BY <1>3, <1>9
  <2>2. CASE p[n].time < start
    BY <1>1, <2>1, <2>2
  <2>3. CASE p[1].time > end \/ p[i1].time >= end
    <3>1. C = {}
      BY <1>8, <2>3
    <3> QED BY <2>1, <3>1, FS_EmptySet
  <2> QED BY <1>9, <2>2, <2>3
<1>10. CASE ~(p[n].time < start \/ p[1].time > end \/ p[i1].time >= end)
  <2>1. p[i1].time < end /\ p[i2].time <= end
    <3>1. p[i1].time < end
      BY <1>1, <1>4, <1>10
    <3>2. i2 = i1 \/ p[i2].time <= end
      BY <1>4, <1>5, <1>6
    <3> QED BY <1>1, <1>4, <3>1, <3>2
  <2>2. \A i \in i1 .. i2 : i \in 1 .. n /\ p[i].time \in Nat
    BY <1>1, <1>4, <1>6
  <2>3. ASSUME NEW i \in i1 .. i2
        PROVE  /\ From(i) \in Nat /\ p[i].time <= From(i) /\ start <= From(i)
               /\ From(i) <= end
               /\ \A t \in Int : start <= t /\ p[i].time <= t => From(i) <= t
               /\ i # i1 => From(i) = p[i].time
    <3>1. CASE i = i1
      <4>1. From(i) = IF start <= p[i].time THEN p[i].time ELSE start
        BY <2>2, <3>1, MaxOfTwo
      <4> HIDE DEF From
      <4> QED BY <2>1, <2>2, <3>1, <4>1
    <3>2. CASE i # i1
      <4>1. From(i) = p[i].time
        BY <3>2
      <4>2. i1 < i
        BY <1>4, <1>6, <3>2
      <4>3. start <= p[i].time /\ p[i].time <= p[i2].time
        BY <1>2, <1>4, <1>6, <2>2, <4>2
      <4> HIDE DEF From
      <4> QED BY <1>6, <2>1, <2>2, <3>2, <4>1, <4>3
    <3> QED BY <3>1, <3>2
  <2> HIDE DEF From
  <2>4. ASSUME NEW i \in i1 .. i2
        PROVE  /\ To(i) \in Nat /\ From(i) <= To(i) /\ To(i) <= end
               /\ i < i2 => To(i) = p[i + 1].time
               /\ i = i2 => To(i) = end
    <3>1. CASE i < i2
      <4>1. i + 1 \in i1 .. i2 /\ i + 1 \in 1 .. n /\ i \in 1 .. n /\ i1 < i + 1
        BY <1>4, <1>6, <3>1
      <4>2. To(i) = p[i + 1].time
        BY <3>1
      <4>3. start <= p[i + 1].time /\ p[i].time <= p[i + 1].time /\ p[i + 1].time <= p[i2].time
        BY <1>2, <1>4, <1>6, <4>1
      <4>4. From(i) <= p[i + 1].time
        BY <2>2, <2>3, <4>1, <4>3, SMTT(30)
      <4> HIDE DEF To
      <4> QED BY <1>6, <2>1, <2>2, <3>1, <4>1, <4>2, <4>3, <4>4
    <3>2. CASE ~(i < i2)
      <4>1. i = i2
        BY <1>4, <1>6, <3>2
      <4>2. To(i) = Max({end, From(i)})
        BY <3>2
      <4>3. Max({end, From(i)}) = end
        <5>1. Max({end, From(i)}) = IF end <= From(i) THEN From(i) ELSE end
          BY <2>3, MaxOfTwo
        <5> QED BY <2>3, <5>1
      <4> HIDE DEF To
      <4> QED BY <2>3, <3>2, <4>1, <4>2, <4>3
    <3> QED BY <3>1, <3>2
  <2> DEFINE A == [i \in i1 .. i2 |-> IF p[i].running THEN From(i) .. To(i) - 1 ELSE {}]
  <2>5. ran = [i \in i1 .. i2 |-> Cardinality(A[i])]
    <3>1. ASSUME NEW i \in i1 .. i2
          PROVE  (IF p[i].running THEN To(i) - From(i) ELSE 0) = Cardinality(A[i])
      <4>1. CASE p[i].running
        <5> DEFINE a == From(i)
                   b == To(i)
        <5>1. a \in Nat /\ b \in Nat /\ a <= b
          BY <2>3, <2>4
        <5>2. A[i] = a .. b - 1
          BY <4>1
        <5> HIDE DEF a, b, A
        <5>3. Cardinality(a .. b - 1) = b - a
          <6> DEFINE z == b - 1
          <6>1. a \in Int /\ z \in Int /\ (IF a > z THEN 0 ELSE z - a + 1) = b - a
            BY <5>1
          <6> HIDE DEF z
          <6>2. Cardinality(a .. z) = b - a
            BY <6>1, FS_Interval
          <6> QED BY <6>2 DEF z
        <5> QED BY <4>1, <5>2, <5>3 DEF a, b
      <4>2. CASE ~p[i].running
        BY <4>2, FS_EmptySet
      <4> QED BY <4>1, <4>2
    <3> HIDE DEF A, To
    <3> QED BY <3>1
  <2> HIDE DEF To
  <2>6. Apart(A, i1 .. i2)
    <3>1. ASSUME NEW i \in i1 .. i2
          PROVE  IsFiniteSet(A[i])
      <4> DEFINE z == To(i) - 1
      <4>1. From(i) \in Int /\ z \in Int
        BY <2>3, <2>4
      <4>2. A[i] = From(i) .. z \/ A[i] = {}
        OBVIOUS
      <4> HIDE DEF A, z
      <4> QED BY <4>1, <4>2, FS_Interval, FS_EmptySet
    <3>2. ASSUME NEW i \in i1 .. i2, NEW j \in i1 .. i2, i < j
          PROVE  A[i] \cap A[j] = {}
      <4>1. i < i2 /\ i + 1 \in 1 .. n /\ j \in 1 .. n /\ i + 1 <= j /\ j # i1
        BY <1>4, <1>6, <3>2
      <4>2. To(i) = p[i + 1].time /\ From(j) = p[j].time /\ p[i + 1].time <= p[j].time
        BY <1>2, <2>3, <2>4, <4>1
      <4>3. To(i) <= From(j) /\ To(i) \in Nat /\ From(j) \in Nat /\ From(i) \in Nat /\ To(j) \in Nat
        BY <2>3, <2>4, <4>2
      <4> QED BY <4>3
    <3>3. \A i, j \in i1 .. i2 : i # j => i < j \/ j < i
      BY <1>4, <1>6
    <3> HIDE DEF A
    <3> QED BY <3>1, <3>2, <3>3 DEF Apart
  <2>7. Parts(A, i1 .. i2) = C
    <3>1. ASSUME NEW i \in i1 .. i2, NEW t \in A[i]
          PROVE  t \in C
      <4>1. p[i].running /\ t \in From(i) .. To(i) - 1
        BY <3>1
      <4>2. t \in Nat /\ start <= t /\ t < end /\ p[i].time <= t /\ t < To(i)
        BY <2>2, <2>3, <2>4, <4>1
      <4>3. ASSUME NEW k \in 1 .. n, i < k
            PROVE  t < p[k].time
        <5>1. CASE i < i2
          <6>1. i + 1 \in 1 .. n /\ i + 1 <= k
            BY <1>4, <1>6, <4>3, <5>1
          <6>2. p[i + 1].time <= p[k].time /\ To(i) = p[i + 1].time
            BY <1>2, <2>4, <5>1, <6>1
          <6> QED BY <1>1, <4>2, <6>1, <6>2
        <5>2. CASE i = i2
          <6>1. l2 < k
            BY <1>5, <1>6, <4>3, <5>2
          <6> QED BY <1>1, <1>5, <4>2, <6>1
        <5> QED BY <1>4, <1>6, <5>1, <5>2
      <4>4. Runs(p, t)
        BY <2>2, <4>1, <4>2, <4>3 DEF Runs
      <4> QED BY <4>2, <4>4 DEF Count
    <3>2. ASSUME NEW t \in C
          PROVE  \E i \in i1 .. i2 : t \in A[i]
      <4>1. t \in Nat /\ start <= t /\ t < end /\ Runs(p, t)
        BY DEF Count
      <4>2. PICK i \in 1 .. n : /\ p[i].time <= t /\ p[i].running
                                /\ \A k \in 1 .. n : i < k => t < p[k].time
        BY <4>1 DEF Runs
      <4>3. i <= i2
        <5>1. ~(l2 < i)
          BY <1>1, <1>5, <4>1, <4>2
        <5> QED BY <1>5, <1>6, <5>1
      <4>4. i1 <= i
        <5>1. SUFFICES ASSUME i < i1 PROVE FALSE
          BY <1>4
        <5>2. t < p[i1].time /\ i1 # 1
          BY <1>4, <4>2, <5>1
        <5> QED BY <1>1, <1>4, <4>1, <5>2
      <4>5. i \in i1 .. i2
        BY <1>4, <1>6, <4>3, <4>4
      <4>6. From(i) <= t
        BY <2>3, <4>1, <4>2, <4>5
      <4>7. t < To(i)
        <5>1. CASE i < i2
          <6>1. i + 1 \in 1 .. n
            BY <1>6, <5>1
          <6> QED BY <2>4, <4>2, <4>5, <5>1, <6>1
        <5>2. CASE i = i2
          BY <2>4, <4>1, <4>5, <5>2
        <5> QED BY <1>6, <4>3, <5>1, <5>2
      <4>8. t \in From(i) .. To(i) - 1
        BY <2>3, <2>4, <4>1, <4>5, <4>6, <4>7
      <4> QED BY <4>2, <4>5, <4>8
    <3> HIDE DEF A, C
    <3> QED BY <3>1, <3>2 DEF Parts
  <2>8. IsFiniteSet(i1 .. i2)
    BY <1>4, <1>6, FS_Interval
  <2> HIDE DEF A, ran, C
  <2>9. SumFunction(ran) = Cardinality(C)
    BY <2>5, <2>6, <2>7, <2>8, SumOfParts
  <2>10. d = SumFunction(ran)
    BY <1>3, <1>10
  <2> QED BY <2>9, <2>10 DEF C
<1> QED BY <1>9, <1>10

(***************************************************************************)
(* TraceAnalyzer::doLimitedStats(): every moment of every CPU is some task's.*)
(***************************************************************************)
LEMMA OnCPUType ==
  ASSUME NEW tr, IsTrace(tr), NEW c, NEW n
  PROVE  OnCPU(tr, c, n) \in AllTasks
<1> DEFINE S == SwitchesOf(tr, c)
           B == {i \in S : i <= n}
<1>1. OnCPU(tr, c, n) = IF B # {} THEN tr[Max(B)].target
                        ELSE IF S # {} THEN tr[Min(S)].pid ELSE Idle
  BY DEF OnCPU, SwitchesOf
<1>2. /\ Len(tr) \in Nat /\ S \subseteq 1 .. Len(tr) /\ B \subseteq S
      /\ \A i \in 1 .. Len(tr) : tr[i] \in TracedEvent
  BY DEF SwitchesOf, IsTrace
<1>3. \A i \in S : tr[i].target \in AllTasks /\ tr[i].pid \in AllTasks
  BY <1>2 DEF TracedEvent, AllTasks
<1> HIDE DEF S, B
<1>4. B # {} => Max(B) \in S
  BY <1>2, MaxIndex
<1>5. S # {} => Min(S) \in S
  BY <1>2, MinIndex
<1> QED BY <1>1, <1>3, <1>4, <1>5 DEF AllTasks

(* The CPUs at every moment, those that a task has, and those that the      *)
(* dialog counts.                                                           *)
Slots(tr, start, end) == CPUNumbers(tr) \X (start .. end - 1)
Runner(tr, x) == OnCPU(tr, x[1], EventsUntil(tr, x[2]))
Had(tr, pid, start, end) == {x \in Slots(tr, start, end) : Runner(tr, x) = pid}
Counted(tr, pid, d, start, end) ==
  {x \in Slots(tr, start, end) : d # 0 /\ StartTime(tr) <= x[2] /\ Runner(tr, x) = pid}

(* There are as many moments of CPUs as the CPUs have time.                  *)
LEMMA SlotsCount ==
  ASSUME NEW tr, IsTrace(tr), NEW start \in Nat, NEW end \in Nat, start <= end
  PROVE  /\ IsFiniteSet(Slots(tr, start, end))
         /\ Cardinality(Slots(tr, start, end)) = (end - start) * NrCPUs(tr)
<1> DEFINE n == NrCPUs(tr)
           y == n - 1
           z == end - 1
<1>1. n \in Nat \ {0}
  BY TraceCPUs
<1> HIDE DEF n
<1>2. y \in Int /\ z \in Int
  BY <1>1
<1>3. /\ (IF 0 > y THEN 0 ELSE y - 0 + 1) = n
      /\ (IF start > z THEN 0 ELSE z - start + 1) = end - start
  BY <1>1
<1> HIDE DEF y, z
<1>4. IsFiniteSet(0 .. y) /\ Cardinality(0 .. y) = n
  BY <1>2, <1>3, FS_Interval
<1>5. IsFiniteSet(start .. z) /\ Cardinality(start .. z) = end - start
  BY <1>2, <1>3, FS_Interval
<1>6. IsFiniteSet((0 .. y) \X (start .. z)) /\ Cardinality((0 .. y) \X (start .. z)) = n * (end - start)
  BY <1>4, <1>5, FS_Product
<1>7. n * (end - start) = (end - start) * n
  BY <1>1
<1>8. Slots(tr, start, end) = (0 .. y) \X (start .. z)
  BY DEF Slots, CPUNumbers, y, z, n
<1> QED BY <1>6, <1>7, <1>8 DEF n

(* As many moments as the graph shows.                                      *)
LEMMA CountedIsCount ==
  ASSUME NEW tr, IsTrace(tr), IsComplete(tr), NEW pid \in Tasks, NEW p, p = Points(tr, pid),
         NEW start \in Nat, NEW end \in Nat, start <= end,
         NEW d, d = doStatsTimeLimited(p, start, end)
  PROVE  /\ d \in Nat
         /\ d = Cardinality(Counted(tr, pid, d, start, end))
         /\ start <= EndTime(tr) /\ StartTime(tr) <= start =>
              Counted(tr, pid, d, start, end) = Had(tr, pid, start, end)
<1> DEFINE A == Counted(tr, pid, d, start, end)
           C == Count(p, start, end)
           f == [x \in A |-> x[2]]
<1>1. /\ \A x \in Slots(tr, start, end) : /\ x[1] \in CPUNumbers(tr) /\ x[2] \in start .. end - 1
                                          /\ x = <<x[1], x[2]>>
      /\ \A c \in CPUNumbers(tr), t \in start .. end - 1 : <<c, t>> \in Slots(tr, start, end)
  BY DEF Slots
<1>2. \A t \in start .. end - 1 : t \in Nat /\ EventsUntil(tr, t) \in 0 .. Len(tr)
  BY UntilFacts
<1>3. pid # Idle
  BY IdleAssumption
<1>4. StartTime(tr) \in Nat
  BY TraceTimes
<1>5. CASE p = <<>> /\ \A n \in 0 .. Len(tr) : ~On(tr, pid, n)
  <2>1. d = 0
    BY <1>5 DEF doStatsTimeLimited
  <2>2. ASSUME NEW x \in Slots(tr, start, end)
        PROVE  Runner(tr, x) # pid
    <3>1. ~On(tr, pid, EventsUntil(tr, x[2])) /\ x[1] \in CPUNumbers(tr)
      BY <1>1, <1>2, <1>5
    <3> QED BY <3>1 DEF On, Runner
  <2>3. A = {} /\ Had(tr, pid, start, end) = {}
    BY <2>2 DEF Counted, Had
  <2> QED BY <2>1, <2>3, FS_EmptySet
<1>6. CASE /\ IsGraphOf(tr, p) /\ Len(p) >= 2 /\ p[Len(p)].time = EndTime(tr)
           /\ \A t \in Nat : StartTime(tr) <= t => (Runs(p, t) <=> On(tr, pid, EventsUntil(tr, t)))
  <2>1. /\ d = 0 \/ d = Cardinality(C)
        /\ start <= EndTime(tr) => d = Cardinality(C)
    BY <1>6, StatsCount
  <2>2. IsFiniteSet(C) /\ Cardinality(C) \in Nat
    BY CountFinite
  <2>3. \A t \in C : t \in start .. end - 1 /\ StartTime(tr) <= t /\ On(tr, pid, EventsUntil(tr, t))
    <3>1. SUFFICES ASSUME NEW t \in C
                   PROVE  t \in start .. end - 1 /\ StartTime(tr) <= t /\ On(tr, pid, EventsUntil(tr, t))
      OBVIOUS
    <3>2. t \in start .. end - 1 /\ Runs(p, t)
      BY DEF Count
    <3>3. PICK i \in 1 .. Len(p) : p[i].time <= t
      BY <3>2 DEF Runs
    <3>4. StartTime(tr) <= p[i].time /\ p[i].time \in Nat
      BY <1>6, GraphTimes
    <3>5. StartTime(tr) <= t
      BY <1>2, <1>4, <3>2, <3>3, <3>4
    <3> QED BY <1>2, <1>6, <3>2, <3>5
  <2>4. \A t \in start .. end - 1 : StartTime(tr) <= t /\ On(tr, pid, EventsUntil(tr, t)) => t \in C
    BY <1>2, <1>6 DEF Count
  <2>5. CASE d = 0
    <3>1. A = {}
      BY <2>5 DEF Counted
    <3>2. ASSUME start <= EndTime(tr), StartTime(tr) <= start
          PROVE  Had(tr, pid, start, end) = {}
      <4>1. C = {}
        BY <2>1, <2>2, <2>5, <3>2, FS_EmptySet
      <4>2. ASSUME NEW x \in Slots(tr, start, end), Runner(tr, x) = pid
            PROVE  FALSE
        <5>1. On(tr, pid, EventsUntil(tr, x[2]))
          BY <1>1, <4>2 DEF On, Runner
        <5>2. x[2] \in start .. end - 1 /\ StartTime(tr) <= x[2]
          BY <1>1, <1>2, <1>4, <3>2
        <5> HIDE DEF C
        <5> QED BY <2>4, <4>1, <5>1, <5>2
      <4> QED BY <4>2 DEF Had
    <3> QED BY <2>5, <3>1, <3>2, FS_EmptySet
  <2>6. CASE d # 0
    <3>1. f \in Surjection(A, C)
      <4>1. ASSUME NEW x \in A
            PROVE  x[2] \in C
        <5>1. /\ x \in Slots(tr, start, end) /\ StartTime(tr) <= x[2] /\ Runner(tr, x) = pid
          BY DEF Counted
        <5>2. On(tr, pid, EventsUntil(tr, x[2]))
          BY <1>1, <5>1 DEF On, Runner
        <5> HIDE DEF C
        <5> QED BY <1>1, <2>4, <5>1, <5>2
      <4>2. ASSUME NEW t \in C
            PROVE  \E x \in A : x[2] = t
        <5>1. t \in start .. end - 1 /\ StartTime(tr) <= t /\ On(tr, pid, EventsUntil(tr, t))
          BY <2>3
        <5>2. PICK c \in CPUNumbers(tr) : OnCPU(tr, c, EventsUntil(tr, t)) = pid
          BY <5>1 DEF On
        <5>3. <<c, t>> \in A
          BY <1>1, <2>6, <5>1, <5>2 DEF Counted, Runner
        <5> QED BY <5>3
      <4> HIDE DEF A, C
      <4> QED BY <4>1, <4>2 DEF Surjection
    <3>2. f \in Injection(A, C)
      <4>1. ASSUME NEW x \in A, NEW y \in A, x[2] = y[2]
            PROVE  x = y
        <5>1. /\ x \in Slots(tr, start, end) /\ Runner(tr, x) = pid
              /\ y \in Slots(tr, start, end) /\ Runner(tr, y) = pid
          BY DEF Counted
        <5> DEFINE n == EventsUntil(tr, x[2])
        <5>2. /\ x[1] \in CPUNumbers(tr) /\ y[1] \in CPUNumbers(tr) /\ n \in 0 .. Len(tr)
              /\ OnCPU(tr, x[1], n) = pid /\ OnCPU(tr, y[1], n) = pid
          BY <1>1, <1>2, <4>1, <5>1 DEF Runner
        <5> HIDE DEF n
        <5>3. x[1] = y[1]
          BY <1>3, <5>2 DEF IsComplete
        <5> QED BY <1>1, <4>1, <5>1, <5>3
      <4>2. f \in [A -> C]
        BY <3>1 DEF Surjection
      <4> HIDE DEF A, C
      <4> QED BY <4>1, <4>2 DEF Injection, IsInjective
    <3>3. A \in SUBSET Slots(tr, start, end)
      BY DEF Counted
    <3>4. IsFiniteSet(A) /\ Cardinality(A) \in Nat
      BY <3>3, SlotsCount, FS_Subset, FS_CardinalityType
    <3>5. Cardinality(C) = Cardinality(A)
      <4> HIDE DEF A, C, f
      <4> QED BY <3>1, <3>2, <3>4, FS_Surjection
    <3>6. ASSUME StartTime(tr) <= start
          PROVE  A = Had(tr, pid, start, end)
      <4>1. \A x \in Slots(tr, start, end) : StartTime(tr) <= x[2]
        BY <1>1, <1>2, <1>4, <3>6
      <4> QED BY <2>6, <4>1 DEF Counted, Had
    <3> QED BY <2>1, <2>6, <3>4, <3>5, <3>6
  <2> QED BY <2>5, <2>6
<1> QED BY <1>5, <1>6, PointsShow


(* The times of the dialog.                                                 *)
LEMMA LimitedStats ==
  ASSUME NEW tr, IsTrace(tr), IsComplete(tr), NEW graphs,
         \A pid \in Tasks : graphs[pid] = Points(tr, pid),
         NEW start \in Nat, NEW end \in Nat, start <= end,
         NEW r, r = doLimitedStats(tr, graphs, start, end)
  PROVE  /\ r \in [AllTasks -> Nat]
         /\ StartTime(tr) <= start /\ end <= EndTime(tr) =>
              \A pid \in AllTasks : r[pid] = Cardinality(Had(tr, pid, start, end))
         /\ \A pid \in Tasks : graphs[pid] = <<>> => r[pid] = 0
<1> DEFINE ran == [pid \in Tasks |-> doStatsTimeLimited(graphs[pid], start, end)]
           A == [pid \in Tasks |-> Counted(tr, pid, ran[pid], start, end)]
           S == Slots(tr, start, end)
           U == Parts(A, Tasks)
<1>1. r = [p \in AllTasks |-> IF p \in Tasks THEN ran[p]
                              ELSE (end - start) * NrCPUs(tr) - SumFunction(ran)]
  BY DEF doLimitedStats
<1>2. ASSUME NEW pid \in Tasks
      PROVE  /\ ran[pid] \in Nat
             /\ ran[pid] = Cardinality(A[pid])
             /\ A[pid] \subseteq S
             /\ \A x \in A[pid] : Runner(tr, x) = pid
             /\ start <= EndTime(tr) /\ StartTime(tr) <= start => A[pid] = Had(tr, pid, start, end)
             /\ graphs[pid] = <<>> => ran[pid] = 0
  <2>1. A[pid] = Counted(tr, pid, ran[pid], start, end) /\ graphs[pid] = Points(tr, pid)
        /\ ran[pid] = doStatsTimeLimited(graphs[pid], start, end)
    OBVIOUS
  <2> HIDE DEF A, ran
  <2>2. /\ ran[pid] \in Nat
        /\ ran[pid] = Cardinality(Counted(tr, pid, ran[pid], start, end))
        /\ start <= EndTime(tr) /\ StartTime(tr) <= start =>
              Counted(tr, pid, ran[pid], start, end) = Had(tr, pid, start, end)
    BY <2>1, CountedIsCount
  <2>3. graphs[pid] = <<>> => ran[pid] = 0
    BY <2>1 DEF doStatsTimeLimited
  <2> QED BY <2>1, <2>2, <2>3 DEF Counted
<1>3. IsFiniteSet(S) /\ Cardinality(S) = (end - start) * NrCPUs(tr) /\ Cardinality(S) \in Nat
  BY SlotsCount, FS_CardinalityType
<1>4. DOMAIN ran = Tasks /\ ran = [pid \in Tasks |-> ran[pid]]
  OBVIOUS
<1> HIDE DEF A, ran, S
<1>5. Apart(A, Tasks)
  <2>1. \A pid \in Tasks : IsFiniteSet(A[pid])
    BY <1>2, <1>3, FS_Subset
  <2> QED BY <1>2, <2>1 DEF Apart
<1>6. ran = [pid \in Tasks |-> Cardinality(A[pid])]
  BY <1>2, <1>4
<1>7. SumFunction(ran) = Cardinality(U)
  BY <1>5, <1>6, IdleAssumption, SumOfParts
<1>8. U \subseteq S
  BY <1>2 DEF Parts
<1>9. IsFiniteSet(U) /\ Cardinality(U) \in Nat /\ Cardinality(U) <= Cardinality(S)
  BY <1>3, <1>8, FS_Subset, FS_CardinalityType
<1>10. AllTasks = Tasks \cup {Idle} /\ Idle \notin Tasks
  BY IdleAssumption DEF AllTasks
<1>11. r[Idle] = Cardinality(S) - Cardinality(U) /\ r[Idle] \in Nat
  <2>1. r[Idle] = Cardinality(S) - Cardinality(U)
    BY <1>1, <1>3, <1>7, <1>10
  <2> HIDE DEF U
  <2> QED BY <1>3, <1>9, <2>1
<1>12. \A pid \in Tasks : r[pid] = ran[pid]
  BY <1>1, <1>10
<1>13. r \in [AllTasks -> Nat]
  <2>1. \A pid \in AllTasks : r[pid] \in Nat
    BY <1>2, <1>10, <1>11, <1>12
  <2>2. r = [pid \in AllTasks |-> r[pid]]
    BY <1>1
  <2> QED BY <2>1, <2>2
<1>14. ASSUME StartTime(tr) <= start, end <= EndTime(tr), NEW pid \in AllTasks
       PROVE  r[pid] = Cardinality(Had(tr, pid, start, end))
  <2>1. start <= EndTime(tr)
    BY <1>14, TraceTimes
  <2>2. \A q \in Tasks : A[q] = Had(tr, q, start, end)
    BY <1>2, <1>14, <2>1
  <2>3. CASE pid \in Tasks
    BY <1>2, <1>12, <2>2, <2>3
  <2>4. CASE pid = Idle
    <3>1. \A x : x \in Had(tr, Idle, start, end) <=> x \in S /\ x \notin U
      <4>1. \A x : Runner(tr, x) \in AllTasks
        BY OnCPUType DEF Runner
      <4>2. \A x : x \in U <=> \E q \in Tasks : x \in Had(tr, q, start, end)
        BY <2>2 DEF Parts
      <4>3. \A x, q : x \in Had(tr, q, start, end) <=> x \in S /\ Runner(tr, x) = q
        BY DEF Had, S
      <4> HIDE DEF U
      <4> QED BY <1>10, <4>1, <4>2, <4>3
    <3>2. Had(tr, Idle, start, end) = S \ U
      BY <3>1
    <3>3. S \cap U = U
      BY <1>8
    <3> HIDE DEF U
    <3>4. Cardinality(S \ U) = Cardinality(S) - Cardinality(U)
      <4>1. IsFiniteSet(S)
        BY <1>3
      <4>2. Cardinality(S \ U) = Cardinality(S) - Cardinality(S \cap U)
        BY ONLY <4>1, FS_Difference
      <4> QED BY <3>3, <4>2
    <3> QED BY <1>11, <2>4, <3>2, <3>4
  <2> QED BY <1>10, <2>3, <2>4
<1> QED BY <1>2, <1>12, <1>13, <1>14

(***************************************************************************)
(* vtl::heapsort().                                                          *)
(***************************************************************************)
Le(ran, a, b) == Compare(ran, a, b) <= 0
RunTimes == [AllTasks -> Nat]

(* The comparison of StatsLimitedModel orders the rows, the longest first.   *)
LEMMA CompareOrder ==
  ASSUME NEW ran \in RunTimes, NEW a \in AllTasks, NEW b \in AllTasks, NEW c \in AllTasks
  PROVE  /\ Le(ran, a, a)
         /\ Le(ran, a, b) /\ Le(ran, b, c) => Le(ran, a, c)
         /\ Compare(ran, a, b) < 0 => Le(ran, a, b)
         /\ ~(Compare(ran, a, b) < 0) => Le(ran, b, a)
         /\ Le(ran, a, b) => ran[b] <= ran[a]
<1> DEFINE Ordered(x, y) == IF ran[x] # ran[y] THEN ran[y] < ran[x]
                            ELSE IF Name[x] # Name[y] THEN Name[x] < Name[y] ELSE x <= y
<1>1. \A x \in AllTasks : ran[x] \in Nat /\ Name[x] \in Int /\ x \in Int
  BY NameAssumption, IdleAssumption DEF RunTimes, AllTasks
<1>2. \A x, y \in AllTasks : /\ Le(ran, x, y) <=> Ordered(x, y)
                             /\ Compare(ran, x, y) \in Int
                             /\ ~(Compare(ran, x, y) < 0) => Ordered(y, x)
  BY <1>1 DEF Le, Compare
<1>3. Ordered(a, a) /\ (Ordered(a, b) /\ Ordered(b, c) => Ordered(a, c)) /\ (Ordered(a, b) => ran[b] <= ran[a])
  BY <1>1
<1> HIDE DEF Ordered
<1>4. Compare(ran, a, b) < 0 => Le(ran, a, b)
  BY <1>2 DEF Le
<1> QED BY <1>2, <1>3, <1>4

Rows(n) == {s \in [1 .. n -> AllTasks] : IsInjective(s)}

(* swapItemsAt() changes the order only.                                     *)
LEMMA RowsSwapped ==
  ASSUME NEW n \in Nat, NEW s \in Rows(n), NEW i \in 1 .. n, NEW j \in 1 .. n
  PROVE  /\ swapItemsAt(s, i, j) \in Rows(n)
         /\ ToSet(swapItemsAt(s, i, j)) = ToSet(s)
         /\ \A k \in 1 .. n : swapItemsAt(s, i, j)[k] = IF k = i THEN s[j] ELSE IF k = j THEN s[i] ELSE s[k]
<1> DEFINE h == swapItemsAt(s, i, j)
<1>1. s \in [1 .. n -> AllTasks] /\ \A x, y \in 1 .. n : s[x] = s[y] => x = y
  BY DEF Rows, IsInjective
<1>2. DOMAIN h = 1 .. n /\ \A k \in 1 .. n : h[k] = IF k = i THEN s[j] ELSE IF k = j THEN s[i] ELSE s[k]
  BY <1>1 DEF swapItemsAt
<1>3. h \in [1 .. n -> AllTasks]
  BY <1>1 DEF swapItemsAt
<1> HIDE DEF h
<1>4. \A x, y \in 1 .. n : h[x] = h[y] => x = y
  BY <1>1, <1>2
<1>5. DOMAIN s = 1 .. n
  BY <1>1
<1>6. \A k \in 1 .. n : (\E m \in 1 .. n : s[m] = h[k]) /\ (\E m \in 1 .. n : h[m] = s[k])
  <2>1. ASSUME NEW k \in 1 .. n
        PROVE  (\E m \in 1 .. n : s[m] = h[k]) /\ (\E m \in 1 .. n : h[m] = s[k])
    <3>1. CASE k = i
      BY <1>2, <3>1
    <3>2. CASE k = j
      BY <1>2, <3>2
    <3>3. CASE k # i /\ k # j
      BY <1>2, <3>3
    <3> QED BY <3>1, <3>2, <3>3
  <2> QED BY <2>1
<1>7. ToSet(h) = ToSet(s)
  <2>1. \A x : x \in ToSet(h) <=> \E k \in 1 .. n : x = h[k]
    BY <1>2 DEF ToSet
  <2>2. \A x : x \in ToSet(s) <=> \E k \in 1 .. n : x = s[k]
    BY <1>5 DEF ToSet
  <2>3. \A x : x \in ToSet(h) <=> x \in ToSet(s)
    BY <1>6, <2>1, <2>2
  <2> HIDE DEF h
  <2> QED BY <2>3
<1> QED BY <1>2, <1>3, <1>4, <1>7 DEF Rows, IsInjective, h

LargerOf(ran, end, h, i, j) == IF j <= end /\ Compare(ran, h[i], h[j]) < 0 THEN j ELSE i
SwapOf(ran, end, x) ==
  LargerOf(ran, end, x.heap, LargerOf(ran, end, x.heap, x.root, 2 * x.root), 2 * x.root + 1)
SiftStates(n, X) == [heap : [1 .. n -> X], root : 1 .. n]
SiftNext(ran, end, x) ==
  [heap |-> swapItemsAt(x.heap, x.root, SwapOf(ran, end, x)), root |-> SwapOf(ran, end, x)]
IsSift(ran, n, X, end, f) ==
  f = [x \in SiftStates(n, X) |-> IF SwapOf(ran, end, x) = x.root THEN x.heap
                                  ELSE f[SiftNext(ran, end, x)]]

LEMMA SiftDef ==
  ASSUME NEW ran, NEW s, NEW start, NEW end
  PROVE  siftdown(ran, s, start, end) =
           (CHOOSE f : IsSift(ran, Len(s), ToSet(s), end, f))[[heap |-> s, root |-> start]]
BY DEF siftdown, IsSift, SiftStates, SiftNext, SwapOf, LargerOf

Children(i) == {2 * i, 2 * i + 1}

(* siftdown() exchanges the root and the larger item below it, if that is larger. *)
LEMMA SwapFacts ==
  ASSUME NEW ran \in RunTimes, NEW n \in Nat, NEW end \in 0 .. n,
         NEW x, x.heap \in [1 .. n -> AllTasks], x.root \in 1 .. n,
         NEW w, w = SwapOf(ran, end, x)
  PROVE  /\ w \in 1 .. n /\ w \in {x.root} \cup Children(x.root)
         /\ Le(ran, x.heap[x.root], x.heap[w])
         /\ \A c \in Children(x.root) : c <= end => Le(ran, x.heap[c], x.heap[w])
         /\ w # x.root => x.root < w /\ w <= end
<1> DEFINE h == x.heap
           r == x.root
           v == LargerOf(ran, end, h, r, 2 * r)
<1>1. \A k \in 1 .. n : h[k] \in AllTasks
  OBVIOUS
<1>2. r \in 1 .. n /\ 2 * r \in Nat /\ r < 2 * r
  OBVIOUS
<1>3. w = LargerOf(ran, end, h, v, 2 * r + 1)
  BY DEF SwapOf
<1> HIDE DEF h, r
<1>4. /\ v \in 1 .. n /\ v \in {r, 2 * r} /\ Le(ran, h[r], h[v])
      /\ 2 * r <= end => Le(ran, h[2 * r], h[v])
      /\ v # r => 2 * r <= end
  <2>1. CASE 2 * r <= end /\ Compare(ran, h[r], h[2 * r]) < 0
    <3>1. v = 2 * r /\ 2 * r \in 1 .. n
      BY <1>2, <2>1 DEF LargerOf
    <3> HIDE DEF v
    <3> QED BY <1>1, <1>2, <2>1, <3>1, CompareOrder
  <2>2. CASE ~(2 * r <= end /\ Compare(ran, h[r], h[2 * r]) < 0)
    <3>1. v = r
      BY <2>2 DEF LargerOf
    <3>2. Le(ran, h[r], h[r])
      BY <1>1, <1>2, CompareOrder
    <3>3. ASSUME 2 * r <= end
          PROVE  Le(ran, h[2 * r], h[r])
      <4>1. 2 * r \in 1 .. n
        BY <1>2, <3>3
      <4> QED BY <1>1, <1>2, <2>2, <3>3, <4>1, CompareOrder
    <3> HIDE DEF v
    <3> QED BY <1>2, <3>1, <3>2, <3>3
  <2> QED BY <2>1, <2>2
<1> HIDE DEF v
<1> DEFINE q == 2 * r + 1
<1>5. q \in Nat /\ 2 * r < q /\ r < q /\ 1 <= q
  BY <1>2
<1>6. w = LargerOf(ran, end, h, v, q)
  BY <1>3
<1>7. \A c \in Children(r) : c = 2 * r \/ c = q
  BY DEF Children
<1>8. 2 * r \in Children(r) /\ q \in Children(r)
  BY DEF Children
<1> HIDE DEF q
<1>9. CASE q <= end /\ Compare(ran, h[v], h[q]) < 0
  <2>1. w = q /\ q \in 1 .. n
    BY <1>5, <1>6, <1>9 DEF LargerOf
  <2>2. Le(ran, h[v], h[q]) /\ Le(ran, h[q], h[q])
    BY <1>1, <1>4, <1>9, <2>1, CompareOrder
  <2>3. Le(ran, h[r], h[q])
    BY <1>1, <1>2, <1>4, <2>1, <2>2, CompareOrder
  <2>4. ASSUME 2 * r <= end
        PROVE  Le(ran, h[2 * r], h[q])
    <3>1. 2 * r \in 1 .. n
      BY <1>2, <2>4
    <3> QED BY <1>1, <1>4, <2>1, <2>2, <2>4, <3>1, CompareOrder
  <2> QED BY <1>5, <1>7, <1>8, <1>9, <2>1, <2>2, <2>3, <2>4 DEF h, r
<1>10. CASE ~(q <= end /\ Compare(ran, h[v], h[q]) < 0)
  <2>1. w = v
    BY <1>6, <1>10 DEF LargerOf
  <2>2. ASSUME q <= end
        PROVE  Le(ran, h[q], h[v])
    <3>1. q \in 1 .. n
      BY <1>5, <2>2
    <3> QED BY <1>1, <1>4, <1>10, <2>2, <3>1, CompareOrder
  <2> QED BY <1>2, <1>4, <1>7, <1>8, <2>1, <2>2 DEF h, r
<1> QED BY <1>9, <1>10

SameOutside(n, s, t, start, end) == \A k \in 1 .. n : k < start \/ end < k => t[k] = s[k]
Below(ran, h, i, end, top) == \A c \in Children(i) : c <= end => Le(ran, h[c], top)
HeapFrom(ran, h, start, end) == \A i \in start .. end : Below(ran, h, i, end, h[i])

Sifting(ran, n, s, start, end, x) ==
  /\ x.heap \in Rows(n) /\ ToSet(x.heap) = ToSet(s)
  /\ SameOutside(n, s, x.heap, start, end)
  /\ x.root \in start .. end
  /\ \A i \in start .. end : i # x.root => Below(ran, x.heap, i, end, x.heap[i])
  /\ \A i \in start .. end : x.root \in Children(i) => Below(ran, x.heap, x.root, end, x.heap[i])

LEMMA ChildFacts ==
  ASSUME NEW i \in Nat \ {0}, NEW j \in Nat \ {0}, NEW c \in Children(i)
  PROVE  c \in Nat \ {0} /\ i < c /\ (c \in Children(j) => i = j)
BY DEF Children

(* The invariant of the loop of siftdown(): all but the root is a heap.      *)
LEMMA SiftingGoesOn ==
  ASSUME NEW ran \in RunTimes, NEW n \in Nat, NEW s, NEW start \in 1 .. n, NEW end \in start .. n,
         NEW x, x.root \in 1 .. n, Sifting(ran, n, s, start, end, x),
         NEW w, w = SwapOf(ran, end, x), w # x.root,
         NEW y, y = SiftNext(ran, end, x)
  PROVE  Sifting(ran, n, s, start, end, y)
<1> DEFINE h == x.heap
           r == x.root
           g == y.heap
<1>1. /\ h \in Rows(n) /\ h \in [1 .. n -> AllTasks] /\ r \in start .. end /\ end \in 0 .. n
      /\ ToSet(h) = ToSet(s) /\ SameOutside(n, s, h, start, end)
      /\ \A i \in start .. end : i # r => Below(ran, h, i, end, h[i])
      /\ \A i \in start .. end : r \in Children(i) => Below(ran, h, r, end, h[i])
  BY DEF Sifting, Rows
<1>2. /\ w \in 1 .. n /\ w \in Children(r) /\ r < w /\ w <= end
      /\ Le(ran, h[r], h[w]) /\ Below(ran, h, r, end, h[w])
  BY <1>1, SwapFacts DEF Below
<1>3. g = swapItemsAt(h, r, w) /\ y.root = w
  BY DEF SiftNext
<1> HIDE DEF h, r, g
<1>4. r \in 1 .. n /\ r \in Nat \ {0} /\ w \in start .. end /\ w \in Nat \ {0}
  BY <1>1, <1>2
<1>5. /\ g \in Rows(n) /\ ToSet(g) = ToSet(s)
      /\ \A k \in 1 .. n : g[k] = IF k = r THEN h[w] ELSE IF k = w THEN h[r] ELSE h[k]
  <2>1. h \in Rows(n) /\ r \in 1 .. n /\ w \in 1 .. n
    BY <1>1, <1>2, <1>4
  <2>2. /\ swapItemsAt(h, r, w) \in Rows(n)
        /\ ToSet(swapItemsAt(h, r, w)) = ToSet(h)
        /\ \A k \in 1 .. n : swapItemsAt(h, r, w)[k] = IF k = r THEN h[w] ELSE IF k = w THEN h[r] ELSE h[k]
    BY ONLY <2>1, n \in Nat, RowsSwapped
  <2> QED BY <1>1, <1>3, <2>2
<1>6. SameOutside(n, s, g, start, end)
  BY <1>1, <1>4, <1>5 DEF SameOutside
<1>7. ASSUME NEW i \in start .. end, i # w, NEW c \in Children(i), c <= end
      PROVE  Le(ran, g[c], g[i])
  <2>1. i \in Nat \ {0} /\ i \in 1 .. n /\ c \in Nat \ {0} /\ i < c /\ c \in 1 .. n
    BY <1>7, ChildFacts
  <2>2. CASE i = r
    <3>1. g[i] = h[w] /\ c # r
      BY <1>5, <2>1, <2>2
    <3>2. g[c] = IF c = w THEN h[r] ELSE h[c]
      BY <1>5, <2>1, <3>1
    <3>3. Le(ran, h[c], h[w])
      BY <1>2, <1>7, <2>2 DEF Below
    <3> QED BY <1>2, <3>1, <3>2, <3>3
  <2>3. CASE i # r
    <3>1. g[i] = h[i] /\ c # w
      BY <1>2, <1>4, <1>5, <1>7, <2>1, <2>3, ChildFacts
    <3>2. CASE c = r
      <4>1. g[c] = h[w] /\ Below(ran, h, r, end, h[i])
        BY <1>1, <1>5, <2>1, <3>2
      <4> QED BY <1>2, <3>1, <4>1 DEF Below
    <3>3. CASE c # r
      <4>1. g[c] = h[c] /\ Below(ran, h, i, end, h[i])
        BY <1>1, <1>5, <2>1, <2>3, <3>1, <3>3
      <4> QED BY <1>7, <3>1, <4>1 DEF Below
    <3> QED BY <3>2, <3>3
  <2> QED BY <2>2, <2>3
<1>8. ASSUME NEW i \in start .. end, w \in Children(i), NEW c \in Children(w), c <= end
      PROVE  Le(ran, g[c], g[i])
  <2>1. i \in Nat \ {0}
    OBVIOUS
  <2>2. i = r
    BY <1>2, <1>4, <1>8, <2>1, ChildFacts
  <2>3. c \in 1 .. n /\ w < c
    BY <1>4, <1>8, ChildFacts
  <2>4. c # r /\ c # w
    BY <1>2, <1>4, <2>3
  <2>5. g[c] = h[c] /\ g[i] = h[w]
    BY <1>4, <1>5, <2>2, <2>3, <2>4
  <2>6. Below(ran, h, w, end, h[w])
    BY <1>1, <1>2, <1>4
  <2> QED BY <1>8, <2>5, <2>6 DEF Below
<1> QED BY <1>3, <1>4, <1>5, <1>6, <1>7, <1>8 DEF Sifting, Below, g

(* The root only goes down, so the loop ends.                                *)
LEMMA SiftExists ==
  ASSUME NEW ran \in RunTimes, NEW n \in Nat \ {0}, NEW X, X \subseteq AllTasks, X # {}, NEW end \in 0 .. n
  PROVE  \E f : IsSift(ran, n, X, end, f)
<1> DEFINE S == SiftStates(n, X)
           R == [1 .. n -> X]
           D == {x \in S : SwapOf(ran, end, x) = x.root}
           out == [x \in S |-> x.heap]
           next == [x \in S |-> SiftNext(ran, end, x)]
           m == [x \in S |-> n - x.root]
<1>1. \A x \in S : x.heap \in [1 .. n -> X] /\ x.heap \in [1 .. n -> AllTasks] /\ x.root \in 1 .. n
  BY DEF SiftStates
<1>2. ASSUME NEW x \in S
      PROVE  SwapOf(ran, end, x) \in 1 .. n /\ (SwapOf(ran, end, x) # x.root => x.root < SwapOf(ran, end, x))
  BY <1>1, <1>2, SwapFacts
<1>3. ASSUME NEW x \in S
      PROVE  SiftNext(ran, end, x) \in S
  <2> DEFINE w == SwapOf(ran, end, x)
  <2>1. w \in 1 .. n
    BY <1>2, <1>3
  <2> HIDE DEF w
  <2>2. swapItemsAt(x.heap, x.root, w) \in [1 .. n -> X]
    BY <1>1, <1>3, <2>1 DEF swapItemsAt
  <2>3. SiftNext(ran, end, x) = [heap |-> swapItemsAt(x.heap, x.root, w), root |-> w]
    BY DEF SiftNext, w
  <2> QED BY <2>1, <2>2, <2>3 DEF SiftStates
<1>4. out \in [S -> R] /\ next \in [S -> S]
  <2>1. \A x \in S : x.heap \in R
    BY <1>1
  <2> HIDE DEF S, R
  <2> QED BY <1>3, <2>1
<1>5. m \in [S -> 0 .. n]
  BY <1>1
<1>6. \A x \in S : x \notin D => m[next[x]] < m[x]
  <2>1. SUFFICES ASSUME NEW x \in S, x \notin D PROVE m[next[x]] < m[x]
    OBVIOUS
  <2> DEFINE y == SiftNext(ran, end, x)
  <2>2. y \in S /\ y.root = SwapOf(ran, end, x) /\ next[x] = y
    BY <1>3, <2>1 DEF SiftNext
  <2>3. y.root \in 1 .. n /\ x.root \in 1 .. n /\ x.root < y.root
    BY <1>1, <1>2, <2>1, <2>2
  <2> HIDE DEF y
  <2>4. m[y] = n - y.root /\ m[x] = n - x.root
    BY <2>1, <2>2
  <2> HIDE DEF m, next
  <2> QED BY <2>2, <2>3, <2>4
<1>7. \E r : r \in R
  <2>1. PICK a \in X : TRUE
    OBVIOUS
  <2>2. [k \in 1 .. n |-> a] \in R
    OBVIOUS
  <2> QED BY <2>2
<1>8. PICK f : IsTailRecursion(S, D, out, next, f)
  <2> HIDE DEF S, R, D, out, next, m
  <2>1. n \in Nat
    OBVIOUS
  <2> QED BY <1>4, <1>5, <1>6, <1>7, <2>1, TailRecursion
<1>9. f = [x \in S |-> IF SwapOf(ran, end, x) = x.root THEN x.heap ELSE f[SiftNext(ran, end, x)]]
  <2>1. f = [x \in S |-> IF x \in D THEN out[x] ELSE f[next[x]]]
    BY <1>8 DEF IsTailRecursion
  <2>2. \A x \in S : /\ x \in D <=> SwapOf(ran, end, x) = x.root
                     /\ out[x] = x.heap /\ next[x] = SiftNext(ran, end, x)
    OBVIOUS
  <2> HIDE DEF S, D, out, next
  <2> QED BY <2>1, <2>2
<1> QED BY <1>9 DEF IsSift

LEMMA RowsLen ==
  ASSUME NEW n \in Nat, NEW s, s \in [1 .. n -> AllTasks]
  PROVE  s \in Seq(AllTasks) /\ Len(s) = n /\ DOMAIN s = 1 .. n
<1>1. s \in Seq(AllTasks)
  OBVIOUS
<1>2. DOMAIN s = 1 .. n
  OBVIOUS
<1>3. DOMAIN s = 1 .. Len(s) /\ Len(s) \in Nat
  BY <1>1
<1> QED BY <1>1, <1>2, <1>3

(* siftdown() makes a heap of what is a heap but for its root.               *)
LEMMA Sifted ==
  ASSUME NEW ran \in RunTimes, NEW n \in Nat \ {0}, NEW s \in Rows(n), NEW start \in 1 .. n,
         NEW end \in start .. n, HeapFrom(ran, s, start + 1, end),
         NEW t, t = siftdown(ran, s, start, end)
  PROVE  /\ t \in Rows(n) /\ ToSet(t) = ToSet(s)
         /\ SameOutside(n, s, t, start, end)
         /\ HeapFrom(ran, t, start, end)
<1>1. s \in [1 .. n -> AllTasks] /\ Len(s) = n /\ DOMAIN s = 1 .. n /\ end \in 0 .. n
  BY RowsLen DEF Rows
<1> DEFINE X == ToSet(s)
<1>2. X \subseteq AllTasks /\ X # {} /\ s \in [1 .. n -> X]
  BY <1>1 DEF ToSet
<1> HIDE DEF X
<1>3. PICK f : f = (CHOOSE g : IsSift(ran, n, X, end, g))
  OBVIOUS
<1>4. IsSift(ran, n, X, end, f)
  BY <1>1, <1>2, <1>3, SiftExists
<1>5. t = f[[heap |-> s, root |-> start]]
  BY <1>1, <1>3, SiftDef DEF X
<1> DEFINE S == SiftStates(n, X)
           Good(u) == /\ u \in Rows(n) /\ ToSet(u) = ToSet(s)
                      /\ SameOutside(n, s, u, start, end)
                      /\ HeapFrom(ran, u, start, end)
           T == {x \in S : Sifting(ran, n, s, start, end, x) => Good(f[x])}
           m == [x \in S |-> n - x.root]
<1>6. \A x \in S : x.heap \in [1 .. n -> X] /\ x.root \in 1 .. n
  BY DEF SiftStates
<1>7. m \in [S -> Nat]
  BY <1>6
<1>8. ASSUME NEW x \in S, \A y \in S : m[y] < m[x] => y \in T
      PROVE  x \in T
  <2> SUFFICES ASSUME Sifting(ran, n, s, start, end, x)
               PROVE  Good(f[x])
    OBVIOUS
  <2> DEFINE w == SwapOf(ran, end, x)
             y == SiftNext(ran, end, x)
  <2>1. f[x] = IF w = x.root THEN x.heap ELSE f[y]
    BY <1>4 DEF IsSift
  <2>2. /\ x.heap \in [1 .. n -> AllTasks] /\ x.root \in 1 .. n /\ x.heap \in Rows(n)
        /\ w \in 1 .. n /\ Below(ran, x.heap, x.root, end, x.heap[w])
        /\ w # x.root => x.root < w
    <3>1. x.heap \in [1 .. n -> AllTasks] /\ x.root \in 1 .. n /\ x.heap \in Rows(n)
      BY <1>6 DEF Sifting, Rows
    <3> QED BY <1>1, <3>1, SwapFacts DEF Below
  <2> HIDE DEF w, y
  <2>3. CASE w = x.root
    <3>1. HeapFrom(ran, x.heap, start, end)
      BY <2>2, <2>3 DEF HeapFrom, Sifting
    <3> QED BY <2>1, <2>3, <3>1 DEF Sifting
  <2>4. CASE w # x.root
    <3>1. Sifting(ran, n, s, start, end, y)
      BY <1>1, <2>2, <2>4, SiftingGoesOn DEF w, y
    <3>2. y.root = w
      BY DEF y, w, SiftNext
    <3>3. y \in S
      <4>1. y = [heap |-> y.heap, root |-> y.root]
        BY DEF y, SiftNext
      <4>2. y.heap \in [1 .. n -> AllTasks] /\ ToSet(y.heap) = X
        BY <3>1 DEF Sifting, Rows, X
      <4>3. y.heap \in [1 .. n -> X]
        BY <4>2 DEF ToSet
      <4> QED BY <2>2, <3>2, <4>1, <4>3 DEF SiftStates
    <3>4. m[y] < m[x]
      BY <2>2, <2>4, <3>2, <3>3
    <3>5. y \in T
      BY <1>8, <3>3, <3>4
    <3>6. Good(f[y])
      BY <3>1, <3>5
    <3> HIDE DEF Good
    <3> QED BY <2>1, <2>4, <3>6
  <2> QED BY <2>3, <2>4
<1>9. [heap |-> s, root |-> start] \in S
  BY <1>2 DEF SiftStates
<1> DEFINE x0 == [heap |-> s, root |-> start]
<1>10. Sifting(ran, n, s, start, end, x0)
  <2>1. x0.heap = s /\ x0.root = start
    OBVIOUS
  <2> HIDE DEF x0
  <2>2. SameOutside(n, s, s, start, end)
    BY DEF SameOutside
  <2>3. \A i \in start .. end : i # start => Below(ran, s, i, end, s[i])
    <3>1. \A i \in start .. end : i # start => i \in (start + 1) .. end
      OBVIOUS
    <3> QED BY <3>1 DEF HeapFrom
  <2>4. \A i \in start .. end : start \notin Children(i)
    BY DEF Children
  <2>5. start \in start .. end
    OBVIOUS
  <2> QED BY <2>1, <2>2, <2>3, <2>4, <2>5 DEF Sifting
<1>11. \A x \in S : x \in T
  <2> HIDE DEF S, T, m
  <2> QED BY <1>7, <1>8, MeasureInduction
<1>12. Good(t)
  BY <1>5, <1>9, <1>10, <1>11
<1> QED BY <1>12

(* siftdown() only exchanges items.                                         *)
LEMMA SiftedRows ==
  ASSUME NEW ran \in RunTimes, NEW n \in Nat \ {0}, NEW s \in Rows(n), NEW start \in 1 .. n,
         NEW end \in 0 .. n, NEW t, t = siftdown(ran, s, start, end)
  PROVE  t \in Rows(n)
<1>1. s \in [1 .. n -> AllTasks] /\ Len(s) = n /\ DOMAIN s = 1 .. n
  BY RowsLen DEF Rows
<1> DEFINE X == ToSet(s)
<1>2. X \subseteq AllTasks /\ X # {} /\ s \in [1 .. n -> X]
  BY <1>1 DEF ToSet
<1> HIDE DEF X
<1>3. PICK f : f = (CHOOSE g : IsSift(ran, n, X, end, g))
  OBVIOUS
<1>4. IsSift(ran, n, X, end, f)
  BY <1>2, <1>3, SiftExists
<1>5. t = f[[heap |-> s, root |-> start]]
  BY <1>1, <1>3, SiftDef DEF X
<1> DEFINE S == SiftStates(n, X)
           T == {x \in S : x.heap \in Rows(n) => f[x] \in Rows(n)}
           m == [x \in S |-> n - x.root]
<1>6. \A x \in S : x.heap \in [1 .. n -> X] /\ x.heap \in [1 .. n -> AllTasks] /\ x.root \in 1 .. n
  BY <1>2 DEF SiftStates
<1>7. m \in [S -> Nat]
  BY <1>6
<1>8. ASSUME NEW x \in S, \A y \in S : m[y] < m[x] => y \in T
      PROVE  x \in T
  <2> SUFFICES ASSUME x.heap \in Rows(n)
               PROVE  f[x] \in Rows(n)
    OBVIOUS
  <2> DEFINE w == SwapOf(ran, end, x)
             y == SiftNext(ran, end, x)
  <2>1. f[x] = IF w = x.root THEN x.heap ELSE f[y]
    BY <1>4 DEF IsSift
  <2>2. w \in 1 .. n /\ (w # x.root => x.root < w) /\ x.root \in 1 .. n
    BY <1>6, SwapFacts
  <2>3. y.heap = swapItemsAt(x.heap, x.root, w) /\ y.root = w /\ y = [heap |-> y.heap, root |-> y.root]
    BY DEF SiftNext
  <2> HIDE DEF w, y
  <2>4. CASE w # x.root
    <3>1. y.heap \in Rows(n)
      BY ONLY <2>2, <2>3, x.heap \in Rows(n), n \in Nat \ {0}, RowsSwapped
    <3>2. y.heap \in [1 .. n -> X]
      BY <1>6, <2>2, <2>3, SMTT(30) DEF swapItemsAt
    <3>3. y \in S
      BY <2>2, <2>3, <3>2 DEF SiftStates
    <3>4. m[y] < m[x]
      BY <2>2, <2>3, <2>4, <3>3
    <3>5. y \in T
      BY <1>8, <3>3, <3>4
    <3> QED BY <2>1, <2>4, <3>1, <3>5
  <2> QED BY <2>1, <2>4
<1>9. [heap |-> s, root |-> start] \in S
  BY <1>2 DEF SiftStates
<1>10. \A x \in S : x \in T
  <2> HIDE DEF S, T, m
  <2> QED BY <1>7, <1>8, MeasureInduction
<1>11. [heap |-> s, root |-> start].heap = s
  OBVIOUS
<1>12. f[[heap |-> s, root |-> start]] \in Rows(n)
  BY <1>9, <1>10, <1>11
<1> QED BY <1>5, <1>12

IsHeapify(ran, s, n, f) ==
  f = [k \in 0 .. n \div 2 |-> IF k = 0 THEN s ELSE siftdown(ran, f[k - 1], n \div 2 + 1 - k, n)]

LEMMA Halved ==
  ASSUME NEW n \in Nat
  PROVE  n \div 2 \in 0 .. n /\ 2 * (n \div 2) <= n /\ n < 2 * (n \div 2) + 2
OBVIOUS

(* heapify() makes a heap: the items after each parent already are.          *)
LEMMA Heapified ==
  ASSUME NEW ran \in RunTimes, NEW n \in Nat \ {0}, NEW s \in Rows(n), NEW t, t = heapify(ran, s)
  PROVE  t \in Rows(n) /\ ToSet(t) = ToSet(s) /\ HeapFrom(ran, t, 1, n)
<1> DEFINE N == n \div 2
           V == Rows(n)
           G == [a \in (1 .. N) \X V |-> siftdown(ran, a[2], N + 1 - a[1], n)]
<1>1. Len(s) = n
  BY RowsLen DEF Rows
<1>2. N \in 0 .. n /\ 2 * N <= n /\ n < 2 * N + 2
  <2>1. n \in Nat
    OBVIOUS
  <2> QED BY <2>1, Halved
<1>3. t = (CHOOSE f : IsHeapify(ran, s, n, f))[N]
  BY <1>1 DEF heapify, IsHeapify
<1> HIDE DEF N
<1>4. \E f : IsHeapify(ran, s, n, f)
  <2>1. ASSUME NEW a \in (1 .. N) \X V
        PROVE  siftdown(ran, a[2], N + 1 - a[1], n) \in V
    <3>1. N + 1 - a[1] \in 1 .. n /\ a[2] \in Rows(n) /\ n \in 0 .. n
      BY <1>2
    <3> QED BY <3>1, SiftedRows
  <2>2. G \in [(1 .. N) \X V -> V]
    BY <2>1
  <2>3. PICK f \in [0 .. N -> V] : IsRecursion(N, s, G, f)
    <3> HIDE DEF G, V
    <3>1. s \in V /\ N \in Nat
      BY <1>2 DEF V
    <3> QED BY <2>2, <3>1, RecursionUpTo
  <2>4. \A k \in 0 .. N : k # 0 => <<k, f[k - 1]>> \in (1 .. N) \X V
    <3> HIDE DEF V
    <3> QED BY <1>2
  <2>5. \A k \in 0 .. N : k # 0 => G[<<k, f[k - 1]>>] = siftdown(ran, f[k - 1], N + 1 - k, n)
    <3> HIDE DEF V
    <3> QED BY <2>4
  <2>6. f = [k \in 0 .. N |-> IF k = 0 THEN s ELSE siftdown(ran, f[k - 1], N + 1 - k, n)]
    <3> HIDE DEF V, G
    <3> QED BY <2>3, <2>5 DEF IsRecursion
  <2> QED BY <2>6 DEF IsHeapify, N
<1>5. PICK f : IsHeapify(ran, s, n, f) /\ t = f[N]
  BY <1>3, <1>4
<1> DEFINE T == {k \in 0 .. N : /\ f[k] \in Rows(n) /\ ToSet(f[k]) = ToSet(s)
                                /\ HeapFrom(ran, f[k], N + 1 - k, n)}
<1>6. 0 \in T
  <2>1. f[0] = s
    BY <1>2, <1>5 DEF IsHeapify, N
  <2>2. \A i \in (N + 1) .. n : \A c \in Children(i) : n < c
    BY <1>2 DEF Children
  <2>3. \A i \in (N + 1 - 0) .. n : \A c \in Children(i) : ~(c <= n)
    BY <1>2, <2>2 DEF Children
  <2>4. HeapFrom(ran, s, N + 1 - 0, n)
    BY <2>3 DEF HeapFrom, Below
  <2> QED BY <1>2, <2>1, <2>4
<1>7. ASSUME NEW k \in 0 .. N - 1, k \in T
      PROVE  k + 1 \in T
  <2> DEFINE g == f[k]
             start == N - k
  <2>1. f[k + 1] = siftdown(ran, g, start, n)
    <3>1. k + 1 \in 0 .. N /\ k + 1 # 0 /\ k + 1 - 1 = k /\ N + 1 - (k + 1) = start
      BY <1>2
    <3>2. f[k + 1] = siftdown(ran, f[k + 1 - 1], N + 1 - (k + 1), n)
      BY <1>5, <3>1 DEF IsHeapify, N
    <3> QED BY <3>1, <3>2
  <2>2. g \in Rows(n) /\ ToSet(g) = ToSet(s) /\ HeapFrom(ran, g, start + 1, n)
    <3>1. N + 1 - k = start + 1
      BY <1>2
    <3> QED BY <1>7, <3>1
  <2>3. start \in 1 .. n /\ n \in start .. n /\ N + 1 - (k + 1) = start /\ k + 1 \in 0 .. N
    BY <1>2
  <2> HIDE DEF g, start
  <2>4. f[k + 1] \in Rows(n) /\ ToSet(f[k + 1]) = ToSet(g) /\ HeapFrom(ran, f[k + 1], start, n)
    BY <2>1, <2>2, <2>3, Sifted
  <2> QED BY <2>2, <2>3, <2>4
<1>8. \A k \in 0 .. N : k \in T
  <2> HIDE DEF T
  <2> QED BY <1>2, <1>6, <1>7, InductionUpTo
<1>9. N \in T /\ N + 1 - N = 1
  BY <1>2, <1>8
<1> QED BY <1>5, <1>9

(* The root of a heap is its greatest item.                                 *)
LEMMA RootIsGreatest ==
  ASSUME NEW ran \in RunTimes, NEW n \in Nat, NEW h \in Rows(n), NEW end \in 1 .. n,
         HeapFrom(ran, h, 1, end)
  PROVE  \A i \in 1 .. end : Le(ran, h[i], h[1])
<1> DEFINE S == 1 .. end
           T == {i \in S : Le(ran, h[i], h[1])}
           m == [i \in S |-> i]
<1>1. \A i \in S : h[i] \in AllTasks
  BY DEF Rows
<1>2. m \in [S -> Nat]
  OBVIOUS
<1>3. ASSUME NEW i \in S, \A j \in S : m[j] < m[i] => j \in T
      PROVE  i \in T
  <2>1. CASE i = 1
    BY <1>1, <2>1, CompareOrder
  <2>2. CASE i # 1
    <3> DEFINE p == i \div 2
    <3>1. p \in S /\ p < i /\ (i = 2 * p \/ i = 2 * p + 1)
      BY <2>2
    <3> HIDE DEF p
    <3>2. p \in T
      BY <1>3, <3>1
    <3>3. Le(ran, h[i], h[p])
      BY <3>1 DEF HeapFrom, Below, Children
    <3>4. 1 \in S
      OBVIOUS
    <3> QED BY <1>1, <3>1, <3>2, <3>3, <3>4, CompareOrder
  <2> QED BY <2>1, <2>2
<1>4. \A i \in S : i \in T
  <2> HIDE DEF S, T, m
  <2> QED BY <1>2, <1>3, MeasureInduction
<1> QED BY <1>4

IsHeapsort(ran, s, n, f) ==
  f = [k \in 0 .. n - 1 |-> IF k = 0 THEN heapify(ran, s)
                            ELSE siftdown(ran, swapItemsAt(f[k - 1], 1, n + 1 - k), 1, n - k)]

(* The first end items are a heap, those after them are sorted, and not smaller. *)
PartlySorted(ran, n, s, h, end) ==
  /\ h \in Rows(n) /\ ToSet(h) = ToSet(s)
  /\ HeapFrom(ran, h, 1, end)
  /\ \A i, j \in 1 .. n : end < j /\ i <= j => Le(ran, h[i], h[j])

(* A turn of the loop of heapsort() puts the greatest item of the heap after it. *)
LEMMA OneMoreSorted ==
  ASSUME NEW ran \in RunTimes, NEW n \in Nat \ {0}, NEW s, NEW e \in 2 .. n,
         NEW h, PartlySorted(ran, n, s, h, e),
         NEW t, t = siftdown(ran, swapItemsAt(h, 1, e), 1, e - 1)
  PROVE  PartlySorted(ran, n, s, t, e - 1)
<1> DEFINE g == swapItemsAt(h, 1, e)
           d == e - 1
<1>1. /\ h \in Rows(n) /\ ToSet(h) = ToSet(s) /\ HeapFrom(ran, h, 1, e)
      /\ \A i, j \in 1 .. n : e < j /\ i <= j => Le(ran, h[i], h[j])
      /\ \A i \in 1 .. n : h[i] \in AllTasks
  BY DEF PartlySorted, Rows
<1>2. \A i \in 1 .. e : Le(ran, h[i], h[1])
  BY <1>1, RootIsGreatest
<1>3. 1 \in 1 .. n /\ e \in 1 .. n /\ d \in 1 .. n /\ n \in Nat /\ d < e /\ e = d + 1
  OBVIOUS
<1>4. /\ g \in Rows(n) /\ ToSet(g) = ToSet(h)
      /\ \A k \in 1 .. n : g[k] = IF k = 1 THEN h[e] ELSE IF k = e THEN h[1] ELSE h[k]
  BY ONLY <1>1, <1>3, RowsSwapped
<1> HIDE DEF g, d
<1>5. HeapFrom(ran, g, 1 + 1, d)
  <2>1. ASSUME NEW i \in (1 + 1) .. d, NEW c \in Children(i), c <= d
        PROVE  Le(ran, g[c], g[i])
    <3>1. i \in Nat \ {0}
      BY <2>1
    <3>2. c \in Nat \ {0} /\ i < c
      BY <3>1, <2>1, ChildFacts
    <3>3. /\ i \in 1 .. n /\ c \in 1 .. n /\ i # 1 /\ c # 1 /\ i # e /\ c # e
          /\ i \in 1 .. e /\ c <= e
      BY <1>3, <2>1, <3>2
    <3>4. g[i] = h[i] /\ g[c] = h[c]
      BY <1>4, <3>3
    <3> QED BY <1>1, <2>1, <3>3, <3>4 DEF HeapFrom, Below
  <2> QED BY <2>1 DEF HeapFrom, Below
<1>6. /\ t \in Rows(n) /\ ToSet(t) = ToSet(g) /\ SameOutside(n, g, t, 1, d)
      /\ HeapFrom(ran, t, 1, d)
  <2>1. t = siftdown(ran, g, 1, d) /\ d \in 1 .. n /\ 1 \in 1 .. n
    BY <1>3 DEF g, d
  <2> QED BY <1>4, <1>5, <2>1, Sifted
<1>7. \A k \in 1 .. n : d < k => t[k] = g[k]
  BY <1>6 DEF SameOutside
<1>8. ASSUME NEW i \in 1 .. n, i <= d
      PROVE  \E m \in 1 .. n : m <= e /\ t[i] = h[m]
  <2>1. /\ DOMAIN t = 1 .. n /\ DOMAIN g = 1 .. n
        /\ \A x, y \in 1 .. n : t[x] = t[y] => x = y
    BY <1>4, <1>6 DEF Rows, IsInjective
  <2>2. t[i] \in ToSet(g)
    BY <1>6, <2>1 DEF ToSet
  <2>3. PICK m \in 1 .. n : t[i] = g[m]
    BY <2>1, <2>2 DEF ToSet
  <2>4. m <= d
    BY <1>3, <1>7, <1>8, <2>1, <2>3
  <2>5. CASE m = 1
    BY <1>3, <1>4, <2>3, <2>5
  <2>6. CASE m # 1
    BY <1>3, <1>4, <2>3, <2>4, <2>6
  <2> QED BY <2>5, <2>6
<1>9. ASSUME NEW i \in 1 .. n, NEW j \in 1 .. n, d < j, i <= j
      PROVE  Le(ran, t[i], t[j])
  <2>1. t[j] = IF j = e THEN h[1] ELSE h[j]
    BY <1>3, <1>4, <1>7, <1>9
  <2>2. \E m \in 1 .. n : t[i] = h[m] /\ m <= j /\ (i <= e => m <= e)
    <3>1. CASE i <= d
      BY <1>3, <1>8, <1>9, <3>1
    <3>2. CASE i = e
      <4>1. t[i] = h[1]
        BY <1>3, <1>4, <1>7, <1>9, <3>2
      <4> QED BY <1>3, <1>9, <4>1
    <3>3. CASE e < i
      <4>1. t[i] = h[i]
        BY <1>3, <1>4, <1>7, <1>9, <3>3
      <4> QED BY <1>9, <3>3, <4>1
    <3> QED BY <1>3, <3>1, <3>2, <3>3
  <2>3. PICK m \in 1 .. n : t[i] = h[m] /\ m <= j /\ (i <= e => m <= e)
    BY <2>2
  <2>4. CASE j = e
    BY <1>2, <1>9, <2>1, <2>3, <2>4
  <2>5. CASE j # e
    BY <1>1, <1>3, <1>9, <2>1, <2>3, <2>5
  <2> QED BY <2>4, <2>5
<1>10. PartlySorted(ran, n, s, t, d)
  BY <1>1, <1>4, <1>6, <1>9 DEF PartlySorted
<1> QED BY <1>10 DEF d

(* heapsort() sorts.                                                        *)
LEMMA Heapsorted ==
  ASSUME NEW ran \in RunTimes, NEW n \in Nat \ {0}, NEW s \in Rows(n), NEW t, t = heapsort(ran, s)
  PROVE  /\ t \in Rows(n) /\ ToSet(t) = ToSet(s)
         /\ \A i, j \in 1 .. n : i <= j => ran[t[j]] <= ran[t[i]]
<1> DEFINE N == n - 1
           V == Rows(n)
           Turn(k, h) == siftdown(ran, swapItemsAt(h, 1, n + 1 - k), 1, n - k)
           G == [a \in (1 .. N) \X V |-> Turn(a[1], a[2])]
           v == heapify(ran, s)
<1>1. Len(s) = n
  BY RowsLen DEF Rows
<1>2. t = IF n < 2 THEN s ELSE (CHOOSE f : IsHeapsort(ran, s, n, f))[N]
  BY <1>1 DEF heapsort, IsHeapsort
<1>3. N \in Nat /\ n = N + 1
  OBVIOUS
<1>4. v \in V /\ ToSet(v) = ToSet(s) /\ HeapFrom(ran, v, 1, n)
  BY Heapified
<1> HIDE DEF v
<1>5. \E f : IsHeapsort(ran, s, n, f)
  <2>1. ASSUME NEW k \in 1 .. N, NEW h \in V
        PROVE  Turn(k, h) \in V
    <3>1. 1 \in 1 .. n /\ n + 1 - k \in 1 .. n /\ n - k \in 0 .. n /\ n \in Nat
      BY <1>3
    <3>2. swapItemsAt(h, 1, n + 1 - k) \in Rows(n)
      BY ONLY <2>1, <3>1, h \in V, RowsSwapped
    <3> QED BY <3>1, <3>2, SiftedRows
  <2>2. G \in [(1 .. N) \X V -> V]
    <3> HIDE DEF Turn, V
    <3> QED BY <2>1
  <2>3. PICK f \in [0 .. N -> V] : IsRecursion(N, v, G, f)
    <3> HIDE DEF G, V, Turn
    <3> QED BY <1>3, <1>4, <2>2, RecursionUpTo
  <2>4. ASSUME NEW k \in 0 .. N, k # 0
        PROVE  G[<<k, f[k - 1]>>] = Turn(k, f[k - 1])
    <3>1. k \in 1 .. N /\ k - 1 \in 0 .. N
      BY <1>3, <2>4
    <3>2. f[k - 1] \in V
      BY <3>1
    <3> HIDE DEF V, Turn
    <3>3. <<k, f[k - 1]>> \in (1 .. N) \X V
      BY <3>1, <3>2
    <3> QED BY <3>3
  <2>5. f = [k \in 0 .. N |-> IF k = 0 THEN v ELSE Turn(k, f[k - 1])]
    <3> HIDE DEF V, G, Turn
    <3> QED BY <2>3, <2>4 DEF IsRecursion
  <2>6. IsHeapsort(ran, s, n, f)
    BY <2>5 DEF IsHeapsort, v
  <2> QED BY <2>6
<1>6. CASE n < 2
  <2>1. t = s /\ n = 1
    BY <1>2, <1>6
  <2>2. \A i, j \in 1 .. n : i = j /\ s[i] \in AllTasks /\ ran[s[i]] \in Nat
    BY <2>1 DEF Rows, RunTimes
  <2> QED BY <2>1, <2>2
<1>7. CASE ~(n < 2)
  <2>1. PICK f : IsHeapsort(ran, s, n, f) /\ t = f[N]
    BY <1>2, <1>5, <1>7
  <2> DEFINE T == {k \in 0 .. N : PartlySorted(ran, n, s, f[k], n - k)}
  <2>2. 0 \in T
    <3>1. f[0] = v
      BY <1>3, <2>1 DEF IsHeapsort, v
    <3>2. \A i, j \in 1 .. n : ~(n - 0 < j)
      OBVIOUS
    <3>3. n - 0 = n
      OBVIOUS
    <3>4. PartlySorted(ran, n, s, v, n - 0)
      BY <1>4, <3>2, <3>3 DEF PartlySorted
    <3> QED BY <1>3, <3>1, <3>4
  <2>3. ASSUME NEW k \in 0 .. N - 1, k \in T
        PROVE  k + 1 \in T
    <3>1. /\ k + 1 \in 0 .. N /\ k + 1 # 0 /\ k + 1 - 1 = k /\ n + 1 - (k + 1) = n - k
          /\ n - (k + 1) = n - k - 1 /\ n - k \in 2 .. n
      BY <1>3
    <3>2. f[k + 1] = siftdown(ran, swapItemsAt(f[k + 1 - 1], 1, n + 1 - (k + 1)), 1, n - (k + 1))
      BY <2>1, <3>1 DEF IsHeapsort
    <3>3. f[k + 1] = siftdown(ran, swapItemsAt(f[k], 1, n - k), 1, n - k - 1)
      BY <3>1, <3>2
    <3>4. PartlySorted(ran, n, s, f[k], n - k)
      BY <2>3
    <3>5. PartlySorted(ran, n, s, f[k + 1], n - k - 1)
      BY <3>1, <3>3, <3>4, OneMoreSorted
    <3> QED BY <3>1, <3>5
  <2>4. \A k \in 0 .. N : k \in T
    <3> HIDE DEF T
    <3> QED BY <1>3, <2>2, <2>3, InductionUpTo
  <2>5. PartlySorted(ran, n, s, t, 1)
    <3>1. N \in T /\ n - N = 1
      BY <1>3, <2>4
    <3> QED BY <2>1, <3>1
  <2>6. t \in Rows(n) /\ ToSet(t) = ToSet(s) /\ \A i \in 1 .. n : t[i] \in AllTasks
    BY <2>5 DEF PartlySorted, Rows
  <2>7. ASSUME NEW i \in 1 .. n, NEW j \in 1 .. n, i <= j
        PROVE  ran[t[j]] <= ran[t[i]]
    <3>1. CASE j = 1
      <4>1. i = j /\ ran[t[i]] \in Nat
        BY <2>6, <2>7, <3>1 DEF RunTimes
      <4> QED BY <4>1
    <3>2. CASE j # 1
      <4>1. Le(ran, t[i], t[j])
        BY <2>5, <2>7, <3>2 DEF PartlySorted
      <4> QED BY <2>6, <4>1, CompareOrder
    <3> QED BY <3>1, <3>2
  <2> QED BY <2>6, <2>7
<1> QED BY <1>6, <1>7

(* A set of PIDs is finite and has an upper bound.                           *)
LEMMA TasksBounded ==
  ASSUME NEW S \in SUBSET Tasks
  PROVE  IsFiniteSet(S) /\ Cardinality(S) \in Nat /\ \E b \in Int : \A x \in S : x <= b
<1> DEFINE Bounded(X) == \E b \in Int : \A x \in X : x <= b
           T == {n \in Nat : \A X \in SUBSET Tasks : Cardinality(X) = n => Bounded(X)}
<1>1. \A X \in SUBSET Tasks : IsFiniteSet(X) /\ Cardinality(X) \in Nat
  BY IdleAssumption, FS_Subset, FS_CardinalityType
<1>2. 0 \in T
  <2>1. \A X \in SUBSET Tasks : Cardinality(X) = 0 => X = {}
    BY <1>1, FS_EmptySet
  <2>2. Bounded({})
    <3>1. 0 \in Int /\ \A x \in {} : x <= 0
      OBVIOUS
    <3> QED BY <3>1
  <2> HIDE DEF Bounded
  <2> QED BY <2>1, <2>2
<1>3. ASSUME NEW n \in Nat, n \in T
      PROVE  n + 1 \in T
  <2>1. SUFFICES ASSUME NEW X \in SUBSET Tasks, Cardinality(X) = n + 1
                 PROVE  Bounded(X)
    OBVIOUS
  <2>2. X # {}
    BY <1>1, <2>1, FS_EmptySet
  <2>3. PICK y \in X : TRUE
    BY <2>2
  <2>4. Cardinality(X \ {y}) = n /\ X \ {y} \in SUBSET Tasks
    <3>1. Cardinality(X \ {y}) = Cardinality(X) - 1
      BY <1>1, <2>1, <2>3, FS_RemoveElement
    <3> QED BY <2>1, <3>1
  <2>5. PICK b \in Int : \A x \in X \ {y} : x <= b
    BY <1>3, <2>4
  <2>6. y \in Int /\ \A x \in X : x \in Int
    BY <2>1, <2>3, IdleAssumption
  <2>7. CASE b <= y
    <3>1. \A x \in X : x <= y
      BY <2>5, <2>6, <2>7
    <3> QED BY <2>6, <3>1
  <2>8. CASE ~(b <= y)
    <3>1. \A x \in X : x <= b
      BY <2>5, <2>6, <2>8
    <3> QED BY <3>1
  <2> QED BY <2>7, <2>8
<1>4. \A n \in Nat : n \in T
  <2> HIDE DEF T
  <2> QED BY <1>2, <1>3, InductionOnNat
<1>5. Bounded(S)
  BY <1>1, <1>4
<1> QED BY <1>1, <1>5

Increasing(s) == \A i, j \in DOMAIN s : i < j => s[i] < s[j]

(* A set of PIDs can be listed in increasing order.                          *)
LEMMA KeyOrderExists ==
  ASSUME NEW S \in SUBSET Tasks
  PROVE  \E s \in [1 .. Cardinality(S) -> S] : Increasing(s)
<1> DEFINE Listed(X, n) == \E s \in [1 .. n -> X] : Increasing(s)
           T == {n \in Nat : \A X \in SUBSET Tasks : Cardinality(X) = n => Listed(X, n)}
<1>1. \A X \in SUBSET Tasks : IsFiniteSet(X) /\ Cardinality(X) \in Nat
  BY TasksBounded
<1>2. 0 \in T
  <2>1. \A X : Listed(X, 0)
    <3>1. ASSUME NEW X PROVE Listed(X, 0)
      <4> DEFINE s == [i \in 1 .. 0 |-> 0]
      <4>1. s \in [1 .. 0 -> X] /\ DOMAIN s = {}
        OBVIOUS
      <4> HIDE DEF s
      <4>2. Increasing(s)
        BY <4>1 DEF Increasing
      <4> QED BY <4>1, <4>2
    <3> QED BY <3>1
  <2> HIDE DEF Listed
  <2> QED BY <2>1
<1>3. ASSUME NEW n \in Nat, n \in T
      PROVE  n + 1 \in T
  <2>1. SUFFICES ASSUME NEW X \in SUBSET Tasks, Cardinality(X) = n + 1
                 PROVE  Listed(X, n + 1)
    OBVIOUS
  <2>2. X # {} /\ X \subseteq Int
    BY <1>1, <2>1, FS_EmptySet, IdleAssumption
  <2>3. PICK y \in X : \A x \in X : x <= y
    <3>1. PICK b \in Int : \A x \in X : x <= b
      BY <2>1, TasksBounded
    <3> QED BY <2>2, <3>1, Greatest
  <2>4. Cardinality(X \ {y}) = n /\ X \ {y} \in SUBSET Tasks
    <3>1. Cardinality(X \ {y}) = Cardinality(X) - 1
      BY <1>1, <2>1, <2>3, FS_RemoveElement
    <3> QED BY <2>1, <3>1
  <2>5. PICK s \in [1 .. n -> X \ {y}] : Increasing(s)
    BY <1>3, <2>4
  <2> DEFINE t == [i \in 1 .. n + 1 |-> IF i = n + 1 THEN y ELSE s[i]]
  <2>6. \A i \in 1 .. n + 1 : i # n + 1 => i \in 1 .. n
    OBVIOUS
  <2>7. \A i \in 1 .. n : s[i] \in X /\ s[i] \in Int /\ s[i] < y
    <3>1. ASSUME NEW i \in 1 .. n
          PROVE  s[i] \in X /\ s[i] \in Int /\ s[i] < y
      <4>1. s[i] \in X /\ s[i] # y
        BY <2>5, <3>1
      <4>2. s[i] \in Int /\ y \in Int /\ s[i] <= y
        BY <2>2, <2>3, <4>1
      <4> QED BY <4>1, <4>2
    <3> QED BY <3>1
  <2>8. t \in [1 .. n + 1 -> X] /\ DOMAIN t = 1 .. n + 1
    BY <2>6, <2>7
  <2>9. ASSUME NEW i \in 1 .. n + 1, NEW j \in 1 .. n + 1, i < j
        PROVE  t[i] < t[j]
    <3>1. i \in 1 .. n /\ t[i] = s[i]
      BY <2>6, <2>9
    <3>2. CASE j = n + 1
      BY <2>7, <3>1, <3>2
    <3>3. CASE j # n + 1
      <4>1. j \in 1 .. n /\ t[j] = s[j] /\ DOMAIN s = 1 .. n
        BY <2>5, <2>6, <3>3
      <4> QED BY <2>5, <2>9, <3>1, <4>1 DEF Increasing
    <3> QED BY <3>2, <3>3
  <2>10. Increasing(t)
    <3> HIDE DEF t
    <3> QED BY <2>8, <2>9 DEF Increasing
  <2> HIDE DEF t
  <2> QED BY <2>8, <2>10
<1>4. \A n \in Nat : n \in T
  <2> HIDE DEF T
  <2> QED BY <1>2, <1>3, InductionOnNat
<1> QED BY <1>1, <1>4

(* The keys of taskMap, in their order, are all there.                       *)
LEMMA KeyOrder ==
  ASSUME NEW S \in SUBSET Tasks, NEW n, n = Cardinality(S), NEW k, k = InKeyOrder(S)
  PROVE  /\ n \in Nat /\ k \in [1 .. n -> S]
         /\ \A i, j \in 1 .. n : k[i] = k[j] => i = j
         /\ \A x \in S : \E i \in 1 .. n : k[i] = x
<1>1. IsFiniteSet(S) /\ n \in Nat /\ S \subseteq Int
  BY TasksBounded, IdleAssumption
<1>2. k \in [1 .. n -> S] /\ Increasing(k)
  BY KeyOrderExists DEF InKeyOrder, Increasing
<1>3. ASSUME NEW i \in 1 .. n, NEW j \in 1 .. n, k[i] = k[j]
      PROVE  i = j
  <2>1. DOMAIN k = 1 .. n /\ k[i] \in Int /\ i \in Int /\ j \in Int
    <3>1. DOMAIN k = 1 .. n /\ k[i] \in S
      BY <1>2, <1>3
    <3>2. i \in Int /\ j \in Int
      BY <1>1, <1>3
    <3> QED BY <1>1, <3>1, <3>2
  <2>2. ~(i < j) /\ ~(j < i)
    BY <1>2, <1>3, <2>1 DEF Increasing
  <2> QED BY <2>1, <2>2
<1>4. k \in Injection(1 .. n, S)
  BY <1>2, <1>3 DEF Injection, IsInjective
<1>5. Cardinality(1 .. n) = n
  <2>1. 1 \in Int /\ n \in Int
    BY <1>1
  <2>2. Cardinality(1 .. n) = IF 1 > n THEN 0 ELSE n - 1 + 1
    BY ONLY <2>1, FS_Interval
  <2> QED BY <1>1, <2>2
<1>6. k \in Surjection(1 .. n, S)
  BY <1>1, <1>4, <1>5, FS_Injection
<1>7. \A x \in S : \E i \in 1 .. n : k[i] = x
  BY <1>6 DEF Surjection
<1> QED BY <1>1, <1>2, <1>3, <1>7

(* StatsLimitedModel::setTaskMap() shows the tasks that ran and the idle task, *)
(* those first that ran for longest.                                       *)
LEMMA TaskMapRows ==
  ASSUME NEW graphs, NEW ran \in RunTimes, NEW t, t = setTaskMap(graphs, ran)
  PROVE  /\ ToSet(t) = {p \in Tasks : graphs[p] # <<>> /\ ran[p] # 0} \cup {Idle}
         /\ IsInjective(t)
         /\ \A k \in 2 .. Len(t) : ran[t[k - 1]] >= ran[t[k]]
<1> DEFINE S == {p \in Tasks : graphs[p] # <<>> /\ ran[p] # 0}
           m == Cardinality(S)
           k == InKeyOrder(S)
           s == Append(k, Idle)
           n == m + 1
<1>1. S \in SUBSET Tasks
  OBVIOUS
<1> HIDE DEF S
<1>2. /\ m \in Nat /\ k \in [1 .. m -> S]
      /\ \A i, j \in 1 .. m : k[i] = k[j] => i = j
      /\ \A x \in S : \E i \in 1 .. m : k[i] = x
  BY <1>1, KeyOrder
<1>3. t = heapsort(ran, s)
  BY DEF setTaskMap, S
<1> HIDE DEF m, k
<1>4. k \in [1 .. m -> AllTasks] /\ Idle \notin S /\ Idle \in AllTasks
  BY <1>1, <1>2, IdleAssumption DEF AllTasks
<1>5. k \in Seq(AllTasks) /\ Len(k) = m
  BY <1>2, <1>4, RowsLen
<1>6. /\ s \in Seq(AllTasks) /\ Len(s) = n
      /\ \A i \in 1 .. m : s[i] = k[i]
      /\ s[n] = Idle
  BY <1>4, <1>5
<1> HIDE DEF s
<1>7. n \in Nat \ {0} /\ \A i \in 1 .. n : i = n \/ i \in 1 .. m
  BY <1>2
<1>8. s \in [1 .. n -> AllTasks] /\ DOMAIN s = 1 .. n
  BY <1>6, <1>7
<1>9. \A i, j \in 1 .. n : s[i] = s[j] => i = j
  <2>1. \A i \in 1 .. m : s[i] \in S
    BY <1>2, <1>6
  <2> HIDE DEF n
  <2> QED BY <1>2, <1>4, <1>6, <1>7, <2>1
<1>10. s \in Rows(n)
  BY <1>8, <1>9 DEF Rows, IsInjective
<1>11. ToSet(s) = S \cup {Idle}
  <2>1. \A i \in 1 .. m : i \in 1 .. n /\ s[i] \in S
    BY <1>2, <1>6
  <2>2. n \in 1 .. n
    BY <1>7
  <2>3. \A x : x \in ToSet(s) <=> \E i \in 1 .. n : s[i] = x
    BY <1>8 DEF ToSet
  <2> HIDE DEF n
  <2>4. \A x : x \in ToSet(s) => x \in S \cup {Idle}
    BY <1>6, <1>7, <2>1, <2>3
  <2>5. \A x \in S : x \in ToSet(s)
    BY <1>2, <1>6, <2>1, <2>3
  <2>6. Idle \in ToSet(s)
    BY <1>6, <2>2, <2>3
  <2> QED BY <2>4, <2>5, <2>6
<1> HIDE DEF n
<1>12. /\ t \in Rows(n) /\ ToSet(t) = ToSet(s)
       /\ \A i, j \in 1 .. n : i <= j => ran[t[j]] <= ran[t[i]]
  BY <1>3, <1>7, <1>10, Heapsorted
<1>13. t \in [1 .. n -> AllTasks] /\ Len(t) = n /\ IsInjective(t) /\ n \in Nat
  BY <1>7, <1>12, RowsLen DEF Rows
<1>14. ASSUME NEW i \in 2 .. Len(t)
       PROVE  ran[t[i - 1]] >= ran[t[i]]
  <2>1. i \in 1 .. n /\ i - 1 \in 1 .. n /\ i - 1 <= i
    BY <1>13, <1>14
  <2>2. ran[t[i]] <= ran[t[i - 1]] /\ ran[t[i]] \in Nat /\ ran[t[i - 1]] \in Nat
    BY <1>12, <1>13, <2>1 DEF RunTimes
  <2> QED BY <2>2
<1> QED BY <1>11, <1>12, <1>13, <1>14 DEF S

(***************************************************************************)
(* The statistics dialog.                                                   *)
(***************************************************************************)
Earlier(t) == Min({t["red"], t["blue"]})
Later(t) == Max({t["red"], t["blue"]})

(* What the dialog holds while it is visible.                               *)
Filled(tr, graphs, t, ran, rows) ==
  ran = doLimitedStats(tr, graphs, Earlier(t), Later(t)) /\ rows = setTaskMap(graphs, ran)

Positions(pos, t) == \A c \in Cursor : pos[c] \in {t[c], Converted(t[c])}

StatsInv ==
  /\ CursorInv
  /\ cursorPos \in [Cursor -> Nat]
  /\ events # <<>> =>
       /\ points = [p \in Tasks |-> Points(events, p)]
       /\ info = time
       /\ Positions(cursorPos, info)
       /\ visible => Filled(events, points, time, cursorTime, taskList)

LEMMA StatsInit == CursorInit => StatsInv
<1> SUFFICES ASSUME CursorInit PROVE StatsInv
  OBVIOUS
<1>1. events = <<>> /\ cursorPos \in [Cursor -> Nat]
  BY DEF CursorInit
<1> QED BY <1>1, CursorInitInv DEF StatsInv

(* A slot that sets positions refreshes the dialog from the new ones.        *)
LEMMA Refilled ==
  ASSUME NEW tr, NEW graphs, NEW t, SetPositions(tr, graphs, t)
  PROVE  time' = t /\ (visible => Filled(tr, graphs, t, cursorTime', taskList'))
BY DEF SetPositions, checkStatsTimeLimited, FillDialog, Filled, Earlier, Later

(* Most slots move cursors.                                                 *)
Moves == UNION {[D -> Nat] : D \in SUBSET Cursor}
SomeMove == events # <<>> /\ \E moves \in Moves : MoveTo(moves)

LEMMA OneIsMove ==
  ASSUME NEW c \in Cursor, NEW t \in Nat, events # <<>>, MoveTo(One(c, t))
  PROVE  SomeMove
<1>1. One(c, t) \in [{c} -> Nat] /\ {c} \in SUBSET Cursor
  BY DEF One
<1>2. One(c, t) \in Moves
  BY <1>1 DEF Moves
<1> QED BY <1>2 DEF SomeMove

LEMMA BothIsMove ==
  ASSUME NEW t \in Nat, NEW u \in Nat, events # <<>>, MoveTo(Both(t, u))
  PROVE  SomeMove
<1>1. Both(t, u) \in [Cursor -> Nat] /\ Cursor \in SUBSET Cursor
  BY DEF Both
<1>2. Both(t, u) \in Moves
  BY <1>1 DEF Moves
<1> QED BY <1>2 DEF SomeMove

(* All the searches and choices of positions end in moves of cursors.        *)
LEMMA SlotKinds ==
  ASSUME CursorInv, CursorNext
  PROVE  \/ \E tr \in OpenedTraces : SetupCursors(tr)
         \/ Close
         \/ SomeMove
         \/ \E t \in UserTimes : PlotDoubleClicked(t)
         \/ ShowStatsTimeLimited
         \/ ChooseCursor
<1>0. active \in Cursor /\ time \in [Cursor -> Nat]
  BY DEF CursorInv
<1>1. ASSUME NEW i \in DOMAIN events
      PROVE  events # <<>> /\ events[i].time \in Nat
  <2>1. events # <<>>
    BY <1>1
  <2> QED BY <1>1, <2>1, OpenTrace DEF IsTrace
<1>2. CASE ConsumeSettings
  <2>1. time \in Moves
    BY <1>0 DEF Moves
  <2> QED BY <1>2, <2>1 DEF ConsumeSettings, SomeMove
<1>3. CASE \E t \in UserTimes, c \in Cursor : InfoValueChanged(c, t)
  <2>1. PICK t \in UserTimes, c \in Cursor : InfoValueChanged(c, t)
    BY <1>3
  <2>2. t \in Nat /\ events # <<>> /\ MoveTo(One(c, t))
    BY <2>1, UserTimesAssumption DEF InfoValueChanged
  <2> QED BY <2>1, <2>2, OneIsMove
<1>4. CASE \E i \in DOMAIN events, c \in Cursor : MoveCursor(c, i)
  <2>1. PICK i \in DOMAIN events, c \in Cursor : MoveCursor(c, i)
    BY <1>4
  <2>2. MoveTo(One(c, events[i].time))
    BY <2>1 DEF MoveCursor
  <2> QED BY <1>1, <2>1, <2>2, OneIsMove
<1>5. CASE \E i \in DOMAIN events : FindWaking(i)
  <2>1. PICK w \in DOMAIN events : FindWaking(w)
    BY <1>5
  <2>2. PICK i \in findWakingEvent(events, w) : i \in 1 .. Len(events) /\ MoveTo(One(active, events[i].time))
    BY <2>1, WakingSearch
  <2>3. events # <<>> /\ events[i].time \in Nat
    BY <1>1, <2>1, <2>2, OpenTrace
  <2> QED BY <1>0, <2>2, <2>3, OneIsMove
<1>6. CASE \E i, j \in DOMAIN events : ShowLatency(i, j)
  <2>1. PICK i \in DOMAIN events, j \in DOMAIN events : ShowLatency(i, j)
    BY <1>6
  <2>2. MoveTo(Both(events[i].time, events[j].time))
    BY <2>1 DEF ShowLatency
  <2> QED BY <1>1, <2>1, <2>2, BothIsMove
<1>7. CASE \E pid \in Tasks : \E wanted \in {"wakeup", "waking"} : FindWakeup(pid, wanted)
  <2>1. PICK pid \in Tasks, wanted \in {"wakeup", "waking"} : FindWakeup(pid, wanted)
    BY <1>7
  <2>2. PICK sched \in findPreviousSchedEvent(events, Converted(time[active]), pid) :
        \E wakeup \in findPreviousWakEvent(events, sched, pid, wanted) :
          /\ sched \in 1 .. Len(events) /\ wakeup \in 1 .. Len(events)
          /\ MoveTo(Both(events[wakeup].time, events[sched].time))
    BY <2>1, WakeupSearch
  <2>3. PICK wakeup : /\ sched \in 1 .. Len(events) /\ wakeup \in 1 .. Len(events)
                      /\ MoveTo(Both(events[wakeup].time, events[sched].time))
    BY <2>2
  <2>4. events # <<>>
    BY <2>1 DEF FindWakeup
  <2>5. events[wakeup].time \in Nat /\ events[sched].time \in Nat
    BY <2>3, <2>4, OpenTrace
  <2> QED BY <2>3, <2>4, <2>5, BothIsMove
<1>8. CASE \E pid \in Tasks : FindSleep(pid)
  <2>1. PICK pid \in Tasks : FindSleep(pid)
    BY <1>8
  <2>2. events # <<>> /\ \E i \in 1 .. Len(events) : MoveTo(One(active, events[i].time))
    BY <2>1, SleepSearch
  <2>3. PICK i \in 1 .. Len(events) : MoveTo(One(active, events[i].time))
    BY <2>2
  <2>4. events[i].time \in Nat
    BY <2>2, <2>3, OpenTrace
  <2> QED BY <1>0, <2>2, <2>3, <2>4, OneIsMove
<1> QED BY <1>2, <1>3, <1>4, <1>5, <1>6, <1>7, <1>8 DEF CursorNext

(* A move tells its position to all that keep one.                           *)
LEMMA MoveFollows ==
  ASSUME StatsInv, SomeMove, CursorInv'
  PROVE  StatsInv'
<1>1. PICK moves \in Moves : MoveTo(moves)
  BY DEF SomeMove
<1>2. events # <<>> /\ time \in [Cursor -> Nat] /\ cursorPos \in [Cursor -> Nat]
  BY DEF SomeMove, StatsInv, CursorInv
<1>3. PICK D \in SUBSET Cursor : moves \in [D -> Nat]
  BY DEF Moves
<1>4. /\ points = [p \in Tasks |-> Points(events, p)]
      /\ info = time
      /\ Positions(cursorPos, info)
  BY <1>2 DEF StatsInv
<1> DEFINE near == [c \in DOMAIN moves |-> Converted(moves[c])]
<1>5. /\ SetPositions(events, points, Moved(moves, time))
      /\ info' = Moved(moves, info)
      /\ cursorPos' = Moved(near, cursorPos)
      /\ UNCHANGED <<events, points, active, visible>>
  BY <1>1 DEF MoveTo
<1>6. time' = Moved(moves, time) /\ (visible' => Filled(events', points', time', cursorTime', taskList'))
  BY <1>5, Refilled
<1>7. ASSUME NEW c \in Cursor
      PROVE  /\ info'[c] = IF c \in D THEN moves[c] ELSE info[c]
             /\ cursorPos'[c] = IF c \in D THEN Converted(moves[c]) ELSE cursorPos[c]
             /\ cursorPos'[c] \in Nat
  <2>1. DOMAIN moves = D /\ DOMAIN near = D
    BY <1>3
  <2>2. c \in D => moves[c] \in Nat /\ Converted(moves[c]) \in Nat /\ near[c] = Converted(moves[c])
    BY <1>3, <2>1, ConvertedTime
  <2> HIDE DEF near
  <2> QED BY <1>2, <1>5, <1>7, <2>1, <2>2 DEF Moved
<1>8. cursorPos' \in [Cursor -> Nat]
  <2>1. cursorPos' = [c \in Cursor |-> cursorPos'[c]]
    BY <1>5 DEF Moved
  <2> QED BY <1>7, <2>1
<1>9. Positions(cursorPos', info')
  BY <1>4, <1>7 DEF Positions
<1>10. info' = time' /\ points' = [p \in Tasks |-> Points(events', p)]
  BY <1>4, <1>5, <1>6
<1> QED BY <1>6, <1>8, <1>9, <1>10 DEF StatsInv, Positions

LEMMA StatsStep == StatsInv /\ [CursorNext]_cursorVars => StatsInv'
<1> SUFFICES ASSUME StatsInv, [CursorNext]_cursorVars PROVE StatsInv'
  OBVIOUS
<1>1. CursorInv /\ CursorInv' /\ cursorPos \in [Cursor -> Nat]
  BY CursorStep DEF StatsInv
<1>2. CASE \E tr \in OpenedTraces : SetupCursors(tr)
  <2>1. PICK tr \in OpenedTraces : SetupCursors(tr)
    BY <1>2
  <2>2. PICK t : /\ events' = tr /\ points' = [p \in Tasks |-> Points(tr, p)]
                 /\ SetPositions(tr, points', t) /\ info' = t /\ cursorPos' = t /\ visible' = visible
    BY <2>1 DEF SetupCursors
  <2>3. time' = t /\ (visible => Filled(tr, points', t, cursorTime', taskList'))
    BY <2>2, Refilled
  <2>4. cursorPos' \in [Cursor -> Nat]
    BY <1>1, <2>2, <2>3 DEF CursorInv
  <2>5. Positions(cursorPos', info')
    BY <2>2 DEF Positions
  <2> QED BY <1>1, <2>2, <2>3, <2>4, <2>5 DEF StatsInv, Positions
<1>3. CASE Close
  BY <1>1, <1>3 DEF Close, StatsInv
<1>4. CASE SomeMove
  BY <1>1, <1>4, MoveFollows
<1>5. CASE \E t \in UserTimes : PlotDoubleClicked(t)
  <2>1. PICK t \in UserTimes : PlotDoubleClicked(t)
    BY <1>5
  <2> DEFINE T == [time EXCEPT ![active] = t]
  <2>2. /\ events # <<>> /\ SetPositions(events, points, T)
        /\ info' = [info EXCEPT ![active] = t] /\ cursorPos' = [cursorPos EXCEPT ![active] = t]
        /\ UNCHANGED <<events, points, active, visible>>
    BY <2>1 DEF PlotDoubleClicked
  <2>3. time' = T /\ (visible => Filled(events, points, T, cursorTime', taskList'))
    BY <2>2, Refilled
  <2>4. /\ points = [p \in Tasks |-> Points(events, p)]
        /\ info = time
        /\ Positions(cursorPos, info)
    BY <2>2 DEF StatsInv
  <2>5. t \in Nat /\ active \in Cursor /\ time \in [Cursor -> Nat]
    BY <1>1, <2>1, UserTimesAssumption DEF CursorInv
  <2>6. cursorPos' \in [Cursor -> Nat]
    BY <1>1, <2>2, <2>5
  <2>7. Positions(cursorPos', info')
    <3>1. ASSUME NEW c \in Cursor
          PROVE  cursorPos'[c] \in {info'[c], Converted(info'[c])}
      <4>1. /\ info'[c] = (IF c = active THEN t ELSE info[c])
            /\ cursorPos'[c] = (IF c = active THEN t ELSE cursorPos[c])
        BY <1>1, <2>2, <2>4, <2>5, <3>1
      <4> QED BY <2>4, <3>1, <4>1 DEF Positions
    <3> QED BY <3>1 DEF Positions
  <2> QED BY <1>1, <2>2, <2>3, <2>4, <2>6, <2>7 DEF StatsInv, Positions
<1>6. CASE ShowStatsTimeLimited
  <2>1. /\ events # <<>> /\ visible' = ~visible
        /\ visible \/ FillDialog(events, points, time)
        /\ UNCHANGED <<events, points, time, info, cursorPos, active>>
    BY <1>6 DEF ShowStatsTimeLimited
  <2>2. visible' => Filled(events, points, time, cursorTime', taskList')
    BY <2>1 DEF FillDialog, Filled, Earlier, Later
  <2> QED BY <1>1, <2>1, <2>2 DEF StatsInv, Positions
<1>7. CASE ChooseCursor
  BY <1>1, <1>7 DEF ChooseCursor, StatsInv, Positions
<1>8. CASE UNCHANGED cursorVars
  BY <1>1, <1>8 DEF cursorVars, StatsInv, Positions
<1> QED BY <1>1, <1>2, <1>3, <1>4, <1>5, <1>6, <1>7, <1>8, SlotKinds

(* What the dialog is filled with are the run times, in order.               *)
LEMMA FilledFollows ==
  ASSUME StatsInv
  PROVE  StatsFollowCursors
<1> SUFFICES ASSUME events # <<>> PROVE StatsFollowCursors
  BY DEF StatsFollowCursors
<1> DEFINE start == Min({info["red"], info["blue"]})
           end == Max({info["red"], info["blue"]})
<1>1. /\ points = [p \in Tasks |-> Points(events, p)]
      /\ info = time /\ time \in [Cursor -> Nat]
      /\ Positions(cursorPos, info)
      /\ visible => Filled(events, points, time, cursorTime, taskList)
      /\ IsTrace(events) /\ events \in OpenedTraces
  BY OpenTrace DEF StatsInv, CursorInv
<1>2. IsComplete(events)
  BY <1>1, CompleteAssumption
<1>3. start \in Nat /\ end \in Nat /\ start <= end
  <2>1. info["red"] \in Nat /\ info["blue"] \in Nat
    BY <1>1 DEF Cursor
  <2>2. \A a, b \in Nat : Min({a, b}) \in Nat /\ Max({a, b}) \in Nat /\ Min({a, b}) <= Max({a, b})
    BY MinOfTwo, MaxOfTwo
  <2> QED BY <2>1, <2>2
<1>4. visible => /\ cursorTime = doLimitedStats(events, points, start, end)
                 /\ taskList = setTaskMap(points, cursorTime)
  BY <1>1 DEF Filled, Earlier, Later
<1> HIDE DEF start, end
<1>5. ASSUME visible
      PROVE  /\ \A p \in AllTasks : cursorTime[p] >= 0
             /\ \A k \in 2 .. Len(taskList) : cursorTime[taskList[k - 1]] >= cursorTime[taskList[k]]
             /\ StartTime(events) <= start /\ end <= EndTime(events) =>
                /\ \A p \in AllTasks : cursorTime[p] = RunTime(p, start, end)
                /\ ToSet(taskList) = {p \in Tasks : cursorTime[p] > 0} \union {Idle}
                /\ IsInjective(taskList)
  <2>1. /\ cursorTime \in [AllTasks -> Nat]
        /\ StartTime(events) <= start /\ end <= EndTime(events) =>
              \A p \in AllTasks : cursorTime[p] = Cardinality(Had(events, p, start, end))
        /\ \A p \in Tasks : points[p] = <<>> => cursorTime[p] = 0
    <3> DEFINE r == doLimitedStats(events, points, start, end)
    <3>1. (\A pid \in Tasks : points[pid] = Points(events, pid)) /\ cursorTime = r
      BY <1>1, <1>4, <1>5
    <3>2. /\ r \in [AllTasks -> Nat]
          /\ StartTime(events) <= start /\ end <= EndTime(events) =>
                \A pid \in AllTasks : r[pid] = Cardinality(Had(events, pid, start, end))
          /\ \A pid \in Tasks : points[pid] = <<>> => r[pid] = 0
      <4>1. IsTrace(events) /\ IsComplete(events)
        BY <1>1, <1>2
      <4>2. r = doLimitedStats(events, points, start, end)
        OBVIOUS
      <4> HIDE DEF r
      <4>3. r \in [AllTasks -> Nat]
        BY ONLY <1>3, <3>1, <4>1, <4>2, LimitedStats
      <4>4. StartTime(events) <= start /\ end <= EndTime(events) =>
              \A pid \in AllTasks : r[pid] = Cardinality(Had(events, pid, start, end))
        BY ONLY <1>3, <3>1, <4>1, <4>2, LimitedStats
      <4>5. \A pid \in Tasks : points[pid] = <<>> => r[pid] = 0
        BY ONLY <1>3, <3>1, <4>1, <4>2, LimitedStats
      <4> QED BY ONLY <4>3, <4>4, <4>5
    <3> HIDE DEF r
    <3> QED BY <3>1, <3>2
  <2>2. \A p : Cardinality(Had(events, p, start, end)) = RunTime(p, start, end)
    BY DEF Had, Slots, Runner, RunTime
  <2>3. /\ ToSet(taskList) = {p \in Tasks : points[p] # <<>> /\ cursorTime[p] # 0} \cup {Idle}
        /\ IsInjective(taskList)
        /\ \A k \in 2 .. Len(taskList) : cursorTime[taskList[k - 1]] >= cursorTime[taskList[k]]
    BY <1>4, <1>5, <2>1, TaskMapRows DEF RunTimes
  <2>4. \A p \in Tasks : cursorTime[p] \in Nat
    BY <2>1 DEF AllTasks
  <2>5. \A p \in Tasks : points[p] # <<>> /\ cursorTime[p] # 0 <=> cursorTime[p] > 0
    BY <2>1, <2>4
  <2>6. {p \in Tasks : points[p] # <<>> /\ cursorTime[p] # 0} = {p \in Tasks : cursorTime[p] > 0}
    BY <2>5
  <2> QED BY <2>1, <2>2, <2>3, <2>6
<1> QED BY <1>1, <1>5 DEF StatsFollowCursors, Positions, start, end

(* While the statistics dialog is visible it shows what the trace says of    *)
(* the interval between the cursors: the tasks that ran in it and the idle   *)
(* task, each with its time on the CPUs, the longest first, whichever slot   *)
(* moved the cursors, for any traces without lost events (doLimitedStats(),  *)
(* doStatsTimeLimited(), setTaskMap(), heapsort(), checkStatsTimeLimited()). *)
THEOREM RowsAreRunTimes == CursorSpec => []StatsFollowCursors
<1>1. StatsInv => StatsFollowCursors
  BY FilledFollows
<1> QED BY <1>1, StatsInit, StatsStep, PTL DEF CursorSpec
=============================================================================

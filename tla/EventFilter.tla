----------------------------- MODULE EventFilter -----------------------------
(***************************************************************************)
(* The filters of the events view.  TraceAnalyzer keeps one AND filter and *)
(* one OR filter per criterion (PID, event type, time, CPU, regex) and the *)
(* list filteredEvents of pointers to the events that pass; MainWindow     *)
(* chooses which list the events widget shows and whether the button       *)
(* "Reset all filters" is enabled.  Each action is a slot of MainWindow    *)
(* with everything it calls.  The dialogs that send the requests are not   *)
(* modal: they stay on the screen when the trace is closed.                *)
(***************************************************************************)
EXTENDS Integers, Sequences, FiniteSets

CONSTANTS
  Traces,        (* the traces the user may open, see TraceType               *)
  Pids, CPUs,    (* the PIDs (0 is the idle task) and CPUs of the traces      *)
  Types,         (* the event types, TraceEvent::getNrEvents() of them        *)
  Times,         (* the times of events and of cursors                        *)
  Intervals,     (* the intervals the two cursors may enclose                 *)
  Regexes,       (* lists of regular expressions the regex dialog sends       *)
  BadRegexes,    (* those of them that regcomp() rejects                      *)
  NoTarget,      (* the event does not wake, fork or switch to a task         *)
  NoRegex,       (* an empty list of regular expressions                      *)
  MaxEnabled     (* bound: so many filters are enabled at a time              *)

(* An event as the filters see it: target is the PID it wakes, forks or       *)
(* switches to, matches are the regexes its arguments match.                  *)
EventType == [id: Nat, pid: Pids, cpu: CPUs, type: Types, time: Times,
              target: Pids \cup {NoTarget}, matches: SUBSET Regexes]
(* tasks are the keys of TraceAnalyzer::taskMap, where the idle task is not.  *)
TraceType == [events: Seq(EventType), tasks: SUBSET (Pids \ {0}), cpus: SUBSET CPUs]

ASSUME TracesAssumption  == Traces \subseteq TraceType /\ \A t \in Traces : t.events # <<>>
ASSUME PidsAssumption    == 0 \in Pids
ASSUME RegexAssumption   == BadRegexes \subseteq Regexes /\ NoRegex \notin Regexes
ASSUME TargetAssumption  == NoTarget \notin Pids
ASSUME TimesAssumption   == Times \subseteq Int /\ Intervals \subseteq Times \X Times
ASSUME EnabledAssumption == MaxEnabled \in Nat

Logics   == {"AND", "OR"}
Kinds    == {"PID", "EVENT", "TIME", "CPU", "REGEX"}
NoTrace  == [events |-> <<>>, tasks |-> {}, cpus |-> {}]

VARIABLES
  trace,           (* the open trace, or NoTrace                              *)
  filter,          (* for AND: filterState, filterPidMap, pidFilterInclusive, *)
                   (* filterCPUMap, filterEventMap, filterTimeLow and High,   *)
                   (* filterRegex; for OR: the same with the prefix OR_       *)
  filteredEvents,  (* TraceAnalyzer::filteredEvents                           *)
  shown,           (* the list of the events widget                           *)
  resetEnabled,    (* is resetFiltersAction enabled                           *)
  warned,          (* history: the last request ended in a warning            *)
  early            (* history: filters were made while no trace was open, and *)
                   (* no request has updated the view since                   *)

vars == <<trace, filter, filteredEvents, shown, resetEnabled, warned, early>>

FilterType == [on: SUBSET Kinds, pids: SUBSET Pids, inclusive: BOOLEAN, cpus: SUBSET CPUs,
               types: SUBSET Types, low: Int, high: Int, regex: Regexes \cup {NoRegex}]
NoFilter   == [on |-> {}, pids |-> {}, inclusive |-> FALSE, cpus |-> {}, types |-> {},
               low |-> 0, high |-> 0, regex |-> NoRegex]

Open            == trace # NoTrace
IsFiltered(f)   == f["AND"].on # {}
FilterActive(k) == \E l \in Logics : k \in filter[l].on

Init ==
  /\ trace \in Traces
  /\ filter = [l \in Logics |-> NoFilter]
  /\ filteredEvents = <<>>
  /\ shown = "events" /\ resetEnabled = FALSE
  /\ warned = FALSE /\ early = FALSE

-----------------------------------------------------------------------------
(* TraceAnalyzer.                                                            *)

(* !processPidFilter(): the second lookup is always one of filterPidMap.      *)
PidMatches(f, l, e) ==
  \/ e.pid \in f[l].pids
  \/ f[l].inclusive /\ e.target \in f["AND"].pids

Matches(f, l, k, e) ==
  \/ k = "PID" /\ PidMatches(f, l, e)
  \/ k = "EVENT" /\ e.type \in f[l].types
  \/ k = "TIME" /\ f[l].low <= e.time /\ e.time <= f[l].high
  \/ k = "CPU" /\ e.cpu \in f[l].cpus
  \/ k = "REGEX" /\ f[l].regex \in e.matches

(* Mutant: an OR filter is one more condition.                                *)
SelectedByAll(f, e) == \A l \in Logics : \A k \in f[l].on : Matches(f, l, k, e)

Selected(f, e) ==
  \/ \E k \in f["OR"].on : Matches(f, "OR", k, e)
  \/ \A k \in f["AND"].on : Matches(f, "AND", k, e)

(* The loop over events: the first n of them have been looked at.             *)
Filtered(f, events) ==
  LET list[n \in 0 .. Len(events)] ==
        IF n = 0 THEN <<>>
          ELSE IF Selected(f, events[n]) THEN Append(list[n - 1], events[n]) ELSE list[n - 1]
  IN  list[Len(events)]

ProcessAllFilters(f) == Filtered(f, trace.events)

(* The end of every create...Filter(): OR filters alone filter nothing.       *)
EnableFilter(l, k, criteria) ==
  LET f == [filter EXCEPT ![l] = [criteria EXCEPT !.on = @ \cup {k}]]
  IN  /\ Cardinality(filter["AND"].on) + Cardinality(filter["OR"].on) < MaxEnabled
         \/ k \in filter[l].on
      /\ filter' = f
      /\ filteredEvents' = IF IsFiltered(f) THEN ProcessAllFilters(f) ELSE filteredEvents

(* The criteria of a disabled filter are never used; the model forgets them.  *)
Without(k, c) == [c EXCEPT !.on    = @ \ {k},
                           !.pids  = IF k = "PID" THEN {} ELSE @,
                           !.types = IF k = "EVENT" THEN {} ELSE @,
                           !.low   = IF k = "TIME" THEN 0 ELSE @,
                           !.high  = IF k = "TIME" THEN 0 ELSE @,
                           !.inclusive = IF k = "PID" THEN FALSE ELSE @,
                           !.cpus  = IF k = "CPU" THEN {} ELSE @,
                           !.regex = IF k = "REGEX" THEN NoRegex ELSE @]

(* Mutant: the list is not computed again when a filter goes.                 *)
DisableFilterLazily(k) ==
  LET f == [l \in Logics |-> Without(k, filter[l])]
  IN  /\ filter' = f
      /\ filteredEvents' = IF IsFiltered(f) THEN filteredEvents ELSE <<>>

DisableFilter(k) ==
  LET f == [l \in Logics |-> Without(k, filter[l])]
  IN  /\ filter' = f
      /\ filteredEvents' = IF IsFiltered(f) THEN ProcessAllFilters(f) ELSE <<>>

(* A request for everything or for nothing.                                   *)
DropFilter(k) ==
  IF k \in filter["AND"].on THEN DisableFilter(k) ELSE UNCHANGED <<filter, filteredEvents>>

DisableAllFilters ==
  /\ filter' = [l \in Logics |-> NoFilter]
  /\ filteredEvents' = <<>>

-----------------------------------------------------------------------------
(* The slots of MainWindow.                                                  *)

(* setEventsWidgetEvents() and updateResetFiltersEnabled().                   *)
UpdateView ==
  /\ shown' = IF IsFiltered(filter') THEN "filteredEvents" ELSE "events"
  /\ resetEnabled' = IsFiltered(filter')
  /\ early' = (~Open /\ IsFiltered(filter'))
  /\ UNCHANGED trace

CreatePidFilter(l, map, incl) ==
  /\ IF map = {} \/ Cardinality(map) = Cardinality(trace.tasks)
       THEN DropFilter("PID")
       ELSE EnableFilter(l, "PID", [filter[l] EXCEPT !.pids = map, !.inclusive = incl])
  /\ UpdateView /\ warned' = FALSE

CreateCPUFilter(l, map) ==
  /\ IF map = {} \/ Cardinality(map) = Cardinality(trace.cpus)
       THEN DropFilter("CPU")
       ELSE EnableFilter(l, "CPU", [filter[l] EXCEPT !.cpus = map])
  /\ UpdateView /\ warned' = FALSE

CreateEventFilter(l, map) ==
  /\ IF map = {} \/ Cardinality(map) = Cardinality(Types)
       THEN DropFilter("EVENT")
       ELSE EnableFilter(l, "EVENT", [filter[l] EXCEPT !.types = map])
  /\ UpdateView /\ warned' = FALSE

(* The two cursors give an AND filter; an interval around the trace is none.  *)
CreateTimeFilter(low, high) ==
  LET start == trace.events[1].time
      end   == trace.events[Len(trace.events)].time
  IN  /\ Open
      /\ IF low < start /\ high > end
           THEN UNCHANGED <<filter, filteredEvents>>
           ELSE EnableFilter("AND", "TIME", [filter["AND"] EXCEPT !.low = low, !.high = high])
      /\ UpdateView /\ warned' = FALSE

(* A regex that does not compile takes the place of the old one and disables  *)
(* the filter of its kind, but nothing is filtered again.                     *)
CreateRegexFilter(l, rx) ==
  /\ IF rx \in BadRegexes
       THEN /\ filter' = [filter EXCEPT ![l] = Without("REGEX", @)]
            /\ UNCHANGED filteredEvents
       ELSE EnableFilter(l, "REGEX", [filter[l] EXCEPT !.regex = rx])
  /\ UpdateView /\ warned' = (rx \in BadRegexes)

(* Mutant: the button stays as it was.                                        *)
ResetFilterSilently(k) ==
  /\ FilterActive(k)
  /\ DisableFilter(k)
  /\ shown' = IF IsFiltered(filter') THEN "filteredEvents" ELSE "events"
  /\ UNCHANGED <<trace, resetEnabled, early>> /\ warned' = FALSE

ResetFilter(k) ==
  /\ FilterActive(k)
  /\ DisableFilter(k)
  /\ UpdateView /\ warned' = FALSE

ResetFilters ==
  /\ resetEnabled /\ IsFiltered(filter)
  /\ DisableAllFilters
  /\ UpdateView /\ warned' = FALSE

(* updatePidFilter(): the setting replaces the choice made in the dialog.     *)
ConsumeFilterSettings(incl) ==
  LET f == [l \in Logics |-> IF "PID" \in filter[l].on
                               THEN [filter[l] EXCEPT !.inclusive = incl] ELSE filter[l]]
  IN  /\ filter' = f
      /\ filteredEvents' = IF IsFiltered(f) /\ f # filter
                             THEN ProcessAllFilters(f) ELSE filteredEvents
      /\ UNCHANGED <<trace, shown, resetEnabled, early>> /\ warned' = FALSE

(* closeTrace() with resetFilters(), eventsWidget->clear() and close().       *)
CloseTrace ==
  /\ Open
  /\ DisableAllFilters
  /\ trace' = NoTrace /\ shown' = "none"
  /\ resetEnabled' = (resetEnabled /\ ~IsFiltered(filter))
  /\ warned' = FALSE /\ early' = FALSE

(* openFile() when no trace is open; otherwise it calls closeTrace() first.   *)
OpenFile ==
  /\ ~Open
  /\ trace' \in Traces /\ shown' = "events"
  /\ UNCHANGED <<filter, filteredEvents, resetEnabled, early>> /\ warned' = FALSE

(* The dialogs stay on the screen when the trace is closed.                   *)
(* The dialog of tasks also offers the idle task; a filter on the selected    *)
(* event is a request with one PID.                                           *)
PidMaps == (SUBSET (trace.tasks \cup (IF Open THEN {0} ELSE {})))
             \cup {{trace.events[i].pid} : i \in DOMAIN trace.events}

DialogRequest ==
  \E l \in Logics :
    \/ \E map \in PidMaps, incl \in BOOLEAN : CreatePidFilter(l, map, incl)
    \/ \E map \in SUBSET trace.cpus : CreateCPUFilter(l, map)
    \/ \E map \in SUBSET (IF Open THEN Types ELSE {}) : CreateEventFilter(l, map)
    \/ \E rx \in Regexes : CreateRegexFilter(l, rx)

Next ==
  \/ DialogRequest
  \/ \E interval \in Intervals : CreateTimeFilter(interval[1], interval[2])
  \/ \E k \in Kinds : ResetFilter(k)
  \/ ResetFilters
  \/ \E incl \in BOOLEAN : ConsumeFilterSettings(incl)
  \/ CloseTrace
  \/ OpenFile

Spec == Init /\ [][Next]_vars

-----------------------------------------------------------------------------
(* Properties.                                                               *)

(* Every variable has a value of its C++ type.                                *)
TypeOK ==
  /\ trace \in Traces \cup {NoTrace}
  /\ filter \in [Logics -> FilterType]
  /\ filteredEvents \in Seq(EventType)
  /\ shown \in {"none", "events", "filteredEvents"}
  /\ {resetEnabled, warned, early} \subseteq BOOLEAN

(* filteredEvents is a list of pointers to the events of the open trace.      *)
NoDanglingEvent ==
  \A i \in DOMAIN filteredEvents : \E j \in DOMAIN trace.events :
    filteredEvents[i] = trace.events[j]

(* The widget shows the filtered list, and the button is enabled, exactly     *)
(* when an AND filter is enabled: the code that scrolls to an event looks up  *)
(* its row in the filtered list on that assumption.  The list has no pointer  *)
(* to an event that does not exist, whatever trace was open before.  The      *)
(* exception: a dialog that was left open made a filter without a trace; the  *)
(* next trace is shown without it until the next request.                     *)
ViewMatchesFilter ==
  /\ Open /\ ~early => /\ shown = IF IsFiltered(filter) THEN "filteredEvents" ELSE "events"
                       /\ resetEnabled = IsFiltered(filter)
  /\ NoDanglingEvent

Fresh == IsFiltered(filter) => filteredEvents = ProcessAllFilters(filter)

(* What is shown is what the filters select, after every sequence of          *)
(* requests; it can become stale only when a regex does not compile, and the  *)
(* user is told so, or when filters that were made without a trace meet one.  *)
StaleOnlyAfterWarning == [][Fresh /\ ~warned' /\ ~early' => Fresh']_vars

SelectedIds == {trace.events[i].id : i \in {j \in DOMAIN trace.events :
                                              Selected(filter, trace.events[j])}}

(* The step enables a filter of logic l that was not enabled before.          *)
NewFilter(l) == \E k \in Kinds \ filter[l].on : filter'[l].on = filter[l].on \cup {k}

(* One more OR filter never hides an event, and one more AND filter never     *)
(* brings one back, unless an inclusive OR filter looks its targets up in the *)
(* PIDs of the AND filter.                                                    *)
FiltersAddUp ==
  [][/\ NewFilter("OR") => SelectedIds \subseteq SelectedIds'
     /\ NewFilter("AND") /\ ~("PID" \in filter["OR"].on /\ filter["OR"].inclusive)
          => SelectedIds' \subseteq SelectedIds]_vars
=============================================================================

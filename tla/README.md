# Traceshark: a TLA+ verification project

Traceshark is a Qt program that reads the text output of `trace-cmd`/ftrace and
`perf script`, turns it into events and shows scheduling, wakeups, migrations,
frequencies and latencies in a window. This directory holds TLA+ models of its
core logic, the TLC configurations that check them on small instances, and
theorems about them that TLAPS has checked. Everything is translated from the
source. Where a comment or a document says something else than the code does, the
model follows the code, and *Differences* tells what was met.

## 1. Inventory

All program code is C++. Four threads exist while a trace is loaded: the loader
thread of a `TraceFile`, the reader and the parser thread of the `TraceParser`,
and the GUI ("main") thread, which analyses the events while they are still being
parsed. Afterwards only the GUI thread works, apart from short-lived worker
threads of `WorkQueue` batches.

| Component | State | Operations | Interaction | Hard behaviour | Correct when |
|---|---|---|---|---|---|
| Load pipeline (`threads/`, `parser/traceparser.*`) | rings of 4 `LoadBuffer`s and 4 `ThreadBuffer`s with a mutex, a condition and a state each; two `IndexWatcher`s; trace type, pointers to the event lists | produce, tokenize, parse a buffer; announce the type; post and wait for indices; open, close | four threads, conditions, unlocked reads after announcements | every interleaving; wakeups; end of file; threads that nobody joins | lines in order and once, pointers into live bytes, nothing lost at the end, nobody waits forever |
| Line splitting (`tracefile.*`, `loadbuffer.*`) | position in the buffer, carry of the unfinished line | `ReadLine`, `ReadNextWord`, `produceBuffer` | reader and loader thread through the buffer | a line across two buffers, long lines, no newline at the end, words that are cut in memory that is still read | words and lines of the buffers are those of the file |
| Line parsing and stack traces (`traceparser.h`, `tracelinedata.h`) | event lists, last time stamp, text being captured, last event per CPU | `parseLineFtrace`, `parseLinePerf`, `fixLastEvent`, `parseLineBugFixup` | parser thread only | time stamps that go back, text that ends with the file, interleaved CPUs | events sorted, text given to the right event, once and whole |
| Grammars (`parser/ftrace`, `parser/perf`) | state over the words of a line, tree of event names | `parseLine`; lookup of PIDs, names, CPUs in the arguments | called by the parser thread; the lookups by the analyzer | names that look like fields; a loop that goes back | a line becomes the event that was printed, and its arguments are read as they were printed |
| Event filters (`analyzer/filterstate.*`, `regexfilter.*`, `traceanalyzer.cpp:1009-1370`) | AND and OR filter of five kinds, `filteredEvents` | create, disable, reset, update | dialogs, toolbar, settings through `MainWindow` | any sequence of requests; dialogs that outlive a trace | list, view and button agree |
| Trace analysis (`analyzer/`) | per CPU and per task scheduling state, migrations, colours | `process*Event`, add tails, `doScale` | reads the parser's events | equal times, lost events, tasks known only in part, PIDs used again or aliased | graphs, run times and latencies are those of the traced system |
| Statistics and latencies (`abstracttask.*`, `latency*`) | sums, sorted lists | `doStats`, `doStatsTimeLimited` | worker threads over tasks | interval boundaries | sums equal a reference sum |
| Main window (`ui/mainwindow.*`, `ui/events*`) | open trace, shown list, enabled actions, unified graphs, cursors | open, close; slots of filters, graphs, legend, colours, cursors, searches, settings | all others | order of slots, stale pointers after close | every view shows the open trace, every button fits, every graph is in its range |
| Dialogs and models (`ui/*dialog*`, `ui/*model*`) | selections | requests as signals | main window | not modal | as filters |
| Task range allocator (`ui/taskrangeallocator.*`) | list of ranges, bottom | get, put, clear | main window | returned in any order | ranges in use never overlap |
| State file (`misc/statefile.*`) | colours, file names | load, save, clear | main window; disk | failure, crash while rewritten, traces that share a file | colours of a trace survive |
| Settings (`misc/setting*`) | values, dependencies | load, save, set | dialog, main window | failure | consistent values |
| Work queue (`threads/workqueue.*`) | items, first error | add, start, wait | `doScale`, `doStats`, `doLimitedStats` | interleaving | each item once, nothing used after `wait()` |
| Memory pools, strings (`mm/`) | chunks, tree of strings | alloc, commit, reset, intern | parser, analyzer | chunk borders | no overlap, one pointer per string |
| AVL tree, heapsort, lists, bit vectors (`vtl/`) | nodes | insert, delete, search, sort | everywhere | rotations | order, balance |
| Time (`vtl/time.h`) | packed number | parse, compare, add, print | everywhere | rounding, sign | as integers |
| Plot items and cursors (`ui/cursor*`, `ui/tasktoolbar.*`, ...) | positions of the two cursors, toolbar, legend | set, move, find | main window | one position kept in five places | all places agree |
| Program start, QCustomPlot, scripts | - | options, drawing | - | - | out of scope |

`PROJECT.json` lists the same components with their sources and status, and the
hazards of the code at the lines where they bite.

## 2. Modules

| Module | Models |
|---|---|
| `LoadPipeline` | `LoadThread::run`, `TraceParser::threadReader`, `threadParser`, `TraceAnalyzer::threadProcess`/`processGeneric`, with `LoadBuffer`, `ThreadBuffer`, `IndexWatcher` |
| `TraceDelivery` | abstract: what the pipeline promises, without threads, slots or locks |
| `LoadChunks` | the bytes below it: `produceBuffer`, `ReadLine`, `ReadNextWord`, `parseBuffer_` |
| `MemPool` | `mm/mempool.*`, extended by `LoadChunks` |
| `TraceSession` | the threads over several openings and closings of traces |
| `LineParser` | `parseLineFtrace`, `parseLinePerf`, `parseLineBugFixup`, `attachStackChunk`, `fixLastEvent` |
| `EventLines`, `EventArgs` | `FtraceGrammar::parseLine`, `PerfGrammar::parseLine`; `ftraceparams.h`, `perfparams.h`, `paramhelpers.h` |
| `TracedKernel` | external: the system a trace is a record of; extended by `SchedAnalyzer` |
| `SchedAnalyzer` | `processSwitchEvent`, `processWakeupEvent`, `processForkEvent`, `processExitEvent`, `handleWrongTaskOnCPU`, `processSchedAddTail`, the latency estimates and `doStats` |
| `EventFilter` | the filter functions of `TraceAnalyzer` and the slots of `MainWindow` that call them |
| `TaskRangeAllocator` | `ui/taskrangeallocator.*`, extended by `TaskPlot` |
| `TaskPlot` | unified graphs, selection, task toolbar, legend, buttons and `consumeSettings` of `MainWindow` |
| `TraceSearch` | the searches of `TraceAnalyzer`, `AbstractTask::doStatsTimeLimited`; extended by `Cursors` |
| `Cursors` | the two cursors, the find slots, the dialog with the statistics between the cursors |
| `StateFile` | `misc/statefile.*`, the colours of tasks in `TraceAnalyzer` and `MainWindow` |
| `WorkBatch` | abstract: what the analyzer expects of a queue of work items |
| `WorkQueue` | `threads/workqueue.*`, `workthread.h` and the batches of the analyzer |
| `AvlTree` | insertion, rotations and `clear()` of `vtl/avltree.h` |
| `AvlIteration` | lookup and iteration in the trees of `AvlTree` |
| `MC*` | small instances for TLC, and reference definitions that only the runs use |
| `FileLines` | the lines and words of a file by definition, and `LinesOfFile`; extends `LoadChunks` |
| `LoadPipeline_proofs`, `LineParser_proofs`, `SchedAnalyzer_proofs` | proofs about the module of that name |
| `LoadChunks_proofs` | proofs about `LoadChunks` and `MemPool`, and that they do what `FileLines` says |
| `Session_proofs` | proofs about `WorkQueue`, `TraceSession` and `StateFile` |
| `MainWindow_proofs` | proofs about `EventFilter`, `Cursors` and `TraceSearch` |
| `Tasks_proofs` | proofs about `TaskRangeAllocator`, `TaskPlot`, `AvlTree` and `AvlIteration` |
| `Recursion_proofs` | induction, recursive functions and division, for the other proofs |

An operator named in a comment as *Mutant* is never part of a specification: it
is the way a plausible mistake would change the definition after it, and each
property has one that it catches (`PROJECT.json`, `mutants`).

### LoadPipeline

One action per critical section or unlocked access. `pc` names where a thread is:
`lockL`/`sleepL` before and in the wait for a `LoadBuffer`, `lockT`/`sleepT` the
same for a `ThreadBuffer`, `work` inside, `endL`/`endT` before the completions,
`account` in `produceBuffer()` after its unlock, and the steps of `threadParser()`
and `threadProcess()` by name. A `QWaitCondition` releases the mutex and sleeps in
one step; the thread that completes its part moves a sleeper on that slot back to
`lockL`/`lockT`, where it must lock and test again. `turn[t] % NBuf` is the slot a
thread is at: three rings that are walked independently, which only the states of
the buffers keep in step. The trace type is announced by one `IndexWatcher`, the
number of events by another, and main reads the type, the list pointer and the
list without a lock. A buffer is abstracted to its number in the file, `nRead`,
`filePos`, `eof` and the events of each type its lines hold. An error of `read(2)`
is an end of file, as in the code.

The module maps itself to `TraceDelivery`: `delivered` is the file, `taken` the number
of buffers that were parsed, `kind` the announced type, `count` what main has analysed,
and the abstract queue is bounded by the number of slots. `ImplementsTraceDelivery` is
checked as a property and its safety is proved.

### LoadChunks and MemPool

A cell of a buffer holds the number of the byte in the file (or the zero byte that
ends a word), so that a byte that is lost, doubled or read from a buffer that was
refilled is noticed even if it is the same letter. The carry of an unfinished line in
front of the next block, the shift of `buffer` that goes with it, the position and the
switch of `ReadLine`, and the reservation and commit of room in the two pools are
those of the code. Loader, reader and parser take turns on a slot with the states
that `LoadPipeline` has and proves; here a thread has a slot from its begin to its end
action, and a step is a `read()`, a word or a line. Assumed: a regular file (`read()`
is short only at the end) without zero bytes (the carry is copied with `strncpy()`).
Which line is an event is left to `EventLines`: here it has at least two words, and
its arguments are its words. Sizes of pools are in objects; an `mmap()` that fails
ends the program.

### TraceSession

`open()` makes a `TraceFile` (which starts the loader), four `ThreadBuffer`s, and
starts reader and parser; `close()` deletes the `TraceFile`, which joins the
loader. Nobody joins the other two, and `QThread::start()` does nothing while a
thread runs. Each thread has the phases in which it uses something that open and
close create and delete. `patient` says whether the user of the session leaves the
threads time to return before a trace is closed; the constant `Patience` has the
users that are checked. Its `SessionInit`, `SessionNext` and so on have names of their own,
since `Session_proofs` extends this module, `WorkQueue` and `StateFile`; `Cursors` has such
names because of `EventFilter`.

### LineParser

A file is a sequence of lines, each an event with a CPU and a time, an ftrace
stack event, or anything else. A position in the file is the number of the line
that begins there, so a chunk of text is a pair of line numbers. `CorrDelta` and
`Window` are the 900 ms and 10 ms of the correction for the rollover bug.
`lastEventByCPU` and `stackOrigin` are pointers to events: indices, 0 is nullptr.

### EventLines and EventArgs

A word is a sequence of atoms that are never cut (a number, a key, `=`, `:`), a name a
sequence of words. `Line` and `Arguments` are external: they print an event as the
kernel, trace-cmd or perf does, in the styles that the comments of the parsers and the
files under `doc/` show. A step is one round of the loop of `parseLine()`, with its
going back over words that turned out to be part of a name; then the analyzer looks up
the arguments. `Refused` and `Ambiguous` describe the lines that cannot be told from
others, `HoldsHeader` and `FlagsInName` the names that are taken for fields of the line, and
`UnreadStyle` the style that the code for ftrace does not read, see *Differences*.
`LongAtoms` are the atoms that make a word longer than the ten characters at which
`pidFromString()` gives up with PID 0. Not modelled: the limits of 128 on names and arguments, the
tree of event names, and the lookups of priority, CPU, parent PID and idle state, which
the properties do not tell from the ones that are there.

### TracedKernel and SchedAnalyzer

`TracedKernel` is not code of the program. It is what the handlers take for granted
about Linux: a CPU runs one task, only a task that is ready is switched in, a task
that sleeps becomes ready by a wakeup, a new one by fork and wakeup, a task that has
called exit goes with its next switch out that is not a preemption, and its PID may
be used again. A trace begins in any such state. It also keeps what the analyzer
tries to find out: how long each task ran (`ran`), since when it has been ready
(`since`) and why (`how`).

Each event of `SchedAnalyzer` is a step of the kernel together with the whole
handler, or, for the kinds in `lossy`, without it. The alias of a task that some
kernels put into the PID field of an event is chosen from `Aliases`. A graph
(`schedTimev`, `schedData`, `schedEventIdx`) is only ever appended to, and the
handlers read no more of it than whether it is empty and its last point, so a graph
is that point, with the run time `doStats()` gets from the points so far and whether
they are in the order of time. `isNew` and an empty graph coincide. `missed` is a history
variable, the tasks whose wakeup got lost, and the field `first` of `latency` tells that the
task was seen for the first time (`FirstSeen`). Times are
integers and `Delta` is `FAKE_DELTA`. The kinds of traces are the constant `Workloads`: how far events are
apart, whether running tasks are woken up, which events get lost, which aliases occur.

### EventFilter

`filter[l]` is everything a filter of logic `l` keeps; `on` is its `FilterState`.
Each action is a slot with everything it calls: the change of the filter, the list,
the model of the events widget and the button. Whether a regex matches an event is
a field of the event, whether it compiles is membership in `BadRegexes`. What a
disabled filter keeps is forgotten, which no function can tell, since it is written
before it is enabled again. `Filtered` is the loop over the events, as a function of how
far it has come. `PidsAssumption`: PID 0, the idle task, may be asked for. `addPidToFilter()` and `removePidFromFilter()` have no
caller and are left out.
The dialogs are not modal, so that a request may also come when no trace is open; the
history variable `early` tells that one has enabled a filter then.

### TaskRangeAllocator and TaskPlot

The linked list of ranges is a set, since `getTaskRange()` keeps it in the order of the
places. An action of `TaskPlot` is a click, a button, a request of a dialog, a change
of the settings, an opening or a closing, with all slots it runs: those of the toolbar,
the legend and the buttons are part of it. The loop of `consumeSettings()` over the
unified graphs is a step for each graph. A graph is a record of its task, CPU and the
lower end of its range; a deleted one is one that is not in `plot`. `orphaned` is history: the
selected unified graph was removed, and nothing was selected since; so are the fields
`task`, `drawn` and `hidden` of `settings`, which tell what was there when `consumeSettings()`
began. Assumed: graphs
of a CPU have at least two points, and which CPU a task is busiest on is free.

### TraceSearch and Cursors

A trace is a sequence of events in the order of time. A position is kept as a
`vtl::Time` in the cursor, in `AbstractTask` and in the info widget, and as a double in
`cursorPos`; all are variables of the model, since each slot must tell all of them.
Event times are even; an odd time is the nanosecond before one, which a time in
`Inexact` becomes by a conversion from a double. The binary searches and `heapsort()` are
recursive functions, of an interval and of a step of the heap. The rows of the dialog are
in the order that `heapsort()` yields; for equal keys that is left open.

### StateFile

A state file is `absent`, `invalid` or `good` with its colours. Reading, writing and
removing it may fail, a write may be torn, and the program may crash between any two
steps. Several traces may share a file (`FileOf`), because the name is the one of the
trace up to its last dot. `Random` is the colour that the analyzer chose. `promised` is
a history variable: what the user saw last of each file, if no loss was reported.

### WorkBatch and WorkQueue

A step of `WorkQueue` is a section under a mutex, the start or the join of a thread, or
the end of an item: items overlap. Whether an item fails is free, although all of today
return false. `WorkBatch` is the same for someone who sees only `start()`, the items
and `wait()`: `working`, `pending`, `failed` and `outcome` are mapped from the phase of
the user, the queue and the hands of the threads, the error flag and the error that a
thread is about to report, and the value that `wait()` returned. `addDefaultWorkItem()`
and what belongs to it have no user and are left out.

### AvlTree

A step is an iteration of a loop: of the descent, then of the ascent that adds one to
heights and rotates. Nodes are numbers in the order of their allocation, `Policies` the
two ways to balance: moving nodes, or exchanging their contents. Cases that mirror each
other in the source are one operator here. The tree has no removal; `prev()` and the count
`size_`, which nothing here relies on, are not modelled. `AvlIteration` adds
what reads it at rest, `begin()`, `next()` and `find()` as recursive functions on its nodes,
and is the module of the run.

## 3. Runs

Each run asks one question of one module, and there is one run for each. The bounds
are constants of the modules (`MaxReads`, `MaxBytes`, `MaxOpens`, `MaxLines`,
`maxEvents`, `MaxEnabled`, `MaxGraphs`) or the sets of an `MC` module. Deadlock is checked
except where the system stops: a user who opens no more traces, a line or a file that
ends.

| Run | Question | Bounds |
|---|---|---|
| `pipeline` | do the four threads deliver, parse and analyse the file | 2 slots, 3 reads, batch 2, five kinds of buffer content |
| `chunks` | are the lines, words and arguments of any file those of the file | files of up to 7 bytes, blocks of 3, 2 slots, 2 words per line, pools of 4 |
| `sessions` | are the threads and buffers of one trace gone before the next | 4 traces, both kinds of user |
| `lines` | events and stack texts of whole files | 5 lines, 2 CPUs, 3 times |
| `event_lines` | is a line read as it was printed | 8,436 lines, names of up to six words |
| `sched` | graphs, statistics and latencies against the kernel | 2 CPUs, 2 tasks, 5 or 4 events |
| `filters` | list, view and button after any sequence of requests | 2 traces, 3 filters enabled at a time |
| `taskplot` | graphs, ranges, buttons and legend after any sequence of clicks | 4 tasks, 2 ghost tasks, 3 graphs |
| `cursors` | statistics and searches wherever the cursors are | 65 traces, 3 positions besides the events |
| `colors` | do colours come back | 3 traces, 2 files, 3 tasks, 2 colours |
| `work_queue` | is every item done once, and nothing used later | 4 items, 3 threads, batches without end |
| `avl_tree` | is the tree a sorted map, and balanced | 6 keys, both policies |

Four more configurations are meant to fail, and are not among the runs: each checks one rule as
a document of the repository states it, with the bounds of the run it is named after, and TLC
answers with a behaviour in which the program breaks it. The property of the run excepts that
case by name.

| Configuration | Rule | Excepted in the run as |
|---|---|---|
| `MCLineParserRule.cfg` | `StackOfMostRecentEvent`: a stack belongs to the most recent event of its CPU (`doc/ftrace-stacktrace-design.md:57`) | `Rejected` in `StackOfLastCommitted` |
| `MCSchedAnalyzerRule.cfg` | `NoLatencyWithoutCause`: no latency without a wakeup or switch before (`CHANGELOG:92`) | `FirstSeen` in `LatencyIsWait` |
| `MCTaskPlotLegend.cfg` | `LegendButtonIsOfUse`: the button for the legend is only enabled if it works (`CHANGELOG:195`) | `orphaned` in `ButtonsMatch` |
| `MCTaskPlotSelection.cfg` | `TaskSelectionRestored`: task selections are restored after a change of the settings (`CHANGELOG:191`) | `HiddenSelection` in `SettingsRestore` |

**pipeline.** `ParsedInFileOrder` (each buffer once, in order, with its own lines, and
with the offsets of the file, although `produceBuffer()` reads `nRead` after unlocking),
`LinesPointIntoLiveBuffer` (pointers of lines into buffers that `read()` may overwrite),
`MainReadsCommittedEvents` and `AnnouncedTypeStable` (main may read type and list
without a lock), `DeletedAfterLastUse` (the parser deletes buffers that the reader has
locked), `ImplementsTraceDelivery` (also that nothing is lost at the end) and
`EveryThreadFinishes`. Two slots wrap around with three reads, so every slot is
used twice and every thread can be a whole ring ahead or behind; the contents
include an empty last buffer, garbage only, and mixtures that are decided early,
late, by guessing, or not at all. A batch of two is reached within a buffer, across
buffers and missed by one.

**chunks.** `LinesOfFile` compares what the parser sees with the lines and words of the
file by definition: all of them, once, in order, with their bytes and with where they
begin. `ArgumentsStay`: the arguments of an event are not touched by room that is only
reserved for later lines, by lines that turn out not to be events, nor by a new chunk.
Seven bytes in blocks of three are three blocks, so that a slot is used again and a line
can begin in one block and end in the next or the one after it; every arrangement of
letters, spaces and line ends is a file. A pool of four and two words per line: a chunk
ends after one line, with room left or not.

**sessions.** Four traces are more than the two that are needed for one to meet the
threads of the one before. `ResourcesFollowTrace`: for a user of any speed nobody uses a
`TraceFile` that was deleted, because what main waits for in `threadProcess()` comes
after the last use by reader and parser; and for a patient user the buffers are given
back. `PatientUserIsServed`: main never waits forever, if the user leaves the threads
time to return. In this model a trace is always shorter than the ring: the pipeline
itself is the subject of the other module.

**lines.** `EventsSorted`, `StackOfLastCommitted` (no text at the wrong event, none in
two), `StackTracesComplete` (no text missing, also at the end of the file; what should
be kept is computed from the lines by a reference definition). A stack is given to the most
recent event of its CPU, except where that event is `Rejected` for its time; without the
exception TLC finds an event, one whose time goes back, and a stack event at a time that is
accepted again. A time that goes back
from 2 to 0 is one that the correction accepts, from 3 to 2 and from 3 to 0 are the ones
it rejects at either side of the window. Five lines are an event on each CPU, two stack
events and one more line.

**event_lines.** `LineIsUnderstood` (task, PID, CPU, type and arguments are those that
were printed, or the line is refused), `ArgumentsAreRead` (and the analyzer reads from
them what was printed), `EveryLineEnds` (the loop goes back, but not forever). Names are
built of words that look like a CPU, a PID, a time, the arrow of a switch or a field,
and of empty words (spaces at an end or in the middle), in both halves of a switch. Longer
ones hold a PID, a CPU, flags and a time in this order, all or all but one, and an event.
Wakeups are printed in all five styles, that with `success=` among the fields of today
included (`perfparams.h:357`). What fails is excepted by name (`Refused`, `HoldsHeader`,
`FlagsInName`, `Ambiguous`, `UnreadStyle`); the last is for ftrace only, in perf the style is read.

**sched.** Three kinds of traces. In the first the events are 3 apart and `Delta` is 1, so
that the invented times of two events do not meet, and switches and wakeups get lost; five
events are enough for a task to be switched out, sleep, be woken up, be switched in on
another CPU and out again, or to exit, be forked, woken up and switched in; a lost event
and the repair need three. In the second the events have the same time or are
`2 * Delta` apart, the last distance at which they are spread, tasks are woken up while
they run, and aliases occur. The third is the first with tasks that are woken up while they
run, of which the trace may not tell. `OneTaskPerCPU` (also if switches were lost, which is
what `handleWrongTaskOnCPU()` is for), `GraphsAgree` (a task is shown running in its unified
graph if and only if it is on one of the CPUs), `AliasesAreUnambiguous` (an alias that
is a task itself, and one that stands for two tasks, are never translated) and, if
nothing was lost, `CPUGraphsSorted` hold for all of them. `UnifiedGraphsSorted` and
`LatencyIsWait` (a latency is the wait, every wait that the trace shows is reported, a
wakeup that was lost yields none, and the two kinds are kept apart; except a task that is
`FirstSeen`, which may get the time since the start of the trace) are promised if the
events are apart; `StatsMatchKernel` (the run time of every task is what it was in the
kernel, also for a task that ran when the trace began), if no running task is woken up:
see *Differences*. The first event is later than `StartTime`
(`FirstSteps`). The CPUs are symmetric: no handler compares two of them.

**filters.** `ViewMatchesFilter` and `StaleOnlyAfterWarning` except what happens to a
filter that was made without a trace (`early`), `FiltersAddUp` an inclusive OR filter on
PIDs: see *Differences*. Three filters at a time (`MaxEnabled`)
are two of one logic and one of the other, and one more than the interaction of two
kinds.

**taskplot.** `RangesDisjoint`, `GraphsInTheirRanges`, `ButtonsMatch`,
`NoDanglingGraph` (toolbar, legend and selection refer to graphs that exist) and
`SettingsRestore` (a change of the settings, which deletes every graph, restores what
was shown). Excepted by name: the buttons and the settings of a task that is not in
`PlainTasks`, because a ghost task stands for it; the two actions on a task while
`orphaned`; and the task of a `HiddenSelection`. Without the last two exceptions TLC selects a
unified graph and removes it, or hides the graphs of CPUs, chooses a task and changes the
settings again. Task 1 runs on two CPUs, task 6 is only woken up, PID 4 is a ghost of task
2 and 5 of none. Three graphs leave a gap in the middle and at either end.

**cursors.** `StatsFollowCursors`: the rows of the visible dialog are what the trace
says of the interval between the positions that the user is shown, by a definition that
counts units of time. `SearchesFindNeighbours`: a search for a wakeup, a waking or a
sleep finds the next one, with nothing of the task in between. The traces are all that
two tasks can make on one CPU with five events, of which the first two and the last two
are at the same time, and on two CPUs with three events and a migration; the cursors
start at 1, 5 or 9: before, within and after the events.

**colors.** `DrawnInUserColor` (a task that ran is drawn in the colour of the user, and
in its first one after a reset) and `ColorsComeBack` (what the user saw is there again,
unless an error was reported, the program crashed, or a failed open left the colours of
another trace). Two traces that share a file have one task each that the other lacks.

**work_queue.** `ItemsOutliveTheirUse` (an item in the queue or in the hands of a thread
is allocated and held once, and none is worked on while the next batch is prepared) and
`ImplementsBatch`, the refinement with its liveness. Four items for three threads are
fewer, as many and more than threads. The state space is finite without bounds.

**avl_tree.** After every call `Balanced` and `IterationIsSortedMap`: an iterator visits as
many nodes as there are, in the order of their keys, each with the value that was stored
last, and `find()` finds each key that was inserted and no other. Six keys in any
order reach every rotation at the root and below it, with subtrees that move.

## 4. Fairness

`LoadPipeline` and `TraceSession` assume weak fairness of each thread: an operating
system thread that can go on does. For main this is justified because `processTrace()`
runs in the GUI thread without returning to the event loop. Nothing is assumed of
the user or of which buffers `read()` delivers; that a file ends is the bound
`MaxReads`. A mutex is a lock that is free or not; weak fairness is enough since
nobody can take the same slot again and again: the states of the slot alternate.
`WorkQueue` assumes that threads go on and items end, and that main goes on inside a
batch; not that it begins one. `EventLines` assumes that the loop of `parseLine()` goes
on. All others have only safety properties.

## 5. Proofs

`tlapm` checks the eight `*_proofs` modules, for all values of the constants that
satisfy the named assumptions of the modules. Every safety property of the runs but two
(see the end) is a theorem. What is proved of each component, and why the property alone
is not inductive:

**LoadPipeline.**

- `TypeCorrect`: inductive, first for the program counters (`PcOK`), then for the rest.
- `LocksCorrect`: mutexes belong to the threads that work on a slot, and the state a
  thread has waited for does not change under it. Inductive together with the types: a
  thread that completes a slot is the only one inside it, by mutex and state.
- `LinesCorrect`: lines point into live bytes and exist only in full buffers. It needs
  the locks, in particular that a full `ThreadBuffer` belongs to a tokenized `LoadBuffer`
  (`FullIsTokenized`), so that the loader, which needs an empty one, cannot overwrite it.
- `WakeupsCorrect`: no thread sleeps on a condition that holds; for main, that
  `wakeAll()` for full batches only is enough, from the relation of posted and received
  indices to the batch size.
- `AnnouncementStable`: type and list do not change after the announcement.
  `determineTraceType()` decides only by a factor of at least one, hence for the more
  frequent type, and once decided only that type is counted; so `guessTraceType()` at the
  end of the file decides the same.
- `MainReadsCommitted`: indices never run ahead of the list that main reads.
- `ParsedInOrder`: nothing in the code counts buffers, so the invariant does. `RingInv`
  says how far apart the three threads can be in the ring (`RingOrder`), and that a slot is
  loaded, tokenized or empty exactly if it lies between two of them (`LoadStates`,
  `TbufStates`); `InOrder`, that such a slot holds the buffer of its number, with the
  offset that the sum of the sizes before it gives.
- `DeletedAfterUse`: the parser deletes the buffers after the reader has left them.
  `EofInOrder`: only the last buffer is at the end of the file, and a thread that has seen
  the end is past it, so the parser can end only after the reader.
- `PipelineImplementsDelivery`: the initial states map to those of `TraceDelivery`, and
  every step to a step of it or a stutter. `RefInv` adds what main relies on
  (`MainSeesAll`): after the end of events is announced no index is missing.

**LoadChunks.** `ArgumentsStayCorrect`, for any files, buffers, lines and pools. The
invariant says what the code relies on without a word: an event owns room in a chunk that
is used up, or before `next` in the current one (`Holds`); `argv` is `next` whenever a line
is parsed, and there is room for the longest line; a line never has more words than that.
So the arguments are written from `next` on only, and a commit moves `next` behind them.

`LinesOfFileCorrect`, for the same and any number of buffers. Nothing in the code counts
buffers, so the invariant `Cut` does, as for the pipeline: `nl` were filled, `nr` of them
read, `np` parsed, buffer `n` was in slot `n % NBuf` (`Ring`). It says

- of the file: `Border` is the line end before the first `read()` without one. Below it every
  buffer is a section of the file that begins after a line end, or at the start, and ends
  with one, or at the end of the file; the bytes that `produceBuffer()` keeps for the next buffer
  are those from the last line end on (`Sections`, `Loaded`);
- of the buffers that are not read: their cells hold the bytes of the file (`Unread`,
  `Intact`). The reader overwrites the bytes after words with zeros, but never one at or
  after the place it is at, and nobody reads one before it again except as a part of a word;
- of the buffers that are read: their lines follow each other without a gap (`Chain`), and
  each has exactly the words between where it begins and where the next does; of the line that
  is being read the same, up to the place of the reader (`Partial`). The words are also what
  `strings` holds at the places the line refers to, since the pool of the slot only grows
  until it is reset with the slot (`Tokens`);
- of the parser: it has seen as many lines as begin before the place it is at, and those are
  the ones of `Whole` (`SeenTo`). That the words are counted right, and a line goes on as another
  after `MaxArgs` words, is about the number of words of a line before a place: lemmas on
  finite sets whose members are in order.

At and beyond `Border` nothing is claimed of the contents of buffers, unless every `read()`
finds a line end: then the only one there is empty and at the end of the file. `Aborted`
needs a `read()` that finds none.

**AvlTree.** `BalancedCorrect`, for any keys in any order and both policies. The heights at
rest say nothing about the ascent, where they do not fit. `TreeShape`: at all times a child
and its parent name each other (`Linked`), and at rest the height of each node is one more
than that of its higher child and at most two more than that of the other (`Fit`). `Ascent`:
all nodes fit but `grandParent`, below which the tree of `parent` has grown by one
(`Grown`); `entry` is the higher child of `parent`. So a difference of 0 ends the ascent,
one of 1 makes the tree of `grandParent` grow in turn, and one of 2 leaves a tree that leans
(`Leaning`). For each of the four rotations one lemma says what it does to every field of
every node, assignment by assignment (`RotateInnerSwapShapes`), and one that a tree with
these fields fits everywhere (`InnerSwap`). Links are part of it: a rotation that lost one
would leave a subtree whose height nobody repairs.

**AvlIteration.** `IterationCorrect`, for the same. That a key is left or right of its parent
says nothing about its grandparent, and at the moment of a rotation a comparison with the
children is not what the code relies on. `OrderInv` adds to the shape of the tree that every
node has a *span* of keys, the ones whose search from the root leads to it: a child has the
part of its parent's span on its side of the parent's key, and the key of a node is in
its span (`Order`). A descent keeps that the key to insert is in the span of the node it is at. A
rotation hands the span of `grandParent` to the node that takes its place; the spans of
the subtrees that move are the same before and after, which is what makes the
rotation right. With exchanged contents it is the keys that move, and the spans follow. At rest:
the recursive functions exist, because heights fall on the way down and rise on the way up;
`NextAbove` is the upper bound of a node's span, so `next()` is the node with the next greater
key; the iterator goes up, and as it cannot leave out a key, it ends after all of them, by
counting.

**LineParser**, for any file, CPUs, times and correction.

- `SortedByTime`: the list of events is sorted. The invariant adds that no event is later
  than `prevTime`, which stack events advance too; attaching text changes no time.
- `StackTextBelongs`: a text is at the last event of its CPU that was not `Rejected`, whole,
  and in no other. `TimesInv`, see below, relates what is rejected to `prevTime`.
  `ChunkInv` describes the chunk that is open while the file is read: for ftrace it
  begins at a stack event after the last event of that CPU (`Capturing`, `LastKnown`) and
  every other chunk ends before it; for perf it follows the last event (`PerfOpen`).
- `StackTextKept`: no text is missing. What should be kept is computed from the lines by a
  function of the times the parser believed so far. `TimesInv` relates it to `prevTime`:
  such a function exists, and each one that exists ends in `prevTime`. The step restricts
  it to the lines before, or extends it by one.

**SchedAnalyzer**, for any numbers of CPUs and tasks, any times, aliases and losses.

- `TypeCorrect`: one lemma for each handler.
- `OneTaskPerCPUCorrect`: a switch ends the graph of the task that leaves and, after the
  repair, no other task but the new one runs in the graphs of the CPU (`ShownInv`).
- `CPUGraphsSortedCorrect`: if no event is lost, at whatever distance switches are,
  provided that the first event is at least `Delta` after the start. `SortInv` adds that no
  point of a CPU is later than `lastSched`, that the analyzer's `pidOnCPU` is the
  kernel's task, so that nothing is repaired, and `TimeInv` that events are that late.
- `UnifiedGraphsSortedCorrect`: a unified graph takes points from several CPUs. It is sorted
  if the events are further apart than the invented times: `RecentInv` bounds
  `lastSched`, so that no switch is spread, and `OrderInv` the last point of each graph.
- `GraphsAgreeCorrect`: `KnownInv` (who is on a CPU is known unless a switch was lost),
  `RunningInv` (the kernel's tasks are each on one CPU) and `AgreeInv` (a graph is up
  exactly for those; an empty graph shows nothing). Even if events were lost,
  `processSchedAddTail()` reaches the end (`ShownToEnd`).
- `AliasesCorrect`: `AliasInv` relates what a ghost says of its task to the tasks it has
  stood for; it is cleared when there are two, or when it becomes a task itself.
- `StatsMatchKernelCorrect`: `StatsInv` has a case for a task without points, which either
  has run since the start of the trace or not at all. No assumption on times.
- `LatencyIsWaitCorrect`: `WaitInv` relates `lastRunnable`, its status and
  `lastSleepEntry` to the kernel's `since` and `how` for each state of a task, with
  `missed` for those whose wakeup is not in the trace.

**EventFilter**, for any traces, tasks, regular expressions and sequences of requests.

- `FilteredIsSelection`: the loop that makes the list yields exactly the events that pass,
  in their order, each once. See *induction* below.
- `TypeCorrect`: with the lemma that the list contains only events of the trace.
- `ViewFollowsFilter`: the view, the button and the list follow the filters. `ViewInv` adds
  what holds while no trace is open: a filter that is on then is `early`.
- `StaleIsAnnounced`: an action property: a list that no longer fits its filters stays only
  if the user was told that the regular expression is bad.
- `NewFiltersAddUp`: an action property: one more AND filter never brings an event back,
  and one more OR filter never hides one; the case that `FiltersAddUp` excepts is the
  only one.

**Cursors and TraceSearch.** `NeighboursAreFound`, for any traces in the order of time, tasks,
CPUs and cursors. `findIndexBefore()` and `findIndexAfter()` search an interval that is
halved: the function exists because the interval gets shorter (`TailRecursion`), and what is
left of it is after, what is right of it before the time. From there the loops forward and
backward are folded over the events; that they stop at the first event that fits is by
induction on the distance. The property tells for each of the slots (next wakeup, waking,
sleep) that the cursor is then at such an event of the task, and that none lies between.

`RowsAreRunTimes`: the statistics dialog, for any traces without lost events. The state is
easy (`StatsInv`: the four copies of a position agree, and a visible dialog holds what
`FillDialog` makes of it, whichever slot was last); that this is what the trace says is not:

1. `PointsShow`: after each event the task's graph ends with whether the task is on a CPU
   (`FoldInv`, by induction over the events; that a task leaves only the CPU it is on is
   `CompleteAssumption`), so at every moment the last point until then tells it.
2. `LowerPoint`, `StatsCount`: the binary search among points that may have the same time
   and the step back from there find the last point not after a time, and the sum from
   there counts the moments at which the graph is up.
3. `LimitedStats`: the moments of two tasks are apart and are moments of a CPU, so the sum
   over the tasks is the size of a union (`SumOfParts`, by induction on the set that
   `SumFunction` takes apart), and the idle task is left with the moments no task has.
4. `Heapsorted`: `siftdown()` turns what is a heap but for its root into a heap and moves
   nothing else (`Sifting`), `heapify()` does so from the last parent to the root, and each
   turn of `heapsort()` puts the greatest item behind the heap (`PartlySorted`). No row is
   lost (`RowsSwapped`).

**TaskPlot**, for any tasks, ghost tasks and sizes: one invariant (`TaskPlotInv`).

- `RangesDisjointCorrect`: the ranges lie between `bottom` and `top`; that a wide enough
  gap stays apart from all of them needs the next range above and below it, which exist
  because the list is finite and its places are integers.
- `GraphsInTheirRangesCorrect`: `PlotInv`: a range for each unified graph and none left.
- `NoDanglingGraphCorrect`, `ButtonsMatchCorrect`: `UserInv`: toolbar, selection and legend
  refer to live graphs, and to nothing while there is no trace or while the settings are
  consumed. `ButtonsInv` says of each button what enables it, in terms of the ranges, the
  toolbar, the legend and `orphaned`; `ButtonsMean`, with `PlotInv`, turns the ranges into
  graphs for the `PlainTasks`.
- `SettingsRestoreCorrect`: an action property. `Restoring`: what `consumeSettings()`
  remembers can be built again, what it has built so far is part of it, and the history
  in `settings` agrees with it: the selected graph is one of the toolbar's task, unless
  the selection is hidden.

**StateFile.** `DrawnInUserColorCorrect`, `ColorsComeBackCorrect`, `ResetIsOfferedCorrect`:
one inductive invariant (`IInv`). `ColorInv` relates the original colour, the colour drawn
and the map of the user: a task has an original colour exactly if it has one of the user.
`PromiseInv` relates the history of what was shown to the disk while no trace is open, and
to the map while one is. `ResetIsOffered` is only proved: as an invariant of a run it would
repeat a guard.

**WorkQueue and TraceSession.**

- `ItemsOutliveTheirUseCorrect`, `ImplementsBatchSafety`: for any items and threads. Every
  item is in one place (`Located`), the threads that are not idle are those that were
  started and not joined (`Active`), and a thread that has finished found the queue empty,
  so that it is empty when `wait()` has joined all of those. With that every step is one
  of `WorkBatch` or changes nothing it sees.
- `ResourcesFollowTraceCorrect`: for any number of traces and a user of any speed. Why a
  `TraceFile` may be deleted that nobody but the loader is joined for: `ToldInv` says what
  main was told when it returns from `processTrace()`, namely the type and the end of the
  events or that there is no type, and that reader and parser are past their last use
  then; the index that a parser sends late, for a trace that was closed, cannot be taken
  for that of the next, since the parser has not been started for it. `PatientInv`: the
  buffers of a patient user's trace are there only until its parser deletes them.

**Induction over data.** The library's induction theorems take an operator as a parameter,
which none of the provers here can instantiate. Where a recursion is a *function* this
project does without (`Recursion_proofs`): a predicate is the set of the numbers it holds for,
and the induction on sets of `NaturalsInduction` can be cited. A set of numbers that is not empty
has a least element (`LeastNumber`), hence a set that contains 0 and the successor of
each of its numbers contains them all (`InductionUpTo`, `InductionOnNat`), hence a recursion on an
interval has a solution (`RecursionUpTo`). For trees and searches the number is a
measure: a set contains everything if it contains what has only members below it
(`MeasureInduction`), and a loop whose measure falls is a function (`TailRecursion`). `Filtered`,
the times of `LineParser`, the searches and sums of `TraceSearch`, `heapsort()` and what `AvlIteration`
does on nodes are proved from these.

**Assumptions.** The named `ASSUME`s of the modules: sizes are positive (`NBufAssumption`,
`BufSizeAssumption`, `PoolSizeAssumption`, `NrThreadsAssumption`, `BatchAssumption`), the
longest line fits into a chunk of the pool (`MaxArgsAssumption`), times are integers, PID 0
may be asked for (`PidsAssumption`), special values are not in the sets they are told from,
no event of the traces of `Cursors` was lost (`CompleteAssumption`: without it the analyzer itself
cannot tell who had a CPU), and there are finitely many tasks.
TLC evaluates them in the passing runs. No module that has theorems reaches a RECURSIVE
operator, since that takes the SMT backend away.

`LockDiscipline`, `NoLostWakeup` and most type invariants are proved and therefore in no
run.

**Only model-checked:**

- liveness (`EveryThreadFinishes`, `PatientUserIsServed`, `EveryLineEnds`, the liveness of
  `ImplementsBatch`) and everything about `ENABLED`, which the prover does not handle;
- `LineIsUnderstood` and `ArgumentsAreRead`: `HoldsHeader` names the names that the grammars
  take for the beginning of a line. For the arguments, which names cannot be taken for the
  fields around an arrow is a question of single words, and the conditions for every style
  would repeat the functions of `EventArgs`.

## 6. Differences

What comments, documents or the expectation of a user say and the code does not do. The
models follow the code; a property that meets one of these excepts it by name. A
configuration that is named here is one of those that are meant to fail.

Loading and parsing:

- A `read()` without a line end cuts the line it belongs to. The last line of a file, if
  it has no end and crosses a buffer, is seen as two; if it ends with the buffer, a line
  of one old character follows, also for an empty file, since only the buffers after the
  first are asked whether they are the end (`traceparser.cpp:196`). A line as long as a
  buffer makes the process abort (`loadbuffer.cpp:100`). A line of more than 128 words
  goes on as another line. `LinesOfFile` excepts these (`NoEnd`, `Uncut`).
- A `read()` that fails is taken for the end of the file (`loadbuffer.cpp:110`).
- A trace that is opened before the parser thread of the last one has returned is never
  parsed, and the GUI thread waits forever (`traceparser.cpp:143`: `start()` does nothing
  for a running thread). The window is a few deletions and the return. Quitting while a
  thread still runs deletes a running `QThread` (`mainwindow.cpp:438`).
- (`MCLineParserRule.cfg`) the stack of an event that was rejected for its time goes to an
  earlier event of that CPU (`traceparser.h:248`), against the rule in
  `doc/ftrace-stacktrace-design.md:57`; `StackOfLastCommitted` excepts `Rejected`. In a
  perf file the frames that follow it extend the text of the event before (`traceparser.h:286`).
- ftrace refuses a line whose task name ends in an odd number of words that look like a
  CPU (`[7]`); perf refuses an empty name (`Refused`).
- The test after the search for the arrow of a `sched_switch` never refuses
  (`ftraceparams.h:139`): the loop ends before the value it is tested for. In
  `perf/helpers.h` the conditions of the far search are the inverse of the comment. A
  name that is printed like the rest of the arguments is read wrong (`Ambiguous`).
- A name that holds a PID, a CPU and a time in this order is taken for the beginning of
  the line (`HoldsHeader`). In ftrace a word of a name that looks like flags, after one that looks
  like a CPU, is lost (`ftracegrammar.h:375`; `FlagsInName`).
- A name with a space at an end is shown as "parsing error". The wakeup with `success=`
  among the fields of today, which `perfparams.h:357` lists, is not read in ftrace: the PID and
  the name are looked for where they are without it (`ftraceparams.h:432`; `UnreadStyle`).

Analysis:

- If a trace begins with a switch, the outgoing task gets a point before the start of
  the trace and is drawn running until it is scheduled again (`traceanalyzer.h:770`;
  `FirstSteps`).
- Times are spread for each CPU; a task that leaves one CPU and gets on another at the
  same time has a negative latency and a unified graph that goes back
  (`traceanalyzer.h:730`).
- A task that runs from the start of the trace and is woken up while it runs loses that
  time in the statistics (`traceanalyzer.h:968`).
- A task that was preempted after it called exit, or whose PID is used again, is not
  extended to the end (`traceanalyzer.cpp:300`); the comment at 246 says all tasks.
- (`MCSchedAnalyzerRule.cfg`) a task that is seen for the first time has a scheduling latency
  since the start of the trace (`traceanalyzer.h:850`); `CHANGELOG:92` says that none is
  calculated. `LatencyIsWait` excepts `FirstSeen`.
- `Time::fromDouble()` adds half a billionth of a nanosecond where half a nanosecond is
  meant (`time.h:286`): it truncates, and two or three of a hundred times with
  microseconds come back one nanosecond earlier. "Find sleep" at such a cursor finds the
  same event again, and a time filter loses the event at its end.
- `findWakingEvent()` starts before the time of the wakeup (`traceanalyzer.cpp:703`): a
  waking at the same time is not found. A search from beyond the last event begins at
  the last one, and one from before the first at the first.
- If both cursors are at the same time the percentages are 0/0 (`statsmodel.cpp:95`). If
  both are beyond the end, a task that runs at the end has no time; if one is, it has all
  of it up to that cursor.

Window:

- An inclusive OR filter looks targets up in the map of the AND filter
  (`traceanalyzer.cpp:1174`).
- An empty PID map removes the filters only if the AND filter is on
  (`traceanalyzer.cpp:1085`); the comment above it says no filtering. A map as large as
  the task map counts as all PIDs, but it can hold the idle task, which the task map does
  not (line 1084).
- A request from a dialog that was left open after its trace was closed enables a filter
  that the next trace is not shown with (`mainwindow.cpp:522`; `early`). "Reset filters"
  does nothing when only OR filters are enabled (`mainwindow.cpp:2626`). A changed
  setting shrinks the list but not the selection of the view (`mainwindow.cpp:2928`).
- (`MCTaskPlotLegend.cfg`) when the selected unified graph is removed the actions on a
  task stay enabled (`mainwindow.cpp:3122`) and do nothing; `CHANGELOG:195` says that the one
  for the legend is only enabled if it is possible. `ButtonsMatch` excepts `orphaned`.
- A unified graph that is added for a ghost task does not find the one of its real task
  (`mainwindow.cpp:3173`): a second one is drawn, and the button that clears them all
  leaves one (`README.md:142` says all); "add" and "remove" go by the range of the PID, not by
  the graph. `ButtonsMatch`, `GraphsInTheirRanges` and `SettingsRestore` are about
  `PlainTasks` where this matters.
- (`MCTaskPlotSelection.cfg`) with the graphs of CPUs hidden, a task that was chosen in a
  dialog is lost with the next change of the settings (`mainwindow.cpp:2842`), which looks at
  the selected graph; `CHANGELOG:191` says that task selections are restored.
  `SettingsRestore` excepts `HiddenSelection`. A selected graph of a CPU is lost for the
  same reason one change later, if the first one hides the graphs.
- Opening a file that is not a trace keeps its name and colours, which are then saved
  for another (`mainwindow.cpp:2339`; `Own`). A state file that cannot be read is
  overwritten, a torn one is read without an error, and one that cannot be removed
  brings back what was reset ("Ignore failure", `statefile.cpp:302`). The colour of a
  task that was woken up but never ran cannot be reset (`mainwindow.cpp:3793`).
- `getStateFileName()` returns a pointer into a temporary. `readKeyValuePair()` never
  ends on an empty line (`misc/traceshark.cpp:168`); the program writes none.

Elsewhere:

- An error of a work item does not stop the others, and only the first is kept.
- `prev()` of the AVL tree (`avltree.h:421`) does not find the next smaller key in every
  case; nothing calls it. With the swap policy a reference that was returned before may
  refer to another key after the next insertion; the callers keep none.

## 7. Not modelled, and what is left

Not modelled for good: drawing and the layout of dialogs, the command line, scripts,
and QCustomPlot, a vendored library with more than half of the lines of the repository.

What could be added, in this order:

1. Migrations, frequency and idle graphs in `SchedAnalyzer`: one point per event, no
   state over several steps beyond the last value of a CPU.
2. Rows and selection of the events widget (`findIndex`, `findFiltered*`) in
   `EventFilter`.
3. `StringTree` and `StringPool`: one pointer per string. `Time`: rounding that carries
   into the seconds, sign and precision in one word (`time.h:116`). All are
   functions of data without steps of several actors.
4. Settings and their dependencies; the file they are kept in is written like the state
   file.
5. `FileInfo` and the reading of a stack text back from the file.

Theorems left: `LineIsUnderstood` and `ArgumentsAreRead`, once there is a short condition on the
names of tasks under which a line is read as it was meant.

----------------------------- MODULE LineParser -----------------------------
(***************************************************************************)
(* How the lines of a trace become events with their stack traces: the     *)
(* functions parseLineFtrace(), parseLinePerf() and fixLastEvent() of      *)
(* TraceParser, over the lines of one file.  An event keeps the text of    *)
(* its stack trace as chunks, ranges of the file; a position in the file   *)
(* is the number of the line that begins there.  In an ftrace file a stack *)
(* trace is an event of its own, later in the file and with events of      *)
(* other CPUs in between; in a perf file the frames follow the event.      *)
(* The grammar is abstracted to what it finds: a line is an event, a stack *)
(* event or neither.                                                       *)
(***************************************************************************)
EXTENDS Integers, Sequences

CONSTANTS
  CPUs,
  Times,       (* the time stamps of the lines, VTL_TIME_MIN is below them    *)
  CorrDelta,   (* CORR_DELTA, 900 ms: what the rollover bug may subtract      *)
  Window,      (* TIME_10MS: how far a corrected time may be from the last    *)
  MaxLines     (* bound: lines of the file                                    *)

ASSUME TimesAssumption  == Times \subseteq Nat
ASSUME DeltaAssumption  == CorrDelta \in Nat /\ Window \in Nat
ASSUME LinesAssumption  == MaxLines \in Nat

Formats   == {"FTRACE", "PERF"}
VtlTimeMin == -1
OtherLine  == [kind |-> "other"]
Lines(fmt) == [kind: IF fmt = "FTRACE" THEN {"event", "stack"} ELSE {"event"},
               cpu: CPUs, time: Times] \cup {OtherLine}

VARIABLES
  format,           (* which grammar parses the file                          *)
  text,             (* history: the lines so far                              *)
  events,           (* ftraceEvents or perfEvents: the line of an event, its  *)
                    (* time after correction and its postEventInfo            *)
  prevTime,         (* TraceLineData::prevTime                                *)
  stackPending,     (* ftraceStackPending                                     *)
  stackOrigin,      (* ftraceStackOrigin, an index of events                  *)
  lastEventByCPU,   (* ftraceLastEventByCPU, 0 for nullptr                    *)
  prevLineIsEvent,  (* perfLineData: prevLineIsEvent                          *)
  infoBegin,        (* ftraceStackInfoBegin or perfLineData.infoBegin         *)
  done              (* has fixLastEvent() run                                 *)

ftraceVars == <<stackPending, stackOrigin, lastEventByCPU>>
vars == <<format, text, events, prevTime, ftraceVars, prevLineIsEvent, infoBegin, done>>

Init ==
  /\ format \in Formats
  /\ text = <<>> /\ events = <<>>
  /\ prevTime = VtlTimeMin
  /\ stackPending = FALSE /\ stackOrigin = 0 /\ lastEventByCPU = [c \in CPUs |-> 0]
  /\ prevLineIsEvent = TRUE /\ infoBegin = 0
  /\ done = FALSE

Here == Len(text) + 1

(* Mutant: the correction is tried, and not checked.                          *)
AcceptsAnyCorrection(t) == t >= prevTime \/ t + CorrDelta - prevTime < Window

(* parseLineBugFixup(): a time before the last one is believed if it is right *)
(* after the correction, else the event is dropped.                           *)
Accepts(t) == t >= prevTime \/ (t + CorrDelta >= prevTime /\ t + CorrDelta - prevTime < Window)

Corrected(t) == IF t >= prevTime THEN t ELSE t + CorrDelta

(* attachStackChunk(): append [begin, end) to the chunks of event i.          *)
Attach(evs, i, begin, end) == [evs EXCEPT ![i].info = Append(@, <<begin, end>>)]

(* Every event line ends the stack trace that is being captured.              *)
EndCapture == IF stackPending THEN Attach(events, stackOrigin, infoBegin, Here) ELSE events

Read(line) ==
  /\ ~done /\ Len(text) < MaxLines
  /\ line \in Lines(format)
  /\ text' = Append(text, line)
  /\ UNCHANGED <<format, done>>

-----------------------------------------------------------------------------
(* parseLineFtrace().                                                        *)

FtraceOther(line) ==
  /\ Read(line) /\ format = "FTRACE" /\ line.kind = "other"
  /\ UNCHANGED <<events, prevTime, ftraceVars, prevLineIsEvent, infoBegin>>

(* Mutant: an event that is dropped does not end the capture.                 *)
DropAndKeepCapturing(line) ==
  /\ Read(line) /\ format = "FTRACE" /\ line.kind # "other"
  /\ ~Accepts(line.time)
  /\ UNCHANGED <<events, stackPending, prevTime, stackOrigin, lastEventByCPU, prevLineIsEvent,
                 infoBegin>>

FtraceDropped(line) ==
  /\ Read(line) /\ format = "FTRACE" /\ line.kind # "other"
  /\ ~Accepts(line.time)
  /\ events' = EndCapture
  /\ stackPending' = FALSE
  /\ UNCHANGED <<prevTime, stackOrigin, lastEventByCPU, prevLineIsEvent, infoBegin>>

(* A stack event is not committed; its text is captured up to the next event. *)
FtraceStack(line) ==
  /\ Read(line) /\ format = "FTRACE" /\ line.kind = "stack"
  /\ Accepts(line.time)
  /\ events' = EndCapture
  /\ prevTime' = Corrected(line.time)
  /\ stackPending' = (lastEventByCPU[line.cpu] # 0)
  /\ IF lastEventByCPU[line.cpu] # 0
       THEN stackOrigin' = lastEventByCPU[line.cpu] /\ infoBegin' = Here
       ELSE UNCHANGED <<stackOrigin, infoBegin>>
  /\ UNCHANGED <<lastEventByCPU, prevLineIsEvent>>

NewEvent(line) == [line |-> Here, time |-> Corrected(line.time), info |-> <<>>]

FtraceEvent(line) ==
  /\ Read(line) /\ format = "FTRACE" /\ line.kind = "event"
  /\ Accepts(line.time)
  /\ events' = Append(EndCapture, NewEvent(line))
  /\ prevTime' = Corrected(line.time)
  /\ stackPending' = FALSE
  /\ lastEventByCPU' = [lastEventByCPU EXCEPT ![line.cpu] = Len(events) + 1]
  /\ prevLineIsEvent' = TRUE
  /\ UNCHANGED <<stackOrigin, infoBegin>>

-----------------------------------------------------------------------------
(* parseLinePerf().                                                          *)

PerfOther(line) ==
  /\ Read(line) /\ format = "PERF" /\ line.kind = "other"
  /\ infoBegin' = IF prevLineIsEvent THEN Here ELSE infoBegin
  /\ prevLineIsEvent' = FALSE
  /\ UNCHANGED <<events, prevTime, ftraceVars>>

PerfDropped(line) ==
  /\ Read(line) /\ format = "PERF" /\ line.kind = "event"
  /\ ~Accepts(line.time)
  /\ UNCHANGED <<events, prevTime, ftraceVars, prevLineIsEvent, infoBegin>>

(* The lines since infoBegin belong to the previous event, or to fakeEvent.   *)
SetPrevInfo(end) ==
  IF prevLineIsEvent \/ events = <<>> THEN events
  ELSE [events EXCEPT ![Len(events)].info = <<<<infoBegin, end>>>>]

PerfEvent(line) ==
  /\ Read(line) /\ format = "PERF" /\ line.kind = "event"
  /\ Accepts(line.time)
  /\ events' = Append(SetPrevInfo(Here), NewEvent(line))
  /\ prevTime' = Corrected(line.time)
  /\ prevLineIsEvent' = TRUE
  /\ UNCHANGED <<ftraceVars, infoBegin>>

(* Mutant: a capture is ended by event lines only.                            *)
FixLastPerfEvent ==
  /\ ~done /\ done' = TRUE
  /\ events' = IF format = "FTRACE" THEN events ELSE SetPrevInfo(Here)
  /\ stackPending' = FALSE
  /\ UNCHANGED <<format, text, prevTime, stackOrigin, lastEventByCPU, prevLineIsEvent, infoBegin>>

(* fixLastEvent(), at the end of the file.                                    *)
FixLastEvent ==
  /\ ~done /\ done' = TRUE
  /\ events' = IF format = "FTRACE" THEN EndCapture ELSE SetPrevInfo(Here)
  /\ stackPending' = FALSE
  /\ UNCHANGED <<format, text, prevTime, stackOrigin, lastEventByCPU, prevLineIsEvent, infoBegin>>

ParseLine(line) ==
  \/ FtraceOther(line) \/ FtraceDropped(line) \/ FtraceStack(line) \/ FtraceEvent(line)
  \/ PerfOther(line) \/ PerfDropped(line) \/ PerfEvent(line)

Next == (\E line \in Lines(format) : ParseLine(line)) \/ FixLastEvent

Spec == Init /\ [][Next]_vars

-----------------------------------------------------------------------------
(* Properties.                                                               *)

(* Every variable has a value of its C++ type, an event's line is a line of   *)
(* the file, and the pointers to events point to events of the list.          *)
TypeOK ==
  /\ format \in Formats /\ text \in Seq(Lines(format))
  /\ events \in Seq([line: 1 .. Len(text), time: Int,
                     info: Seq((1 .. Len(text)) \X (1 .. Len(text) + 1))])
  /\ prevTime \in Int /\ infoBegin \in 0 .. Len(text)
  /\ stackPending \in BOOLEAN /\ stackOrigin \in 0 .. Len(events)
  /\ stackPending => stackOrigin # 0 /\ infoBegin # 0
  /\ lastEventByCPU \in [CPUs -> 0 .. Len(events)]
  /\ prevLineIsEvent \in BOOLEAN /\ done \in BOOLEAN
  /\ ~prevLineIsEvent => infoBegin # 0

(* The list of events is sorted by time, which the analyzer's binary searches *)
(* rely on, although time stamps of the file may go back.                     *)
EventsSorted ==
  \A i, j \in DOMAIN events : i < j => events[i].time <= events[j].time

(* The chunks of all events: the event, and the range <<begin, end>>.         *)
Chunks     == UNION {{<<i, events[i].info[k]>> : k \in DOMAIN events[i].info} :
                       i \in DOMAIN events}
Covered(c) == c[2][1] .. c[2][2] - 1
IsEvent(n) == text[n].kind # "other"

(* The time of the last line up to line n that was accepted.                  *)
TimeAfter[n \in 0 .. Len(text)] ==
  IF n = 0 THEN VtlTimeMin
  ELSE LET t == TimeAfter[n - 1]
       IN IF ~IsEvent(n) THEN t
          ELSE IF text[n].time >= t THEN text[n].time
          ELSE IF text[n].time + CorrDelta - t \in 0 .. Window - 1 THEN text[n].time + CorrDelta
          ELSE t

Believed(n) == \/ text[n].time >= TimeAfter[n - 1]
               \/ text[n].time + CorrDelta - TimeAfter[n - 1] \in 0 .. Window - 1

(* The event that line n prints is dropped for its time.                      *)
Rejected(n) == IsEvent(n) /\ ~Believed(n)

(* The text of a stack trace belongs to one event only, comes after it and    *)
(* has no line of an event in it but the one it begins with, except that in   *)
(* a perf file a rejected event may be in it.                                 *)
ChunksDoNotOverlap ==
  \A c \in Chunks :
    /\ \A d \in Chunks \ {c} : Covered(c) \cap Covered(d) = {}
    /\ \A n \in Covered(c) : n > events[c[1]].line
    /\ \A i \in DOMAIN events : events[i].line \notin Covered(c)
    /\ format = "FTRACE" => \A n \in Covered(c) : IsEvent(n) <=> n = c[2][1]
    /\ format = "PERF" => \A n \in Covered(c) : IsEvent(n) => Rejected(n)

(* The lines of ordinary events between the event of chunk c and the stack    *)
(* event the chunk begins with, on their CPU.                                 *)
Between(c) ==
  {n \in events[c[1]].line + 1 .. c[2][1] - 1 :
     text[n].kind = "event" /\ text[n].cpu = text[c[2][1]].cpu}

OfSameCPU(c) == /\ text[c[2][1]].kind = "stack"
                /\ text[events[c[1]].line].cpu = text[c[2][1]].cpu

(* The texts of two events never overlap. The text of a stack event belongs   *)
(* to the most recent ordinary event of its CPU, except by name the events    *)
(* rejected for their times, whose stack goes to the event before them. When  *)
(* the file has been parsed, a perf event has the lines that follow it, whole *)
(* and up to the next event that is not rejected.                             *)
StackOfLastCommitted ==
  /\ ChunksDoNotOverlap
  /\ format = "FTRACE" =>
       \A c \in Chunks : OfSameCPU(c) /\ \A n \in Between(c) : Rejected(n)
  /\ format = "PERF" /\ done =>
       \A i \in DOMAIN events : \A n \in events[i].line + 1 .. Len(text) :
         ~IsEvent(n) /\ (\A m \in events[i].line + 1 .. n : IsEvent(m) => Rejected(m))
           => \E c \in Chunks : c[1] = i /\ n \in Covered(c)

(* The rule as the design document states it: between a stack event and the   *)
(* event that has its text there is no ordinary event of that CPU at all.     *)
StackOfMostRecentEvent ==
  format = "FTRACE" => \A c \in Chunks : OfSameCPU(c) /\ Between(c) = {}

CommittedOn(cpu, n) ==
  {i \in DOMAIN events : events[i].line < n /\ text[events[i].line].cpu = cpu}

(* When the file has been parsed, every stack event whose time is believed    *)
(* and that follows an event of its CPU has given that event a chunk, with    *)
(* the lines up to the next event line, even at the end of the file.          *)
StackTracesComplete ==
  done /\ format = "FTRACE" =>
    \A n \in DOMAIN text :
      text[n].kind = "stack" /\ Believed(n) /\ CommittedOn(text[n].cpu, n) # {} =>
        \E c \in Chunks :
          /\ c[2][1] = n
          /\ \A m \in n + 1 .. Len(text) : m < c[2][2] <=> \A k \in n + 1 .. m : ~IsEvent(k)
          /\ c[2][2] <= Len(text) + 1

=============================================================================

-------------------------- MODULE LineParser_proofs --------------------------
(***************************************************************************)
(* Proofs about LineParser, for any CPUs, time stamps, correction and      *)
(* length of the file: the types, that the list of events is sorted, and   *)
(* that a stack text goes to its event, once, and is never lost.           *)
(* The order is not inductive as it stands: a new event is not earlier     *)
(* than the last one because it is not earlier than prevTime, which no     *)
(* event is later than, although prevTime also moves on with stack events  *)
(* that are not in the list.  Nor are the texts: while a file is read one  *)
(* chunk is open, and where it begins and whom it belongs to is in the     *)
(* pointers of the parser, not in the list (ChunkInv, TimesInv); and that  *)
(* every event between was rejected needs the times that the lines were    *)
(* compared with, which only prevTime remembers (CommitInv).               *)
(***************************************************************************)
EXTENDS LineParser, TLAPS

EventType == [line: Int, time: Int, info: Seq(Int \X Int)]

(* The part of the type invariant that the order of the events rests on.      *)
Types ==
  /\ format \in Formats
  /\ events \in Seq(EventType)
  /\ prevTime \in Int
  /\ infoBegin \in Int
  /\ text \in Seq(Lines("FTRACE"))
  /\ stackPending \in BOOLEAN
  /\ stackOrigin \in 0 .. Len(events)
  /\ lastEventByCPU \in [CPUs -> 0 .. Len(events)]
  /\ stackPending => stackOrigin # 0

NotAfterPrevTime == \A i \in 1 .. Len(events) : events[i].time <= prevTime

Sorted == \A i, j \in 1 .. Len(events) : i < j => events[i].time <= events[j].time

SortedInv == Types /\ NotAfterPrevTime /\ Sorted

-----------------------------------------------------------------------------
(* Attaching a chunk changes the text of one event, and no time.              *)
LEMMA InfoKeepsEvent ==
  ASSUME NEW r \in EventType, NEW x \in Seq(Int \X Int)
  PROVE  /\ [r EXCEPT !.info = x] \in EventType
         /\ [r EXCEPT !.info = x].time = r.time /\ [r EXCEPT !.info = x].line = r.line
         /\ [r EXCEPT !.info = x].info = x
  BY DEF EventType

(* Two lists of the same events, apart from the chunks.                       *)
SameEvents(s, t) ==
  /\ s \in Seq(EventType)
  /\ Len(s) = Len(t)
  /\ \A i \in 1 .. Len(t) : s[i].time = t[i].time /\ s[i].line = t[i].line

LEMMA ReplaceKeepsEvents ==
  ASSUME NEW s \in Seq(EventType), NEW i \in 1 .. Len(s), NEW r \in EventType,
         r.time = s[i].time, r.line = s[i].line
  PROVE  SameEvents([s EXCEPT ![i] = r], s)
  BY DEF SameEvents

LEMMA AttachKeepsEvents ==
  ASSUME NEW s \in Seq(EventType), NEW i \in 1 .. Len(s), NEW b \in Int, NEW e \in Int
  PROVE  SameEvents(Attach(s, i, b, e), s)
<1> DEFINE x == Append(s[i].info, <<b, e>>)
<1>1. s[i] \in EventType
  OBVIOUS
<1>2. x \in Seq(Int \X Int)
  <2>1. s[i].info \in Seq(Int \X Int)
    BY <1>1 DEF EventType
  <2>2. <<b, e>> \in Int \X Int
    OBVIOUS
  <2> QED
    BY <2>1, <2>2
<1>3. Attach(s, i, b, e) = [s EXCEPT ![i] = [s[i] EXCEPT !.info = x]]
  BY DEF Attach
<1> HIDE DEF x
<1>4. /\ [s[i] EXCEPT !.info = x] \in EventType /\ [s[i] EXCEPT !.info = x].time = s[i].time
      /\ [s[i] EXCEPT !.info = x].line = s[i].line
  BY <1>1, <1>2, InfoKeepsEvent
<1> DEFINE r == [s[i] EXCEPT !.info = x]
<1>5. r \in EventType /\ r.time = s[i].time /\ r.line = s[i].line
  BY <1>4
<1>6. Attach(s, i, b, e) = [s EXCEPT ![i] = r]
  BY <1>3
<1> HIDE DEF r
<1> QED
  BY <1>5, <1>6, ReplaceKeepsEvents

LEMMA SetInfoKeepsEvents ==
  ASSUME NEW s \in Seq(EventType), NEW i \in 1 .. Len(s), NEW b \in Int, NEW e \in Int
  PROVE  SameEvents([s EXCEPT ![i].info = <<<<b, e>>>>], s)
<1> DEFINE x == <<<<b, e>>>>
<1>1. s[i] \in EventType
  OBVIOUS
<1>2. x \in Seq(Int \X Int)
  OBVIOUS
<1>3. [s EXCEPT ![i].info = x] = [s EXCEPT ![i] = [s[i] EXCEPT !.info = x]]
  OBVIOUS
<1> HIDE DEF x
<1>4. /\ [s[i] EXCEPT !.info = x] \in EventType /\ [s[i] EXCEPT !.info = x].time = s[i].time
      /\ [s[i] EXCEPT !.info = x].line = s[i].line
  BY <1>1, <1>2, InfoKeepsEvent
<1> DEFINE r == [s[i] EXCEPT !.info = x]
<1>5. r \in EventType /\ r.time = s[i].time /\ r.line = s[i].line
  BY <1>4
<1>6. [s EXCEPT ![i].info = x] = [s EXCEPT ![i] = r]
  BY <1>3
<1> HIDE DEF r
<1>7. SameEvents([s EXCEPT ![i].info = x], s)
  BY <1>5, <1>6, ReplaceKeepsEvents
<1> QED
  BY <1>7 DEF x

LEMMA SameEventsRefl ==
  ASSUME NEW s \in Seq(EventType)
  PROVE  SameEvents(s, s)
  BY DEF SameEvents

(* What every line does to the events it finds: the capture is ended.         *)
LEMMA EndCaptureKeepsEvents ==
  ASSUME Types
  PROVE  SameEvents(EndCapture, events)
<1>1. Here \in Int
  BY DEF Types, Here
<1>2. CASE stackPending
  <2>1. stackOrigin \in 1 .. Len(events)
    BY <1>2 DEF Types
  <2>2. SameEvents(Attach(events, stackOrigin, infoBegin, Here), events)
    BY <1>1, <2>1, AttachKeepsEvents DEF Types
  <2> QED
    BY <1>2, <2>2 DEF EndCapture
<1>3. CASE ~stackPending
  BY <1>3, SameEventsRefl DEF EndCapture, Types
<1> QED
  BY <1>2, <1>3

LEMMA SetPrevInfoKeepsEvents ==
  ASSUME Types
  PROVE  SameEvents(SetPrevInfo(Here), events)
<1>1. Here \in Int
  BY DEF Types, Here
<1>2. CASE prevLineIsEvent \/ events = <<>>
  BY <1>2, SameEventsRefl DEF SetPrevInfo, Types
<1>3. CASE ~(prevLineIsEvent \/ events = <<>>)
  <2>1. Len(events) \in 1 .. Len(events)
    BY <1>3 DEF Types
  <2>2. SameEvents([events EXCEPT ![Len(events)].info = <<<<infoBegin, Here>>>>], events)
    BY <1>1, <2>1, SetInfoKeepsEvents DEF Types
  <2> QED
    BY <1>3, <2>2 DEF SetPrevInfo
<1> QED
  BY <1>2, <1>3

-----------------------------------------------------------------------------
(* A list is in order up to time t.                                          *)
InOrder(s, t) ==
  /\ \A i \in 1 .. Len(s) : s[i].time <= t
  /\ \A i, j \in 1 .. Len(s) : i < j => s[i].time <= s[j].time

LEMMA EventTimes ==
  ASSUME NEW s \in Seq(EventType), NEW i \in 1 .. Len(s)
  PROVE  s[i].time \in Int
<1>1. s[i] \in EventType
  OBVIOUS
<1> QED
  BY <1>1 DEF EventType

LEMMA SameEventsInOrder ==
  ASSUME NEW s \in Seq(EventType), NEW r, SameEvents(r, s),
         NEW t \in Int, NEW u \in Int, t <= u, InOrder(s, t)
  PROVE  InOrder(r, u)
<1>1. \A i \in 1 .. Len(s) : s[i].time \in Int
  BY EventTimes
<1>2. Len(r) = Len(s) /\ \A i \in 1 .. Len(s) : r[i].time = s[i].time
  BY DEF SameEvents
<1> QED
  BY <1>1, <1>2 DEF InOrder

LEMMA AppendInOrder ==
  ASSUME NEW s \in Seq(EventType), NEW e \in EventType, InOrder(s, e.time)
  PROVE  InOrder(Append(s, e), e.time) /\ Append(s, e) \in Seq(EventType)
<1>1. e.time \in Int /\ \A i \in 1 .. Len(s) : s[i].time \in Int
  <2>1. e.time \in Int
    BY DEF EventType
  <2> QED
    BY <2>1, EventTimes
<1>2. /\ Append(s, e) \in Seq(EventType)
      /\ Len(Append(s, e)) = Len(s) + 1
      /\ \A i \in 1 .. Len(s) : Append(s, e)[i] = s[i]
      /\ Append(s, e)[Len(s) + 1] = e
  OBVIOUS
<1> QED
  BY <1>1, <1>2 DEF InOrder

(* An event line has a time and a CPU; a time that is believed is, after the  *)
(* correction, not before prevTime.                                           *)
LEMMA EventLine ==
  ASSUME NEW f \in Formats, NEW line \in Lines(f), line.kind \in {"event", "stack"}
  PROVE  line.time \in Int /\ line.cpu \in CPUs
<1>1. PICK K : line \in [kind: K, cpu: CPUs, time: Times] \cup {OtherLine}
  BY DEF Lines
<1>2. line # OtherLine
  BY DEF OtherLine
<1>3. line \in [kind: K, cpu: CPUs, time: Times]
  BY <1>1, <1>2
<1>4. line.time \in Times /\ line.cpu \in CPUs
  BY <1>3
<1> QED
  <2>1. \A t \in Times : t \in Int
    BY TimesAssumption
  <2> QED
    BY <1>4, <2>1

LEMMA CorrectedIsLater ==
  ASSUME NEW t \in Int, prevTime \in Int, Accepts(t)
  PROVE  Corrected(t) \in Int /\ prevTime <= Corrected(t)
  BY DeltaAssumption DEF Accepts, Corrected

LEMMA NewEventType ==
  ASSUME NEW line, Types, Corrected(line.time) \in Int
  PROVE  NewEvent(line) \in EventType /\ NewEvent(line).time = Corrected(line.time)
<1>1. Here \in Int
  BY DEF Types, Here
<1>2. <<>> \in Seq(Int \X Int)
  OBVIOUS
<1> QED
  BY <1>1, <1>2 DEF NewEvent, EventType

(* A line is read into text.                                                  *)
LEMMA ReadText ==
  ASSUME Types, NEW line, Read(line)
  PROVE  text' \in Seq(Lines("FTRACE")) /\ format' = format /\ line \in Lines(format)
<1>1. Lines(format) \subseteq Lines("FTRACE")
  BY DEF Lines, Types, Formats
<1> QED
  BY <1>1 DEF Read, Types

-----------------------------------------------------------------------------
LEMMA SortedInit == Init => SortedInv
<1> SUFFICES ASSUME Init PROVE SortedInv
  OBVIOUS
<1>1. events = <<>> /\ Len(events) = 0 /\ events \in Seq(EventType)
  BY DEF Init
<1>2. text \in Seq(Lines("FTRACE"))
  BY DEF Init
<1>3. lastEventByCPU \in [CPUs -> 0 .. Len(events)]
  BY <1>1 DEF Init
<1>4. stackPending \in BOOLEAN /\ ~stackPending
  BY Zenon DEF Init
<1>5. prevTime \in Int /\ infoBegin \in Int
  BY DEF Init, VtlTimeMin
<1>6. Types
  BY <1>1, <1>2, <1>3, <1>4, <1>5 DEF Init, Types
<1> QED
  BY <1>1, <1>6 DEF SortedInv, NotAfterPrevTime, Sorted

(* The invariant in the terms of the lemmas.                                  *)
LEMMA InvIsInOrder ==
  ASSUME Types
  PROVE  NotAfterPrevTime /\ Sorted <=> InOrder(events, prevTime)
  BY DEF NotAfterPrevTime, Sorted, InOrder

LEMMA InvIsInOrderNext ==
  ASSUME InOrder(events', prevTime')
  PROVE  NotAfterPrevTime' /\ Sorted'
  BY DEF NotAfterPrevTime, Sorted, InOrder

LEMMA SortedStep ==
  ASSUME SortedInv, [Next]_vars
  PROVE  SortedInv'
<1> USE DEF ftraceVars
<1>0. Types /\ InOrder(events, prevTime) /\ events \in Seq(EventType) /\ prevTime \in Int
  <2>1. Types
    BY DEF SortedInv
  <2> QED
    BY <2>1, InvIsInOrder DEF SortedInv, Types
<1>1. ASSUME NEW line \in Lines(format), FtraceOther(line)
      PROVE  SortedInv'
  <2>1. text' \in Seq(Lines("FTRACE")) /\ format' = format
    BY <1>0, <1>1, ReadText DEF FtraceOther
  <2> QED
    BY <1>1, <2>1 DEF FtraceOther, SortedInv, Types, NotAfterPrevTime, Sorted
<1>2. ASSUME NEW line \in Lines(format), FtraceDropped(line)
      PROVE  SortedInv'
  <2>1. text' \in Seq(Lines("FTRACE")) /\ format' = format
    BY <1>0, <1>2, ReadText DEF FtraceDropped
  <2>2. SameEvents(events', events)
    BY <1>0, <1>2, EndCaptureKeepsEvents DEF FtraceDropped
  <2>3. prevTime' = prevTime
    BY <1>2 DEF FtraceDropped
  <2>4. InOrder(events', prevTime')
    BY <1>0, <2>2, <2>3, SameEventsInOrder
  <2>5. NotAfterPrevTime' /\ Sorted'
    BY <2>4, InvIsInOrderNext
  <2>6. Types'
    BY <1>0, <1>2, <2>1, <2>2, <2>3 DEF FtraceDropped, Types, SameEvents
  <2> QED
    BY <2>5, <2>6 DEF SortedInv
<1>3. ASSUME NEW line \in Lines(format), FtraceStack(line)
      PROVE  SortedInv'
  <2>1. text' \in Seq(Lines("FTRACE")) /\ format' = format
    BY <1>0, <1>3, ReadText DEF FtraceStack
  <2>2. SameEvents(events', events)
    BY <1>0, <1>3, EndCaptureKeepsEvents DEF FtraceStack
  <2>3. line.time \in Int /\ line.cpu \in CPUs
    BY <1>0, <1>3, EventLine DEF FtraceStack, Types
  <2>4. prevTime' \in Int /\ prevTime <= prevTime'
    BY <1>0, <1>3, <2>3, CorrectedIsLater DEF FtraceStack
  <2>5. NotAfterPrevTime' /\ Sorted'
    BY <1>0, <2>2, <2>4, SameEventsInOrder, InvIsInOrderNext
  <2>6. Here \in Int
    BY <1>0 DEF Types, Here
  <2>7. lastEventByCPU[line.cpu] \in 0 .. Len(events)
    BY <1>0, <2>3 DEF Types
  <2>8. Types'
    BY <1>0, <1>3, <2>1, <2>2, <2>4, <2>6, <2>7 DEF FtraceStack, Types, SameEvents
  <2> QED
    BY <2>5, <2>8 DEF SortedInv
<1>4. ASSUME NEW line \in Lines(format), FtraceEvent(line)
      PROVE  SortedInv'
  <2>1. text' \in Seq(Lines("FTRACE")) /\ format' = format
    BY <1>0, <1>4, ReadText DEF FtraceEvent
  <2>2. SameEvents(EndCapture, events)
    BY <1>0, EndCaptureKeepsEvents
  <2>3. line.time \in Int /\ line.cpu \in CPUs
    BY <1>0, <1>4, EventLine DEF FtraceEvent, Types
  <2>4. prevTime' = Corrected(line.time) /\ prevTime' \in Int /\ prevTime <= prevTime'
    BY <1>0, <1>4, <2>3, CorrectedIsLater DEF FtraceEvent
  <2>5. NewEvent(line) \in EventType /\ NewEvent(line).time = prevTime'
    BY <1>0, <2>4, NewEventType
  <2>6. EndCapture \in Seq(EventType) /\ InOrder(EndCapture, prevTime')
    BY <1>0, <2>2, <2>4, SameEventsInOrder DEF SameEvents
  <2>7. events' \in Seq(EventType) /\ InOrder(events', prevTime')
    BY <1>4, <2>5, <2>6, AppendInOrder DEF FtraceEvent
  <2>8. NotAfterPrevTime' /\ Sorted'
    BY <2>7, InvIsInOrderNext
  <2>9. Len(events') = Len(events) + 1
    BY <1>4, <2>2, <2>5 DEF FtraceEvent, SameEvents
  <2>10. Types'
    <3>1. lastEventByCPU' \in [CPUs -> 0 .. Len(events')]
      BY <1>0, <1>4, <2>3, <2>9 DEF FtraceEvent, Types
    <3>2. stackOrigin' \in 0 .. Len(events')
      BY <1>0, <1>4, <2>9 DEF FtraceEvent, Types
    <3> QED
      BY <1>0, <1>4, <2>1, <2>4, <2>7, <3>1, <3>2 DEF FtraceEvent, Types
  <2> QED
    BY <2>8, <2>10 DEF SortedInv
<1>5. ASSUME NEW line \in Lines(format), PerfOther(line)
      PROVE  SortedInv'
  <2>1. text' \in Seq(Lines("FTRACE")) /\ format' = format
    BY <1>0, <1>5, ReadText DEF PerfOther
  <2>2. Here \in Int
    BY <1>0 DEF Types, Here
  <2> QED
    BY <1>5, <2>1, <2>2 DEF PerfOther, SortedInv, Types, NotAfterPrevTime, Sorted
<1>6. ASSUME NEW line \in Lines(format), PerfDropped(line)
      PROVE  SortedInv'
  <2>1. text' \in Seq(Lines("FTRACE")) /\ format' = format
    BY <1>0, <1>6, ReadText DEF PerfDropped
  <2> QED
    BY <1>6, <2>1 DEF PerfDropped, SortedInv, Types, NotAfterPrevTime, Sorted
<1>7. ASSUME NEW line \in Lines(format), PerfEvent(line)
      PROVE  SortedInv'
  <2>1. text' \in Seq(Lines("FTRACE")) /\ format' = format
    BY <1>0, <1>7, ReadText DEF PerfEvent
  <2>2. SameEvents(SetPrevInfo(Here), events)
    BY <1>0, SetPrevInfoKeepsEvents
  <2>3. line.time \in Int
    BY <1>0, <1>7, EventLine DEF PerfEvent, Types
  <2>4. prevTime' = Corrected(line.time) /\ prevTime' \in Int /\ prevTime <= prevTime'
    BY <1>0, <1>7, <2>3, CorrectedIsLater DEF PerfEvent
  <2>5. NewEvent(line) \in EventType /\ NewEvent(line).time = prevTime'
    BY <1>0, <2>4, NewEventType
  <2>6. SetPrevInfo(Here) \in Seq(EventType) /\ InOrder(SetPrevInfo(Here), prevTime')
    BY <1>0, <2>2, <2>4, SameEventsInOrder DEF SameEvents
  <2>7. events' \in Seq(EventType) /\ InOrder(events', prevTime')
    BY <1>7, <2>5, <2>6, AppendInOrder DEF PerfEvent
  <2>8. NotAfterPrevTime' /\ Sorted'
    BY <2>7, InvIsInOrderNext
  <2>9. Len(events') = Len(events) + 1
    BY <1>7, <2>2, <2>5 DEF PerfEvent, SameEvents
  <2>10. Types'
    BY <1>0, <1>7, <2>1, <2>4, <2>7, <2>9 DEF PerfEvent, Types
  <2> QED
    BY <2>8, <2>10 DEF SortedInv
<1>8. CASE FixLastEvent
  <2>1. SameEvents(events', events)
    BY <1>0, <1>8, EndCaptureKeepsEvents, SetPrevInfoKeepsEvents DEF FixLastEvent
  <2>2. prevTime' = prevTime
    BY <1>8 DEF FixLastEvent
  <2>3. NotAfterPrevTime' /\ Sorted'
    BY <1>0, <2>1, <2>2, SameEventsInOrder, InvIsInOrderNext
  <2>4. Types'
    BY <1>0, <1>8, <2>1 DEF FixLastEvent, Types, SameEvents
  <2> QED
    BY <2>3, <2>4 DEF SortedInv
<1>9. CASE UNCHANGED vars
  BY <1>9 DEF vars, SortedInv, Types, NotAfterPrevTime, Sorted
<1> QED
  BY <1>1, <1>2, <1>3, <1>4, <1>5, <1>6, <1>7, <1>8, <1>9 DEF Next, ParseLine

(* The list of events is sorted by time in every state, whatever the time     *)
(* stamps of the file (parseLineFtrace(), parseLinePerf(),                    *)
(* parseLineBugFixup(), fixLastEvent()).                                      *)
THEOREM SortedByTime == Spec => []EventsSorted
<1>1. SortedInv => EventsSorted
  BY DEF SortedInv, Types, Sorted, EventsSorted
<1> QED
  BY <1>1, SortedInit, SortedStep, PTL DEF Spec

-----------------------------------------------------------------------------
(* The chunks of a list of events: event i has the text [b, e).               *)
IsChunk(evs, i, b, e) ==
  i \in 1 .. Len(evs) /\ \E k \in 1 .. Len(evs[i].info) : evs[i].info[k] = <<b, e>>

(* The events of r are those of s, and event i has one chunk more.            *)
AddsChunk(r, s, i, b, e) ==
  /\ SameEvents(r, s)
  /\ \A j, x, y : IsChunk(r, j, x, y) <=> IsChunk(s, j, x, y) \/ (j = i /\ x = b /\ y = e)

LEMMA InfoAdds ==
  ASSUME NEW s \in Seq(EventType), NEW r, NEW i \in 1 .. Len(s), NEW b \in Int, NEW e \in Int,
         SameEvents(r, s), r[i].info = Append(s[i].info, <<b, e>>),
         \A j \in 1 .. Len(s) : j # i => r[j].info = s[j].info
  PROVE  AddsChunk(r, s, i, b, e)
<1>1. Len(r) = Len(s)
  BY DEF SameEvents
<1> SUFFICES ASSUME NEW j, NEW x, NEW y
             PROVE  IsChunk(r, j, x, y) <=> IsChunk(s, j, x, y) \/ (j = i /\ x = b /\ y = e)
  BY DEF AddsChunk
<1>2. CASE j \notin 1 .. Len(s)
  BY <1>1, <1>2 DEF IsChunk
<1>3. CASE j \in 1 .. Len(s) /\ j # i
  BY <1>1, <1>3 DEF IsChunk
<1>4. CASE j = i
  <2> DEFINE q == s[i].info
  <2>1. q \in Seq(Int \X Int)
    <3>1. s[i] \in EventType
      OBVIOUS
    <3> QED BY <3>1 DEF EventType
  <2>2. r[i].info = Append(q, <<b, e>>)
    OBVIOUS
  <2> HIDE DEF q
  <2>3. /\ Len(Append(q, <<b, e>>)) = Len(q) + 1
        /\ \A k \in 1 .. Len(q) : Append(q, <<b, e>>)[k] = q[k]
        /\ Append(q, <<b, e>>)[Len(q) + 1] = <<b, e>>
        /\ Len(q) \in Nat
    BY <2>1
  <2>4. (\E k \in 1 .. Len(r[i].info) : r[i].info[k] = <<x, y>>)
          <=> (\E k \in 1 .. Len(q) : q[k] = <<x, y>>) \/ (x = b /\ y = e)
    <3>1. ASSUME NEW k \in 1 .. Len(r[i].info), r[i].info[k] = <<x, y>>
          PROVE  (\E l \in 1 .. Len(q) : q[l] = <<x, y>>) \/ (x = b /\ y = e)
      <4>1. CASE k \in 1 .. Len(q)
        BY <2>2, <2>3, <3>1, <4>1
      <4>2. CASE k = Len(q) + 1
        <5>1. <<b, e>> = <<x, y>>
          BY <2>2, <2>3, <3>1, <4>2
        <5> QED BY <5>1
      <4> QED BY <2>2, <2>3, <3>1, <4>1, <4>2, SMTT(30)
    <3>2. ASSUME NEW l \in 1 .. Len(q), q[l] = <<x, y>>
          PROVE  \E k \in 1 .. Len(r[i].info) : r[i].info[k] = <<x, y>>
      <4>1. l \in 1 .. Len(r[i].info) /\ r[i].info[l] = <<x, y>>
        <5>1. Len(r[i].info) = Len(q) + 1 /\ r[i].info[l] = q[l]
          BY <2>2, <2>3, <3>2
        <5>2. l \in 1 .. Len(q) + 1
          BY <2>3, <3>2
        <5> QED BY <3>2, <5>1, <5>2
      <4> QED BY <4>1
    <3>3. ASSUME x = b, y = e
          PROVE  \E k \in 1 .. Len(r[i].info) : r[i].info[k] = <<x, y>>
      <4>1. Len(q) + 1 \in 1 .. Len(r[i].info) /\ r[i].info[Len(q) + 1] = <<x, y>>
        <5>1. Len(r[i].info) = Len(q) + 1 /\ r[i].info[Len(q) + 1] = <<b, e>>
          BY <2>2, <2>3
        <5>2. Len(q) + 1 \in 1 .. Len(q) + 1
          BY <2>3
        <5> QED BY <3>3, <5>1, <5>2
      <4> QED BY <4>1
    <3> QED BY <3>1, <3>2, <3>3
  <2> QED BY <1>1, <1>4, <2>4 DEF IsChunk, q
<1> QED BY <1>2, <1>3, <1>4

LEMMA AttachAdds ==
  ASSUME NEW s \in Seq(EventType), NEW i \in 1 .. Len(s), NEW b \in Int, NEW e \in Int
  PROVE  AddsChunk(Attach(s, i, b, e), s, i, b, e)
<1> DEFINE x == Append(s[i].info, <<b, e>>)
           q == [s[i] EXCEPT !.info = x]
           r == Attach(s, i, b, e)
<1>1. r = [s EXCEPT ![i] = q]
  BY DEF Attach
<1>2. q.info = x
  <2>1. s[i] \in EventType
    OBVIOUS
  <2> QED BY <2>1 DEF EventType
<1> HIDE DEF q
<1>3. r[i].info = x /\ \A j \in 1 .. Len(s) : j # i => r[j].info = s[j].info
  BY <1>1, <1>2
<1>4. SameEvents(r, s)
  BY AttachKeepsEvents
<1> HIDE DEF r
<1>5. AddsChunk(r, s, i, b, e)
  BY <1>3, <1>4, InfoAdds
<1> QED BY <1>5 DEF r

LEMMA SetInfoAdds ==
  ASSUME NEW s \in Seq(EventType), NEW i \in 1 .. Len(s), NEW b \in Int, NEW e \in Int,
         s[i].info = <<>>
  PROVE  AddsChunk([s EXCEPT ![i].info = <<<<b, e>>>>], s, i, b, e)
<1> DEFINE x == Append(s[i].info, <<b, e>>)
           q == [s[i] EXCEPT !.info = x]
           r == [s EXCEPT ![i].info = <<<<b, e>>>>]
<1>1. x = <<<<b, e>>>>
  OBVIOUS
<1>2. r = [s EXCEPT ![i] = q]
  BY <1>1
<1>3. q.info = x
  <2>1. s[i] \in EventType
    OBVIOUS
  <2> QED BY <2>1 DEF EventType
<1> HIDE DEF q, x, r
<1>4. r[i].info = x /\ \A j \in 1 .. Len(s) : j # i => r[j].info = s[j].info
  BY <1>2, <1>3
<1>5. SameEvents(r, s)
  BY SetInfoKeepsEvents DEF r
<1>6. AddsChunk(r, s, i, b, e)
  BY <1>4, <1>5, InfoAdds DEF x
<1> QED BY <1>6 DEF r

LEMMA AppendChunks ==
  ASSUME NEW s \in Seq(EventType), NEW r \in EventType, r.info = <<>>
  PROVE  /\ Append(s, r) \in Seq(EventType) /\ Len(Append(s, r)) = Len(s) + 1
         /\ \A i \in 1 .. Len(s) : Append(s, r)[i] = s[i]
         /\ Append(s, r)[Len(s) + 1] = r
         /\ \A j, x, y : IsChunk(Append(s, r), j, x, y) <=> IsChunk(s, j, x, y)
<1> DEFINE q == Append(s, r)
<1>1. /\ q \in Seq(EventType) /\ Len(q) = Len(s) + 1 /\ Len(s) \in Nat
      /\ \A i \in 1 .. Len(s) : q[i] = s[i]
      /\ q[Len(s) + 1] = r
  OBVIOUS
<1> HIDE DEF q
<1>2. ASSUME NEW j, NEW x, NEW y PROVE IsChunk(q, j, x, y) <=> IsChunk(s, j, x, y)
  <2>1. CASE j \in 1 .. Len(s)
    BY <1>1, <2>1 DEF IsChunk
  <2>2. CASE j = Len(s) + 1
    <3>1. Len(q[j].info) = 0
      BY <1>1, <2>2
    <3>2. ~IsChunk(q, j, x, y)
      BY <3>1 DEF IsChunk
    <3>3. ~IsChunk(s, j, x, y)
      BY <1>1, <2>2 DEF IsChunk
    <3> QED BY <3>2, <3>3
  <2>3. CASE j \notin 1 .. Len(s) + 1
    BY <1>1, <2>3 DEF IsChunk
  <2> QED BY <1>1, <2>1, <2>2, <2>3
<1>3. \A j, x, y : IsChunk(q, j, x, y) <=> IsChunk(s, j, x, y)
  BY <1>2
<1> QED BY <1>1, <1>3 DEF q

LEMMA ChunkType ==
  ASSUME NEW s \in Seq(EventType), NEW i, NEW b, NEW e, IsChunk(s, i, b, e)
  PROVE  i \in 1 .. Len(s) /\ b \in Int /\ e \in Int
<1>1. PICK k \in 1 .. Len(s[i].info) : s[i].info[k] = <<b, e>>
  BY DEF IsChunk
<1>2. i \in 1 .. Len(s) /\ s[i] \in EventType
  BY DEF IsChunk
<1>3. s[i].info \in Seq(Int \X Int)
  BY <1>2 DEF EventType
<1>4. <<b, e>> \in Int \X Int
  BY <1>1, <1>3, SMTT(30)
<1> QED BY <1>2, <1>4

-----------------------------------------------------------------------------
(* Where the chunks are, in a file of n lines: behind their event, with no    *)
(* line of an event in them, and apart from each other.                       *)
EventLines(evs, n) ==
  \A i \in 1 .. Len(evs) :
    /\ evs[i].line \in 1 .. n
    /\ \A j \in 1 .. Len(evs) : i < j => evs[i].line < evs[j].line

EndBy(evs, n) == \A i, b, e : IsChunk(evs, i, b, e) => e <= n

Placed(evs, n) ==
  \A i, b, e : IsChunk(evs, i, b, e) =>
    /\ evs[i].line < b /\ b < e /\ e <= n + 1
    /\ \A j \in 1 .. Len(evs) : evs[j].line < b \/ e <= evs[j].line

Apart(evs) ==
  \A i, b, e, j, x, y : IsChunk(evs, i, b, e) /\ IsChunk(evs, j, x, y) =>
    (i = j /\ b = x /\ e = y) \/ e <= x \/ y <= b

ChunksOK(evs, n) == evs \in Seq(EventType) /\ EventLines(evs, n) /\ Placed(evs, n) /\ Apart(evs)

LEMMA LineInt ==
  ASSUME NEW s \in Seq(EventType), NEW i \in 1 .. Len(s)
  PROVE  s[i].line \in Int
<1>1. s[i] \in EventType
  OBVIOUS
<1> QED BY <1>1 DEF EventType

LEMMA GrowOK ==
  ASSUME NEW n \in Nat, NEW s, ChunksOK(s, n)
  PROVE  ChunksOK(s, n + 1)
<1>1. EventLines(s, n + 1)
  BY DEF ChunksOK, EventLines
<1>2. Placed(s, n + 1)
  <2> SUFFICES ASSUME NEW i, NEW b, NEW e, IsChunk(s, i, b, e) PROVE e <= (n + 1) + 1
    BY DEF ChunksOK, Placed
  <2>1. e <= n + 1 /\ e \in Int
    BY ChunkType DEF ChunksOK, Placed
  <2> QED BY <2>1
<1> QED BY <1>1, <1>2 DEF ChunksOK

LEMMA AddOK ==
  ASSUME NEW n \in Nat, NEW s, NEW r, NEW i \in 1 .. Len(s), NEW b \in Int, NEW e \in Int,
         ChunksOK(s, n), AddsChunk(r, s, i, b, e), EndBy(s, b), b < e, e <= n + 1,
         \A j \in 1 .. Len(s) : s[j].line < b
  PROVE  ChunksOK(r, n)
<1>1. /\ s \in Seq(EventType) /\ r \in Seq(EventType) /\ Len(r) = Len(s)
      /\ \A j \in 1 .. Len(s) : r[j].line = s[j].line
  BY DEF ChunksOK, AddsChunk, SameEvents
<1>2. EventLines(r, n)
  BY <1>1 DEF ChunksOK, EventLines
<1>3. Placed(r, n)
  <2> SUFFICES ASSUME NEW j, NEW x, NEW y, IsChunk(r, j, x, y)
               PROVE  /\ r[j].line < x /\ x < y /\ y <= n + 1
                      /\ \A k \in 1 .. Len(r) : r[k].line < x \/ y <= r[k].line
    BY DEF Placed
  <2>1. CASE IsChunk(s, j, x, y)
    <3>1. j \in 1 .. Len(s)
      BY <2>1 DEF IsChunk
    <3> QED BY <1>1, <2>1, <3>1 DEF ChunksOK, Placed
  <2>2. CASE j = i /\ x = b /\ y = e
    BY <1>1, <2>2
  <2> QED BY <2>1, <2>2 DEF AddsChunk
<1>4. Apart(r)
  <2> SUFFICES ASSUME NEW j, NEW x, NEW y, IsChunk(r, j, x, y),
                      NEW k, NEW v, NEW w, IsChunk(r, k, v, w)
               PROVE  (j = k /\ x = v /\ y = w) \/ y <= v \/ w <= x
    BY DEF Apart
  <2>1. CASE IsChunk(s, j, x, y) /\ IsChunk(s, k, v, w)
    BY <2>1 DEF ChunksOK, Apart
  <2>2. CASE IsChunk(s, j, x, y) /\ v = b
    BY <2>2 DEF EndBy
  <2>3. CASE x = b /\ IsChunk(s, k, v, w)
    BY <2>3 DEF EndBy
  <2>4. CASE j = i /\ x = b /\ y = e /\ k = i /\ v = b /\ w = e
    BY <2>4
  <2> QED BY <2>1, <2>2, <2>3, <2>4 DEF AddsChunk
<1> QED BY <1>1, <1>2, <1>3, <1>4 DEF ChunksOK

LEMMA AppendOK ==
  ASSUME NEW n \in Nat, NEW s, NEW r \in EventType, ChunksOK(s, n),
         r.info = <<>>, r.line = n + 1
  PROVE  ChunksOK(Append(s, r), n + 1)
<1> DEFINE q == Append(s, r)
<1>1. /\ s \in Seq(EventType) /\ q \in Seq(EventType) /\ Len(q) = Len(s) + 1 /\ Len(s) \in Nat
      /\ \A i \in 1 .. Len(s) : q[i] = s[i]
      /\ q[Len(s) + 1] = r
      /\ \A j, x, y : IsChunk(q, j, x, y) <=> IsChunk(s, j, x, y)
  BY AppendChunks DEF ChunksOK
<1> HIDE DEF q
<1>2. \A i \in 1 .. Len(s) : s[i].line \in Int
  BY <1>1, LineInt
<1>3. EventLines(q, n + 1)
  <2> SUFFICES ASSUME NEW i \in 1 .. Len(q)
               PROVE  /\ q[i].line \in 1 .. n + 1
                      /\ \A j \in 1 .. Len(q) : i < j => q[i].line < q[j].line
    BY DEF EventLines
  <2>1. CASE i = Len(s) + 1
    <3>1. q[i].line = n + 1 /\ \A j \in 1 .. Len(q) : ~(i < j)
      BY <1>1, <2>1
    <3> QED BY <3>1
  <2>2. CASE i \in 1 .. Len(s)
    <3>1. /\ q[i] = s[i] /\ s[i].line \in 1 .. n
          /\ \A j \in 1 .. Len(s) : i < j => s[i].line < s[j].line
      BY <1>1, <2>2 DEF ChunksOK, EventLines
    <3>2. ASSUME NEW j \in 1 .. Len(q), i < j PROVE q[i].line < q[j].line
      <4>1. CASE j = Len(s) + 1
        BY <1>1, <3>1, <4>1
      <4>2. CASE j \in 1 .. Len(s)
        BY <1>1, <3>1, <3>2, <4>2
      <4> QED BY <1>1, <4>1, <4>2
    <3> QED BY <3>1, <3>2
  <2> QED BY <1>1, <2>1, <2>2
<1>4. Placed(q, n + 1)
  <2> SUFFICES ASSUME NEW i, NEW b, NEW e, IsChunk(s, i, b, e)
               PROVE  /\ q[i].line < b /\ b < e /\ e <= (n + 1) + 1
                      /\ \A j \in 1 .. Len(q) : q[j].line < b \/ e <= q[j].line
    BY <1>1 DEF Placed
  <2>1. i \in 1 .. Len(s) /\ b \in Int /\ e \in Int
    BY <1>1, ChunkType
  <2>2. /\ s[i].line < b /\ b < e /\ e <= n + 1
        /\ \A j \in 1 .. Len(s) : s[j].line < b \/ e <= s[j].line
    BY DEF ChunksOK, Placed
  <2>3. e <= (n + 1) + 1
    BY <2>1, <2>2
  <2>4. ASSUME NEW j \in 1 .. Len(q) PROVE q[j].line < b \/ e <= q[j].line
    <3>1. CASE j \in 1 .. Len(s)
      BY <1>1, <2>2, <3>1
    <3>2. CASE j = Len(s) + 1
      BY <1>1, <2>2, <3>2
    <3> QED BY <1>1, <3>1, <3>2
  <2> QED BY <1>1, <2>1, <2>2, <2>3, <2>4
<1>5. Apart(q)
  BY <1>1 DEF ChunksOK, Apart
<1> QED BY <1>1, <1>3, <1>4, <1>5 DEF ChunksOK, q

-----------------------------------------------------------------------------
(* One line more of the file.                                                 *)
Grown(t, s, line) ==
  /\ Len(s) \in Nat /\ Len(t) = Len(s) + 1
  /\ \A n \in 1 .. Len(s) : t[n] = s[n]
  /\ t[Len(s) + 1] = line

LEMMA ReadGrows ==
  ASSUME Types, NEW line, Read(line)
  PROVE  Grown(text', text, line)
<1>1. text \in Seq(Lines("FTRACE")) /\ line \in Lines("FTRACE") /\ text' = Append(text, line)
  BY DEF Types, Read, Lines, Formats
<1> QED BY <1>1 DEF Grown

-----------------------------------------------------------------------------
(* The chunks of an ftrace file: a stack event and the lines up to the next   *)
(* event line, for the last committed event of its CPU.                       *)
FtraceChunk(evs, txt, i, b, e) ==
  /\ txt[b].kind = "stack" /\ txt[evs[i].line].cpu = txt[b].cpu
  /\ \A n \in b + 1 .. e - 1 : txt[n].kind = "other"
  /\ \A k \in 1 .. Len(evs) : evs[k].line < b /\ txt[evs[k].line].cpu = txt[b].cpu => k <= i
  /\ e <= Len(txt) => txt[e].kind # "other"

FtraceOK(evs, txt) ==
  /\ ChunksOK(evs, Len(txt))
  /\ \A i, b, e : IsChunk(evs, i, b, e) => FtraceChunk(evs, txt, i, b, e)

(* The capture that is pending will give event o the text from line b.        *)
Capturing(evs, txt, o, b) ==
  /\ o \in 1 .. Len(evs) /\ b \in 1 .. Len(txt)
  /\ txt[b].kind = "stack" /\ txt[evs[o].line].cpu = txt[b].cpu
  /\ \A n \in b + 1 .. Len(txt) : txt[n].kind = "other"
  /\ EndBy(evs, b)
  /\ \A k \in 1 .. Len(evs) :
       evs[k].line < b /\ (txt[evs[k].line].cpu = txt[b].cpu => k <= o)

LastKnown(evs, txt, last) ==
  /\ \A k \in 1 .. Len(evs) :
       txt[evs[k].line].cpu \in CPUs /\ k <= last[txt[evs[k].line].cpu]
  /\ \A c \in CPUs : last[c] # 0 => last[c] \in 1 .. Len(evs) /\ txt[evs[last[c]].line].cpu = c

LEMMA FtraceGrow ==
  ASSUME NEW s, NEW t, NEW u, NEW line, Grown(u, t, line), FtraceOK(s, t),
         EndBy(s, Len(t)) \/ line.kind # "other"
  PROVE  FtraceOK(s, u)
<1>1. Len(t) \in Nat /\ Len(u) = Len(t) + 1 /\ \A n \in 1 .. Len(t) : u[n] = t[n]
  BY DEF Grown
<1>2. ChunksOK(s, Len(t)) /\ ChunksOK(s, Len(u)) /\ s \in Seq(EventType)
  BY <1>1, GrowOK DEF FtraceOK, ChunksOK
<1> SUFFICES ASSUME NEW i, NEW b, NEW e, IsChunk(s, i, b, e)
             PROVE  FtraceChunk(s, u, i, b, e)
  BY <1>2 DEF FtraceOK
<1>3. i \in 1 .. Len(s) /\ b \in Int /\ e \in Int
  BY <1>2, ChunkType
<1>4. FtraceChunk(s, t, i, b, e)
  BY DEF FtraceOK
<1>5. s[i].line < b /\ b < e /\ e <= Len(t) + 1 /\ \A k \in 1 .. Len(s) : s[k].line \in 1 .. Len(t)
  BY <1>2 DEF ChunksOK, Placed, EventLines
<1>6. b \in 1 .. Len(t) /\ \A n \in b + 1 .. e - 1 : n \in 1 .. Len(t)
  BY <1>1, <1>3, <1>5
<1>7. e <= Len(u) => u[e].kind # "other"
  <2>1. CASE e <= Len(t)
    <3>1. e \in 1 .. Len(t)
      BY <1>1, <1>3, <1>6, <1>5, <2>1
    <3> QED BY <1>1, <1>4, <2>1, <3>1 DEF FtraceChunk
  <2>2. CASE e = Len(t) + 1
    <3>1. ~EndBy(s, Len(t))
      BY <1>1, <2>2 DEF EndBy
    <3> QED BY <2>2, <3>1 DEF Grown
  <2> QED BY <1>1, <1>3, <1>5, <2>1, <2>2
<1>8. \A k \in 1 .. Len(s) : s[k].line < b /\ u[s[k].line].cpu = u[b].cpu => k <= i
  BY <1>1, <1>4, <1>5, <1>6 DEF FtraceChunk
<1>9. u[b].kind = "stack" /\ u[s[i].line].cpu = u[b].cpu
      /\ \A n \in b + 1 .. e - 1 : u[n].kind = "other"
  BY <1>1, <1>3, <1>4, <1>5, <1>6 DEF FtraceChunk
<1> QED BY <1>7, <1>8, <1>9 DEF FtraceChunk

LEMMA CapturingGrow ==
  ASSUME NEW s, NEW t, NEW u, NEW line, Grown(u, t, line), EventLines(s, Len(t)),
         line.kind = "other", NEW o, NEW b, Capturing(s, t, o, b)
  PROVE  Capturing(s, u, o, b)
<1>1. Len(t) \in Nat /\ Len(u) = Len(t) + 1 /\ \A n \in 1 .. Len(t) : u[n] = t[n]
  BY DEF Grown
<1>2. b \in 1 .. Len(t) /\ \A k \in 1 .. Len(s) : s[k].line \in 1 .. Len(t)
  BY DEF Capturing, EventLines
<1>3. ASSUME NEW n \in b + 1 .. Len(u) PROVE u[n].kind = "other"
  <2>1. CASE n = Len(t) + 1
    BY <2>1 DEF Grown
  <2>2. CASE n \in b + 1 .. Len(t)
    <3>1. n \in 1 .. Len(t)
      BY <1>1, <1>2, <2>2
    <3> QED BY <1>1, <2>2, <3>1 DEF Capturing
  <2> QED BY <1>1, <1>2, <2>1, <2>2
<1>4. b \in 1 .. Len(u)
  BY <1>1, <1>2
<1> QED BY <1>1, <1>2, <1>3, <1>4 DEF Capturing

LEMMA CaptureEnds ==
  ASSUME NEW s, NEW t, Len(t) \in Nat, FtraceOK(s, t), NEW r, NEW o, NEW b,
         Capturing(s, t, o, b), AddsChunk(r, s, o, b, Len(t) + 1)
  PROVE  FtraceOK(r, t)
<1>1. ChunksOK(s, Len(t)) /\ o \in 1 .. Len(s) /\ b \in 1 .. Len(t) /\ EndBy(s, b)
  BY DEF FtraceOK, Capturing
<1>2. \A k \in 1 .. Len(s) : s[k].line < b /\ (t[s[k].line].cpu = t[b].cpu => k <= o)
  BY DEF Capturing
<1>3. ChunksOK(r, Len(t))
  <2>1. b \in Int /\ Len(t) + 1 \in Int /\ b < Len(t) + 1
    BY <1>1
  <2>2. Len(t) + 1 <= Len(t) + 1
    OBVIOUS
  <2> QED BY <1>1, <1>2, <2>1, <2>2, AddOK
<1>4. Len(r) = Len(s) /\ \A k \in 1 .. Len(s) : r[k].line = s[k].line
  BY DEF AddsChunk, SameEvents
<1> SUFFICES ASSUME NEW i, NEW x, NEW y, IsChunk(r, i, x, y)
             PROVE  FtraceChunk(r, t, i, x, y)
  BY <1>3 DEF FtraceOK
<1>5. CASE IsChunk(s, i, x, y)
  <2>1. FtraceChunk(s, t, i, x, y) /\ i \in 1 .. Len(s)
    BY <1>5 DEF FtraceOK, IsChunk
  <2>2. t[r[i].line].cpu = t[x].cpu
    BY <1>4, <2>1 DEF FtraceChunk
  <2>3. \A k \in 1 .. Len(r) : r[k].line < x /\ t[r[k].line].cpu = t[x].cpu => k <= i
    BY <1>4, <2>1 DEF FtraceChunk
  <2> QED BY <2>1, <2>2, <2>3 DEF FtraceChunk
<1>6. CASE i = o /\ x = b /\ y = Len(t) + 1
  <2>1. ~(y <= Len(t)) /\ y - 1 = Len(t)
    BY <1>6
  <2>2. t[x].kind = "stack" /\ \A n \in x + 1 .. y - 1 : t[n].kind = "other"
    BY <1>6, <2>1 DEF Capturing
  <2>3. t[r[i].line].cpu = t[x].cpu
    BY <1>1, <1>4, <1>6 DEF Capturing
  <2>4. \A k \in 1 .. Len(r) : r[k].line < x /\ t[r[k].line].cpu = t[x].cpu => k <= i
    BY <1>2, <1>4, <1>6
  <2> QED BY <2>1, <2>2, <2>3, <2>4 DEF FtraceChunk
<1> QED BY <1>5, <1>6 DEF AddsChunk

(* The capture is ended in the line that comes now, or at the end.            *)
LEMMA EndCaptureOK ==
  ASSUME Types, FtraceOK(events, text),
         stackPending => Capturing(events, text, stackOrigin, infoBegin)
  PROVE  /\ FtraceOK(EndCapture, text) /\ SameEvents(EndCapture, events)
         /\ \A i, b, e : IsChunk(events, i, b, e) => IsChunk(EndCapture, i, b, e)
         /\ stackPending => \E i, e : IsChunk(EndCapture, i, infoBegin, e)
<1>1. Len(text) \in Nat /\ Here = Len(text) + 1 /\ Here \in Int
  BY DEF Types, Here
<1>2. CASE stackPending
  <2>1. stackOrigin \in 1 .. Len(events) /\ infoBegin \in Int /\ events \in Seq(EventType)
    BY <1>2 DEF Types
  <2>2. AddsChunk(Attach(events, stackOrigin, infoBegin, Here), events,
                  stackOrigin, infoBegin, Here)
    BY <1>1, <2>1, AttachAdds
  <2>3. EndCapture = Attach(events, stackOrigin, infoBegin, Here)
    BY <1>2 DEF EndCapture
  <2>4. AddsChunk(EndCapture, events, stackOrigin, infoBegin, Len(text) + 1)
    BY <1>1, <2>2, <2>3
  <2>5. FtraceOK(EndCapture, text)
    BY <1>1, <1>2, <2>4, CaptureEnds
  <2>6. IsChunk(EndCapture, stackOrigin, infoBegin, Len(text) + 1)
    BY <2>4 DEF AddsChunk
  <2> QED BY <2>4, <2>5, <2>6 DEF AddsChunk
<1>3. CASE ~stackPending
  <2>1. EndCapture = events
    BY <1>3 DEF EndCapture
  <2> QED BY <1>3, <2>1, SameEventsRefl DEF Types
<1> QED BY <1>2, <1>3

LEMMA FtraceAppend ==
  ASSUME NEW s, NEW t, NEW u, NEW line, Grown(u, t, line), FtraceOK(s, t), FtraceOK(s, u),
         NEW r \in EventType, r.info = <<>>, r.line = Len(t) + 1
  PROVE  /\ FtraceOK(Append(s, r), u)
         /\ \A i, b, e : IsChunk(Append(s, r), i, b, e) <=> IsChunk(s, i, b, e)
<1> DEFINE q == Append(s, r)
<1>1. Len(t) \in Nat /\ Len(u) = Len(t) + 1
  BY DEF Grown
<1>2. ChunksOK(s, Len(t)) /\ s \in Seq(EventType)
  BY DEF FtraceOK, ChunksOK
<1>3. ChunksOK(q, Len(u))
  BY <1>1, <1>2, AppendOK
<1>4. /\ Len(q) = Len(s) + 1 /\ Len(s) \in Nat
      /\ \A i \in 1 .. Len(s) : q[i] = s[i]
      /\ q[Len(s) + 1] = r
      /\ \A j, x, y : IsChunk(q, j, x, y) <=> IsChunk(s, j, x, y)
  BY <1>2, AppendChunks
<1> HIDE DEF q
<1>5. ASSUME NEW i, NEW b, NEW e, IsChunk(s, i, b, e)
      PROVE  FtraceChunk(q, u, i, b, e)
  <2>1. FtraceChunk(s, u, i, b, e) /\ b \in Int /\ e \in Int
    BY <1>2, <1>5, ChunkType DEF FtraceOK
  <2>2. b < e /\ e <= Len(t) + 1
    BY <1>2, <1>5 DEF ChunksOK, Placed
  <2>3. ASSUME NEW k \in 1 .. Len(q), q[k].line < b, u[q[k].line].cpu = u[b].cpu
        PROVE  k <= i
    <3>1. CASE k \in 1 .. Len(s)
      BY <1>4, <2>1, <2>3, <3>1 DEF FtraceChunk
    <3>2. CASE k = Len(s) + 1
      <4>1. q[k].line = Len(t) + 1
        BY <1>4, <3>2
      <4> QED BY <1>1, <2>1, <2>2, <2>3, <4>1
    <3> QED BY <1>4, <3>1, <3>2
  <2>4. i \in 1 .. Len(s) /\ q[i] = s[i]
    BY <1>2, <1>4, <1>5, ChunkType
  <2> QED BY <2>1, <2>3, <2>4 DEF FtraceChunk
<1>6. FtraceOK(q, u)
  BY <1>3, <1>4, <1>5 DEF FtraceOK
<1> QED BY <1>4, <1>6 DEF q

-----------------------------------------------------------------------------
(* The chunks of a perf file: the event has the lines that follow it.         *)
Followed(evs, txt, i) ==
  \A n \in evs[i].line + 1 .. Len(txt) :
    txt[n].kind = "other" /\ (\A j \in 1 .. Len(evs) : j > i => evs[j].line > n)
      => \E b, e : IsChunk(evs, i, b, e) /\ b <= n /\ n < e

(* Until the file ends the last event has no text yet, and the lines that     *)
(* follow it are those from line b on.                                        *)
PerfLast(evs, txt, afterEvent, b) ==
  /\ evs[Len(evs)].info = <<>>
  /\ EndBy(evs, evs[Len(evs)].line)
  /\ ~afterEvent => evs[Len(evs)].line < b
  /\ \A n \in evs[Len(evs)].line + 1 .. Len(txt) :
       txt[n].kind = "other" => ~afterEvent /\ b <= n
  /\ \A i \in 1 .. Len(evs) : i < Len(evs) => Followed(evs, txt, i)

PerfOpen(evs, txt, afterEvent, b) ==
  /\ ~afterEvent => b \in 1 .. Len(txt)
  /\ evs # <<>> => PerfLast(evs, txt, afterEvent, b)

LEMMA FollowedGrow ==
  ASSUME NEW s, NEW t, NEW u, NEW line, Grown(u, t, line), ChunksOK(s, Len(t)),
         NEW i \in 1 .. Len(s), i < Len(s), Followed(s, t, i)
  PROVE  Followed(s, u, i)
<1>1. /\ Len(t) \in Nat /\ Len(u) = Len(t) + 1 /\ \A n \in 1 .. Len(t) : u[n] = t[n]
      /\ s \in Seq(EventType) /\ Len(s) \in 1 .. Len(s) /\ Len(s) > i
  BY DEF Grown, ChunksOK
<1>2. s[i].line \in 1 .. Len(t) /\ s[Len(s)].line \in 1 .. Len(t)
  BY <1>1 DEF ChunksOK, EventLines
<1> SUFFICES ASSUME NEW n \in s[i].line + 1 .. Len(u), u[n].kind = "other",
                    \A j \in 1 .. Len(s) : j > i => s[j].line > n
             PROVE  \E b, e : IsChunk(s, i, b, e) /\ b <= n /\ n < e
  BY DEF Followed
<1>3. s[Len(s)].line > n
  BY <1>1
<1>4. n \in s[i].line + 1 .. Len(t) /\ n \in 1 .. Len(t)
  BY <1>1, <1>2, <1>3
<1>5. t[n].kind = "other"
  BY <1>1, <1>4
<1> QED BY <1>4, <1>5 DEF Followed

(* The lines since infoBegin are given to the last event.                     *)
LEMMA SetPrevInfoOK ==
  ASSUME Types, ChunksOK(events, Len(text)),
         PerfOpen(events, text, prevLineIsEvent, infoBegin)
  PROVE  LET r == SetPrevInfo(Here) IN
         /\ ChunksOK(r, Len(text)) /\ SameEvents(r, events)
         /\ \A i \in 1 .. Len(r) : Followed(r, text, i)
<1> DEFINE r == SetPrevInfo(Here)
           last == Len(events)
<1>1. Len(text) \in Nat /\ Here = Len(text) + 1 /\ Here \in Int /\ events \in Seq(EventType)
  BY DEF Types, Here
<1>2. CASE events = <<>>
  <2>1. r = events /\ Len(events) = 0
    BY <1>2 DEF SetPrevInfo
  <2>2. \A i \in 1 .. Len(events) : Followed(events, text, i)
    BY <2>1
  <2> QED BY <1>1, <2>1, <2>2, SameEventsRefl
<1>3. CASE events # <<>> /\ prevLineIsEvent
  <2>1. r = events
    BY <1>3 DEF SetPrevInfo
  <2>2. last \in 1 .. last
    BY <1>1, <1>3
  <2>3. PerfLast(events, text, prevLineIsEvent, infoBegin)
    BY <1>3 DEF PerfOpen
  <2>4. ASSUME NEW i \in 1 .. last PROVE Followed(events, text, i)
    <3>1. CASE i < last
      BY <2>3, <3>1 DEF PerfLast
    <3>2. CASE i = last
      BY <1>3, <2>3, <3>2 DEF PerfLast, Followed
    <3> QED BY <1>1, <3>1, <3>2
  <2> QED BY <1>1, <2>1, <2>4, SameEventsRefl
<1>4. CASE events # <<>> /\ ~prevLineIsEvent
  <2>1. r = [events EXCEPT ![last].info = <<<<infoBegin, Here>>>>]
    BY <1>4 DEF SetPrevInfo
  <2>2. last \in 1 .. last /\ infoBegin \in 1 .. Len(text)
    BY <1>1, <1>4 DEF PerfOpen
  <2>3. PerfLast(events, text, prevLineIsEvent, infoBegin)
    BY <1>4 DEF PerfOpen
  <2>4. AddsChunk(r, events, last, infoBegin, Here)
    <3>1. events[last].info = <<>> /\ infoBegin \in Int
      BY <2>2, <2>3 DEF PerfLast
    <3>2. AddsChunk([events EXCEPT ![last].info = <<<<infoBegin, Here>>>>], events, last,
                    infoBegin, Here)
      BY <1>1, <2>2, <3>1, SetInfoAdds
    <3> QED BY <2>1, <3>2
  <2> HIDE DEF r
  <2>5. /\ \A j \in 1 .. last : events[j].line \in Int /\ events[j].line <= events[last].line
        /\ events[last].line < infoBegin
    <3>1. ASSUME NEW j \in 1 .. last
          PROVE  events[j].line \in Int /\ events[j].line <= events[last].line
      <4>1. events[j].line \in Int /\ events[last].line \in Int
        BY <1>1, <2>2, LineInt
      <4>2. j < last => events[j].line < events[last].line
        BY <2>2 DEF ChunksOK, EventLines
      <4> QED BY <1>1, <4>1, <4>2
    <3> QED BY <1>4, <2>3, <3>1 DEF PerfLast
  <2>6. ChunksOK(r, Len(text))
    <3>1. infoBegin \in Int /\ infoBegin < Here /\ Here <= Len(text) + 1
      BY <1>1, <2>2
    <3>2. \A j \in 1 .. last : events[j].line < infoBegin
      BY <2>2, <2>5
    <3>3. EndBy(events, infoBegin)
      <4> SUFFICES ASSUME NEW j, NEW x, NEW y, IsChunk(events, j, x, y) PROVE y <= infoBegin
        BY DEF EndBy
      <4>1. y \in Int /\ y <= events[last].line
        BY <1>1, <2>3, ChunkType DEF PerfLast, EndBy
      <4> QED BY <2>2, <2>5, <3>1, <4>1
    <3> QED BY <1>1, <2>2, <2>4, <3>1, <3>2, <3>3, AddOK
  <2>7. Len(r) = last /\ \A j \in 1 .. last : r[j].line = events[j].line
    BY <2>4 DEF AddsChunk, SameEvents
  <2>8. ASSUME NEW i \in 1 .. last PROVE Followed(r, text, i)
    <3>1. CASE i < last
      <4>1. Followed(events, text, i)
        BY <2>3, <3>1 DEF PerfLast
      <4>2. \A b, e : IsChunk(events, i, b, e) => IsChunk(r, i, b, e)
        BY <2>4 DEF AddsChunk
      <4>3. r[i].line = events[i].line /\ \A j \in 1 .. Len(r) : j \in 1 .. last /\ r[j].line = events[j].line
        BY <2>7
      <4> SUFFICES ASSUME NEW n \in events[i].line + 1 .. Len(text), text[n].kind = "other",
                          \A j \in 1 .. last : j > i => events[j].line > n
                   PROVE  \E b, e : IsChunk(r, i, b, e) /\ b <= n /\ n < e
        BY <2>7, <4>3 DEF Followed
      <4> QED BY <4>1, <4>2 DEF Followed
    <3>2. CASE i = last
      <4> SUFFICES ASSUME NEW n \in events[last].line + 1 .. Len(text), text[n].kind = "other"
                   PROVE  \E b, e : IsChunk(r, i, b, e) /\ b <= n /\ n < e
        BY <2>7, <3>2 DEF Followed
      <4>1. infoBegin <= n
        BY <2>3 DEF PerfLast
      <4>2. n < Here
        BY <1>1, <2>2, <2>5
      <4>3. IsChunk(r, i, infoBegin, Here)
        BY <2>4, <3>2 DEF AddsChunk
      <4> QED BY <4>1, <4>2, <4>3
    <3> QED BY <1>1, <3>1, <3>2
  <2>9. SameEvents(r, events) /\ \A i \in 1 .. Len(r) : Followed(r, text, i)
    BY <2>4, <2>7, <2>8 DEF AddsChunk
  <2> QED BY <2>6, <2>9 DEF r
<1> QED BY <1>2, <1>3, <1>4

(* An event is committed after the others got their lines.                    *)
LEMMA PerfAppend ==
  ASSUME NEW s, NEW t, NEW u, NEW line, Grown(u, t, line), ChunksOK(s, Len(t)),
         \A i \in 1 .. Len(s) : Followed(s, t, i),
         NEW r \in EventType, r.info = <<>>, r.line = Len(t) + 1, NEW b
  PROVE  ChunksOK(Append(s, r), Len(u)) /\ PerfOpen(Append(s, r), u, TRUE, b)
<1> DEFINE q == Append(s, r)
<1>1. Len(t) \in Nat /\ Len(u) = Len(t) + 1 /\ \A n \in 1 .. Len(t) : u[n] = t[n]
  BY DEF Grown
<1>2. ChunksOK(q, Len(u))
  BY <1>1, AppendOK
<1>3. /\ Len(q) = Len(s) + 1 /\ Len(s) \in Nat
      /\ \A i \in 1 .. Len(s) : q[i] = s[i]
      /\ q[Len(s) + 1] = r
      /\ \A j, x, y : IsChunk(q, j, x, y) <=> IsChunk(s, j, x, y)
  BY AppendChunks DEF ChunksOK
<1> HIDE DEF q
<1>4. q[Len(q)].line = Len(u) /\ q[Len(q)].info = <<>>
  BY <1>1, <1>3
<1>5. EndBy(q, Len(u))
  BY <1>1, <1>3 DEF ChunksOK, Placed, EndBy
<1>6. \A n : n \notin Len(u) + 1 .. Len(u)
  BY <1>1
<1>7. ASSUME NEW i \in 1 .. Len(s) PROVE Followed(q, u, i)
  <2>1. Followed(s, t, i) /\ q[i] = s[i] /\ s[i].line \in 1 .. Len(t)
    BY <1>3 DEF ChunksOK, EventLines
  <2> SUFFICES ASSUME NEW n \in s[i].line + 1 .. Len(u), u[n].kind = "other",
                      \A j \in 1 .. Len(q) : j > i => q[j].line > n
               PROVE  \E x, y : IsChunk(q, i, x, y) /\ x <= n /\ n < y
    BY <2>1 DEF Followed
  <2>2. Len(q) \in 1 .. Len(q) /\ Len(q) > i
    BY <1>3
  <2>3. n < Len(u)
    BY <1>4, <2>2
  <2>4. n \in s[i].line + 1 .. Len(t) /\ n \in 1 .. Len(t)
    BY <1>1, <2>1, <2>3
  <2>5. \A j \in 1 .. Len(s) : j > i => s[j].line > n
    BY <1>3
  <2>6. \E x, y : IsChunk(s, i, x, y) /\ x <= n /\ n < y
    BY <1>1, <2>1, <2>4, <2>5 DEF Followed
  <2> QED BY <1>3, <2>6
<1>8. \A i \in 1 .. Len(q) : i < Len(q) => i \in 1 .. Len(s)
  BY <1>3
<1>9. PerfLast(q, u, TRUE, b)
  BY <1>4, <1>5, <1>6, <1>7, <1>8 DEF PerfLast
<1> QED BY <1>2, <1>9 DEF PerfOpen, q

(* A line that is no event, or an event that is dropped.                      *)
LEMMA PerfGrow ==
  ASSUME NEW s, NEW t, NEW u, NEW line, Grown(u, t, line), ChunksOK(s, Len(t)),
         NEW was, NEW b, PerfOpen(s, t, was, b), NEW is, NEW a,
         \/ line.kind # "other" /\ (is <=> was) /\ a = b
         \/ line.kind = "other" /\ ~is /\ a = IF was THEN Len(t) + 1 ELSE b
  PROVE  ChunksOK(s, Len(u)) /\ PerfOpen(s, u, is, a)
<1>1. Len(t) \in Nat /\ Len(u) = Len(t) + 1 /\ \A n \in 1 .. Len(t) : u[n] = t[n]
  BY DEF Grown
<1>2. ChunksOK(s, Len(u)) /\ s \in Seq(EventType)
  BY <1>1, GrowOK DEF ChunksOK
<1>3. ~is => a \in 1 .. Len(u)
  BY <1>1 DEF PerfOpen
<1>4. ASSUME s # <<>> PROVE PerfLast(s, u, is, a)
  <2> DEFINE m == s[Len(s)].line
  <2>1. PerfLast(s, t, was, b)
    BY <1>4 DEF PerfOpen
  <2>2. Len(s) \in 1 .. Len(s) /\ m \in 1 .. Len(t)
    BY <1>2, <1>4 DEF ChunksOK, EventLines
  <2>3. ~is => m < a
    BY <1>1, <2>1, <2>2 DEF PerfLast
  <2>4. ASSUME NEW n \in m + 1 .. Len(u), u[n].kind = "other" PROVE ~is /\ a <= n
    <3>1. CASE n = Len(t) + 1
      <4>1. line.kind = "other"
        BY <2>4, <3>1 DEF Grown
      <4>2. CASE was
        BY <1>1, <3>1, <4>1, <4>2
      <4>3. CASE ~was
        <5>1. b \in 1 .. Len(t)
          BY <4>3 DEF PerfOpen
        <5> QED BY <1>1, <3>1, <4>1, <4>3, <5>1
      <4> QED BY <4>2, <4>3
    <3>2. CASE n \in m + 1 .. Len(t)
      <4>1. n \in 1 .. Len(t)
        BY <1>1, <2>2, <3>2
      <4>2. ~was /\ b <= n
        BY <1>1, <2>1, <2>4, <3>2, <4>1 DEF PerfLast
      <4> QED BY <4>2
    <3> QED BY <1>1, <2>2, <3>1, <3>2
  <2>5. \A i \in 1 .. Len(s) : i < Len(s) => Followed(s, u, i)
    BY <2>1, FollowedGrow DEF PerfLast
  <2> QED BY <2>1, <2>3, <2>4, <2>5 DEF PerfLast
<1> QED BY <1>2, <1>3, <1>4 DEF PerfOpen

LEMMA PerfGrowDropped ==
  ASSUME NEW s, NEW t, NEW u, NEW line, Grown(u, t, line), ChunksOK(s, Len(t)),
         NEW was, NEW b, PerfOpen(s, t, was, b), line.kind # "other"
  PROVE  ChunksOK(s, Len(u)) /\ PerfOpen(s, u, was, b)
  BY PerfGrow

LEMMA PerfGrowOther ==
  ASSUME NEW s, NEW t, NEW u, NEW line, Grown(u, t, line), ChunksOK(s, Len(t)),
         NEW was, NEW b, PerfOpen(s, t, was, b), line.kind = "other",
         NEW is, ~is, NEW a, a = IF was THEN Len(t) + 1 ELSE b
  PROVE  ChunksOK(s, Len(u)) /\ PerfOpen(s, u, is, a)
  BY PerfGrow

-----------------------------------------------------------------------------
(* What holds of the chunks between two lines.                                *)
FtraceInv ==
  format = "FTRACE" =>
    /\ FtraceOK(events, text)
    /\ stackPending => Capturing(events, text, stackOrigin, infoBegin)
    /\ LastKnown(events, text, lastEventByCPU)
    /\ ~done => EndBy(events, Len(text))

PerfInv ==
  format = "PERF" =>
    /\ ChunksOK(events, Len(text))
    /\ ~done => PerfOpen(events, text, prevLineIsEvent, infoBegin)
    /\ done => \A i \in 1 .. Len(events) : Followed(events, text, i)

ChunkInv == Types /\ prevLineIsEvent \in BOOLEAN /\ FtraceInv /\ PerfInv

LEMMA EmptyChunks ==
  ASSUME NEW n \in Nat
  PROVE  ChunksOK(<<>>, n) /\ \A i, b, e : ~IsChunk(<<>>, i, b, e)
<1>1. <<>> \in Seq(EventType) /\ Len(<<>>) = 0
  OBVIOUS
<1>2. \A i, b, e : ~IsChunk(<<>>, i, b, e)
  BY <1>1 DEF IsChunk
<1> QED BY <1>1, <1>2 DEF ChunksOK, EventLines, Placed, Apart

LEMMA ChunkInit == Init => ChunkInv
<1> SUFFICES ASSUME Init PROVE ChunkInv
  OBVIOUS
<1>1. Types
  BY SortedInit DEF SortedInv
<1>2. /\ events = <<>> /\ Len(events) = 0 /\ text = <<>> /\ Len(text) = 0 /\ Len(text) \in Nat
      /\ ~done /\ ~stackPending /\ prevLineIsEvent /\ prevLineIsEvent \in BOOLEAN
  <2>1. events = <<>> /\ text = <<>>
    BY DEF Init
  <2>2. ~done /\ ~stackPending /\ prevLineIsEvent /\ prevLineIsEvent \in BOOLEAN
    BY Zenon DEF Init
  <2> QED BY <2>1, <2>2
<1>3. ChunksOK(events, Len(text)) /\ \A i, b, e : ~IsChunk(events, i, b, e)
  BY <1>2, EmptyChunks
<1>4. FtraceInv
  <2>1. \A c \in CPUs : lastEventByCPU[c] = 0
    BY DEF Init
  <2>2. LastKnown(events, text, lastEventByCPU)
    BY <1>2, <2>1 DEF LastKnown
  <2> QED BY <1>2, <1>3, <2>2 DEF FtraceInv, FtraceOK, EndBy
<1>5. PerfInv
  BY <1>2, <1>3 DEF PerfInv, PerfOpen
<1> QED BY <1>1, <1>2, <1>4, <1>5 DEF ChunkInv

(* An event that is the same in a longer file has the same CPU there.         *)
LEMMA KnownGrow ==
  ASSUME NEW s, NEW r, NEW t, NEW u, NEW line, NEW last, Grown(u, t, line),
         EventLines(s, Len(t)), SameEvents(r, s), LastKnown(s, t, last)
  PROVE  LastKnown(r, u, last)
<1>1. \A k \in 1 .. Len(s) : s[k].line \in 1 .. Len(t) /\ r[k].line = s[k].line
  BY DEF EventLines, SameEvents
<1>2. Len(r) = Len(s) /\ \A n \in 1 .. Len(t) : u[n] = t[n]
  BY DEF SameEvents, Grown
<1> QED BY <1>1, <1>2 DEF LastKnown

(* The end of a capture in an event line, committed or not.                   *)
LEMMA EventLineOK ==
  ASSUME ChunkInv, format = "FTRACE", NEW line, Grown(text', text, line), line.kind # "other"
  PROVE  /\ FtraceOK(EndCapture, text) /\ FtraceOK(EndCapture, text')
         /\ EndBy(EndCapture, Len(text'))
         /\ LastKnown(EndCapture, text', lastEventByCPU)
         /\ EventLines(EndCapture, Len(text)) /\ Len(EndCapture) = Len(events)
         /\ EndCapture \in Seq(EventType)
<1>1. Types /\ FtraceOK(events, text) /\ LastKnown(events, text, lastEventByCPU)
      /\ (stackPending => Capturing(events, text, stackOrigin, infoBegin))
  BY DEF ChunkInv, FtraceInv
<1>2. FtraceOK(EndCapture, text) /\ SameEvents(EndCapture, events)
  BY <1>1, EndCaptureOK
<1>3. FtraceOK(EndCapture, text')
  BY <1>2, FtraceGrow
<1>4. EndBy(EndCapture, Len(text'))
  BY <1>2 DEF FtraceOK, ChunksOK, Placed, EndBy, Grown
<1>5. EventLines(events, Len(text)) /\ EventLines(EndCapture, Len(text)) /\ Len(EndCapture) = Len(events)
      /\ EndCapture \in Seq(EventType)
  BY <1>1, <1>2 DEF FtraceOK, ChunksOK, SameEvents
<1>6. LastKnown(EndCapture, text', lastEventByCPU)
  BY <1>1, <1>2, <1>5, KnownGrow
<1> QED BY <1>2, <1>3, <1>4, <1>5, <1>6

LEMMA OtherChunks ==
  ASSUME ChunkInv, NEW line \in Lines(format), FtraceOther(line)
  PROVE  FtraceInv' /\ PerfInv'
<1>1. /\ Types /\ Grown(text', text, line) /\ line.kind = "other" /\ format = "FTRACE" /\ ~done
      /\ UNCHANGED <<format, done, events, stackPending, stackOrigin, lastEventByCPU, infoBegin>>
  BY ReadGrows DEF ChunkInv, FtraceOther, Read, ftraceVars
<1>2. /\ FtraceOK(events, text) /\ EndBy(events, Len(text)) /\ events \in Seq(EventType)
      /\ LastKnown(events, text, lastEventByCPU) /\ EventLines(events, Len(text))
      /\ stackPending => Capturing(events, text, stackOrigin, infoBegin)
  BY <1>1 DEF ChunkInv, FtraceInv, FtraceOK, ChunksOK
<1>3. FtraceOK(events, text')
  BY <1>1, <1>2, FtraceGrow
<1>4. stackPending => Capturing(events, text', stackOrigin, infoBegin)
  BY <1>1, <1>2, CapturingGrow
<1>5. LastKnown(events, text', lastEventByCPU)
  BY <1>1, <1>2, KnownGrow, SameEventsRefl
<1>6. EndBy(events, Len(text'))
  <2> SUFFICES ASSUME NEW i, NEW b, NEW e, IsChunk(events, i, b, e) PROVE e <= Len(text')
    BY DEF EndBy
  <2>1. e \in Int /\ e <= Len(text)
    BY <1>2, ChunkType DEF EndBy
  <2> QED BY <1>1, <2>1 DEF Grown
<1>7. format' = "FTRACE" /\ format' # "PERF"
  BY <1>1
<1> QED BY <1>1, <1>3, <1>4, <1>5, <1>6, <1>7 DEF FtraceInv, PerfInv

LEMMA DroppedChunks ==
  ASSUME ChunkInv, NEW line \in Lines(format), FtraceDropped(line)
  PROVE  FtraceInv' /\ PerfInv'
<1>1. /\ Grown(text', text, line) /\ line.kind # "other" /\ format = "FTRACE"
      /\ events' = EndCapture /\ ~stackPending'
      /\ UNCHANGED <<format, lastEventByCPU>>
  BY ReadGrows DEF ChunkInv, FtraceDropped, Read
<1>2. /\ FtraceOK(events', text') /\ EndBy(events', Len(text'))
      /\ LastKnown(events', text', lastEventByCPU')
  BY <1>1, EventLineOK
<1>3. format' = "FTRACE" /\ format' # "PERF"
  BY <1>1
<1> QED BY <1>1, <1>2, <1>3 DEF FtraceInv, PerfInv

LEMMA StackChunks ==
  ASSUME ChunkInv, NEW line \in Lines(format), FtraceStack(line)
  PROVE  FtraceInv' /\ PerfInv'
<1>1. /\ Types /\ Grown(text', text, line) /\ line.kind = "stack" /\ format = "FTRACE"
      /\ events' = EndCapture /\ UNCHANGED <<format, lastEventByCPU>>
      /\ stackPending' = (lastEventByCPU[line.cpu] # 0)
      /\ lastEventByCPU[line.cpu] # 0 => stackOrigin' = lastEventByCPU[line.cpu] /\ infoBegin' = Here
  BY ReadGrows DEF ChunkInv, FtraceStack, Read
<1>2. /\ FtraceOK(events', text') /\ EndBy(events', Len(text'))
      /\ LastKnown(events', text', lastEventByCPU')
      /\ EventLines(events', Len(text)) /\ Len(events') = Len(events)
  BY <1>1, EventLineOK
<1>3. ASSUME stackPending' PROVE Capturing(events', text', stackOrigin', infoBegin')
  <2>1. /\ Len(text) \in Nat /\ Here = Len(text) + 1 /\ Len(text') = Len(text) + 1
        /\ text'[Here] = line
    BY <1>1 DEF Grown, Here
  <2>2. line.cpu \in CPUs
    BY <1>1, EventLine DEF Types
  <2>3. /\ stackOrigin' \in 1 .. Len(events') /\ stackOrigin' = lastEventByCPU[line.cpu]
        /\ infoBegin' = Here
    <3>1. lastEventByCPU[line.cpu] # 0
      BY <1>1, <1>3, Zenon
    <3>2. lastEventByCPU[line.cpu] \in 0 .. Len(events) /\ Len(events) \in Nat
      BY <1>1, <2>2 DEF Types
    <3>3. lastEventByCPU[line.cpu] \in 1 .. Len(events)
      BY <3>1, <3>2
    <3> QED BY <1>1, <1>2, <3>1, <3>3
  <2>4. infoBegin' \in 1 .. Len(text') /\ infoBegin' = Len(text')
    BY <2>1, <2>3
  <2>5. \A n : n \notin infoBegin' + 1 .. Len(text')
    BY <2>1, <2>4
  <2>6. ASSUME NEW k \in 1 .. Len(events')
        PROVE  /\ events'[k].line < infoBegin'
               /\ text'[events'[k].line].cpu = text'[infoBegin'].cpu => k <= stackOrigin'
    <3>1. events'[k].line < infoBegin'
      BY <1>2, <2>1, <2>3 DEF EventLines
    <3>2. k <= lastEventByCPU[text'[events'[k].line].cpu]
      BY <1>1, <1>2 DEF LastKnown
    <3> QED BY <2>1, <2>3, <3>1, <3>2
  <2>7. /\ text'[infoBegin'].kind = "stack" /\ EndBy(events', infoBegin')
        /\ text'[events'[stackOrigin'].line].cpu = text'[infoBegin'].cpu
    <3>1. lastEventByCPU[line.cpu] # 0
      BY <1>1, <1>3, Zenon
    <3>2. text'[events'[lastEventByCPU[line.cpu]].line].cpu = line.cpu
      BY <1>1, <1>2, <2>2, <3>1 DEF LastKnown
    <3> QED BY <1>1, <1>2, <2>1, <2>3, <3>2
  <2> QED BY <2>3, <2>4, <2>5, <2>6, <2>7 DEF Capturing
<1>4. format' = "FTRACE" /\ format' # "PERF"
  BY <1>1
<1> QED BY <1>2, <1>3, <1>4 DEF FtraceInv, PerfInv

LEMMA EventChunks ==
  ASSUME ChunkInv, NEW line \in Lines(format), FtraceEvent(line)
  PROVE  FtraceInv' /\ PerfInv'
<1> DEFINE r == NewEvent(line)
<1>1. /\ Types /\ Grown(text', text, line) /\ line.kind = "event" /\ format = "FTRACE"
      /\ events' = Append(EndCapture, r) /\ ~stackPending' /\ format' = format
      /\ lastEventByCPU' = [lastEventByCPU EXCEPT ![line.cpu] = Len(events) + 1]
      /\ Accepts(line.time)
  BY ReadGrows DEF ChunkInv, FtraceEvent, Read
<1>2. /\ FtraceOK(EndCapture, text) /\ FtraceOK(EndCapture, text')
      /\ EndBy(EndCapture, Len(text')) /\ LastKnown(EndCapture, text', lastEventByCPU)
      /\ EventLines(EndCapture, Len(text)) /\ Len(EndCapture) = Len(events)
      /\ EndCapture \in Seq(EventType)
  BY <1>1, EventLineOK
<1>3. line.time \in Int /\ line.cpu \in CPUs
  BY <1>1, EventLine DEF Types
<1>4. r \in EventType /\ r.info = <<>> /\ r.line = Len(text) + 1
  <2>1. Corrected(line.time) \in Int
    BY <1>1, <1>3, CorrectedIsLater DEF Types
  <2> QED BY <1>1, <2>1, NewEventType DEF NewEvent, Here
<1> HIDE DEF r
<1>5. /\ FtraceOK(events', text')
      /\ \A i, b, e : IsChunk(events', i, b, e) <=> IsChunk(EndCapture, i, b, e)
  BY <1>1, <1>2, <1>4, FtraceAppend
<1>6. EndBy(events', Len(text'))
  BY <1>2, <1>5 DEF EndBy
<1>7. /\ Len(events') = Len(events) + 1 /\ Len(events) \in Nat
      /\ \A k \in 1 .. Len(events) : events'[k] = EndCapture[k]
      /\ events'[Len(events) + 1] = r
  BY <1>1, <1>2, <1>4, AppendChunks
<1>8. LastKnown(events', text', lastEventByCPU')
  <2>1. lastEventByCPU'[line.cpu] = Len(events) + 1
        /\ \A c \in CPUs : c # line.cpu => lastEventByCPU'[c] = lastEventByCPU[c]
    BY <1>1, <1>3 DEF Types
  <2>2. /\ events'[Len(events) + 1].line = Len(text) + 1 /\ text'[Len(text) + 1] = line
        /\ Len(events) + 1 \in 1 .. Len(events')
    BY <1>1, <1>4, <1>7 DEF Grown
  <2>3. ASSUME NEW k \in 1 .. Len(events')
        PROVE  /\ text'[events'[k].line].cpu \in CPUs
               /\ k <= lastEventByCPU'[text'[events'[k].line].cpu]
    <3>1. CASE k = Len(events) + 1
      BY <1>3, <1>7, <2>1, <2>2, <3>1
    <3>2. CASE k \in 1 .. Len(events)
      <4>1. /\ text'[events'[k].line].cpu \in CPUs
            /\ k <= lastEventByCPU[text'[events'[k].line].cpu]
        BY <1>2, <1>7, <3>2 DEF LastKnown
      <4>2. CASE text'[events'[k].line].cpu = line.cpu
        BY <1>3, <1>7, <2>1, <3>2, <4>2
      <4>3. CASE text'[events'[k].line].cpu # line.cpu
        BY <2>1, <4>1, <4>3
      <4> QED BY <4>2, <4>3
    <3> QED BY <1>7, <3>1, <3>2
  <2>4. ASSUME NEW c \in CPUs, lastEventByCPU'[c] # 0
        PROVE  /\ lastEventByCPU'[c] \in 1 .. Len(events')
               /\ text'[events'[lastEventByCPU'[c]].line].cpu = c
    <3>1. CASE c = line.cpu
      BY <2>1, <2>2, <3>1
    <3>2. CASE c # line.cpu
      <4>1. /\ lastEventByCPU'[c] \in 1 .. Len(events)
            /\ text'[EndCapture[lastEventByCPU'[c]].line].cpu = c
        BY <1>2, <2>1, <2>4, <3>2 DEF LastKnown
      <4>2. events'[lastEventByCPU'[c]] = EndCapture[lastEventByCPU'[c]]
        BY <1>7, <4>1
      <4> QED BY <1>7, <4>1, <4>2
    <3> QED BY <3>1, <3>2
  <2> QED BY <2>3, <2>4 DEF LastKnown
<1>9. format' = "FTRACE" /\ format' # "PERF"
  BY <1>1
<1> QED BY <1>1, <1>5, <1>6, <1>8, <1>9 DEF FtraceInv, PerfInv

LEMMA PerfOtherChunks ==
  ASSUME ChunkInv, NEW line \in Lines(format), PerfOther(line) \/ PerfDropped(line)
  PROVE  FtraceInv' /\ PerfInv'
<1>1. /\ Types /\ Grown(text', text, line) /\ format = "PERF" /\ ~done
      /\ UNCHANGED <<format, done, events>>
  BY ReadGrows DEF ChunkInv, PerfOther, PerfDropped, Read
<1>2. /\ ChunksOK(events, Len(text)) /\ PerfOpen(events, text, prevLineIsEvent, infoBegin)
      /\ prevLineIsEvent \in BOOLEAN
  BY <1>1 DEF ChunkInv, PerfInv
<1>3. ChunksOK(events, Len(text')) /\ PerfOpen(events, text', prevLineIsEvent', infoBegin')
  <2>1. CASE PerfOther(line)
    <3>1. /\ line.kind = "other" /\ ~prevLineIsEvent'
          /\ infoBegin' = IF prevLineIsEvent THEN Len(text) + 1 ELSE infoBegin
      BY <2>1 DEF PerfOther, Here
    <3> QED BY <1>1, <1>2, <3>1, PerfGrowOther
  <2>2. CASE PerfDropped(line)
    <3>1. line.kind # "other" /\ prevLineIsEvent' = prevLineIsEvent /\ infoBegin' = infoBegin
      BY <2>2 DEF PerfDropped
    <3>2. PerfOpen(events, text', prevLineIsEvent, infoBegin) /\ ChunksOK(events, Len(text'))
      BY <1>1, <1>2, <3>1, PerfGrowDropped, Zenon
    <3> QED BY <3>1, <3>2
  <2> QED BY <2>1, <2>2
<1> QED BY <1>1, <1>3 DEF FtraceInv, PerfInv

LEMMA PerfEventChunks ==
  ASSUME ChunkInv, NEW line \in Lines(format), PerfEvent(line)
  PROVE  FtraceInv' /\ PerfInv'
<1> DEFINE r == NewEvent(line)
           s == SetPrevInfo(Here)
<1>1. /\ Types /\ Grown(text', text, line) /\ line.kind = "event" /\ format = "PERF" /\ ~done
      /\ UNCHANGED <<format, done>> /\ events' = Append(s, r) /\ prevLineIsEvent' = TRUE
      /\ Accepts(line.time)
  BY ReadGrows DEF ChunkInv, PerfEvent, Read
<1>2. ChunksOK(events, Len(text)) /\ PerfOpen(events, text, prevLineIsEvent, infoBegin)
  BY <1>1 DEF ChunkInv, PerfInv
<1>3. ChunksOK(s, Len(text)) /\ \A i \in 1 .. Len(s) : Followed(s, text, i)
  BY <1>1, <1>2, SetPrevInfoOK
<1>4. r \in EventType /\ r.info = <<>> /\ r.line = Len(text) + 1
  <2>1. line.time \in Int
    BY <1>1, EventLine DEF Types
  <2>2. Corrected(line.time) \in Int
    BY <1>1, <2>1, CorrectedIsLater DEF Types
  <2> QED BY <1>1, <2>2, NewEventType DEF NewEvent, Here
<1> HIDE DEF r, s
<1>5. ChunksOK(events', Len(text')) /\ PerfOpen(events', text', TRUE, infoBegin')
  BY <1>1, <1>3, <1>4, PerfAppend
<1> QED BY <1>1, <1>5 DEF FtraceInv, PerfInv

LEMMA EndChunks ==
  ASSUME ChunkInv, FixLastEvent
  PROVE  FtraceInv' /\ PerfInv'
<1>1. /\ Types /\ ~done /\ done' /\ UNCHANGED <<format, text, lastEventByCPU>> /\ ~stackPending'
      /\ events' = IF format = "FTRACE" THEN EndCapture ELSE SetPrevInfo(Here)
  BY DEF ChunkInv, FixLastEvent
<1>2. CASE format = "FTRACE"
  <2>1. /\ FtraceOK(events, text) /\ LastKnown(events, text, lastEventByCPU)
        /\ stackPending => Capturing(events, text, stackOrigin, infoBegin)
    BY <1>2 DEF ChunkInv, FtraceInv
  <2>2. FtraceOK(events', text) /\ SameEvents(events', events)
    BY <1>1, <1>2, <2>1, EndCaptureOK
  <2>3. LastKnown(events', text, lastEventByCPU)
    BY <2>1, <2>2 DEF LastKnown, SameEvents
  <2> QED BY <1>1, <1>2, <2>2, <2>3 DEF FtraceInv, PerfInv
<1>3. CASE format = "PERF"
  <2>1. ChunksOK(events, Len(text)) /\ PerfOpen(events, text, prevLineIsEvent, infoBegin)
    BY <1>1, <1>3 DEF ChunkInv, PerfInv
  <2>2. ChunksOK(events', Len(text)) /\ \A i \in 1 .. Len(events') : Followed(events', text, i)
    BY <1>1, <1>3, <2>1, SetPrevInfoOK
  <2> QED BY <1>1, <1>3, <2>2 DEF FtraceInv, PerfInv
<1> QED BY <1>1, <1>2, <1>3 DEF Types, Formats

LEMMA ChunkStep ==
  ASSUME SortedInv, ChunkInv, [Next]_vars
  PROVE  ChunkInv'
<1>1. Types'
  BY SortedStep DEF SortedInv
<1>2. prevLineIsEvent' \in BOOLEAN
  <2>1. prevLineIsEvent \in BOOLEAN
    BY DEF ChunkInv
  <2>2. prevLineIsEvent' = prevLineIsEvent \/ prevLineIsEvent' = TRUE \/ prevLineIsEvent' = FALSE
    BY DEF Next, ParseLine, vars, FtraceOther, FtraceDropped, FtraceStack, FtraceEvent,
           PerfOther, PerfDropped, PerfEvent, FixLastEvent
  <2> QED BY <2>1, <2>2, Zenon
<1>3. FtraceInv' /\ PerfInv'
  <2>1. CASE \E line \in Lines(format) : ParseLine(line)
    <3>1. PICK line \in Lines(format) : ParseLine(line)
      BY <2>1
    <3> QED BY <3>1, OtherChunks, DroppedChunks, StackChunks, EventChunks, PerfOtherChunks,
               PerfEventChunks DEF ParseLine
  <2>2. CASE FixLastEvent
    BY <2>2, EndChunks
  <2>3. CASE UNCHANGED vars
    BY <2>3 DEF ChunkInv, FtraceInv, PerfInv, vars, ftraceVars
  <2> QED BY <2>1, <2>2, <2>3 DEF Next
<1> QED BY <1>1, <1>2, <1>3 DEF ChunkInv

LEMMA ChunksAre ==
  ASSUME Types
  PROVE  \A c : c \in Chunks <=> \E i, b, e : IsChunk(events, i, b, e) /\ c = <<i, <<b, e>>>>
<1>1. events \in Seq(EventType) /\ DOMAIN events = 1 .. Len(events)
  BY DEF Types
<1>2. ASSUME NEW i \in 1 .. Len(events)
      PROVE  events[i].info \in Seq(Int \X Int) /\ DOMAIN events[i].info = 1 .. Len(events[i].info)
  <2>1. events[i] \in EventType
    BY <1>1
  <2>2. events[i].info \in Seq(Int \X Int)
    BY <2>1 DEF EventType
  <2> QED BY <2>2
<1>3. ASSUME NEW c \in Chunks
      PROVE  \E i, b, e : IsChunk(events, i, b, e) /\ c = <<i, <<b, e>>>>
  <2>1. PICK i \in DOMAIN events : c \in {<<i, events[i].info[k]>> : k \in DOMAIN events[i].info}
    BY <1>3 DEF Chunks
  <2>2. PICK k \in DOMAIN events[i].info : c = <<i, events[i].info[k]>>
    BY <2>1
  <2>3. events[i].info[k] \in Int \X Int
    BY <1>1, <1>2
  <2>4. PICK b \in Int, e \in Int : events[i].info[k] = <<b, e>>
    BY <2>3
  <2>5. IsChunk(events, i, b, e)
    BY <1>1, <1>2, <2>4 DEF IsChunk
  <2> QED BY <2>2, <2>4, <2>5
<1>4. ASSUME NEW i, NEW b, NEW e, IsChunk(events, i, b, e)
      PROVE  <<i, <<b, e>>>> \in Chunks
  <2>1. i \in DOMAIN events
    BY <1>1, <1>4 DEF IsChunk
  <2>2. PICK k \in DOMAIN events[i].info : events[i].info[k] = <<b, e>>
    BY <1>1, <1>2, <1>4 DEF IsChunk
  <2>3. <<i, <<b, e>>>> \in {<<i, events[i].info[n]>> : n \in DOMAIN events[i].info}
    BY <2>2
  <2> QED BY <2>1, <2>3 DEF Chunks
<1> QED BY <1>3, <1>4

-----------------------------------------------------------------------------
(* The times the lines are compared with, as a function of the line.          *)
StepTime(t, line) ==
  IF line.kind = "other" THEN t
  ELSE IF line.time >= t THEN line.time
  ELSE IF line.time + CorrDelta - t \in 0 .. Window - 1 THEN line.time + CorrDelta
  ELSE t

IsTimes(f, txt) ==
  f = [n \in 0 .. Len(txt) |-> IF n = 0 THEN VtlTimeMin ELSE StepTime(f[n - 1], txt[n])]

BelievedIn(t, line) ==
  line.time >= t \/ line.time + CorrDelta - t \in 0 .. Window - 1

(* Every stack event so far has given its text to an event, or will.          *)
StacksKept(f, evs, txt, pending, begin) ==
  \A n \in 1 .. Len(txt) :
    /\ txt[n].kind = "stack" /\ BelievedIn(f[n - 1], txt[n])
    /\ \E k \in 1 .. Len(evs) : evs[k].line < n /\ txt[evs[k].line].cpu = txt[n].cpu
    => (\E i, e : IsChunk(evs, i, n, e)) \/ (pending /\ begin = n)

TimesInv ==
  /\ done => ~stackPending
  /\ format = "FTRACE" =>
       /\ \E f : IsTimes(f, text)
       /\ \A f : IsTimes(f, text) =>
            f[Len(text)] = prevTime /\ StacksKept(f, events, text, stackPending, infoBegin)

LEMMA TimesInit == Init => TimesInv
<1> SUFFICES ASSUME Init PROVE TimesInv
  OBVIOUS
<1>1. text = <<>> /\ Len(text) = 0 /\ prevTime = VtlTimeMin /\ ~stackPending
  <2>1. text = <<>> /\ prevTime = VtlTimeMin
    BY DEF Init
  <2>2. ~stackPending
    BY Zenon DEF Init
  <2> QED BY <2>1, <2>2
<1>2. IsTimes([n \in 0 .. 0 |-> VtlTimeMin], text)
  BY <1>1 DEF IsTimes
<1>3. ASSUME NEW f, IsTimes(f, text)
      PROVE  f[Len(text)] = prevTime /\ StacksKept(f, events, text, stackPending, infoBegin)
  <2>1. f[0] = VtlTimeMin
    BY <1>1, <1>3 DEF IsTimes
  <2>2. \A n : n \notin 1 .. Len(text)
    BY <1>1
  <2> QED BY <1>1, <2>1, <2>2 DEF StacksKept
<1> QED BY <1>1, <1>2, <1>3 DEF TimesInv

(* The times of a file are those of the file without its last line, and one.  *)
LEMMA TimesRestrict ==
  ASSUME NEW t, NEW u, NEW line, Grown(u, t, line), NEW f, IsTimes(f, u)
  PROVE  LET g == [n \in 0 .. Len(t) |-> f[n]] IN
         /\ IsTimes(g, t)
         /\ \A n \in 0 .. Len(t) : g[n] = f[n]
         /\ f[Len(u)] = StepTime(g[Len(t)], line)
<1> DEFINE g == [n \in 0 .. Len(t) |-> f[n]]
<1>1. Len(t) \in Nat /\ Len(u) = Len(t) + 1 /\ \A n \in 1 .. Len(t) : u[n] = t[n]
  BY DEF Grown
<1>2. \A n \in 0 .. Len(t) : g[n] = f[n]
  OBVIOUS
<1>3. ASSUME NEW n \in 0 .. Len(u)
      PROVE  f[n] = IF n = 0 THEN VtlTimeMin ELSE StepTime(f[n - 1], u[n])
  BY <1>3 DEF IsTimes
<1>4. ASSUME NEW n \in 0 .. Len(t)
      PROVE  f[n] = IF n = 0 THEN VtlTimeMin ELSE StepTime(g[n - 1], t[n])
  <2>1. n \in 0 .. Len(u)
    BY <1>1
  <2>2. CASE n = 0
    BY <1>3, <2>1, <2>2
  <2>3. CASE n # 0
    <3>1. n \in 1 .. Len(t) /\ n - 1 \in 0 .. Len(t)
      BY <1>1, <2>3
    <3> QED BY <1>1, <1>2, <1>3, <2>1, <2>3, <3>1
  <2> QED BY <2>2, <2>3
<1>5. g = [n \in 0 .. Len(t) |-> IF n = 0 THEN VtlTimeMin ELSE StepTime(g[n - 1], t[n])]
  BY <1>4
<1>6. f[Len(u)] = StepTime(g[Len(t)], line)
  <2>1. Len(u) \in 0 .. Len(u) /\ Len(u) # 0 /\ Len(u) - 1 = Len(t) /\ Len(t) \in 0 .. Len(t)
    BY <1>1
  <2>2. u[Len(u)] = line
    BY <1>1 DEF Grown
  <2> QED BY <1>2, <1>3, <2>1, <2>2
<1> HIDE DEF g
<1>7. IsTimes(g, t)
  BY <1>5 DEF IsTimes
<1> QED BY <1>2, <1>6, <1>7 DEF g

LEMMA TimesExtend ==
  ASSUME NEW t, NEW u, NEW line, Grown(u, t, line), NEW f, IsTimes(f, t)
  PROVE  \E h : IsTimes(h, u)
<1> DEFINE h == [n \in 0 .. Len(u) |-> IF n <= Len(t) THEN f[n] ELSE StepTime(f[Len(t)], line)]
<1>1. Len(t) \in Nat /\ Len(u) = Len(t) + 1 /\ \A n \in 1 .. Len(t) : u[n] = t[n]
  BY DEF Grown
<1>2. ASSUME NEW n \in 0 .. Len(t) PROVE h[n] = f[n]
  BY <1>1
<1>3. h[Len(t) + 1] = StepTime(f[Len(t)], line)
  BY <1>1
<1>4. ASSUME NEW n \in 0 .. Len(u)
      PROVE  h[n] = IF n = 0 THEN VtlTimeMin ELSE StepTime(h[n - 1], u[n])
  <2> HIDE DEF h
  <2>1. CASE n = 0
    <3>1. 0 \in 0 .. Len(t)
      BY <1>1
    <3>2. f[0] = VtlTimeMin
      BY <3>1 DEF IsTimes
    <3> QED BY <1>2, <2>1, <3>1, <3>2
  <2>2. CASE n \in 1 .. Len(t)
    <3>1. n \in 0 .. Len(t) /\ n - 1 \in 0 .. Len(t) /\ n # 0
      BY <1>1, <2>2
    <3>2. f[n] = StepTime(f[n - 1], t[n])
      BY <3>1 DEF IsTimes
    <3> QED BY <1>1, <1>2, <2>2, <3>1, <3>2
  <2>3. CASE n = Len(t) + 1
    <3>1. n - 1 = Len(t) /\ Len(t) \in 0 .. Len(t) /\ n # 0
      BY <1>1, <2>3
    <3>2. u[n] = line
      BY <2>3 DEF Grown
    <3> QED BY <1>2, <1>3, <2>3, <3>1, <3>2
  <2> QED BY <1>1, <2>1, <2>2, <2>3
<1>5. h = [n \in 0 .. Len(u) |-> IF n = 0 THEN VtlTimeMin ELSE StepTime(h[n - 1], u[n])]
  BY <1>4
<1> HIDE DEF h
<1> QED BY <1>5 DEF IsTimes

(* The events after one line more: those there were, and perhaps that line.   *)
EventsKept(r, s, n) ==
  /\ Len(s) \in Nat /\ Len(s) <= Len(r)
  /\ \A k \in 1 .. Len(s) : r[k].line = s[k].line
  /\ \A k \in 1 .. Len(r) : k <= Len(s) \/ r[k].line = n
  /\ \A i, x, e : IsChunk(s, i, x, e) => IsChunk(r, i, x, e)

(* A capture is ended with a chunk or goes on.                                *)
CaptureKept(r, p, b, q, a) ==
  p => (\E i, e : IsChunk(r, i, b, e)) \/ (q /\ a = b)

(* A stack event that is believed begins a capture.                           *)
CaptureBegins(time, line, evs, txt, q, a) ==
  /\ line.kind = "stack" /\ BelievedIn(time, line)
  /\ \E k \in 1 .. Len(evs) : txt[evs[k].line].cpu = line.cpu
  => q /\ a = Len(txt) + 1

(* A line more: what its time does, and that its stack events are kept.       *)
LEMMA KeptGrow ==
  ASSUME NEW s, NEW r, NEW t, NEW u, NEW line, Grown(u, t, line),
         NEW f, NEW g, \A n \in 0 .. Len(t) : g[n] = f[n],
         NEW p, NEW b, StacksKept(g, s, t, p, b), NEW q, NEW a,
         EventLines(s, Len(t)), EventsKept(r, s, Len(t) + 1),
         CaptureKept(r, p, b, q, a), CaptureBegins(g[Len(t)], line, s, t, q, a)
  PROVE  StacksKept(f, r, u, q, a)
<1>1. Len(t) \in Nat /\ Len(u) = Len(t) + 1 /\ \A n \in 1 .. Len(t) : u[n] = t[n]
  BY DEF Grown
<1> SUFFICES ASSUME NEW n \in 1 .. Len(u), u[n].kind = "stack", BelievedIn(f[n - 1], u[n]),
                    NEW k \in 1 .. Len(r), r[k].line < n, u[r[k].line].cpu = u[n].cpu
             PROVE  (\E i, e : IsChunk(r, i, n, e)) \/ (q /\ a = n)
  BY DEF StacksKept
<1>2. k \in 1 .. Len(s) /\ r[k].line = s[k].line /\ s[k].line \in 1 .. Len(t)
  <2>1. k <= Len(s) /\ Len(s) \in Nat
    BY <1>1 DEF EventsKept
  <2>2. k \in 1 .. Len(s)
    BY <2>1
  <2> QED BY <2>2 DEF EventsKept, EventLines
<1>3. u[s[k].line] = t[s[k].line]
  BY <1>1, <1>2
<1>4. CASE n \in 1 .. Len(t)
  <2>1. n - 1 \in 0 .. Len(t) /\ u[n] = t[n]
    BY <1>1, <1>4
  <2>2. t[n].kind = "stack" /\ BelievedIn(g[n - 1], t[n])
    BY <2>1
  <2>3. s[k].line < n /\ t[s[k].line].cpu = t[n].cpu
    BY <1>2, <1>3, <2>1
  <2>4. (\E i, e : IsChunk(s, i, n, e)) \/ (p /\ b = n)
    BY <1>2, <1>4, <2>2, <2>3 DEF StacksKept
  <2> QED BY <2>4 DEF EventsKept, CaptureKept
<1>5. CASE n = Len(t) + 1
  <2>1. n - 1 = Len(t) /\ Len(t) \in 0 .. Len(t) /\ u[n] = line
    BY <1>1, <1>5 DEF Grown
  <2>2. t[s[k].line].cpu = line.cpu
    BY <1>2, <1>3, <2>1
  <2>3. line.kind = "stack" /\ BelievedIn(g[Len(t)], line)
    BY <2>1
  <2> QED BY <1>2, <1>5, <2>2, <2>3 DEF CaptureBegins
<1> QED BY <1>1, <1>4, <1>5

(* One step of the invariant, of a line that is read in an ftrace file.       *)
LEMMA TimesGrow ==
  ASSUME ChunkInv, TimesInv, format = "FTRACE", ~done, ~done', format' = format,
         NEW line, Grown(text', text, line),
         prevTime' = StepTime(prevTime, line),
         EventsKept(events', events, Len(text) + 1),
         CaptureKept(events', stackPending, infoBegin, stackPending', infoBegin'),
         CaptureBegins(prevTime, line, events, text, stackPending', infoBegin')
  PROVE  TimesInv'
<1>1. EventLines(events, Len(text))
  BY DEF ChunkInv, FtraceInv, FtraceOK, ChunksOK
<1>2. \E h : IsTimes(h, text')
  BY TimesExtend DEF TimesInv
<1>3. ASSUME NEW f, IsTimes(f, text')
      PROVE  /\ f[Len(text')] = prevTime'
             /\ StacksKept(f, events', text', stackPending', infoBegin')
  <2> DEFINE g == [n \in 0 .. Len(text) |-> f[n]]
  <2>1. /\ IsTimes(g, text) /\ \A n \in 0 .. Len(text) : g[n] = f[n]
        /\ f[Len(text')] = StepTime(g[Len(text)], line)
    BY <1>3, TimesRestrict
  <2> HIDE DEF g
  <2>2. g[Len(text)] = prevTime /\ StacksKept(g, events, text, stackPending, infoBegin)
    BY <2>1 DEF TimesInv
  <2>3. CaptureBegins(g[Len(text)], line, events, text, stackPending', infoBegin')
    BY <2>2
  <2>4. StacksKept(f, events', text', stackPending', infoBegin')
    BY <1>1, <2>1, <2>2, <2>3, KeptGrow
  <2> QED BY <2>1, <2>2, <2>4
<1> QED BY <1>2, <1>3 DEF TimesInv

(* What the guards say of the time of a line.                                 *)
LEMMA AcceptsIs ==
  ASSUME NEW line, line.kind # "other", line.time \in Int, prevTime \in Int
  PROVE  /\ Accepts(line.time) <=> BelievedIn(prevTime, line)
         /\ Accepts(line.time) => StepTime(prevTime, line) = Corrected(line.time)
         /\ ~Accepts(line.time) => StepTime(prevTime, line) = prevTime
  BY DeltaAssumption DEF Accepts, BelievedIn, StepTime, Corrected

(* The capture is ended: no event is new, and the chunks there were stay.     *)
LEMMA EndCaptureKeeps ==
  ASSUME ChunkInv, format = "FTRACE", NEW q, NEW a, NEW n
  PROVE  EventsKept(EndCapture, events, n) /\ CaptureKept(EndCapture, stackPending, infoBegin, q, a)
<1>1. Types /\ events \in Seq(EventType) /\ Len(events) \in Nat
  BY DEF ChunkInv, Types
<1>2. /\ SameEvents(EndCapture, events)
      /\ \A i, b, e : IsChunk(events, i, b, e) => IsChunk(EndCapture, i, b, e)
      /\ stackPending => \E i, e : IsChunk(EndCapture, i, infoBegin, e)
  BY <1>1, EndCaptureOK DEF ChunkInv, FtraceInv
<1> QED BY <1>1, <1>2 DEF EventsKept, CaptureKept, SameEvents

LEMMA TimesStep ==
  ASSUME SortedInv, ChunkInv, TimesInv, [Next]_vars
  PROVE  TimesInv'
<1>1. Types /\ prevTime \in Int /\ events \in Seq(EventType) /\ Len(events) \in Nat
      /\ format \in Formats
  BY DEF ChunkInv, Types
<1>2. ASSUME NEW line \in Lines(format), FtraceOther(line) PROVE TimesInv'
  <2>1. /\ Grown(text', text, line) /\ line.kind = "other" /\ format = "FTRACE"
        /\ ~done /\ ~done' /\ format' = format
        /\ UNCHANGED <<events, prevTime, stackPending, infoBegin>>
    BY <1>1, <1>2, ReadGrows DEF FtraceOther, Read, ftraceVars
  <2>2. prevTime' = StepTime(prevTime, line)
    BY <2>1 DEF StepTime
  <2>3. EventsKept(events', events, Len(text) + 1)
    BY <1>1, <2>1 DEF EventsKept
  <2>4. CaptureKept(events', stackPending, infoBegin, stackPending', infoBegin')
    BY <2>1 DEF CaptureKept
  <2>5. CaptureBegins(prevTime, line, events, text, stackPending', infoBegin')
    BY <2>1 DEF CaptureBegins
  <2> QED BY <2>1, <2>2, <2>3, <2>4, <2>5, TimesGrow
<1>3. ASSUME NEW line \in Lines(format), FtraceDropped(line) PROVE TimesInv'
  <2>1. /\ Grown(text', text, line) /\ line.kind \in {"event", "stack"} /\ format = "FTRACE"
        /\ ~done /\ ~done' /\ format' = format /\ ~Accepts(line.time)
        /\ events' = EndCapture /\ prevTime' = prevTime
    <3>1. line.kind \in {"event", "stack"}
      BY <1>3 DEF FtraceDropped, Lines, OtherLine
    <3> QED BY <1>1, <1>3, <3>1, ReadGrows DEF FtraceDropped, Read
  <2>2. line.time \in Int /\ line.kind # "other"
    BY <1>1, <2>1, EventLine
  <2>3. prevTime' = StepTime(prevTime, line) /\ ~BelievedIn(prevTime, line)
    BY <1>1, <2>1, <2>2, AcceptsIs
  <2>4. /\ EventsKept(events', events, Len(text) + 1)
        /\ CaptureKept(events', stackPending, infoBegin, stackPending', infoBegin')
    BY <2>1, EndCaptureKeeps
  <2>5. CaptureBegins(prevTime, line, events, text, stackPending', infoBegin')
    BY <2>3 DEF CaptureBegins
  <2> QED BY <2>1, <2>3, <2>4, <2>5, TimesGrow
<1>4. ASSUME NEW line \in Lines(format), FtraceStack(line) PROVE TimesInv'
  <2>1. /\ Grown(text', text, line) /\ line.kind = "stack" /\ format = "FTRACE"
        /\ ~done /\ ~done' /\ format' = format /\ Accepts(line.time)
        /\ events' = EndCapture /\ prevTime' = Corrected(line.time)
        /\ stackPending' = (lastEventByCPU[line.cpu] # 0)
        /\ lastEventByCPU[line.cpu] # 0 => infoBegin' = Len(text) + 1
    BY <1>1, <1>4, ReadGrows DEF FtraceStack, Read, Here
  <2>2. line.time \in Int /\ line.cpu \in CPUs /\ line.kind # "other"
    BY <1>1, <2>1, EventLine
  <2>3. prevTime' = StepTime(prevTime, line)
    BY <1>1, <2>1, <2>2, AcceptsIs
  <2>4. /\ EventsKept(events', events, Len(text) + 1)
        /\ CaptureKept(events', stackPending, infoBegin, stackPending', infoBegin')
    BY <2>1, EndCaptureKeeps
  <2>5. ASSUME NEW k \in 1 .. Len(events), text[events[k].line].cpu = line.cpu
        PROVE  stackPending' /\ infoBegin' = Len(text) + 1
    <3>1. k <= lastEventByCPU[line.cpu]
      BY <2>1, <2>5 DEF ChunkInv, FtraceInv, LastKnown
    <3>2. lastEventByCPU[line.cpu] # 0
      BY <1>1, <3>1
    <3>3. stackPending'
      BY <2>1, <3>2, Zenon
    <3> QED BY <2>1, <3>2, <3>3
  <2>6. CaptureBegins(prevTime, line, events, text, stackPending', infoBegin')
    BY <2>5 DEF CaptureBegins
  <2> QED BY <2>1, <2>3, <2>4, <2>6, TimesGrow
<1>5. ASSUME NEW line \in Lines(format), FtraceEvent(line) PROVE TimesInv'
  <2>1. /\ Grown(text', text, line) /\ line.kind = "event" /\ format = "FTRACE"
        /\ ~done /\ ~done' /\ format' = format /\ Accepts(line.time)
        /\ events' = Append(EndCapture, NewEvent(line)) /\ prevTime' = Corrected(line.time)
    BY <1>1, <1>5, ReadGrows DEF FtraceEvent, Read
  <2>2. line.time \in Int /\ line.kind # "other"
    BY <1>1, <2>1, EventLine
  <2>3. prevTime' = StepTime(prevTime, line)
    BY <1>1, <2>1, <2>2, AcceptsIs
  <2>4. /\ EventsKept(EndCapture, events, Len(text) + 1)
        /\ CaptureKept(EndCapture, stackPending, infoBegin, stackPending', infoBegin')
    BY <2>1, EndCaptureKeeps
  <2>5. NewEvent(line) \in EventType /\ NewEvent(line).info = <<>>
        /\ NewEvent(line).line = Len(text) + 1
    <3>1. Corrected(line.time) \in Int
      BY <1>1, <2>1, <2>2, CorrectedIsLater
    <3> QED BY <1>1, <3>1, NewEventType DEF NewEvent, Here
  <2>6. EndCapture \in Seq(EventType) /\ Len(EndCapture) = Len(events)
    BY <1>1, EndCaptureKeepsEvents DEF SameEvents
  <2>7. /\ Len(events') = Len(events) + 1
        /\ \A k \in 1 .. Len(events) : events'[k] = EndCapture[k]
        /\ events'[Len(events) + 1].line = Len(text) + 1
        /\ \A i, b, e : IsChunk(events', i, b, e) <=> IsChunk(EndCapture, i, b, e)
    BY <2>1, <2>5, <2>6, AppendChunks
  <2>8. EventsKept(events', events, Len(text) + 1)
    <3>1. \A k \in 1 .. Len(events') : k <= Len(events) \/ events'[k].line = Len(text) + 1
      BY <1>1, <2>7
    <3> QED BY <1>1, <2>4, <2>7, <3>1 DEF EventsKept
  <2>9. CaptureKept(events', stackPending, infoBegin, stackPending', infoBegin')
    BY <2>4, <2>7 DEF CaptureKept
  <2>10. CaptureBegins(prevTime, line, events, text, stackPending', infoBegin')
    BY <2>1 DEF CaptureBegins
  <2> QED BY <2>1, <2>3, <2>8, <2>9, <2>10, TimesGrow
<1>6. ASSUME NEW line \in Lines(format), PerfOther(line) \/ PerfDropped(line) \/ PerfEvent(line)
      PROVE  TimesInv'
  <2>1. format = "PERF" /\ format' = format /\ done' = done /\ ~done
    BY <1>6 DEF PerfOther, PerfDropped, PerfEvent, Read
  <2> QED BY <2>1 DEF TimesInv
<1>7. CASE FixLastEvent
  <2>1. /\ UNCHANGED <<format, text, prevTime, infoBegin>> /\ ~stackPending'
        /\ format = "FTRACE" => events' = EndCapture
    BY <1>7 DEF FixLastEvent
  <2>2. ASSUME format = "FTRACE", NEW f, StacksKept(f, events, text, stackPending, infoBegin)
        PROVE  StacksKept(f, events', text, stackPending', infoBegin)
    <3>1. /\ EventsKept(events', events, 0)
          /\ CaptureKept(events', stackPending, infoBegin, stackPending', infoBegin)
      BY <2>1, <2>2, EndCaptureKeeps
    <3>2. SameEvents(events', events)
      BY <1>1, <2>1, <2>2, EndCaptureKeepsEvents
    <3> SUFFICES ASSUME NEW n \in 1 .. Len(text), text[n].kind = "stack",
                        BelievedIn(f[n - 1], text[n]), NEW k \in 1 .. Len(events'),
                        events'[k].line < n, text[events'[k].line].cpu = text[n].cpu
                 PROVE  \E i, e : IsChunk(events', i, n, e)
      BY DEF StacksKept
    <3>3. k \in 1 .. Len(events) /\ events[k].line < n /\ text[events[k].line].cpu = text[n].cpu
      BY <3>2 DEF SameEvents
    <3>4. (\E i, e : IsChunk(events, i, n, e)) \/ (stackPending /\ infoBegin = n)
      BY <2>2, <3>3 DEF StacksKept
    <3> QED BY <2>1, <3>1, <3>4 DEF EventsKept, CaptureKept
  <2> QED BY <2>1, <2>2 DEF TimesInv
<1>8. CASE UNCHANGED vars
  BY <1>8 DEF vars, ftraceVars, TimesInv
<1> QED BY <1>2, <1>3, <1>4, <1>5, <1>6, <1>7, <1>8 DEF Next, ParseLine

(* TimeAfter is the function of the times.                                    *)
LEMMA TimeAfterIsTimes ==
  ASSUME NEW f, IsTimes(f, text)
  PROVE  IsTimes(TimeAfter, text)
<1> DEFINE Body(g) == [n \in 0 .. Len(text) |->
                        IF n = 0 THEN VtlTimeMin
                        ELSE LET t == g[n - 1]
                             IN IF ~IsEvent(n) THEN t
                                ELSE IF text[n].time >= t THEN text[n].time
                                ELSE IF text[n].time + CorrDelta - t \in 0 .. Window - 1
                                  THEN text[n].time + CorrDelta
                                ELSE t]
<1>1. ASSUME NEW g PROVE IsTimes(g, text) <=> g = Body(g)
  BY DEF IsTimes, StepTime, IsEvent
<1>2. TimeAfter = CHOOSE g : g = Body(g)
  BY DEF TimeAfter
<1> HIDE DEF Body
<1>3. TimeAfter = Body(TimeAfter)
  BY <1>1, <1>2
<1> QED BY <1>1, <1>3

-----------------------------------------------------------------------------
(* Which events are committed: those with a time that is believed.            *)
Committed(f, evs, txt) ==
  \A n \in 1 .. Len(txt) :
    txt[n].kind = "event" /\ BelievedIn(f[n - 1], txt[n]) <=>
      \E k \in 1 .. Len(evs) : evs[k].line = n

CommitInv ==
  /\ format = "PERF" => \A n \in 1 .. Len(text) : text[n].kind # "stack"
  /\ \E f : IsTimes(f, text)
  /\ \A f : IsTimes(f, text) => f[Len(text)] = prevTime /\ Committed(f, events, text)

LEMMA CommitInit == Init => CommitInv
<1> SUFFICES ASSUME Init PROVE CommitInv
  OBVIOUS
<1>1. text = <<>> /\ Len(text) = 0 /\ prevTime = VtlTimeMin
  BY DEF Init
<1>2. IsTimes([n \in 0 .. 0 |-> VtlTimeMin], text)
  BY <1>1 DEF IsTimes
<1>3. \A n : n \notin 1 .. Len(text)
  BY <1>1
<1>4. ASSUME NEW f, IsTimes(f, text)
      PROVE  f[Len(text)] = prevTime /\ Committed(f, events, text)
  <2>1. f[0] = VtlTimeMin
    BY <1>1, <1>4 DEF IsTimes
  <2> QED BY <1>1, <1>3, <2>1 DEF Committed
<1> QED BY <1>2, <1>3, <1>4 DEF CommitInv

(* The events of r are those of s, and the event of line n if there is one.   *)
CommitsLine(r, s, n, new) ==
  \A m : (\E k \in 1 .. Len(r) : r[k].line = m) <=>
           (\E k \in 1 .. Len(s) : s[k].line = m) \/ (new /\ m = n)

LEMMA CommitsNone ==
  ASSUME NEW r, NEW s, SameEvents(r, s), NEW n
  PROVE  CommitsLine(r, s, n, FALSE)
  BY DEF SameEvents, CommitsLine

LEMMA CommitsOne ==
  ASSUME NEW s \in Seq(EventType), NEW s0, SameEvents(s, s0), NEW e \in EventType
  PROVE  CommitsLine(Append(s, e), s0, e.line, TRUE)
<1>1. /\ Len(Append(s, e)) = Len(s) + 1 /\ Len(s) \in Nat /\ Len(s) = Len(s0)
      /\ \A k \in 1 .. Len(s) : Append(s, e)[k] = s[k] /\ s[k].line = s0[k].line
      /\ Append(s, e)[Len(s) + 1] = e
  BY DEF SameEvents
<1>2. ASSUME NEW k \in 1 .. Len(s) + 1 PROVE k \in 1 .. Len(s) \/ k = Len(s) + 1
  BY <1>1
<1>3. 1 .. Len(s) \subseteq 1 .. Len(s) + 1 /\ Len(s) + 1 \in 1 .. Len(s) + 1
  BY <1>1
<1> QED BY <1>1, <1>2, <1>3 DEF CommitsLine

LEMMA CommitGrow ==
  ASSUME NEW s, NEW r, NEW t, NEW u, NEW line, Grown(u, t, line),
         NEW f, NEW g, \A n \in 0 .. Len(t) : g[n] = f[n],
         Committed(g, s, t), EventLines(s, Len(t)),
         NEW new, CommitsLine(r, s, Len(t) + 1, new),
         new <=> line.kind = "event" /\ BelievedIn(g[Len(t)], line)
  PROVE  Committed(f, r, u)
<1>1. Len(t) \in Nat /\ Len(u) = Len(t) + 1 /\ \A n \in 1 .. Len(t) : u[n] = t[n]
  BY DEF Grown
<1> SUFFICES ASSUME NEW n \in 1 .. Len(u)
             PROVE  u[n].kind = "event" /\ BelievedIn(f[n - 1], u[n]) <=>
                      (\E k \in 1 .. Len(s) : s[k].line = n) \/ (new /\ n = Len(t) + 1)
  BY DEF Committed, CommitsLine
<1>2. CASE n \in 1 .. Len(t)
  <2>1. n - 1 \in 0 .. Len(t) /\ u[n] = t[n] /\ n # Len(t) + 1
    BY <1>1, <1>2
  <2>2. t[n].kind = "event" /\ BelievedIn(g[n - 1], t[n]) <=> \E k \in 1 .. Len(s) : s[k].line = n
    BY <1>2 DEF Committed
  <2> QED BY <2>1, <2>2
<1>3. CASE n = Len(t) + 1
  <2>1. n - 1 = Len(t) /\ Len(t) \in 0 .. Len(t) /\ u[n] = line
    BY <1>1, <1>3 DEF Grown
  <2>2. ~\E k \in 1 .. Len(s) : s[k].line = n
    BY <1>1, <1>3 DEF EventLines
  <2> QED BY <1>3, <2>1, <2>2
<1> QED BY <1>1, <1>2, <1>3

(* One step of the invariant, of a line that is read.                         *)
LEMMA CommitRead ==
  ASSUME ChunkInv, CommitInv, format' = format,
         NEW line, Grown(text', text, line), format = "PERF" => line.kind # "stack",
         prevTime' = StepTime(prevTime, line),
         NEW new, CommitsLine(events', events, Len(text) + 1, new),
         new <=> line.kind = "event" /\ BelievedIn(prevTime, line)
  PROVE  CommitInv'
<1>1. EventLines(events, Len(text))
  BY DEF ChunkInv, FtraceInv, PerfInv, FtraceOK, ChunksOK, Types, Formats
<1>2. \E h : IsTimes(h, text')
  BY TimesExtend DEF CommitInv
<1>3. ASSUME NEW f, IsTimes(f, text')
      PROVE  f[Len(text')] = prevTime' /\ Committed(f, events', text')
  <2> DEFINE g == [n \in 0 .. Len(text) |-> f[n]]
  <2>1. /\ IsTimes(g, text) /\ \A n \in 0 .. Len(text) : g[n] = f[n]
        /\ f[Len(text')] = StepTime(g[Len(text)], line)
    BY <1>3, TimesRestrict
  <2> HIDE DEF g
  <2>2. g[Len(text)] = prevTime /\ Committed(g, events, text)
    BY <2>1 DEF CommitInv
  <2>3. new <=> line.kind = "event" /\ BelievedIn(g[Len(text)], line)
    BY <2>2
  <2>4. Committed(f, events', text')
    BY <1>1, <2>1, <2>2, <2>3, CommitGrow
  <2> QED BY <2>1, <2>2, <2>4
<1>4. ASSUME format = "PERF", NEW n \in 1 .. Len(text') PROVE text'[n].kind # "stack"
  <2>1. n \in 1 .. Len(text) \/ n = Len(text) + 1
    BY DEF Grown
  <2> QED BY <1>4, <2>1 DEF Grown, CommitInv
<1> QED BY <1>2, <1>3, <1>4 DEF CommitInv

LEMMA CommitStep ==
  ASSUME SortedInv, ChunkInv, CommitInv, [Next]_vars
  PROVE  CommitInv'
<1>1. Types /\ prevTime \in Int /\ events \in Seq(EventType) /\ format \in Formats
  BY DEF ChunkInv, Types
<1>2. SameEvents(events, events) /\ SameEvents(EndCapture, events)
      /\ SameEvents(SetPrevInfo(Here), events)
  BY <1>1, SameEventsRefl, EndCaptureKeepsEvents, SetPrevInfoKeepsEvents
<1>3. ASSUME NEW line \in Lines(format), line.kind # "other"
      PROVE  line.time \in Int /\ (format = "PERF" => line.kind # "stack")
  <2>1. format = "PERF" => line.kind # "stack"
    BY <1>3 DEF Lines, OtherLine
  <2> QED BY <1>1, <1>3, <2>1, EventLine DEF Lines, OtherLine
<1>4. ASSUME NEW line \in Lines(format), FtraceOther(line) \/ PerfOther(line)
      PROVE  CommitInv'
  <2>1. /\ Grown(text', text, line) /\ line.kind = "other" /\ format' = format
        /\ UNCHANGED <<events, prevTime>>
    BY <1>1, <1>4, ReadGrows DEF FtraceOther, PerfOther, Read
  <2>2. prevTime' = StepTime(prevTime, line)
    BY <2>1 DEF StepTime
  <2>3. CommitsLine(events', events, Len(text) + 1, FALSE)
    BY <1>2, <2>1, CommitsNone
  <2> QED BY <2>1, <2>2, <2>3, CommitRead
<1>5. ASSUME NEW line \in Lines(format), FtraceDropped(line) \/ PerfDropped(line)
      PROVE  CommitInv'
  <2>1. /\ Grown(text', text, line) /\ line.kind # "other" /\ format' = format
        /\ ~Accepts(line.time) /\ prevTime' = prevTime
        /\ events' = EndCapture \/ events' = events
    BY <1>1, <1>5, ReadGrows DEF FtraceDropped, PerfDropped, Read
  <2>2. /\ prevTime' = StepTime(prevTime, line) /\ ~BelievedIn(prevTime, line)
        /\ format = "PERF" => line.kind # "stack"
    BY <1>1, <1>3, <2>1, AcceptsIs
  <2>3. CommitsLine(events', events, Len(text) + 1, FALSE)
    BY <1>2, <2>1, CommitsNone
  <2> QED BY <2>1, <2>2, <2>3, CommitRead
<1>6. ASSUME NEW line \in Lines(format), FtraceStack(line)
      PROVE  CommitInv'
  <2>1. /\ Grown(text', text, line) /\ line.kind = "stack" /\ format' = format
        /\ Accepts(line.time) /\ prevTime' = Corrected(line.time)
        /\ events' = EndCapture /\ format = "FTRACE"
    BY <1>1, <1>6, ReadGrows DEF FtraceStack, Read
  <2>2. prevTime' = StepTime(prevTime, line)
    BY <1>1, <1>3, <2>1, AcceptsIs
  <2>3. CommitsLine(events', events, Len(text) + 1, FALSE)
    BY <1>2, <2>1, CommitsNone
  <2> QED BY <2>1, <2>2, <2>3, CommitRead
<1>7. ASSUME NEW line \in Lines(format), FtraceEvent(line) \/ PerfEvent(line)
      PROVE  CommitInv'
  <2>1. /\ Grown(text', text, line) /\ line.kind = "event" /\ format' = format
        /\ Accepts(line.time) /\ prevTime' = Corrected(line.time)
        /\ \E s \in {EndCapture, SetPrevInfo(Here)} : events' = Append(s, NewEvent(line))
    BY <1>1, <1>7, ReadGrows DEF FtraceEvent, PerfEvent, Read
  <2>2. line.time \in Int /\ (format = "PERF" => line.kind # "stack")
    BY <1>3, <2>1
  <2>3. prevTime' = StepTime(prevTime, line) /\ BelievedIn(prevTime, line)
    BY <1>1, <2>1, <2>2, AcceptsIs
  <2>4. PICK s \in {EndCapture, SetPrevInfo(Here)} : events' = Append(s, NewEvent(line))
    BY <2>1
  <2>5. SameEvents(s, events) /\ s \in Seq(EventType)
    BY <1>2, <2>4 DEF SameEvents
  <2>6. NewEvent(line) \in EventType /\ NewEvent(line).line = Len(text) + 1
    <3>1. Corrected(line.time) \in Int
      BY <1>1, <2>1, <2>2, CorrectedIsLater
    <3> QED BY <1>1, <3>1, NewEventType DEF NewEvent, Here
  <2>7. CommitsLine(events', events, Len(text) + 1, TRUE)
    BY <2>4, <2>5, <2>6, CommitsOne
  <2> QED BY <2>1, <2>2, <2>3, <2>7, CommitRead
<1>8. CASE FixLastEvent
  <2>1. /\ UNCHANGED <<format, text, prevTime>>
        /\ events' = EndCapture \/ events' = events \/ events' = SetPrevInfo(Here)
    BY <1>8 DEF FixLastEvent
  <2>2. SameEvents(events', events)
    BY <1>2, <2>1
  <2>3. \A f : Committed(f, events, text) => Committed(f, events', text)
    BY <2>2 DEF Committed, SameEvents
  <2> QED BY <2>1, <2>3 DEF CommitInv
<1>9. CASE UNCHANGED vars
  BY <1>9 DEF vars, CommitInv
<1> QED BY <1>4, <1>5, <1>6, <1>7, <1>8, <1>9 DEF Next, ParseLine

(* An event line is rejected, or its event is in the list.                    *)
LEMMA RejectedOrCommitted ==
  ASSUME Types, CommitInv, NEW n \in 1 .. Len(text), text[n].kind = "event"
  PROVE  Rejected(n) <=> ~\E k \in 1 .. Len(events) : events[k].line = n
<1>1. IsTimes(TimeAfter, text)
  BY TimeAfterIsTimes DEF CommitInv
<1>2. Committed(TimeAfter, events, text)
  BY <1>1 DEF CommitInv
<1>3. Believed(n) <=> BelievedIn(TimeAfter[n - 1], text[n])
  BY DEF Believed, BelievedIn
<1> QED BY <1>2, <1>3 DEF Committed, Rejected, IsEvent

LEMMA ChunksApart ==
  ASSUME ChunkInv, CommitInv, format = "FTRACE" \/ format = "PERF"
  PROVE  ChunksDoNotOverlap
<1>1. /\ Types /\ ChunksOK(events, Len(text)) /\ events \in Seq(EventType)
      /\ format = "FTRACE" => FtraceOK(events, text) /\ Len(text) \in Nat
      /\ DOMAIN events = 1 .. Len(events)
  BY DEF ChunkInv, FtraceInv, PerfInv, FtraceOK, ChunksOK
<1> SUFFICES ASSUME NEW c \in Chunks
             PROVE  /\ \A d \in Chunks \ {c} : Covered(c) \cap Covered(d) = {}
                    /\ \A n \in Covered(c) : n > events[c[1]].line
                    /\ \A i \in DOMAIN events : events[i].line \notin Covered(c)
                    /\ format = "FTRACE" => \A n \in Covered(c) : IsEvent(n) <=> n = c[2][1]
                    /\ format = "PERF" => \A n \in Covered(c) : IsEvent(n) => Rejected(n)
  BY DEF ChunksDoNotOverlap
<1>2. PICK i, b, e : IsChunk(events, i, b, e) /\ c = <<i, <<b, e>>>>
  BY <1>1, ChunksAre
<1>3. c[1] = i /\ c[2][1] = b /\ Covered(c) = b .. e - 1
  BY <1>2 DEF Covered
<1>4. b \in Int /\ e \in Int /\ i \in 1 .. Len(events)
  BY <1>1, <1>2, ChunkType
<1>5. /\ events[i].line < b /\ b < e
      /\ \A j \in 1 .. Len(events) : events[j].line \in Int
      /\ \A j \in 1 .. Len(events) : events[j].line < b \/ e <= events[j].line
  BY <1>1, <1>2, LineInt DEF ChunksOK, Placed
<1>6. ASSUME NEW d \in Chunks \ {c} PROVE Covered(c) \cap Covered(d) = {}
  <2>1. PICK j, x, y : IsChunk(events, j, x, y) /\ d = <<j, <<x, y>>>>
    BY <1>1, ChunksAre
  <2>2. Covered(d) = x .. y - 1 /\ x \in Int /\ y \in Int
    BY <1>1, <2>1, ChunkType DEF Covered
  <2>3. ~(i = j /\ b = x /\ e = y)
    BY <1>2, <2>1
  <2>4. e <= x \/ y <= b
    BY <1>1, <1>2, <2>1, <2>3 DEF ChunksOK, Apart
  <2> QED BY <1>3, <1>4, <2>2, <2>4
<1>7. \A n \in Covered(c) : n > events[c[1]].line
  BY <1>3, <1>4, <1>5
<1>8. \A j \in DOMAIN events : events[j].line \notin Covered(c)
  BY <1>1, <1>3, <1>4, <1>5
<1>9. ASSUME format = "FTRACE", NEW n \in Covered(c) PROVE IsEvent(n) <=> n = c[2][1]
  <2>1. text[b].kind = "stack" /\ \A m \in b + 1 .. e - 1 : text[m].kind = "other"
    BY <1>1, <1>2, <1>9 DEF FtraceOK, FtraceChunk
  <2>2. n = b \/ n \in b + 1 .. e - 1
    BY <1>3, <1>4
  <2> QED BY <1>3, <1>4, <2>1, <2>2 DEF IsEvent
<1>10. ASSUME format = "PERF", NEW n \in Covered(c), IsEvent(n) PROVE Rejected(n)
  <2>1. e <= Len(text) + 1 /\ 0 < b /\ Len(text) \in Nat
    BY <1>1, <1>2, <1>4, <1>5 DEF ChunksOK, Placed, EventLines, Types
  <2>2. n \in 1 .. Len(text) /\ ~\E k \in 1 .. Len(events) : events[k].line = n
    BY <1>1, <1>3, <1>4, <1>8, <2>1
  <2>3. text[n].kind = "event"
    <3>1. text[n] \in Lines("FTRACE") /\ text[n].kind # "stack"
      BY <1>1, <1>10, <2>2 DEF Types, CommitInv
    <3> QED BY <1>10, <3>1 DEF Lines, OtherLine, IsEvent
  <2> QED BY <1>1, <2>2, <2>3, RejectedOrCommitted
<1> QED BY <1>6, <1>7, <1>8, <1>9, <1>10

LEMMA ChunksBelong == ChunkInv /\ CommitInv => StackOfLastCommitted
<1> SUFFICES ASSUME ChunkInv, CommitInv PROVE StackOfLastCommitted
  OBVIOUS
<1>1. /\ Types /\ events \in Seq(EventType) /\ DOMAIN events = 1 .. Len(events)
      /\ (format = "FTRACE" \/ format = "PERF") /\ Len(text) \in Nat
      /\ ChunksOK(events, Len(text))
  BY DEF ChunkInv, FtraceInv, PerfInv, FtraceOK, Types, Formats
<1>2. ChunksDoNotOverlap
  BY <1>1, ChunksApart
<1>3. ASSUME format = "FTRACE", NEW c \in Chunks
      PROVE  OfSameCPU(c) /\ \A n \in Between(c) : Rejected(n)
  <2>1. PICK i, b, e : IsChunk(events, i, b, e) /\ c = <<i, <<b, e>>>>
    BY <1>1, ChunksAre
  <2>2. FtraceChunk(events, text, i, b, e) /\ FtraceOK(events, text)
    BY <1>3, <2>1 DEF ChunkInv, FtraceInv, FtraceOK
  <2>3. c[1] = i /\ c[2][1] = b
    BY <2>1
  <2>4. OfSameCPU(c)
    BY <2>2, <2>3 DEF FtraceChunk, OfSameCPU
  <2>5. ASSUME NEW n \in Between(c) PROVE Rejected(n)
    <3>1. /\ i \in 1 .. Len(events) /\ b \in Int /\ e \in Int
          /\ events[i].line \in 1 .. Len(text)
      BY <1>1, <2>1, ChunkType DEF ChunksOK, EventLines
    <3>2. b < e /\ e <= Len(text) + 1
      BY <1>1, <2>1 DEF ChunksOK, Placed
    <3>3. /\ n \in events[i].line + 1 .. b - 1
          /\ text[n].kind = "event" /\ text[n].cpu = text[b].cpu
      BY <2>3, <2>5 DEF Between
    <3>4. n \in 1 .. Len(text) /\ n < b /\ events[i].line < n
      BY <1>1, <3>1, <3>2, <3>3
    <3>5. ~\E k \in 1 .. Len(events) : events[k].line = n
      <4> SUFFICES ASSUME NEW k \in 1 .. Len(events), events[k].line = n PROVE FALSE
        OBVIOUS
      <4>1. k <= i
        BY <2>2, <3>3, <3>4 DEF FtraceChunk
      <4>2. k = i \/ events[k].line < events[i].line
        BY <1>1, <3>1, <4>1 DEF ChunksOK, EventLines
      <4> QED BY <3>1, <3>4, <4>2
    <3> QED BY <1>1, <3>3, <3>4, <3>5, RejectedOrCommitted
  <2> QED BY <2>4, <2>5
<1>4. ASSUME done, format = "PERF", NEW i \in DOMAIN events,
             NEW n \in events[i].line + 1 .. Len(text), ~IsEvent(n),
             \A m \in events[i].line + 1 .. n : IsEvent(m) => Rejected(m)
      PROVE  \E c \in Chunks : c[1] = i /\ n \in Covered(c)
  <2>1. /\ Followed(events, text, i) /\ text[n].kind = "other" /\ i \in 1 .. Len(events)
        /\ events[i].line \in 1 .. Len(text)
    BY <1>1, <1>4 DEF ChunkInv, PerfInv, IsEvent, ChunksOK, EventLines
  <2>2. ASSUME NEW j \in 1 .. Len(events), j > i PROVE events[j].line > n
    <3> DEFINE m == events[j].line
    <3>1. m \in 1 .. Len(text) /\ events[i].line < m
      BY <1>1, <2>1, <2>2 DEF ChunksOK, EventLines
    <3>2. text[m].kind = "event" /\ ~Rejected(m)
      <4>1. IsTimes(TimeAfter, text)
        BY TimeAfterIsTimes DEF CommitInv
      <4>2. Committed(TimeAfter, events, text)
        BY <4>1 DEF CommitInv
      <4>3. text[m].kind = "event"
        BY <3>1, <4>2 DEF Committed
      <4> QED BY <1>1, <3>1, <4>3, RejectedOrCommitted
    <3>3. m \notin events[i].line + 1 .. n
      BY <1>4, <3>2 DEF IsEvent
    <3> QED BY <1>1, <1>4, <2>1, <3>1, <3>3
  <2>3. PICK b, e : IsChunk(events, i, b, e) /\ b <= n /\ n < e
    BY <1>1, <1>4, <2>1, <2>2 DEF Followed
  <2>4. b \in Int /\ e \in Int /\ events[i].line \in Int
    BY <1>1, <2>1, <2>3, ChunkType, LineInt
  <2>5. <<i, <<b, e>>>> \in Chunks
    BY <1>1, <2>3, ChunksAre
  <2>6. n \in Covered(<<i, <<b, e>>>>) /\ <<i, <<b, e>>>>[1] = i
    BY <2>3, <2>4 DEF Covered
  <2> QED BY <2>5, <2>6
<1> QED BY <1>2, <1>3, <1>4 DEF StackOfLastCommitted

(* The text of a stack trace belongs to one event: that of a stack event to   *)
(* the most recent ordinary event of its CPU that was not rejected for its    *)
(* time, that of a perf event to the event it follows, in any file            *)
(* (parseLineFtrace(), attachStackChunk(), parseLinePerf(), fixLastEvent()).  *)
THEOREM StackTextBelongs == Spec => []StackOfLastCommitted
<1>1. Init => SortedInv /\ ChunkInv /\ CommitInv
  BY SortedInit, ChunkInit, CommitInit
<1>2. SortedInv /\ ChunkInv /\ CommitInv /\ [Next]_vars => (SortedInv /\ ChunkInv /\ CommitInv)'
  BY SortedStep, ChunkStep, CommitStep
<1>3. SortedInv /\ ChunkInv /\ CommitInv => StackOfLastCommitted
  BY ChunksBelong
<1> QED BY <1>1, <1>2, <1>3, PTL DEF Spec

-----------------------------------------------------------------------------
(* The stack events that are believed, and their text.                        *)
LEMMA TimesComplete ==
  ASSUME ChunkInv, TimesInv
  PROVE  StackTracesComplete
<1> SUFFICES ASSUME done, format = "FTRACE", NEW n \in DOMAIN text, text[n].kind = "stack",
                    Believed(n), CommittedOn(text[n].cpu, n) # {}
             PROVE  \E c \in Chunks :
                      /\ c[2][1] = n
                      /\ \A m \in n + 1 .. Len(text) :
                           m < c[2][2] <=> \A k \in n + 1 .. m : ~IsEvent(k)
                      /\ c[2][2] <= Len(text) + 1
  BY DEF StackTracesComplete
<1>1. /\ Types /\ FtraceOK(events, text) /\ ChunksOK(events, Len(text)) /\ ~stackPending
      /\ n \in 1 .. Len(text) /\ Len(text) \in Nat /\ events \in Seq(EventType)
  BY DEF ChunkInv, FtraceInv, FtraceOK, ChunksOK, TimesInv, Types
<1>2. IsTimes(TimeAfter, text)
  BY TimeAfterIsTimes DEF TimesInv
<1>3. StacksKept(TimeAfter, events, text, stackPending, infoBegin)
  BY <1>2 DEF TimesInv
<1>4. BelievedIn(TimeAfter[n - 1], text[n])
  BY DEF Believed, BelievedIn
<1>5. PICK k \in 1 .. Len(events) : events[k].line < n /\ text[events[k].line].cpu = text[n].cpu
  BY <1>1 DEF CommittedOn
<1>6. PICK i, e : IsChunk(events, i, n, e)
  BY <1>1, <1>3, <1>4, <1>5 DEF StacksKept
<1>7. /\ FtraceChunk(events, text, i, n, e) /\ n < e /\ e <= Len(text) + 1 /\ e \in Int
  BY <1>1, <1>6, ChunkType DEF FtraceOK, ChunksOK, Placed
<1>8. <<i, <<n, e>>>> \in Chunks
  BY <1>1, <1>6, ChunksAre
<1>9. ASSUME NEW m \in n + 1 .. Len(text)
      PROVE  m < e <=> \A l \in n + 1 .. m : ~IsEvent(l)
  <2>1. CASE m < e
    <3>1. \A l \in n + 1 .. m : l \in n + 1 .. e - 1
      BY <1>1, <1>7, <2>1
    <3> QED BY <1>7, <2>1, <3>1 DEF FtraceChunk, IsEvent
  <2>2. CASE ~(m < e)
    <3>1. e \in n + 1 .. m /\ e <= Len(text)
      BY <1>1, <1>7, <2>2
    <3> QED BY <1>7, <2>2, <3>1 DEF FtraceChunk, IsEvent
  <2> QED BY <2>1, <2>2
<1>10. <<i, <<n, e>>>>[2][1] = n /\ <<i, <<n, e>>>>[2][2] = e
  OBVIOUS
<1> QED BY <1>7, <1>8, <1>9, <1>10

(* Every stack event whose time is believed and that follows a committed      *)
(* event of its CPU has given an event its text, the lines up to the next     *)
(* event line, also when the file ends in it (parseLineFtrace(),              *)
(* parseLineBugFixup(), fixLastEvent()).                                      *)
THEOREM StackTextKept == Spec => []StackTracesComplete
<1>1. Init => SortedInv /\ ChunkInv /\ TimesInv
  BY SortedInit, ChunkInit, TimesInit
<1>2. SortedInv /\ ChunkInv /\ TimesInv /\ [Next]_vars => (SortedInv /\ ChunkInv /\ TimesInv)'
  BY SortedStep, ChunkStep, TimesStep
<1>3. SortedInv /\ ChunkInv /\ TimesInv => StackTracesComplete
  BY TimesComplete
<1> QED BY <1>1, <1>2, <1>3, PTL DEF Spec
=============================================================================

------------------------ MODULE LoadPipeline_proofs ------------------------
(***************************************************************************)
(* Theorems about LoadPipeline, for every number of slots, every content   *)
(* of the buffers, every batch size and confidence factor.                 *)
(***************************************************************************)
EXTENDS LoadPipeline, TLAPS

-----------------------------------------------------------------------------
(* Types.                                                                    *)

(* A thread's slot is a slot of the ring.                                     *)
LEMMA SlotInRing ==
  ASSUME NEW n \in Nat
  PROVE  (n % NBuf) \in Slots
  BY NBufAssumption DEF Slots

(* The four threads.                                                         *)
LEMMA ThreadsAre ==
  /\ "loader" \in Threads /\ "reader" \in Threads
  /\ "parser" \in Threads /\ "main" \in Threads
  BY DEF Threads

(* The fields of a buffer, and a buffer made of such fields.                  *)
LEMMA BufferFields ==
  ASSUME NEW b \in BufferType
  PROVE  /\ b.serial \in Nat /\ b.filePos \in Nat /\ b.nRead \in Nat
         /\ b.eof \in BOOLEAN /\ b.ev \in [Kinds -> Nat]
  BY DEF BufferType

LEMMA BufferMade ==
  ASSUME NEW n \in Nat, NEW p \in Nat, NEW r \in Nat, NEW e \in BOOLEAN,
         NEW v \in [Kinds -> Nat]
  PROVE  [serial |-> n, filePos |-> p, nRead |-> r, eof |-> e, ev |-> v] \in BufferType
  BY DEF BufferType

(* What a read() may leave in a buffer.                                      *)
LEMMA ContentFields ==
  ASSUME NEW c \in Contents
  PROVE  c.nRead \in Nat /\ c.ev \in [Kinds -> Nat]
  BY ContentsAssumption DEF ContentType

(* The start of every thread is in its program.                              *)
LEMMA InitPcOK == Init => PcOK
  <1> SUFFICES ASSUME Init PROVE PcOK
    OBVIOUS
  <1>1. pc = [t \in Threads |-> IF t = "loader" THEN "lockL"
                                ELSE IF t = "main" THEN "waitType" ELSE "lockT"]
    BY DEF Init
  <1>3. /\ pc["loader"] = "lockL" /\ pc["main"] = "waitType"
        /\ pc["reader"] = "lockT" /\ pc["parser"] = "lockT"
    BY <1>1, ThreadsAre
  <1>4. {"lockL", "waitType", "lockT"} \subseteq Labels
    BY DEF Labels, ParserLabels, TbufLabels, RingLabels, MainLabels
  <1>5. pc \in [Threads -> Labels]
    BY <1>1, <1>4
  <1> QED
    BY <1>3, <1>5 DEF PcOK, LoaderLabels, ParserLabels, TbufLabels, RingLabels, MainLabels

(* Init gives every variable a value of its type.                             *)
LEMMA InitTypeOK == Init => TypeOK
  <1> SUFFICES ASSUME Init PROVE TypeOK
    OBVIOUS
  <1>1. Nothing \in BufferType /\ NoEvents \in [Kinds -> Nat]
    BY DEF Nothing, BufferType, NoEvents
  <1>2. /\ buf \in [Slots -> BufferType] /\ list \in [Slots -> BufferType]
        /\ state \in [Slots -> {"EMPTY", "LOADED", "TOKENIZED"}]
        /\ isEmpty \in [Slots -> BOOLEAN]
    BY <1>1 DEF Init
  <1>3. /\ loadMutex \in [Slots -> {"loader", "reader", "parser", NoOne}]
        /\ tbufMutex \in [Slots -> {"reader", "parser", NoOne}]
        /\ tbufLive \in SUBSET Slots
    BY DEF Init
  <1>4. turn \in [Threads -> Nat] /\ eof \in [Threads -> BOOLEAN]
    BY DEF Init
  <1>5. /\ file \in Seq(BufferType) /\ parsed \in Seq(BufferType) /\ filePos \in Nat
        /\ nEvents \in [Kinds -> Nat]
    BY <1>1 DEF Init
  <1>6. /\ traceType = "UNKNOWN" /\ events = "null" /\ mainEvents = "null" /\ mainType = "UNKNOWN"
        /\ posted = 0 /\ received = 0 /\ indexReady = 0 /\ processed = 0 /\ endTimeIdx = 0
    BY DEF Init
  <1>7. typeEOF \in BOOLEAN /\ eventsEOF \in BOOLEAN
    BY Zenon DEF Init
  <1> QED
    BY <1>2, <1>3, <1>4, <1>5, <1>6, <1>7, InitPcOK DEF TypeOK

(* Every step leaves each thread in its own program.                          *)
LEMMA NextPcOK ==
  ASSUME PcOK, [Next]_vars
  PROVE  PcOK'
  <1> USE ThreadsAre DEF PcOK, Labels, LoaderLabels, ParserLabels, TbufLabels, RingLabels,
          MainLabels, At, Goto, GotoAndWake
  <1>1. CASE Loader
    BY <1>1 DEF Loader, BeginProduce, ReadFile, AccountRead, WaitForLoadBuffer,
                CompleteLoadBuffer
  <1>2. CASE Reader
    BY <1>2 DEF Reader, ReaderWaitEmpty, ReaderWaitLoaded, Tokenize, ReaderEndLoadBuffer,
                ReaderEndThreadBuffer, WaitForLoadBuffer, WaitForThreadBuffer,
                CompleteLoadBuffer, CompleteThreadBuffer
  <1>3. CASE ParserWaitFull \/ ParserWaitTokenized \/ ParseLines
    BY <1>3 DEF ParserWaitFull, ParserWaitTokenized, ParseLines, WaitForLoadBuffer,
                WaitForThreadBuffer
  <1>4. CASE ParserEndLoadBuffer \/ ParserEndThreadBuffer
    BY <1>4 DEF ParserEndLoadBuffer, ParserEndThreadBuffer, CompleteLoadBuffer,
                CompleteThreadBuffer
  <1>5. CASE DetermineTraceType
    BY <1>5 DEF DetermineTraceType, Announce
  <1>6. CASE GuessTraceType
    BY <1>6 DEF GuessTraceType, Announce
  <1>7. CASE PostBatch \/ PostLast \/ SendEOF \/ DeleteThreadBuffers
    BY <1>7 DEF PostBatch, PostLast, SendNextIndex, SendEOF, DeleteThreadBuffers
  <1>8. CASE Main
    BY <1>8 DEF Main, WaitForTraceType, ReadTraceType, WaitForNextBatch, ProcessBatch
  <1>9. CASE Terminated \/ UNCHANGED vars
    BY <1>9 DEF Terminated, vars, ctlVars
  <1> QED
    BY <1>1, <1>2, <1>3, <1>4, <1>5, <1>6, <1>7, <1>8, <1>9 DEF Next, Parser

(* Every step of every thread preserves the types.                            *)
LEMMA NextTypeOK == TypeOK /\ [Next]_vars => TypeOK'
  <1> SUFFICES ASSUME TypeOK, [Next]_vars PROVE TypeOK'
    OBVIOUS
  <1>p. PcOK'
    BY NextPcOK DEF TypeOK
  <1> USE <1>p, ThreadsAre DEF TypeOK, fileVars, loadVars, tbufVars, eventVars, typeVars,
          indexVars, mainVars
  <1>0. \A t \in Threads : Slot(t) \in Slots
    BY SlotInRing DEF Slot
  <1>n. Nothing \in BufferType
    BY DEF Nothing, BufferType, NoEvents
  <1>1. CASE BeginProduce
    BY <1>0, <1>1 DEF BeginProduce, WaitForLoadBuffer, NoOne
  <1>2. CASE ReadFile
    <2> DEFINE Made(c, e) == [serial |-> Len(file) + 1, filePos |-> filePos,
                              nRead |-> c.nRead, eof |-> e, ev |-> c.ev]
    <2>1. ASSUME NEW c \in Contents, NEW e \in BOOLEAN
          PROVE  Made(c, e) \in BufferType
      <3>1. Len(file) + 1 \in Nat
        OBVIOUS
      <3> QED
        BY <3>1, ContentFields, BufferMade
    <2>2. PICK c \in Contents, e \in BOOLEAN :
            buf' = [buf EXCEPT ![Slot("loader")] = Made(c, e)] /\ file' = Append(file, Made(c, e))
      BY <1>2 DEF ReadFile
    <2>3. PICK b \in BufferType : buf' = [buf EXCEPT ![Slot("loader")] = b] /\ file' = Append(file, b)
      BY <2>1, <2>2
    <2> QED
      BY <1>0, <1>2, <2>3, SMTT(30) DEF ReadFile, CompleteLoadBuffer, NoOne
  <1>3. CASE AccountRead
    <2> DEFINE n == buf[Slot("loader")].nRead
    <2>1. n \in Nat /\ buf[Slot("loader")].eof \in BOOLEAN
      BY <1>0, BufferFields
    <2>2. filePos' \in Nat
      <3>1. filePos' = filePos + n
        BY <1>3 DEF AccountRead
      <3> HIDE DEF n
      <3> QED
        BY <2>1, <3>1
    <2>3. turn' \in [Threads -> Nat]
      BY <1>3 DEF AccountRead
    <2>4. eof' \in [Threads -> BOOLEAN]
      BY <1>3, <2>1 DEF AccountRead
    <2> QED
      BY <1>3, <2>2, <2>3, <2>4 DEF AccountRead
  <1>4. CASE ReaderWaitEmpty
    BY <1>0, <1>4 DEF ReaderWaitEmpty, WaitForThreadBuffer, NoOne
  <1>5. CASE ReaderWaitLoaded
    <2>1. buf[Slot("reader")].eof \in BOOLEAN
      BY <1>0, BufferFields
    <2>2. loadMutex' \in [Slots -> {"loader", "reader", "parser", NoOne}]
      <3>1. \/ loadMutex' = [loadMutex EXCEPT ![Slot("reader")] = "reader"]
            \/ loadMutex' = loadMutex
        BY <1>5 DEF ReaderWaitLoaded, WaitForLoadBuffer
      <3> QED
        BY <1>0, <3>1
    <2>3. list' \in [Slots -> BufferType] /\ eof' \in [Threads -> BOOLEAN]
      BY <1>0, <1>n, <1>5, <2>1 DEF ReaderWaitLoaded
    <2> QED
      BY <1>5, <2>2, <2>3 DEF ReaderWaitLoaded
  <1>6. CASE Tokenize
    BY <1>0, <1>6 DEF Tokenize
  <1>7. CASE ReaderEndLoadBuffer
    BY <1>0, <1>7 DEF ReaderEndLoadBuffer, CompleteLoadBuffer, NoOne
  <1>8. CASE ReaderEndThreadBuffer
    BY <1>0, <1>8, SMTT(30) DEF ReaderEndThreadBuffer, CompleteThreadBuffer, NoOne
  <1>9. CASE ParserWaitFull
    BY <1>0, <1>9 DEF ParserWaitFull, WaitForThreadBuffer, NoOne
  <1>10. CASE ParserWaitTokenized
    BY <1>0, <1>10 DEF ParserWaitTokenized, WaitForLoadBuffer, NoOne
  <1>11. CASE ParseLines
    <2> DEFINE b  == buf[Slot("parser")]
               ev == list[Slot("parser")].ev
    <2>1. /\ b.serial \in Nat /\ b.filePos \in Nat /\ b.nRead \in Nat /\ b.eof \in BOOLEAN
          /\ ev \in [Kinds -> Nat]
      BY <1>0, BufferFields
    <2>2. parsed' \in Seq(BufferType)
      <3>1. [serial |-> b.serial, filePos |-> b.filePos, nRead |-> b.nRead, eof |-> b.eof,
             ev |-> ev] \in BufferType
        BY <2>1, BufferMade
      <3> QED
        BY <1>11, <3>1 DEF ParseLines
    <2>3. nEvents' \in [Kinds -> Nat]
      <3>1. \A k \in Kinds : nEvents[k] \in Nat /\ ev[k] \in Nat
        BY <2>1
      <3> HIDE DEF ev
      <3>2. PICK P \in SUBSET Kinds : nEvents' = [k \in Kinds |-> IF k \in P THEN nEvents[k] + ev[k]
                                                                      ELSE nEvents[k]]
        BY <1>11 DEF ParseLines, ev
      <3> QED
        BY <3>1, <3>2
    <2> QED
      BY <1>11, <2>1, <2>2, <2>3 DEF ParseLines
  <1>12. CASE ParserEndLoadBuffer
    BY <1>0, <1>12 DEF ParserEndLoadBuffer, CompleteLoadBuffer, NoOne
  <1>13. CASE ParserEndThreadBuffer
    BY <1>0, <1>n, <1>13 DEF ParserEndThreadBuffer, CompleteThreadBuffer, NoOne
  <1>14. CASE DetermineTraceType
    BY <1>14 DEF DetermineTraceType, Announce, Kinds
  <1>15. CASE GuessTraceType
    BY <1>15 DEF GuessTraceType, Announce, Kinds
  <1>16. CASE PostBatch \/ PostLast
    <2>1. EventsSize(events) \in Nat
      BY DEF EventsSize
    <2> QED
      BY <1>16, <2>1 DEF PostBatch, PostLast, SendNextIndex
  <1>17. CASE SendEOF
    BY <1>17 DEF SendEOF
  <1>18. CASE DeleteThreadBuffers
    BY <1>18 DEF DeleteThreadBuffers
  <1>19. CASE WaitForTraceType
    BY <1>19 DEF WaitForTraceType
  <1>20. CASE ReadTraceType
    BY <1>20 DEF ReadTraceType
  <1>21. CASE WaitForNextBatch
    BY <1>21 DEF WaitForNextBatch
  <1>22. CASE ProcessBatch
    <2>1. EventsSize(mainEvents) - 1 \in Int
      BY DEF EventsSize
    <2> QED
      BY <1>22, <2>1 DEF ProcessBatch
  <1>23. CASE Terminated \/ UNCHANGED vars
    BY <1>23 DEF Terminated, vars, ctlVars
  <1> QED
    BY <1>1, <1>2, <1>3, <1>4, <1>5, <1>6, <1>7, <1>8, <1>9, <1>10, <1>11, <1>12, <1>13,
       <1>14, <1>15, <1>16, <1>17, <1>18, <1>19, <1>20, <1>21, <1>22, <1>23
       DEF Next, Loader, Reader, Parser, Main

(* The variables always have the types of the C++ fields they stand for.      *)
THEOREM TypeCorrect == Spec => []TypeOK
  <1> QED
    BY InitTypeOK, NextTypeOK, PTL DEF Spec

-----------------------------------------------------------------------------
(* Locks.                                                                    *)

(* A thread that does not go on keeps its slot.                              *)
LEMMA SlotKept ==
  ASSUME NEW t \in Threads, turn'[t] = turn[t]
  PROVE  Slot(t)' = Slot(t)
  BY DEF Slot

(* A step of the main thread, or of the parser between two buffers: neither  *)
(* touches the ring nor enters or leaves it.                                 *)
OutsideRing ==
  /\ UNCHANGED <<loadVars, list, isEmpty, tbufMutex, turn>>
  /\ pc'["loader"] = pc["loader"] /\ pc'["reader"] = pc["reader"]
  /\ \/ pc'["parser"] = pc["parser"]
     \/ /\ pc["parser"] \notin {"sleepT", "lockL", "sleepL", "work", "endL", "endT"}
        /\ pc'["parser"] \notin {"sleepT", "lockL", "sleepL", "work", "endL", "endT"}

LEMMA StepsOutsideRing ==
  ASSUME PcOK,
         \/ DetermineTraceType \/ GuessTraceType \/ PostBatch \/ PostLast \/ SendEOF
         \/ DeleteThreadBuffers \/ Main \/ Terminated \/ UNCHANGED vars
  PROVE  OutsideRing
  <1> USE ThreadsAre DEF OutsideRing, PcOK, At, Goto, tbufVars, loadVars
  <1>1. CASE DetermineTraceType \/ GuessTraceType
    BY <1>1 DEF DetermineTraceType, GuessTraceType, Announce
  <1>2. CASE PostBatch \/ PostLast \/ SendEOF \/ DeleteThreadBuffers
    BY <1>2 DEF PostBatch, PostLast, SendNextIndex, SendEOF, DeleteThreadBuffers
  <1>3. CASE Main
    BY <1>3 DEF Main, WaitForTraceType, ReadTraceType, WaitForNextBatch, ProcessBatch
  <1>4. CASE Terminated \/ UNCHANGED vars
    BY <1>4 DEF Terminated, vars, ctlVars
  <1> QED
    BY <1>1, <1>2, <1>3, <1>4

(* Nobody holds a mutex at the start.                                        *)
LEMMA InitLock == Init => LockDiscipline
  <1> SUFFICES ASSUME Init PROVE LockDiscipline
    OBVIOUS
  <1>1. pc["loader"] = "lockL" /\ pc["reader"] = "lockT" /\ pc["parser"] = "lockT"
    BY ThreadsAre DEF Init
  <1>2. \A s \in Slots : /\ loadMutex[s] = "none" /\ tbufMutex[s] = "none"
                         /\ isEmpty[s] /\ state[s] = "EMPTY"
    BY DEF Init, NoOne
  <1>3. \A t \in {"loader", "reader", "parser"} : ~InLoadBuffer(t)
    BY <1>1 DEF InLoadBuffer
  <1>4. \A t \in {"reader", "parser"} : ~InThreadBuffer(t)
    BY <1>1 DEF InThreadBuffer
  <1>5. LoadMutexOwner /\ TbufMutexOwner
    BY <1>2, <1>3, <1>4 DEF LoadMutexOwner, TbufMutexOwner
  <1>6. StateOfOwner /\ FullIsTokenized
    BY <1>1, <1>2, <1>3, <1>4 DEF StateOfOwner, FullIsTokenized, At
  <1> QED
    BY <1>5, <1>6 DEF LockDiscipline

(* Only the owner of a mutex acts on what it guards.                         *)
LEMMA NextLock ==
  ASSUME TypeOK, LockDiscipline, [Next]_vars
  PROVE  LockDiscipline'
  <1>0. \A t \in Threads : Slot(t) \in Slots
    BY SlotInRing DEF Slot, TypeOK
  <1>p. PcOK
    BY DEF TypeOK
  <1> USE ThreadsAre, <1>0 DEF LockDiscipline, LoadMutexOwner, TbufMutexOwner, StateOfOwner, FullIsTokenized,
          InLoadBuffer, InThreadBuffer, At, Goto, GotoAndWake
  <1>t. /\ DOMAIN pc = Threads /\ DOMAIN loadMutex = Slots /\ DOMAIN tbufMutex = Slots
        /\ DOMAIN state = Slots /\ DOMAIN isEmpty = Slots
        /\ DOMAIN turn = Threads
    BY DEF TypeOK, PcOK
  <1>1. CASE BeginProduce
    <2>1. \A t \in Threads : Slot(t)' = Slot(t)
      BY <1>1, SlotKept DEF BeginProduce
    <2> QED
      BY <1>1, <1>t, <2>1 DEF BeginProduce, WaitForLoadBuffer, NoOne, tbufVars
  <1>2. CASE ReadFile
    <2>1. \A t \in Threads : Slot(t)' = Slot(t)
      BY <1>2, SlotKept DEF ReadFile
    <2> QED
      BY <1>2, <1>t, <2>1 DEF ReadFile, CompleteLoadBuffer, NoOne, tbufVars
  <1>3. CASE AccountRead
    <2>1. \A t \in Threads \ {"loader"} : Slot(t)' = Slot(t)
      BY <1>3, <1>t, SlotKept DEF AccountRead
    <2> QED
      BY <1>3, <1>t, <2>1 DEF AccountRead, loadVars, tbufVars
  <1>4. CASE ReaderWaitEmpty
    <2>1. \A t \in Threads : Slot(t)' = Slot(t)
      BY <1>4, SlotKept DEF ReaderWaitEmpty
    <2> QED
      BY <1>4, <1>t, <2>1 DEF ReaderWaitEmpty, WaitForThreadBuffer, NoOne, loadVars
  <1>5. CASE ReaderWaitLoaded
    <2>1. \A t \in Threads : Slot(t)' = Slot(t)
      BY <1>5, SlotKept DEF ReaderWaitLoaded
    <2> QED
      BY <1>5, <1>t, <2>1 DEF ReaderWaitLoaded, WaitForLoadBuffer, NoOne
  <1>6. CASE Tokenize
    <2>1. \A t \in Threads : Slot(t)' = Slot(t)
      BY <1>6, SlotKept DEF Tokenize
    <2> QED
      BY <1>6, <1>t, <2>1 DEF Tokenize, loadVars
  <1>7. CASE ReaderEndLoadBuffer
    <2>1. \A t \in Threads : Slot(t)' = Slot(t)
      BY <1>7, SlotKept DEF ReaderEndLoadBuffer
    <2> QED
      BY <1>7, <1>t, <2>1 DEF ReaderEndLoadBuffer, CompleteLoadBuffer, NoOne, tbufVars
  <1>8. CASE ReaderEndThreadBuffer
    <2>1. \A t \in Threads \ {"reader"} : Slot(t)' = Slot(t)
      BY <1>8, <1>t, SlotKept DEF ReaderEndThreadBuffer, CompleteThreadBuffer
    <2> QED
      BY <1>8, <1>t, <2>1 DEF ReaderEndThreadBuffer, CompleteThreadBuffer, NoOne, loadVars
  <1>9. CASE ParserWaitFull
    <2>1. \A t \in Threads : Slot(t)' = Slot(t)
      BY <1>9, SlotKept DEF ParserWaitFull
    <2> QED
      BY <1>9, <1>t, <2>1 DEF ParserWaitFull, WaitForThreadBuffer, NoOne, loadVars
  <1>10. CASE ParserWaitTokenized
    <2>1. \A t \in Threads : Slot(t)' = Slot(t)
      BY <1>10, SlotKept DEF ParserWaitTokenized
    <2> QED
      BY <1>10, <1>t, <2>1 DEF ParserWaitTokenized, WaitForLoadBuffer, NoOne, tbufVars
  <1>11. CASE ParseLines
    <2>1. \A t \in Threads : Slot(t)' = Slot(t)
      BY <1>11, SlotKept DEF ParseLines
    <2> QED
      BY <1>11, <1>t, <2>1 DEF ParseLines, loadVars, tbufVars
  <1>12. CASE ParserEndLoadBuffer
    <2>1. \A t \in Threads : Slot(t)' = Slot(t)
      BY <1>12, SlotKept DEF ParserEndLoadBuffer
    <2> QED
      BY <1>12, <1>t, <2>1 DEF ParserEndLoadBuffer, CompleteLoadBuffer, NoOne, tbufVars
  <1>13. CASE ParserEndThreadBuffer
    <2>1. \A t \in Threads \ {"parser"} : Slot(t)' = Slot(t)
      BY <1>13, <1>t, SlotKept DEF ParserEndThreadBuffer, CompleteThreadBuffer
    <2> QED
      BY <1>13, <1>t, <2>1 DEF ParserEndThreadBuffer, CompleteThreadBuffer, NoOne, loadVars
  <1>14. CASE OutsideRing
    <2>1. \A t \in Threads : Slot(t)' = Slot(t)
      BY <1>14, SlotKept DEF OutsideRing
    <2>2. /\ \A t \in {"loader", "reader", "parser"} : InLoadBuffer(t)' <=> InLoadBuffer(t)
          /\ \A t \in {"reader", "parser"} : InThreadBuffer(t)' <=> InThreadBuffer(t)
          /\ pc'["parser"] = "endT" <=> pc["parser"] = "endT"
      BY <1>14 DEF OutsideRing
    <2> QED
      BY <1>14, <1>t, <2>1, <2>2 DEF OutsideRing, loadVars
  <1> QED
    BY <1>1, <1>2, <1>3, <1>4, <1>5, <1>6, <1>7, <1>8, <1>9, <1>10, <1>11, <1>12, <1>13, <1>14,
       <1>p, StepsOutsideRing DEF Next, Loader, Reader, Parser

(* At every step the locks are held by the threads that work under them.     *)
THEOREM LocksCorrect == Spec => []LockDiscipline
  <1>1. Init => TypeOK /\ LockDiscipline
    BY InitTypeOK, InitLock
  <1>2. TypeOK /\ LockDiscipline /\ [Next]_vars => (TypeOK /\ LockDiscipline)'
    BY NextTypeOK, NextLock
  <1> QED
    BY <1>1, <1>2, PTL DEF Spec

-----------------------------------------------------------------------------
(* Lines.                                                                    *)

(* Both facts about lines, with the locks they rest on.                      *)
LinesInv == TypeOK /\ LockDiscipline /\ LinesOnlyInFullBuffer /\ LineBytesLive

(* At the start there are no lines.                                          *)
LEMMA InitLines == Init => LinesInv
  <1> SUFFICES ASSUME Init PROVE LinesInv
    OBVIOUS
  <1>1. \A s \in Slots : list[s] = Nothing
    BY DEF Init
  <1> QED
    BY <1>1, InitTypeOK, InitLock DEF LinesInv, LinesOnlyInFullBuffer, LineBytesLive

(* The loader overwrites a buffer when nobody has lines in it any more.      *)
LEMMA NextLines ==
  ASSUME LinesInv, [Next]_vars
  PROVE  LinesOnlyInFullBuffer' /\ LineBytesLive'
  <1>0. \A t \in Threads : Slot(t) \in Slots
    BY SlotInRing DEF Slot, LinesInv, TypeOK
  <1>p. PcOK
    BY DEF LinesInv, TypeOK
  <1>t. /\ DOMAIN pc = Threads /\ DOMAIN list = Slots /\ DOMAIN isEmpty = Slots
        /\ DOMAIN buf = Slots /\ DOMAIN turn = Threads
    BY DEF LinesInv, TypeOK, PcOK
  <1>l. /\ LoadMutexOwner /\ TbufMutexOwner /\ StateOfOwner /\ FullIsTokenized
        /\ LinesOnlyInFullBuffer /\ LineBytesLive
    BY DEF LinesInv, LockDiscipline
  <1> USE ThreadsAre, <1>0, <1>t, <1>l DEF LinesOnlyInFullBuffer, LineBytesLive,
          InLoadBuffer, InThreadBuffer, At, Goto, GotoAndWake
  <1>1. CASE BeginProduce
    <2>1. \A t \in Threads : Slot(t)' = Slot(t)
      BY <1>1, SlotKept DEF BeginProduce
    <2> QED
      BY <1>1, <2>1 DEF BeginProduce, WaitForLoadBuffer, tbufVars
  <1>2. CASE ReadFile
    <2>1. \A t \in Threads : Slot(t)' = Slot(t)
      BY <1>2, SlotKept DEF ReadFile
    <2>2. list[Slot("loader")] # Nothing => At("parser", "endT") /\ Slot("parser") = Slot("loader")
      BY <1>2 DEF ReadFile, StateOfOwner, LoadMutexOwner, FullIsTokenized
    <2>3. \A s \in Slots \ {Slot("loader")} : buf'[s] = buf[s]
      BY <1>2 DEF ReadFile
    <2>4. list' = list /\ isEmpty' = isEmpty
      BY <1>2 DEF ReadFile, tbufVars
    <2>5. /\ pc["reader"] \in {"endL", "endT"} => pc'["reader"] = pc["reader"]
          /\ pc'["parser"] = pc["parser"]
      BY <1>2 DEF ReadFile, CompleteLoadBuffer
    <2> QED
      BY <2>1, <2>2, <2>3, <2>4, <2>5
  <1>3. CASE AccountRead
    <2>1. \A t \in Threads \ {"loader"} : Slot(t)' = Slot(t)
      BY <1>3, SlotKept DEF AccountRead
    <2> QED
      BY <1>3, <2>1 DEF AccountRead, loadVars, tbufVars, StateOfOwner, LoadMutexOwner, TbufMutexOwner
  <1>4. CASE ReaderWaitEmpty
    <2>1. \A t \in Threads : Slot(t)' = Slot(t)
      BY <1>4, SlotKept DEF ReaderWaitEmpty
    <2> QED
      BY <1>4, <2>1 DEF ReaderWaitEmpty, WaitForThreadBuffer, loadVars, StateOfOwner, LoadMutexOwner, TbufMutexOwner
  <1>5. CASE ReaderWaitLoaded
    <2>1. \A t \in Threads : Slot(t)' = Slot(t)
      BY <1>5, SlotKept DEF ReaderWaitLoaded
    <2> QED
      BY <1>5, <2>1 DEF ReaderWaitLoaded, WaitForLoadBuffer, StateOfOwner, LoadMutexOwner, TbufMutexOwner
  <1>6. CASE Tokenize
    <2>1. \A t \in Threads : Slot(t)' = Slot(t)
      BY <1>6, SlotKept DEF Tokenize
    <2> QED
      BY <1>6, <2>1 DEF Tokenize, loadVars, StateOfOwner, LoadMutexOwner, TbufMutexOwner
  <1>7. CASE ReaderEndLoadBuffer
    <2>1. \A t \in Threads : Slot(t)' = Slot(t)
      BY <1>7, SlotKept DEF ReaderEndLoadBuffer
    <2> QED
      BY <1>7, <2>1 DEF ReaderEndLoadBuffer, CompleteLoadBuffer, tbufVars, StateOfOwner, LoadMutexOwner, TbufMutexOwner
  <1>8. CASE ReaderEndThreadBuffer
    <2>1. \A t \in Threads \ {"reader"} : Slot(t)' = Slot(t)
      BY <1>8, SlotKept DEF ReaderEndThreadBuffer, CompleteThreadBuffer
    <2> QED
      BY <1>8, <2>1 DEF ReaderEndThreadBuffer, CompleteThreadBuffer, loadVars, StateOfOwner, LoadMutexOwner, TbufMutexOwner
  <1>9. CASE ParserWaitFull
    <2>1. \A t \in Threads : Slot(t)' = Slot(t)
      BY <1>9, SlotKept DEF ParserWaitFull
    <2> QED
      BY <1>9, <2>1 DEF ParserWaitFull, WaitForThreadBuffer, loadVars, StateOfOwner, LoadMutexOwner, TbufMutexOwner
  <1>10. CASE ParserWaitTokenized
    <2>1. \A t \in Threads : Slot(t)' = Slot(t)
      BY <1>10, SlotKept DEF ParserWaitTokenized
    <2> QED
      BY <1>10, <2>1 DEF ParserWaitTokenized, WaitForLoadBuffer, tbufVars, StateOfOwner, LoadMutexOwner, TbufMutexOwner
  <1>11. CASE ParseLines
    <2>1. \A t \in Threads : Slot(t)' = Slot(t)
      BY <1>11, SlotKept DEF ParseLines
    <2> QED
      BY <1>11, <2>1 DEF ParseLines, loadVars, tbufVars, StateOfOwner, LoadMutexOwner, TbufMutexOwner
  <1>12. CASE ParserEndLoadBuffer
    <2>1. \A t \in Threads : Slot(t)' = Slot(t)
      BY <1>12, SlotKept DEF ParserEndLoadBuffer
    <2> QED
      BY <1>12, <2>1 DEF ParserEndLoadBuffer, CompleteLoadBuffer, tbufVars, StateOfOwner, LoadMutexOwner, TbufMutexOwner
  <1>13. CASE ParserEndThreadBuffer
    <2>1. \A t \in Threads \ {"parser"} : Slot(t)' = Slot(t)
      BY <1>13, SlotKept DEF ParserEndThreadBuffer, CompleteThreadBuffer
    <2> QED
      BY <1>13, <2>1 DEF ParserEndThreadBuffer, CompleteThreadBuffer, loadVars, StateOfOwner, LoadMutexOwner, TbufMutexOwner
  <1>14. CASE OutsideRing
    <2>1. \A t \in Threads : Slot(t)' = Slot(t)
      BY <1>14, SlotKept DEF OutsideRing
    <2> QED
      BY <1>14, <2>1 DEF OutsideRing, loadVars
  <1> QED
    BY <1>1, <1>2, <1>3, <1>4, <1>5, <1>6, <1>7, <1>8, <1>9, <1>10, <1>11, <1>12, <1>13, <1>14,
       <1>p, StepsOutsideRing DEF Next, Loader, Reader, Parser

(* The lines of a ThreadBuffer always point into bytes that are still there. *)
THEOREM LinesCorrect == Spec => []LinesPointIntoLiveBuffer
  <1>1. LinesInv /\ [Next]_vars => LinesInv'
    BY NextTypeOK, NextLock, NextLines DEF LinesInv
  <1>2. LinesInv => LinesPointIntoLiveBuffer
    BY DEF LinesInv, LinesPointIntoLiveBuffer
  <1> QED
    BY InitLines, <1>1, <1>2, PTL DEF Spec

-----------------------------------------------------------------------------
(* The trace type and what the main thread reads.                            *)

(* The factor by which a type must dominate makes it the larger one.         *)
LEMMA DominatesIsMore ==
  ASSUME NEW k \in Kinds, NEW o \in Kinds, nEvents \in [Kinds -> Nat], Dominates(k, o)
  PROVE  nEvents[k] > nEvents[o]
  <1> DEFINE m == AtLeastOne(nEvents[o])
  <1>1. m \in Nat /\ m >= nEvents[o]
    BY DEF AtLeastOne
  <1>2. PICK d \in Nat : Confidence = d + 1
    <2>1. Confidence - 1 \in Nat /\ Confidence = (Confidence - 1) + 1
      BY ConfidenceAssumption
    <2> QED
      BY <2>1
  <1>3. nEvents[k] > m * Confidence
    BY DEF Dominates
  <1> HIDE DEF m
  <1>4. m * (d + 1) = (m * d) + m /\ m * d \in Nat
    BY <1>1, <1>2
  <1> QED
    BY <1>1, <1>2, <1>3, <1>4

(* Before the announcement there is no type and no list; after it there are, *)
(* and an unknown type was announced at the end of the file only.            *)
TypeDecided ==
  /\ ~typeEOF => traceType = "UNKNOWN" /\ events = "null"
  /\ typeEOF => events \in Kinds
  /\ traceType \in Kinds => events = traceType
  /\ typeEOF /\ traceType = "UNKNOWN" => pc["parser"] \in {"lastPost", "sendEOF", "delete", "done"}
  /\ pc["parser"] = "type" => traceType = "UNKNOWN"
  /\ typeEOF /\ pc["parser"] = "guess" =>
       \/ traceType = "FTRACE" /\ nEvents["FTRACE"] > nEvents["PERF"]
       \/ traceType = "PERF" /\ nEvents["PERF"] > nEvents["FTRACE"]

(* What main has read follows what the parser has announced and posted.      *)
MainFollows ==
  /\ pc["main"] = "readType" => typeEOF
  /\ pc["main"] \in {"waitBatch", "sleepBatch", "process"} => mainEvents # "null"
  /\ mainEvents # "null" => typeEOF /\ mainEvents = events /\ mainType = traceType
  /\ posted <= EventsSize(events)
  /\ processed <= indexReady /\ indexReady <= posted

TypeInv == TypeOK /\ TypeDecided /\ MainFollows /\ MainSleeperHasReason

(* Nothing is announced or posted at the start.                              *)
LEMMA InitType == Init => TypeInv
  <1> SUFFICES ASSUME Init PROVE TypeInv
    OBVIOUS
  <1>1. pc["parser"] = "lockT" /\ pc["main"] = "waitType"
    BY ThreadsAre DEF Init
  <1>2. /\ traceType = "UNKNOWN" /\ events = "null" /\ ~typeEOF
        /\ posted = 0 /\ received = 0 /\ mainEvents = "null" /\ mainType = "UNKNOWN"
        /\ indexReady = 0 /\ processed = 0
    BY DEF Init
  <1> QED
    BY <1>1, <1>2, InitTypeOK
       DEF TypeInv, TypeDecided, MainFollows, MainSleeperHasReason, EventsSize, Kinds, At

(* Steps in the ring: only ParseLines touches what TypeInv is about, and the *)
(* parser never stops at an announcement there.                              *)
LEMMA RingKeepsType ==
  ASSUME TypeInv, Loader \/ Reader \/ ParserWaitFull \/ ParserWaitTokenized \/ ParseLines
                  \/ ParserEndLoadBuffer \/ ParserEndThreadBuffer
  PROVE  TypeDecided' /\ MainFollows' /\ MainSleeperHasReason' /\ UNCHANGED <<traceType, events>>
  <1>1. UNCHANGED <<typeVars, indexVars, mainVars>>
    BY DEF Loader, BeginProduce, ReadFile, AccountRead,
           Reader, ReaderWaitEmpty, ReaderWaitLoaded, Tokenize, ReaderEndLoadBuffer,
           ReaderEndThreadBuffer, ParserWaitFull, ParserWaitTokenized, ParseLines,
           ParserEndLoadBuffer, ParserEndThreadBuffer
  <1>2. PcOK /\ DOMAIN pc = Threads
    BY DEF TypeInv, TypeOK, PcOK
  <1> USE ThreadsAre, <1>2 DEF At, Goto, GotoAndWake
  <1>3. CASE Loader \/ Reader
    <2>1. /\ pc'["main"] = pc["main"] /\ nEvents' = nEvents
          /\ \/ pc'["parser"] = pc["parser"]
             \/ pc["parser"] \in {"sleepL", "sleepT"} /\ pc'["parser"] \in {"lockL", "lockT"}
      BY <1>3 DEF Loader, BeginProduce, ReadFile, AccountRead, Reader, ReaderWaitEmpty,
           ReaderWaitLoaded, Tokenize, ReaderEndLoadBuffer, ReaderEndThreadBuffer, WaitForLoadBuffer,
           WaitForThreadBuffer, CompleteLoadBuffer, CompleteThreadBuffer, eventVars
    <2> QED
      BY <1>1, <2>1 DEF TypeInv, TypeDecided, MainFollows, MainSleeperHasReason, EventsSize,
           typeVars, indexVars, mainVars
  <1>4. CASE ParserWaitFull \/ ParserWaitTokenized \/ ParserEndLoadBuffer
    <2>1. /\ pc'["main"] = pc["main"] /\ nEvents' = nEvents
          /\ pc["parser"] \in {"lockT", "lockL", "endL"}
          /\ pc'["parser"] \in {"sleepT", "lockL", "sleepL", "work", "endT"}
      BY <1>4 DEF ParserWaitFull, ParserWaitTokenized, ParserEndLoadBuffer, WaitForLoadBuffer,
           WaitForThreadBuffer, CompleteLoadBuffer, eventVars
    <2> QED
      BY <1>1, <2>1 DEF TypeInv, TypeDecided, MainFollows, MainSleeperHasReason, EventsSize,
           typeVars, indexVars, mainVars
  <1>5. CASE ParserEndThreadBuffer
    <2>1. /\ pc'["main"] = pc["main"] /\ nEvents' = nEvents /\ pc["parser"] = "endT"
          /\ pc'["parser"] = IF traceType = "UNKNOWN" THEN "type"
                             ELSE IF eof["parser"] THEN "lastPost" ELSE "post"
      BY <1>5 DEF ParserEndThreadBuffer, CompleteThreadBuffer, eventVars
    <2> QED
      BY <1>1, <2>1 DEF TypeInv, TypeDecided, MainFollows, MainSleeperHasReason, EventsSize,
           typeVars, indexVars, mainVars
  <1>6. CASE ParseLines
    <2>1. pc'["main"] = pc["main"] /\ pc["parser"] = "work" /\ pc'["parser"] = "endL"
      BY <1>6 DEF ParseLines
    <2>2. \A k \in Kinds : nEvents[k] \in Nat /\ nEvents'[k] \in Nat /\ nEvents'[k] >= nEvents[k]
      <3> DEFINE ev == list[Slot("parser")].ev
      <3>1. ev \in [Kinds -> Nat] /\ nEvents \in [Kinds -> Nat]
        BY SlotInRing, BufferFields DEF TypeInv, TypeOK, Slot
      <3>2. PICK P \in SUBSET Kinds : nEvents' = [k \in Kinds |-> IF k \in P THEN nEvents[k] + ev[k]
                                                                      ELSE nEvents[k]]
        BY <1>6 DEF ParseLines, TypeInv, TypeOK
      <3> HIDE DEF ev
      <3> QED
        BY <3>1, <3>2
    <2>3. posted \in Nat /\ EventsSize(events)' >= EventsSize(events) /\ posted <= EventsSize(events)'
      BY <1>1, <2>2 DEF EventsSize, TypeInv, TypeOK, MainFollows, typeVars
    <2> QED
      BY <1>1, <2>1, <2>3 DEF TypeInv, TypeDecided, MainFollows, MainSleeperHasReason,
           typeVars, indexVars, mainVars
  <1> QED
    BY <1>1, <1>3, <1>4, <1>5, <1>6 DEF typeVars

(* An announcement, of a type that was not announced as another one before.  *)
LEMMA AnnounceKeepsType ==
  ASSUME TypeInv,
         NEW type \in Kinds \cup {"UNKNOWN"}, NEW evs \in Kinds, NEW next,
         Announce(type, evs, next),
         UNCHANGED <<eventVars, indexVars, mainVars>>,
         ~typeEOF \/ (traceType = type /\ events = evs),
         type \in Kinds => evs = type,
         \/ next = "lastPost"
         \/ /\ next \in {"guess", "post"}
            /\ \/ type = "FTRACE" /\ nEvents["FTRACE"] > nEvents["PERF"]
               \/ type = "PERF" /\ nEvents["PERF"] > nEvents["FTRACE"]
  PROVE  /\ TypeDecided' /\ MainFollows' /\ MainSleeperHasReason'
         /\ typeEOF => UNCHANGED <<traceType, events>>
  <1>1. /\ TypeDecided /\ MainFollows /\ MainSleeperHasReason
        /\ PcOK /\ nEvents \in [Kinds -> Nat] /\ posted \in Nat
    BY DEF TypeInv, TypeOK
  <1>2. /\ traceType' = type /\ events' = evs /\ typeEOF'
        /\ pc'["parser"] = next
        /\ pc'["main"] = IF pc["main"] = "sleepType" THEN "waitType" ELSE pc["main"]
    BY <1>1, ThreadsAre DEF Announce, PcOK
  <1>3. UNCHANGED <<nEvents, posted, received, eventsEOF, mainEvents, mainType, indexReady, processed>>
    BY DEF eventVars, indexVars, mainVars
  <1>4. "FTRACE" \in Kinds /\ "PERF" \in Kinds /\ "UNKNOWN" \notin Kinds /\ "null" \notin Kinds
    BY DEF Kinds
  <1>5. TypeDecided'
    BY <1>1, <1>2, <1>3, <1>4 DEF TypeDecided
  <1>6. posted <= EventsSize(events)'
    <2>1. CASE typeEOF
      BY <1>1, <1>2, <1>3, <2>1 DEF MainFollows, EventsSize
    <2>2. CASE ~typeEOF
      <3>1. posted <= 0
        BY <1>1, <1>4, <2>2 DEF MainFollows, TypeDecided, EventsSize
      <3>2. EventsSize(events)' = nEvents[evs] /\ nEvents[evs] \in Nat
        BY <1>1, <1>2, <1>3 DEF EventsSize
      <3> QED
        BY <1>1, <3>1, <3>2
    <2> QED
      BY <2>1, <2>2
  <1>7. MainFollows'
    BY <1>1, <1>2, <1>3, <1>6 DEF MainFollows
  <1>8. MainSleeperHasReason'
    BY <1>1, <1>2, <1>3 DEF MainSleeperHasReason, At
  <1> QED
    BY <1>1, <1>2, <1>5, <1>7, <1>8

(* The parser's steps between two buffers.                                   *)
LEMMA ParserKeepsType ==
  ASSUME TypeInv, DetermineTraceType \/ GuessTraceType \/ PostBatch \/ PostLast \/ SendEOF
                  \/ DeleteThreadBuffers
  PROVE  /\ TypeDecided' /\ MainFollows' /\ MainSleeperHasReason'
         /\ typeEOF => UNCHANGED <<traceType, events>>
  <1>1. /\ PcOK /\ nEvents \in [Kinds -> Nat] /\ traceType \in Kinds \cup {"UNKNOWN"}
        /\ posted \in Nat /\ indexReady \in Nat /\ processed \in Nat /\ received \in Nat
        /\ TypeDecided /\ MainFollows /\ MainSleeperHasReason
    BY DEF TypeInv, TypeOK
  <1>k. /\ "FTRACE" \in Kinds /\ "PERF" \in Kinds /\ "UNKNOWN" \notin Kinds /\ "null" \notin Kinds
        /\ \A k \in Kinds : k = "FTRACE" \/ k = "PERF"
    BY DEF Kinds
  <1>2. CASE DetermineTraceType
    <2>1. pc["parser"] = "type" /\ ~typeEOF /\ UNCHANGED <<eventVars, indexVars, mainVars>>
      BY <1>1, <1>2, <1>k DEF DetermineTraceType, At, TypeDecided
    <2> DEFINE next == IF eof["parser"] THEN "guess" ELSE "post"
    <2>2. CASE Dominates("FTRACE", "PERF") /\ Announce("FTRACE", "FTRACE", next)
      BY <1>1, <1>k, <2>1, <2>2, DominatesIsMore, AnnounceKeepsType
    <2>3. CASE Dominates("PERF", "FTRACE") /\ Announce("PERF", "PERF", next)
      BY <1>1, <1>k, <2>1, <2>3, DominatesIsMore, AnnounceKeepsType
    <2>4. CASE /\ traceType' = "UNKNOWN"
               /\ Goto("parser", IF eof["parser"] THEN "guess" ELSE "lockT")
               /\ UNCHANGED <<events, typeEOF>>
      <3>1. pc'["main"] = pc["main"] /\ pc'["parser"] \in {"guess", "lockT"}
        BY <1>1, <2>4, ThreadsAre DEF Goto, PcOK
      <3> QED
        BY <1>1, <2>1, <2>4, <3>1 DEF TypeDecided, MainFollows, MainSleeperHasReason, EventsSize,
           At, eventVars, indexVars, mainVars
    <2> QED
      BY <1>2, <2>2, <2>3, <2>4 DEF DetermineTraceType
  <1>3. CASE GuessTraceType
    <2>1. /\ pc["parser"] = "guess" /\ UNCHANGED <<eventVars, indexVars, mainVars>>
          /\ nEvents["FTRACE"] \in Nat /\ nEvents["PERF"] \in Nat
      BY <1>1, <1>3, <1>k DEF GuessTraceType, At
    <2>2. CASE nEvents["PERF"] > nEvents["FTRACE"] /\ Announce("PERF", "PERF", "lastPost")
      <3>1. ~typeEOF \/ (traceType = "PERF" /\ events = "PERF")
        BY <1>1, <1>k, <2>1, <2>2 DEF TypeDecided
      <3> QED
        BY <1>k, <2>1, <2>2, <3>1, AnnounceKeepsType
    <2>3. CASE nEvents["PERF"] < nEvents["FTRACE"] /\ Announce("FTRACE", "FTRACE", "lastPost")
      <3>1. ~typeEOF \/ (traceType = "FTRACE" /\ events = "FTRACE")
        BY <1>1, <1>k, <2>1, <2>3 DEF TypeDecided
      <3> QED
        BY <1>k, <2>1, <2>3, <3>1, AnnounceKeepsType
    <2>4. CASE nEvents["PERF"] = nEvents["FTRACE"] /\ Announce("UNKNOWN", "PERF", "lastPost")
      <3>1. ~typeEOF
        BY <1>1, <2>1, <2>4 DEF TypeDecided
      <3> QED
        BY <1>k, <2>1, <2>4, <3>1, AnnounceKeepsType
    <2> QED
      BY <1>3, <2>2, <2>3, <2>4 DEF GuessTraceType
  <1>4. CASE PostBatch \/ PostLast
    <2>1. PICK next \in {"lockT", "sendEOF"} : SendNextIndex(next)
      BY <1>4 DEF PostBatch, PostLast
    <2>2. /\ pc["parser"] \in {"post", "lastPost"}
          /\ pc["parser"] = "post" => pc'["parser"] = "lockT"
          /\ pc["parser"] = "lastPost" => pc'["parser"] = "sendEOF"
      BY <1>1, <1>4, ThreadsAre DEF PostBatch, PostLast, SendNextIndex, At, PcOK
    <2> DEFINE n == EventsSize(events)
    <2>3. n \in Nat /\ EventsSize(events)' = n
      BY <1>1, <2>1 DEF EventsSize, SendNextIndex, eventVars, typeVars
    <2>4. /\ posted' = IF n > posted THEN n ELSE posted
          /\ UNCHANGED <<nEvents, typeVars, received, eventsEOF, mainVars>>
          /\ pc'["main"] = IF pc["main"] = "sleepBatch" /\ n > posted /\ n - received >= Batch
                             THEN "waitBatch" ELSE pc["main"]
      BY <1>1, <2>1, ThreadsAre DEF SendNextIndex, PcOK, eventVars
    <2> HIDE DEF n
    <2>5. TypeDecided'
      BY <1>1, <2>2, <2>4 DEF TypeDecided, typeVars
    <2>6. posted' <= n /\ posted <= posted'
      BY <1>1, <2>3, <2>4 DEF MainFollows, n
    <2>7. MainFollows'
      BY <1>1, <2>3, <2>4, <2>6 DEF MainFollows, typeVars, mainVars
    <2>8. MainSleeperHasReason'
      BY <1>1, <2>3, <2>4, BatchAssumption DEF MainSleeperHasReason, At, typeVars
    <2> QED
      BY <2>4, <2>5, <2>7, <2>8 DEF typeVars
  <1>5. CASE SendEOF
    <2>1. /\ pc["parser"] = "sendEOF" /\ pc'["parser"] = "delete"
          /\ UNCHANGED <<nEvents, typeVars, posted, received, mainVars>>
          /\ pc'["main"] = IF pc["main"] = "sleepBatch" THEN "waitBatch" ELSE pc["main"]
      BY <1>1, <1>5, ThreadsAre DEF SendEOF, At, PcOK, eventVars
    <2> QED
      BY <1>1, <2>1 DEF TypeDecided, MainFollows, MainSleeperHasReason, EventsSize, At, typeVars,
         mainVars
  <1>6. CASE DeleteThreadBuffers
    <2>1. /\ pc["parser"] = "delete" /\ pc'["parser"] = "done" /\ pc'["main"] = pc["main"]
          /\ UNCHANGED <<nEvents, typeVars, indexVars, mainVars>>
      BY <1>1, <1>6, ThreadsAre DEF DeleteThreadBuffers, At, Goto, PcOK, eventVars
    <2> QED
      BY <1>1, <2>1 DEF TypeDecided, MainFollows, MainSleeperHasReason, EventsSize, At, typeVars,
         indexVars, mainVars
  <1> QED
    BY <1>2, <1>3, <1>4, <1>5, <1>6

(* The main thread's steps.                                                  *)
LEMMA MainKeepsType ==
  ASSUME TypeInv, Main
  PROVE  TypeDecided' /\ MainFollows' /\ MainSleeperHasReason' /\ UNCHANGED <<traceType, events>>
  <1>1. /\ PcOK /\ nEvents \in [Kinds -> Nat] /\ typeEOF \in BOOLEAN
        /\ posted \in Nat /\ indexReady \in Nat /\ processed \in Nat /\ received \in Nat
        /\ TypeDecided /\ MainFollows /\ MainSleeperHasReason
    BY DEF TypeInv, TypeOK
  <1>2. /\ UNCHANGED <<nEvents, typeVars, posted, eventsEOF>>
        /\ pc'["parser"] = pc["parser"]
    BY <1>1, ThreadsAre DEF Main, WaitForTraceType, ReadTraceType, WaitForNextBatch, ProcessBatch,
       Goto, PcOK, eventVars, indexVars
  <1>3. TypeDecided'
    BY <1>1, <1>2 DEF TypeDecided, typeVars
  <1> USE ThreadsAre DEF At, Goto
  <1>4. CASE WaitForTraceType
    BY <1>1, <1>2, <1>3, <1>4 DEF WaitForTraceType, MainFollows, MainSleeperHasReason, EventsSize,
       PcOK, typeVars, mainVars, indexVars
  <1>5. CASE ReadTraceType
    <2>1. typeEOF /\ events # "null"
      BY <1>1, <1>5 DEF ReadTraceType, MainFollows, TypeDecided, Kinds
    <2> QED
      BY <1>1, <1>2, <1>3, <1>5, <2>1 DEF ReadTraceType, MainFollows, MainSleeperHasReason,
         EventsSize, PcOK, typeVars, indexVars
  <1>6. CASE WaitForNextBatch
    BY <1>1, <1>2, <1>3, <1>6 DEF WaitForNextBatch, MainFollows, MainSleeperHasReason, EventsSize,
       PcOK, typeVars
  <1>7. CASE ProcessBatch
    BY <1>1, <1>2, <1>3, <1>7 DEF ProcessBatch, MainFollows, MainSleeperHasReason, EventsSize,
       PcOK, typeVars, indexVars
  <1> QED
    BY <1>2, <1>4, <1>5, <1>6, <1>7 DEF Main, typeVars

(* TypeInv is inductive, and a step keeps what was announced.                *)
LEMMA NextType ==
  ASSUME TypeInv, [Next]_vars
  PROVE  TypeInv' /\ (typeEOF => UNCHANGED <<traceType, events>>)
  <1>1. TypeOK'
    BY NextTypeOK DEF TypeInv
  <1>2. CASE Terminated \/ UNCHANGED vars
    <2>1. UNCHANGED <<pc, nEvents, typeVars, indexVars, mainVars>>
      BY <1>2 DEF Terminated, vars, ctlVars, eventVars
    <2> QED
      BY <1>1, <2>1 DEF TypeInv, TypeDecided, MainFollows, MainSleeperHasReason, EventsSize, At,
         typeVars, indexVars, mainVars
  <1> QED
    BY <1>1, <1>2, RingKeepsType, ParserKeepsType, MainKeepsType DEF TypeInv, Next, Parser

(* Once the type is announced nobody changes it or the list that goes with   *)
(* it, so the main thread may read both without a lock.                      *)
THEOREM AnnouncementStable == Spec => AnnouncedTypeStable
  <1>1. TypeInv /\ [Next]_vars => [typeEOF => UNCHANGED <<traceType, events>>]_vars
    BY NextType
  <1>2. TypeInv /\ [Next]_vars => TypeInv'
    BY NextType
  <1> QED
    BY InitType, <1>1, <1>2, PTL DEF Spec, AnnouncedTypeStable

(* The main thread reads only events that are in the list for good.          *)
THEOREM MainReadsCommitted == Spec => []MainReadsCommittedEvents
  <1>1. TypeInv => MainReadsCommittedEvents
    <2> SUFFICES ASSUME TypeInv PROVE MainReadsCommittedEvents
      OBVIOUS
    <2>1. posted \in Nat /\ indexReady \in Nat /\ EventsSize(events) \in Nat
      BY DEF TypeInv, TypeOK, EventsSize
    <2> QED
      BY <2>1 DEF TypeInv, MainFollows, MainReadsCommittedEvents, At
  <1>2. TypeInv /\ [Next]_vars => TypeInv'
    BY NextType
  <1> QED
    BY InitType, <1>1, <1>2, PTL DEF Spec

-----------------------------------------------------------------------------
(* Sleeping.                                                                 *)

(* Nobody sleeps at the start.                                               *)
LEMMA InitSleep == Init => RingSleeperHasReason
  BY ThreadsAre DEF Init, RingSleeperHasReason, At

(* Whoever ends the reason of a sleeper wakes it in the same step.           *)
LEMMA NextSleep ==
  ASSUME TypeOK, RingSleeperHasReason, [Next]_vars
  PROVE  RingSleeperHasReason'
  <1>0. \A t \in Threads : Slot(t) \in Slots
    BY SlotInRing DEF Slot, TypeOK
  <1>p. PcOK
    BY DEF TypeOK
  <1>t. /\ DOMAIN pc = Threads /\ DOMAIN state = Slots /\ DOMAIN isEmpty = Slots
        /\ DOMAIN turn = Threads
    BY DEF TypeOK, PcOK
  <1> USE ThreadsAre, <1>0, <1>t DEF RingSleeperHasReason, At, Goto, GotoAndWake
  <1>1. CASE BeginProduce
    <2>1. \A t \in Threads : Slot(t)' = Slot(t)
      BY <1>1, SlotKept DEF BeginProduce
    <2> QED
      BY <1>1, <2>1 DEF BeginProduce, WaitForLoadBuffer, tbufVars
  <1>2. CASE ReadFile
    <2>1. \A t \in Threads : Slot(t)' = Slot(t)
      BY <1>2, SlotKept DEF ReadFile
    <2> QED
      BY <1>2, <2>1 DEF ReadFile, CompleteLoadBuffer, tbufVars
  <1>3. CASE AccountRead
    <2>1. \A t \in Threads \ {"loader"} : Slot(t)' = Slot(t)
      BY <1>3, SlotKept DEF AccountRead
    <2> QED
      BY <1>3, <2>1 DEF AccountRead, loadVars, tbufVars
  <1>4. CASE ReaderWaitEmpty
    <2>1. \A t \in Threads : Slot(t)' = Slot(t)
      BY <1>4, SlotKept DEF ReaderWaitEmpty
    <2> QED
      BY <1>4, <2>1 DEF ReaderWaitEmpty, WaitForThreadBuffer, loadVars
  <1>5. CASE ReaderWaitLoaded
    <2>1. \A t \in Threads : Slot(t)' = Slot(t)
      BY <1>5, SlotKept DEF ReaderWaitLoaded
    <2> QED
      BY <1>5, <2>1 DEF ReaderWaitLoaded, WaitForLoadBuffer
  <1>6. CASE Tokenize
    <2>1. \A t \in Threads : Slot(t)' = Slot(t)
      BY <1>6, SlotKept DEF Tokenize
    <2> QED
      BY <1>6, <2>1 DEF Tokenize, loadVars
  <1>7. CASE ReaderEndLoadBuffer
    <2>1. \A t \in Threads : Slot(t)' = Slot(t)
      BY <1>7, SlotKept DEF ReaderEndLoadBuffer
    <2> QED
      BY <1>7, <2>1 DEF ReaderEndLoadBuffer, CompleteLoadBuffer, tbufVars
  <1>8. CASE ReaderEndThreadBuffer
    <2>1. \A t \in Threads \ {"reader"} : Slot(t)' = Slot(t)
      BY <1>8, SlotKept DEF ReaderEndThreadBuffer, CompleteThreadBuffer
    <2> QED
      BY <1>8, <2>1 DEF ReaderEndThreadBuffer, CompleteThreadBuffer, loadVars
  <1>9. CASE ParserWaitFull
    <2>1. \A t \in Threads : Slot(t)' = Slot(t)
      BY <1>9, SlotKept DEF ParserWaitFull
    <2> QED
      BY <1>9, <2>1 DEF ParserWaitFull, WaitForThreadBuffer, loadVars
  <1>10. CASE ParserWaitTokenized
    <2>1. \A t \in Threads : Slot(t)' = Slot(t)
      BY <1>10, SlotKept DEF ParserWaitTokenized
    <2> QED
      BY <1>10, <2>1 DEF ParserWaitTokenized, WaitForLoadBuffer, tbufVars
  <1>11. CASE ParseLines
    <2>1. \A t \in Threads : Slot(t)' = Slot(t)
      BY <1>11, SlotKept DEF ParseLines
    <2> QED
      BY <1>11, <2>1 DEF ParseLines, loadVars, tbufVars
  <1>12. CASE ParserEndLoadBuffer
    <2>1. \A t \in Threads : Slot(t)' = Slot(t)
      BY <1>12, SlotKept DEF ParserEndLoadBuffer
    <2> QED
      BY <1>12, <2>1 DEF ParserEndLoadBuffer, CompleteLoadBuffer, tbufVars
  <1>13. CASE ParserEndThreadBuffer
    <2>1. \A t \in Threads \ {"parser"} : Slot(t)' = Slot(t)
      BY <1>13, SlotKept DEF ParserEndThreadBuffer, CompleteThreadBuffer
    <2> QED
      BY <1>13, <2>1 DEF ParserEndThreadBuffer, CompleteThreadBuffer, loadVars
  <1>14. CASE OutsideRing
    <2>1. \A t \in Threads : Slot(t)' = Slot(t)
      BY <1>14, SlotKept DEF OutsideRing
    <2> QED
      BY <1>14, <2>1 DEF OutsideRing, loadVars
  <1> QED
    BY <1>1, <1>2, <1>3, <1>4, <1>5, <1>6, <1>7, <1>8, <1>9, <1>10, <1>11, <1>12, <1>13, <1>14,
       <1>p, StepsOutsideRing DEF Next, Loader, Reader, Parser

(* A thread never sleeps on a condition that holds already: every wakeup     *)
(* that is needed is given.                                                  *)
THEOREM WakeupsCorrect == Spec => []NoLostWakeup
  <1>1. Init => TypeInv /\ RingSleeperHasReason
    BY InitType, InitSleep
  <1>2. TypeInv /\ RingSleeperHasReason /\ [Next]_vars => (TypeInv /\ RingSleeperHasReason)'
    BY NextType, NextSleep DEF TypeInv
  <1>3. TypeInv /\ RingSleeperHasReason => NoLostWakeup
    BY DEF TypeInv, NoLostWakeup
  <1> QED
    BY <1>1, <1>2, <1>3, PTL DEF Spec

-----------------------------------------------------------------------------
(* The ring.                                                                 *)

(* A number is a multiple of NBuf and its slot.                              *)
LEMMA SlotOfNumber ==
  ASSUME NEW n \in Nat
  PROVE  (n \div NBuf) \in Nat /\ (n % NBuf) \in 0 .. NBuf - 1 /\ n = NBuf * (n \div NBuf) + (n % NBuf)
  <1>1. n = NBuf * (n \div NBuf) + (n % NBuf)
    BY NBufAssumption
  <1>2. (n % NBuf) \in 0 .. NBuf - 1
    BY NBufAssumption
  <1>3. (n \div NBuf) \in Nat
    BY NBufAssumption
  <1> QED
    BY <1>1, <1>2, <1>3

(* After a round of the ring comes the same slot.                            *)
LEMMA SlotRepeats ==
  ASSUME NEW n \in Nat
  PROVE  ((n + NBuf) % NBuf) = (n % NBuf)
  <1> DEFINE q == n \div NBuf
             r == n % NBuf
  <1>1. q \in Nat /\ r \in 0 .. NBuf - 1 /\ n = NBuf * q + r
    BY SlotOfNumber
  <1> HIDE DEF q, r
  <1>2. n + NBuf = NBuf * (q + 1) + r /\ q + 1 \in Nat /\ n + NBuf \in Nat
    BY <1>1, NBufAssumption
  <1>3. ASSUME NEW m \in Nat, NEW a \in Nat, NEW b \in 0 .. NBuf - 1, m = NBuf * a + b
        PROVE  (m % NBuf) = b
    BY <1>3, NBufAssumption
  <1>4. ((n + NBuf) % NBuf) = r
    BY <1>1, <1>2, <1>3
  <1> QED
    BY <1>4 DEF r

(* Buffers less than a ring apart are in different slots.                    *)
LEMMA SlotsDiffer ==
  ASSUME NEW n \in Nat, NEW m \in Nat, n < m, m < n + NBuf
  PROVE  (n % NBuf) # (m % NBuf)
  <1> SUFFICES ASSUME (n % NBuf) = (m % NBuf) PROVE FALSE
    OBVIOUS
  <1> DEFINE a == n \div NBuf
             b == m \div NBuf
             r == n % NBuf
  <1>1. a \in Nat /\ b \in Nat /\ r \in Nat /\ n = NBuf * a + r /\ m = NBuf * b + r
    BY SlotOfNumber
  <1> HIDE DEF a, b, r
  <1> DEFINE d == b - a
  <1>2. d \in Int /\ b = a + d
    BY <1>1
  <1> HIDE DEF d
  <1>3. /\ NBuf * b = NBuf * a + NBuf * d
        /\ NBuf * a \in Nat /\ NBuf * b \in Nat /\ NBuf * d \in Int
    BY NBufAssumption, <1>1, <1>2
  <1>4. d > 0 => NBuf * d >= NBuf
    BY NBufAssumption, <1>2
  <1>5. ~(d > 0) => NBuf * d <= 0
    BY NBufAssumption, <1>2
  <1> QED
    BY NBufAssumption, <1>1, <1>3, <1>4, <1>5

(* How far each thread is: the buffers loaded, tokenized, taken by the parser *)
(* and given back to the loader, and those whose lines are in their list.     *)
Loaded    == turn["loader"] + (IF At("loader", "account") THEN 1 ELSE 0)
Tokenized == turn["reader"] + (IF At("reader", "endT") THEN 1 ELSE 0)
Listed    == turn["reader"] + (IF pc["reader"] \in {"endL", "endT"} THEN 1 ELSE 0)
Taken     == turn["parser"] + (IF pc["parser"] \in {"endL", "endT"} THEN 1 ELSE 0)
Returned  == turn["parser"] + (IF At("parser", "endT") THEN 1 ELSE 0)

(* The threads follow one another, at most a ring apart.                      *)
RingOrder ==
  /\ Len(file) = Loaded /\ Len(parsed) = Taken
  /\ Returned <= Tokenized /\ Tokenized <= Loaded /\ Loaded <= Returned + NBuf
  /\ turn["parser"] <= turn["reader"] /\ turn["reader"] <= turn["parser"] + NBuf

(* The state of each slot tells how far its buffer has come.                  *)
LoadStates ==
  \A n \in Returned .. Returned + NBuf - 1 :
    state[n % NBuf] = IF n < Tokenized THEN "TOKENIZED" ELSE IF n < Loaded THEN "LOADED" ELSE "EMPTY"
TbufStates ==
  \A n \in turn["parser"] .. turn["parser"] + NBuf - 1 : isEmpty[n % NBuf] <=> turn["reader"] <= n

RingInv == TypeOK /\ LockDiscipline /\ RingOrder /\ LoadStates /\ TbufStates

(* All of these are numbers.                                                 *)
LEMMA RingNumbers ==
  ASSUME TypeOK
  PROVE  /\ turn["loader"] \in Nat /\ turn["reader"] \in Nat /\ turn["parser"] \in Nat
         /\ Loaded \in Nat /\ Tokenized \in Nat /\ Listed \in Nat
         /\ Taken \in Nat /\ Returned \in Nat
         /\ Len(file) \in Nat /\ Len(parsed) \in Nat
  <1>1. turn["loader"] \in Nat /\ turn["reader"] \in Nat /\ turn["parser"] \in Nat
    BY ThreadsAre DEF TypeOK
  <1>2. Len(file) \in Nat /\ Len(parsed) \in Nat
    BY DEF TypeOK
  <1> QED
    BY <1>1, <1>2, SMTT(30) DEF Loaded, Tokenized, Listed, Taken, Returned

(* At the start every slot is empty.                                         *)
LEMMA InitRing == Init => RingInv
  <1> SUFFICES ASSUME Init PROVE RingInv
    OBVIOUS
  <1>1. pc["loader"] = "lockL" /\ pc["reader"] = "lockT" /\ pc["parser"] = "lockT"
    BY ThreadsAre DEF Init
  <1>2. turn["loader"] = 0 /\ turn["reader"] = 0 /\ turn["parser"] = 0
    BY ThreadsAre DEF Init
  <1>3. Loaded = 0 /\ Tokenized = 0 /\ Taken = 0 /\ Returned = 0
    BY <1>1, <1>2 DEF Loaded, Tokenized, Taken, Returned, At
  <1>4. Len(file) = 0 /\ Len(parsed) = 0
    BY DEF Init
  <1>5. RingOrder
    BY <1>2, <1>3, <1>4, NBufAssumption DEF RingOrder
  <1>6. \A n \in Nat : state[n % NBuf] = "EMPTY" /\ isEmpty[n % NBuf]
    BY SlotInRing DEF Init
  <1>7. LoadStates
    BY <1>3, <1>6, NBufAssumption DEF LoadStates
  <1>8. TbufStates
    BY <1>2, <1>6, NBufAssumption DEF TbufStates
  <1> QED
    BY <1>5, <1>7, <1>8, InitTypeOK, InitLock DEF RingInv

(* What the steps do to these numbers.  Waiting, tokenizing and the steps    *)
(* outside the ring leave them and the slots alone.                          *)
LEMMA QuietSteps ==
  ASSUME TypeOK,
         \/ BeginProduce \/ ReaderWaitEmpty \/ ReaderWaitLoaded \/ Tokenize
         \/ ParserWaitFull \/ ParserWaitTokenized
         \/ DetermineTraceType \/ GuessTraceType \/ PostBatch \/ PostLast \/ SendEOF
         \/ DeleteThreadBuffers \/ Main \/ Terminated \/ UNCHANGED vars
  PROVE  /\ turn' = turn /\ Loaded' = Loaded /\ Tokenized' = Tokenized
         /\ Taken' = Taken /\ Returned' = Returned
         /\ UNCHANGED <<file, parsed, filePos, buf, state, isEmpty>>
  <1>p. PcOK
    BY DEF TypeOK
  <1> USE ThreadsAre, <1>p DEF PcOK, Loaded, Tokenized, Taken, Returned, At, Goto, fileVars, loadVars,
          eventVars
  <1>1. CASE BeginProduce
    BY <1>1 DEF BeginProduce, WaitForLoadBuffer, tbufVars
  <1>2. CASE ReaderWaitEmpty
    BY <1>2 DEF ReaderWaitEmpty, WaitForThreadBuffer
  <1>3. CASE ReaderWaitLoaded
    BY <1>3 DEF ReaderWaitLoaded, WaitForLoadBuffer
  <1>4. CASE Tokenize
    BY <1>4 DEF Tokenize
  <1>5. CASE ParserWaitFull
    BY <1>5 DEF ParserWaitFull, WaitForThreadBuffer
  <1>6. CASE ParserWaitTokenized
    BY <1>6 DEF ParserWaitTokenized, WaitForLoadBuffer, tbufVars
  <1>7. CASE DetermineTraceType
    BY <1>7 DEF DetermineTraceType, Announce, tbufVars
  <1>8. CASE GuessTraceType
    BY <1>8 DEF GuessTraceType, Announce, tbufVars
  <1>9. CASE PostBatch \/ PostLast \/ SendEOF \/ DeleteThreadBuffers
    BY <1>9 DEF PostBatch, PostLast, SendNextIndex, SendEOF, DeleteThreadBuffers, tbufVars
  <1>10. CASE Main
    BY <1>10 DEF Main, WaitForTraceType, ReadTraceType, WaitForNextBatch, ProcessBatch, tbufVars
  <1>11. CASE Terminated \/ UNCHANGED vars
    BY <1>11 DEF Terminated, vars, ctlVars, tbufVars
  <1> QED
    BY <1>1, <1>2, <1>3, <1>4, <1>5, <1>6, <1>7, <1>8, <1>9, <1>10, <1>11

(* The loader.                                                               *)
LEMMA ReadFileMoves ==
  ASSUME TypeOK, ReadFile
  PROVE  /\ turn' = turn /\ Loaded = turn["loader"] /\ Loaded' = turn["loader"] + 1
         /\ Tokenized' = Tokenized /\ Taken' = Taken /\ Returned' = Returned
         /\ Len(file') = Len(file) + 1
         /\ state' = [state EXCEPT ![turn["loader"] % NBuf] = "LOADED"]
         /\ UNCHANGED <<parsed, filePos, isEmpty>>
  <1>1. /\ pc["loader"] = "work" /\ pc'["loader"] = "account"
        /\ pc'["parser"] = pc["parser"]
        /\ pc'["reader"] = "endT" <=> pc["reader"] = "endT"
    BY ThreadsAre DEF TypeOK, PcOK, ReadFile, CompleteLoadBuffer, GotoAndWake, At
  <1>2. turn' = turn /\ UNCHANGED <<parsed, filePos, isEmpty>>
    BY DEF ReadFile, CompleteLoadBuffer, GotoAndWake, At, tbufVars, eventVars
  <1>3. state' = [state EXCEPT ![turn["loader"] % NBuf] = "LOADED"]
    BY DEF ReadFile, CompleteLoadBuffer, GotoAndWake, At, Slot
  <1>4. Len(file') = Len(file) + 1
    BY ThreadsAre DEF TypeOK, PcOK, ReadFile, CompleteLoadBuffer, GotoAndWake, At
  <1>5. turn["loader"] \in Nat
    BY ThreadsAre DEF TypeOK, PcOK, ReadFile, CompleteLoadBuffer, GotoAndWake, At
  <1> QED
    BY <1>1, <1>2, <1>3, <1>4, <1>5 DEF At, Loaded, Tokenized, Taken, Returned

LEMMA AccountReadMoves ==
  ASSUME TypeOK, AccountRead
  PROVE  /\ turn' = [turn EXCEPT !["loader"] = turn["loader"] + 1]
         /\ Loaded = turn["loader"] + 1 /\ Loaded' = turn["loader"] + 1
         /\ Tokenized' = Tokenized /\ Taken' = Taken /\ Returned' = Returned
         /\ UNCHANGED <<file, parsed, buf, state, isEmpty>>
  <1>1. /\ pc["loader"] = "account" /\ pc'["loader"] # "account"
        /\ pc'["parser"] = pc["parser"] /\ pc'["reader"] = pc["reader"]
    BY ThreadsAre DEF TypeOK, PcOK, AccountRead, Goto, At
  <1>2. turn' = [turn EXCEPT !["loader"] = turn["loader"] + 1]
    BY ThreadsAre DEF TypeOK, PcOK, AccountRead, Goto, At
  <1>3. UNCHANGED <<file, parsed, buf, state, isEmpty>>
    BY DEF AccountRead, Goto, At, loadVars, tbufVars, eventVars
  <1>5. turn["loader"] \in Nat /\ turn'["loader"] = turn["loader"] + 1 
        /\ turn'["reader"] = turn["reader"] /\ turn'["parser"] = turn["parser"]
    BY <1>2, ThreadsAre DEF TypeOK
  <1> QED
    BY <1>1, <1>2, <1>3, <1>5 DEF At, Loaded, Tokenized, Taken, Returned

(* The reader.                                                               *)
LEMMA ReaderEndLoadBufferMoves ==
  ASSUME TypeOK, ReaderEndLoadBuffer
  PROVE  /\ turn' = turn /\ Loaded' = Loaded
         /\ Tokenized = turn["reader"] /\ Tokenized' = turn["reader"] + 1
         /\ Taken' = Taken /\ Returned' = Returned
         /\ state' = [state EXCEPT ![turn["reader"] % NBuf] = "TOKENIZED"]
         /\ UNCHANGED <<file, parsed, filePos, buf, isEmpty>>
  <1>1. /\ pc["reader"] = "endL" /\ pc'["reader"] = "endT" /\ pc'["loader"] = pc["loader"]
        /\ pc'["parser"] = "endT" <=> pc["parser"] = "endT"
        /\ pc'["parser"] = "endL" <=> pc["parser"] = "endL"
    BY ThreadsAre DEF TypeOK, PcOK, ReaderEndLoadBuffer, CompleteLoadBuffer, GotoAndWake, At
  <1>2. turn' = turn /\ UNCHANGED <<file, parsed, filePos, buf, isEmpty>>
    BY DEF ReaderEndLoadBuffer, CompleteLoadBuffer, GotoAndWake, At, fileVars, tbufVars, eventVars
  <1>3. state' = [state EXCEPT ![turn["reader"] % NBuf] = "TOKENIZED"]
    BY DEF ReaderEndLoadBuffer, CompleteLoadBuffer, GotoAndWake, At, Slot
  <1>4. turn["reader"] \in Nat
    BY ThreadsAre DEF TypeOK, PcOK, ReaderEndLoadBuffer, CompleteLoadBuffer, GotoAndWake, At
  <1> QED
    BY <1>1, <1>2, <1>3, <1>4 DEF At, Loaded, Tokenized, Taken, Returned

LEMMA ReaderEndThreadBufferMoves ==
  ASSUME TypeOK, ReaderEndThreadBuffer
  PROVE  /\ turn' = [turn EXCEPT !["reader"] = turn["reader"] + 1]
         /\ Tokenized = turn["reader"] + 1 /\ Tokenized' = turn["reader"] + 1
         /\ Loaded' = Loaded /\ Taken' = Taken /\ Returned' = Returned
         /\ isEmpty' = [isEmpty EXCEPT ![turn["reader"] % NBuf] = FALSE]
         /\ UNCHANGED <<file, parsed, filePos, buf, state, list>>
  <1>1. /\ pc["reader"] = "endT" /\ pc'["reader"] # "endT" /\ pc'["loader"] = pc["loader"]
        /\ pc'["parser"] = "endT" <=> pc["parser"] = "endT"
        /\ pc'["parser"] = "endL" <=> pc["parser"] = "endL"
    BY ThreadsAre DEF TypeOK, PcOK, ReaderEndThreadBuffer, CompleteThreadBuffer, GotoAndWake, At
  <1>2. turn' = [turn EXCEPT !["reader"] = turn["reader"] + 1]
    BY ThreadsAre DEF TypeOK, PcOK, ReaderEndThreadBuffer, CompleteThreadBuffer, GotoAndWake, At
  <1>3. UNCHANGED <<file, parsed, filePos, buf, state, list>>
    BY DEF ReaderEndThreadBuffer, CompleteThreadBuffer, GotoAndWake, At, fileVars, loadVars, eventVars
  <1>4. isEmpty' = [isEmpty EXCEPT ![turn["reader"] % NBuf] = FALSE]
    BY DEF ReaderEndThreadBuffer, CompleteThreadBuffer, GotoAndWake, At, Slot
  <1>5. turn["reader"] \in Nat /\ turn'["reader"] = turn["reader"] + 1
        /\ turn'["loader"] = turn["loader"] /\ turn'["parser"] = turn["parser"]
    BY <1>2, ThreadsAre DEF TypeOK
  <1> QED
    BY <1>1, <1>2, <1>3, <1>4, <1>5 DEF At, Loaded, Tokenized, Taken, Returned

(* The parser.                                                               *)
LEMMA ParseLinesMoves ==
  ASSUME TypeOK, ParseLines
  PROVE  /\ turn' = turn /\ Loaded' = Loaded /\ Tokenized' = Tokenized
         /\ Taken = turn["parser"] /\ Taken' = turn["parser"] + 1 /\ Returned' = Returned
         /\ Returned = turn["parser"]
         /\ Len(parsed') = Len(parsed) + 1
         /\ UNCHANGED <<file, filePos, buf, state, isEmpty, list>>
  <1>1. /\ pc["parser"] = "work" /\ pc'["parser"] = "endL"
        /\ pc'["loader"] = pc["loader"] /\ pc'["reader"] = pc["reader"]
    BY ThreadsAre DEF TypeOK, PcOK, ParseLines, Goto, At
  <1>2. turn' = turn /\ UNCHANGED <<file, filePos, buf, state, isEmpty, list>>
    BY DEF ParseLines, Goto, At, fileVars, loadVars, tbufVars
  <1>3. Len(parsed') = Len(parsed) + 1
    BY ThreadsAre DEF TypeOK, PcOK, ParseLines, Goto, At
  <1>4. turn["parser"] \in Nat
    BY ThreadsAre DEF TypeOK, PcOK, ParseLines, Goto, At
  <1> QED
    BY <1>1, <1>2, <1>3, <1>4 DEF At, Loaded, Tokenized, Taken, Returned

LEMMA ParserEndLoadBufferMoves ==
  ASSUME TypeOK, ParserEndLoadBuffer
  PROVE  /\ turn' = turn /\ Loaded' = Loaded /\ Tokenized' = Tokenized /\ Taken' = Taken
         /\ Returned = turn["parser"] /\ Returned' = turn["parser"] + 1
         /\ state' = [state EXCEPT ![turn["parser"] % NBuf] = "EMPTY"]
         /\ UNCHANGED <<file, parsed, filePos, buf, isEmpty, list>>
  <1>1. /\ pc["parser"] = "endL" /\ pc'["parser"] = "endT" /\ pc'["reader"] = pc["reader"]
        /\ pc'["loader"] = "account" <=> pc["loader"] = "account"
    BY ThreadsAre DEF TypeOK, PcOK, ParserEndLoadBuffer, CompleteLoadBuffer, GotoAndWake, At
  <1>2. turn' = turn /\ UNCHANGED <<file, parsed, filePos, buf, isEmpty, list>>
    BY DEF ParserEndLoadBuffer, CompleteLoadBuffer, GotoAndWake, At, fileVars, tbufVars, eventVars
  <1>3. state' = [state EXCEPT ![turn["parser"] % NBuf] = "EMPTY"]
    BY DEF ParserEndLoadBuffer, CompleteLoadBuffer, GotoAndWake, At, Slot
  <1>4. turn["parser"] \in Nat
    BY ThreadsAre DEF TypeOK, PcOK, ParserEndLoadBuffer, CompleteLoadBuffer, GotoAndWake, At
  <1> QED
    BY <1>1, <1>2, <1>3, <1>4 DEF At, Loaded, Tokenized, Taken, Returned

LEMMA ParserEndThreadBufferMoves ==
  ASSUME TypeOK, ParserEndThreadBuffer
  PROVE  /\ turn' = [turn EXCEPT !["parser"] = turn["parser"] + 1]
         /\ Taken = turn["parser"] + 1 /\ Taken' = turn["parser"] + 1
         /\ Returned = turn["parser"] + 1 /\ Returned' = turn["parser"] + 1
         /\ Loaded' = Loaded /\ Tokenized' = Tokenized
         /\ isEmpty' = [isEmpty EXCEPT ![turn["parser"] % NBuf] = TRUE]
         /\ list' = [list EXCEPT ![turn["parser"] % NBuf] = Nothing]
         /\ UNCHANGED <<file, parsed, filePos, buf, state>>
  <1>1. /\ pc["parser"] = "endT" /\ pc'["parser"] \notin {"endL", "endT"}
        /\ pc'["loader"] = pc["loader"]
        /\ pc'["reader"] = "endT" <=> pc["reader"] = "endT"
    BY ThreadsAre DEF TypeOK, PcOK, ParserEndThreadBuffer, CompleteThreadBuffer, GotoAndWake, At
  <1>2. turn' = [turn EXCEPT !["parser"] = turn["parser"] + 1]
    BY ThreadsAre DEF TypeOK, PcOK, ParserEndThreadBuffer, CompleteThreadBuffer, GotoAndWake, At
  <1>3. UNCHANGED <<file, parsed, filePos, buf, state>>
    BY DEF ParserEndThreadBuffer, CompleteThreadBuffer, GotoAndWake, At, fileVars, loadVars, eventVars
  <1>4. /\ isEmpty' = [isEmpty EXCEPT ![turn["parser"] % NBuf] = TRUE]
        /\ list' = [list EXCEPT ![turn["parser"] % NBuf] = Nothing]
    BY DEF ParserEndThreadBuffer, CompleteThreadBuffer, GotoAndWake, At, Slot
  <1>5. turn["parser"] \in Nat /\ turn'["parser"] = turn["parser"] + 1
        /\ turn'["loader"] = turn["loader"] /\ turn'["reader"] = turn["reader"]
    BY <1>2, ThreadsAre DEF TypeOK
  <1> QED
    BY <1>1, <1>2, <1>3, <1>4, <1>5 DEF At, Loaded, Tokenized, Taken, Returned

(* What a thread learns from the state it waited for: its place among the     *)
(* others.                                                                   *)
LEMMA SlotTells ==
  ASSUME TypeOK, RingOrder, LoadStates, TbufStates
  PROVE  /\ Loaded = turn["loader"] /\ state[turn["loader"] % NBuf] = "EMPTY" =>
              turn["loader"] < Returned + NBuf
         /\ Tokenized = turn["reader"] /\ state[turn["reader"] % NBuf] = "LOADED" =>
              turn["reader"] < Loaded
         /\ Returned = turn["parser"] /\ state[turn["parser"] % NBuf] = "TOKENIZED" =>
              turn["parser"] < Tokenized
         /\ isEmpty[turn["reader"] % NBuf] => turn["reader"] < turn["parser"] + NBuf
         /\ ~isEmpty[turn["parser"] % NBuf] => turn["parser"] < turn["reader"]
  <1> DEFINE L == turn["loader"]
             R == turn["reader"]
             P == turn["parser"]
  <1>1. /\ L \in Nat /\ R \in Nat /\ P \in Nat /\ Loaded \in Nat /\ Tokenized \in Nat
        /\ Returned \in Nat /\ NBuf \in Nat /\ NBuf > 0
    BY RingNumbers, NBufAssumption
  <1> HIDE DEF L, R, P
  <1>2. Loaded = L /\ state[L % NBuf] = "EMPTY" => L < Returned + NBuf
    <2> SUFFICES ASSUME Loaded = L, state[L % NBuf] = "EMPTY", L = Returned + NBuf PROVE FALSE
      BY <1>1 DEF RingOrder, L
    <2>1. (L % NBuf) = (Returned % NBuf)
      BY <1>1, SlotRepeats
    <2>2. Returned \in Returned .. Returned + NBuf - 1 /\ Returned < Loaded
      BY <1>1
    <2> QED
      BY <2>1, <2>2 DEF LoadStates
  <1>3. Tokenized = R /\ state[R % NBuf] = "LOADED" => R < Loaded
    <2> SUFFICES ASSUME Tokenized = R, state[R % NBuf] = "LOADED" PROVE R < Loaded
      OBVIOUS
    <2>1. R # Returned + NBuf
      <3> SUFFICES ASSUME R = Returned + NBuf PROVE FALSE
        OBVIOUS
      <3>1. (R % NBuf) = (Returned % NBuf)
        BY <1>1, SlotRepeats
      <3>2. Returned \in Returned .. Returned + NBuf - 1 /\ Returned < Tokenized
        BY <1>1
      <3> QED
        BY <3>1, <3>2 DEF LoadStates
    <2>2. R \in Returned .. Returned + NBuf - 1
      BY <1>1, <2>1 DEF RingOrder
    <2> QED
      BY <1>1, <2>2 DEF LoadStates
  <1>4. Returned = P /\ state[P % NBuf] = "TOKENIZED" => P < Tokenized
    <2>1. Returned = P => P \in Returned .. Returned + NBuf - 1
      BY <1>1
    <2> QED
      BY <1>1, <2>1 DEF LoadStates
  <1>5. isEmpty[R % NBuf] => R < P + NBuf
    <2> SUFFICES ASSUME isEmpty[R % NBuf], R = P + NBuf PROVE FALSE
      BY <1>1 DEF RingOrder, R, P
    <2>1. (R % NBuf) = (P % NBuf)
      BY <1>1, SlotRepeats
    <2>2. P \in P .. P + NBuf - 1 /\ ~(R <= P)
      BY <1>1
    <2> QED
      BY <2>1, <2>2 DEF TbufStates, R, P
  <1>6. ~isEmpty[P % NBuf] => P < R
    <2>1. P \in P .. P + NBuf - 1
      BY <1>1
    <2> QED
      BY <1>1, <2>1 DEF TbufStates, R, P
  <1> QED
    BY <1>2, <1>3, <1>4, <1>5, <1>6 DEF L, R, P

(* The threads stay in order, and the states of the slots with them: a thread *)
(* moves on only when its slot says that the one before it has done its part. *)
LEMMA NextRing ==
  ASSUME RingInv, [Next]_vars
  PROVE  RingOrder' /\ LoadStates' /\ TbufStates'
  <1> DEFINE L == turn["loader"]
             R == turn["reader"]
             P == turn["parser"]
  <1>1. /\ TypeOK /\ RingOrder /\ LoadStates /\ TbufStates /\ LoadMutexOwner /\ StateOfOwner
        /\ DOMAIN turn = Threads /\ DOMAIN state = Slots /\ DOMAIN isEmpty = Slots
    BY DEF RingInv, LockDiscipline, TypeOK
  <1>2. /\ L \in Nat /\ R \in Nat /\ P \in Nat /\ Loaded \in Nat /\ Tokenized \in Nat
        /\ Taken \in Nat /\ Returned \in Nat /\ Len(file) \in Nat /\ Len(parsed) \in Nat
        /\ NBuf \in Nat /\ NBuf > 0
    BY <1>1, RingNumbers, NBufAssumption
  <1>3. ASSUME turn' = turn, Loaded' = Loaded, Tokenized' = Tokenized, Taken' = Taken,
               Returned' = Returned, UNCHANGED <<file, parsed, state, isEmpty>>
        PROVE  RingOrder' /\ LoadStates' /\ TbufStates'
    BY <1>1, <1>3 DEF RingOrder, LoadStates, TbufStates
  <1>4. CASE ReadFile
    <2>1. /\ turn' = turn /\ Loaded = L /\ Loaded' = L + 1
          /\ Tokenized' = Tokenized /\ Taken' = Taken /\ Returned' = Returned
          /\ Len(file') = Len(file) + 1 /\ parsed' = parsed /\ isEmpty' = isEmpty
          /\ state' = [state EXCEPT ![L % NBuf] = "LOADED"]
      BY <1>1, <1>4, ReadFileMoves
    <2>2. state[L % NBuf] = "EMPTY"
      BY <1>1, <1>4 DEF ReadFile, StateOfOwner, InLoadBuffer, Slot, At
    <2>3. L < Returned + NBuf
      BY <1>1, <2>1, <2>2, SlotTells
    <2>4. RingOrder'
      BY <1>1, <1>2, <2>1, <2>3 DEF RingOrder
    <2>5. LoadStates'
      <3> SUFFICES ASSUME NEW n \in Returned .. Returned + NBuf - 1
                   PROVE  state'[n % NBuf] = IF n < Tokenized THEN "TOKENIZED"
                                             ELSE IF n < L + 1 THEN "LOADED" ELSE "EMPTY"
        BY <2>1 DEF LoadStates
      <3>1. n \in Nat
        BY <1>2
      <3>2. state[n % NBuf] = IF n < Tokenized THEN "TOKENIZED"
                              ELSE IF n < L THEN "LOADED" ELSE "EMPTY"
        BY <1>1, <2>1 DEF LoadStates
      <3>3. CASE n = L
        <4>1. state'[n % NBuf] = "LOADED" /\ ~(n < Tokenized) /\ n < L + 1
          BY <1>1, <1>2, <2>1, <3>1, <3>3, SlotInRing, SMTT(30) DEF RingOrder
        <4> QED
          BY <4>1
      <3>4. CASE n # L
        <4>1. L < n + NBuf /\ n < L + NBuf
          BY <1>1, <1>2, <2>1, <2>3, <3>1 DEF RingOrder
        <4>2. (n % NBuf) # (L % NBuf)
          <5>1. n < L \/ L < n
            BY <1>2, <3>1, <3>4
          <5> QED
            BY <1>2, <3>1, <4>1, <5>1, SlotsDiffer
        <4>3. n < L + 1 <=> n < L
          BY <1>2, <3>1, <3>4
        <4> QED
          BY <1>1, <2>1, <3>1, <3>2, <4>2, <4>3, SlotInRing
      <3> QED
        BY <3>3, <3>4
    <2>6. TbufStates'
      BY <1>1, <2>1 DEF TbufStates
    <2> QED
      BY <2>4, <2>5, <2>6
  <1>5. CASE AccountRead
    <2>1. /\ turn'["reader"] = R /\ turn'["parser"] = P /\ Loaded' = Loaded
          /\ Tokenized' = Tokenized /\ Taken' = Taken /\ Returned' = Returned
          /\ UNCHANGED <<file, parsed, state, isEmpty>>
      BY <1>1, <1>5, AccountReadMoves, ThreadsAre
    <2> QED
      BY <1>1, <2>1 DEF RingOrder, LoadStates, TbufStates
  <1>6. CASE ReaderEndLoadBuffer
    <2>1. /\ turn' = turn /\ Loaded' = Loaded /\ Tokenized = R /\ Tokenized' = R + 1
          /\ Taken' = Taken /\ Returned' = Returned
          /\ file' = file /\ parsed' = parsed /\ isEmpty' = isEmpty
          /\ state' = [state EXCEPT ![R % NBuf] = "TOKENIZED"]
      BY <1>1, <1>6, ReaderEndLoadBufferMoves
    <2>2. state[R % NBuf] = "LOADED"
      BY <1>1, <1>6 DEF ReaderEndLoadBuffer, StateOfOwner, InLoadBuffer, Slot, At
    <2>4. R < Loaded
      BY <1>1, <2>1, <2>2, SlotTells
    <2>5. RingOrder'
      BY <1>1, <1>2, <2>1, <2>4 DEF RingOrder
    <2>6. LoadStates'
      <3> SUFFICES ASSUME NEW n \in Returned .. Returned + NBuf - 1
                   PROVE  state'[n % NBuf] = IF n < R + 1 THEN "TOKENIZED"
                                             ELSE IF n < Loaded THEN "LOADED" ELSE "EMPTY"
        BY <2>1 DEF LoadStates
      <3>1. n \in Nat
        BY <1>2
      <3>2. state[n % NBuf] = IF n < R THEN "TOKENIZED"
                              ELSE IF n < Loaded THEN "LOADED" ELSE "EMPTY"
        BY <1>1, <2>1 DEF LoadStates
      <3>3. CASE n = R
        <4>1. state'[n % NBuf] = "TOKENIZED" /\ n < R + 1
          BY <1>1, <1>2, <2>1, <3>1, <3>3, SlotInRing
        <4> QED
          BY <4>1
      <3>4. CASE n # R
        <4>1. R < n + NBuf /\ n < R + NBuf
          BY <1>1, <1>2, <2>1, <2>4, <3>1 DEF RingOrder
        <4>2. (n % NBuf) # (R % NBuf)
          <5>1. n < R \/ R < n
            BY <1>2, <3>1, <3>4
          <5> QED
            BY <1>2, <3>1, <4>1, <5>1, SlotsDiffer
        <4>3. n < R + 1 <=> n < R
          BY <1>2, <3>1, <3>4
        <4> QED
          BY <1>1, <2>1, <3>1, <3>2, <4>2, <4>3, SlotInRing
      <3> QED
        BY <3>3, <3>4
    <2>7. TbufStates'
      BY <1>1, <2>1 DEF TbufStates
    <2> QED
      BY <2>5, <2>6, <2>7
  <1>7. CASE ReaderEndThreadBuffer
    <2>1. /\ turn'["reader"] = R + 1 /\ turn'["parser"] = P
          /\ Tokenized = R + 1 /\ Tokenized' = R + 1
          /\ Loaded' = Loaded /\ Taken' = Taken /\ Returned' = Returned
          /\ file' = file /\ parsed' = parsed /\ state' = state
          /\ isEmpty' = [isEmpty EXCEPT ![R % NBuf] = FALSE]
      BY <1>1, <1>7, ReaderEndThreadBufferMoves, ThreadsAre
    <2>2. isEmpty[R % NBuf]
      BY <1>1, <1>7 DEF ReaderEndThreadBuffer, StateOfOwner, InThreadBuffer, Slot, At
    <2>3. R < P + NBuf
      BY <1>1, <2>2, SlotTells
    <2>4. RingOrder'
      BY <1>1, <1>2, <2>1, <2>3 DEF RingOrder
    <2>5. LoadStates'
      BY <1>1, <2>1 DEF LoadStates
    <2>6. TbufStates'
      <3> SUFFICES ASSUME NEW n \in P .. P + NBuf - 1
                   PROVE  isEmpty'[n % NBuf] <=> R + 1 <= n
        BY <2>1 DEF TbufStates
      <3>1. n \in Nat
        BY <1>2
      <3>2. isEmpty[n % NBuf] <=> R <= n
        BY <1>1, <2>1 DEF TbufStates
      <3>3. CASE n = R
        BY <1>1, <1>2, <2>1, <3>1, <3>3, SlotInRing
      <3>4. CASE n # R
        <4>1. R < n + NBuf /\ n < R + NBuf
          BY <1>1, <1>2, <2>1, <2>3, <3>1, SMTT(30) DEF RingOrder
        <4>2. (n % NBuf) # (R % NBuf)
          <5>1. n < R \/ R < n
            BY <1>2, <3>1, <3>4
          <5> QED
            BY <1>2, <3>1, <4>1, <5>1, SlotsDiffer
        <4>3. R + 1 <= n <=> R <= n
          BY <1>2, <3>1, <3>4
        <4> QED
          BY <1>1, <2>1, <3>1, <3>2, <4>2, <4>3, SlotInRing
      <3> QED
        BY <3>3, <3>4
    <2> QED
      BY <2>4, <2>5, <2>6
  <1>8. CASE ParseLines
    <2>1. /\ turn' = turn /\ Loaded' = Loaded /\ Tokenized' = Tokenized
          /\ Taken = P /\ Taken' = P + 1 /\ Returned' = Returned
          /\ Len(parsed') = Len(parsed) + 1 /\ UNCHANGED <<file, state, isEmpty>>
      BY <1>1, <1>8, ParseLinesMoves
    <2> QED
      BY <1>1, <1>2, <2>1 DEF RingOrder, LoadStates, TbufStates
  <1>9. CASE ParserEndLoadBuffer
    <2>1. /\ turn' = turn /\ Loaded' = Loaded /\ Tokenized' = Tokenized /\ Taken' = Taken
          /\ Returned = P /\ Returned' = P + 1
          /\ UNCHANGED <<file, parsed, isEmpty>>
          /\ state' = [state EXCEPT ![P % NBuf] = "EMPTY"]
      BY <1>1, <1>9, ParserEndLoadBufferMoves
    <2>2. P < Tokenized
      <3>1. state[P % NBuf] = "TOKENIZED"
        BY <1>1, <1>9 DEF ParserEndLoadBuffer, StateOfOwner, InLoadBuffer, Slot, At
      <3> QED
        BY <1>1, <2>1, <3>1, SlotTells
    <2>3. RingOrder'
      BY <1>1, <1>2, <2>1, <2>2 DEF RingOrder
    <2>4. LoadStates'
      <3> SUFFICES ASSUME NEW n \in P + 1 .. P + 1 + NBuf - 1
                   PROVE  state'[n % NBuf] = IF n < Tokenized THEN "TOKENIZED"
                                             ELSE IF n < Loaded THEN "LOADED" ELSE "EMPTY"
        BY <2>1 DEF LoadStates
      <3>1. n \in Nat
        BY <1>2
      <3>2. CASE n = P + NBuf
        <4>1. (n % NBuf) = (P % NBuf)
          BY <1>2, <3>2, SlotRepeats
        <4>2. state'[n % NBuf] = "EMPTY"
          BY <1>1, <1>2, <2>1, <4>1, SlotInRing
        <4>3. ~(n < Tokenized) /\ ~(n < Loaded)
          BY <1>1, <1>2, <2>1, <3>2, SMTT(30) DEF RingOrder
        <4> QED
          BY <4>2, <4>3
      <3>3. CASE n # P + NBuf
        <4>1. n \in Returned .. Returned + NBuf - 1 /\ P < n /\ n < P + NBuf
          <5> HIDE DEF P
          <5>1. P + 1 <= n /\ n <= P + 1 + NBuf - 1
            BY <1>2, <3>1
          <5>2. P < n /\ n < P + NBuf
            BY <1>2, <3>1, <3>3, <5>1
          <5>3. n \in P .. P + NBuf - 1
            BY <1>2, <3>1, <5>2
          <5> QED
            BY <2>1, <5>2, <5>3
        <4>2. (n % NBuf) # (P % NBuf)
          BY <1>2, <3>1, <4>1, SlotsDiffer
        <4>3. state'[n % NBuf] = state[n % NBuf]
          BY <1>1, <2>1, <3>1, <4>2, SlotInRing
        <4> QED
          BY <1>1, <4>1, <4>3 DEF LoadStates
      <3> QED
        BY <3>2, <3>3
    <2>5. TbufStates'
      BY <1>1, <2>1 DEF TbufStates
    <2> QED
      BY <2>3, <2>4, <2>5
  <1>10. CASE ParserEndThreadBuffer
    <2>1. /\ turn'["parser"] = P + 1 /\ turn'["reader"] = R
          /\ Taken = P + 1 /\ Taken' = P + 1 /\ Returned = P + 1 /\ Returned' = P + 1
          /\ Loaded' = Loaded /\ Tokenized' = Tokenized
          /\ UNCHANGED <<file, parsed, state>>
          /\ isEmpty' = [isEmpty EXCEPT ![P % NBuf] = TRUE]
      BY <1>1, <1>10, ParserEndThreadBufferMoves, ThreadsAre
    <2>2. P < R
      <3>1. ~isEmpty[P % NBuf]
        BY <1>1, <1>10 DEF ParserEndThreadBuffer, StateOfOwner, InThreadBuffer, Slot, At
      <3> QED
        BY <1>1, <3>1, SlotTells
    <2>3. RingOrder'
      BY <1>1, <1>2, <2>1, <2>2, SMTT(30) DEF RingOrder
    <2>4. LoadStates'
      BY <1>1, <2>1 DEF LoadStates
    <2>5. TbufStates'
      <3> SUFFICES ASSUME NEW n \in P + 1 .. P + 1 + NBuf - 1
                   PROVE  isEmpty'[n % NBuf] <=> R <= n
        BY <2>1 DEF TbufStates
      <3>1. n \in Nat
        BY <1>2
      <3>2. CASE n = P + NBuf
        <4>1. (n % NBuf) = (P % NBuf)
          BY <1>2, <3>2, SlotRepeats
        <4>2. isEmpty'[n % NBuf]
          BY <1>1, <1>2, <2>1, <4>1, SlotInRing
        <4>3. R <= n
          BY <1>1, <1>2, <3>2 DEF RingOrder
        <4> QED
          BY <4>2, <4>3
      <3>3. CASE n # P + NBuf
        <4>1. n \in P .. P + NBuf - 1 /\ P < n /\ n < P + NBuf
          BY <1>2, <3>1, <3>3, SMTT(30)
        <4>2. (n % NBuf) # (P % NBuf)
          BY <1>2, <3>1, <4>1, SlotsDiffer
        <4>3. isEmpty'[n % NBuf] = isEmpty[n % NBuf]
          BY <1>1, <2>1, <3>1, <4>2, SlotInRing
        <4> QED
          BY <1>1, <4>1, <4>3 DEF TbufStates
      <3> QED
        BY <3>2, <3>3
    <2> QED
      BY <2>3, <2>4, <2>5
  <1> QED
    BY <1>1, <1>3, <1>4, <1>5, <1>6, <1>7, <1>8, <1>9, <1>10, QuietSteps DEF Next, Loader, Reader, Parser

-----------------------------------------------------------------------------
(* What is in the ring.                                                      *)

(* What is in the slots is what was read from the file.                       *)
BytesInOrder ==
  /\ \A n \in Returned .. Loaded - 1 : buf[n % NBuf] = file[n + 1]
  /\ turn["loader"] < Loaded => buf[turn["loader"] % NBuf] = file[turn["loader"] + 1]
LinesInOrder  == \A n \in turn["parser"] .. Listed - 1 : list[n % NBuf].ev = file[n + 1].ev
TakenInOrder  == \A i \in 1 .. Len(parsed) : parsed[i] = file[i]
EmptyReads    == \A i \in 1 .. Len(file) : file[i].nRead = 0 => file[i].ev = NoEvents
OffsetFollows ==
  filePos = IF turn["loader"] = 0 THEN 0
            ELSE file[turn["loader"]].filePos + file[turn["loader"]].nRead

InOrder ==
  /\ BytesInOrder /\ LinesInOrder /\ TakenInOrder
  /\ EmptyReads /\ FilePosIsOffset /\ OffsetFollows

OrderInv == RingInv /\ InOrder

(* At the start nothing was read.                                            *)
LEMMA InitOrder == Init => OrderInv
  <1> SUFFICES ASSUME Init PROVE OrderInv
    OBVIOUS
  <1>1. RingInv /\ TypeOK
    BY InitRing, InitTypeOK
  <1>2. pc["loader"] = "lockL" /\ pc["reader"] = "lockT"
    BY ThreadsAre DEF Init
  <1>3. turn["loader"] = 0 /\ turn["reader"] = 0 /\ turn["parser"] = 0
    BY ThreadsAre DEF Init
  <1>4. Loaded = 0 /\ Listed = 0 /\ Returned \in Nat
    BY <1>1, <1>2, <1>3, RingNumbers DEF Loaded, Listed, At
  <1>5. Len(file) = 0 /\ Len(parsed) = 0 /\ filePos = 0
    BY DEF Init
  <1>6. BytesInOrder /\ LinesInOrder
    BY <1>3, <1>4 DEF BytesInOrder, LinesInOrder
  <1>7. TakenInOrder /\ EmptyReads /\ FilePosIsOffset /\ OffsetFollows
    BY <1>3, <1>5 DEF TakenInOrder, EmptyReads, FilePosIsOffset, OffsetFollows
  <1> QED
    BY <1>1, <1>6, <1>7 DEF OrderInv, InOrder

(* The lists are full only of lines of buffers that were loaded, and at most *)
(* a ring of them is; the parser takes what is in one.                       *)
LEMMA ListedBound ==
  ASSUME RingInv
  PROVE  Listed <= Loaded /\ Listed <= turn["parser"] + NBuf /\ Taken <= Tokenized
  <1>1. /\ TypeOK /\ RingOrder /\ LoadStates /\ TbufStates /\ StateOfOwner
    BY DEF RingInv, LockDiscipline
  <1>2. /\ turn["reader"] \in Nat /\ turn["parser"] \in Nat /\ Loaded \in Nat
        /\ Tokenized \in Nat /\ Returned \in Nat /\ NBuf \in Nat
    BY <1>1, RingNumbers, NBufAssumption
  <1>3. pc["reader"] \in {"endL", "endT"} => turn["reader"] < turn["parser"] + NBuf
    BY <1>1, SlotTells DEF StateOfOwner, InThreadBuffer, Slot
  <1>4. pc["reader"] = "endL" => turn["reader"] < Loaded
    <2>1. pc["reader"] = "endL" => Tokenized = turn["reader"] /\ state[turn["reader"] % NBuf] = "LOADED"
      BY <1>1, <1>2 DEF StateOfOwner, InLoadBuffer, Slot, Tokenized, At
    <2> QED
      BY <1>1, <2>1, SlotTells
  <1>5. pc["reader"] = "endT" => Tokenized = turn["reader"] + 1
    BY DEF Tokenized, At
  <1>6. Listed <= Loaded /\ Listed <= turn["parser"] + NBuf
    <2>1. turn["reader"] <= Tokenized /\ Tokenized <= Loaded /\ turn["reader"] <= turn["parser"] + NBuf
      BY <1>1, <1>2 DEF RingOrder, Tokenized
    <2> QED
      BY <1>2, <1>3, <1>4, <1>5, <2>1 DEF Listed
  <1>7. pc["parser"] = "endL" => turn["parser"] < Tokenized
    <2>1. pc["parser"] = "endL" => Returned = turn["parser"] /\ state[turn["parser"] % NBuf] = "TOKENIZED"
      BY <1>1, <1>2 DEF StateOfOwner, InLoadBuffer, Slot, Returned, At
    <2> QED
      BY <1>1, <2>1, SlotTells
  <1>8. Taken <= Tokenized
    <2>1. turn["parser"] <= Tokenized
      BY <1>1, <1>2 DEF RingOrder, Returned
    <2>2. pc["parser"] = "endT" => turn["parser"] + 1 <= Tokenized
      BY <1>1, <1>2 DEF RingOrder, Returned, At
    <2> QED
      BY <1>2, <1>7, <2>1, <2>2 DEF Taken
  <1> QED
    BY <1>6, <1>8

(* Steps that leave the lists of lines alone.                                *)
LEMMA ListsKept ==
  ASSUME TypeOK,
         \/ Loader \/ ReaderWaitEmpty \/ ReaderEndLoadBuffer \/ ReaderEndThreadBuffer
         \/ ParserWaitFull \/ ParserWaitTokenized \/ ParseLines \/ ParserEndLoadBuffer
         \/ DetermineTraceType \/ GuessTraceType \/ PostBatch \/ PostLast \/ SendEOF
         \/ DeleteThreadBuffers \/ Main \/ Terminated \/ UNCHANGED vars
  PROVE  list' = list /\ Listed' = Listed
  <1>p. PcOK
    BY DEF TypeOK
  <1> USE ThreadsAre, <1>p DEF PcOK, Listed, At, Goto, GotoAndWake, tbufVars
  <1>1. CASE Loader
    BY <1>1 DEF Loader, BeginProduce, ReadFile, AccountRead, WaitForLoadBuffer, CompleteLoadBuffer,
       TypeOK
  <1>2. CASE ReaderWaitEmpty
    BY <1>2 DEF ReaderWaitEmpty, WaitForThreadBuffer
  <1>3. CASE ReaderEndLoadBuffer
    BY <1>3 DEF ReaderEndLoadBuffer, CompleteLoadBuffer
  <1>4. CASE ReaderEndThreadBuffer
    <2>1. /\ pc["reader"] = "endT" /\ pc'["reader"] \notin {"endL", "endT"} /\ list' = list
          /\ turn' = [turn EXCEPT !["reader"] = turn["reader"] + 1]
      BY <1>4 DEF ReaderEndThreadBuffer, CompleteThreadBuffer
    <2>2. turn["reader"] \in Nat /\ turn'["reader"] = turn["reader"] + 1
      BY <2>1 DEF TypeOK
    <2> QED
      BY <2>1, <2>2
  <1>5. CASE ParserWaitFull
    BY <1>5 DEF ParserWaitFull, WaitForThreadBuffer
  <1>6. CASE ParserWaitTokenized
    BY <1>6 DEF ParserWaitTokenized, WaitForLoadBuffer
  <1>7. CASE ParseLines
    BY <1>7 DEF ParseLines
  <1>8. CASE ParserEndLoadBuffer
    BY <1>8 DEF ParserEndLoadBuffer, CompleteLoadBuffer
  <1>9. CASE DetermineTraceType
    BY <1>9 DEF DetermineTraceType, Announce
  <1>10. CASE GuessTraceType
    BY <1>10 DEF GuessTraceType, Announce
  <1>11. CASE PostBatch \/ PostLast \/ SendEOF \/ DeleteThreadBuffers
    BY <1>11 DEF PostBatch, PostLast, SendNextIndex, SendEOF, DeleteThreadBuffers
  <1>12. CASE Main
    BY <1>12 DEF Main, WaitForTraceType, ReadTraceType, WaitForNextBatch, ProcessBatch
  <1>13. CASE Terminated \/ UNCHANGED vars
    BY <1>13 DEF Terminated, vars, ctlVars
  <1> QED
    BY <1>1, <1>2, <1>3, <1>4, <1>5, <1>6, <1>7, <1>8, <1>9, <1>10, <1>11, <1>12, <1>13

(* Whatever is appended, it comes last and the others keep their places.    *)
LEMMA AppendedLast ==
  ASSUME NEW S, NEW q \in Seq(S), NEW x
  PROVE  /\ Len(Append(q, x)) = Len(q) + 1 /\ Append(q, x)[Len(q) + 1] = x
         /\ \A i \in 1 .. Len(q) : Append(q, x)[i] = q[i]
<1>1. q \in Seq(S \union {x})
  OBVIOUS
<1> QED BY <1>1

(* What was read stays, and the new buffer goes where nobody has lines.      *)
LEMMA ReadFileInOrder ==
  ASSUME OrderInv, ReadFile
  PROVE  InOrder'
  <1> DEFINE L == turn["loader"]
  <1>1. /\ TypeOK /\ RingOrder /\ LoadStates /\ TbufStates /\ StateOfOwner
        /\ BytesInOrder /\ LinesInOrder /\ TakenInOrder
        /\ EmptyReads /\ FilePosIsOffset /\ OffsetFollows
        /\ DOMAIN buf = Slots
    BY DEF OrderInv, InOrder, RingInv, LockDiscipline, TypeOK
  <1>2. /\ L \in Nat /\ turn["parser"] \in Nat /\ Loaded \in Nat /\ Tokenized \in Nat
        /\ Listed \in Nat /\ Taken \in Nat /\ Returned \in Nat /\ NBuf \in Nat /\ NBuf > 0
    BY <1>1, RingNumbers, NBufAssumption
  <1>3. /\ turn' = turn /\ Loaded = L /\ Loaded' = L + 1 /\ Returned' = Returned
        /\ UNCHANGED <<parsed, filePos>>
    BY <1>1, ReadFileMoves
  <1>4. list' = list /\ Listed' = Listed
    BY <1>1, ListsKept DEF Loader
  <1>5. Len(file) = L /\ Listed <= L /\ Len(parsed) <= L /\ Len(parsed) \in Nat /\ Returned <= L
    BY <1>1, <1>2, <1>3, ListedBound DEF OrderInv, RingOrder
  <1>6. L < Returned + NBuf
    <2>1. state[L % NBuf] = "EMPTY"
      BY <1>1 DEF ReadFile, StateOfOwner, InLoadBuffer, Slot, At
    <2> QED
      BY <1>1, <1>3, <2>1, SlotTells
  <1>7. PICK b : /\ file' = Append(file, b) /\ buf' = [buf EXCEPT ![L % NBuf] = b]
                 /\ b.filePos = filePos /\ (b.nRead = 0 => b.ev = NoEvents)
    <2>1. PICK c \in Contents, e \in BOOLEAN :
            LET b == [serial |-> Len(file) + 1, filePos |-> filePos,
                      nRead |-> c.nRead, eof |-> e, ev |-> c.ev]
            IN  buf' = [buf EXCEPT ![Slot("loader")] = b] /\ file' = Append(file, b)
      BY DEF ReadFile
    <2> DEFINE d == [serial |-> Len(file) + 1, filePos |-> filePos,
                     nRead |-> c.nRead, eof |-> e, ev |-> c.ev]
    <2>3. d.filePos = filePos /\ d.nRead = c.nRead /\ d.ev = c.ev
      OBVIOUS
    <2>4. file' = Append(file, d) /\ buf' = [buf EXCEPT ![L % NBuf] = d]
      BY <2>1 DEF Slot
    <2> HIDE DEF d
    <2>2. c.nRead = 0 => c.ev = NoEvents
      <3>1. c.nRead = 0 => \A k \in Kinds : c.ev[k] = 0
        BY NoBytesNoEvents
      <3> QED
        BY <3>1, ContentFields DEF NoEvents
    <2> QED
      BY <2>2, <2>3, <2>4
  <1>8. /\ file'[L + 1] = b /\ Len(file') = L + 1
        /\ \A i \in 1 .. L : file'[i] = file[i]
    <2>1. file \in Seq(BufferType)
      BY <1>1 DEF TypeOK
    <2> HIDE DEF L
    <2> QED
      BY ONLY <1>5, <1>7, <2>1, AppendedLast
  <1>9. BytesInOrder'
    <2>1. ASSUME NEW n \in Returned .. L
          PROVE  buf'[n % NBuf] = file'[n + 1]
      <3>1. n \in Nat
        BY <1>2
      <3>2. CASE n = L
        BY <1>1, <1>2, <1>7, <1>8, <3>2, SlotInRing
      <3>3. CASE n # L
        <4>1. n < L /\ L < n + NBuf /\ n + 1 \in 1 .. L /\ n \in Returned .. Loaded - 1
          BY <1>2, <1>3, <1>6, <3>1, <3>3
        <4>2. (n % NBuf) # (L % NBuf)
          BY <1>2, <3>1, <4>1, SlotsDiffer
        <4>3. buf'[n % NBuf] = buf[n % NBuf]
          BY <1>1, <1>7, <3>1, <4>2, SlotInRing
        <4> QED
          BY <1>1, <1>8, <4>1, <4>3 DEF BytesInOrder
      <3> QED
        BY <3>2, <3>3
    <2>2. L \in Returned .. L /\ L + 1 - 1 = L
      BY <1>2, <1>5
    <2> QED
      BY <1>2, <1>3, <2>1, <2>2 DEF BytesInOrder
  <1>10. LinesInOrder'
    <2> SUFFICES ASSUME NEW n \in turn["parser"] .. Listed - 1
                 PROVE  list[n % NBuf].ev = file'[n + 1].ev
      BY <1>3, <1>4 DEF LinesInOrder
    <2>1. n + 1 \in 1 .. L
      BY <1>2, <1>5
    <2> QED
      BY <1>1, <1>8, <2>1 DEF LinesInOrder
  <1>11. TakenInOrder'
    BY <1>1, <1>2, <1>3, <1>5, <1>8 DEF TakenInOrder
  <1>12. EmptyReads' /\ FilePosIsOffset'
    <2>1. \A i \in 1 .. L + 1 : i \in 1 .. L \/ i = L + 1
      BY <1>2
    <2>2. EmptyReads'
      BY <1>1, <1>5, <1>7, <1>8, <2>1 DEF EmptyReads
    <2>3. b.filePos = IF L + 1 = 1 THEN 0 ELSE file[L].filePos + file[L].nRead
      BY <1>1, <1>2, <1>7 DEF OffsetFollows
    <2>4. L + 1 # 1 => file'[L + 1 - 1] = file[L]
      <3>1. L + 1 # 1 => L \in 1 .. L /\ L + 1 - 1 = L
        BY <1>2
      <3> QED
        BY <1>8, <3>1
    <2>5. ASSUME NEW i \in 1 .. L
          PROVE  file'[i].filePos = IF i = 1 THEN 0 ELSE file'[i - 1].filePos + file'[i - 1].nRead
      <3>1. i # 1 => i - 1 \in 1 .. L
        BY <1>2
      <3> QED
        BY <1>1, <1>5, <1>8, <3>1 DEF FilePosIsOffset
    <2>6. file'[L + 1].filePos
            = IF L + 1 = 1 THEN 0 ELSE file'[L + 1 - 1].filePos + file'[L + 1 - 1].nRead
      BY <1>8, <2>3, <2>4
    <2>7. FilePosIsOffset'
      <3> SUFFICES ASSUME NEW i \in 1 .. L + 1
                   PROVE  file'[i].filePos
                            = IF i = 1 THEN 0 ELSE file'[i - 1].filePos + file'[i - 1].nRead
        BY <1>8 DEF FilePosIsOffset
      <3>1. CASE i = L + 1
        BY <1>2, <2>6, <3>1
      <3>2. CASE i \in 1 .. L
        BY <2>5, <3>2
      <3> QED
        BY <2>1, <3>1, <3>2
    <2> QED
      BY <2>2, <2>7
  <1>13. OffsetFollows'
    <2>1. L # 0 => L \in 1 .. L
      BY <1>2
    <2> QED
      BY <1>1, <1>3, <1>8, <2>1 DEF OffsetFollows
  <1> QED
    BY <1>9, <1>10, <1>11, <1>12, <1>13 DEF InOrder

(* The buffer nRead is read from is still the one that was filled.           *)
LEMMA AccountReadInOrder ==
  ASSUME OrderInv, AccountRead
  PROVE  InOrder'
  <1> DEFINE L == turn["loader"]
  <1>1. /\ TypeOK /\ RingOrder /\ BytesInOrder /\ LinesInOrder /\ TakenInOrder
        /\ EmptyReads /\ FilePosIsOffset /\ OffsetFollows
    BY DEF OrderInv, InOrder, RingInv
  <1>2. L \in Nat /\ DOMAIN turn = Threads
    BY <1>1, RingNumbers DEF TypeOK
  <1>3. /\ turn' = [turn EXCEPT !["loader"] = L + 1] /\ Loaded = L + 1 /\ Loaded' = L + 1
        /\ Returned' = Returned /\ UNCHANGED <<file, parsed, buf>>
    BY <1>1, AccountReadMoves
  <1>4. turn'["loader"] = L + 1 /\ turn'["parser"] = turn["parser"]
    BY <1>2, <1>3, ThreadsAre
  <1>5. list' = list /\ Listed' = Listed
    BY <1>1, ListsKept DEF Loader
  <1>6. buf[L % NBuf] = file[L + 1]
    BY <1>1, <1>2, <1>3 DEF BytesInOrder
  <1>7. filePos' = filePos + file[L + 1].nRead
    BY <1>6 DEF AccountRead, Slot
  <1>8. file[L + 1].filePos = filePos
    <2>1. Len(file) = L + 1 /\ L + 1 \in 1 .. Len(file) /\ L + 1 - 1 = L /\ (L + 1 = 1 <=> L = 0)
      BY <1>1, <1>2, <1>3 DEF RingOrder
    <2>2. file[L + 1].filePos
            = IF L + 1 = 1 THEN 0 ELSE file[L + 1 - 1].filePos + file[L + 1 - 1].nRead
      BY <1>1, <1>2, <2>1 DEF FilePosIsOffset
    <2>3. filePos = IF L = 0 THEN 0 ELSE file[L].filePos + file[L].nRead
      BY <1>1 DEF OffsetFollows
    <2> QED
      BY <2>1, <2>2, <2>3
  <1>9. OffsetFollows'
    BY <1>2, <1>3, <1>4, <1>7, <1>8 DEF OffsetFollows
  <1>10. BytesInOrder'
    BY <1>1, <1>2, <1>3, <1>4 DEF BytesInOrder
  <1> QED
    BY <1>1, <1>3, <1>4, <1>5, <1>9, <1>10
       DEF InOrder, LinesInOrder, TakenInOrder, EmptyReads, FilePosIsOffset

(* The buffer the reader waited for is the next one of the file.             *)
LEMMA ReaderHasNext ==
  ASSUME OrderInv, Tokenized = turn["reader"], state[turn["reader"] % NBuf] = "LOADED"
  PROVE  /\ turn["reader"] + 1 \in 1 .. Len(file)
         /\ buf[turn["reader"] % NBuf] = file[turn["reader"] + 1]
  <1> DEFINE R == turn["reader"]
  <1>1. TypeOK /\ RingOrder /\ LoadStates /\ TbufStates /\ BytesInOrder
    BY DEF OrderInv, InOrder, RingInv
  <1>2. R \in Nat /\ Loaded \in Nat /\ Returned \in Nat
    BY <1>1, RingNumbers
  <1>3. R < Loaded
    BY <1>1, SlotTells
  <1>4. R \in Returned .. Loaded - 1 /\ R + 1 \in 1 .. Len(file)
    BY <1>1, <1>2, <1>3 DEF RingOrder
  <1> QED
    BY <1>1, <1>4 DEF BytesInOrder

(* The reader clears the list of a slot whose lines were all taken, and fills *)
(* it with those of the buffer that has its number; the empty last buffer it  *)
(* skips has no lines.                                                        *)
LEMMA ReaderListsInOrder ==
  ASSUME OrderInv, ReaderWaitLoaded \/ Tokenize
  PROVE  InOrder'
  <1> DEFINE R == turn["reader"]
             P == turn["parser"]
             s == R % NBuf
  <1>1. /\ TypeOK /\ RingOrder /\ LoadStates /\ TbufStates /\ StateOfOwner
        /\ BytesInOrder /\ LinesInOrder /\ TakenInOrder
        /\ EmptyReads /\ FilePosIsOffset /\ OffsetFollows
        /\ DOMAIN list = Slots /\ PcOK
    BY DEF OrderInv, InOrder, RingInv, LockDiscipline, TypeOK
  <1>2. /\ R \in Nat /\ P \in Nat /\ Loaded \in Nat /\ Tokenized \in Nat /\ Returned \in Nat
        /\ NBuf \in Nat /\ NBuf > 0 /\ s \in Slots
    <2>1. R \in Nat /\ P \in Nat /\ Loaded \in Nat /\ Tokenized \in Nat /\ Returned \in Nat
      BY <1>1, RingNumbers
    <2>2. NBuf \in Nat /\ NBuf > 0
      BY NBufAssumption
    <2> HIDE DEF R, P
    <2>3. s \in Slots
      BY <2>1, SlotInRing
    <2> QED
      BY <2>1, <2>2, <2>3
  <1>3. /\ turn' = turn /\ Loaded' = Loaded /\ Returned' = Returned
        /\ UNCHANGED <<file, parsed, filePos, buf>>
    BY <1>1, QuietSteps
  <1>4. /\ BytesInOrder' /\ TakenInOrder' /\ EmptyReads' /\ FilePosIsOffset' /\ OffsetFollows'
    BY <1>1, <1>3 DEF BytesInOrder, TakenInOrder, EmptyReads, FilePosIsOffset, OffsetFollows
  <1> SUFFICES LinesInOrder'
    BY <1>4 DEF InOrder
  <1>5. pc["reader"] \in {"lockL", "work"}
    BY DEF ReaderWaitLoaded, Tokenize, WaitForLoadBuffer, At
  <1>6. Tokenized = R /\ Listed = R
    BY <1>2, <1>5 DEF Tokenized, Listed, At
  <1>7. R < P + NBuf
    BY <1>1, <1>5, SlotTells DEF StateOfOwner, InThreadBuffer, Slot
  <1>8. ASSUME NEW n \in P .. R - 1
        PROVE  n \in Nat /\ (n % NBuf) # s /\ (n % NBuf) \in Slots
    <2>1. n \in Nat /\ n < R /\ R < n + NBuf
      BY <1>2, <1>7
    <2> QED
      BY <1>2, <2>1, SlotsDiffer, SlotInRing
  <1>9. state[s] = "LOADED" => buf[s] = file[R + 1] /\ R + 1 \in 1 .. Len(file)
    BY <1>6, ReaderHasNext
  <1>10. CASE ReaderWaitLoaded /\ state[s] # "LOADED"
    <2>1. list' = list /\ pc'["reader"] = "sleepL"
      BY <1>1, <1>10, ThreadsAre DEF ReaderWaitLoaded, WaitForLoadBuffer, Slot, Goto, PcOK
    <2>2. Listed' = R
      BY <1>2, <1>3, <2>1 DEF Listed
    <2> QED
      BY <1>1, <1>3, <1>6, <2>1, <2>2 DEF LinesInOrder
  <1>11. CASE ReaderWaitLoaded /\ state[s] = "LOADED"
    <2>1. /\ list' = [list EXCEPT ![s] = Nothing]
          /\ pc'["reader"] = IF R > 0 /\ buf[s].eof /\ buf[s].nRead = 0 THEN "endL" ELSE "work"
      BY <1>1, <1>11, ThreadsAre DEF ReaderWaitLoaded, WaitForLoadBuffer, Slot, Goto, PcOK
    <2>2. \A n \in P .. R - 1 : list'[n % NBuf].ev = file[n + 1].ev
      BY <1>1, <1>6, <1>8, <2>1 DEF LinesInOrder
    <2>3. list'[s].ev = NoEvents
      BY <1>1, <1>2, <2>1 DEF Nothing
    <2>4. CASE pc'["reader"] = "work"
      <3>1. Listed' = R
        BY <1>2, <1>3, <2>4 DEF Listed
      <3> QED
        BY <1>3, <2>2, <3>1 DEF LinesInOrder
    <2>5. CASE pc'["reader"] = "endL"
      <3>1. Listed' = R + 1
        BY <1>2, <1>3, <2>5 DEF Listed
      <3>2. file[R + 1].ev = NoEvents
        BY <1>1, <1>9, <1>11, <2>1, <2>5 DEF EmptyReads
      <3>3. \A n \in P .. R + 1 - 1 : n = R \/ n \in P .. R - 1
        BY <1>2
      <3> SUFFICES ASSUME NEW n \in P .. R + 1 - 1
                   PROVE  list'[n % NBuf].ev = file[n + 1].ev
        BY <1>2, <1>3, <3>1 DEF LinesInOrder
      <3>4. CASE n = R
        BY <2>3, <3>2, <3>4
      <3>5. CASE n \in P .. R - 1
        BY <2>2, <3>5
      <3> QED
        BY <3>3, <3>4, <3>5
    <2> QED
      BY <2>1, <2>4, <2>5
  <1>12. CASE Tokenize
    <2>1. /\ list' = [list EXCEPT ![s] = buf[s]] /\ pc["reader"] = "work" /\ pc'["reader"] = "endL"
      BY <1>1, <1>12, ThreadsAre DEF Tokenize, Slot, Goto, At, PcOK
    <2>2. state[s] = "LOADED"
      BY <1>1, <2>1 DEF StateOfOwner, InLoadBuffer, Slot
    <2>3. list'[s].ev = file[R + 1].ev
      BY <1>1, <1>2, <1>9, <2>1, <2>2
    <2>4. \A n \in P .. R - 1 : list'[n % NBuf].ev = file[n + 1].ev
      BY <1>1, <1>6, <1>8, <2>1 DEF LinesInOrder
    <2>5. Listed' = R + 1
      BY <1>2, <1>3, <2>1 DEF Listed
    <2>6. \A n \in P .. R + 1 - 1 : n = R \/ n \in P .. R - 1
      BY <1>2
    <2> SUFFICES ASSUME NEW n \in P .. R + 1 - 1
                 PROVE  list'[n % NBuf].ev = file[n + 1].ev
      BY <1>2, <1>3, <2>5 DEF LinesInOrder
    <2>7. CASE n = R
      BY <2>3, <2>7
    <2>8. CASE n \in P .. R - 1
      BY <2>4, <2>8
    <2> QED
      BY <2>6, <2>7, <2>8
  <1> QED
    BY <1>10, <1>11, <1>12

(* What the parser takes is the next buffer of the file.                     *)
LEMMA ParseLinesTakesNext ==
  ASSUME OrderInv, ParseLines
  PROVE  /\ turn["parser"] + 1 \in 1 .. Len(file) /\ Len(parsed) = turn["parser"]
         /\ buf[turn["parser"] % NBuf] = file[turn["parser"] + 1]
         /\ list[turn["parser"] % NBuf].ev = file[turn["parser"] + 1].ev
         /\ parsed' = Append(parsed, file[turn["parser"] + 1])
  <1> DEFINE P == turn["parser"]
             s == P % NBuf
  <1>1. /\ TypeOK /\ RingOrder /\ LoadStates /\ TbufStates /\ StateOfOwner
        /\ BytesInOrder /\ LinesInOrder
    BY DEF OrderInv, InOrder, RingInv, LockDiscipline
  <1>2. /\ P \in Nat /\ turn["reader"] \in Nat /\ Loaded \in Nat /\ Tokenized \in Nat
        /\ Returned \in Nat /\ Listed \in Nat
    BY <1>1, RingNumbers
  <1>3. /\ pc["parser"] = "work" /\ Taken = P /\ Returned = P
    BY <1>1, ParseLinesMoves DEF ParseLines, At
  <1>4. P < Tokenized
    <2>1. state[s] = "TOKENIZED"
      BY <1>1, <1>3 DEF StateOfOwner, InLoadBuffer, Slot
    <2> QED
      BY <1>1, <1>3, <2>1, SlotTells
  <1>5. P < turn["reader"]
    <2>1. ~isEmpty[s]
      BY <1>1, <1>3 DEF StateOfOwner, InThreadBuffer, Slot
    <2> QED
      BY <1>1, <2>1, SlotTells
  <1>6. P + 1 \in 1 .. Len(file) /\ Len(parsed) = P
    BY <1>1, <1>2, <1>3, <1>4 DEF RingOrder
  <1>7. buf[s] = file[P + 1]
    <2>1. P \in Returned .. Loaded - 1
      BY <1>1, <1>2, <1>3, <1>4 DEF RingOrder
    <2> QED
      BY <1>1, <2>1 DEF BytesInOrder
  <1>8. list[s].ev = file[P + 1].ev
    <2>1. P \in P .. Listed - 1
      BY <1>2, <1>5 DEF Listed
    <2> QED
      BY <1>1, <2>1 DEF LinesInOrder
  <1>9. parsed' = Append(parsed, file[P + 1])
    <2> DEFINE f == file[P + 1]
    <2>1. f \in BufferType
      BY <1>1, <1>6 DEF TypeOK
    <2>2. f = [serial |-> f.serial, filePos |-> f.filePos, nRead |-> f.nRead, eof |-> f.eof,
               ev |-> f.ev]
      BY <2>1 DEF BufferType
    <2> QED
      BY <1>7, <1>8, <2>2 DEF ParseLines, Slot
  <1> QED
    BY <1>6, <1>7, <1>8, <1>9

(* The parser's steps in the ring.                                           *)
LEMMA ParserInOrder ==
  ASSUME OrderInv, ParseLines \/ ParserEndLoadBuffer \/ ParserEndThreadBuffer
  PROVE  InOrder'
  <1> DEFINE P == turn["parser"]
  <1>1. /\ TypeOK /\ RingOrder /\ BytesInOrder /\ LinesInOrder /\ TakenInOrder
        /\ EmptyReads /\ FilePosIsOffset /\ OffsetFollows
        /\ DOMAIN list = Slots /\ DOMAIN turn = Threads /\ PcOK
    BY DEF OrderInv, InOrder, RingInv, TypeOK
  <1>2. /\ P \in Nat /\ Loaded \in Nat /\ Returned \in Nat /\ Listed \in Nat
        /\ NBuf \in Nat /\ NBuf > 0 /\ Len(file) \in Nat
    BY <1>1, RingNumbers, NBufAssumption
  <1>3. CASE ParseLines
    <2>1. /\ turn' = turn /\ Loaded' = Loaded /\ Returned' = Returned
          /\ UNCHANGED <<file, filePos, buf>>
      BY <1>1, <1>3, ParseLinesMoves
    <2>2. list' = list /\ Listed' = Listed
      BY <1>1, <1>3, ListsKept
    <2>3. P + 1 \in 1 .. Len(file) /\ Len(parsed) = P /\ parsed' = Append(parsed, file[P + 1])
      BY <1>3, ParseLinesTakesNext
    <2>4. TakenInOrder'
      <3>1. Len(parsed') = P + 1 /\ parsed'[P + 1] = file[P + 1]
            /\ \A i \in 1 .. P : parsed'[i] = parsed[i]
        BY <1>1, <1>2, <2>3 DEF TypeOK
      <3>2. \A i \in 1 .. P + 1 : i = P + 1 \/ i \in 1 .. P
        BY <1>2
      <3> QED
        BY <1>1, <2>1, <2>3, <3>1, <3>2 DEF TakenInOrder
    <2> QED
      BY <1>1, <2>1, <2>2, <2>4
         DEF InOrder, BytesInOrder, LinesInOrder, EmptyReads, FilePosIsOffset, OffsetFollows
  <1>4. CASE ParserEndLoadBuffer
    <2>1. /\ turn' = turn /\ Loaded' = Loaded /\ Returned = P /\ Returned' = P + 1
          /\ UNCHANGED <<file, parsed, filePos, buf>>
      BY <1>1, <1>4, ParserEndLoadBufferMoves
    <2>2. list' = list /\ Listed' = Listed
      BY <1>1, <1>4, ListsKept
    <2>3. \A n \in P + 1 .. Loaded - 1 : n \in P .. Loaded - 1
      BY <1>2
    <2> QED
      BY <1>1, <2>1, <2>2, <2>3
         DEF InOrder, BytesInOrder, LinesInOrder, TakenInOrder, EmptyReads, FilePosIsOffset,
             OffsetFollows
  <1>5. CASE ParserEndThreadBuffer
    <2>1. /\ turn' = [turn EXCEPT !["parser"] = P + 1] /\ Loaded' = Loaded
          /\ Returned' = Returned /\ list' = [list EXCEPT ![P % NBuf] = Nothing]
          /\ UNCHANGED <<file, parsed, filePos, buf>>
      BY <1>1, <1>5, ParserEndThreadBufferMoves
    <2>2. turn'["parser"] = P + 1 /\ turn'["loader"] = turn["loader"] /\ turn'["reader"] = turn["reader"]
      BY <1>1, <2>1, ThreadsAre
    <2>3. Listed' = Listed
      <3>1. pc'["reader"] \in {"endL", "endT"} <=> pc["reader"] \in {"endL", "endT"}
        BY <1>1, <1>5, ThreadsAre
           DEF ParserEndThreadBuffer, CompleteThreadBuffer, GotoAndWake, PcOK
      <3> QED
        BY <2>2, <3>1 DEF Listed
    <2>4. LinesInOrder'
      <3> SUFFICES ASSUME NEW n \in P + 1 .. Listed - 1
                   PROVE  list'[n % NBuf].ev = file[n + 1].ev
        BY <2>1, <2>2, <2>3 DEF LinesInOrder
      <3>1. Listed <= P + NBuf
        BY ListedBound DEF OrderInv
      <3>2. n \in Nat /\ P < n /\ n < P + NBuf /\ n \in P .. Listed - 1
        BY <1>2, <3>1
      <3>3. (n % NBuf) # (P % NBuf)
        BY <1>2, <3>2, SlotsDiffer
      <3>4. list'[n % NBuf] = list[n % NBuf]
        BY <1>1, <2>1, <3>2, <3>3, SlotInRing
      <3> QED
        BY <1>1, <3>2, <3>4 DEF LinesInOrder
    <2> QED
      BY <1>1, <2>1, <2>2, <2>4
         DEF InOrder, BytesInOrder, TakenInOrder, EmptyReads, FilePosIsOffset, OffsetFollows
  <1> QED
    BY <1>3, <1>4, <1>5

(* OrderInv is inductive.                                                    *)
LEMMA NextOrder ==
  ASSUME OrderInv, [Next]_vars
  PROVE  OrderInv'
  <1>1. RingInv'
    BY NextTypeOK, NextLock, NextRing DEF OrderInv, RingInv
  <1>2. TypeOK /\ InOrder
    BY DEF OrderInv, RingInv
  <1>3. ASSUME turn' = turn, Loaded' = Loaded, Returned' = Returned, list' = list, Listed' = Listed,
               UNCHANGED <<file, parsed, filePos, buf>>
        PROVE  InOrder'
    BY <1>2, <1>3 DEF InOrder, BytesInOrder, LinesInOrder, TakenInOrder, EmptyReads,
       FilePosIsOffset, OffsetFollows
  <1>4. CASE ReadFile \/ AccountRead
    BY <1>1, <1>4, ReadFileInOrder, AccountReadInOrder DEF OrderInv
  <1>5. CASE ReaderWaitLoaded \/ Tokenize
    BY <1>1, <1>5, ReaderListsInOrder DEF OrderInv
  <1>6. CASE ReaderEndLoadBuffer
    <2>1. /\ turn' = turn /\ Loaded' = Loaded /\ Returned' = Returned
          /\ UNCHANGED <<file, parsed, filePos, buf>>
      BY <1>2, <1>6, ReaderEndLoadBufferMoves
    <2>2. list' = list /\ Listed' = Listed
      BY <1>2, <1>6, ListsKept
    <2> QED
      BY <1>1, <1>3, <2>1, <2>2 DEF OrderInv
  <1>7. CASE ReaderEndThreadBuffer
    <2>1. /\ turn'["loader"] = turn["loader"] /\ turn'["parser"] = turn["parser"]
          /\ Loaded' = Loaded /\ Returned' = Returned
          /\ UNCHANGED <<file, parsed, filePos, buf>>
      BY <1>2, <1>7, ReaderEndThreadBufferMoves, ThreadsAre DEF TypeOK
    <2>2. list' = list /\ Listed' = Listed
      BY <1>2, <1>7, ListsKept
    <2> QED
      BY <1>1, <1>2, <2>1, <2>2 DEF OrderInv, InOrder, BytesInOrder, LinesInOrder, TakenInOrder,
         EmptyReads, FilePosIsOffset, OffsetFollows
  <1>8. CASE ParseLines \/ ParserEndLoadBuffer \/ ParserEndThreadBuffer
    BY <1>1, <1>8, ParserInOrder DEF OrderInv
  <1>9. CASE \/ BeginProduce \/ ReaderWaitEmpty \/ ParserWaitFull \/ ParserWaitTokenized
             \/ DetermineTraceType \/ GuessTraceType \/ PostBatch \/ PostLast \/ SendEOF
             \/ DeleteThreadBuffers \/ Main \/ Terminated \/ UNCHANGED vars
    BY <1>1, <1>2, <1>3, <1>9, QuietSteps, ListsKept DEF OrderInv, Loader
  <1> QED
    BY <1>4, <1>5, <1>6, <1>7, <1>8, <1>9 DEF Next, Loader, Reader, Parser

(* The parser takes the buffers of the file one by one in their order, with  *)
(* the events of the lines of each of them, and each buffer has the offset   *)
(* its bytes have in the file, whatever the order of the threads' steps.     *)
THEOREM ParsedInOrder == Spec => []ParsedInFileOrder
  <1>1. OrderInv => ParsedInFileOrder
    <2> SUFFICES ASSUME OrderInv PROVE ParsedInFileOrder
      OBVIOUS
    <2>1. TypeOK /\ RingOrder /\ TakenInOrder /\ FilePosIsOffset
      BY DEF OrderInv, InOrder, RingInv
    <2>2. Len(parsed) <= Len(file) /\ Len(parsed) \in Nat /\ Len(file) \in Nat
      <3>1. Taken <= Tokenized /\ Tokenized <= Loaded
        BY <2>1, ListedBound DEF OrderInv, RingOrder
      <3> QED
        BY <2>1, <3>1, RingNumbers DEF RingOrder
    <2>3. parsed = SubSeq(file, 1, Len(parsed))
      BY <2>1, <2>2, SMTT(30) DEF TypeOK, TakenInOrder
    <2> QED
      BY <2>1, <2>3 DEF ParsedInFileOrder
  <1> QED
    BY InitOrder, NextOrder, <1>1, PTL DEF Spec

-----------------------------------------------------------------------------
(* The end of the file.                                                      *)

(* Only the last buffer of the file is marked, and each thread stops when it *)
(* has seen the mark.                                                        *)
EofIsLast == \A i \in 1 .. Len(file) - 1 : ~file[i].eof
LoaderEof ==
  pc["loader"] \in {"lockL", "sleepL", "work"} => turn["loader"] = 0 \/ ~file[turn["loader"]].eof
ReaderEof ==
  /\ pc["reader"] # "done" => turn["reader"] = 0 \/ ~file[turn["reader"]].eof
  /\ pc["reader"] \in {"work", "endL", "endT"} => eof["reader"] = file[turn["reader"] + 1].eof
ParserEof ==
  /\ pc["parser"] \in {"endL", "endT", "type"} => Taken > 0 /\ eof["parser"] = file[Taken].eof
  /\ pc["parser"] \in {"guess", "lastPost", "sendEOF", "delete", "done"} =>
       turn["parser"] > 0 /\ file[turn["parser"]].eof
  /\ tbufLive = {} => pc["parser"] = "done"

EofInOrder == EofIsLast /\ LoaderEof /\ ReaderEof /\ ParserEof

(* At the start no thread has seen the end.                                  *)
LEMMA InitEof == Init => EofInOrder
  <1> SUFFICES ASSUME Init PROVE EofInOrder
    OBVIOUS
  <1>1. /\ pc["loader"] = "lockL" /\ pc["reader"] = "lockT" /\ pc["parser"] = "lockT"
        /\ turn["loader"] = 0 /\ turn["reader"] = 0
    BY ThreadsAre DEF Init
  <1>2. Len(file) = 0 /\ tbufLive = Slots
    BY DEF Init
  <1>3. Slots # {}
    BY NBufAssumption DEF Slots
  <1> QED
    BY <1>1, <1>2, <1>3 DEF EofInOrder, EofIsLast, LoaderEof, ReaderEof, ParserEof

(* No thread is beyond the end of what was read.                             *)
LEMMA InFile ==
  ASSUME OrderInv
  PROVE  /\ turn["loader"] <= Len(file) /\ turn["reader"] <= Len(file)
         /\ turn["parser"] <= Len(file) /\ Taken <= Len(file)
         /\ pc["reader"] \in {"work", "endL", "endT"} => turn["reader"] + 1 <= Len(file)
  <1>1. TypeOK /\ RingInv /\ RingOrder /\ LoadStates /\ TbufStates /\ StateOfOwner
    BY DEF OrderInv, RingInv, LockDiscipline
  <1>2. /\ turn["loader"] \in Nat /\ turn["reader"] \in Nat /\ turn["parser"] \in Nat
        /\ Loaded \in Nat /\ Tokenized \in Nat /\ Taken \in Nat
    BY <1>1, RingNumbers
  <1>3. turn["loader"] <= Loaded /\ turn["reader"] <= Tokenized /\ turn["parser"] <= Taken
    BY <1>2 DEF Loaded, Tokenized, Taken
  <1>4. Taken <= Tokenized /\ Tokenized <= Loaded /\ Loaded = Len(file)
    BY <1>1, ListedBound DEF RingOrder
  <1>5. pc["reader"] \in {"work", "endL"} => turn["reader"] + 1 <= Len(file)
    <2>1. pc["reader"] \in {"work", "endL"} =>
            Tokenized = turn["reader"] /\ state[turn["reader"] % NBuf] = "LOADED"
      BY <1>1, <1>2 DEF StateOfOwner, InLoadBuffer, Slot, Tokenized, At
    <2> QED
      BY <1>2, <2>1, ReaderHasNext
  <1>6. pc["reader"] = "endT" => turn["reader"] + 1 <= Len(file)
    BY <1>2, <1>4 DEF Tokenized, At
  <1> QED
    BY <1>2, <1>3, <1>4, <1>5, <1>6

(* The loader's steps.                                                       *)
LEMMA LoaderKeepsEof ==
  ASSUME OrderInv, EofInOrder, Loader
  PROVE  EofInOrder'
  <1> DEFINE L == turn["loader"]
             R == turn["reader"]
             P == turn["parser"]
  <1>1. /\ TypeOK /\ RingOrder /\ BytesInOrder /\ PcOK /\ DOMAIN turn = Threads
        /\ EofIsLast /\ LoaderEof /\ ReaderEof /\ ParserEof
    BY DEF OrderInv, InOrder, RingInv, EofInOrder, TypeOK
  <1>2. /\ L \in Nat /\ R \in Nat /\ P \in Nat /\ Taken \in Nat /\ Len(file) \in Nat
        /\ L <= Len(file) /\ R <= Len(file) /\ P <= Len(file) /\ Taken <= Len(file)
        /\ pc["reader"] \in {"work", "endL", "endT"} => R + 1 <= Len(file)
    BY <1>1, RingNumbers, InFile
  <1> USE ThreadsAre DEF At, Goto
  <1>3. /\ eof'["reader"] = eof["reader"] /\ eof'["parser"] = eof["parser"]
        /\ tbufLive' = tbufLive /\ pc'["parser"] = pc["parser"]
        /\ \/ pc'["reader"] = pc["reader"]
           \/ pc["reader"] = "sleepL" /\ pc'["reader"] = "lockL"
    BY <1>1 DEF Loader, BeginProduce, ReadFile, AccountRead, WaitForLoadBuffer, CompleteLoadBuffer,
       GotoAndWake, PcOK, TypeOK, tbufVars
  <1>4. CASE BeginProduce
    <2>1. turn' = turn /\ Taken' = Taken /\ file' = file
      BY <1>1, <1>4, QuietSteps
    <2>2. pc["loader"] = "lockL"
      BY <1>4 DEF BeginProduce, WaitForLoadBuffer
    <2> QED
      BY <1>1, <1>3, <2>1, <2>2 DEF EofInOrder, EofIsLast, LoaderEof, ReaderEof, ParserEof
  <1>5. CASE ReadFile
    <2>1. turn' = turn /\ Taken' = Taken /\ Loaded = L
      BY <1>1, <1>5, ReadFileMoves
    <2>2. Len(file) = L
      BY <1>1, <2>1 DEF RingOrder
    <2>3. Len(file') = L + 1 /\ \A i \in 1 .. L : file'[i] = file[i]
      BY <1>1, <1>5, <2>2, SMTT(30) DEF ReadFile, TypeOK
    <2>4. pc["loader"] = "work" /\ pc'["loader"] = "account"
      BY <1>1, <1>5 DEF ReadFile, CompleteLoadBuffer, GotoAndWake, PcOK
    <2>5. EofIsLast'
      <3> SUFFICES ASSUME NEW i \in 1 .. L PROVE ~file'[i].eof
        BY <1>2, <2>3 DEF EofIsLast
      <3>1. L # 0 /\ (i = L \/ i \in 1 .. L - 1)
        BY <1>2
      <3> QED
        BY <1>1, <2>2, <2>3, <2>4, <3>1 DEF EofIsLast, LoaderEof
    <2>6. LoaderEof'
      BY <2>4 DEF LoaderEof
    <2>7. ReaderEof'
      <3>1. R # 0 => file'[R] = file[R]
        BY <1>2, <2>2, <2>3
      <3>2. pc["reader"] \in {"work", "endL", "endT"} => file'[R + 1] = file[R + 1]
        BY <1>2, <2>2, <2>3
      <3> QED
        BY <1>1, <1>3, <2>1, <3>1, <3>2 DEF ReaderEof
    <2>8. ParserEof'
      <3>1. (P > 0 => file'[P] = file[P]) /\ (Taken > 0 => file'[Taken] = file[Taken])
        BY <1>2, <2>2, <2>3
      <3> QED
        BY <1>1, <1>3, <2>1, <3>1 DEF ParserEof
    <2> QED
      BY <2>5, <2>6, <2>7, <2>8 DEF EofInOrder
  <1>6. CASE AccountRead
    <2>1. /\ turn' = [turn EXCEPT !["loader"] = L + 1] /\ Taken' = Taken /\ file' = file
          /\ Loaded = L + 1
      BY <1>1, <1>6, AccountReadMoves
    <2>2. turn'["loader"] = L + 1 /\ turn'["reader"] = R /\ turn'["parser"] = P
      BY <1>1, <2>1
    <2>3. buf[Slot("loader")] = file[L + 1]
      BY <1>1, <1>2, <2>1 DEF BytesInOrder, Slot
    <2>4. pc'["loader"] = IF file[L + 1].eof THEN "done" ELSE "lockL"
      BY <1>1, <1>6, <2>3 DEF AccountRead, PcOK
    <2>5. LoaderEof'
      BY <2>1, <2>2, <2>4 DEF LoaderEof
    <2> QED
      BY <1>1, <1>3, <2>1, <2>2, <2>5 DEF EofInOrder, EofIsLast, ReaderEof, ParserEof
  <1> QED
    BY <1>4, <1>5, <1>6 DEF Loader

(* The reader's steps.                                                       *)
LEMMA ReaderKeepsEof ==
  ASSUME OrderInv, EofInOrder, Reader
  PROVE  EofInOrder'
  <1> DEFINE R == turn["reader"]
  <1>1. /\ TypeOK /\ RingOrder /\ PcOK /\ DOMAIN turn = Threads /\ DOMAIN eof = Threads
        /\ EofIsLast /\ LoaderEof /\ ReaderEof /\ ParserEof
    BY DEF OrderInv, RingInv, EofInOrder, TypeOK
  <1>2. R \in Nat
    BY <1>1, RingNumbers
  <1> USE ThreadsAre DEF At, Goto
  <1>3. /\ eof'["parser"] = eof["parser"] /\ tbufLive' = tbufLive /\ pc'["loader"] = pc["loader"]
        /\ \/ pc'["parser"] = pc["parser"]
           \/ pc["parser"] \in {"sleepL", "sleepT"} /\ pc'["parser"] \in {"lockL", "lockT"}
    BY <1>1 DEF Reader, ReaderWaitEmpty, ReaderWaitLoaded, Tokenize, ReaderEndLoadBuffer,
       ReaderEndThreadBuffer, WaitForLoadBuffer, WaitForThreadBuffer, CompleteLoadBuffer,
       CompleteThreadBuffer, GotoAndWake, PcOK, tbufVars
  <1>4. Taken' = Taken /\ file' = file
    BY <1>1, QuietSteps, ReaderEndLoadBufferMoves, ReaderEndThreadBufferMoves DEF Reader
  <1>5. EofIsLast'
    BY <1>1, <1>4 DEF EofIsLast
  <1>6. turn'["loader"] = turn["loader"] /\ turn'["parser"] = turn["parser"]
    BY <1>1, QuietSteps, ReaderEndLoadBufferMoves, ReaderEndThreadBufferMoves DEF Reader
  <1>7. LoaderEof' /\ ParserEof'
    BY <1>1, <1>3, <1>4, <1>6 DEF LoaderEof, ParserEof
  <1>8. CASE ReaderWaitEmpty
    <2>1. turn' = turn /\ pc["reader"] = "lockT" /\ pc'["reader"] \in {"lockL", "sleepT"}
      BY <1>1, <1>8, QuietSteps DEF ReaderWaitEmpty, WaitForThreadBuffer, PcOK
    <2>2. ReaderEof'
      BY <1>1, <1>4, <2>1 DEF ReaderEof
    <2> QED
      BY <1>5, <1>7, <2>2 DEF EofInOrder
  <1>9. CASE ReaderWaitLoaded
    <2>1. turn' = turn /\ pc["reader"] = "lockL" /\ Tokenized = R
      BY <1>1, <1>2, <1>9, QuietSteps DEF ReaderWaitLoaded, WaitForLoadBuffer, Tokenized
    <2>2. CASE state[R % NBuf] = "LOADED"
      <3>1. buf[R % NBuf] = file[R + 1]
        BY <2>1, <2>2, ReaderHasNext
      <3>2. eof'["reader"] = file[R + 1].eof /\ pc'["reader"] \in {"work", "endL"}
        BY <1>1, <1>9, <2>2, <3>1 DEF ReaderWaitLoaded, WaitForLoadBuffer, Slot, PcOK
      <3>3. ReaderEof'
        BY <1>1, <1>4, <2>1, <3>2 DEF ReaderEof
      <3> QED
        BY <1>5, <1>7, <3>3 DEF EofInOrder
    <2>3. CASE state[R % NBuf] # "LOADED"
      <3>1. pc'["reader"] = "sleepL"
        BY <1>1, <1>9, <2>3 DEF ReaderWaitLoaded, WaitForLoadBuffer, Slot, PcOK
      <3>2. ReaderEof'
        BY <1>1, <1>4, <2>1, <3>1 DEF ReaderEof
      <3> QED
        BY <1>5, <1>7, <3>2 DEF EofInOrder
    <2> QED
      BY <2>2, <2>3
  <1>10. CASE Tokenize \/ ReaderEndLoadBuffer
    <2>1. /\ turn' = turn /\ pc["reader"] \in {"work", "endL"} /\ pc'["reader"] \in {"endL", "endT"}
          /\ eof' = eof
      BY <1>1, <1>10, QuietSteps, ReaderEndLoadBufferMoves
         DEF Tokenize, ReaderEndLoadBuffer, CompleteLoadBuffer, GotoAndWake, PcOK
    <2>2. ReaderEof'
      BY <1>1, <1>4, <2>1 DEF ReaderEof
    <2> QED
      BY <1>5, <1>7, <2>2 DEF EofInOrder
  <1>11. CASE ReaderEndThreadBuffer
    <2>1. /\ turn'["reader"] = R + 1 /\ pc["reader"] = "endT"
          /\ pc'["reader"] = IF eof["reader"] THEN "done" ELSE "lockT"
      BY <1>1, <1>11, ReaderEndThreadBufferMoves
         DEF ReaderEndThreadBuffer, CompleteThreadBuffer, GotoAndWake, PcOK
    <2>2. ReaderEof'
      BY <1>1, <1>4, <2>1 DEF ReaderEof
    <2> QED
      BY <1>5, <1>7, <2>2 DEF EofInOrder
  <1> QED
    BY <1>8, <1>9, <1>10, <1>11 DEF Reader

(* The parser's and the main thread's steps.                                 *)
LEMMA ParserKeepsEof ==
  ASSUME OrderInv, EofInOrder, Parser \/ Main \/ Terminated \/ UNCHANGED vars
  PROVE  EofInOrder'
  <1> DEFINE P == turn["parser"]
  <1>1. /\ TypeOK /\ RingOrder /\ PcOK /\ DOMAIN turn = Threads /\ DOMAIN eof = Threads
        /\ EofIsLast /\ LoaderEof /\ ReaderEof /\ ParserEof
    BY DEF OrderInv, RingInv, EofInOrder, TypeOK
  <1>2. P \in Nat
    BY <1>1, RingNumbers
  <1> USE ThreadsAre DEF At, Goto
  <1>3. /\ file' = file
        /\ turn'["loader"] = turn["loader"] /\ turn'["reader"] = turn["reader"]
    BY <1>1, QuietSteps, ParseLinesMoves, ParserEndLoadBufferMoves, ParserEndThreadBufferMoves
       DEF Parser
  <1>4. /\ eof'["reader"] = eof["reader"]
        /\ \/ pc'["loader"] = pc["loader"]
           \/ pc["loader"] = "sleepL" /\ pc'["loader"] = "lockL"
        /\ \/ pc'["reader"] = pc["reader"]
           \/ pc["reader"] = "sleepT" /\ pc'["reader"] = "lockT"
    <2>1. CASE ParserWaitFull \/ ParserWaitTokenized \/ ParseLines \/ ParserEndLoadBuffer
               \/ ParserEndThreadBuffer
      BY <1>1, <2>1 DEF ParserWaitFull, ParserWaitTokenized, ParseLines, ParserEndLoadBuffer,
         ParserEndThreadBuffer, WaitForLoadBuffer, WaitForThreadBuffer, CompleteLoadBuffer,
         CompleteThreadBuffer, GotoAndWake, PcOK
    <2>2. CASE DetermineTraceType \/ GuessTraceType
      BY <1>1, <2>2 DEF DetermineTraceType, GuessTraceType, Announce, PcOK
    <2>3. CASE PostBatch \/ PostLast \/ SendEOF \/ DeleteThreadBuffers
      BY <1>1, <2>3 DEF PostBatch, PostLast, SendNextIndex, SendEOF, DeleteThreadBuffers, PcOK
    <2>4. CASE Main
      BY <1>1, <2>4 DEF Main, WaitForTraceType, ReadTraceType, WaitForNextBatch, ProcessBatch, PcOK
    <2>5. CASE Terminated \/ UNCHANGED vars
      BY <2>5 DEF Terminated, vars, ctlVars
    <2> QED
      BY <2>1, <2>2, <2>3, <2>4, <2>5 DEF Parser
  <1>5. EofIsLast' /\ LoaderEof' /\ ReaderEof'
    BY <1>1, <1>3, <1>4 DEF EofIsLast, LoaderEof, ReaderEof
  <1> SUFFICES ParserEof'
    BY <1>5 DEF EofInOrder
  <1>6. CASE ParserWaitFull \/ ParserWaitTokenized
    <2>1. /\ turn' = turn /\ pc["parser"] \in {"lockT", "lockL"} /\ tbufLive' = tbufLive
          /\ pc'["parser"] \in {"lockL", "sleepT", "work", "sleepL"}
      BY <1>1, <1>6, QuietSteps DEF ParserWaitFull, ParserWaitTokenized, WaitForLoadBuffer,
         WaitForThreadBuffer, PcOK, tbufVars
    <2> QED
      BY <1>1, <2>1 DEF ParserEof
  <1>7. CASE ParseLines
    <2>1. /\ Taken' = P + 1 /\ pc["parser"] = "work" /\ tbufLive' = tbufLive
          /\ pc'["parser"] = "endL"
          /\ eof'["parser"] = buf[P % NBuf].eof
      BY <1>1, <1>7, ParseLinesMoves DEF ParseLines, PcOK, Slot, tbufVars
    <2>2. buf[P % NBuf] = file[P + 1]
      BY <1>7, ParseLinesTakesNext
    <2> QED
      BY <1>1, <1>2, <1>3, <2>1, <2>2 DEF ParserEof
  <1>8. CASE ParserEndLoadBuffer
    <2>1. /\ Taken' = Taken /\ pc["parser"] = "endL" /\ tbufLive' = tbufLive
          /\ pc'["parser"] = "endT" /\ eof' = eof
      BY <1>1, <1>8, ParserEndLoadBufferMoves
         DEF ParserEndLoadBuffer, CompleteLoadBuffer, GotoAndWake, PcOK, tbufVars
    <2> QED
      BY <1>1, <1>3, <2>1 DEF ParserEof
  <1>9. CASE ParserEndThreadBuffer
    <2>1. /\ turn'["parser"] = P + 1 /\ Taken = P + 1 /\ Taken' = P + 1
          /\ pc["parser"] = "endT" /\ tbufLive' = tbufLive /\ eof' = eof
          /\ pc'["parser"] = IF traceType = "UNKNOWN" THEN "type"
                             ELSE IF eof["parser"] THEN "lastPost" ELSE "post"
      BY <1>1, <1>9, ParserEndThreadBufferMoves
         DEF ParserEndThreadBuffer, CompleteThreadBuffer, GotoAndWake, PcOK
    <2> QED
      BY <1>1, <1>2, <1>3, <2>1 DEF ParserEof
  <1>10. CASE DetermineTraceType
    <2>1. /\ turn' = turn /\ Taken = P /\ pc["parser"] = "type" /\ tbufLive' = tbufLive
          /\ pc'["parser"] \in {"guess", "post", "lockT"}
          /\ pc'["parser"] = "guess" => eof["parser"]
      BY <1>1, <1>2, <1>10, QuietSteps
         DEF DetermineTraceType, Announce, PcOK, tbufVars, Taken
    <2> QED
      BY <1>1, <1>2, <1>3, <2>1 DEF ParserEof
  <1>11. CASE GuessTraceType \/ PostLast \/ SendEOF
    <2>1. /\ turn' = turn /\ pc["parser"] \in {"guess", "lastPost", "sendEOF"}
          /\ tbufLive' = tbufLive /\ pc'["parser"] \in {"lastPost", "sendEOF", "delete"}
      BY <1>1, <1>11, QuietSteps
         DEF GuessTraceType, Announce, PostLast, SendNextIndex, SendEOF, PcOK, tbufVars
    <2> QED
      BY <1>1, <1>3, <2>1 DEF ParserEof
  <1>12. CASE PostBatch
    <2>1. /\ turn' = turn /\ pc["parser"] = "post" /\ tbufLive' = tbufLive
          /\ pc'["parser"] = "lockT"
      BY <1>1, <1>12, QuietSteps DEF PostBatch, SendNextIndex, PcOK, tbufVars
    <2> QED
      BY <1>1, <2>1 DEF ParserEof
  <1>13. CASE DeleteThreadBuffers
    <2>1. turn' = turn /\ pc["parser"] = "delete" /\ pc'["parser"] = "done"
      BY <1>1, <1>13, QuietSteps DEF DeleteThreadBuffers, PcOK
    <2> QED
      BY <1>1, <1>3, <2>1 DEF ParserEof
  <1>14. CASE Main \/ Terminated \/ UNCHANGED vars
    <2>1. turn' = turn /\ Taken' = Taken
      BY <1>1, <1>14, QuietSteps
    <2>2. pc'["parser"] = pc["parser"] /\ tbufLive' = tbufLive /\ eof'["parser"] = eof["parser"]
      BY <1>1, <1>14 DEF Main, WaitForTraceType, ReadTraceType, WaitForNextBatch, ProcessBatch,
         Terminated, vars, ctlVars, tbufVars, PcOK
    <2> QED
      BY <1>1, <1>3, <2>1, <2>2 DEF ParserEof
  <1> QED
    BY <1>6, <1>7, <1>8, <1>9, <1>10, <1>11, <1>12, <1>13, <1>14 DEF Parser

EndInv == OrderInv /\ EofInOrder

(* EndInv is inductive.                                                      *)
LEMMA NextEnd ==
  ASSUME EndInv, [Next]_vars
  PROVE  EndInv'
  BY NextOrder, LoaderKeepsEof, ReaderKeepsEof, ParserKeepsEof DEF EndInv, Next

(* A parser that has seen the end of the file has taken all of it, and the   *)
(* reader has left its ring.                                                 *)
LEMMA AtEndOfFile ==
  ASSUME EndInv, pc["parser"] \in {"guess", "lastPost", "sendEOF", "delete", "done"}
  PROVE  /\ pc["reader"] = "done" /\ file # <<>> /\ file[Len(file)].eof /\ parsed = file
  <1> DEFINE R == turn["reader"]
             P == turn["parser"]
  <1>1. /\ TypeOK /\ RingOrder /\ TakenInOrder /\ EofIsLast /\ ReaderEof /\ ParserEof /\ OrderInv
    BY DEF EndInv, OrderInv, InOrder, RingInv, EofInOrder
  <1>2. /\ P \in Nat /\ R \in Nat /\ Len(file) \in Nat /\ P <= Len(file) /\ R <= Len(file)
        /\ P <= R
    BY <1>1, RingNumbers, InFile DEF RingOrder
  <1>3. P > 0 /\ file[P].eof
    BY <1>1 DEF ParserEof
  <1>4. P = Len(file)
    <2>1. P < Len(file) => P \in 1 .. Len(file) - 1
      BY <1>2, <1>3
    <2> QED
      BY <1>1, <1>2, <1>3, <2>1 DEF EofIsLast
  <1>5. R = P
    BY <1>2, <1>4
  <1>6. pc["reader"] = "done"
    BY <1>1, <1>2, <1>3, <1>5 DEF ReaderEof
  <1>7. Len(parsed) = P
    BY <1>1, <1>2 DEF RingOrder, Taken
  <1>8. parsed = file
    <2>1. parsed \in Seq(BufferType) /\ file \in Seq(BufferType)
      BY <1>1 DEF TypeOK
    <2>2. Len(parsed) = Len(file)
      BY <1>4, <1>7
    <2>3. \A i \in 1 .. Len(parsed) : parsed[i] = file[i]
      BY <1>1 DEF TakenInOrder
    <2> QED
      BY <2>1, <2>2, <2>3
  <1> QED
    BY <1>2, <1>3, <1>4, <1>6, <1>8

(* The ThreadBuffers are deleted when no thread can use them any more.       *)
THEOREM DeletedAfterUse == Spec => []DeletedAfterLastUse
  <1>1. Init => EndInv
    BY InitOrder, InitEof DEF EndInv
  <1>2. EndInv => DeletedAfterLastUse
    <2> SUFFICES ASSUME EndInv, tbufLive = {}
                 PROVE  At("reader", "done") /\ \A s \in Slots : tbufMutex[s] = NoOne
      BY DEF DeletedAfterLastUse
    <2>1. TypeOK /\ TbufMutexOwner /\ ParserEof
      BY DEF EndInv, OrderInv, RingInv, LockDiscipline, EofInOrder
    <2>2. pc["parser"] = "done" /\ pc["reader"] = "done"
      BY <2>1, AtEndOfFile DEF ParserEof
    <2>3. \A t \in {"reader", "parser"} : ~InThreadBuffer(t)
      BY <2>2 DEF InThreadBuffer
    <2>4. \A s \in Slots : tbufMutex[s] \in {"reader", "parser", NoOne}
      BY <2>1 DEF TypeOK
    <2> QED
      BY <2>1, <2>2, <2>3, <2>4 DEF TbufMutexOwner, At
  <1> QED
    BY NextEnd, <1>1, <1>2, PTL DEF Spec

-----------------------------------------------------------------------------
(* The pipeline implements TraceDelivery.                                    *)

(* Main ends when it has seen what the parser posted last, and it analyses   *)
(* nothing without a type.                                                   *)
MainSeesAll ==
  /\ pc["parser"] \in {"sendEOF", "delete", "done"} => posted = EventsSize(events)
  /\ eventsEOF => pc["parser"] \in {"delete", "done"}
  /\ pc["main"] = "process" /\ eof["main"] => eventsEOF /\ indexReady = posted
  /\ pc["main"] \in {"waitBatch", "sleepBatch", "process"} => mainType \in Kinds

RefInv == EndInv /\ TypeInv /\ MainSeesAll

(* At the start nothing is posted and main waits for a type.                 *)
LEMMA InitRef == Init => RefInv
  <1> SUFFICES ASSUME Init PROVE RefInv
    OBVIOUS
  <1>1. pc["parser"] = "lockT" /\ pc["main"] = "waitType" /\ ~eventsEOF
    BY ThreadsAre DEF Init
  <1>2. MainSeesAll
    BY <1>1 DEF MainSeesAll
  <1> QED
    BY <1>2, InitOrder, InitEof, InitType DEF RefInv, EndInv

(* The parser posts all its events before it announces the end, and takes    *)
(* none after it.                                                            *)
LEMMA NextMainSeesAll ==
  ASSUME TypeInv, MainSeesAll, [Next]_vars
  PROVE  MainSeesAll'
  <1>1. /\ PcOK /\ DOMAIN pc = Threads /\ nEvents \in [Kinds -> Nat] /\ posted \in Nat
        /\ TypeDecided /\ MainFollows /\ DOMAIN eof = Threads
    BY DEF TypeInv, TypeOK, PcOK
  <1> USE ThreadsAre, <1>1 DEF At, Goto, GotoAndWake
  <1>2. CASE Loader \/ Reader \/ ParserWaitFull \/ ParserWaitTokenized \/ ParserEndLoadBuffer
    <2>1. /\ pc'["main"] = pc["main"] /\ eof'["main"] = eof["main"]
          /\ UNCHANGED <<nEvents, events, posted, eventsEOF, indexReady, mainType>>
      BY <1>2 DEF Loader, BeginProduce, ReadFile, AccountRead, Reader, ReaderWaitEmpty,
         ReaderWaitLoaded, Tokenize, ReaderEndLoadBuffer, ReaderEndThreadBuffer, ParserWaitFull,
         ParserWaitTokenized, ParserEndLoadBuffer, WaitForLoadBuffer,
         WaitForThreadBuffer, CompleteLoadBuffer, CompleteThreadBuffer, eventVars, typeVars,
         indexVars, mainVars
    <2>2. \/ pc'["parser"] = pc["parser"]
          \/ /\ pc["parser"] \in {"sleepL", "sleepT", "lockT", "lockL", "endL"}
             /\ pc'["parser"] \in {"lockL", "lockT", "sleepT", "sleepL", "work", "endT"}
      BY <1>2 DEF Loader, BeginProduce, ReadFile, AccountRead, Reader, ReaderWaitEmpty,
         ReaderWaitLoaded, Tokenize, ReaderEndLoadBuffer, ReaderEndThreadBuffer, ParserWaitFull,
         ParserWaitTokenized, ParserEndLoadBuffer, WaitForLoadBuffer,
         WaitForThreadBuffer, CompleteLoadBuffer, CompleteThreadBuffer
    <2> QED
      BY <2>1, <2>2 DEF MainSeesAll, EventsSize
  <1>3. CASE ParseLines \/ ParserEndThreadBuffer
    <2>1. /\ pc'["main"] = pc["main"] /\ eof'["main"] = eof["main"]
          /\ UNCHANGED <<posted, eventsEOF, indexReady, mainType>>
          /\ pc["parser"] \in {"work", "endT"}
          /\ pc'["parser"] \in {"endL", "type", "lastPost", "post"}
      BY <1>3 DEF ParseLines, ParserEndThreadBuffer, CompleteThreadBuffer, indexVars, mainVars
    <2> QED
      BY <2>1 DEF MainSeesAll
  <1>4. CASE DetermineTraceType \/ GuessTraceType
    <2>1. /\ pc["parser"] \in {"type", "guess"}
          /\ pc'["parser"] \in {"guess", "post", "lockT", "lastPost"}
          /\ \/ pc'["main"] = pc["main"]
             \/ pc["main"] = "sleepType" /\ pc'["main"] = "waitType"
          /\ UNCHANGED <<eof, posted, eventsEOF, indexReady, mainType>>
      BY <1>4 DEF DetermineTraceType, GuessTraceType, Announce, indexVars, mainVars
    <2> QED
      BY <2>1 DEF MainSeesAll
  <1>5. CASE PostBatch \/ PostLast
    <2> DEFINE n == EventsSize(events)
    <2>1. PICK next \in {"lockT", "sendEOF"} : SendNextIndex(next)
      BY <1>5 DEF PostBatch, PostLast
    <2>2. /\ pc["parser"] \in {"post", "lastPost"} /\ pc'["parser"] \in {"lockT", "sendEOF"}
          /\ \/ pc'["main"] = pc["main"]
             \/ pc["main"] = "sleepBatch" /\ pc'["main"] = "waitBatch"
      BY <1>5 DEF PostBatch, PostLast, SendNextIndex
    <2>3. /\ UNCHANGED <<eof, nEvents, events, eventsEOF, indexReady, mainType>>
          /\ posted' = IF n > posted THEN n ELSE posted
      BY <2>1 DEF SendNextIndex, eventVars, typeVars, mainVars
    <2>4. n \in Nat /\ n' = n /\ posted <= n
      BY <2>3 DEF EventsSize, MainFollows
    <2> HIDE DEF n
    <2>5. posted' = n'
      BY <2>3, <2>4
    <2> QED
      BY <2>2, <2>3, <2>5 DEF MainSeesAll, n
  <1>6. CASE SendEOF
    <2>1. /\ pc["parser"] = "sendEOF" /\ pc'["parser"] = "delete"
          /\ \/ pc'["main"] = pc["main"]
             \/ pc["main"] = "sleepBatch" /\ pc'["main"] = "waitBatch"
          /\ UNCHANGED <<eof, nEvents, events, posted, indexReady, mainType>>
      BY <1>6 DEF SendEOF, eventVars, typeVars, mainVars
    <2> QED
      BY <2>1 DEF MainSeesAll, EventsSize
  <1>7. CASE DeleteThreadBuffers
    <2>1. /\ pc["parser"] = "delete" /\ pc'["parser"] = "done" /\ pc'["main"] = pc["main"]
          /\ UNCHANGED <<eof, nEvents, events, posted, eventsEOF, indexReady, mainType>>
      BY <1>7 DEF DeleteThreadBuffers, eventVars, typeVars, indexVars, mainVars
    <2> QED
      BY <2>1 DEF MainSeesAll, EventsSize
  <1>8. CASE Main
    <2>1. /\ pc'["parser"] = pc["parser"] /\ UNCHANGED <<nEvents, events, posted, eventsEOF>>
      BY <1>8 DEF Main, WaitForTraceType, ReadTraceType, WaitForNextBatch, ProcessBatch,
         eventVars, typeVars, indexVars
    <2>2. posted' = EventsSize(events)' <=> posted = EventsSize(events)
      BY <2>1 DEF EventsSize
    <2>3. CASE WaitForTraceType
      BY <2>1, <2>2, <2>3 DEF WaitForTraceType, MainSeesAll, mainVars
    <2>4. CASE ReadTraceType
      <3>1. /\ pc'["main"] = IF traceType = "UNKNOWN" THEN "done" ELSE "waitBatch"
            /\ mainType' = traceType
        BY <2>4 DEF ReadTraceType
      <3>2. traceType \in Kinds \cup {"UNKNOWN"}
        BY DEF TypeInv, TypeOK
      <3> QED
        BY <2>1, <2>2, <3>1, <3>2 DEF MainSeesAll
    <2>5. CASE WaitForNextBatch
      <3>1. /\ pc["main"] = "waitBatch" /\ mainType' = mainType
            /\ \/ pc'["main"] = "sleepBatch"
               \/ /\ pc'["main"] \in {"process", "done"} /\ indexReady' = posted
                  /\ eof'["main"] = eventsEOF
        BY <2>5 DEF WaitForNextBatch
      <3> QED
        BY <2>1, <2>2, <3>1 DEF MainSeesAll
    <2>6. CASE ProcessBatch
      <3>1. /\ pc["main"] = "process" /\ pc'["main"] \in {"done", "waitBatch"}
            /\ mainType' = mainType
        BY <2>6 DEF ProcessBatch
      <3> QED
        BY <2>1, <2>2, <3>1 DEF MainSeesAll
    <2> QED
      BY <1>8, <2>3, <2>4, <2>5, <2>6 DEF Main
  <1>9. CASE Terminated \/ UNCHANGED vars
    BY <1>9 DEF Terminated, vars, ctlVars, eventVars, typeVars, indexVars, mainVars, MainSeesAll,
       EventsSize
  <1> QED
    BY <1>2, <1>3, <1>4, <1>5, <1>6, <1>7, <1>8, <1>9 DEF Next, Parser

(* A step is invisible to the abstract queue when it leaves alone what the   *)
(* queue's variables stand for.                                              *)
Invisible ==
  /\ UNCHANGED <<file, parsed, nEvents, typeEOF, traceType, processed>>
  /\ pc'["main"] = "done" <=> pc["main"] = "done"

LEMMA InvisibleIsStutter ==
  ASSUME Invisible
  PROVE  UNCHANGED Delivery!vars
  <1>1. At("main", "done")' = At("main", "done")
    BY DEF Invisible, At
  <1> QED
    BY <1>1 DEF Invisible, Delivery!vars

(* Steps that only move a thread or a slot along.                            *)
LEMMA InvisibleSteps ==
  ASSUME TypeOK,
         \/ BeginProduce \/ AccountRead \/ Reader
         \/ ParserWaitFull \/ ParserWaitTokenized \/ ParserEndLoadBuffer
         \/ ParserEndThreadBuffer \/ PostBatch \/ PostLast \/ SendEOF \/ DeleteThreadBuffers
         \/ WaitForTraceType \/ Terminated \/ UNCHANGED vars
  PROVE  Invisible
  <1>1. PcOK
    BY DEF TypeOK
  <1> USE <1>1, ThreadsAre
      DEF Invisible, PcOK, At, Goto, GotoAndWake, fileVars, eventVars, typeVars, mainVars
  <1>2. CASE BeginProduce \/ AccountRead
    BY <1>2 DEF BeginProduce, AccountRead, WaitForLoadBuffer
  <1>3. CASE Reader
    BY <1>3 DEF Reader, ReaderWaitEmpty, ReaderWaitLoaded, Tokenize, ReaderEndLoadBuffer,
       ReaderEndThreadBuffer, WaitForLoadBuffer, WaitForThreadBuffer, CompleteLoadBuffer,
       CompleteThreadBuffer
  <1>4. CASE ParserWaitFull \/ ParserWaitTokenized \/ ParserEndLoadBuffer \/ ParserEndThreadBuffer
    BY <1>4 DEF ParserWaitFull, ParserWaitTokenized, ParserEndLoadBuffer, ParserEndThreadBuffer,
       WaitForLoadBuffer, WaitForThreadBuffer, CompleteLoadBuffer, CompleteThreadBuffer
  <1>5. CASE PostBatch \/ PostLast \/ SendEOF \/ DeleteThreadBuffers
    BY <1>5 DEF PostBatch, PostLast, SendNextIndex, SendEOF, DeleteThreadBuffers
  <1>6. CASE WaitForTraceType
    BY <1>6 DEF WaitForTraceType
  <1>7. CASE Terminated \/ UNCHANGED vars
    BY <1>7 DEF Terminated, vars, ctlVars
  <1> QED
    BY <1>2, <1>3, <1>4, <1>5, <1>6, <1>7

(* read() delivers a buffer when the ring has room and the end was not seen. *)
LEMMA ReadFileDelivers ==
  ASSUME RefInv, ReadFile, TypeOK'
  PROVE  Delivery!Deliver
  <1> DEFINE L == turn["loader"]
  <1>1. /\ TypeOK /\ RingOrder /\ LoadStates /\ TbufStates /\ StateOfOwner /\ LoaderEof /\ PcOK
    BY DEF RefInv, EndInv, OrderInv, RingInv, LockDiscipline, EofInOrder, TypeOK
  <1>2. /\ L \in Nat /\ turn["parser"] \in Nat /\ Taken \in Nat /\ Returned \in Nat
        /\ NBuf \in Nat /\ Len(file) \in Nat /\ Len(parsed) \in Nat
    BY <1>1, RingNumbers, NBufAssumption
  <1>3. /\ pc["loader"] = "work" /\ Loaded = L /\ state[L % NBuf] = "EMPTY"
    BY <1>1, ReadFileMoves DEF ReadFile, StateOfOwner, InLoadBuffer, Slot, At
  <1>4. Len(file) = L /\ Len(parsed) = Taken
    BY <1>1, <1>3 DEF RingOrder
  <1>5. ~Delivery!AtEnd
    <2>1. file # <<>> => L # 0
      BY <1>1, <1>4 DEF TypeOK
    <2> QED
      BY <1>1, <1>3, <1>4, <2>1 DEF LoaderEof, Delivery!AtEnd
  <1>6. Len(file) - Len(parsed) < NBuf
    <2>1. L < Returned + NBuf
      BY <1>1, <1>3, SlotTells
    <2>2. Returned <= Taken
      BY <1>2 DEF Returned, Taken, At
    <2> QED
      BY <1>2, <1>4, <2>1, <2>2
  <1>7. /\ Len(file') = Len(file) + 1 /\ file'[Len(file) + 1] \in BufferType
        /\ file' = Append(file, file'[Len(file) + 1])
    <2>1. PICK b : file' = Append(file, b)
      BY DEF ReadFile
    <2>2. Len(file') = Len(file) + 1 /\ file'[Len(file) + 1] = b
      BY <1>1, <1>2, <2>1 DEF TypeOK
    <2>3. Len(file) + 1 \in 1 .. Len(file')
      BY <1>2, <2>2
    <2>4. file'[Len(file) + 1] \in BufferType
      BY <2>3 DEF TypeOK
    <2> QED
      BY <2>1, <2>2, <2>4
  <1>8. UNCHANGED <<parsed, nEvents, typeEOF, traceType, processed>> /\ pc'["main"] = pc["main"]
    BY <1>1, ThreadsAre
       DEF ReadFile, CompleteLoadBuffer, GotoAndWake, PcOK, eventVars, typeVars, mainVars
  <1> QED
    BY <1>5, <1>6, <1>7, <1>8 DEF Delivery!Deliver, At

(* The parser takes the next buffer and counts the events it looks for.      *)
LEMMA ParseLinesTakes ==
  ASSUME RefInv, ParseLines
  PROVE  Delivery!Take
  <1> DEFINE P    == turn["parser"]
             kind == IF typeEOF THEN traceType ELSE "undecided"
  <1>1. OrderInv /\ TypeOK /\ TypeDecided /\ P \in Nat /\ Len(file) \in Nat /\ PcOK
    BY RingNumbers DEF RefInv, EndInv, OrderInv, RingInv, TypeInv, TypeOK
  <1>2. /\ P + 1 \in 1 .. Len(file) /\ Len(parsed) = P
        /\ list[P % NBuf].ev = file[P + 1].ev
        /\ parsed' = Append(parsed, file[P + 1])
    BY <1>1, ParseLinesTakesNext
  <1>3. \A k \in Kinds : k \in (IF traceType = "UNKNOWN" THEN Kinds ELSE {traceType})
                          <=> kind \in {"undecided", k}
    <2>1. pc["parser"] = "work"
      BY DEF ParseLines, At
    <2>2. typeEOF => traceType # "UNKNOWN"
      BY <1>1, <2>1 DEF TypeDecided
    <2>3. ~typeEOF => traceType = "UNKNOWN"
      BY <1>1 DEF TypeDecided
    <2>4. traceType # "undecided"
      BY <1>1 DEF TypeOK, Kinds
    <2> QED
      BY <2>2, <2>3, <2>4
  <1> HIDE DEF kind
  <1>4. nEvents' = [k \in Kinds |-> IF kind \in {"undecided", k}
                                      THEN nEvents[k] + file[P + 1].ev[k] ELSE nEvents[k]]
    <2>1. nEvents' = [k \in Kinds |-> IF k \in (IF traceType = "UNKNOWN" THEN Kinds ELSE {traceType})
                                      THEN nEvents[k] + file[P + 1].ev[k] ELSE nEvents[k]]
      BY <1>2 DEF ParseLines, Slot
    <2> QED
      BY <1>3, <2>1
  <1>5. UNCHANGED <<file, typeEOF, traceType, processed>> /\ pc'["main"] = pc["main"]
    BY <1>1, ThreadsAre DEF ParseLines, Goto, PcOK, fileVars, typeVars, mainVars
  <1>6. Len(parsed) < Len(file)
    BY <1>1, <1>2
  <1> QED
    BY <1>2, <1>4, <1>5, <1>6 DEF Delivery!Take, Delivery!Types, Kinds, At, kind

(* An announcement decides the type, unless it was decided before.           *)
LEMMA AnnouncementDecides ==
  ASSUME RefInv, DetermineTraceType \/ GuessTraceType
  PROVE  [Delivery!Next]_(Delivery!vars)
  <1>1. TypeOK /\ TypeDecided /\ PcOK /\ nEvents \in [Kinds -> Nat]
    BY DEF RefInv, TypeInv, TypeOK
  <1>2. /\ UNCHANGED <<file, parsed, nEvents, processed>>
        /\ pc'["main"] = "done" <=> pc["main"] = "done"
    BY <1>1, ThreadsAre DEF DetermineTraceType, GuessTraceType, Announce, Goto, PcOK, fileVars,
       eventVars, mainVars
  <1>3. ASSUME ~typeEOF, typeEOF',
               \/ traceType' = "FTRACE" /\ nEvents["FTRACE"] > nEvents["PERF"]
               \/ traceType' = "PERF" /\ nEvents["PERF"] > nEvents["FTRACE"]
               \/ /\ traceType' = "UNKNOWN" /\ nEvents["PERF"] = nEvents["FTRACE"]
                  /\ Delivery!AllTaken
        PROVE  Delivery!Decide
    <2>1. At("main", "done")' = At("main", "done")
      BY <1>2 DEF At
    <2> QED
      BY <1>2, <1>3, <2>1 DEF Delivery!Decide
  <1>4. ASSUME UNCHANGED <<typeEOF, traceType>>
        PROVE  UNCHANGED Delivery!vars
    BY <1>2, <1>4, InvisibleIsStutter DEF Invisible
  <1>k. "FTRACE" \in Kinds /\ "PERF" \in Kinds
    BY DEF Kinds
  <1>5. CASE DetermineTraceType
    <2>1. ~typeEOF /\ traceType = "UNKNOWN"
      BY <1>1, <1>5 DEF DetermineTraceType, At, TypeDecided
    <2>2. CASE Dominates("FTRACE", "PERF") /\ traceType' = "FTRACE" /\ typeEOF'
      BY <1>1, <1>3, <1>k, <2>1, <2>2, DominatesIsMore DEF Delivery!Next
    <2>3. CASE Dominates("PERF", "FTRACE") /\ traceType' = "PERF" /\ typeEOF'
      BY <1>1, <1>3, <1>k, <2>1, <2>3, DominatesIsMore DEF Delivery!Next
    <2>4. CASE traceType' = "UNKNOWN" /\ typeEOF' = typeEOF
      BY <1>4, <2>1, <2>4
    <2> QED
      BY <1>5, <2>2, <2>3, <2>4 DEF DetermineTraceType, Announce
  <1>6. CASE GuessTraceType
    <2>1. /\ pc["parser"] = "guess" /\ typeEOF'
          /\ \/ traceType' = "FTRACE" /\ nEvents["FTRACE"] > nEvents["PERF"]
             \/ traceType' = "PERF" /\ nEvents["PERF"] > nEvents["FTRACE"]
             \/ traceType' = "UNKNOWN" /\ nEvents["PERF"] = nEvents["FTRACE"]
      <3>1. nEvents["PERF"] < nEvents["FTRACE"] => nEvents["FTRACE"] > nEvents["PERF"]
        BY <1>1, <1>k
      <3> QED
        BY <1>6, <3>1 DEF GuessTraceType, Announce, At
    <2>2. CASE ~typeEOF
      <3>1. Delivery!AllTaken
        BY <2>1, AtEndOfFile DEF RefInv, Delivery!AllTaken, Delivery!AtEnd
      <3> QED
        BY <1>3, <2>1, <2>2, <3>1 DEF Delivery!Next
    <2>3. CASE typeEOF
      <3>1. nEvents["FTRACE"] \in Nat /\ nEvents["PERF"] \in Nat
        BY <1>1, <1>k
      <3>2. traceType' = traceType
        BY <1>1, <2>1, <2>3, <3>1 DEF TypeDecided
      <3>3. typeEOF' = typeEOF
        BY <1>6, <2>3 DEF GuessTraceType, Announce, TypeInv, RefInv, TypeOK
      <3> QED
        BY <1>4, <3>2, <3>3
    <2> QED
      BY <2>2, <2>3
  <1> QED
    BY <1>5, <1>6

(* Main analyses what was posted, and ends when that is all there is.        *)
LEMMA MainAnalyses ==
  ASSUME RefInv, ReadTraceType \/ WaitForNextBatch \/ ProcessBatch
  PROVE  [Delivery!Next]_(Delivery!vars)
  <1>1. /\ TypeOK /\ TypeDecided /\ MainFollows /\ MainSeesAll /\ PcOK
        /\ nEvents \in [Kinds -> Nat] /\ posted \in Nat /\ received \in Nat
        /\ indexReady \in Nat /\ processed \in Nat
        /\ typeEOF \in BOOLEAN /\ eventsEOF \in BOOLEAN
    BY DEF RefInv, TypeInv, TypeOK
  <1> USE ThreadsAre DEF At, Goto
  <1>2. UNCHANGED <<file, parsed, nEvents, typeEOF, traceType>>
    BY DEF ReadTraceType, WaitForNextBatch, ProcessBatch, fileVars, eventVars, typeVars
  <1>3. ASSUME pc["main"] \in {"waitBatch", "process"}
        PROVE  typeEOF /\ traceType \in Kinds /\ EventsSize(events) = nEvents[traceType]
    <2>1. mainType \in Kinds /\ mainEvents # "null"
      BY <1>1, <1>3 DEF MainSeesAll, MainFollows
    <2>2. typeEOF /\ traceType = mainType
      BY <1>1, <2>1 DEF MainFollows
    <2>3. events = traceType
      BY <1>1, <2>1, <2>2 DEF TypeDecided
    <2> QED
      BY <2>1, <2>2, <2>3 DEF EventsSize
  <1>4. ASSUME eventsEOF
        PROVE  posted = EventsSize(events) /\ Delivery!AllTaken
    <2>1. pc["parser"] \in {"delete", "done"}
      BY <1>1, <1>4 DEF MainSeesAll
    <2> QED
      BY <1>1, <2>1, AtEndOfFile DEF MainSeesAll, RefInv, Delivery!AllTaken, Delivery!AtEnd
  <1>5. ASSUME typeEOF, traceType \in Kinds, pc["main"] # "done",
               processed' \in processed .. nEvents[traceType],
               pc'["main"] = "done" => Delivery!AllTaken /\ processed' = nEvents[traceType]
        PROVE  Delivery!Analyse
    <2>1. At("main", "done")' \in BOOLEAN
      BY DEF At
    <2> QED
      BY <1>2, <1>5, <2>1 DEF Delivery!Analyse, Delivery!Types, Kinds
  <1>6. ASSUME processed' = processed, pc["main"] # "done", pc'["main"] # "done"
        PROVE  UNCHANGED Delivery!vars
    BY <1>2, <1>6, InvisibleIsStutter DEF Invisible
  <1>7. CASE ReadTraceType
    <2>1. /\ pc["main"] = "readType" /\ processed' = processed
          /\ pc'["main"] = IF traceType = "UNKNOWN" THEN "done" ELSE "waitBatch"
      BY <1>1, <1>7 DEF ReadTraceType, PcOK
    <2>2. CASE traceType = "UNKNOWN"
      <3>1. typeEOF
        BY <1>1, <2>1 DEF MainFollows
      <3>2. At("main", "done")' = TRUE
        BY <2>1, <2>2 DEF At
      <3> QED
        BY <1>2, <2>1, <2>2, <3>1, <3>2 DEF Delivery!GiveUp, Delivery!Next
    <2>3. CASE traceType # "UNKNOWN"
      BY <1>6, <2>1, <2>3
    <2> QED
      BY <2>2, <2>3
  <1>8. CASE WaitForNextBatch
    <2>1. /\ pc["main"] = "waitBatch" /\ processed' = processed
          /\ \/ pc'["main"] \in {"sleepBatch", "process"}
             \/ /\ pc'["main"] = "done" /\ ~(posted > 0)
                /\ ~(~eventsEOF /\ posted - received < Batch)
      BY <1>1, <1>8 DEF WaitForNextBatch, PcOK
    <2>2. CASE pc'["main"] # "done"
      BY <1>6, <2>1, <2>2
    <2>3. CASE pc'["main"] = "done"
      <3>1. posted = 0 /\ processed = 0
        BY <1>1, <2>1, <2>3 DEF MainFollows
      <3>2. eventsEOF
        <4>1. posted - received < Batch
          BY <1>1, <3>1, BatchAssumption
        <4> QED
          BY <2>1, <2>3, <4>1
      <3>3. Delivery!AllTaken /\ nEvents[traceType] = 0 /\ typeEOF /\ traceType \in Kinds
        BY <1>3, <1>4, <2>1, <3>1, <3>2
      <3>4. processed' \in processed .. nEvents[traceType] /\ processed' = nEvents[traceType]
        BY <2>1, <3>1, <3>3
      <3> QED
        BY <1>5, <2>1, <3>3, <3>4 DEF Delivery!Next
    <2> QED
      BY <2>2, <2>3
  <1>9. CASE ProcessBatch
    <2>1. /\ pc["main"] = "process" /\ processed' = indexReady
          /\ pc'["main"] = IF eof["main"] THEN "done" ELSE "waitBatch"
      BY <1>1, <1>9 DEF ProcessBatch, PcOK
    <2>2. typeEOF /\ traceType \in Kinds /\ EventsSize(events) = nEvents[traceType]
      BY <1>3, <2>1
    <2>3. processed <= indexReady /\ indexReady <= posted /\ posted <= EventsSize(events)
      BY <1>1 DEF MainFollows
    <2>4. nEvents[traceType] \in Nat
      BY <1>1, <2>2
    <2>5. processed' \in processed .. nEvents[traceType]
      BY <1>1, <2>1, <2>2, <2>3, <2>4
    <2>6. pc'["main"] = "done" => Delivery!AllTaken /\ processed' = nEvents[traceType]
      <3>1. pc'["main"] = "done" => eventsEOF /\ indexReady = posted
        BY <1>1, <2>1 DEF MainSeesAll
      <3> QED
        BY <1>4, <2>1, <2>2, <3>1
    <2> QED
      BY <1>5, <2>1, <2>2, <2>5, <2>6 DEF Delivery!Next
  <1> QED
    BY <1>7, <1>8, <1>9

(* The four threads, their rings, locks and wakeups implement the bounded    *)
(* queue: buffers arrive in the order of the file and at most NBuf of them   *)
(* are under way, the type is decided once and for the majority, and main    *)
(* ends with the end of the file and all events of the type, or without one. *)
THEOREM PipelineImplementsDelivery == Spec => ImplementsTraceDelivery
  <1>1. Init => Delivery!Init
    <2> SUFFICES ASSUME Init PROVE Delivery!Init
      OBVIOUS
    <2>1. pc["main"] = "waitType"
      BY ThreadsAre DEF Init
    <2>2. At("main", "done") = FALSE
      BY <2>1 DEF At
    <2> QED
      BY <2>2 DEF Init, Delivery!Init, Delivery!Types, Kinds, NoEvents
  <1>2. RefInv /\ [Next]_vars => [Delivery!Next]_(Delivery!vars)
    <2> SUFFICES ASSUME RefInv, [Next]_vars PROVE [Delivery!Next]_(Delivery!vars)
      OBVIOUS
    <2>1. TypeOK /\ TypeOK'
      BY NextTypeOK DEF RefInv, TypeInv
    <2>2. CASE ReadFile
      BY <2>1, <2>2, ReadFileDelivers DEF Delivery!Next
    <2>3. CASE ParseLines
      BY <2>3, ParseLinesTakes DEF Delivery!Next
    <2>4. CASE DetermineTraceType \/ GuessTraceType
      BY <2>4, AnnouncementDecides
    <2>5. CASE ReadTraceType \/ WaitForNextBatch \/ ProcessBatch
      BY <2>5, MainAnalyses
    <2>6. CASE \/ BeginProduce \/ AccountRead \/ Reader
               \/ ParserWaitFull \/ ParserWaitTokenized \/ ParserEndLoadBuffer
               \/ ParserEndThreadBuffer \/ PostBatch \/ PostLast \/ SendEOF
               \/ DeleteThreadBuffers \/ WaitForTraceType \/ Terminated \/ UNCHANGED vars
      BY <2>1, <2>6, InvisibleSteps, InvisibleIsStutter
    <2> QED
      BY <2>2, <2>3, <2>4, <2>5, <2>6 DEF Next, Loader, Parser, Main
  <1>3. RefInv /\ [Next]_vars => RefInv'
    BY NextEnd, NextType, NextMainSeesAll DEF RefInv
  <1> QED
    BY InitRef, <1>1, <1>2, <1>3, PTL DEF Spec, ImplementsTraceDelivery, Delivery!Spec

=============================================================================

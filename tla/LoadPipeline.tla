---------------------------- MODULE LoadPipeline ----------------------------
(***************************************************************************)
(* How traceshark reads a trace: the loader thread (LoadThread::run) fills *)
(* a ring of LoadBuffers with read(2), the reader thread                   *)
(* (TraceParser::threadReader) splits each of them into lines that go to   *)
(* the ThreadBuffer of the same slot, the parser thread                    *)
(* (TraceParser::threadParser) turns the lines into events, and the main   *)
(* thread (TraceAnalyzer::threadProcess) analyses the events in batches    *)
(* while the other three still run.                                        *)
(*                                                                         *)
(* A LoadBuffer has a mutex that a thread keeps from the moment its wait   *)
(* succeeds until it hands the buffer on; a ThreadBuffer has another one.  *)
(* QWaitCondition::wait() releases the mutex and sleeps in one step; a     *)
(* sleeping thread is a thread whose pc is "sleepL" (a condition of a      *)
(* LoadBuffer), "sleepT" (one of a ThreadBuffer), "sleepType" or           *)
(* "sleepBatch" (one of an IndexWatcher).  The one that completes its part *)
(* wakes it, and it must lock the mutex and test the condition again.      *)
(*                                                                         *)
(* The bytes are abstracted: a buffer is known by the number of events of  *)
(* each trace type that its lines hold.  How bytes become lines is the     *)
(* subject of LoadChunks, how lines become events that of LineParser.      *)
(***************************************************************************)
EXTENDS Integers, Sequences

CONSTANTS
  NBuf,        (* slots of the ring: NR_BUFFERS = NR_TBUFFERS = 4             *)
  Contents,    (* what one read() may leave in a buffer, see ContentType      *)
  MaxReads,    (* bound: the read() that reports end of file is at most this  *)
  Confidence,  (* TRACE_TYPE_CONFIDENCE_FACTOR, 100 in the code               *)
  Batch        (* batchSize of eventsWatcher, 10000 in the code               *)

Kinds       == {"FTRACE", "PERF"}
ContentType == [nRead: Nat, ev: [Kinds -> Nat]]

ASSUME NBufAssumption       == NBuf \in Nat \ {0}
ASSUME ContentsAssumption   == Contents \subseteq ContentType
ASSUME NoBytesNoEvents      == \A c \in Contents : c.nRead = 0 => \A k \in Kinds : c.ev[k] = 0
ASSUME MaxReadsAssumption   == MaxReads \in Nat \ {0}
ASSUME ConfidenceAssumption == Confidence \in Nat \ {0}
ASSUME BatchAssumption      == Batch \in Nat \ {0}

Slots   == 0 .. NBuf - 1
Threads == {"loader", "reader", "parser", "main"}
NoOne   == "none"

(* A LoadBuffer's content; serial is the number of the read() that made it.  *)
BufferType == [serial: Nat, filePos: Nat, nRead: Nat, eof: BOOLEAN, ev: [Kinds -> Nat]]
NoEvents   == [k \in Kinds |-> 0]
Nothing    == [serial |-> 0, filePos |-> 0, nRead |-> 0, eof |-> FALSE, ev |-> NoEvents]

VARIABLES
  file,        (* history: what the read() calls delivered, in file order     *)
  parsed,      (* history: the buffers the parser took, with the events of    *)
               (* the lines it found in the slot, in the order it took them   *)
  buf,         (* LoadBuffer: buffer, nRead, filePos, eof                     *)
  state,       (* LoadBuffer: state                                           *)
  loadMutex,   (* LoadBuffer: the thread that holds mutex                     *)
  list,        (* ThreadBuffer: list, the lines, known by their buffer        *)
  isEmpty,     (* ThreadBuffer: isEmpty                                       *)
  tbufMutex,   (* ThreadBuffer: the thread that holds mutex                   *)
  tbufLive,    (* the ThreadBuffers open() made and nobody has deleted        *)
  pc,          (* where each thread is                                        *)
  turn,        (* buffers each thread is through with; i = turn % NBuf        *)
  eof,         (* the local variable eof of each thread                       *)
  filePos,     (* LoadThread::run: filePos                                    *)
  nEvents,     (* sizes of ftraceEvents and perfEvents                        *)
  traceType,   (* TraceParser::traceType                                      *)
  events,      (* TraceParser::events: which of the two lists                 *)
  typeEOF,     (* traceTypeWatcher: isEOF                                     *)
  posted,      (* eventsWatcher: postedIndex                                  *)
  received,    (* eventsWatcher: receivedIndex                                *)
  eventsEOF,   (* eventsWatcher: isEOF                                        *)
  mainEvents,  (* TraceAnalyzer::events, copied after waitForTraceType()      *)
  mainType,    (* the trace type threadProcess() switched on                  *)
  indexReady,  (* TraceAnalyzer::processGeneric: indexReady                   *)
  processed,   (* processGeneric: the events 0..processed-1 were analysed     *)
  endTimeIdx   (* TraceAnalyzer::endTimeIdx                                   *)

fileVars    == <<file, filePos>>
loadVars    == <<buf, state, loadMutex>>
tbufVars    == <<list, isEmpty, tbufMutex, tbufLive>>
ctlVars     == <<pc, turn, eof>>
eventVars   == <<parsed, nEvents>>
typeVars    == <<traceType, events, typeEOF>>
indexVars   == <<posted, received, eventsEOF>>
mainVars    == <<mainEvents, mainType, indexReady, processed, endTimeIdx>>
vars        == <<fileVars, loadVars, tbufVars, ctlVars, eventVars, typeVars,
                 indexVars, mainVars>>

Slot(t)       == turn[t] % NBuf
EventsSize(e) == IF e \in Kinds THEN nEvents[e] ELSE 0

Init ==
  /\ file = <<>> /\ parsed = <<>> /\ filePos = 0
  /\ buf = [s \in Slots |-> Nothing]
  /\ state = [s \in Slots |-> "EMPTY"]
  /\ loadMutex = [s \in Slots |-> NoOne]
  /\ list = [s \in Slots |-> Nothing]
  /\ isEmpty = [s \in Slots |-> TRUE]
  /\ tbufMutex = [s \in Slots |-> NoOne]
  /\ tbufLive = Slots
  /\ pc = [t \in Threads |-> IF t = "loader" THEN "lockL"
                            ELSE IF t = "main" THEN "waitType" ELSE "lockT"]
  /\ turn = [t \in Threads |-> 0]
  /\ eof = [t \in Threads |-> FALSE]
  /\ nEvents = NoEvents
  /\ traceType = "UNKNOWN" /\ events = "null" /\ typeEOF = FALSE
  /\ posted = 0 /\ received = 0 /\ eventsEOF = FALSE
  /\ mainEvents = "null" /\ mainType = "UNKNOWN"
  /\ indexReady = 0 /\ processed = 0 /\ endTimeIdx = 0

-----------------------------------------------------------------------------
(* The waits and completions of LoadBuffer and ThreadBuffer.                 *)

At(t, l)   == pc[t] = l
Goto(t, l) == pc' = [pc EXCEPT ![t] = l]

(* Goto(t, l), and wake u if it sleeps at from on slot s: it retries at to.   *)
GotoAndWake(t, l, u, from, to, s) ==
  pc' = [pc EXCEPT ![t] = l,
                   ![u] = IF @ = from /\ Slot(u) = s THEN to ELSE @]

(* LoadBuffer::waitFor...Complete(): lock; if the state is not the wanted one *)
(* release and sleep, else go on with the mutex held.                         *)
WaitForLoadBuffer(t, wanted, next) ==
  /\ At(t, "lockL")
  /\ loadMutex[Slot(t)] = NoOne
  /\ IF state[Slot(t)] = wanted
       THEN loadMutex' = [loadMutex EXCEPT ![Slot(t)] = t] /\ Goto(t, next)
       ELSE Goto(t, "sleepL") /\ UNCHANGED loadMutex

(* Mutant: the completion forgets to wake the next thread.                    *)
CompleteLoadBufferSilently(t, newState, next, waiter) ==
  /\ state' = [state EXCEPT ![Slot(t)] = newState]
  /\ loadMutex' = [loadMutex EXCEPT ![Slot(t)] = NoOne]
  /\ Goto(t, next)

(* LoadBuffer::complete...(): set the state, wake the next thread, unlock.    *)
CompleteLoadBuffer(t, newState, next, waiter) ==
  /\ state' = [state EXCEPT ![Slot(t)] = newState]
  /\ loadMutex' = [loadMutex EXCEPT ![Slot(t)] = NoOne]
  /\ GotoAndWake(t, next, waiter, "sleepL", "lockL", Slot(t))

(* ThreadBuffer::waitFor...Complete().                                        *)
WaitForThreadBuffer(t, wanted) ==
  /\ At(t, "lockT")
  /\ tbufMutex[Slot(t)] = NoOne
  /\ IF isEmpty[Slot(t)] = wanted
       THEN tbufMutex' = [tbufMutex EXCEPT ![Slot(t)] = t] /\ Goto(t, "lockL")
       ELSE Goto(t, "sleepT") /\ UNCHANGED tbufMutex

(* ThreadBuffer::complete...(), and the step of the ring that follows it.     *)
CompleteThreadBuffer(t, empty, next, waiter) ==
  /\ isEmpty' = [isEmpty EXCEPT ![Slot(t)] = empty]
  /\ tbufMutex' = [tbufMutex EXCEPT ![Slot(t)] = NoOne]
  /\ turn' = [turn EXCEPT ![t] = @ + 1]
  /\ GotoAndWake(t, next, waiter, "sleepT", "lockT", Slot(t))

-----------------------------------------------------------------------------
(* The loader thread.                                                        *)

(* Mutant: the loader does not wait for the buffer to be empty.               *)
BeginProduceUnasked ==
  /\ At("loader", "lockL") /\ loadMutex[Slot("loader")] = NoOne
  /\ loadMutex' = [loadMutex EXCEPT ![Slot("loader")] = "loader"]
  /\ Goto("loader", "work")
  /\ UNCHANGED <<fileVars, buf, state, tbufVars, turn, eof, eventVars, typeVars,
                 indexVars, mainVars>>

BeginProduce ==
  /\ WaitForLoadBuffer("loader", "EMPTY", "work")
  /\ UNCHANGED <<fileVars, buf, state, tbufVars, turn, eof, eventVars, typeVars,
                 indexVars, mainVars>>

(* produceBuffer() with the mutex held: read() delivers some content, or      *)
(* nothing (end of file, or an error, which the code does not tell from it);  *)
(* the line begun in the previous buffer is there in either case.             *)
ReadFile ==
  /\ At("loader", "work")
  /\ \E c \in Contents, atEnd \in BOOLEAN :
       LET b == [serial |-> Len(file) + 1, filePos |-> filePos,
                 nRead |-> c.nRead, eof |-> atEnd, ev |-> c.ev]
       IN  /\ Len(file) + 1 >= MaxReads => atEnd
           /\ buf' = [buf EXCEPT ![Slot("loader")] = b]
           /\ file' = Append(file, b)
  /\ CompleteLoadBuffer("loader", "LOADED", "account", "reader")
  /\ UNCHANGED <<filePos, tbufVars, turn, eof, eventVars, typeVars, indexVars, mainVars>>

(* After the unlock produceBuffer() reads nRead and eof of the buffer again.  *)
AccountRead ==
  /\ At("loader", "account")
  /\ filePos' = filePos + buf[Slot("loader")].nRead
  /\ eof' = [eof EXCEPT !["loader"] = buf[Slot("loader")].eof]
  /\ turn' = [turn EXCEPT !["loader"] = @ + 1]
  /\ Goto("loader", IF buf[Slot("loader")].eof THEN "done" ELSE "lockL")
  /\ UNCHANGED <<file, loadVars, tbufVars, eventVars, typeVars, indexVars, mainVars>>

-----------------------------------------------------------------------------
(* The reader thread.                                                        *)

ReaderWaitEmpty ==
  /\ WaitForThreadBuffer("reader", TRUE)
  /\ UNCHANGED <<fileVars, loadVars, list, isEmpty, tbufLive, turn, eof, eventVars,
                 typeVars, indexVars, mainVars>>

(* beginTokenizeBuffer(), strPool->reset() and list.softclear().  From the    *)
(* second buffer on threadReader() does not tokenize an empty last buffer.    *)
ReaderWaitLoaded ==
  LET s    == Slot("reader")
      skip == turn["reader"] > 0 /\ buf[s].eof /\ buf[s].nRead = 0
  IN  /\ WaitForLoadBuffer("reader", "LOADED", IF skip THEN "endL" ELSE "work")
      /\ IF state[s] = "LOADED"
           THEN /\ list' = [list EXCEPT ![s] = Nothing]
                /\ eof' = [eof EXCEPT !["reader"] = buf[s].eof]
           ELSE UNCHANGED <<list, eof>>
      /\ UNCHANGED <<fileVars, buf, state, isEmpty, tbufMutex, tbufLive, turn, eventVars,
                     typeVars, indexVars, mainVars>>

(* ReadLine() until the buffer switch: list has the lines of this buffer.     *)
Tokenize ==
  /\ At("reader", "work")
  /\ list' = [list EXCEPT ![Slot("reader")] = buf[Slot("reader")]]
  /\ Goto("reader", "endL")
  /\ UNCHANGED <<fileVars, loadVars, isEmpty, tbufMutex, tbufLive, turn, eof, eventVars,
                 typeVars, indexVars, mainVars>>

(* Mutant: the reader gives the buffer back to the loader.                    *)
ReaderGivesBack ==
  /\ At("reader", "endL")
  /\ CompleteLoadBuffer("reader", "EMPTY", "endT", "loader")
  /\ UNCHANGED <<fileVars, buf, tbufVars, turn, eof, eventVars, typeVars, indexVars, mainVars>>

ReaderEndLoadBuffer ==
  /\ At("reader", "endL")
  /\ CompleteLoadBuffer("reader", "TOKENIZED", "endT", "parser")
  /\ UNCHANGED <<fileVars, buf, tbufVars, turn, eof, eventVars, typeVars, indexVars, mainVars>>

ReaderEndThreadBuffer ==
  /\ At("reader", "endT")
  /\ CompleteThreadBuffer("reader", FALSE, IF eof["reader"] THEN "done" ELSE "lockT", "parser")
  /\ UNCHANGED <<fileVars, loadVars, list, tbufLive, eof, eventVars, typeVars, indexVars, mainVars>>

-----------------------------------------------------------------------------
(* The parser thread.                                                        *)

ParserWaitFull ==
  /\ WaitForThreadBuffer("parser", FALSE)
  /\ UNCHANGED <<fileVars, loadVars, list, isEmpty, tbufLive, turn, eof, eventVars,
                 typeVars, indexVars, mainVars>>

ParserWaitTokenized ==
  /\ WaitForLoadBuffer("parser", "TOKENIZED", "work")
  /\ UNCHANGED <<fileVars, buf, state, tbufVars, turn, eof, eventVars, typeVars,
                 indexVars, mainVars>>

(* Mutant: an empty read() is taken for the end of the file.                  *)
ParseLinesUntilEmpty ==
  LET s == Slot("parser")
  IN  /\ At("parser", "work")
      /\ parsed' = Append(parsed, [buf[s] EXCEPT !.ev = list[s].ev])
      /\ nEvents' = [k \in Kinds |-> nEvents[k] + list[s].ev[k]]
      /\ eof' = [eof EXCEPT !["parser"] = buf[s].nRead = 0]
      /\ Goto("parser", "endL")
      /\ UNCHANGED <<fileVars, loadVars, tbufVars, turn, typeVars, indexVars, mainVars>>

(* parseBuffer() feeds each line to both grammars; once the type is known     *)
(* parseFtraceBuffer() or parsePerfBuffer() feeds it to one of them.          *)
ParseLines ==
  LET s       == Slot("parser")
      parsing == IF traceType = "UNKNOWN" THEN Kinds ELSE {traceType}
  IN  /\ At("parser", "work")
      /\ parsed' = Append(parsed, [serial |-> buf[s].serial, filePos |-> buf[s].filePos,
                                   nRead |-> buf[s].nRead, eof |-> buf[s].eof,
                                   ev |-> list[s].ev])
      /\ nEvents' = [k \in Kinds |-> IF k \in parsing THEN nEvents[k] + list[s].ev[k]
                                                      ELSE nEvents[k]]
      /\ eof' = [eof EXCEPT !["parser"] = buf[s].eof]
      /\ Goto("parser", "endL")
      /\ UNCHANGED <<fileVars, loadVars, tbufVars, turn, typeVars, indexVars, mainVars>>

ParserEndLoadBuffer ==
  /\ At("parser", "endL")
  /\ CompleteLoadBuffer("parser", "EMPTY", "endT", "loader")
  /\ UNCHANGED <<fileVars, buf, tbufVars, turn, eof, eventVars, typeVars, indexVars, mainVars>>

(* list.softclear() is part of completeConsumption().                         *)
ParserEndThreadBuffer ==
  /\ At("parser", "endT")
  /\ list' = [list EXCEPT ![Slot("parser")] = Nothing]
  /\ CompleteThreadBuffer("parser", TRUE,
                          IF traceType = "UNKNOWN" THEN "type"
                            ELSE IF eof["parser"] THEN "lastPost" ELSE "post",
                          "reader")
  /\ UNCHANGED <<fileVars, loadVars, tbufLive, eof, eventVars, typeVars, indexVars, mainVars>>

AtLeastOne(n) == IF n > 1 THEN n ELSE 1
Dominates(k, other) == nEvents[k] > AtLeastOne(nEvents[other]) * Confidence

(* The type is announced by traceTypeWatcher->sendEOF(), which wakes main.    *)
Announce(type, evs, next) ==
  /\ traceType' = type
  /\ events' = evs
  /\ typeEOF' = TRUE
  /\ pc' = [pc EXCEPT !["parser"] = next,
                      !["main"] = IF @ = "sleepType" THEN "waitType" ELSE @]

DetermineTraceType ==
  /\ At("parser", "type")
  /\ LET next == IF eof["parser"] THEN "guess" ELSE "post"
     IN  \/ Dominates("FTRACE", "PERF") /\ Announce("FTRACE", "FTRACE", next)
         \/ Dominates("PERF", "FTRACE") /\ Announce("PERF", "PERF", next)
         \/ /\ ~Dominates("FTRACE", "PERF") /\ ~Dominates("PERF", "FTRACE")
            /\ traceType' = "UNKNOWN"
            /\ Goto("parser", IF eof["parser"] THEN "guess" ELSE "lockT")
            /\ UNCHANGED <<events, typeEOF>>
  /\ UNCHANGED <<fileVars, loadVars, tbufVars, turn, eof, eventVars, indexVars, mainVars>>

(* Mutant: the comparison is the wrong way round.                             *)
GuessTheRarerType ==
  /\ At("parser", "guess")
  /\ \/ nEvents["PERF"] < nEvents["FTRACE"] /\ Announce("PERF", "PERF", "lastPost")
     \/ nEvents["PERF"] > nEvents["FTRACE"] /\ Announce("FTRACE", "FTRACE", "lastPost")
     \/ nEvents["PERF"] = nEvents["FTRACE"] /\ Announce("UNKNOWN", "PERF", "lastPost")
  /\ UNCHANGED <<fileVars, loadVars, tbufVars, turn, eof, eventVars, indexVars, mainVars>>

(* At end of file, whether determineTraceType() has decided or not.           *)
GuessTraceType ==
  /\ At("parser", "guess")
  /\ \/ nEvents["PERF"] > nEvents["FTRACE"] /\ Announce("PERF", "PERF", "lastPost")
     \/ nEvents["PERF"] < nEvents["FTRACE"] /\ Announce("FTRACE", "FTRACE", "lastPost")
     \/ nEvents["PERF"] = nEvents["FTRACE"] /\ Announce("UNKNOWN", "PERF", "lastPost")
  /\ UNCHANGED <<fileVars, loadVars, tbufVars, turn, eof, eventVars, indexVars, mainVars>>

(* Mutant: an index past the list is posted.                                 *)
SendNextIndexAhead(next) ==
  LET n      == EventsSize(events) + 1
      enough == n > posted /\ n - received >= Batch
  IN  /\ posted' = IF n > posted THEN n ELSE posted
      /\ pc' = [pc EXCEPT !["parser"] = next,
                          !["main"] = IF @ = "sleepBatch" /\ enough THEN "waitBatch" ELSE @]
      /\ UNCHANGED <<fileVars, loadVars, tbufVars, turn, eof, eventVars, typeVars, received,
                     eventsEOF, mainVars>>

(* IndexWatcher::sendNextIndex(events->size()): main is woken for a batch.    *)
SendNextIndex(next) ==
  LET n       == EventsSize(events)
      enough  == n > posted /\ n - received >= Batch
  IN  /\ posted' = IF n > posted THEN n ELSE posted
      /\ pc' = [pc EXCEPT !["parser"] = next,
                          !["main"] = IF @ = "sleepBatch" /\ enough THEN "waitBatch" ELSE @]
      /\ UNCHANGED <<fileVars, loadVars, tbufVars, turn, eof, eventVars, typeVars, received,
                     eventsEOF, mainVars>>

PostBatch == At("parser", "post") /\ SendNextIndex("lockT")
(* Mutant: the events of the last buffer are not posted before the EOF.       *)
SkipLastPost ==
  /\ At("parser", "lastPost") /\ Goto("parser", "sendEOF")
  /\ UNCHANGED <<fileVars, loadVars, tbufVars, turn, eof, eventVars, typeVars, indexVars, mainVars>>

PostLast  == At("parser", "lastPost") /\ SendNextIndex("sendEOF")

SendEOF ==
  /\ At("parser", "sendEOF")
  /\ eventsEOF' = TRUE
  /\ pc' = [pc EXCEPT !["parser"] = "delete",
                      !["main"] = IF @ = "sleepBatch" THEN "waitBatch" ELSE @]
  /\ UNCHANGED <<fileVars, loadVars, tbufVars, turn, eof, eventVars, typeVars, posted,
                 received, mainVars>>

DeleteThreadBuffers ==
  /\ At("parser", "delete")
  /\ tbufLive' = {}
  /\ Goto("parser", "done")
  /\ UNCHANGED <<fileVars, loadVars, list, isEmpty, tbufMutex, turn, eof, eventVars, typeVars,
                 indexVars, mainVars>>

-----------------------------------------------------------------------------
(* The main thread: TraceAnalyzer::threadProcess().                          *)

WaitForTraceType ==
  /\ At("main", "waitType")
  /\ Goto("main", IF typeEOF THEN "readType" ELSE "sleepType")
  /\ UNCHANGED <<fileVars, loadVars, tbufVars, turn, eof, eventVars, typeVars, indexVars, mainVars>>

(* events and the type are read without a lock.  For an unknown type          *)
(* threadProcess() returns here.                                              *)
ReadTraceType ==
  /\ At("main", "readType")
  /\ mainEvents' = events
  /\ mainType' = traceType
  /\ Goto("main", IF traceType = "UNKNOWN" THEN "done" ELSE "waitBatch")
  /\ UNCHANGED <<fileVars, loadVars, tbufVars, turn, eof, eventVars, typeVars, indexVars,
                 indexReady, processed, endTimeIdx>>

(* IndexWatcher::waitForNextBatch(); with no event there is nothing to do.    *)
WaitForNextBatch ==
  /\ At("main", "waitBatch")
  /\ IF ~eventsEOF /\ posted - received < Batch
       THEN /\ Goto("main", "sleepBatch")
            /\ UNCHANGED <<received, indexReady, eof>>
       ELSE /\ received' = posted
            /\ indexReady' = posted
            /\ eof' = [eof EXCEPT !["main"] = eventsEOF]
            /\ Goto("main", IF posted > 0 THEN "process" ELSE "done")
  /\ UNCHANGED <<fileVars, loadVars, tbufVars, turn, eventVars, typeVars, posted, eventsEOF,
                 mainEvents, mainType, processed, endTimeIdx>>

(* The loop of processGeneric() over prevIndex..indexReady-1; after the last  *)
(* batch it reads events->size() for endTimeIdx.                              *)
ProcessBatch ==
  /\ At("main", "process")
  /\ processed' = indexReady
  /\ endTimeIdx' = IF eof["main"] THEN EventsSize(mainEvents) - 1 ELSE endTimeIdx
  /\ Goto("main", IF eof["main"] THEN "done" ELSE "waitBatch")
  /\ UNCHANGED <<fileVars, loadVars, tbufVars, turn, eof, eventVars, typeVars, indexVars,
                 mainEvents, mainType, indexReady>>

-----------------------------------------------------------------------------

Loader == BeginProduce \/ ReadFile \/ AccountRead
Reader == \/ ReaderWaitEmpty \/ ReaderWaitLoaded \/ Tokenize
          \/ ReaderEndLoadBuffer \/ ReaderEndThreadBuffer
Parser == \/ ParserWaitFull \/ ParserWaitTokenized \/ ParseLines
          \/ ParserEndLoadBuffer \/ ParserEndThreadBuffer
          \/ DetermineTraceType \/ GuessTraceType \/ PostBatch \/ PostLast
          \/ SendEOF \/ DeleteThreadBuffers
Main   == WaitForTraceType \/ ReadTraceType \/ WaitForNextBatch \/ ProcessBatch

AllDone == \A t \in Threads : pc[t] = "done"
Terminated == AllDone /\ UNCHANGED vars

Next == Loader \/ Reader \/ Parser \/ Main \/ Terminated

(* Each is an OS thread that runs until it is done, and the main thread does  *)
(* nothing else while it processes the trace.                                 *)
Fairness == WF_vars(Loader) /\ WF_vars(Reader) /\ WF_vars(Parser) /\ WF_vars(Main)

Spec     == Init /\ [][Next]_vars
FairSpec == Spec /\ Fairness

-----------------------------------------------------------------------------
(* Properties.                                                               *)

RingLabels   == {"lockL", "sleepL", "work", "done"}
TbufLabels   == RingLabels \cup {"lockT", "sleepT", "endL", "endT"}
LoaderLabels == RingLabels \cup {"account"}
ParserLabels == TbufLabels \cup {"type", "guess", "post", "lastPost", "sendEOF", "delete"}
MainLabels   == {"waitType", "sleepType", "readType", "waitBatch", "sleepBatch", "process",
                 "done"}

Labels       == ParserLabels \cup MainLabels \cup {"account"}

(* Each thread is somewhere in its own program.                              *)
PcOK ==
  /\ pc \in [Threads -> Labels]
  /\ pc["loader"] \in LoaderLabels /\ pc["reader"] \in TbufLabels
  /\ pc["parser"] \in ParserLabels /\ pc["main"] \in MainLabels

(* Every variable has a value of its C++ type, and a mutex has at most one    *)
(* holder, one of the threads that lock it.                                   *)
TypeOK ==
  /\ PcOK
  /\ file \in Seq(BufferType) /\ parsed \in Seq(BufferType) /\ filePos \in Nat
  /\ buf \in [Slots -> BufferType] /\ list \in [Slots -> BufferType]
  /\ state \in [Slots -> {"EMPTY", "LOADED", "TOKENIZED"}]
  /\ isEmpty \in [Slots -> BOOLEAN]
  /\ loadMutex \in [Slots -> {"loader", "reader", "parser", NoOne}]
  /\ tbufMutex \in [Slots -> {"reader", "parser", NoOne}]
  /\ tbufLive \in SUBSET Slots
  /\ turn \in [Threads -> Nat] /\ eof \in [Threads -> BOOLEAN]
  /\ nEvents \in [Kinds -> Nat]
  /\ traceType \in Kinds \cup {"UNKNOWN"} /\ mainType \in Kinds \cup {"UNKNOWN"}
  /\ events \in Kinds \cup {"null"} /\ mainEvents \in Kinds \cup {"null"}
  /\ typeEOF \in BOOLEAN /\ eventsEOF \in BOOLEAN
  /\ posted \in Nat /\ received \in Nat /\ indexReady \in Nat /\ processed \in Nat
  /\ endTimeIdx \in Int

(* filePos of a buffer is the offset of its first byte in the file: where the *)
(* bytes of the buffer before it end.                                         *)
FilePosIsOffset ==
  \A i \in 1 .. Len(file) :
    file[i].filePos = IF i = 1 THEN 0 ELSE file[i - 1].filePos + file[i - 1].nRead

(* The parser takes the buffers in the order of the file, each of them once,  *)
(* and finds in the ThreadBuffer exactly the events of the LoadBuffer that    *)
(* goes with it, although three rings of slots are walked independently; and  *)
(* each has its offset in the file, although produceBuffer() adds nRead up    *)
(* after it has unlocked the buffer: stack and backtrace text is found again  *)
(* by these offsets.                                                          *)
ParsedInFileOrder == parsed = SubSeq(file, 1, Len(parsed)) /\ FilePosIsOffset

(* As long as a ThreadBuffer has lines and the parser has not given the       *)
(* LoadBuffer back, the LoadBuffer holds the bytes that were tokenized.       *)
LineBytesLive ==
  \A s \in Slots :
    list[s] # Nothing /\ ~(At("parser", "endT") /\ Slot("parser") = s) => list[s] = buf[s]

(* Lines exist only in a full ThreadBuffer or in the one being filled.        *)
LinesOnlyInFullBuffer ==
  \A s \in Slots : list[s] # Nothing =>
    ~isEmpty[s] \/ (pc["reader"] \in {"endL", "endT"} /\ Slot("reader") = s)

(* Lines are pointers into the LoadBuffer: the bytes they were split from are *)
(* still there while the parser may read them, and no lines are left over     *)
(* when the LoadBuffer is filled again.                                       *)
LinesPointIntoLiveBuffer == LineBytesLive /\ LinesOnlyInFullBuffer

InLoadBuffer(t)   == pc[t] \in {"work", "endL"}
InThreadBuffer(t) == pc[t] \in {"lockL", "sleepL", "work", "endL", "endT"}

LoadMutexOwner ==
  \A s \in Slots : \A t \in {"loader", "reader", "parser"} :
    loadMutex[s] = t <=> InLoadBuffer(t) /\ Slot(t) = s

TbufMutexOwner ==
  \A s \in Slots : \A t \in {"reader", "parser"} :
    tbufMutex[s] = t <=> InThreadBuffer(t) /\ Slot(t) = s

StateOfOwner ==
  /\ InLoadBuffer("loader") => state[Slot("loader")] = "EMPTY"
  /\ InLoadBuffer("reader") => state[Slot("reader")] = "LOADED"
  /\ InLoadBuffer("parser") => state[Slot("parser")] = "TOKENIZED"
  /\ InThreadBuffer("reader") => isEmpty[Slot("reader")]
  /\ InThreadBuffer("parser") => ~isEmpty[Slot("parser")]
  /\ At("reader", "endT") => state[Slot("reader")] = "TOKENIZED"

FullIsTokenized ==
  \A s \in Slots : ~isEmpty[s] =>
    state[s] = "TOKENIZED" \/ (At("parser", "endT") /\ Slot("parser") = s)

(* The mutex of a slot is held by the thread that works on it, and while it   *)
(* works nobody changes the state it waited for; a full ThreadBuffer belongs  *)
(* to a tokenized LoadBuffer until the parser has given that one back.        *)
LockDiscipline == LoadMutexOwner /\ TbufMutexOwner /\ StateOfOwner /\ FullIsTokenized

RingSleeperHasReason ==
  /\ At("loader", "sleepL") => state[Slot("loader")] # "EMPTY"
  /\ At("reader", "sleepL") => state[Slot("reader")] # "LOADED"
  /\ At("parser", "sleepL") => state[Slot("parser")] # "TOKENIZED"
  /\ At("reader", "sleepT") => ~isEmpty[Slot("reader")]
  /\ At("parser", "sleepT") => isEmpty[Slot("parser")]

MainSleeperHasReason ==
  /\ At("main", "sleepType") => ~typeEOF
  /\ At("main", "sleepBatch") => ~eventsEOF /\ posted - received < Batch

(* No wakeup is lost: a thread that sleeps on a condition has no reason to be *)
(* awake.  For main that is what wakeAll() only on a full batch relies on.    *)
NoLostWakeup == RingSleeperHasReason /\ MainSleeperHasReason

(* The main thread only reads events the parser has committed to the list     *)
(* main reads, and it has chosen the list the indices are posted for.         *)
MainReadsCommittedEvents ==
  /\ posted <= EventsSize(events)
  /\ mainEvents # "null" => mainEvents = events /\ mainType = traceType
  /\ At("main", "process") => processed <= indexReady /\ indexReady <= EventsSize(mainEvents)

(* Once announced the trace type and the list of events never change, so main *)
(* may read them without a lock, even when guessTraceType() runs after        *)
(* determineTraceType() has decided.                                          *)
AnnouncedTypeStable == [][typeEOF => UNCHANGED <<traceType, events>>]_vars

(* The parser deletes the ThreadBuffers when the reader has left them for     *)
(* good and nobody is in one of them.                                         *)
DeletedAfterLastUse ==
  tbufLive = {} => At("reader", "done") /\ \A s \in Slots : tbufMutex[s] = NoOne

(* The delivery of events the four threads amount to.                         *)
Delivery == INSTANCE TraceDelivery WITH
  Buffers   <- BufferType,
  Capacity  <- NBuf,
  delivered <- file,
  taken     <- parsed,
  count     <- nEvents,
  kind      <- IF typeEOF THEN traceType ELSE "undecided",
  analysed  <- processed,
  over      <- At("main", "done")

(* Every step of the threads is a step of TraceDelivery or invisible to it:   *)
(* at most NBuf buffers are in flight, they arrive in order, the type is      *)
(* announced once and by majority, and main ends only at the end of the file, *)
(* when it has analysed every event of the type.                              *)
ImplementsTraceDelivery == Delivery!Spec

(* The threads do not wait for one another forever: each of them finishes.    *)
EveryThreadFinishes == <>AllDone

=============================================================================

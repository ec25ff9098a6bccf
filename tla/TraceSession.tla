---------------------------- MODULE TraceSession ----------------------------
(***************************************************************************)
(* The threads of the load pipeline across openings and closings of        *)
(* traces.  The loader thread belongs to a TraceFile, whose destructor     *)
(* joins it.  The reader and the parser thread belong to the TraceParser   *)
(* and are started by every open(); nobody joins them.  QThread::start()   *)
(* does nothing when the thread is still running, and a thread is running  *)
(* until its function has returned.  What the threads do between them      *)
(* while a trace is loaded is the subject of LoadPipeline; here each has   *)
(* only the phases in which it uses something that open() and close()      *)
(* create and delete.                                                      *)
(***************************************************************************)
EXTENDS Integers

CONSTANTS
  MaxOpens,   (* bound: traces that are opened                                *)
  Patience    (* does the user give the threads time before closing a trace?  *)

ASSUME OpensAssumption == MaxOpens \in Nat \ {0}
ASSUME UserAssumption  == Patience \subseteq BOOLEAN

Nobody == 0

VARIABLES
  opened,     (* traces opened so far; the number names a trace               *)
  traceFile,  (* TraceParser::traceFile: its trace, 0 for nullptr             *)
  tbuffers,   (* the trace for which tbuffers were allocated, 0 if deleted    *)
  loader,     (* the thread of traceFile: "load", "return" or "finished"      *)
  loaderOf,   (* the trace whose LoadBuffers the loader fills                 *)
  reader,     (* readerThread: "read", "return" or "finished"                 *)
  parser,     (* parserThread: "parse", "post", "delete", "return" or         *)
              (* "finished"                                                   *)
  readerOf,   (* the trace the reader was started for                         *)
  parserOf,   (* the trace the parser was started for                         *)
  traceType,  (* "UNKNOWN" or "known", as TraceParser::traceType              *)
  typeEOF,    (* traceTypeWatcher: isEOF                                      *)
  eventsEOF,  (* eventsWatcher: isEOF                                         *)
  main,       (* the GUI thread: "idle", "waitType" or "waitEvents"           *)
  patient     (* the answer for the user of this session                      *)

sessionVars == <<opened, traceFile, tbuffers, loader, loaderOf, reader, parser, readerOf, parserOf,
                 traceType, typeEOF, eventsEOF, main, patient>>

SessionInit ==
  /\ opened = 0 /\ traceFile = Nobody /\ tbuffers = Nobody
  /\ loader = "finished" /\ reader = "finished" /\ parser = "finished"
  /\ loaderOf = Nobody /\ readerOf = Nobody /\ parserOf = Nobody
  /\ traceType = "UNKNOWN" /\ typeEOF = FALSE /\ eventsEOF = FALSE
  /\ main = "idle"
  /\ patient \in Patience

-----------------------------------------------------------------------------
(* The GUI thread.                                                           *)

(* TraceParser::open() by openFile(), which goes on to processTrace().        *)
Open ==
  /\ main = "idle" /\ traceFile = Nobody /\ opened < MaxOpens
  /\ opened' = opened + 1 /\ traceFile' = opened + 1 /\ tbuffers' = opened + 1
  /\ typeEOF' = FALSE /\ eventsEOF' = FALSE
  /\ loader' = "load" /\ loaderOf' = opened + 1
  /\ IF reader = "finished" THEN reader' = "read" /\ readerOf' = opened + 1
                            ELSE UNCHANGED <<reader, readerOf>>
  /\ IF parser = "finished" THEN parser' = "parse" /\ parserOf' = opened + 1
                            ELSE UNCHANGED <<parser, parserOf>>
  /\ main' = "waitType"
  /\ UNCHANGED traceType

(* threadProcess() returns at once when the type is unknown.                  *)
WaitForTraceType ==
  /\ main = "waitType" /\ typeEOF
  /\ main' = IF traceType = "UNKNOWN" THEN "idle" ELSE "waitEvents"
  /\ UNCHANGED <<opened, traceFile, tbuffers, loader, loaderOf, reader, parser, readerOf, parserOf,
                 traceType, typeEOF, eventsEOF>>

WaitForEvents ==
  /\ main = "waitEvents" /\ eventsEOF
  /\ main' = "idle"
  /\ UNCHANGED <<opened, traceFile, tbuffers, loader, loaderOf, reader, parser, readerOf, parserOf,
                 traceType, typeEOF, eventsEOF>>

(* Mutant: nobody waits for the threads, the destructor does not either.      *)
CloseWithoutJoin ==
  /\ main = "idle" /\ traceFile # Nobody
  /\ traceFile' = Nobody /\ traceType' = "UNKNOWN"
  /\ UNCHANGED <<opened, tbuffers, loader, loaderOf, reader, parser, readerOf, parserOf, typeEOF,
                 eventsEOF, main>>

(* TraceParser::close(); ~TraceFile() waits for the loader thread.            *)
Close ==
  /\ main = "idle" /\ traceFile # Nobody
  /\ loader = "finished"
  /\ patient => reader = "finished" /\ parser = "finished"
  /\ traceFile' = Nobody /\ traceType' = "UNKNOWN"
  /\ UNCHANGED <<opened, tbuffers, loader, loaderOf, reader, parser, readerOf, parserOf, typeEOF,
                 eventsEOF, main>>

-----------------------------------------------------------------------------
(* The threads of the pipeline.                                              *)

LoaderReachesEOF ==
  /\ loader = "load" /\ loader' = "return"
  /\ UNCHANGED <<opened, traceFile, tbuffers, loaderOf, reader, parser, readerOf, parserOf,
                 traceType, typeEOF, eventsEOF, main>>

LoaderReturns ==
  /\ loader = "return" /\ loader' = "finished"
  /\ UNCHANGED <<opened, traceFile, tbuffers, loaderOf, reader, parser, readerOf, parserOf,
                 traceType, typeEOF, eventsEOF, main>>

(* The last buffer has been tokenized and handed to the parser.               *)
ReaderReachesEOF ==
  /\ reader = "read" /\ loaderOf = readerOf /\ loader # "load"
  /\ reader' = "return"
  /\ UNCHANGED <<opened, traceFile, tbuffers, loader, loaderOf, parser, readerOf, parserOf, traceType,
                 typeEOF, eventsEOF, main>>

ReaderReturns ==
  /\ reader = "return" /\ reader' = "finished"
  /\ UNCHANGED <<opened, traceFile, tbuffers, loader, loaderOf, parser, readerOf, parserOf, traceType,
                 typeEOF, eventsEOF, main>>

DetermineTraceType ==
  /\ parser = "parse" /\ ~typeEOF
  /\ traceType' = "known" /\ typeEOF' = TRUE
  /\ UNCHANGED <<opened, traceFile, tbuffers, loader, loaderOf, reader, parser, readerOf, parserOf,
                 eventsEOF, main>>

(* Mutant: the main thread is not told that there is no type.                 *)
GiveUpSilently ==
  /\ parser = "parse" /\ readerOf = parserOf /\ reader # "read"
  /\ parser' = "post"
  /\ UNCHANGED <<opened, traceFile, tbuffers, loader, loaderOf, reader, readerOf, parserOf, traceType,
                 typeEOF, eventsEOF, main>>

(* After the reader's last buffer the type is guessed, and may stay unknown.  *)
ParserReachesEOF ==
  /\ parser = "parse" /\ readerOf = parserOf /\ reader # "read"
  /\ parser' = "post"
  /\ typeEOF' = TRUE
  /\ traceType' \in IF typeEOF THEN {traceType} ELSE {"known", "UNKNOWN"}
  /\ UNCHANGED <<opened, traceFile, tbuffers, loader, loaderOf, reader, readerOf, parserOf, eventsEOF, main>>

(* sendNextIndex(events->size()) and sendEOF().                               *)
ParserSendsEOF ==
  /\ parser = "post" /\ parser' = "delete"
  /\ eventsEOF' = TRUE
  /\ UNCHANGED <<opened, traceFile, tbuffers, loader, loaderOf, reader, readerOf, parserOf, traceType,
                 typeEOF, main>>

ParserDeletes ==
  /\ parser = "delete" /\ parser' = "return"
  /\ tbuffers' = Nobody
  /\ UNCHANGED <<opened, traceFile, loader, loaderOf, reader, readerOf, parserOf, traceType, typeEOF,
                 eventsEOF, main>>

ParserReturns ==
  /\ parser = "return" /\ parser' = "finished"
  /\ UNCHANGED <<opened, traceFile, tbuffers, loader, loaderOf, reader, readerOf, parserOf, traceType,
                 typeEOF, eventsEOF, main>>

Loader  == LoaderReachesEOF \/ LoaderReturns
Process == WaitForTraceType \/ WaitForEvents
Reader  == ReaderReachesEOF \/ ReaderReturns
Parser  == \/ DetermineTraceType \/ ParserReachesEOF \/ ParserSendsEOF
           \/ ParserDeletes \/ ParserReturns

SessionNext ==
  /\ Open \/ Close \/ Process \/ Loader \/ Reader \/ Parser
  /\ UNCHANGED patient

(* Threads run; the user need not do anything.                                *)
SessionFairness ==
  /\ WF_sessionVars(Process /\ UNCHANGED patient)
  /\ WF_sessionVars(Loader /\ UNCHANGED patient)
  /\ WF_sessionVars(Reader /\ UNCHANGED patient)
  /\ WF_sessionVars(Parser /\ UNCHANGED patient)

SessionSpec == SessionInit /\ [][SessionNext]_sessionVars
FairSession == SessionSpec /\ SessionFairness

-----------------------------------------------------------------------------
(* Properties.                                                               *)

SessionTypeOK ==
  /\ opened \in 0..MaxOpens
  /\ traceFile \in {Nobody, opened}
  /\ {tbuffers, loaderOf, readerOf, parserOf} \subseteq 0..opened
  /\ loader \in {"load", "return", "finished"}
  /\ reader \in {"read", "return", "finished"}
  /\ parser \in {"parse", "post", "delete", "return", "finished"}
  /\ traceType \in IF traceFile = Nobody THEN {"UNKNOWN"} ELSE {"UNKNOWN", "known"}
  /\ typeEOF \in BOOLEAN /\ eventsEOF \in BOOLEAN
  /\ main \in {"idle", "waitType", "waitEvents"}
  /\ patient \in BOOLEAN

(* However soon a trace is closed and the next one opened, the TraceFile and  *)
(* its LoadBuffers outlive their users: as long as the                        *)
(* loader thread exists, the reader splits lines or the parser reads them,    *)
(* the trace for which they do so is open.  ~TraceFile() waits for the        *)
(* loader only; that the others are past their last use follows from what     *)
(* threadProcess() has waited for before the GUI can close the trace.         *)
FileOutlivesUsers ==
  /\ loader # "finished" => loaderOf = traceFile
  /\ reader = "read" => readerOf = traceFile
  /\ parser = "parse" => parserOf = traceFile

(* "These buffers will be deleted by the parserThread" (traceparser.cpp:137): *)
(* it deletes those of the trace it was started for, no earlier than its own  *)
(* end, so that when the threads have ended every trace that was closed has   *)
(* given back its ThreadBuffers, if the user is patient.                      *)
NoBuffersLeft ==
  patient /\ reader = "finished" /\ parser = "finished" /\ main = "idle" => tbuffers = Nobody

(* What open() makes is there while a thread needs it, and no longer.         *)
ResourcesFollowTrace == FileOutlivesUsers /\ NoBuffersLeft

(* A trace that was opened is analysed, or found not to be a trace: the GUI   *)
(* thread never waits forever in processTrace(), not even after the threads   *)
(* have been started again for another trace, if the user is patient.         *)
PatientUserIsServed == patient /\ main # "idle" ~> main = "idle"
=============================================================================

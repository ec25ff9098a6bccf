------------------------------- MODULE StateFile -------------------------------
(***************************************************************************)
(* misc/statefile.cpp, what MainWindow does with it, and the colors of the *)
(* tasks in TraceAnalyzer.  The colors that the user gives to tasks are    *)
(* kept in memory until the trace is closed, written to a file beside the  *)
(* trace, and read from it when the trace is opened again.                 *)
(*                                                                         *)
(* A step is a slot of the GUI thread, or the end of the program.  A map   *)
(* of colors is a function that is NoColor for the tasks that have none.   *)
(***************************************************************************)
EXTENDS Integers

CONSTANTS
  Traces, Files,
  FileOf,      (* the state file of a trace: its name with another ending, so  *)
               (* that several traces may have the same                        *)
  Pids,
  Known, Ran,  (* the tasks of a trace, and those of them that ran on a CPU    *)
  Colors,      (* the colors that can be given                                 *)
  Random,      (* a color that colorizeTasks() gives                           *)
  NoColor, NoTrace, NoFile

ASSUME ConstantsAssumption ==
  /\ Pids \subseteq Nat
  /\ FileOf \in [Traces -> Files]
  /\ Known \in [Traces -> SUBSET Pids] /\ Ran \in [Traces -> SUBSET Pids]
  /\ NoColor \notin Colors \cup {Random} /\ NoTrace \notin Traces /\ NoFile \notin Files

VARIABLES
  disk,          (* what is in the state files                                 *)
  state,         (* MainWindow::stateFile: traceFile, stateFile and colorMap   *)
  openTrace,     (* the trace that the analyzer has open                       *)
  taskColor,     (* TraceAnalyzer::colorMap                                    *)
  origColor,     (* TraceAnalyzer::origColorMap                                *)
  resetEnabled,  (* resetTaskColorAction is enabled                            *)
  promised       (* history: the colors that the user last saw for a file, or  *)
                 (* unknown after a loss that was reported or a crash          *)

stateVars == <<disk, state, openTrace, taskColor, origColor, resetEnabled, promised>>

Maps == [Pids -> Colors \cup {NoColor}]
NoColors == [p \in Pids |-> NoColor]

(* A file is absent, cannot be read (it is no state file, is empty, is of a    *)
(* newer version or may not be opened), or holds the colors.                  *)
Absent  == [kind |-> "absent", colors |-> NoColors]
Invalid == [kind |-> "invalid", colors |-> NoColors]
Good(map) == [kind |-> "good", colors |-> map]

Unknown == [known |-> FALSE, colors |-> NoColors]
Promise(map) == [known |-> TRUE, colors |-> map]

-----------------------------------------------------------------------------
(* StateFile.                                                                *)

Cleared == [traceFile |-> NoTrace, stateFile |-> NoFile, colorMap |-> NoColors]

SetTraceFile(s, t) == IF s.traceFile = NoTrace THEN [s EXCEPT !.traceFile = t] ELSE s

CheckStateFile(s) ==
  IF s.stateFile # NoFile \/ s.traceFile = NoTrace THEN s
  ELSE [s EXCEPT !.stateFile = FileOf[s.traceFile]]

(* loadState() on what is in the files.  On an error no color is taken over.   *)
LoadState(s, d) ==
  LET c == CheckStateFile(s)
  IN  IF c.stateFile # NoFile /\ c.colorMap = NoColors
      THEN [c EXCEPT !.colorMap = d[c.stateFile].colors]
      ELSE c

(* What is left of a file while it is written: the colors are in the order of  *)
(* the PIDs, and what was written of them is read without an error.           *)
Torn(map) ==
  {Invalid} \cup {Good([p \in Pids |-> IF p <= last THEN map[p] ELSE NoColor]) : last \in Pids}

(* saveState(): the contents of the files afterwards.                         *)
NothingToSave(s) == s.colorMap = NoColors
Save(s, d)       == IF NothingToSave(s) THEN d ELSE [d EXCEPT ![s.stateFile] = Good(s.colorMap)]
SaveFails(s, d)  ==
  IF NothingToSave(s) THEN {}
  ELSE {d} \cup {[d EXCEPT ![s.stateFile] = c] : c \in Torn(s.colorMap)}

-----------------------------------------------------------------------------
(* TraceAnalyzer.                                                            *)

(* Mutant: the color that is replaced is kept as the original one.             *)
SetOrigColorAlways(p) ==
  origColor' = IF taskColor[p] = NoColor THEN origColor ELSE [origColor EXCEPT ![p] = taskColor[p]]

(* Of setTaskColor(): the color from colorizeTasks() is kept, and no other.    *)
SetOrigColor(p) ==
  origColor' = IF taskColor[p] = NoColor \/ origColor[p] # NoColor THEN origColor
               ELSE [origColor EXCEPT ![p] = taskColor[p]]

HasUserColor(t, map, p) == p \in Ran[t] /\ map[p] # NoColor

ColorizeTasks(t, map) ==
  /\ taskColor' = [p \in Pids |-> IF HasUserColor(t, map, p) THEN map[p]
                                  ELSE IF p \in Ran[t] THEN Random ELSE NoColor]
  /\ origColor' = [p \in Pids |-> IF HasUserColor(t, map, p) THEN Random ELSE NoColor]

-----------------------------------------------------------------------------
(* MainWindow.                                                               *)

StateInit ==
  /\ disk \in [Files -> {Absent, Invalid} \cup {Good([p \in Pids |-> c]) : c \in Colors}]
  /\ state = Cleared /\ openTrace = NoTrace
  /\ taskColor = NoColors /\ origColor = NoColors /\ resetEnabled = FALSE
  /\ promised = [f \in Files |-> Unknown]

IsOpen == openTrace # NoTrace
Own    == state.traceFile = openTrace

(* What the user may expect of the file after the trace was closed.            *)
PromisedAfter(saved) ==
  IF NothingToSave(state) /\ Own THEN promised
  ELSE [promised EXCEPT ![state.stateFile] = IF saved /\ Own THEN Promise(state.colorMap) ELSE Unknown,
                        ![FileOf[openTrace]]  = IF saved /\ Own THEN Promise(state.colorMap) ELSE Unknown]

(* saveState() in closeTrace(): an error is only reported.                    *)
SaveOutcomes ==
  IF ~IsOpen THEN {[disk |-> disk, promised |-> promised]}
  ELSE {[disk |-> Save(state, disk), promised |-> PromisedAfter(TRUE)]}
         \cup {[disk |-> d, promised |-> PromisedAfter(FALSE)] : d \in SaveFails(state, disk)}

NoTaskColors == taskColor' = NoColors /\ origColor' = NoColors /\ resetEnabled' = FALSE

CloseTrace ==
  /\ IsOpen
  /\ \E r \in SaveOutcomes : disk' = r.disk /\ promised' = r.promised
  /\ state' = Cleared /\ openTrace' = NoTrace
  /\ NoTaskColors

(* Mutant: the colors of the trace that was closed are not cleared.           *)
OpenUncleared(t, s, ok) ==
  LET l == LoadState(SetTraceFile([s EXCEPT !.colorMap = state.colorMap], t), disk')
      f == FileOf[t]
  IN  /\ state' = l
      /\ IF ok
         THEN /\ openTrace' = t
              /\ ColorizeTasks(t, l.colorMap)
              /\ resetEnabled' = \E p \in Pids : HasUserColor(t, l.colorMap, p)
         ELSE openTrace' = NoTrace /\ NoTaskColors

(* loadTraceFile() and, unless analyzer->open() fails, processTrace().         *)
LoadTraceFile(t, s, ok) ==
  LET l == LoadState(SetTraceFile(s, t), disk')
  IN  /\ state' = l
      /\ IF ok
         THEN /\ openTrace' = t
              /\ ColorizeTasks(t, l.colorMap)
              /\ resetEnabled' = \E p \in Pids : HasUserColor(t, l.colorMap, p)
         ELSE openTrace' = NoTrace /\ NoTaskColors

(* Colors that were read are promised, if they are those of the trace.        *)
Promises(t, ok, promises) ==
  IF ~ok THEN promises
  ELSE IF state'.traceFile # t
  THEN [promises EXCEPT ![FileOf[t]] = Unknown, ![state'.stateFile] = Unknown]
  ELSE IF promises[FileOf[t]].known THEN promises
  ELSE [promises EXCEPT ![FileOf[t]] = Promise(state'.colorMap)]

(* A trace is opened, after closing the one that is open, if one is.           *)
OpenFile(t, ok) ==
  \E r \in SaveOutcomes :
    /\ disk' = r.disk
    /\ LoadTraceFile(t, IF IsOpen THEN Cleared ELSE state, ok)
    /\ promised' = Promises(t, ok, r.promised)

(* colorTask(), from the toolbar or for tasks that were chosen in a dialog.    *)
ColorTask(p, c) ==
  /\ IsOpen /\ p \in Known[openTrace]
  /\ state' = [state EXCEPT !.colorMap[p] = c]
  /\ SetOrigColor(p)
  /\ taskColor' = [taskColor EXCEPT ![p] = c]
  /\ resetEnabled' = TRUE
  /\ promised' = IF promised[FileOf[openTrace]].known
                 THEN [promised EXCEPT ![FileOf[openTrace]].colors[p] = c] ELSE promised
  /\ UNCHANGED <<disk, openTrace>>

(* A file that cannot be removed is left without a message.                    *)
ResetTaskColors ==
  /\ IsOpen /\ resetEnabled
  /\ resetEnabled' = FALSE
  /\ taskColor' = [p \in Pids |-> IF origColor[p] # NoColor THEN origColor[p] ELSE taskColor[p]]
  /\ origColor' = NoColors
  /\ state' = [state EXCEPT !.colorMap = NoColors]
  /\ \/ /\ disk' = [disk EXCEPT ![state.stateFile] = Absent]
        /\ promised' = IF Own THEN [promised EXCEPT ![state.stateFile] = Promise(NoColors)] ELSE promised
     \/ /\ disk[state.stateFile].kind # "absent"
        /\ promised' = [promised EXCEPT ![state.stateFile] = Unknown]
        /\ UNCHANGED disk
  /\ UNCHANGED openTrace

(* The window is destroyed, and the program is started again.                 *)
Quit ==
  /\ \E r \in SaveOutcomes : disk' = r.disk /\ promised' = r.promised
  /\ state' = Cleared /\ openTrace' = NoTrace
  /\ NoTaskColors

(* The program ends without saving, or while it saves.                        *)
Crash ==
  /\ disk' \in {disk} \cup (IF IsOpen THEN SaveFails(state, disk) ELSE {})
  /\ promised' = IF IsOpen THEN [promised EXCEPT ![state.stateFile] = Unknown, ![FileOf[openTrace]] = Unknown]
                 ELSE promised
  /\ state' = Cleared /\ openTrace' = NoTrace
  /\ NoTaskColors

StateNext ==
  \/ \E t \in Traces, ok \in BOOLEAN : OpenFile(t, ok)
  \/ CloseTrace
  \/ \E p \in Pids, c \in Colors : ColorTask(p, c)
  \/ ResetTaskColors
  \/ Quit \/ Crash

StateSpec == StateInit /\ [][StateNext]_stateVars
-----------------------------------------------------------------------------
(* Properties.                                                               *)

(* A task that ran is drawn in the color that the user gave to it, in this or  *)
(* an earlier session, else in its original one, also after it got several    *)
(* colors and they were reset (comment in TraceAnalyzer::setTaskColor()).     *)
DrawnInUserColor ==
  IsOpen => \A p \in Ran[openTrace] :
    taskColor[p] = IF state.colorMap[p] # NoColor THEN state.colorMap[p] ELSE Random

(* The colors that the user saw when a trace was closed are there when it is  *)
(* opened again, in the same or another run of the program, unless an error   *)
(* was reported, the program crashed or a trace before it could not be opened *)
(* (saveState(), loadState(), clear()).                                       *)
ColorsComeBack ==
  IsOpen /\ Own /\ promised[FileOf[openTrace]].known =>
    state.colorMap = promised[FileOf[openTrace]].colors

(* While a task that ran has a color from the user they can be reset.         *)
ResetIsOffered ==
  IsOpen /\ (\E p \in Ran[openTrace] : state.colorMap[p] # NoColor) => resetEnabled
=============================================================================

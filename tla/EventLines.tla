------------------------------ MODULE EventLines ------------------------------
(***************************************************************************)
(* FtraceGrammar::parseLine() and PerfGrammar::parseLine(), a step for each *)
(* state of their loop, on one line of a trace that the kernel, trace-cmd  *)
(* or perf has printed, and what the analyzer then reads from the event    *)
(* (EventArgs).                                                            *)
(*                                                                         *)
(* A name may be any sequence of words, so parts of it look like fields:   *)
(* both grammars go back and take up to the time again as a name.          *)
(*                                                                         *)
(* The text that is printed is external to src/: Line, Arguments and what  *)
(* they use follow the formats that the comments of the parsers and the    *)
(* files under doc/ show.                                                  *)
(***************************************************************************)
EXTENDS EventArgs

CONSTANTS
  Printed,     (* the events that are printed, with the style of their text   *)
  FlagWords,   (* words of five characters that pass for the flags of ftrace  *)
  LongAtoms    (* the atoms of more than ten characters; a word that is longer *)
               (* than that has one                                           *)

VARIABLES
  tool,      (* the trace is from "ftrace" or "perf"                          *)
  printed,   (* the event that was printed                                    *)
  strings,   (* the words of the line that are left, from str on              *)
  state,     (* the local variable state                                      *)
  stored,    (* tmp_argv of ftrace, for perf event.argv up to the time        *)
  event,     (* the event                                                     *)
  outcome,   (* what parseLine() returned, "parsing" before it did            *)
  values     (* what the analyzer read from the arguments                     *)

vars == <<tool, printed, strings, state, stored, event, outcome, values>>

-----------------------------------------------------------------------------
(* What is printed.  An empty word of a name is one more space.               *)

(* The name between two texts without a space.                                *)
Glue(before, name, after) ==
  IF Len(name) = 1 THEN <<before \o name[1] \o after>>
  ELSE <<before \o name[1]>> \o SubSeq(name, 2, Len(name) - 1) \o <<name[Len(name)] \o after>>

Field(key, word) == <<key, "=">> \o word
Braces(word)     == <<"[">> \o word \o <<"]">>
StateText(flags) ==
  CASE flags = {} -> <<"R">> [] flags = {"+"} -> <<"R", "+">>
    [] flags = {"S"} -> <<"S">> [] flags = {"D", "K"} -> <<"D", "|", "K">>

NewStyle(e) ==
  CASE e.type = "sched_switch" ->
         Glue(<<"prev_comm", "=">>, e.oldname, <<>>)
           \o <<Field("prev_pid", e.oldpid), Field("prev_prio", <<"120">>), Field("prev_state", StateText(e.state)), <<"==>">>>>
           \o Glue(<<"next_comm", "=">>, e.newname, <<>>)
           \o <<Field("next_pid", e.newpid), Field("next_prio", <<"120">>)>>
    [] e.type \in {"sched_wakeup", "sched_waking"} ->
         Glue(<<"comm", "=">>, e.name, <<>>) \o <<Field("pid", e.pid), Field("prio", <<"120">>)>>
           \o (IF e.style = "success" THEN <<Field("success", <<"1">>)>> ELSE <<>>)
           \o <<Field("target_cpu", <<"0">>)>>
    [] e.type = "sched_process_fork" ->
         Glue(<<"comm", "=">>, e.name, <<>>) \o <<Field("pid", e.pid)>>
           \o Glue(<<"child_comm", "=">>, e.childname, <<>>) \o <<Field("child_pid", e.childpid)>>
    [] e.type = "sched_process_exit" ->
         Glue(<<"comm", "=">>, e.name, <<>>) \o <<Field("pid", e.pid), Field("prio", <<"120">>)>>
    [] e.type = "sched_migrate_task" ->
         Glue(<<"comm", "=">>, e.name, <<>>)
           \o <<Field("pid", e.pid), Field("prio", <<"120">>), Field("orig_cpu", e.origCPU), Field("dest_cpu", e.destCPU)>>
    [] e.type = "cpu_frequency" -> <<Field("state", e.freq), Field("cpu_id", e.cpu)>>

OldStyle(e) ==
  CASE e.type = "sched_switch" ->
         Glue(<<>>, e.oldname, <<":">> \o e.oldpid) \o <<Braces(<<"120">>), StateText(e.state), <<"==>">>>>
           \o Glue(<<>>, e.newname, <<":">> \o e.newpid) \o <<Braces(<<"120">>)>>
    [] e.type = "sched_wakeup" ->
         Glue(<<>>, e.name, <<":">> \o e.pid)
           \o (CASE e.style = "old" -> <<Braces(<<"120">>)>>
                 [] e.style = "old_success" -> <<Braces(<<"120">>), Field("success", <<"1">>)>>
                 [] e.style = "old_cant" ->
                      <<Braces(<<"120">>) \o <<"<CANT">>, <<"FIND">>, <<"FIELD">>, <<"success>">>>>)
           \o <<<<"CPU", ":", "0">>>>

Arguments(e) == IF e.style \in {"new", "success"} THEN NewStyle(e) ELSE OldStyle(e)

Line(t, e) ==
  (IF t = "ftrace" THEN Glue(<<>>, e.task, <<"-">> \o e.taskpid) ELSE e.task \o <<e.taskpid>>)
    \o <<Braces(<<"1">>)>>
    \o (IF t = "ftrace" /\ e.flags THEN <<<<"d..1.">>>> ELSE <<>>)
    \o <<<<"12", ".", "7", ":">>>>
    \o (IF t = "perf" /\ e.flags THEN <<<<"1">>>> ELSE <<>>)
    \o <<IF t = "ftrace" THEN <<e.type, ":">> ELSE <<"sched", ":", e.type, ":">>>>
    \o Arguments(e)

(* The line is split at the spaces.                                           *)
Split(line) == SelectSeq(line, LAMBDA w : w # <<>>)

-----------------------------------------------------------------------------
(* The tests of the grammars on a word.                                       *)

CPUDigits(w) == LET end == Indices(w, "]") IN SubSeq(w, 2, IF end = {} THEN Len(w) ELSE Least(end) - 1)
IsCPU(w)     == w[1] = "[" /\ \A i \in DOMAIN CPUDigits(w) : CPUDigits(w)[i] \in Numbers
IsFlags(w)   == w[1] \in FlagWords /\ Len(w) = 1

(* Time::fromString(): digits with a point at most, and then a colon.          *)
IsTime(w) ==
  \E i \in Indices(w, ":") :
    /\ \A j \in 1..(i - 1) : w[j] \in Numbers \cup {".", "-"}
    /\ \A j \in 1..(i - 1) : w[j] = "-" => j = 1
    /\ Cardinality({j \in 1..(i - 1) : w[j] = "."}) <= 1

IsNumber(w)  == Number(w) # Garbage
EventName(w) ==
  LET colons == Indices(w, ":") \ {Len(w)}
  IN  SubSeq(w, IF tool = "perf" /\ colons # {} THEN Least(colons) + 1 ELSE 1, Len(w) - 1)

(* A word that ends with a PID, for ftrace after the last hyphen but one at its *)
(* end; pidFromString() of perf takes every word that is too long, and the      *)
(* hyphen alone, for a zero.                                                  *)
Hyphen(w) == Indices(w, "-") \ {Len(w)}
AfterHyphen(w) == SubSeq(w, Greatest(Hyphen(w)) + 1, Len(w))
IsZero(w) == w = <<"-">> \/ \E i \in DOMAIN w : w[i] \in LongAtoms
IsPid(w)  ==
  IF tool = "ftrace" THEN Hyphen(w) # {} /\ AfterHyphen(w)[1] \in Numbers /\ IsNumber(AfterHyphen(w))
  ELSE IsZero(w) \/ IsNumber(w)

(* extractNameAndPid(), or what TimeMatch() of perf does, for the words before  *)
(* the CPU: the name and the PID, if they are there.                          *)
FtraceTask ==
  LET n == Len(stored)
      w == stored[n - 1]
  IN  IF n < 2 \/ ~IsPid(w) THEN [ok |-> FALSE]
      ELSE [ok |-> TRUE, pid |-> AfterHyphen(w),
            name |-> SubSeq(stored, 1, n - 2) \o <<SubSeq(w, 1, Greatest(Hyphen(w)) - 1)>>]

PerfTask ==
  LET n == Len(stored)
      w == stored[n - 1]
  IN  IF n < 3 \/ ~IsPid(w) THEN [ok |-> FALSE]
      ELSE [ok |-> TRUE, pid |-> IF IsZero(w) THEN <<"0">> ELSE w, name |-> SubSeq(stored, 1, n - 2)]

StoredTask == IF tool = "ftrace" THEN FtraceTask ELSE PerfTask

-----------------------------------------------------------------------------
(* The states of the loop.                                                    *)

KnownTypes == {"sched_switch", "sched_wakeup", "sched_waking", "sched_process_fork",
               "sched_process_exit", "sched_migrate_task", "cpu_frequency"}

NoEvent == [task |-> <<>>, pid |-> <<>>, cpu |-> <<>>, type |-> <<>>, argv |-> <<>>]

Init ==
  /\ tool \in {"ftrace", "perf"}
  /\ printed \in Printed
  /\ strings = Split(Line(tool, printed))
  /\ state = "NAME" /\ stored = <<>> /\ event = NoEvent
  /\ outcome = "parsing" /\ values = [ok |-> FALSE]

(* NEXTTOKEN(leaf): the next word, in the state next, or the end of the line.  *)
NextToken(next, leaf) ==
  /\ strings' = Tail(strings)
  /\ IF Len(strings) = 1
     THEN outcome' = (IF leaf THEN "event" ELSE "rejected") /\ UNCHANGED state
     ELSE state' = next /\ UNCHANGED outcome

In(s) == outcome = "parsing" /\ state = s

NameMatch ==
  /\ In("NAME")
  /\ stored' = Append(stored, Head(strings))
  /\ NextToken(IF tool = "ftrace" THEN "CPU" ELSE "PID", FALSE)
  /\ UNCHANGED <<tool, printed, event, values>>

(* Only of perf, where a name and a PID come before the CPU.                   *)
PidMatch ==
  /\ In("PID")
  /\ stored' = Append(stored, Head(strings))
  /\ NextToken("CPU", FALSE)
  /\ UNCHANGED <<tool, printed, event, values>>

(* Mutant: the word that is no CPU is tried as a CPU once more.                *)
BackToCPU == state' = "CPU" /\ UNCHANGED <<strings, outcome>>

(* Where a word is no CPU or no time it is a part of the name, or the PID.     *)
BackToName == state' = (IF tool = "ftrace" THEN "NAME" ELSE "PID") /\ UNCHANGED <<strings, outcome>>

(* Mutant: a word that is no CPU is dropped.                                  *)
CPUMatchDrops ==
  /\ In("CPU")
  /\ IF IsCPU(Head(strings))
     THEN /\ event' = [event EXCEPT !.cpu = CPUDigits(Head(strings))]
          /\ stored' = Append(stored, Head(strings))
          /\ NextToken(IF tool = "ftrace" THEN "FLAGS" ELSE "TIME", FALSE)
     ELSE /\ event' = [event EXCEPT !.cpu = <<>>]
          /\ NextToken(IF tool = "ftrace" THEN "NAME" ELSE "PID", FALSE)
          /\ UNCHANGED stored
  /\ UNCHANGED <<tool, printed, values>>

CPUMatch ==
  /\ In("CPU")
  /\ IF IsCPU(Head(strings))
     THEN /\ event' = [event EXCEPT !.cpu = CPUDigits(Head(strings))]
          /\ stored' = Append(stored, Head(strings))
          /\ NextToken(IF tool = "ftrace" THEN "FLAGS" ELSE "TIME", FALSE)
     ELSE /\ BackToName
          /\ event' = [event EXCEPT !.cpu = IF Head(strings)[1] = "[" THEN <<"0">> ELSE @]
          /\ UNCHANGED stored
  /\ UNCHANGED <<tool, printed, values>>

(* The flags are optional, and are not kept for the name.                      *)
FlagMatch ==
  /\ In("FLAGS")
  /\ IF IsFlags(Head(strings)) THEN NextToken("TIME", FALSE)
     ELSE state' = "TIME" /\ UNCHANGED <<strings, outcome>>
  /\ UNCHANGED <<tool, printed, stored, event, values>>

(* The time, with which what was stored becomes the name and the PID.          *)
TimeMatch ==
  /\ In("TIME")
  /\ IF IsTime(Head(strings)) /\ StoredTask.ok
     THEN /\ event' = [event EXCEPT !.task = StoredTask.name, !.pid = StoredTask.pid]
          /\ NextToken(IF tool = "ftrace" THEN "EVENT" ELSE "INTARG", FALSE)
     ELSE BackToName /\ UNCHANGED event
  /\ UNCHANGED <<tool, printed, stored, values>>

(* Only of perf, and optional.                                               *)
IntArgMatch ==
  /\ In("INTARG")
  /\ IF IsNumber(Head(strings)) THEN NextToken("EVENT", FALSE)
     ELSE state' = "EVENT" /\ UNCHANGED <<strings, outcome>>
  /\ UNCHANGED <<tool, printed, stored, event, values>>

EventMatch ==
  /\ In("EVENT")
  /\ LET w == Head(strings)
     IN  IF w[Len(w)] = ":"
         THEN /\ event' = [event EXCEPT !.type = EventName(w)]
              /\ NextToken("ARG", TRUE)
         ELSE outcome' = "rejected" /\ UNCHANGED <<event, strings, state>>
  /\ UNCHANGED <<tool, printed, stored, values>>

ArgMatch ==
  /\ In("ARG")
  /\ event' = [event EXCEPT !.argv = Append(@, Head(strings))]
  /\ NextToken("ARG", TRUE)
  /\ UNCHANGED <<tool, printed, stored, values>>

(* The analyzer reads the arguments of an event whose type it knows.           *)
Analyze ==
  /\ outcome = "event"
  /\ outcome' = "analyzed"
  /\ values' = IF Len(event.type) = 1 /\ event.type[1] \in KnownTypes
               THEN Read(tool, event.type[1], event.argv) ELSE values
  /\ UNCHANGED <<tool, printed, strings, state, stored, event>>

Next ==
  \/ NameMatch \/ PidMatch \/ CPUMatch \/ FlagMatch \/ TimeMatch
  \/ IntArgMatch \/ EventMatch \/ ArgMatch
  \/ Analyze

Spec == Init /\ [][Next]_vars /\ WF_vars(Next)
-----------------------------------------------------------------------------
(* Properties.                                                               *)

(* In the old style nothing but its text tells a name that ends like the PID  *)
(* field of the new style from that field, or a name with an arrow two words  *)
(* after one in brackets from what stands around the arrow.                   *)
Ambiguous(e) ==
  /\ e.style \notin {"new", "success"}
  /\ \/ "name" \in DOMAIN e /\ Prefix(e.name[Len(e.name)], "pid")
     \/ /\ "oldname" \in DOMAIN e
        /\ LET name == Split(e.oldname)
           IN  \E i \in 3..Len(name) : IsArrow(name[i]) /\ InBraces(name[i - 2])

(* The lines that are refused: perf needs a name; ftrace takes the last word   *)
(* of a name for the CPU if it begins like one, and is then past the PID,     *)
(* unless the word before it was taken so, after which a word is a name.      *)
Refused ==
  LET name == Split(printed.task)
      cpus == {i \in 2..Len(name) : \A j \in i..Len(name) : IsCPU(name[j])}
  IN  IF tool = "perf" THEN name = <<>>
      ELSE printed.task[Len(printed.task)] # <<>> /\ Cardinality(cpus) % 2 = 1

(* The name of the task holds a PID, a CPU and a time, which are taken for      *)
(* those of the line.                                                         *)
HoldsHeader ==
  LET w     == Split(Line(tool, printed))
      ftrace == tool = "ftrace"
      real  == IF ftrace THEN Len(Split(Glue(<<>>, printed.task, <<"-">> \o printed.taskpid))) + 1
               ELSE Len(Split(printed.task)) + 2
  IN  \E i \in (IF ftrace THEN 2 ELSE 3)..(real - 1) :
        /\ IsPid(w[i - 1]) /\ IsCPU(w[i])
        /\ IsTime(w[i + 1]) \/ (ftrace /\ IsFlags(w[i + 1]) /\ IsTime(w[i + 2]))

(* A word of the name that passes for the flags after a CPU is lost.           *)
FlagsInName ==
  LET name == Split(printed.task)
  IN  tool = "ftrace" /\ \E i \in 2..Len(name) : IsCPU(name[i - 1]) /\ IsFlags(name[i])

(* A line is an event whose task, PID, CPU, type and arguments are those that *)
(* were printed, whatever words the name of the task has: one that looks like *)
(* a CPU, a PID or a time, an arrow, or a space at either end (parseLine());  *)
(* and a line that cannot be understood is refused and not taken for another  *)
(* event.  The exceptions: a name that is a header itself (HoldsHeader), of    *)
(* which nothing is promised, and flags in a name, which are lost.             *)
LineIsUnderstood ==
  ~HoldsHeader =>
    /\ outcome = "analyzed" => ~Refused
    /\ outcome # "parsing" /\ ~Refused =>
         /\ outcome # "rejected"
         /\ event.pid = printed.taskpid /\ event.cpu = <<"1">> /\ event.type = <<printed.type>>
         /\ Split(event.task) = Split(printed.task) \/ FlagsInName
         /\ event.argv = Split(Arguments(printed))

(* The new style with success=, which perfparams.h lists for perf: the functions *)
(* for ftrace look for the PID next to the priority.                          *)
UnreadStyle == tool = "ftrace" /\ printed.style = "success"

(* What the code makes of a name: its words, or that it cannot be read, which *)
(* happens to a name with a space at one end.                                 *)
NameIsRead(read, name) ==
  read = Split(name) \/ (read = NullStr /\ (name[1] = <<>> \/ name[Len(name)] = <<>>))

(* The analyzer reads the PIDs, the state, the CPUs and the names that were   *)
(* printed, in every style that a comment of the parsers lists and whatever   *)
(* words the names have; the names of a switch may hold an arrow (comment at  *)
(* perf_sched_switch_find_arrow_()).  The exceptions: names that the old style *)
(* leaves ambiguous, the style that ftrace does not read, and lines whose     *)
(* header is not where it seems.                                              *)
ArgumentsAreRead ==
  outcome = "analyzed" /\ ~Ambiguous(printed) /\ ~UnreadStyle /\ ~HoldsHeader =>
    LET names == DOMAIN values \cap {"oldname", "newname", "name", "childname"}
    IN  /\ values.ok
        /\ \A f \in (DOMAIN values \cap DOMAIN printed) \ names : values[f] = printed[f]
        /\ \A f \in names : NameIsRead(values[f], printed[f])

(* The loop, which goes back to take a word again, comes to an end.            *)
EveryLineEnds == <>(outcome \in {"analyzed", "rejected"})
=============================================================================

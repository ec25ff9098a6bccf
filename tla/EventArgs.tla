------------------------------ MODULE EventArgs ------------------------------
(***************************************************************************)
(* parser/paramhelpers.h, parser/ftrace/ftraceparams.h,                    *)
(* parser/perf/perfparams.h and perf/helpers.h: what the analyzer reads    *)
(* from the arguments of an event.                                         *)
(*                                                                         *)
(* A word of a line is a sequence of atoms, strings that are never cut: a  *)
(* number, a key, a letter or a character such as "=".  argv is the        *)
(* sequence of the arguments; argv[i] is the argv[i - 1] of the code.  A   *)
(* number is returned as its word.  The name of a task is a sequence of    *)
(* words, since the line was split at the spaces.                          *)
(***************************************************************************)
EXTENDS Integers, Sequences, FiniteSets

CONSTANT Numbers    (* the atoms that are digits                              *)

Least(S)    == CHOOSE i \in S : \A j \in S : i <= j
Greatest(S) == CHOOSE i \in S : \A j \in S : j <= i
Indices(w, ch) == {i \in DOMAIN w : w[i] = ch}

ABSURD  == <<"INT_MAX">>
Garbage == <<"whatever the digits give">>
NullStr == <<<<"parsing error">>>>
PARSER_ERROR == {"TASK_STATE_PARSER_ERROR"}

(* An argument, or whatever is in memory before or after the array.           *)
Arg(argv, i) == IF i \in DOMAIN argv THEN argv[i] ELSE Garbage

-----------------------------------------------------------------------------
(* paramhelpers.h                                                            *)

IsArrow(w)     == w = <<"==>">>
Prefix(w, key) == Len(w) > 1 /\ w[1] = key /\ w[2] = "="
IsPrev(w)      == w # <<>> /\ w[1] \in {"prev_comm", "prev_pid", "prev_prio", "prev_state"}
IsNext(w)      == w # <<>> /\ w[1] \in {"next_comm", "next_pid", "next_prio"}
InBraces(w)    == Len(w) > 2 /\ w[1] = "[" /\ w[Len(w)] = "]"
InBracesOrCant(w) ==
  InBraces(w) \/ (Len(w) > 2 /\ w[1] = "[" /\ w[Len(w) - 1] = "]" /\ w[Len(w)] = "<CANT")

Number(w) ==
  IF w = <<>> THEN <<"0">>
  ELSE IF w[1] \in Numbers /\ Len(w) = 1 THEN w
  ELSE IF w[1] = "-" /\ Len(w) = 2 /\ w[2] \in Numbers THEN w
  ELSE Garbage

(* What follows the last ch.                                                  *)
IntAfter(w, ch) ==
  IF Indices(w, ch) = {} THEN ABSURD ELSE Number(SubSeq(w, Greatest(Indices(w, ch)) + 1, Len(w)))

(* The argument is expected at guess, else the first that has the prefix.     *)
IntAfterPrefix(argv, guess, key) ==
  LET found == {i \in DOMAIN argv : Prefix(argv[i], key)}
  IN  IF Prefix(Arg(argv, guess), key) \/ found = {} THEN IntAfter(Arg(argv, guess), "=")
      ELSE IntAfter(argv[Least(found)], "=")

(* copy_tstring_after_char_() of argv[first], then the arguments up to end.    *)
NameAfter(argv, first, end) ==
  LET w == Arg(argv, first)
      i == Least(Indices(w, "="))
  IN  IF Indices(w, "=") = {} \/ i = Len(w) THEN NullStr
      ELSE <<SubSeq(w, i + 1, Len(w))>> \o SubSeq(argv, first + 1, end)

(* The arguments from begin, then copy_tstring_before_char_() of argv[last].   *)
NameBefore(argv, begin, last) ==
  LET w == Arg(argv, last)
      i == Greatest(Indices(w, ":"))
  IN  IF Indices(w, ":") = {} \/ i = 1 THEN NullStr
      ELSE SubSeq(argv, begin, last - 1) \o <<SubSeq(w, 1, i - 1)>>

(* sched_state_from_tstring_(), as the set of flags.                          *)
StateFlags(w) ==
  LET letters == {w[i] : i \in DOMAIN w} \ {"|"}
  IN  IF w = <<"R">> THEN {}
      ELSE IF w = <<"R", "+">> THEN {"+"}
      ELSE IF "R" \in letters THEN (letters \ {"R"}) \cup {"unknown"}
      ELSE letters

StateAfter(w) ==
  LET found == {i \in Indices(w, "=") : i \in 2..(Len(w) - 1)}
  IN  IF found = {} THEN PARSER_ERROR
      ELSE StateFlags(SubSeq(w, Greatest(found) + 1, Len(w)))

-----------------------------------------------------------------------------
(* sched_switch                                                              *)

IsNewStyle(argv, i) ==
  /\ Prefix(argv[i - 3], "prev_pid") /\ Prefix(argv[i - 2], "prev_prio")
  /\ Prefix(argv[i - 1], "prev_state") /\ Prefix(argv[i + 1], "next_comm")
IsOldStyle(argv, i) == InBraces(argv[i - 2]) /\ InBraces(argv[Len(argv)])

(* The names, which both tools read in the same way.                          *)
NewNameOf(argv, i, new) ==
  IF new THEN NameAfter(argv, i + 1, Len(argv) - 2) ELSE NameBefore(argv, i + 1, Len(argv) - 1)
OldNameOf(argv, i, new) ==
  IF new THEN NameAfter(argv, 1, i - 4) ELSE NameBefore(argv, 1, i - 3)

(* Mutant: the first arrow is taken whatever is around it.                    *)
FtraceAnyArrow(argv) ==
  LET arrows == {i \in 4..(Len(argv) - 2) : IsArrow(argv[i])}
  IN  IF arrows = {} THEN Len(argv) - 1 ELSE Least(arrows)

(* The index of the arrow.  After a search in vain it is that of the last but  *)
(* one argument, which the test that follows does not refuse.                 *)
FtraceArrow(argv) ==
  LET arrows == {i \in 4..(Len(argv) - 2) :
                   IsArrow(argv[i]) /\ (IsNewStyle(argv, i) \/ IsOldStyle(argv, i))}
  IN  IF arrows = {} THEN Len(argv) - 1 ELSE Least(arrows)

FtraceSwitch(argv) ==
  LET n   == Len(argv)
      i   == FtraceArrow(argv)
      new == i <= n - 2 /\ IsNewStyle(argv, i)
      ch  == IF new THEN "=" ELSE ":"
  IN  IF n < 6 THEN [ok |-> FALSE]
      ELSE [ok |-> TRUE,
            oldpid  |-> IntAfter(Arg(argv, i - 3), ch),
            newpid  |-> IntAfter(Arg(argv, n - 1), ch),
            state   |-> IF new THEN StateAfter(argv[i - 1]) ELSE StateFlags(Arg(argv, i - 1)),
            oldname |-> OldNameOf(argv, i, new),
            newname |-> NewNameOf(argv, i, new)]

IsPerfStyle(argv, i) == IsPrev(argv[i - 2]) /\ IsPrev(argv[i - 1]) /\ IsNext(argv[i + 1])

PerfArrows(argv) ==
  {i \in 3..(Len(argv) - 2) : IsArrow(argv[i]) /\ (IsPerfStyle(argv, i) \/ IsOldStyle(argv, i))}

(* The PID is expected next to the arrow, or at the end, and searched for     *)
(* elsewhere; there one of the neighbours must not look like a field.         *)
PerfOldPid(argv, i) ==
  LET near == {k \in (i - 3)..(i - 1) : i > 3 /\ Prefix(argv[k], "prev_pid")}
      far  == {k \in 1..(i - 4) : /\ Prefix(argv[k], "prev_pid")
                                  /\ (k > 1 /\ ~IsPrev(argv[k - 1])) \/ (k < i - 2 /\ ~IsPrev(argv[k + 1]))}
  IN  IF near # {} THEN IntAfter(argv[Least(near)], "=")
      ELSE IF far # {} THEN IntAfter(argv[Least(far)], "=")
      ELSE ABSURD

PerfNewPid(argv, i) ==
  LET n    == Len(argv)
      near == {k \in (n - 1)..n : Prefix(argv[k], "next_pid")}
      far  == {k \in (i + 1)..(n - 2) : /\ Prefix(argv[k], "next_pid")
                                        /\ (k > i + 1 /\ ~IsNext(argv[k - 1])) \/ ~IsNext(argv[k + 1])}
  IN  IF near # {} THEN IntAfter(argv[Least(near)], "=")
      ELSE IF far # {} THEN IntAfter(argv[Least(far)], "=")
      ELSE ABSURD

(* The last field before the arrow that says the state, if it says one.       *)
PerfState(argv, i) ==
  LET found == {k \in 1..(i - 1) : Prefix(argv[k], "prev_state") /\ StateAfter(argv[k]) # PARSER_ERROR}
  IN  IF found = {} THEN PARSER_ERROR ELSE StateAfter(argv[Greatest(found)])

PerfSwitch(argv) ==
  LET n   == Len(argv)
      i   == Least(PerfArrows(argv))
      new == IsPerfStyle(argv, i)
  IN  IF PerfArrows(argv) = {} THEN [ok |-> FALSE]
      ELSE [ok |-> TRUE,
            oldpid  |-> IF new THEN PerfOldPid(argv, i) ELSE IntAfter(Arg(argv, i - 3), ":"),
            newpid  |-> IF new THEN PerfNewPid(argv, i) ELSE IntAfter(argv[n - 1], ":"),
            state   |-> IF new THEN PerfState(argv, i) ELSE StateFlags(argv[i - 1]),
            oldname |-> OldNameOf(argv, i, new),
            newname |-> NewNameOf(argv, i, new)]

-----------------------------------------------------------------------------
(* sched_wakeup, sched_wakeup_new and sched_waking                           *)

FtraceWakeupSuccess(argv) ==
  LET w == Arg(argv, Len(argv) - 1) IN Prefix(w, "success") => w[Len(w)] = "1"

(* The argument that ends with the PID and, in the old style, the name.  A    *)
(* warning of libtraceevent, "<CANT FIND FIELD success>", is four words.      *)
FtraceWakeupOldIdx(argv) ==
  LET n == Len(argv)
  IN  IF n >= 6 /\ argv[n - 2] = <<"FIELD">> THEN n - 5
      ELSE IF Prefix(argv[n - 1], "success") THEN n - 3
      ELSE n - 2

FtraceWakeup(argv) ==
  LET n   == Len(argv)
      new == Prefix(argv[n - 2], "pid")
      idx == FtraceWakeupOldIdx(argv)
  IN  IF n < 3 \/ (n = 3 /\ Prefix(argv[2], "success")) THEN [ok |-> FALSE]
      ELSE [ok |-> TRUE, success |-> FtraceWakeupSuccess(argv),
            pid  |-> IF new THEN IntAfter(argv[n - 2], "=") ELSE IntAfter(Arg(argv, idx), ":"),
            name |-> IF new THEN NameAfter(argv, 1, n - 3) ELSE NameBefore(argv, 1, idx)]

FtraceWaking(argv) ==
  LET n == Len(argv)
  IN  IF /\ n >= 4 /\ Prefix(argv[1], "comm") /\ Prefix(argv[n - 2], "pid")
         /\ Prefix(argv[n - 1], "prio") /\ Prefix(argv[n], "target_cpu")
      THEN [ok |-> TRUE, pid |-> IntAfter(argv[n - 2], "=")]
      ELSE [ok |-> FALSE]

PerfWakeupSuccess(argv) ==
  LET w == argv[Len(argv) - 1] IN Prefix(w, "success") => IntAfter(w, "=") # <<"0">>

(* The arguments up to end that are a PID field.                              *)
PidFields(argv, end) == {k \in 1..end : Prefix(argv[k], "pid")}

(* The last argument says which style it is.                                 *)
PerfWakeup(argv) ==
  LET n     == Len(argv)
      last  == argv[n]
      prios == {k \in 2..(n - 1) : InBracesOrCant(argv[k])}
      pids  == PidFields(argv, n - 2)
      named == PidFields(argv, n - 1) \ {1}
      pid   == IF Prefix(last, "target_cpu")
               THEN IF pids # {} THEN IntAfter(argv[Greatest(pids)], "=")
                    ELSE IF Prefix(argv[n - 1], "pid") THEN IntAfter(argv[n - 1], "=")
                    ELSE ABSURD
               ELSE IF last # <<>> /\ last[1] = "CPU" /\ Indices(last, ":") # {}
               THEN IntAfter(IF prios = {} THEN argv[1] ELSE argv[Greatest(prios) - 1], ":")
               ELSE ABSURD
      name  == IF Prefix(last, "target_cpu")
               THEN IF named = {} THEN NullStr ELSE NameAfter(argv, 1, Greatest(named) - 1)
               ELSE IF last # <<>> /\ last[1] = "CPU" /\ Indices(last, ":") # {}
               THEN IF prios = {} THEN NullStr ELSE NameBefore(argv, 1, Greatest(prios) - 1)
               ELSE NullStr
  IN  IF n < 3 THEN [ok |-> FALSE]
      ELSE [ok |-> TRUE, success |-> PerfWakeupSuccess(argv), pid |-> pid, name |-> name]

-----------------------------------------------------------------------------
(* The other events.                                                         *)

ChildFields(argv, from, to) == {k \in from..to : Prefix(argv[k], "child_comm")}

FtraceFork(argv) ==
  LET n     == Len(argv)
      names == ChildFields(argv, 3, n - 1)
  IN  IF n < 4 THEN [ok |-> FALSE]
      ELSE [ok |-> TRUE, childpid |-> IntAfter(argv[n], "="),
            childname |-> IF names = {} THEN NullStr ELSE NameAfter(argv, Least(names), n - 1)]

(* Here a child_comm= counts only after a pid=.                               *)
PerfFork(argv) ==
  LET n     == Len(argv)
      names == {k \in ChildFields(argv, 3, n - 1) : Prefix(argv[k - 1], "pid")}
      pids  == {k \in 2..n : Prefix(argv[k], "child_pid")}
  IN  IF n < 4 THEN [ok |-> FALSE]
      ELSE [ok |-> TRUE,
            childpid  |-> IntAfter(IF pids = {} THEN argv[1] ELSE argv[Greatest(pids)], "="),
            childname |-> IF names = {} THEN NullStr ELSE NameAfter(argv, Least(names), n - 1)]

FtraceExit(argv) ==
  IF Len(argv) < 3 THEN [ok |-> FALSE] ELSE [ok |-> TRUE, pid |-> IntAfter(argv[Len(argv) - 1], "=")]
PerfExit(argv) ==
  IF Len(argv) < 2 THEN [ok |-> FALSE] ELSE [ok |-> TRUE, pid |-> IntAfterPrefix(argv, Len(argv) - 1, "pid")]

FtraceMigrate(argv) ==
  LET n == Len(argv)
  IN  IF n < 5 THEN [ok |-> FALSE]
      ELSE [ok |-> TRUE, pid |-> IntAfter(argv[n - 3], "="),
            origCPU |-> IntAfter(argv[n - 1], "="), destCPU |-> IntAfter(argv[n], "=")]
PerfMigrate(argv) ==
  LET n == Len(argv)
  IN  IF n < 4 THEN [ok |-> FALSE]
      ELSE [ok |-> TRUE, pid |-> IntAfterPrefix(argv, n - 3, "pid"),
            origCPU |-> IntAfterPrefix(argv, n - 1, "orig_cpu"),
            destCPU |-> IntAfterPrefix(argv, n, "dest_cpu")]

FtraceCPUfreq(argv) ==
  IF Len(argv) < 2 THEN [ok |-> FALSE]
  ELSE [ok |-> TRUE, cpu |-> IntAfter(argv[2], "="), freq |-> IntAfter(argv[1], "=")]
PerfCPUfreq(argv) ==
  IF Len(argv) < 2 THEN [ok |-> FALSE]
  ELSE [ok |-> TRUE, cpu |-> IntAfterPrefix(argv, 2, "cpu_id"), freq |-> IntAfterPrefix(argv, 1, "state")]

-----------------------------------------------------------------------------
(* genericparams.h: the function for the type of the trace.                   *)
Read(tool, type, argv) ==
  LET ftrace == tool = "ftrace"
  IN  CASE type = "sched_switch" -> IF ftrace THEN FtraceSwitch(argv) ELSE PerfSwitch(argv)
        [] type = "sched_wakeup" -> IF ftrace THEN FtraceWakeup(argv) ELSE PerfWakeup(argv)
        [] type = "sched_waking" ->
             IF ftrace THEN FtraceWaking(argv)
             ELSE [ok |-> PerfWakeup(argv).ok, pid |-> PerfWakeup(argv).pid]
        [] type = "sched_process_fork" -> IF ftrace THEN FtraceFork(argv) ELSE PerfFork(argv)
        [] type = "sched_process_exit" -> IF ftrace THEN FtraceExit(argv) ELSE PerfExit(argv)
        [] type = "sched_migrate_task" -> IF ftrace THEN FtraceMigrate(argv) ELSE PerfMigrate(argv)
        [] type = "cpu_frequency" -> IF ftrace THEN FtraceCPUfreq(argv) ELSE PerfCPUfreq(argv)
=============================================================================

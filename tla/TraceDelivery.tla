---------------------------- MODULE TraceDelivery ----------------------------
(***************************************************************************)
(* What the load pipeline promises its user, the analyzer, with no thread, *)
(* slot or lock: a bounded queue of buffers between read(2) and the        *)
(* grammars, a trace type that is decided once, and an analysis that       *)
(* follows the parsed events in order and ends when it has seen them all.  *)
(***************************************************************************)
EXTENDS Integers, Sequences

CONSTANTS
  Buffers,    (* what a read() may deliver: records with fields ev and eof    *)
  Capacity    (* how many buffers may be between read() and the grammars      *)

VARIABLES
  delivered,  (* the buffers read so far, in file order                       *)
  taken,      (* those that were parsed                                       *)
  count,      (* the events of each type found in them; once the type is      *)
              (* decided nobody looks for those of another type               *)
  kind,       (* the announced trace type, or "undecided"                     *)
  analysed,   (* how many events of that type were analysed                   *)
  over        (* the analysis has ended                                       *)

vars == <<delivered, taken, count, kind, analysed, over>>

Types    == {"FTRACE", "PERF"}
AtEnd    == delivered # <<>> /\ delivered[Len(delivered)].eof
AllTaken == AtEnd /\ taken = delivered

Init ==
  /\ delivered = <<>> /\ taken = <<>>
  /\ count = [k \in Types |-> 0]
  /\ kind = "undecided" /\ analysed = 0 /\ over = FALSE

(* One more buffer, at the end; delivered'[...] is that buffer.               *)
Deliver ==
  /\ ~AtEnd
  /\ Len(delivered) - Len(taken) < Capacity
  /\ Len(delivered') = Len(delivered) + 1
  /\ delivered'[Len(delivered) + 1] \in Buffers
  /\ delivered' = Append(delivered, delivered'[Len(delivered) + 1])
  /\ UNCHANGED <<taken, count, kind, analysed, over>>

Take ==
  /\ Len(taken) < Len(delivered)
  /\ LET b == delivered[Len(taken) + 1]
     IN  /\ taken' = Append(taken, b)
         /\ count' = [k \in Types |-> IF kind \in {"undecided", k} THEN count[k] + b.ev[k]
                                                                   ELSE count[k]]
  /\ UNCHANGED <<delivered, kind, analysed, over>>

(* A type is decided when it has the most events; a tie only at the end.      *)
Decide ==
  /\ kind = "undecided"
  /\ \/ kind' = "FTRACE" /\ count["FTRACE"] > count["PERF"]
     \/ kind' = "PERF" /\ count["PERF"] > count["FTRACE"]
     \/ kind' = "UNKNOWN" /\ count["PERF"] = count["FTRACE"] /\ AllTaken
  /\ UNCHANGED <<delivered, taken, count, analysed, over>>

Analyse ==
  /\ kind \in Types /\ ~over
  /\ analysed' \in analysed .. count[kind]
  /\ over' => AllTaken /\ analysed' = count[kind]
  /\ over' \in BOOLEAN
  /\ UNCHANGED <<delivered, taken, count, kind>>

GiveUp ==
  /\ kind = "UNKNOWN" /\ over' = TRUE
  /\ UNCHANGED <<delivered, taken, count, kind, analysed>>

Next == Deliver \/ Take \/ Decide \/ Analyse \/ GiveUp

Spec == Init /\ [][Next]_vars
=============================================================================

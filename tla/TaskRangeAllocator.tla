------------------------- MODULE TaskRangeAllocator -------------------------
(***************************************************************************)
(* ui/taskrangeallocator.*: where in the plot a unified graph is drawn.    *)
(* Every range is dec high; a new one takes the highest gap that is wide   *)
(* enough, or goes below all others.                                       *)
(*                                                                         *)
(* The allocator is a record a: a.rangeList has the elements of the linked *)
(* list, which getTaskRange() keeps in the order of their place in the     *)
(* plot, and a.bottom is its member bottom.  pidMap has the same elements. *)
(* The numbers are doubles of the code that hold small integers.           *)
(***************************************************************************)
EXTENDS Integers

CONSTANTS
  top,    (* the argument of setStart()                                       *)
  dec     (* the height of a range                                            *)

ASSUME TopAssumption == top \in Int
ASSUME DecAssumption == dec \in Nat \ {0}

NoRanges == [rangeList |-> {}, bottom |-> top]

Contains(a, pid) == \E r \in a.rangeList : r.pid = pid
RangeOf(a, pid)  == CHOOSE r \in a.rangeList : r.pid = pid

(* The test of the loop in getTaskRange() where it has come to upper: the     *)
(* next element of the list begins at least dec below.                       *)
Fits(R, upper) ==
  /\ \E r \in R : r.upper <= upper
  /\ \A r \in R : r.upper <= upper - dec \/ r.upper > upper

(* The places where the loop stops to insert, from the top and below each     *)
(* element, and the first of them.                                           *)
Gaps(R)     == {u \in {top} \cup {r.lower : r \in R} : Fits(R, u)}
FirstGap(R) == CHOOSE u \in Gaps(R) : \A v \in Gaps(R) : v <= u

(* getTaskRange() of a PID that has no range.                                 *)
GetRange(a, pid) ==
  IF Gaps(a.rangeList) # {}
  THEN [a EXCEPT !.rangeList = @ \cup {[pid |-> pid, upper |-> FirstGap(a.rangeList),
                                        lower |-> FirstGap(a.rangeList) - dec]}]
  ELSE [rangeList |-> a.rangeList \cup {[pid |-> pid, upper |-> a.bottom, lower |-> a.bottom - dec]},
        bottom    |-> a.bottom - dec]

(* The end of the list, which putTaskRange() walks to when it removed the     *)
(* last element.                                                             *)
Lowest(R) == IF R = {} THEN top ELSE CHOOSE b \in {r.lower : r \in R} : \A r \in R : b <= r.lower

(* Mutant: the space of any range that is returned is given back at the end.  *)
PutRangeRaises(a, pid) ==
  IF Contains(a, pid)
  THEN [rangeList |-> a.rangeList \ {RangeOf(a, pid)}, bottom |-> a.bottom + dec]
  ELSE a

(* putTaskRange(pid): if it was the last of the list, bottom is found anew.   *)
PutRange(a, pid) ==
  LET range == RangeOf(a, pid)
      rest  == a.rangeList \ {range}
      last  == \A r \in rest : r.lower > range.lower
  IN  IF Contains(a, pid)
      THEN [rangeList |-> rest, bottom |-> IF last THEN Lowest(rest) ELSE a.bottom]
      ELSE a
=============================================================================

------------------------------ MODULE WorkBatch ------------------------------
(***************************************************************************)
(* What TraceAnalyzer expects of a WorkQueue: between two calls of wait()   *)
(* it hands over work items; start() begins the batch, every item is then  *)
(* performed exactly once, in any order, and wait() comes back when the    *)
(* last one is done and tells whether one of this batch failed.            *)
(***************************************************************************)
CONSTANT Jobs

VARIABLES
  working,   \* the batch has begun and wait() has not returned
  pending,   \* the items that have not been performed
  failed,    \* an item of this batch failed
  outcome    \* what the last wait() returned

vars == <<working, pending, failed, outcome>>

Init ==
  /\ working = FALSE
  /\ pending = {}
  /\ failed = FALSE
  /\ outcome = FALSE

Submit(j) ==
  /\ ~working
  /\ j \notin pending
  /\ pending' = pending \union {j}
  /\ UNCHANGED <<working, failed, outcome>>

Begin ==
  /\ ~working
  /\ working' = TRUE
  /\ failed' = FALSE
  /\ UNCHANGED <<pending, outcome>>

Perform(j) ==
  /\ working
  /\ j \in pending
  /\ pending' = pending \ {j}
  /\ failed' \in {failed, TRUE}
  /\ UNCHANGED <<working, outcome>>

Return ==
  /\ working
  /\ pending = {}
  /\ working' = FALSE
  /\ outcome' = failed
  /\ UNCHANGED <<pending, failed>>

Next ==
  \/ \E j \in Jobs : Submit(j) \/ Perform(j)
  \/ Begin
  \/ Return

Safety == Init /\ [][Next]_vars

(* A batch that has begun comes to its end.                                *)
Fairness == WF_vars(Return) /\ WF_vars(\E j \in Jobs : Perform(j))

Spec == Safety /\ Fairness
=============================================================================

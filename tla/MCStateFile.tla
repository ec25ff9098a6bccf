----------------------------- MODULE MCStateFile -----------------------------
(* Three traces: the first two differ in the ending only and have one state   *)
(* file.  Task 3 of them was woken but never ran.                             *)
EXTENDS StateFile, TLC
MCFileOf == "run.txt" :> "run.tssetting" @@ "run.dat" :> "run.tssetting" @@ "old.txt" :> "old.tssetting"
MCKnown  == "run.txt" :> {1, 2} @@ "run.dat" :> {1, 3} @@ "old.txt" :> {1}
MCRan    == "run.txt" :> {1, 2} @@ "run.dat" :> {1} @@ "old.txt" :> {1}
=============================================================================

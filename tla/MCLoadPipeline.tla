--------------------------- MODULE MCLoadPipeline ---------------------------
(* LoadPipeline with small files: a buffer is empty, has only garbage, or has *)
(* events of one of the two types or of both.                                 *)
EXTENDS LoadPipeline

Ev(f, p) == [k \in Kinds |-> IF k = "FTRACE" THEN f ELSE p]

MCContents == {[nRead |-> 0, ev |-> Ev(0, 0)], [nRead |-> 1, ev |-> Ev(0, 0)],
               [nRead |-> 1, ev |-> Ev(2, 0)], [nRead |-> 2, ev |-> Ev(1, 1)],
               [nRead |-> 1, ev |-> Ev(0, 1)]}
=============================================================================

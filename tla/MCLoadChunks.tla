---------------------------- MODULE MCLoadChunks ----------------------------
(* Every file of up to MaxBytes bytes.                                     *)
EXTENDS FileLines

CONSTANT MaxBytes     (* bound: the bytes of a file                          *)

MCFiles == UNION {[1 .. n -> Chars] : n \in 0 .. MaxBytes}
=============================================================================

---------------------------- MODULE MCLineParser ----------------------------
(* LineParser over all files of a few lines, on two CPUs, with time stamps   *)
(* that go back: from 2 to 0 is what the rollover bug does, from 3 to 2 is   *)
(* not far enough and from 3 to 0 too far.                                   *)
EXTENDS LineParser
=============================================================================

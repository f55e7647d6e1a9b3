---------------------------- MODULE MCJobControl ----------------------------
(* JobControl for TLC.  Pids are interchangeable.                          *)
EXTENDS JobControl

Pids == Permutations(Child)
=============================================================================

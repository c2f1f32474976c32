----------------------------- MODULE MCStatFile -----------------------------
(* StatFile with one command that has counters.                             *)
EXTENDS StatFile, TLC

Symmetry == Permutations(Thread)
=============================================================================

------------------------------ MODULE MCBinlog ------------------------------
(* Binlog on a small instance.  Threads are interchangeable; the records of *)
(* different calls differ by their numbers.                                 *)
EXTENDS BinlogRefinement, TLC

Symmetry == Permutations(Thread)
=============================================================================

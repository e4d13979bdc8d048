--------------------------- MODULE MCFsgException ---------------------------
(* FsgException for TLC: the buffer heads are interchangeable.             *)
EXTENDS FsgException, TLC

Symmetry == Permutations(Bufs)
=============================================================================

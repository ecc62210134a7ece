--------------------------- MODULE MCAutoFulfill ----------------------------
(***************************************************************************)
(* AutoFulfill for model checking: model values for the actors, which are  *)
(* interchangeable, and a bound on what a numeric field may hold.          *)
(***************************************************************************)
EXTENDS AutoFulfill, TLC

CONSTANTS o1, w1, w2, c1, c2

Symmetry == Permutations(Workers) \cup Permutations(Threads)
=============================================================================

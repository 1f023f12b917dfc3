----------------------------- MODULE MCFatAlloc -----------------------------
(* Model-checking instance of FatAlloc.  The files are interchangeable.    *)
EXTENDS FatAlloc, TLC

Symmetry == Permutations(Files)
=============================================================================

----------------------------- MODULE MCFatNames -----------------------------
(* Mounted with a directory and a file in it, or with two directories and  *)
(* a directory in one of them.                                             *)
EXTENDS FatNames, TLC

CONSTANTS p1, p2, p3, c1, c2, c3

InRoot(c, dir) == Entry(c, dir, RootChain)
MCMounted ==
  {p1 :> InRoot(c1, TRUE) @@ p2 :> Entry(c2, FALSE, c1) @@ p3 :> Nothing,
   p1 :> InRoot(c1, TRUE) @@ p2 :> InRoot(c2, TRUE) @@ p3 :> Entry(c3, TRUE, c1)}

Symmetry == Permutations(Inodes)
=============================================================================

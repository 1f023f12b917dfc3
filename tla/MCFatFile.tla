----------------------------- MODULE MCFatFile ------------------------------
(* Model-checking instance of FatFile.                                     *)
EXTENDS FatFile, TLC

Symmetry == Permutations(Others)

\* Nothing is said of what follows one of the races.
UntilRace == races = {}
=============================================================================

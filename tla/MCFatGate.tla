----------------------------- MODULE MCFatGate -----------------------------
(* Model-checking instance of FatGate.                                     *)
EXTENDS FatGate
=============================================================================

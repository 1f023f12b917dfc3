----------------------------- MODULE MCHashRing -----------------------------
(* Model-checking instance of HashRing.                                    *)
EXTENDS HashRing
=============================================================================

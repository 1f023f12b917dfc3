------------------------------ MODULE MCFatDir ------------------------------
(* Two long names with the same 8.3 basis, a short name that is the first  *)
(* alias of both, and a name in lower case that needs a long one only for  *)
(* its case.                                                               *)
EXTENDS FatDir, TLC

MCKind == "l1" :> "long" @@ "l2" :> "long" @@ "s" :> "short" @@ "m" :> "mixed"
MCBase == "l1" :> "B" @@ "l2" :> "B" @@ "s" :> "B" @@ "m" :> "C"
MCNumber == "l1" :> 0 @@ "l2" :> 0 @@ "s" :> 1 @@ "m" :> 0
MCLongSlots == "l1" :> 1 @@ "l2" :> 2 @@ "s" :> 1 @@ "m" :> 1
Symmetry == Permutations(Files)
=============================================================================

----------------------------- MODULE Directory ------------------------------
(***************************************************************************)
(* What a FAT directory promises its users: a set of files, each under one *)
(* name, no two under the same name.  A call adds, removes, renames or     *)
(* replaces one file, or changes nothing.                                  *)
(***************************************************************************)
CONSTANTS Files, Keys    \* names without regard to case

VARIABLE dir             \* the name of each file that is there

Holds(f) == f \in DOMAIN dir
Taken(k) == \E f \in DOMAIN dir : dir[f] = k

Init == dir = [f \in {} |-> CHOOSE k \in Keys : TRUE]

Enter(f, k) ==
  /\ ~Holds(f) /\ ~Taken(k)
  /\ dir' = [g \in DOMAIN dir \cup {f} |-> IF g = f THEN k ELSE dir[g]]

Leave(f) ==
  /\ Holds(f)
  /\ dir' = [g \in DOMAIN dir \ {f} |-> dir[g]]

Rename(f, k) ==
  /\ Holds(f) /\ ~Taken(k)
  /\ dir' = [dir EXCEPT ![f] = k]

\* f takes the place and the name of g.
Replace(f, g) ==
  /\ Holds(f) /\ Holds(g) /\ f # g
  /\ dir' = [h \in DOMAIN dir \ {g} |-> IF h = f THEN dir[g] ELSE dir[h]]

Next ==
  \/ \E f \in Files : Leave(f) \/ (\E k \in Keys : Enter(f, k) \/ Rename(f, k))
  \/ \E f, g \in Files : Replace(f, g)

Spec == Init /\ [][Next]_dir
=============================================================================

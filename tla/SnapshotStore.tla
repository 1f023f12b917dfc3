--------------------------- MODULE SnapshotStore ---------------------------
(***************************************************************************)
(* What the A/B scheme promises, without partitions: a file system of      *)
(* which one snapshot survives a loss of power.  The snapshot is replaced  *)
(* by the current content in one step, or not at all.                      *)
(***************************************************************************)
CONSTANT Content
VARIABLES
  stable,    \* what the next boot finds
  current,   \* what the Apps see
  up         \* the file system is mounted

vars == <<stable, current, up>>

Init == stable \in Content /\ current = stable /\ up = FALSE

Mount == ~up /\ up' = TRUE /\ UNCHANGED <<stable, current>>

Modify == up /\ current' \in Content /\ UNCHANGED <<stable, up>>

Commit == up /\ stable' = current /\ UNCHANGED <<current, up>>

\* Power goes away; a commit under way either happens or does not.
Stop ==
  /\ up /\ up' = FALSE
  /\ stable' \in {stable, current}
  /\ current' = stable'

Next == Mount \/ Modify \/ Commit \/ Stop

Spec == Init /\ [][Next]_vars
=============================================================================

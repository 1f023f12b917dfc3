------------------------------ MODULE FatAlloc ------------------------------
(***************************************************************************)
(* Cluster allocation (fat/fatent.c), the growing and cutting of cluster   *)
(* chains (fat_add_cluster, fat_chain_add, fat_free), the count of free    *)
(* clusters, and FITRIM, as they interleave under fat_lock.                *)
(*                                                                         *)
(* One thread works on a file at a time (its inode lock).  What happens    *)
(* under one hold of fat_lock is one step.  fat_chain_add and fat_free     *)
(* change entries of their own chain without fat_lock.                     *)
(***************************************************************************)
EXTENDS Integers, FiniteSets

CONSTANTS
  Files,        \* i_start
  NClusters,    \* clusters of the file system
  MaxNr,        \* most clusters asked for in one allocation
  PerBlock,     \* FAT entries in a block
  MaxErrors     \* bound on the reads and writes of the FAT that fail

ASSUME FatAllocAssumption ==
  /\ IsFiniteSet(Files) /\ NClusters \in Nat \ {0} /\ MaxNr \in Nat \ {0} /\ PerBlock \in Nat \ {0}
  /\ MaxErrors \in Nat

FAT_START_ENT == 2
max_cluster == NClusters + FAT_START_ENT
Clusters == FAT_START_ENT .. max_cluster - 1
FAT_ENT_FREE == 0
FAT_ENT_EOF == -1
Unknown == -1        \* free_clusters, an unsigned int, holds UINT_MAX

VARIABLES
  fat,                                          \* the file allocation table, first copy
  free_clusters, free_clus_valid, prev_free,    \* msdos_sb_info
  i_start,                                      \* the first cluster of a file
  pc, held,                                     \* a thread's step, the head of the chain in its hands
  refused,                                      \* nr_cluster of the last file step if that met ENOSPC, or 0
  io_errors,                                    \* the reads and writes of the FAT that have failed
  link_error,                                   \* one failed after fat_chain_add had linked the new clusters
  t_pc, t_entry, t_free                         \* FITRIM: its step, fatent.entry, its run of free entries

table == <<fat, free_clusters, free_clus_valid, prev_free>>
counts == <<free_clusters, free_clus_valid, prev_free>>
threads == <<pc, held, refused>>
errors == <<io_errors, link_error>>
trim == <<t_pc, t_entry, t_free>>
vars == <<table, i_start, threads, errors, trim>>

FreeSet(f) == {c \in Clusters : f[c] = FAT_ENT_FREE}

\* The i-th entry after c in the chain that starts at c, an end mark after its end.
Nth(c, i) ==
  LET walk[k \in 0 .. NClusters] ==
        IF k = 0 THEN c
        ELSE IF walk[k - 1] \in Clusters THEN fat[walk[k - 1]] ELSE walk[k - 1]
  IN walk[i]

Chain(c) == {Nth(c, i) : i \in 0 .. NClusters} \cap Clusters

\* A chain that can be followed to its end mark.
Ends(c) == \E d \in Chain(c) : fat[d] = FAT_ENT_EOF

\* FSINFO need not be right; without the option usefree it is not relied on.
Init ==
  /\ fat = [c \in Clusters |-> FAT_ENT_FREE]
  /\ free_clusters \in {Unknown, 0, NClusters} /\ free_clus_valid = FALSE
  /\ prev_free \in Clusters
  /\ i_start = [f \in Files |-> 0]
  /\ pc = [f \in Files |-> "idle"] /\ held = [f \in Files |-> 0]
  /\ refused = 0
  /\ io_errors = 0 /\ link_error = FALSE
  /\ t_pc = "idle" /\ t_entry = FAT_START_ENT /\ t_free = 0

IoError == io_errors < MaxErrors /\ io_errors' = io_errors + 1

\* FITRIM holds fat_lock except where it lets others run.
FatLockFree == t_pc # "scan"
-----------------------------------------------------------------------------
(* fat_alloc_clusters.                                                     *)

\* When the search, which starts after prev_free and goes around once, meets c.
Position(c) == (c - prev_free - 1) % NClusters

\* The first k free entries it meets.
Found(k) ==
  {c \in FreeSet(fat) : Cardinality({d \in FreeSet(fat) : Position(d) < Position(c)}) < k}

IsNext(s, c, d) == Position(c) < Position(d) /\ \A e \in s : Position(e) <= Position(c) \/ Position(d) <= Position(e)

\* The entries of s become a chain, in the order of the search.
MakeChain(s) ==
  [c \in Clusters |->
    IF c \notin s THEN fat[c]
    ELSE IF \E d \in s : IsNext(s, c, d) THEN CHOOSE d \in s : IsNext(s, c, d) ELSE FAT_ENT_EOF]

CountDown(k) ==
  IF free_clusters = Unknown \/ k > free_clusters THEN Unknown ELSE free_clusters - k

\* The entries of s become the chain in the hands of f.
Claim(f, s) ==
  /\ fat' = MakeChain(s)
  /\ \E first, last \in s :
       /\ \A c \in s : Position(first) <= Position(c) /\ Position(c) <= Position(last)
       /\ held' = [held EXCEPT ![f] = first] /\ prev_free' = last

\* An allocation of exactly the free clusters is refused.
AllocNoSpaceOffByOne(f, n) ==
  /\ pc[f] = "idle" /\ FatLockFree
  /\ free_clusters # Unknown /\ free_clus_valid /\ free_clusters <= n
  /\ refused' = n
  /\ UNCHANGED <<table, i_start, pc, held, errors, trim>>

\* The counter says that there is not enough space.
AllocNoSpace(f, n) ==
  /\ pc[f] = "idle" /\ FatLockFree
  /\ free_clusters # Unknown /\ free_clus_valid /\ free_clusters < n
  /\ refused' = n
  /\ UNCHANGED <<table, i_start, pc, held, errors, trim>>

CounterAllows(n) == free_clusters = Unknown \/ ~free_clus_valid \/ free_clusters >= n

Alloc(f, n) ==
  /\ pc[f] = "idle" /\ FatLockFree /\ CounterAllows(n) /\ Cardinality(FreeSet(fat)) >= n
  /\ Claim(f, Found(n))
  /\ free_clusters' = CountDown(Cardinality(Found(n)))
  /\ pc' = [pc EXCEPT ![f] = "add"]
  /\ refused' = 0
  /\ UNCHANGED <<free_clus_valid, i_start, errors, trim>>

\* What was found is forgotten.
AllocExhaustedNoUndo(f, n) ==
  /\ pc[f] = "idle" /\ FatLockFree /\ CounterAllows(n) /\ Cardinality(FreeSet(fat)) < n
  /\ fat' = MakeChain(FreeSet(fat))
  /\ free_clusters' = 0 /\ free_clus_valid' = TRUE
  /\ refused' = n
  /\ UNCHANGED <<prev_free, i_start, pc, held, errors, trim>>

\* The search takes all there is and comes around; what it took is given back
\* after the unlock.
AllocExhausted(f, n) ==
  /\ pc[f] = "idle" /\ FatLockFree /\ CounterAllows(n) /\ Cardinality(FreeSet(fat)) < n
  /\ IF FreeSet(fat) = {}
     THEN UNCHANGED <<fat, prev_free, pc, held>>
     ELSE Claim(f, FreeSet(fat)) /\ pc' = [pc EXCEPT ![f] = "undo"]
  /\ free_clusters' = 0 /\ free_clus_valid' = TRUE
  /\ refused' = n
  /\ UNCHANGED <<i_start, errors, trim>>

\* An entry cannot be read after k were found, or the n found cannot be written.
AllocError(f, n) ==
  /\ pc[f] = "idle" /\ FatLockFree /\ CounterAllows(n)
  /\ \/ UNCHANGED <<fat, free_clusters, prev_free, pc, held>>
     \/ \E k \in 1 .. n :
          /\ Claim(f, Found(k))
          /\ free_clusters' = CountDown(Cardinality(Found(k)))
          /\ pc' = [pc EXCEPT ![f] = "undo"]
  /\ refused' = 0
  /\ IoError
  /\ UNCHANGED <<free_clus_valid, i_start, link_error, trim>>
-----------------------------------------------------------------------------
(* fat_free_clusters.                                                      *)

\* The entries it can free: up to the end mark, or to an entry already free.
Freeable(c) == Chain(c) \ FreeSet(fat)

\* Clusters are freed and not counted.
FreeClustersUncounted(freed) ==
  /\ fat' = [c \in Clusters |-> IF c \in freed THEN FAT_ENT_FREE ELSE fat[c]]
  /\ UNCHANGED counts

FreeClusters(freed) ==
  /\ fat' = [c \in Clusters |-> IF c \in freed THEN FAT_ENT_FREE ELSE fat[c]]
  /\ free_clusters' = IF free_clusters = Unknown THEN Unknown ELSE free_clusters + Cardinality(freed)
  /\ UNCHANGED <<free_clus_valid, prev_free>>

LetGo(f) ==
  /\ pc' = [pc EXCEPT ![f] = "idle"]
  /\ held' = [held EXCEPT ![f] = 0]

FreeHeld(f) ==
  /\ pc[f] \in {"undo", "free"} /\ FatLockFree
  /\ FreeClusters(Freeable(held[f]))
  /\ LetGo(f) /\ refused' = 0
  /\ UNCHANGED <<i_start, errors, trim>>

\* An entry cannot be read, or the freed ones cannot be written: the rest of
\* the chain leaks.
FreeHeldError(f) ==
  /\ pc[f] \in {"undo", "free"} /\ FatLockFree
  /\ \E k \in 0 .. NClusters : FreeClusters({Nth(held[f], i) : i \in 0 .. k - 1} \cap Freeable(held[f]))
  /\ LetGo(f) /\ refused' = 0
  /\ IoError
  /\ UNCHANGED <<i_start, link_error, trim>>
-----------------------------------------------------------------------------
(* fat_chain_add and fat_free.                                             *)

Last(f) == CHOOSE c \in Chain(i_start[f]) : fat[c] = FAT_ENT_EOF

\* The new clusters become the end of the file.
Link(f) ==
  IF i_start[f] = 0
  THEN i_start' = [i_start EXCEPT ![f] = held[f]] /\ UNCHANGED fat
  ELSE fat' = [fat EXCEPT ![Last(f)] = held[f]] /\ UNCHANGED i_start

ChainAdd(f) ==
  /\ pc[f] = "add" /\ (i_start[f] # 0 => Ends(i_start[f]))
  /\ Link(f)
  /\ LetGo(f) /\ refused' = 0
  /\ UNCHANGED <<counts, errors, trim>>

\* The chain cannot be read, or has no end: the new clusters are given back.
ChainAddError(f) ==
  /\ pc[f] = "add" /\ i_start[f] # 0
  /\ pc' = [pc EXCEPT ![f] = "undo"]
  /\ IF Ends(i_start[f]) THEN IoError ELSE UNCHANGED io_errors
  /\ refused' = 0
  /\ UNCHANGED <<table, i_start, held, link_error, trim>>

\* The entry, or the inode of a directory, has been changed and cannot be
\* written: the new clusters are given back although they are linked.
ChainAddWriteError(f) ==
  /\ pc[f] = "add" /\ (i_start[f] # 0 => Ends(i_start[f]))
  /\ Link(f)
  /\ pc' = [pc EXCEPT ![f] = "undo"]
  /\ IoError /\ link_error' = TRUE /\ refused' = 0
  /\ UNCHANGED <<counts, held, trim>>

\* i_start, or the entry after the skip-th cluster: what is to be freed.
FreeStart(f, skip) == IF skip = 0 THEN i_start[f] ELSE fat[Nth(i_start[f], skip - 1)]

\* There is something to free.
CanCut(f, skip) ==
  /\ pc[f] = "idle" /\ i_start[f] # 0
  /\ skip # 0 => Nth(i_start[f], skip - 1) \in Clusters
  /\ FreeStart(f, skip) \in Clusters

\* The clusters that will be freed stay in the chain.
TruncateNoEof(f, skip) ==
  /\ CanCut(f, skip)
  /\ held' = [held EXCEPT ![f] = FreeStart(f, skip)]
  /\ i_start' = [i_start EXCEPT ![f] = IF skip = 0 THEN 0 ELSE @]
  /\ pc' = [pc EXCEPT ![f] = "free"]
  /\ refused' = 0
  /\ UNCHANGED <<table, errors, trim>>

WriteEof(f, skip) ==
  fat' = IF skip = 0 THEN fat ELSE [fat EXCEPT ![Nth(i_start[f], skip - 1)] = FAT_ENT_EOF]

\* fat_free up to fat_free_clusters.
Truncate(f, skip) ==
  /\ CanCut(f, skip)
  /\ WriteEof(f, skip)
  /\ held' = [held EXCEPT ![f] = FreeStart(f, skip)]
  /\ i_start' = [i_start EXCEPT ![f] = IF skip = 0 THEN 0 ELSE @]
  /\ pc' = [pc EXCEPT ![f] = "free"]
  /\ refused' = 0
  /\ UNCHANGED <<counts, errors, trim>>

\* The new end mark cannot be written: the tail leaks.
TruncateError(f, skip) ==
  /\ skip # 0 /\ CanCut(f, skip)
  /\ WriteEof(f, skip)
  /\ refused' = 0
  /\ IoError
  /\ UNCHANGED <<counts, i_start, pc, held, link_error, trim>>
-----------------------------------------------------------------------------
(* fat_count_free_clusters and fat_trim_fs.                                *)

CountFree ==
  /\ FatLockFree /\ (free_clusters = Unknown \/ ~free_clus_valid)
  /\ free_clusters' = Cardinality(FreeSet(fat)) /\ free_clus_valid' = TRUE
  /\ UNCHANGED <<fat, prev_free, i_start, threads, errors, trim>>

TrimStart ==
  /\ t_pc = "idle"
  /\ t_pc' = "scan" /\ t_free' = 0 /\ t_entry' \in Clusters
  /\ UNCHANGED <<table, i_start, threads, errors>>

\* An entry in use does not end the run.
TrimEntryKeepsRun ==
  /\ t_pc = "scan" /\ t_entry < max_cluster
  /\ t_free' = IF fat[t_entry] = FAT_ENT_FREE THEN t_free + 1 ELSE t_free
  /\ t_entry' = t_entry + 1
  /\ \/ t_pc' = "scan"
     \/ (t_entry' % PerBlock = 0 \/ t_entry' = max_cluster) /\ t_pc' = "resched"
  /\ UNCHANGED <<table, i_start, threads, errors>>

\* One entry; an entry in use ends a run, which is discarded if it is as long
\* as minlen.  need_resched: after the last entry of a block fat_lock may be
\* released.
TrimEntry ==
  /\ t_pc = "scan" /\ t_entry < max_cluster
  /\ t_free' = IF fat[t_entry] = FAT_ENT_FREE THEN t_free + 1 ELSE 0
  /\ t_entry' = t_entry + 1
  /\ \/ t_pc' = "scan"
     \/ (t_entry' % PerBlock = 0 \/ t_entry' = max_cluster) /\ t_pc' = "resched"
  /\ UNCHANGED <<table, i_start, threads, errors>>

TrimLock ==
  /\ t_pc = "resched"
  /\ t_pc' = "scan"
  /\ UNCHANGED <<table, i_start, threads, errors, t_entry, t_free>>

\* The run at the end is discarded; or a signal, a read error, a failed discard.
TrimEnd ==
  /\ t_pc = "scan"
  /\ t_pc' = "idle" /\ t_entry' = FAT_START_ENT /\ t_free' = 0
  /\ UNCHANGED <<table, i_start, threads, errors>>
-----------------------------------------------------------------------------
FileStep(f) ==
  \/ \E n \in 1 .. MaxNr :
       AllocNoSpace(f, n) \/ Alloc(f, n) \/ AllocExhausted(f, n) \/ AllocError(f, n)
  \/ ChainAdd(f) \/ ChainAddError(f) \/ ChainAddWriteError(f)
  \/ FreeHeld(f) \/ FreeHeldError(f)
  \/ \E skip \in 0 .. NClusters - 1 : Truncate(f, skip) \/ TruncateError(f, skip)

TrimStep == TrimStart \/ TrimEntry \/ TrimLock \/ TrimEnd

Next == (\E f \in Files : FileStep(f)) \/ CountFree \/ TrimStep

Spec == Init /\ [][Next]_vars
-----------------------------------------------------------------------------
(* The variables have their types.  prev_free stays a cluster of the file  *)
(* system, so the next search starts inside the table.                     *)
TypeOK ==
  /\ fat \in [Clusters -> Clusters \cup {FAT_ENT_FREE, FAT_ENT_EOF}]
  /\ free_clusters \in Nat \cup {Unknown} /\ free_clus_valid \in BOOLEAN /\ prev_free \in Clusters
  /\ i_start \in [Files -> Clusters \cup {0}]
  /\ pc \in [Files -> {"idle", "add", "undo", "free"}]
  /\ held \in [Files -> Clusters \cup {0}]
  /\ refused \in 0 .. MaxNr /\ io_errors \in 0 .. MaxErrors /\ link_error \in BOOLEAN
  /\ t_pc \in {"idle", "scan", "resched"} /\ t_entry \in FAT_START_ENT .. max_cluster
  /\ t_free \in 0 .. t_entry - FAT_START_ENT

Owned(f) == Chain(i_start[f]) \cup Chain(held[f])

(* Until a link of fat_chain_add could not be written: every chain ends    *)
(* with an end mark; no two files share a cluster, and neither shares one  *)
(* with an allocation or a truncation that is under way.                   *)
ChainsDisjoint ==
  ~link_error =>
    \A f \in Files :
      /\ i_start[f] # 0 => Ends(i_start[f])
      /\ held[f] # 0 => Ends(held[f])
      /\ Chain(i_start[f]) \cap Chain(held[f]) = {}
      /\ \A g \in Files \ {f} : Owned(f) \cap Owned(g) = {}

(* Until a link of fat_chain_add could not be written: once the count of   *)
(* free clusters is valid it is the number of free entries, whatever other *)
(* errors and concurrent calls came in between.  fat_alloc_clusters relies *)
(* on it to refuse an allocation.                                          *)
CountExact ==
  ~link_error /\ free_clus_valid => free_clusters = Cardinality(FreeSet(fat))

(* Without an I/O error no cluster leaks: each one in use belongs to a     *)
(* file or is in the hands of a call.                                      *)
NoLeak ==
  io_errors = 0 => \A c \in Clusters \ FreeSet(fat) : \E f \in Files : c \in Owned(f)

(* On such a table fat_alloc_clusters fails for lack of space only when    *)
(* fewer entries than it was asked for are free: the counter is right, and the search covers  *)
(* every entry once.                                                       *)
NoSpaceIsReal ==
  [][~link_error /\ refused' \notin {0, refused} => Cardinality(FreeSet(fat)) < refused']_vars

(* Of the run of free clusters that FITRIM will discard, those in the      *)
(* block of the FAT that it reads are still free: fat_trim_fs releases     *)
(* fat_lock only after the last entry of a block.  The clusters of earlier *)
(* blocks may have been allocated since, and are discarded all the same.   *)
TrimFreeInBlock ==
  t_pc = "scan" /\ t_entry < max_cluster =>
    \A c \in t_entry - t_free .. t_entry - 1 : c \div PerBlock = t_entry \div PerBlock => fat[c] = FAT_ENT_FREE
=============================================================================

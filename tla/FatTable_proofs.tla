--------------------------- MODULE FatTable_proofs ---------------------------
(***************************************************************************)
(* The lemmas that FatAlloc_proofs rests on, for every number of files and *)
(* clusters: what each step does to the free entries of the FAT and to     *)
(* their count, what FITRIM takes for free, and what a chain is: a walk    *)
(* along the links that meets no cluster twice, ends, and meets no other;  *)
(* and how an allocation makes one.                                        *)
(***************************************************************************)
EXTENDS FatAlloc, TLAPS

\* The provers that are tried, in turn, on a leaf that names none.
USE SMTT(10), ZenonT(20), SMTT(20), ZenonT(40), SMTT(40)

(* The facts about finite sets, and about the order of the numbers, that   *)
(* the proofs rest on.  FatAlloc_proofs proves them from the library,      *)
(* whose statements would otherwise be in the context of every step.       *)
FiniteFacts ==
  /\ \A T \in SUBSET Nat : T # {} => \E x \in T : \A y \in T : x <= y
  /\ \A w \in [0 .. NClusters -> Clusters] : \E i, j \in 0 .. NClusters : i # j /\ w[i] = w[j]
  /\ IsFiniteSet(Clusters) /\ Cardinality({}) = 0
  /\ \A S : IsFiniteSet(S) => \A T \in SUBSET S :
       IsFiniteSet(T) /\ Cardinality(T) \in Nat /\ Cardinality(T) <= Cardinality(S)
  /\ \A S, T : IsFiniteSet(S) => Cardinality(S \ T) = Cardinality(S) - Cardinality(S \cap T)
  /\ \A S, T : IsFiniteSet(S) /\ IsFiniteSet(T) =>
       Cardinality(S \cup T) = Cardinality(S) + Cardinality(T) - Cardinality(S \cap T)

(* A set of naturals has a least one.                                      *)
LEMMA Least ==
  ASSUME FiniteFacts, NEW T \in SUBSET Nat, T # {}
  PROVE  \E x \in T : \A y \in T : x <= y
BY DEF FiniteFacts

(* A walk of one step more than there are clusters meets one twice.        *)
LEMMA Pigeonhole ==
  ASSUME FiniteFacts, NEW w \in [0 .. NClusters -> Clusters]
  PROVE  \E i, j \in 0 .. NClusters : i # j /\ w[i] = w[j]
BY Zenon, ZenonT(60) DEF FiniteFacts

(* The file system has finitely many clusters.                             *)
LEMMA FiniteClusters ==
  ASSUME FiniteFacts
  PROVE  IsFiniteSet(Clusters)
BY DEF FiniteFacts

(* A subset of a finite set is no larger.                                  *)
LEMMA FiniteSubset ==
  ASSUME FiniteFacts, NEW S, IsFiniteSet(S), NEW T \in SUBSET S
  PROVE  IsFiniteSet(T) /\ Cardinality(T) \in Nat /\ Cardinality(T) <= Cardinality(S)
BY DEF FiniteFacts

(* The empty set has no elements.                                          *)
LEMMA EmptyCount ==
  ASSUME FiniteFacts
  PROVE  Cardinality({}) = 0
BY DEF FiniteFacts

(* The elements of a difference, and of a union.                           *)
LEMMA CountDifference ==
  ASSUME FiniteFacts, NEW S, NEW T, IsFiniteSet(S)
  PROVE  Cardinality(S \ T) = Cardinality(S) - Cardinality(S \cap T)
BY Zenon, ZenonT(60) DEF FiniteFacts

(* Two sets have together what each has, less what they share.             *)
LEMMA CountUnion ==
  ASSUME FiniteFacts, NEW S, NEW T, IsFiniteSet(S), IsFiniteSet(T)
  PROVE  Cardinality(S \cup T) = Cardinality(S) + Cardinality(T) - Cardinality(S \cap T)
BY DEF FiniteFacts

\* What the steps preserve; it does not need the condition on link_error.
CountInv ==
  /\ TypeOK
  /\ \A f \in Files : pc[f] # "idle" => held[f] # 0
  /\ free_clus_valid => free_clusters = Cardinality(FreeSet(fat))

(* The free ones can be counted.                                           *)
LEMMA FiniteFree ==
  ASSUME FiniteFacts, NEW t
  PROVE  IsFiniteSet(FreeSet(t)) /\ Cardinality(FreeSet(t)) \in Nat /\ FreeSet(t) \subseteq Clusters
<1>1. FreeSet(t) \subseteq Clusters
  BY DEF FreeSet
<1> QED
  BY <1>1, FiniteClusters, FiniteSubset

(* A cluster is neither the free mark nor the end mark.                    *)
LEMMA ClusterNumbers ==
  /\ \A c \in Clusters : c \in Nat /\ c # FAT_ENT_FREE /\ c # FAT_ENT_EOF /\ c # 0
  /\ FAT_ENT_EOF # FAT_ENT_FREE
BY FatAllocAssumption DEF Clusters, max_cluster, FAT_START_ENT, FAT_ENT_FREE, FAT_ENT_EOF

(* The chain made of a set of free entries takes exactly these out of the  *)
(* free ones.                                                              *)
LEMMA MakeChainFree ==
  ASSUME FiniteFacts, TypeOK, NEW s, s \subseteq FreeSet(fat)
  PROVE  /\ MakeChain(s) \in [Clusters -> Clusters \cup {FAT_ENT_FREE, FAT_ENT_EOF}]
         /\ FreeSet(MakeChain(s)) = FreeSet(fat) \ s
         /\ IsFiniteSet(s) /\ Cardinality(s) \in Nat
         /\ Cardinality(FreeSet(fat) \ s) = Cardinality(FreeSet(fat)) - Cardinality(s)
         /\ Cardinality(s) <= Cardinality(FreeSet(fat))
<1>1. s \subseteq Clusters
  BY FiniteFree
<1>2. \A c \in s : (\E d \in s : IsNext(s, c, d)) => (CHOOSE d \in s : IsNext(s, c, d)) \in Clusters
  BY <1>1
<1>3. \A c \in Clusters :
        /\ MakeChain(s)[c] \in Clusters \cup {FAT_ENT_FREE, FAT_ENT_EOF}
        /\ c \in s => MakeChain(s)[c] # FAT_ENT_FREE
        /\ c \notin s => MakeChain(s)[c] = fat[c]
  BY <1>1, <1>2, ClusterNumbers DEF MakeChain, TypeOK
<1>4. MakeChain(s) \in [Clusters -> Clusters \cup {FAT_ENT_FREE, FAT_ENT_EOF}]
  BY <1>3 DEF MakeChain
<1>5. FreeSet(MakeChain(s)) = FreeSet(fat) \ s
  BY <1>3 DEF FreeSet
<1>6. IsFiniteSet(s) /\ Cardinality(s) \in Nat /\ Cardinality(s) <= Cardinality(FreeSet(fat))
  BY FiniteFree, FiniteSubset
<1>7. FreeSet(fat) \cap s = s
  OBVIOUS
<1>8. Cardinality(FreeSet(fat) \ s) = Cardinality(FreeSet(fat)) - Cardinality(s)
  BY Zenon, ZenonT(60), <1>7, FiniteFree, CountDifference
<1> QED
  BY <1>4, <1>5, <1>6, <1>8

(* Initially nothing is known of the count.                                *)
LEMMA CountInit == Init => CountInv
<1> SUFFICES ASSUME Init PROVE CountInv
  OBVIOUS
<1>1. FAT_START_ENT \in FAT_START_ENT .. max_cluster /\ 0 \in 0 .. MaxNr /\ 0 \in 0 .. MaxErrors
  BY FatAllocAssumption DEF max_cluster, FAT_START_ENT
<1>2. free_clusters \in Nat \cup {Unknown}
  BY FatAllocAssumption DEF Init
<1>3. t_free \in 0 .. t_entry - FAT_START_ENT
  BY DEF Init, FAT_START_ENT
<1>4. TypeOK
  BY Zenon, ZenonT(60), <1>1, <1>2, <1>3 DEF Init, TypeOK
<1> QED
  BY <1>4 DEF Init, CountInv

(* fat_alloc_clusters keeps the count, whether it finds all, some or none  *)
(* of the clusters.                                                        *)
LEMMA AllocStep ==
  ASSUME FiniteFacts, CountInv, NEW f \in Files, NEW n \in 1 .. MaxNr,
         AllocNoSpace(f, n) \/ Alloc(f, n) \/ AllocExhausted(f, n) \/ AllocError(f, n)
  PROVE  CountInv'
<1> USE DEF CountInv
<1> DEFINE counted(s) == free_clusters' = CountDown(Cardinality(s))
<1>1. ASSUME NEW s, s \subseteq FreeSet(fat), Claim(f, s)
      PROVE  /\ fat' \in [Clusters -> Clusters \cup {FAT_ENT_FREE, FAT_ENT_EOF}]
             /\ prev_free' \in Clusters /\ held' \in [Files -> Clusters \cup {0}]
             /\ held'[f] # 0 /\ \A g \in Files \ {f} : held'[g] = held[g]
             /\ Cardinality(FreeSet(fat)') = Cardinality(FreeSet(fat)) - Cardinality(s)
             /\ Cardinality(s) \in Nat /\ Cardinality(s) <= Cardinality(FreeSet(fat))
  <2>1. FreeSet(fat)' = FreeSet(MakeChain(s))
    BY <1>1 DEF Claim, FreeSet
  <2>2. PICK first \in s, last \in s : held' = [held EXCEPT ![f] = first] /\ prev_free' = last
    BY Zenon, ZenonT(60), <1>1 DEF Claim
  <2>3. first \in Clusters /\ last \in Clusters /\ first # 0
    BY <1>1, <2>2, FiniteFree, ClusterNumbers
  <2>4. held \in [Files -> Clusters \cup {0}]
    BY DEF TypeOK
  <2>5. /\ prev_free' \in Clusters /\ held' \in [Files -> Clusters \cup {0}]
        /\ held'[f] # 0 /\ \A g \in Files \ {f} : held'[g] = held[g]
    BY <2>2, <2>3, <2>4
  <2> QED
    BY Zenon, ZenonT(60), <1>1, <2>1, <2>5, MakeChainFree DEF Claim
<1>2. ASSUME NEW s, s \subseteq FreeSet(fat), Claim(f, s), counted(s), UNCHANGED free_clus_valid
      PROVE  /\ free_clusters' \in Nat \cup {Unknown}
             /\ free_clus_valid' => free_clusters' = Cardinality(FreeSet(fat)')
  <2>1. Cardinality(FreeSet(fat)) \in Nat
    BY FiniteFree
  <2>2. free_clusters \in Nat \cup {Unknown}
    BY DEF TypeOK
  <2>3. Cardinality(s) \in Nat /\ Cardinality(s) <= Cardinality(FreeSet(fat))
    BY <1>1, <1>2
  <2>4. free_clusters' \in Nat \cup {Unknown}
    BY <1>2, <2>2, <2>3 DEF CountDown, Unknown
  <2>5. ASSUME free_clus_valid PROVE free_clusters' = Cardinality(FreeSet(fat)')
    <3>1. free_clusters = Cardinality(FreeSet(fat))
      BY <2>5
    <3>2. free_clusters' = free_clusters - Cardinality(s)
      BY <3>1, <1>2, <2>1, <2>3 DEF CountDown, Unknown
    <3> QED
      BY <3>1, <3>2, <1>1, <1>2
  <2> QED
    BY <1>2, <2>4, <2>5
<1>3. CASE AllocNoSpace(f, n)
  BY <1>3 DEF AllocNoSpace, table, errors, trim, TypeOK, FreeSet
<1>4. ASSUME NEW p \in {"add", "undo"}, NEW s, s \subseteq FreeSet(fat), Claim(f, s),
             pc' = [pc EXCEPT ![f] = p]
      PROVE  /\ pc' \in [Files -> {"idle", "add", "undo", "free"}]
             /\ \A g \in Files : pc'[g] # "idle" => held'[g] # 0
  BY <1>1, <1>4 DEF TypeOK
<1>5. CASE Alloc(f, n)
  <2>1. Found(n) \subseteq FreeSet(fat)
    BY DEF Found
  <2>2. Claim(f, Found(n)) /\ counted(Found(n)) /\ UNCHANGED free_clus_valid
        /\ pc' = [pc EXCEPT ![f] = "add"] /\ refused' = 0
        /\ UNCHANGED <<i_start, io_errors, link_error, t_pc, t_entry, t_free>>
    BY <1>5 DEF Alloc, errors, trim
  <2>3. TypeOK'
    BY <1>1, <1>2, <1>4, <2>1, <2>2, FatAllocAssumption DEF TypeOK
  <2> QED
    BY <1>2, <1>4, <2>1, <2>2, <2>3 DEF FreeSet
<1>6. CASE AllocExhausted(f, n)
  <2>1. /\ free_clusters' = 0 /\ free_clus_valid' = TRUE /\ refused' = n
        /\ UNCHANGED <<i_start, io_errors, link_error, t_pc, t_entry, t_free>>
    BY <1>6 DEF AllocExhausted, errors, trim
  <2>2. CASE FreeSet(fat) = {}
    <3>1. UNCHANGED <<fat, prev_free, pc, held>>
      BY <1>6, <2>2 DEF AllocExhausted
    <3>2. Cardinality(FreeSet(fat)') = 0
      BY <2>2, <3>1, EmptyCount DEF FreeSet
    <3> QED
      BY <2>1, <3>1, <3>2 DEF TypeOK
  <2>3. CASE FreeSet(fat) # {}
    <3>1. Claim(f, FreeSet(fat)) /\ pc' = [pc EXCEPT ![f] = "undo"]
      BY <1>6, <2>3 DEF AllocExhausted
    <3>2. Cardinality(FreeSet(fat)') = 0
      BY <1>1, <3>1, FiniteFree
    <3>3. TypeOK'
      BY <1>1, <1>4, <2>1, <3>1, FatAllocAssumption DEF TypeOK
    <3> QED
      BY <1>4, <2>1, <3>1, <3>2, <3>3
  <2> QED
    BY <2>2, <2>3
<1>7. CASE AllocError(f, n)
  <2>1. /\ refused' = 0 /\ io_errors' \in 0 .. MaxErrors
        /\ UNCHANGED <<free_clus_valid, i_start, link_error, t_pc, t_entry, t_free>>
    BY <1>7, FatAllocAssumption DEF AllocError, IoError, trim, TypeOK
  <2>2. CASE UNCHANGED <<fat, free_clusters, prev_free, pc, held>>
    BY <2>1, <2>2, FatAllocAssumption DEF TypeOK, FreeSet
  <2>3. ASSUME NEW k \in 1 .. n, Claim(f, Found(k)),
               counted(Found(k)), pc' = [pc EXCEPT ![f] = "undo"]
        PROVE  CountInv'
    <3>1. Found(k) \subseteq FreeSet(fat)
      BY DEF Found
    <3>2. TypeOK'
      BY <1>1, <1>2, <1>4, <2>1, <2>3, <3>1, FatAllocAssumption DEF TypeOK
    <3> QED
      BY <1>2, <1>4, <2>1, <2>3, <3>1, <3>2 DEF FreeSet
  <2> QED
    BY <1>7, <2>2, <2>3 DEF AllocError
<1> QED
  BY <1>3, <1>5, <1>6, <1>7

(* fat_free_clusters counts each entry that it frees, wherever it stops.   *)
LEMMA FreeStep ==
  ASSUME FiniteFacts, CountInv, NEW f \in Files, FreeHeld(f) \/ FreeHeldError(f)
  PROVE  CountInv'
<1> USE DEF CountInv
<1>1. PICK freed : freed \subseteq Freeable(held[f]) /\ FreeClusters(freed)
  <2> HIDE DEF CountInv
  <2>1. CASE FreeHeld(f)
    BY <2>1 DEF FreeHeld
  <2>2. CASE FreeHeldError(f)
    <3>1. PICK k \in 0 .. NClusters : FreeClusters({Nth(held[f], i) : i \in 0 .. k - 1} \cap Freeable(held[f]))
      BY Zenon, ZenonT(60), <2>2 DEF FreeHeldError
    <3> DEFINE freed == {Nth(held[f], i) : i \in 0 .. k - 1} \cap Freeable(held[f])
    <3>2. freed \subseteq Freeable(held[f]) /\ FreeClusters(freed)
      BY <3>1
    <3> HIDE DEF freed
    <3> QED
      BY <3>2, Zenon, ZenonT(60)
  <2> QED
    BY <2>1, <2>2
<1>2. freed \subseteq Clusters /\ freed \cap FreeSet(fat) = {}
  BY <1>1 DEF Freeable, Chain
<1>3. fat' \in [Clusters -> Clusters \cup {FAT_ENT_FREE, FAT_ENT_EOF}]
  BY <1>1 DEF FreeClusters, TypeOK
<1>4. FreeSet(fat)' = FreeSet(fat) \cup freed
  BY <1>1, <1>2 DEF FreeClusters, FreeSet
<1>5. IsFiniteSet(freed) /\ Cardinality(freed) \in Nat
  BY <1>2, FiniteClusters, FiniteSubset
<1>6. Cardinality(FreeSet(fat)') = Cardinality(FreeSet(fat)) + Cardinality(freed)
  <2>1. Cardinality(FreeSet(fat) \cap freed) = 0
    BY <1>2, EmptyCount
  <2>2. IsFiniteSet(FreeSet(fat)) /\ Cardinality(FreeSet(fat)) \in Nat
    BY FiniteFree
  <2>3. Cardinality(FreeSet(fat) \cup freed)
          = Cardinality(FreeSet(fat)) + Cardinality(freed) - Cardinality(FreeSet(fat) \cap freed)
    BY <1>5, <2>2, CountUnion, Zenon, ZenonT(60)
  <2> QED
    BY <1>4, <1>5, <2>1, <2>2, <2>3
<1>7. free_clusters' \in Nat \cup {Unknown}
  BY <1>1, <1>5 DEF FreeClusters, TypeOK
<1>8. ASSUME free_clus_valid' PROVE free_clusters' = Cardinality(FreeSet(fat)')
  <2>1. free_clus_valid
    BY <1>1, <1>8 DEF FreeClusters
  <2>2. free_clusters = Cardinality(FreeSet(fat)) /\ free_clusters # Unknown
    BY <2>1, FiniteFree DEF Unknown
  <2> QED
    BY <1>1, <1>6, <2>2 DEF FreeClusters
<1>9. /\ LetGo(f) /\ refused' = 0 /\ io_errors' \in 0 .. MaxErrors
      /\ UNCHANGED <<i_start, link_error, t_pc, t_entry, t_free, free_clus_valid, prev_free>>
  BY <1>1, FatAllocAssumption DEF FreeHeld, FreeHeldError, FreeClusters, IoError, errors, trim, TypeOK
<1>10. /\ pc' \in [Files -> {"idle", "add", "undo", "free"}] /\ held' \in [Files -> Clusters \cup {0}]
       /\ \A g \in Files : pc'[g] # "idle" => held'[g] # 0
  BY <1>9 DEF LetGo, TypeOK
<1>11. TypeOK'
  BY <1>3, <1>7, <1>9, <1>10, FatAllocAssumption DEF TypeOK
<1> QED
  BY <1>8, <1>10, <1>11

(* An entry in use that gets another value in use leaves the free ones.    *)
LEMMA PutFree ==
  ASSUME TypeOK, NEW c \in Clusters, fat[c] # FAT_ENT_FREE,
         NEW v \in Clusters \cup {FAT_ENT_EOF}, fat' = [fat EXCEPT ![c] = v]
  PROVE  /\ fat' \in [Clusters -> Clusters \cup {FAT_ENT_FREE, FAT_ENT_EOF}]
         /\ FreeSet(fat)' = FreeSet(fat)
<1>1. v # FAT_ENT_FREE
  BY ClusterNumbers
<1> QED
  BY <1>1 DEF TypeOK, FreeSet

(* Linking new clusters to a file changes no free entry.                   *)
LEMMA LinkFree ==
  ASSUME CountInv, NEW f \in Files, Link(f), pc[f] = "add", i_start[f] # 0 => Ends(i_start[f])
  PROVE  /\ fat' \in [Clusters -> Clusters \cup {FAT_ENT_FREE, FAT_ENT_EOF}]
         /\ FreeSet(fat)' = FreeSet(fat) /\ i_start' \in [Files -> Clusters \cup {0}]
<1> USE DEF CountInv
<1>1. held[f] \in Clusters
  BY DEF TypeOK
<1>2. CASE i_start[f] = 0
  BY <1>1, <1>2 DEF Link, TypeOK, FreeSet
<1>3. CASE i_start[f] # 0
  <2>1. Last(f) \in Clusters /\ fat[Last(f)] = FAT_ENT_EOF
    BY <1>3 DEF Ends, Last, Chain
  <2>2. fat[Last(f)] # FAT_ENT_FREE
    BY <2>1, ClusterNumbers
  <2>3. fat' = [fat EXCEPT ![Last(f)] = held[f]] /\ UNCHANGED i_start
    BY <1>3 DEF Link
  <2> QED
    BY Zenon, ZenonT(60), <1>1, <2>1, <2>2, <2>3, PutFree DEF TypeOK
<1> QED
  BY <1>2, <1>3

(* fat_chain_add changes no free entry, also when its write fails.         *)
LEMMA ChainStep ==
  ASSUME CountInv, NEW f \in Files, ChainAdd(f) \/ ChainAddError(f) \/ ChainAddWriteError(f)
  PROVE  CountInv'
<1> USE DEF CountInv
<1>2. CASE ChainAdd(f)
  <2>1. /\ UNCHANGED <<free_clusters, free_clus_valid, prev_free, io_errors, link_error, t_pc, t_entry, t_free>>
        /\ LetGo(f) /\ refused' = 0 /\ Link(f) /\ pc[f] = "add" /\ (i_start[f] # 0 => Ends(i_start[f]))
    BY <1>2 DEF ChainAdd, counts, errors, trim
  <2>2. /\ pc' \in [Files -> {"idle", "add", "undo", "free"}] /\ held' \in [Files -> Clusters \cup {0}]
        /\ \A g \in Files : pc'[g] # "idle" => held'[g] # 0
    BY <2>1 DEF LetGo, TypeOK
  <2>3. TypeOK'
    BY LinkFree, <2>1, <2>2, FatAllocAssumption DEF TypeOK
  <2> QED
    BY LinkFree, <2>1, <2>2, <2>3
<1>3. CASE ChainAddError(f)
  <2>1. io_errors' \in 0 .. MaxErrors
    BY <1>3, FatAllocAssumption DEF ChainAddError, IoError, TypeOK
  <2>2. /\ UNCHANGED <<fat, free_clusters, free_clus_valid, prev_free, i_start, held, link_error, t_pc, t_entry, t_free>>
        /\ pc[f] = "add" /\ pc' = [pc EXCEPT ![f] = "undo"] /\ refused' = 0
    BY <1>3 DEF ChainAddError, table, trim
  <2>3. TypeOK'
    BY <2>1, <2>2, FatAllocAssumption DEF TypeOK
  <2> QED
    BY <2>2, <2>3 DEF FreeSet, TypeOK
<1>4. CASE ChainAddWriteError(f)
  <2>1. /\ UNCHANGED <<free_clusters, free_clus_valid, prev_free, held, t_pc, t_entry, t_free>>
        /\ link_error' = TRUE /\ refused' = 0 /\ Link(f) /\ pc[f] = "add" /\ (i_start[f] # 0 => Ends(i_start[f]))
        /\ pc' = [pc EXCEPT ![f] = "undo"]
    BY <1>4 DEF ChainAddWriteError, counts, trim
  <2>2. io_errors' \in 0 .. MaxErrors
    BY <1>4, FatAllocAssumption DEF ChainAddWriteError, IoError, TypeOK
  <2>3. TypeOK'
    BY LinkFree, <2>1, <2>2, FatAllocAssumption DEF TypeOK
  <2> QED
    BY LinkFree, <2>1, <2>3 DEF TypeOK
<1> QED
  BY <1>2, <1>3, <1>4

(* Writing a new end mark changes no free entry.                           *)
LEMMA CutFree ==
  ASSUME CountInv, NEW f \in Files, NEW skip \in 0 .. NClusters - 1, CanCut(f, skip), WriteEof(f, skip)
  PROVE  /\ fat' \in [Clusters -> Clusters \cup {FAT_ENT_FREE, FAT_ENT_EOF}]
         /\ FreeSet(fat)' = FreeSet(fat)
<1> USE DEF CountInv
<1>1. CASE skip = 0
  BY <1>1 DEF WriteEof, TypeOK, FreeSet
<1>2. CASE skip # 0
  <2> DEFINE last == Nth(i_start[f], skip - 1)
  <2>1. last \in Clusters /\ fat[last] \in Clusters
    BY <1>2 DEF CanCut, FreeStart
  <2>2. fat[last] # FAT_ENT_FREE
    BY <2>1, ClusterNumbers
  <2>3. fat' = [fat EXCEPT ![last] = FAT_ENT_EOF]
    BY <1>2 DEF WriteEof
  <2> HIDE DEF last
  <2> QED
    BY Zenon, ZenonT(60), <2>1, <2>2, <2>3, PutFree
<1> QED
  BY <1>1, <1>2

(* fat_free cuts a chain at an entry in use.                               *)
LEMMA TruncateStep ==
  ASSUME CountInv, NEW f \in Files, NEW skip \in 0 .. NClusters - 1,
         Truncate(f, skip) \/ TruncateError(f, skip)
  PROVE  CountInv'
<1> USE DEF CountInv
<1>1. CanCut(f, skip) /\ WriteEof(f, skip) /\ FreeStart(f, skip) \in Clusters /\ FreeStart(f, skip) # 0
  BY ClusterNumbers DEF Truncate, TruncateError, CanCut
<1>2. /\ fat' \in [Clusters -> Clusters \cup {FAT_ENT_FREE, FAT_ENT_EOF}]
      /\ FreeSet(fat)' = FreeSet(fat)
  BY <1>1, CutFree
<1>3. CASE Truncate(f, skip)
  <2>1. /\ UNCHANGED <<free_clusters, free_clus_valid, prev_free, io_errors, link_error, t_pc, t_entry, t_free>>
        /\ refused' = 0 /\ held' = [held EXCEPT ![f] = FreeStart(f, skip)] /\ pc' = [pc EXCEPT ![f] = "free"]
        /\ i_start' = [i_start EXCEPT ![f] = IF skip = 0 THEN 0 ELSE @]
    BY <1>3 DEF Truncate, counts, errors, trim
  <2>2. TypeOK'
    BY <1>1, <1>2, <2>1, FatAllocAssumption DEF TypeOK
  <2>3. \A g \in Files : pc'[g] # "idle" => held'[g] # 0
    BY <1>1, <2>1 DEF TypeOK
  <2> QED
    BY <1>2, <2>1, <2>2, <2>3
<1>4. CASE TruncateError(f, skip)
  <2>1. /\ UNCHANGED <<free_clusters, free_clus_valid, prev_free, i_start, pc, held, link_error, t_pc, t_entry, t_free>>
        /\ refused' = 0
    BY <1>4 DEF TruncateError, counts, trim
  <2>2. io_errors' \in 0 .. MaxErrors
    BY <1>4, FatAllocAssumption DEF TruncateError, IoError, TypeOK
  <2>3. TypeOK'
    BY <1>2, <2>1, <2>2, FatAllocAssumption DEF TypeOK
  <2> QED
    BY <1>2, <2>1, <2>3
<1> QED
  BY <1>3, <1>4

(* Counting finds the number; FITRIM changes no entry.                     *)
LEMMA CountTrimStep ==
  ASSUME FiniteFacts, CountInv, CountFree \/ TrimStep
  PROVE  CountInv'
<1> USE DEF CountInv
<1>1. CASE CountFree
  <2>1. Cardinality(FreeSet(fat)) \in Nat
    BY FiniteFree
  <2>2. UNCHANGED <<fat, prev_free, i_start, pc, held, refused, io_errors, link_error, t_pc, t_entry, t_free>>
        /\ free_clusters' = Cardinality(FreeSet(fat)) /\ free_clus_valid' = TRUE
    BY <1>1 DEF CountFree, threads, errors, trim
  <2>3. TypeOK'
    BY <2>1, <2>2 DEF TypeOK
  <2> QED
    BY <2>2, <2>3 DEF FreeSet
<1>2. CASE TrimStep
  <2>1. UNCHANGED <<fat, free_clusters, free_clus_valid, prev_free, i_start, pc, held, refused, io_errors, link_error>>
    BY <1>2 DEF TrimStep, TrimStart, TrimEntry, TrimLock, TrimEnd, table, threads, errors
  <2>2. /\ t_pc' \in {"idle", "scan", "resched"} /\ t_entry' \in FAT_START_ENT .. max_cluster
        /\ t_free' \in 0 .. t_entry' - FAT_START_ENT
    BY <1>2, FatAllocAssumption
    DEF TrimStep, TrimStart, TrimEntry, TrimLock, TrimEnd, TypeOK, Clusters, max_cluster, FAT_START_ENT
  <2>3. TypeOK'
    BY <2>1, <2>2 DEF TypeOK
  <2> QED
    BY <2>1, <2>3 DEF FreeSet
<1> QED
  BY <1>1, <1>2

(* Every step keeps the invariant.                                         *)
LEMMA CountStep ==
  ASSUME FiniteFacts
  PROVE  CountInv /\ [Next]_vars => CountInv'
<1> SUFFICES ASSUME CountInv, [Next]_vars PROVE CountInv'
  OBVIOUS
<1>1. CASE UNCHANGED vars
  BY <1>1 DEF CountInv, TypeOK, FreeSet, vars, table, threads, errors, trim
<1>2. ASSUME NEW f \in Files, FileStep(f) PROVE CountInv'
  BY <1>2, AllocStep, FreeStep, ChainStep, TruncateStep DEF FileStep
<1> QED
  BY <1>1, <1>2, CountTrimStep DEF Next

(* \div is monotone.                                                       *)
LEMMA DivMonotone ==
  ASSUME NEW p \in Nat \ {0}, NEW a \in Nat, NEW b \in Nat, a <= b
  PROVE  a \div p \in Nat /\ b \div p \in Nat /\ a \div p <= b \div p
<1>1. a \div p \in Nat /\ b \div p \in Nat /\ a % p \in 0 .. p - 1 /\ b % p \in 0 .. p - 1
  OBVIOUS
<1>2. a = p * (a \div p) + (a % p) /\ b = p * (b \div p) + (b % p)
  OBVIOUS
<1>3. ASSUME b \div p < a \div p PROVE FALSE
  <2> DEFINE x == a \div p
             y == b \div p
  <2>1. x \in Nat /\ y \in Nat /\ y + 1 <= x
    BY <1>1, <1>3
  <2> HIDE DEF x, y
  <2>2. p * (y + 1) <= p * x
    BY <2>1
  <2>3. p * (y + 1) = p * y + p
    BY <2>1
  <2> QED
    BY <1>1, <1>2, <2>2, <2>3 DEF x, y
<1> QED
  BY <1>1, <1>3

(* The first entry of a block is in another block than the ones before it. *)
LEMMA DivStart ==
  ASSUME NEW p \in Nat \ {0}, NEW a \in Nat, NEW b \in Nat, a < b, b % p = 0
  PROVE  a \div p # b \div p
<1>1. a = p * (a \div p) + (a % p) /\ b = p * (b \div p) + (b % p) /\ a % p \in 0 .. p - 1
  OBVIOUS
<1>3. ASSUME b \div p = a \div p PROVE FALSE
  BY <1>1, <1>3
<1> QED
  BY <1>3

\* FITRIM has released fat_lock only at the end of a block, or of the table.
TrimInv ==
  /\ TrimFreeInBlock
  /\ t_pc = "resched" => t_entry % PerBlock = 0 \/ t_entry = max_cluster

(* While FITRIM has fat_lock no file takes or frees an entry.              *)
LEMMA ScanFree ==
  ASSUME CountInv, NEW f \in Files, FileStep(f), t_pc = "scan"
  PROVE  FreeSet(fat)' = FreeSet(fat)
<1>1. CASE ChainAdd(f) \/ ChainAddWriteError(f)
  BY <1>1, LinkFree DEF ChainAdd, ChainAddWriteError
<1>2. CASE ChainAddError(f)
  BY <1>2 DEF ChainAddError, table, FreeSet
<1>3. ASSUME NEW skip \in 0 .. NClusters - 1, Truncate(f, skip) \/ TruncateError(f, skip)
      PROVE  FreeSet(fat)' = FreeSet(fat)
  BY <1>3, CutFree DEF Truncate, TruncateError
<1> QED
  BY <1>1, <1>2, <1>3
  DEF FileStep, FatLockFree, AllocNoSpace, Alloc, AllocExhausted, AllocError, FreeHeld, FreeHeldError

(* The steps of FITRIM itself: a run grows by a free entry, and starts     *)
(* anew, as far as its block is concerned, when fat_lock was released.     *)
LEMMA TrimStepInv == ASSUME CountInv, TrimInv, TrimStep PROVE TrimInv'
<1>1. /\ PerBlock \in Nat \ {0} /\ max_cluster \in Nat /\ t_entry \in Nat /\ t_free \in Nat
      /\ t_entry - t_free >= 0 /\ \A c \in t_entry - t_free .. t_entry : c \in Nat
  BY FatAllocAssumption DEF CountInv, TypeOK, max_cluster, FAT_START_ENT
<1>2. UNCHANGED fat
  BY DEF TrimStep, TrimStart, TrimEntry, TrimLock, TrimEnd, table
<1>3. CASE TrimStart
  <2>1. t_entry' \in Nat /\ t_free' = 0 /\ t_pc' = "scan"
    BY <1>3, ClusterNumbers DEF TrimStart
  <2>2. \A e \in Nat : \A c \in e - 0 .. e - 1 : FALSE
    OBVIOUS
  <2>3. \A c \in t_entry' - t_free' .. t_entry' - 1 : FALSE
    BY <2>1, <2>2, Zenon, ZenonT(60)
  <2> QED
    BY Zenon, ZenonT(60), <2>1, <2>3 DEF TrimInv, TrimFreeInBlock
<1>4. CASE TrimEntry
  <2>1. ASSUME NEW c \in t_entry' - t_free' .. t_entry' - 1, c \div PerBlock = t_entry' \div PerBlock
        PROVE  fat[c] = FAT_ENT_FREE
    <3>1. fat[t_entry] = FAT_ENT_FREE /\ t_free' = t_free + 1 /\ t_entry' = t_entry + 1
      BY <1>1, <1>4, <2>1 DEF TrimEntry
    <3>2. CASE c = t_entry
      BY <3>1, <3>2
    <3>3. CASE c # t_entry
      <4>1. c \in t_entry - t_free .. t_entry - 1 /\ c \in Nat /\ c <= t_entry
        BY <1>1, <2>1, <3>1, <3>3
      <4>2. c \div PerBlock <= t_entry \div PerBlock /\ t_entry \div PerBlock <= t_entry' \div PerBlock
        BY <1>1, <3>1, <4>1, DivMonotone
      <4>3. c \div PerBlock \in Nat /\ t_entry \div PerBlock \in Nat
        BY <1>1, <4>1, DivMonotone
      <4>4. c \div PerBlock = t_entry \div PerBlock
        BY <2>1, <4>2, <4>3
      <4> QED
        BY <1>4, <4>1, <4>4 DEF TrimInv, TrimFreeInBlock, TrimEntry
    <3> QED
      BY <3>2, <3>3
  <2> QED
    BY <1>2, <1>4, <2>1 DEF TrimInv, TrimFreeInBlock, TrimEntry, max_cluster
<1>5. CASE TrimLock
  <2>1. t_pc = "resched" /\ UNCHANGED <<t_entry, t_free>> /\ t_pc' = "scan"
    BY <1>5 DEF TrimLock
  <2>2. ASSUME t_entry < max_cluster, NEW c \in t_entry - t_free .. t_entry - 1
        PROVE  c \div PerBlock # t_entry \div PerBlock
    <3>1. t_entry % PerBlock = 0 /\ c \in Nat /\ c < t_entry
      BY <1>1, <2>1, <2>2 DEF TrimInv
    <3> QED
      BY <1>1, <3>1, DivStart
  <2> QED
    BY <2>1, <2>2 DEF TrimInv, TrimFreeInBlock, max_cluster
<1>6. CASE TrimEnd
  BY <1>6 DEF TrimEnd, TrimInv, TrimFreeInBlock
<1> QED
  BY <1>3, <1>4, <1>5, <1>6 DEF TrimStep

IsWalk(w, c, n) ==
  w = [k \in 0 .. n |-> IF k = 0 THEN c ELSE IF w[k - 1] \in Clusters THEN fat[w[k - 1]] ELSE w[k - 1]]

(* Nth is defined by recursion; there is a function that satisfies its     *)
(* equation, by induction on the length of the walk.                       *)
LEMMA WalkExists ==
  ASSUME FiniteFacts, NEW c
  PROVE  \E w : IsWalk(w, c, NClusters)
<1> DEFINE T == {n \in Nat : ~ \E w : IsWalk(w, c, n)}
<1> SUFFICES ASSUME T # {} PROVE FALSE
  BY FatAllocAssumption
<1>1. PICK n \in T : \A m \in T : n <= m
  BY Zenon, ZenonT(60), Least
<1>2. n # 0
  <2>1. IsWalk([k \in 0 .. 0 |-> c], c, 0)
    BY DEF IsWalk
  <2> QED
    BY <1>1, <2>1
<1>3. n \in Nat /\ n - 1 \in Nat /\ n - 1 \notin T
  BY <1>1, <1>2
<1>4. PICK v : IsWalk(v, c, n - 1)
  BY <1>3
<1> DEFINE w == [k \in 0 .. n |-> IF k = n THEN IF v[n - 1] \in Clusters THEN fat[v[n - 1]] ELSE v[n - 1] ELSE v[k]]
<1>5. \A k \in 0 .. n - 1 : v[k] = IF k = 0 THEN c ELSE IF v[k - 1] \in Clusters THEN fat[v[k - 1]] ELSE v[k - 1]
  BY <1>3, <1>4 DEF IsWalk
<1>6. \A k \in 0 .. n : w[k] = IF k = 0 THEN c ELSE IF w[k - 1] \in Clusters THEN fat[w[k - 1]] ELSE w[k - 1]
  BY <1>2, <1>3, <1>5
<1>7. w = [k \in 0 .. n |-> IF k = 0 THEN c ELSE IF w[k - 1] \in Clusters THEN fat[w[k - 1]] ELSE w[k - 1]]
  BY <1>6
<1>8. IsWalk(w, c, n)
  BY <1>7 DEF IsWalk
<1> QED
  BY <1>1, <1>8

(* Nth(c, _) is such a walk.                                               *)
LEMMA NthWalk ==
  ASSUME FiniteFacts, NEW c
  PROVE  \E w : IsWalk(w, c, NClusters) /\ \A k \in 0 .. NClusters : Nth(c, k) = w[k]
<1>1. PICK v : IsWalk(v, c, NClusters)
  BY WalkExists
<1> QED
  BY Zenon, ZenonT(60), <1>1 DEF Nth, IsWalk

(* The walk along a chain, one entry at a time.                            *)
LEMMA NthStep ==
  ASSUME FiniteFacts, NEW c
  PROVE  /\ Nth(c, 0) = c
         /\ \A i \in 1 .. NClusters :
              Nth(c, i) = IF Nth(c, i - 1) \in Clusters THEN fat[Nth(c, i - 1)] ELSE Nth(c, i - 1)
<1>1. PICK w : IsWalk(w, c, NClusters) /\ \A k \in 0 .. NClusters : Nth(c, k) = w[k]
  BY NthWalk
<1>2. \A k \in 0 .. NClusters : w[k] = IF k = 0 THEN c ELSE IF w[k - 1] \in Clusters THEN fat[w[k - 1]] ELSE w[k - 1]
  BY Zenon, ZenonT(60), <1>1 DEF IsWalk
<1>3. Nth(c, 0) = c
  BY <1>1, <1>2, FatAllocAssumption
<1>4. ASSUME NEW i \in 1 .. NClusters
      PROVE  Nth(c, i) = IF Nth(c, i - 1) \in Clusters THEN fat[Nth(c, i - 1)] ELSE Nth(c, i - 1)
  <2>1. i \in 0 .. NClusters /\ i # 0 /\ i - 1 \in 0 .. NClusters
    BY FatAllocAssumption
  <2>2. Nth(c, i) = w[i] /\ Nth(c, i - 1) = w[i - 1]
    BY <1>1, <2>1
  <2> QED
    BY <1>2, <2>1, <2>2
<1> QED
  BY <1>3, <1>4

(* A cluster that is met after the first one has the one before it.        *)
LEMMA NthBack ==
  ASSUME FiniteFacts, NEW c, NEW i \in 1 .. NClusters, Nth(c, i) \in Clusters
  PROVE  i - 1 \in 0 .. NClusters /\ Nth(c, i - 1) \in Clusters /\ fat[Nth(c, i - 1)] = Nth(c, i)
<1>1. i - 1 \in 0 .. NClusters
  BY FatAllocAssumption
<1> QED
  BY <1>1, NthStep

(* No chain is without a cluster to start with.                            *)
NoPred(h) == \A c \in Clusters : fat[c] # h

(* No entry is the next one of two others, and a link leads to an entry in *)
(* use.                                                                    *)
Linear ==
  /\ \A c, d \in Clusters : fat[c] \in Clusters /\ fat[d] = fat[c] => c = d
  /\ \A c \in Clusters : fat[c] \in Clusters => fat[fat[c]] # FAT_ENT_FREE

(* A chain meets no cluster twice, and no two chains meet.                 *)
LEMMA Meet ==
  ASSUME FiniteFacts, Linear, NEW g, NEW h, NoPred(g), NoPred(h), NEW i \in 0 .. NClusters, NEW j \in 0 .. NClusters,
         Nth(g, i) \in Clusters, Nth(g, i) = Nth(h, j)
  PROVE  g = h /\ i = j
<1> DEFINE Met(m, n) == Nth(g, m) \in Clusters /\ Nth(g, m) = Nth(h, n) /\ ~(g = h /\ m = n)
           T == {m \in 0 .. NClusters : \E n \in 0 .. NClusters : Met(m, n)}
<1> SUFFICES ASSUME T # {} PROVE FALSE
  OBVIOUS
<1>1. T \in SUBSET Nat
  BY FatAllocAssumption
<1>2. PICK m \in T : \A k \in T : m <= k
  BY Zenon, ZenonT(60), <1>1, Least
<1>3. PICK n \in 0 .. NClusters : Met(m, n)
  BY <1>2
<1>4. m \in 0 .. NClusters
  BY <1>2
<1>5. CASE m = 0 /\ n = 0
  BY <1>3, <1>5, NthStep
<1>6. CASE m = 0 /\ n # 0
  <2>1. n \in 1 .. NClusters /\ Nth(h, n) \in Clusters
    BY <1>3, <1>6, FatAllocAssumption
  <2>2. Nth(h, n - 1) \in Clusters /\ fat[Nth(h, n - 1)] = Nth(h, n)
    BY <2>1, NthBack
  <2>3. Nth(g, 0) = g
    BY NthStep
  <2> QED
    BY <1>3, <1>6, <2>2, <2>3 DEF NoPred
<1>7. CASE m # 0 /\ n = 0
  <2>1. m \in 1 .. NClusters /\ Nth(g, m) \in Clusters
    BY <1>3, <1>4, <1>7, FatAllocAssumption
  <2>2. Nth(g, m - 1) \in Clusters /\ fat[Nth(g, m - 1)] = Nth(g, m)
    BY <2>1, NthBack
  <2>3. Nth(h, 0) = h
    BY NthStep
  <2> QED
    BY <1>3, <1>7, <2>2, <2>3 DEF NoPred
<1>8. CASE m # 0 /\ n # 0
  <2>1. m \in 1 .. NClusters /\ n \in 1 .. NClusters /\ Nth(g, m) \in Clusters /\ Nth(h, n) \in Clusters
    BY <1>3, <1>4, <1>8, FatAllocAssumption
  <2>2. m - 1 \in 0 .. NClusters /\ Nth(g, m - 1) \in Clusters /\ fat[Nth(g, m - 1)] = Nth(g, m)
    BY <2>1, NthBack
  <2>3. n - 1 \in 0 .. NClusters /\ Nth(h, n - 1) \in Clusters /\ fat[Nth(h, n - 1)] = Nth(h, n)
    BY <2>1, NthBack
  <2>4. Nth(g, m - 1) = Nth(h, n - 1)
    BY <1>3, <2>1, <2>2, <2>3 DEF Linear
  <2>5. ~(g = h /\ m - 1 = n - 1)
    BY <1>3, <2>1
  <2>6. Met(m - 1, n - 1)
    BY <2>2, <2>4, <2>5
  <2>7. m - 1 \in T
    BY <2>2, <2>3, <2>6
  <2> QED
    BY <1>2, <2>1, <2>7
<1> QED
  BY <1>5, <1>6, <1>7, <1>8

(* After as many steps as there are clusters the chain has ended.          *)
LEMMA Stops ==
  ASSUME FiniteFacts, Linear, NEW h, NoPred(h)
  PROVE  Nth(h, NClusters) \notin Clusters
<1> SUFFICES ASSUME Nth(h, NClusters) \in Clusters PROVE FALSE
  OBVIOUS
<1>1. \A i \in 0 .. NClusters : Nth(h, i) \in Clusters
  <2> DEFINE T == {k \in 0 .. NClusters : Nth(h, NClusters - k) \notin Clusters}
  <2> SUFFICES ASSUME T # {} PROVE FALSE
    <3> TAKE i \in 0 .. NClusters
    <3>1. NClusters - i \in 0 .. NClusters /\ NClusters - (NClusters - i) = i
      BY FatAllocAssumption
    <3> QED
      BY <3>1
  <2>1. T \in SUBSET Nat
    BY FatAllocAssumption
  <2>2. PICK k \in T : \A m \in T : k <= m
    BY Zenon, ZenonT(60), <2>1, Least
  <2>3. k # 0
    BY <2>2, FatAllocAssumption
  <2>4. k - 1 \in 0 .. NClusters /\ NClusters - (k - 1) \in 1 .. NClusters
        /\ NClusters - (k - 1) - 1 = NClusters - k /\ k - 1 \notin T
    BY <2>2, <2>3, FatAllocAssumption
  <2>5. Nth(h, NClusters - (k - 1)) \in Clusters
    BY <2>4
  <2>6. Nth(h, NClusters - k) \in Clusters
    BY <2>4, <2>5, NthBack
  <2> QED
    BY <2>2, <2>6
<1> DEFINE w == [i \in 0 .. NClusters |-> Nth(h, i)]
<1>2. w \in [0 .. NClusters -> Clusters]
  BY <1>1
<1>6. \E i, j \in 0 .. NClusters : i # j /\ w[i] = w[j]
  BY Zenon, ZenonT(60), <1>2, Pigeonhole
<1>7. PICK i \in 0 .. NClusters, j \in 0 .. NClusters : i # j /\ Nth(h, i) = Nth(h, j)
  BY <1>6
<1> QED
  BY <1>1, <1>7, Meet

(* The first cluster of a chain.                                           *)
Head(h) == h \in Clusters /\ fat[h] # FAT_ENT_FREE /\ NoPred(h)

(* A set that has the first cluster and is closed under the links has the  *)
(* chain.                                                                  *)
LEMMA Within ==
  ASSUME FiniteFacts, NEW h, NEW S, h \in S, \A d \in S \cap Clusters : fat[d] \in Clusters => fat[d] \in S
  PROVE  Chain(h) \subseteq S
<1> DEFINE T == {i \in 0 .. NClusters : Nth(h, i) \in Clusters /\ Nth(h, i) \notin S}
<1> SUFFICES ASSUME T # {} PROVE FALSE
  BY DEF Chain
<1>1. T \in SUBSET Nat
  BY FatAllocAssumption
<1>2. PICK i \in T : \A k \in T : i <= k
  BY Zenon, ZenonT(60), <1>1, Least
<1>3. i # 0
  BY <1>2, NthStep
<1>4. i \in 1 .. NClusters /\ Nth(h, i) \in Clusters /\ Nth(h, i) \notin S
  BY <1>2, <1>3, FatAllocAssumption
<1>5. i - 1 \in 0 .. NClusters /\ Nth(h, i - 1) \in Clusters /\ fat[Nth(h, i - 1)] = Nth(h, i)
  BY <1>4, NthBack
<1>6. i - 1 \in T
  BY <1>4, <1>5
<1> QED
  BY <1>2, <1>4, <1>6

(* A file without clusters has none.                                       *)
LEMMA NoChain ==
  ASSUME FiniteFacts
  PROVE  Chain(0) = {}
<1>1. 0 \notin Clusters
  BY FatAllocAssumption DEF Clusters, max_cluster, FAT_START_ENT
<1>2. Chain(0) \subseteq {0}
  BY Zenon, ZenonT(60), <1>1, Within
<1> QED
  BY <1>1, <1>2 DEF Chain

(* A chain from its first cluster: every one of its entries is in use, it  *)
(* has what they link to and what links to them, and it ends.              *)
LEMMA ChainOf ==
  ASSUME FiniteFacts, fat \in [Clusters -> Clusters \cup {FAT_ENT_FREE, FAT_ENT_EOF}], Linear, NEW h, Head(h)
  PROVE  /\ h \in Chain(h) /\ Ends(h)
         /\ \A d \in Chain(h) : /\ d \in Clusters /\ fat[d] # FAT_ENT_FREE
                                /\ fat[d] \in Clusters => fat[d] \in Chain(h)
         /\ \A c \in Clusters : fat[c] \in Chain(h) => c \in Chain(h)
<1>1. NoPred(h) /\ h \in Clusters /\ fat[h] # FAT_ENT_FREE
  BY DEF Head
<1>2. Nth(h, NClusters) \notin Clusters
  BY <1>1, Stops
<1>3. h \in Chain(h)
  <2>1. 0 \in 0 .. NClusters /\ Nth(h, 0) = h
    BY NthStep, FatAllocAssumption
  <2> QED
    BY <1>1, <2>1 DEF Chain
<1>4. ASSUME NEW i \in 0 .. NClusters, Nth(h, i) \in Clusters
      PROVE  /\ fat[Nth(h, i)] # FAT_ENT_FREE
             /\ i + 1 \in 1 .. NClusters /\ Nth(h, i + 1) = fat[Nth(h, i)]
  <2>1. i # NClusters
    BY <1>2, <1>4
  <2>2. i + 1 \in 1 .. NClusters /\ (i + 1) - 1 = i
    BY <2>1, FatAllocAssumption
  <2>3. Nth(h, i + 1) = fat[Nth(h, i)]
    BY <1>4, <2>2, NthStep
  <2>4. CASE i = 0
    BY <1>1, <2>2, <2>3, <2>4, NthStep
  <2>5. CASE i # 0
    <3>1. i \in 1 .. NClusters
      BY <2>5
    <3>2. Nth(h, i - 1) \in Clusters /\ fat[Nth(h, i - 1)] = Nth(h, i)
      BY <1>4, <3>1, NthBack
    <3> QED
      BY <1>4, <2>2, <2>3, <3>2 DEF Linear
  <2> QED
    BY <2>4, <2>5
<1>5. \A d \in Chain(h) : /\ d \in Clusters /\ fat[d] # FAT_ENT_FREE
                          /\ fat[d] \in Clusters => fat[d] \in Chain(h)
  <2> TAKE d \in Chain(h)
  <2>1. PICK i \in 0 .. NClusters : d = Nth(h, i) /\ d \in Clusters
    BY DEF Chain
  <2>2. fat[d] # FAT_ENT_FREE /\ i + 1 \in 0 .. NClusters /\ Nth(h, i + 1) = fat[d]
    BY <1>4, <2>1
  <2> QED
    BY <2>1, <2>2 DEF Chain
<1>6. \A c \in Clusters : fat[c] \in Chain(h) => c \in Chain(h)
  <2> SUFFICES ASSUME NEW c \in Clusters, fat[c] \in Chain(h) PROVE c \in Chain(h)
    OBVIOUS
  <2>1. PICK i \in 0 .. NClusters : fat[c] = Nth(h, i) /\ fat[c] \in Clusters
    BY DEF Chain
  <2>2. i # 0
    BY <1>1, <2>1, NthStep DEF NoPred
  <2>3. i \in 1 .. NClusters
    BY <2>2
  <2>4. i - 1 \in 0 .. NClusters /\ Nth(h, i - 1) \in Clusters /\ fat[Nth(h, i - 1)] = fat[c]
    BY <2>1, <2>3, NthBack
  <2>5. c = Nth(h, i - 1)
    BY <2>1, <2>4 DEF Linear
  <2> QED
    BY <2>4, <2>5 DEF Chain
<1>7. Ends(h)
  <2> DEFINE T == {i \in 0 .. NClusters : Nth(h, i) \notin Clusters}
  <2>1. T \in SUBSET Nat /\ NClusters \in T
    BY <1>2, FatAllocAssumption
  <2>2. PICK i \in T : \A k \in T : i <= k
    BY Zenon, ZenonT(60), <2>1, Least
  <2>3. i # 0
    BY <1>1, <2>2, NthStep
  <2>4. i \in 1 .. NClusters /\ i - 1 \in 0 .. NClusters /\ i - 1 \notin T
    BY <2>2, <2>3, FatAllocAssumption
  <2>5. Nth(h, i - 1) \in Clusters /\ Nth(h, i) = fat[Nth(h, i - 1)] /\ Nth(h, i) \notin Clusters
    BY <2>2, <2>4, NthStep
  <2>6. fat[Nth(h, i - 1)] # FAT_ENT_FREE
    BY <1>4, <2>4, <2>5
  <2>7. fat[Nth(h, i - 1)] = FAT_ENT_EOF
    BY <2>5, <2>6
  <2>8. Nth(h, i - 1) \in Chain(h)
    BY <2>4, <2>5 DEF Chain
  <2> QED
    BY <2>7, <2>8 DEF Ends
<1> QED
  BY <1>3, <1>5, <1>6, <1>7

(* Two chains have no cluster in common.                                   *)
LEMMA Apart ==
  ASSUME FiniteFacts, Linear, NEW g, NEW h, Head(g), Head(h), g # h
  PROVE  Chain(g) \cap Chain(h) = {}
<1> SUFFICES ASSUME NEW c \in Chain(g), c \in Chain(h) PROVE FALSE
  OBVIOUS
<1>1. PICK i \in 0 .. NClusters : c = Nth(g, i) /\ c \in Clusters
  BY DEF Chain
<1>2. PICK j \in 0 .. NClusters : c = Nth(h, j)
  BY DEF Chain
<1> QED
  BY Zenon, ZenonT(60), <1>1, <1>2, Meet DEF Head

\* What keeps the chains apart: each starts with a cluster of its own.
LinkInv ==
  /\ \A f \in Files : pc[f] = "idle" <=> held[f] = 0
  /\ link_error => io_errors # 0
  /\ ~link_error =>
       /\ Linear
       /\ \A f \in Files :
            /\ i_start[f] # 0 => /\ Head(i_start[f])
                                 /\ \A g \in Files : held[g] # i_start[f] /\ (g # f => i_start[g] # i_start[f])
            /\ held[f] # 0 => Head(held[f]) /\ \A g \in Files \ {f} : held[g] # held[f]

(* Chains that start with clusters of their own end and are disjoint.      *)
LEMMA DisjointFromLinks ==
  ASSUME FiniteFacts
  PROVE  TypeOK /\ LinkInv => ChainsDisjoint
<1> SUFFICES ASSUME TypeOK, LinkInv, ~link_error, NEW f \in Files
             PROVE  /\ i_start[f] # 0 => Ends(i_start[f])
                    /\ held[f] # 0 => Ends(held[f])
                    /\ Chain(i_start[f]) \cap Chain(held[f]) = {}
                    /\ \A g \in Files \ {f} : Owned(f) \cap Owned(g) = {}
  BY DEF ChainsDisjoint
<1>1. Linear /\ fat \in [Clusters -> Clusters \cup {FAT_ENT_FREE, FAT_ENT_EOF}]
  BY DEF LinkInv, TypeOK
<1>2. \A g \in Files : /\ i_start[g] # 0 => Head(i_start[g])
                       /\ held[g] # 0 => Head(held[g])
  BY DEF LinkInv
<1>3. (i_start[f] # 0 => Ends(i_start[f])) /\ (held[f] # 0 => Ends(held[f]))
  BY <1>1, <1>2, ChainOf
<1>4. ASSUME NEW a, NEW b, a # b \/ a = 0, a # 0 => Head(a), b # 0 => Head(b)
      PROVE  Chain(a) \cap Chain(b) = {}
  BY <1>1, <1>4, Apart, NoChain
<1>5. Chain(i_start[f]) \cap Chain(held[f]) = {}
  BY <1>2, <1>4 DEF LinkInv
<1>6. ASSUME NEW g \in Files \ {f} PROVE Owned(f) \cap Owned(g) = {}
  <2>1. Chain(i_start[f]) \cap Chain(i_start[g]) = {}
    BY <1>2, <1>4 DEF LinkInv
  <2>2. Chain(held[f]) \cap Chain(held[g]) = {}
    BY <1>2, <1>4 DEF LinkInv
  <2>3. Chain(i_start[f]) \cap Chain(held[g]) = {}
    BY <1>2, <1>4 DEF LinkInv
  <2>4. Chain(held[f]) \cap Chain(i_start[g]) = {}
    BY <1>2, <1>4 DEF LinkInv
  <2> QED
    BY <2>1, <2>2, <2>3, <2>4 DEF Owned
<1> QED
  BY <1>3, <1>5, <1>6

(* These facts hold of the next state too.                                 *)
ChainFact ==
  TypeOK /\ Linear =>
    \A h : Head(h) =>
      /\ h \in Chain(h)
      /\ \A d \in Chain(h) : d \in Clusters /\ fat[d] # FAT_ENT_FREE /\ (fat[d] \in Clusters => fat[d] \in Chain(h))

(* What ChainOf says of a chain, as a fact about the state.                *)
LEMMA ChainHolds ==
  ASSUME FiniteFacts
  PROVE  ChainFact
<1> SUFFICES ASSUME TypeOK, Linear, NEW h, Head(h)
             PROVE  /\ h \in Chain(h)
                    /\ \A d \in Chain(h) : /\ d \in Clusters /\ fat[d] # FAT_ENT_FREE
                                           /\ fat[d] \in Clusters => fat[d] \in Chain(h)
  BY DEF ChainFact
<1>1. fat \in [Clusters -> Clusters \cup {FAT_ENT_FREE, FAT_ENT_EOF}]
  BY DEF TypeOK
<1> QED
  BY <1>1, ChainOf

(* So it holds of the next state.                                          *)
LEMMA ChainNext ==
  ASSUME FiniteFacts
  PROVE  ChainFact'
BY ChainHolds, PTL

(* And so does NoChain.                                                    *)
LEMMA NoChainNext ==
  ASSUME FiniteFacts
  PROVE  (Chain(0) = {})'
BY NoChain, PTL

(* A chain that starts as before has the clusters that it had, except at   *)
(* most those of a set that takes up the links that are cut.               *)
LEMMA Grows ==
  ASSUME FiniteFacts, TypeOK', Linear', NEW h, Head(h)', NEW R,
         \A d \in Clusters : fat[d] \in Clusters => fat'[d] = fat[d] \/ fat[d] \in R,
         \A d \in R \cap Clusters : fat[d] \in Clusters => fat[d] \in R
  PROVE  Chain(h) \subseteq Chain(h)' \cup R
<1>1. PICK S : S = Chain(h)'
  OBVIOUS
<1>2. h \in S /\ \A d \in S : fat'[d] \in Clusters => fat'[d] \in S
  BY <1>1, ChainNext DEF ChainFact
<1>3. \A d \in (S \cup R) \cap Clusters : fat[d] \in Clusters => fat[d] \in S \cup R
  BY <1>2
<1>4. Chain(h) \subseteq S \cup R
  BY Zenon, ZenonT(60), <1>2, <1>3, Within
<1> QED
  BY <1>1, <1>4

(* The table as it was.                                                    *)
LEMMA SameTable ==
  ASSUME fat' = fat
  PROVE  /\ Linear' <=> Linear
         /\ \A h : /\ Head(h)' <=> Head(h)
                   /\ Chain(h)' = Chain(h)
                   /\ Ends(h)' <=> Ends(h)
<1>1. Linear' <=> Linear
  BY DEF Linear
<1>2. \A h : Chain(h)' = Chain(h)
  BY DEF Chain, Nth
<1>3. \A h : Head(h)' <=> Head(h)
  BY DEF Head, NoPred
<1> QED
  BY <1>1, <1>2, <1>3 DEF Ends

(* A step that leaves the table and the files alone.                       *)
LEMMA LinksKept ==
  ASSUME LinkInv, NoLeak, fat' = fat, i_start' = i_start, held' = held, link_error' = link_error,
         \A f \in Files : pc'[f] = "idle" <=> pc[f] = "idle", io_errors' \in {io_errors, io_errors + 1}, TypeOK
  PROVE  LinkInv' /\ NoLeak'
<1>1. io_errors \in Nat
  BY FatAllocAssumption DEF TypeOK
<1>2. (io_errors' = 0 => io_errors = 0) /\ (link_error' => io_errors' # 0)
  BY <1>1 DEF LinkInv
<1>3. NoLeak'
  BY <1>2, SameTable DEF NoLeak, Owned, FreeSet
<1>4. LinkInv'
  BY <1>2, SameTable DEF LinkInv
<1> QED
  BY <1>3, <1>4

(* Entries that follow one another around the table have places of their   *)
(* own in the search.                                                      *)
LEMMA ModInjective ==
  ASSUME NEW n \in Nat \ {0}, NEW a \in Int, NEW b \in Int, a - b < n, b - a < n, a % n = b % n
  PROVE  a = b
<1>1. a % n \in 0 .. n - 1 /\ a \div n \in Int /\ b \div n \in Int
  OBVIOUS
<1>2. a = n * (a \div n) + (a % n) /\ b = n * (b \div n) + (b % n)
  OBVIOUS
<1> DEFINE x == a \div n
           y == b \div n
<1>3. x \in Int /\ y \in Int /\ a - b = n * x - n * y
  BY <1>1, <1>2
<1> HIDE DEF x, y
<1>4. ASSUME x < y PROVE FALSE
  <2>1. n * (x + 1) <= n * y
    BY <1>3, <1>4
  <2>2. n * (x + 1) = n * x + n
    BY <1>3
  <2> QED
    BY <1>3, <2>1, <2>2
<1>5. ASSUME y < x PROVE FALSE
  <2>1. n * (y + 1) <= n * x
    BY <1>3, <1>5
  <2>2. n * (y + 1) = n * y + n
    BY <1>3
  <2> QED
    BY <1>3, <2>1, <2>2
<1>6. x = y
  BY <1>3, <1>4, <1>5
<1> QED
  BY <1>2, <1>6 DEF x, y

(* The search meets each cluster at a place of its own.                    *)
LEMMA Places ==
  ASSUME prev_free \in Clusters
  PROVE  /\ \A c \in Clusters : Position(c) \in 0 .. NClusters - 1
         /\ \A c, d \in Clusters : Position(c) = Position(d) => c = d
<1>1. NClusters \in Nat \ {0} /\ \A c \in Clusters : c \in Nat /\ c - prev_free - 1 \in Int
  BY FatAllocAssumption, ClusterNumbers
<1>2. \A c \in Clusters : Position(c) \in 0 .. NClusters - 1
  BY <1>1 DEF Position
<1>3. ASSUME NEW c \in Clusters, NEW d \in Clusters, Position(c) = Position(d) PROVE c = d
  <2>1. PICK a \in Int : a = c - prev_free - 1
    BY <1>1
  <2>2. PICK b \in Int : b = d - prev_free - 1
    BY <1>1
  <2>3. a - b < NClusters /\ b - a < NClusters
    BY <2>1, <2>2, FatAllocAssumption DEF Clusters, max_cluster, FAT_START_ENT
  <2>4. a % NClusters = b % NClusters
    BY <1>3, <2>1, <2>2 DEF Position
  <2>5. a = b
    BY Zenon, ZenonT(60), <1>1, <2>3, <2>4, ModInjective
  <2> QED
    BY <1>1, <2>1, <2>2, <2>5, ClusterNumbers
<1> QED
  BY <1>2, <1>3

(* What follows what in the chain that is made: the next one in the search.*)
LEMMA MadeLinks ==
  ASSUME TypeOK, NEW s, s \subseteq Clusters
  PROVE  /\ \A c \in Clusters \ s : MakeChain(s)[c] = fat[c]
         /\ \A c \in s : /\ MakeChain(s)[c] \in s \cup {FAT_ENT_EOF}
                         /\ MakeChain(s)[c] \in Clusters => IsNext(s, c, MakeChain(s)[c])
         /\ \A c, d \in s : IsNext(s, c, d) => MakeChain(s)[c] = d
         /\ \A c, d, e \in s : IsNext(s, c, d) /\ IsNext(s, e, d) => c = e
<1>1. \A c \in Clusters : Position(c) \in Int
  BY Places DEF TypeOK
<1>2. \A c \in Clusters \ s : MakeChain(s)[c] = fat[c]
  BY DEF MakeChain
<1>3. ASSUME NEW c \in s
      PROVE  /\ MakeChain(s)[c] \in s \cup {FAT_ENT_EOF}
             /\ MakeChain(s)[c] \in Clusters => IsNext(s, c, MakeChain(s)[c])
             /\ \A d \in s : IsNext(s, c, d) => IsNext(s, c, MakeChain(s)[c]) /\ MakeChain(s)[c] \in s
  BY <1>3, ClusterNumbers DEF MakeChain
<1>4. ASSUME NEW c \in s, NEW d \in s, NEW e \in s, IsNext(s, c, d), IsNext(s, c, e) PROVE d = e
  <2>1. Position(d) = Position(e)
    BY <1>1, <1>4 DEF IsNext
  <2> QED
    BY <2>1, Places DEF TypeOK
<1>5. ASSUME NEW c \in s, NEW d \in s, NEW e \in s, IsNext(s, c, d), IsNext(s, e, d) PROVE c = e
  <2>1. Position(c) = Position(e)
    BY <1>1, <1>5 DEF IsNext
  <2> QED
    BY <2>1, Places DEF TypeOK
<1>6. \A c, d \in s : IsNext(s, c, d) => MakeChain(s)[c] = d
  BY <1>3, <1>4
<1> QED
  BY <1>2, <1>3, <1>5, <1>6

(* fat_alloc_clusters: the clusters found become a chain of their own.     *)
LEMMA ClaimLinks ==
  ASSUME FiniteFacts, CountInv, TypeOK', LinkInv, NoLeak, NEW f \in Files, NEW s, s \subseteq FreeSet(fat), Claim(f, s),
         pc[f] = "idle", NEW p \in {"add", "undo"}, pc' = [pc EXCEPT ![f] = p],
         i_start' = i_start, link_error' = link_error, io_errors' \in {io_errors, io_errors + 1}
  PROVE  LinkInv' /\ NoLeak'
<1>1. s \subseteq Clusters /\ TypeOK /\ \A c \in s : fat[c] = FAT_ENT_FREE
  BY DEF FreeSet, CountInv
<1>2. PICK first \in s : /\ \A c \in s : Position(first) <= Position(c)
                         /\ held' = [held EXCEPT ![f] = first]
  BY Zenon, ZenonT(60) DEF Claim
<1>3. fat' = MakeChain(s) /\ first \in Clusters /\ first # 0
  BY <1>1, ClusterNumbers DEF Claim
<1>4. held \in [Files -> Clusters \cup {0}] /\ pc \in [Files -> {"idle", "add", "undo", "free"}]
  BY <1>1 DEF TypeOK
<1>5. held'[f] = first /\ \A g \in Files \ {f} : held'[g] = held[g]
  BY <1>2, <1>4
<1>6. io_errors \in Nat
  BY <1>1, FatAllocAssumption DEF TypeOK
<1>7. (io_errors' = 0 => io_errors = 0) /\ (link_error' => io_errors' # 0)
  BY <1>6 DEF LinkInv
<1>8. \A g \in Files : pc'[g] = "idle" <=> held'[g] = 0
  BY Zenon, ZenonT(60), <1>3, <1>4, <1>5 DEF LinkInv
<1>9. CASE link_error
  <2>1. link_error' /\ io_errors' # 0
    BY <1>7, <1>9
  <2> QED
    BY <1>8, <2>1 DEF LinkInv, NoLeak
<1>10. CASE ~link_error
  <2>1. Linear
    BY <1>10 DEF LinkInv
  <2>2. \A c \in Clusters \ s : fat'[c] = fat[c]
    BY <1>1, <1>3, MadeLinks
  <2>3. \A c \in s : fat'[c] \in s \cup {FAT_ENT_EOF} /\ (fat'[c] \in Clusters => IsNext(s, c, fat'[c]))
    BY <1>1, <1>3, MadeLinks
  <2>4. \A c \in Clusters \ s : fat'[c] \in Clusters => fat'[c] \notin s
    BY <1>1, <2>1, <2>2 DEF Linear
  <2>5. \A c \in Clusters : fat[c] # FAT_ENT_FREE => c \notin s /\ fat'[c] # FAT_ENT_FREE
    BY <1>1, <2>2
  <2>6. \A c \in s : fat'[c] # FAT_ENT_FREE
    BY <1>1, <2>3, ClusterNumbers
  <2>7. Linear'
    <3>1. ASSUME NEW c \in Clusters, NEW d \in Clusters, fat'[c] \in Clusters, fat'[d] = fat'[c] PROVE c = d
      <4>1. CASE c \in s
        <5>1. fat'[c] \in s /\ d \in s
          BY <2>3, <2>4, <3>1, <4>1, ClusterNumbers
        <5> QED
          BY <1>1, <2>3, <3>1, <4>1, <5>1, MadeLinks
      <4>2. CASE c \notin s
        <5>1. d \notin s
          BY <2>3, <2>4, <3>1, <4>2, ClusterNumbers
        <5> QED
          BY <2>1, <2>2, <3>1, <4>2, <5>1 DEF Linear
      <4> QED
        BY <4>1, <4>2
    <3>2. ASSUME NEW c \in Clusters, fat'[c] \in Clusters PROVE fat'[fat'[c]] # FAT_ENT_FREE
      <4>1. CASE c \in s
        BY <2>3, <2>6, <3>2, <4>1, ClusterNumbers
      <4>2. CASE c \notin s
        BY <2>1, <2>2, <2>4, <3>2, <4>2 DEF Linear
      <4> QED
        BY <4>1, <4>2
    <3> QED
      BY <3>1, <3>2 DEF Linear
  <2>8. Head(first)'
    <3>1. ASSUME NEW c \in Clusters, fat'[c] = first PROVE FALSE
      <4>1. c \in s
        BY <2>4, <3>1, <1>3
      <4>2. Position(c) < Position(first) /\ Position(first) <= Position(c)
        BY <1>2, <1>3, <2>3, <3>1, <4>1 DEF IsNext
      <4>3. Position(c) \in Int /\ Position(first) \in Int
        BY <1>1, <1>3, Places DEF TypeOK
      <4> QED
        BY <4>2, <4>3
    <3> QED
      BY <1>3, <2>6, <3>1 DEF Head, NoPred
  <2>9. ASSUME NEW h, Head(h) PROVE Head(h)' /\ h # first
    <3>1. h \in Clusters /\ h \notin s /\ fat'[h] # FAT_ENT_FREE
      BY <2>5, <2>9 DEF Head
    <3>2. ASSUME NEW c \in Clusters, fat'[c] = h PROVE FALSE
      BY <2>2, <2>3, <2>9, <3>1, <3>2, ClusterNumbers DEF Head, NoPred
    <3> QED
      BY <3>1, <3>2 DEF Head, NoPred
  <2>10. \A g \in Files : (i_start[g] # 0 => Head(i_start[g])) /\ (held[g] # 0 => Head(held[g]))
    BY <1>10 DEF LinkInv
  <2>11. LinkInv'
    <3>1. ASSUME NEW g \in Files, i_start'[g] # 0
          PROVE  /\ Head(i_start[g])'
                 /\ \A k \in Files : held'[k] # i_start'[g] /\ (k # g => i_start'[k] # i_start'[g])
      <4>1. Head(i_start[g]) /\ i_start'[g] = i_start[g]
        BY <2>10, <3>1
      <4>2. i_start[g] # first /\ Head(i_start[g])'
        <5>1. PICK h : h = i_start[g]
          OBVIOUS
        <5>2. Head(h)' /\ h # first
          BY <2>9, <4>1, <5>1
        <5> QED
          BY <4>1, <5>1, <5>2
      <4> QED
        BY <1>5, <1>10, <3>1, <4>1, <4>2 DEF LinkInv
    <3>2. ASSUME NEW g \in Files, held'[g] # 0
          PROVE  Head(held[g])' /\ \A k \in Files \ {g} : held'[k] # held'[g]
      <4>1. CASE g = f
        <5>1. \A k \in Files \ {g} : held[k] # first
          BY <1>3, <2>9, <2>10
        <5> QED
          BY <1>5, <2>8, <4>1, <5>1
      <4>2. CASE g # f
        <5>1. Head(held[g]) /\ held'[g] = held[g]
          BY <1>5, <2>10, <3>2, <4>2
        <5>2. PICK h : h = held[g]
          OBVIOUS
        <5>3. Head(h)' /\ h # first
          BY <2>9, <5>1, <5>2
        <5> QED
          BY <1>5, <1>10, <3>2, <4>2, <5>1, <5>2, <5>3 DEF LinkInv
      <4> QED
        BY <4>1, <4>2
    <3> QED
      BY <1>7, <1>8, <2>7, <3>1, <3>2 DEF LinkInv
  <2>12. s \subseteq Chain(first)'
    <3>1. PICK S : S = Chain(first)'
      OBVIOUS
    <3>2. first \in S /\ \A d \in S : fat'[d] \in Clusters => fat'[d] \in S
      BY <2>7, <2>8, <3>1, ChainNext DEF ChainFact
    <3> SUFFICES ASSUME NEW c0 \in s, c0 \notin S PROVE FALSE
      BY <3>1
    <3> DEFINE T == {Position(c) : c \in s \ S}
    <3>3. T \in SUBSET Nat /\ T # {}
      BY <1>1, Places DEF TypeOK
    <3>4. PICK m \in T : \A k \in T : m <= k
      BY Zenon, ZenonT(60), <3>3, Least
    <3>5. PICK c \in s \ S : Position(c) = m
      BY <3>4
    <3> DEFINE U == {NClusters - Position(d) : d \in {e \in s : Position(e) < Position(c)}}
    <3>6. \A d \in s : Position(d) \in 0 .. NClusters - 1
      BY <1>1, Places DEF TypeOK
    <3>7. first \in s /\ Position(first) < Position(c)
      <4>1. Position(first) <= Position(c) /\ first # c
        BY <1>2, <3>2, <3>5
      <4>2. Position(first) # Position(c)
        BY <1>1, <3>5, <4>1, Places DEF TypeOK
      <4> QED
        BY <3>5, <3>6, <4>1, <4>2
    <3>8. U \in SUBSET Nat /\ U # {}
      BY <3>6, <3>7, FatAllocAssumption
    <3>9. PICK n \in U : \A k \in U : n <= k
      BY Zenon, ZenonT(60), <3>8, Least
    <3>10. PICK d \in s : Position(d) < Position(c) /\ n = NClusters - Position(d)
      BY <3>9
    <3>11. ASSUME NEW e \in s PROVE Position(e) <= Position(d) \/ Position(c) <= Position(e)
      <4>1. CASE Position(e) < Position(c)
        <5>1. NClusters - Position(e) \in U
          BY <4>1
        <5>2. NClusters - Position(d) <= NClusters - Position(e)
          BY <3>9, <3>10, <5>1
        <5> QED
          BY <3>6, <3>10, <5>2, FatAllocAssumption
      <4> QED
        BY <3>5, <3>6, <4>1
    <3>12. IsNext(s, d, c)
      BY <3>10, <3>11 DEF IsNext
    <3>13. fat'[d] = c
      BY <1>1, <1>3, <3>5, <3>10, <3>12, MadeLinks
    <3>14. d \in S
      <4>1. ASSUME d \notin S PROVE FALSE
        <5>1. Position(d) \in T
          BY <3>10, <4>1
        <5>2. m <= Position(d)
          BY <3>4, <5>1
        <5> QED
          BY <3>5, <3>6, <3>10, <5>2
      <4> QED
        BY <4>1
    <3> QED
      BY <1>1, <3>2, <3>5, <3>13, <3>14
  <2>13. ASSUME NEW h, h # 0 => Head(h) PROVE Chain(h) \subseteq Chain(h)'
    <3>1. CASE h = 0
      BY <3>1, NoChain
    <3>2. CASE h # 0
      <4>1. Head(h)'
        BY <2>9, <2>13, <3>2
      <4>2. PICK R : R = {}
        BY Zenon, ZenonT(60)
      <4>3. \A d \in Clusters : fat[d] \in Clusters => fat'[d] = fat[d] \/ fat[d] \in R
        BY <2>5, ClusterNumbers, <2>2
      <4>4. \A d \in R \cap Clusters : fat[d] \in Clusters => fat[d] \in R
        BY <4>2
      <4>5. Chain(h) \subseteq Chain(h)' \cup R
        BY <2>7, <4>1, <4>3, <4>4, Grows
      <4> QED
        BY <4>2, <4>5
    <3> QED
      BY <3>1, <3>2
  <2>14. NoLeak'
    <3> SUFFICES ASSUME io_errors' = 0, NEW c \in Clusters, fat'[c] # FAT_ENT_FREE
                 PROVE  \E g \in Files : c \in Chain(i_start[g])' \/ c \in Chain(held[g])'
      BY DEF NoLeak, Owned, FreeSet
    <3>1. CASE c \in s
      BY Zenon, ZenonT(60), <1>5, <2>12, <3>1
    <3>2. CASE c \notin s
      <4>1. PICK g \in Files : c \in Chain(i_start[g]) \/ c \in Chain(held[g])
        BY <1>7, <2>2, <3>2 DEF NoLeak, Owned, FreeSet
      <4>2. PICK a, b : a = i_start[g] /\ b = held[g]
        OBVIOUS
      <4>3. Chain(a) \subseteq Chain(a)' /\ Chain(b) \subseteq Chain(b)'
        BY <2>10, <2>13, <4>2
      <4>4. g # f \/ held[g] = 0
        BY DEF LinkInv
      <4>5. c \in Chain(i_start[g])' \/ c \in Chain(held[g])'
        <5>1. CASE c \in Chain(a)
          <6>1. a = i_start'[g]
            BY <4>2
          <6> QED
            BY <4>3, <5>1, <6>1
        <5>2. CASE c \in Chain(b)
          <6>1. g # f
            BY <4>2, <4>4, <5>2, NoChain
          <6>2. b = held'[g]
            BY <1>5, <4>2, <6>1
          <6> QED
            BY <4>3, <5>2, <6>2
        <5> QED
          BY <4>1, <4>2, <5>1, <5>2
      <4> QED
        BY <4>5
    <3> QED
      BY <3>1, <3>2
  <2> QED
    BY <2>11, <2>14
<1> QED
  BY <1>9, <1>10
=============================================================================

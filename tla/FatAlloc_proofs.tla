--------------------------- MODULE FatAlloc_proofs ---------------------------
(***************************************************************************)
(* For every number of files and clusters: the count of free clusters is   *)
(* exact once it is valid, and so an allocation is refused only for lack   *)
(* of space; FITRIM keeps to free entries; the chains of the files and of  *)
(* the calls that are under way stay disjoint; and no cluster leaks.       *)
(***************************************************************************)
EXTENDS FatTable_proofs

\* The provers that are tried, in turn, on a leaf that names none.
USE SMTT(10), ZenonT(20), SMTT(20), ZenonT(40), SMTT(40)

(* fat_free_clusters: what it frees of the chain in its hands has nothing  *)
(* before it, and is no part of another chain.                             *)
LEMMA FreeLinks ==
  ASSUME FiniteFacts, CountInv, TypeOK', LinkInv, NoLeak, NEW f \in Files, NEW freed, freed \subseteq Chain(held[f]),
         \A c \in Clusters : fat[c] \in freed => c \in freed,
         fat' = [c \in Clusters |-> IF c \in freed THEN FAT_ENT_FREE ELSE fat[c]],
         LetGo(f), pc[f] # "idle", i_start' = i_start, link_error' = link_error,
         \/ io_errors' = io_errors /\ freed = Freeable(held[f])
         \/ io_errors' = io_errors + 1
  PROVE  LinkInv' /\ NoLeak'
<1>1. TypeOK /\ io_errors \in Nat
  BY FatAllocAssumption DEF CountInv, TypeOK
<1>2. held'[f] = 0 /\ pc'[f] = "idle" /\ \A g \in Files \ {f} : held'[g] = held[g] /\ pc'[g] = pc[g]
  BY <1>1 DEF LetGo, TypeOK
<1>3. (io_errors' = 0 => io_errors = 0 /\ freed = Freeable(held[f])) /\ (link_error' => io_errors' # 0)
  BY <1>1 DEF LinkInv
<1>4. \A g \in Files : pc'[g] = "idle" <=> held'[g] = 0
  BY <1>2 DEF LinkInv
<1>5. CASE link_error
  <2>1. link_error' /\ io_errors' # 0
    BY <1>3, <1>5
  <2> QED
    BY <1>4, <2>1 DEF LinkInv, NoLeak
<1>6. CASE ~link_error
  <2>1. Linear /\ fat \in [Clusters -> Clusters \cup {FAT_ENT_FREE, FAT_ENT_EOF}]
    BY <1>1, <1>6 DEF LinkInv, TypeOK
  <2>2. PICK h0 : h0 = held[f]
    OBVIOUS
  <2>3. Head(h0)
    BY <1>6, <2>2 DEF LinkInv
  <2>4. \A c \in Clusters : fat'[c] = IF c \in freed THEN FAT_ENT_FREE ELSE fat[c]
    OBVIOUS
  <2>5. Linear'
    BY <2>1, <2>4, ClusterNumbers DEF Linear
  <2>6. ASSUME NEW h, Head(h), h # h0 PROVE Head(h)'
    <3>1. h \in Chain(h) /\ h \in Clusters /\ fat[h] # FAT_ENT_FREE
      BY <2>1, <2>6, ChainOf DEF Head
    <3>2. h \notin freed
      BY <2>1, <2>2, <2>3, <2>6, <3>1, Apart
    <3> QED
      BY <2>4, <2>6, <3>1, <3>2, ClusterNumbers DEF Head, NoPred
  <2>7. \A g \in Files : /\ i_start[g] # 0 => Head(i_start[g]) /\ i_start[g] # h0
                         /\ held[g] # 0 /\ g # f => Head(held[g]) /\ held[g] # h0
    BY <1>6, <2>2, <2>3, ClusterNumbers DEF LinkInv, Head
  <2>8. LinkInv'
    <3>1. ASSUME NEW g \in Files, i_start'[g] # 0
          PROVE  /\ Head(i_start[g])'
                 /\ \A k \in Files : held'[k] # i_start'[g] /\ (k # g => i_start'[k] # i_start'[g])
      <4>1. PICK h : h = i_start[g]
        OBVIOUS
      <4>2. Head(h)' /\ h = i_start'[g]
        BY <2>6, <2>7, <3>1, <4>1
      <4> QED
        BY <1>2, <1>6, <3>1, <4>2 DEF LinkInv
    <3>2. ASSUME NEW g \in Files, held'[g] # 0
          PROVE  Head(held[g])' /\ \A k \in Files \ {g} : held'[k] # held'[g]
      <4>1. g # f /\ held'[g] = held[g]
        BY <1>2, <3>2
      <4>2. PICK h : h = held[g]
        OBVIOUS
      <4>3. Head(h)' /\ h = held'[g]
        BY <2>6, <2>7, <3>2, <4>1, <4>2
      <4> QED
        BY <1>2, <1>6, <3>2, <4>1, <4>3 DEF LinkInv
    <3> QED
      BY <1>3, <1>4, <2>5, <3>1, <3>2 DEF LinkInv
  <2>9. NoLeak'
    <3> SUFFICES ASSUME io_errors' = 0, NEW c \in Clusters, fat'[c] # FAT_ENT_FREE
                 PROVE  \E g \in Files : c \in Chain(i_start[g])' \/ c \in Chain(held[g])'
      BY DEF NoLeak, Owned, FreeSet
    <3>1. /\ \A d \in Chain(h0) : /\ d \in Clusters /\ fat[d] # FAT_ENT_FREE
                                  /\ fat[d] \in Clusters => fat[d] \in Chain(h0)
      BY <2>1, <2>3, ChainOf
    <3>2. freed = Chain(h0)
      BY <1>3, <2>2, <3>1 DEF Freeable, FreeSet
    <3>3. c \notin freed /\ fat[c] # FAT_ENT_FREE
      BY <2>4
    <3>4. PICK g \in Files : c \in Chain(i_start[g]) \/ c \in Chain(held[g])
      BY <1>3, <3>3 DEF NoLeak, Owned, FreeSet
    <3>5. ASSUME NEW h, Head(h), h # h0 PROVE Chain(h) \subseteq Chain(h)' \cup freed
      <4>1. \A d \in Clusters : fat[d] \in Clusters => fat'[d] = fat[d] \/ fat[d] \in freed
        BY <2>4, <3>1, <3>2
      <4>2. \A d \in freed \cap Clusters : fat[d] \in Clusters => fat[d] \in freed
        BY <3>1, <3>2
      <4>3. Head(h)'
        BY <2>6, <3>5
      <4> QED
        BY <2>5, <4>1, <4>2, <4>3, Grows
    <3>6. CASE c \in Chain(i_start[g])
      <4>1. PICK h : h = i_start[g]
        OBVIOUS
      <4>2. h = i_start'[g] /\ Head(h) /\ h # h0
        BY <2>7, <3>6, <4>1, NoChain
      <4>3. c \in Chain(h)'
        BY <3>3, <3>5, <3>6, <4>1, <4>2
      <4> QED
        BY <4>2, <4>3
    <3>7. CASE c \in Chain(held[g])
      <4>1. PICK h : h = held[g]
        OBVIOUS
      <4>2. g # f
        BY <2>2, <3>2, <3>3, <3>7
      <4>3. h = held'[g] /\ Head(h) /\ h # h0
        BY <1>2, <2>7, <3>7, <4>1, <4>2, NoChain
      <4>4. c \in Chain(h)'
        BY <3>3, <3>5, <3>7, <4>1, <4>3
      <4> QED
        BY <4>3, <4>4
    <3> QED
      BY <3>4, <3>6, <3>7
  <2> QED
    BY <2>8, <2>9
<1> QED
  BY <1>5, <1>6

(* fat_free_clusters frees the whole chain in its hands, or its beginning  *)
(* when an entry cannot be read or written.                                *)
LEMMA FreeHeldLinks ==
  ASSUME FiniteFacts, CountInv, TypeOK', LinkInv, NoLeak, NEW f \in Files, FreeHeld(f) \/ FreeHeldError(f)
  PROVE  LinkInv' /\ NoLeak'
<1>1. TypeOK /\ fat \in [Clusters -> Clusters \cup {FAT_ENT_FREE, FAT_ENT_EOF}] /\ io_errors \in Nat
  BY FatAllocAssumption DEF CountInv, TypeOK
<1>2. /\ pc[f] # "idle" /\ held[f] # 0 /\ LetGo(f) /\ i_start' = i_start /\ link_error' = link_error
      /\ io_errors' \in {io_errors, io_errors + 1}
  BY DEF FreeHeld, FreeHeldError, IoError, errors, LinkInv
<1>3. CASE link_error
  <2>1. link_error' /\ io_errors' # 0
    BY <1>1, <1>2, <1>3 DEF LinkInv
  <2>2. \A g \in Files : pc'[g] = "idle" <=> held'[g] = 0
    BY <1>1, <1>2 DEF LetGo, LinkInv, TypeOK
  <2> QED
    BY <2>1, <2>2 DEF LinkInv, NoLeak
<1>4. CASE ~link_error
  <2>1. Linear /\ Head(held[f])
    BY <1>2, <1>4 DEF LinkInv
  <2>2. Freeable(held[f]) = Chain(held[f]) /\ \A c \in Clusters : fat[c] \in Chain(held[f]) => c \in Chain(held[f])
    BY <1>1, <2>1, ChainOf DEF Freeable, FreeSet
  <2>3. CASE FreeHeld(f)
    <3>1. /\ fat' = [c \in Clusters |-> IF c \in Freeable(held[f]) THEN FAT_ENT_FREE ELSE fat[c]]
          /\ io_errors' = io_errors
      BY <2>3 DEF FreeHeld, FreeClusters, errors
    <3>2. PICK freed : freed = Freeable(held[f])
      OBVIOUS
    <3>3. /\ fat' = [c \in Clusters |-> IF c \in freed THEN FAT_ENT_FREE ELSE fat[c]]
          /\ freed \subseteq Chain(held[f]) /\ \A c \in Clusters : fat[c] \in freed => c \in freed
      BY <2>2, <3>1, <3>2
    <3> QED
      BY <1>2, <3>1, <3>2, <3>3, FreeLinks
  <2>4. CASE FreeHeldError(f)
    <3>1. PICK k \in 0 .. NClusters :
             FreeClusters({Nth(held[f], i) : i \in 0 .. k - 1} \cap Freeable(held[f]))
      BY <2>4 DEF FreeHeldError
    <3>2. PICK freed : freed = {Nth(held[f], i) : i \in 0 .. k - 1} \cap Freeable(held[f])
      BY Zenon, ZenonT(60)
    <3>3. /\ fat' = [c \in Clusters |-> IF c \in freed THEN FAT_ENT_FREE ELSE fat[c]]
          /\ io_errors' = io_errors + 1
      BY <2>4, <3>1, <3>2 DEF FreeHeldError, FreeClusters, IoError
    <3>4. ASSUME NEW c \in Clusters, fat[c] \in freed PROVE c \in freed
      <4>1. PICK i \in 0 .. k - 1 : fat[c] = Nth(held[f], i)
        BY <3>2, <3>4
      <4>2. fat[c] \in Clusters /\ c \in Chain(held[f])
        BY <2>2, <3>2, <3>4 DEF Chain
      <4>3. i # 0
        BY <2>1, <4>1, NthStep DEF Head, NoPred
      <4>4. i \in 1 .. NClusters /\ i - 1 \in 0 .. k - 1
        BY <3>1, <4>1, <4>3, FatAllocAssumption
      <4>5. Nth(held[f], i - 1) \in Clusters /\ fat[Nth(held[f], i - 1)] = fat[c]
        BY <4>1, <4>2, <4>4, NthBack
      <4>6. c = Nth(held[f], i - 1)
        BY <2>1, <4>2, <4>5 DEF Linear
      <4> QED
        BY <2>2, <3>2, <4>2, <4>4, <4>6
    <3>5. freed \subseteq Chain(held[f])
      BY <2>2, <3>2
    <3> QED
      BY <1>2, <3>3, <3>4, <3>5, FreeLinks
  <2> QED
    BY <2>3, <2>4
<1> QED
  BY <1>3, <1>4

(* fat_chain_add: the chain in its hands becomes the end of the file's.    *)
LEMMA AddLinks ==
  ASSUME FiniteFacts, CountInv, TypeOK', LinkInv, NoLeak, NEW f \in Files, ChainAdd(f)
  PROVE  LinkInv' /\ NoLeak'
<1>1. TypeOK /\ fat \in [Clusters -> Clusters \cup {FAT_ENT_FREE, FAT_ENT_EOF}]
      /\ i_start \in [Files -> Clusters \cup {0}]
  BY DEF CountInv, TypeOK
<1>2. /\ pc[f] = "add" /\ held[f] # 0 /\ (i_start[f] # 0 => Ends(i_start[f])) /\ Link(f) /\ LetGo(f)
      /\ io_errors' = io_errors /\ link_error' = link_error
  BY DEF ChainAdd, errors, LinkInv
<1>3. held'[f] = 0 /\ pc'[f] = "idle" /\ \A g \in Files \ {f} : held'[g] = held[g] /\ pc'[g] = pc[g]
  BY <1>1, <1>2 DEF LetGo, TypeOK
<1>4. \A g \in Files : pc'[g] = "idle" <=> held'[g] = 0
  BY <1>3 DEF LinkInv
<1>5. CASE link_error
  BY <1>2, <1>4, <1>5 DEF LinkInv, NoLeak
<1>6. CASE ~link_error
  <2>1. Linear /\ \A g \in Files : (i_start[g] # 0 => Head(i_start[g])) /\ (held[g] # 0 => Head(held[g]))
    BY <1>6 DEF LinkInv
  <2>2. PICK h0 : h0 = held[f]
    OBVIOUS
  <2>3. Head(h0) /\ h0 \in Clusters /\ h0 # 0 /\ fat[h0] # FAT_ENT_FREE /\ NoPred(h0)
    BY <1>2, <2>1, <2>2 DEF Head
  <2>4. CASE i_start[f] = 0
    <3>1. fat' = fat /\ i_start' = [i_start EXCEPT ![f] = h0]
      BY <1>2, <2>2, <2>4 DEF Link
    <3>2. i_start'[f] = h0 /\ \A g \in Files \ {f} : i_start'[g] = i_start[g]
      BY <1>1, <3>1
    <3>3. \A h : (Head(h)' <=> Head(h)) /\ Chain(h)' = Chain(h)
      BY <3>1, SameTable
    <3>4. LinkInv'
      <4>1. ASSUME NEW g \in Files, i_start'[g] # 0
            PROVE  /\ Head(i_start[g])'
                   /\ \A k \in Files : held'[k] # i_start'[g] /\ (k # g => i_start'[k] # i_start'[g])
        <5>1. PICK h : h = i_start'[g]
          OBVIOUS
        <5>2. Head(h)'
          BY <2>1, <2>3, <3>2, <3>3, <4>1, <5>1
        <5> QED
          BY <1>3, <1>6, <2>2, <2>3, <3>2, <4>1, <5>1, <5>2 DEF LinkInv
      <4>2. ASSUME NEW g \in Files, held'[g] # 0
            PROVE  Head(held[g])' /\ \A k \in Files \ {g} : held'[k] # held'[g]
        <5>1. PICK h : h = held'[g]
          OBVIOUS
        <5>2. Head(h)'
          BY <1>3, <2>1, <3>3, <4>2, <5>1
        <5> QED
          BY <1>3, <1>6, <4>2, <5>1, <5>2 DEF LinkInv
      <4>3. Linear'
        BY <2>1, <3>1, SameTable
      <4> QED
        BY <1>2, <1>4, <4>1, <4>2, <4>3, <1>6 DEF LinkInv
    <3>5. NoLeak'
      <4> SUFFICES ASSUME io_errors = 0, NEW c \in Clusters, fat[c] # FAT_ENT_FREE
                   PROVE  \E g \in Files : c \in Chain(i_start[g])' \/ c \in Chain(held[g])'
        BY <1>2, <3>1 DEF NoLeak, Owned, FreeSet
      <4>1. PICK g \in Files : c \in Chain(i_start[g]) \/ c \in Chain(held[g])
        BY DEF NoLeak, Owned, FreeSet
      <4>2. CASE g = f
        <5>1. c \in Chain(h0)
          BY <2>2, <2>4, <4>1, <4>2, NoChain
        <5>2. c \in Chain(h0)'
          BY <3>3, <5>1
        <5> QED
          BY <3>2, <5>2
      <4>3. CASE g # f
        <5>1. PICK a, b : a = i_start[g] /\ b = held[g]
          OBVIOUS
        <5>2. a = i_start'[g] /\ b = held'[g]
          BY <1>3, <3>2, <4>3, <5>1
        <5>3. c \in Chain(a)' \/ c \in Chain(b)'
          BY <3>3, <4>1, <5>1
        <5> QED
          BY <5>2, <5>3
      <4> QED
        BY <4>2, <4>3
    <3> QED
      BY <3>4, <3>5
  <2>5. CASE i_start[f] # 0
    <3>1. PICK e : e = Last(f)
      OBVIOUS
    <3>2. e \in Chain(i_start[f]) /\ fat[e] = FAT_ENT_EOF /\ e \in Clusters
      BY <1>2, <2>5, <3>1 DEF Last, Ends, Chain
    <3>3. fat' = [fat EXCEPT ![e] = h0] /\ i_start' = i_start
      BY <1>2, <2>2, <2>5, <3>1 DEF Link
    <3>4. fat'[e] = h0 /\ \A c \in Clusters \ {e} : fat'[c] = fat[c]
      BY <1>1, <3>2, <3>3
    <3>5. \A c \in Clusters : fat[c] # FAT_ENT_FREE => fat'[c] # FAT_ENT_FREE
      BY <2>3, <3>4, ClusterNumbers
    <3>6. \A c \in Clusters : fat[c] \in Clusters => fat'[c] = fat[c]
      BY <3>2, <3>4, ClusterNumbers
    <3>7. Linear'
      <4>1. ASSUME NEW c \in Clusters, NEW d \in Clusters, fat'[c] \in Clusters, fat'[d] = fat'[c] PROVE c = d
        BY <2>1, <2>3, <3>4, <4>1 DEF Linear, NoPred
      <4>2. ASSUME NEW c \in Clusters, fat'[c] \in Clusters PROVE fat'[fat'[c]] # FAT_ENT_FREE
        BY <2>1, <2>3, <3>4, <3>5, <4>2 DEF Linear
      <4> QED
        BY <4>1, <4>2 DEF Linear
    <3>8. ASSUME NEW h, Head(h), h # h0 PROVE Head(h)'
      BY <3>4, <3>5, <3>8 DEF Head, NoPred
    <3>9. \A g \in Files : /\ i_start[g] # 0 => Head(i_start[g]) /\ i_start[g] # h0
                           /\ held[g] # 0 /\ g # f => Head(held[g]) /\ held[g] # h0
      BY <1>6, <2>1, <2>2, <2>3 DEF LinkInv
    <3>10. LinkInv'
      <4>1. ASSUME NEW g \in Files, i_start'[g] # 0
            PROVE  /\ Head(i_start[g])'
                   /\ \A k \in Files : held'[k] # i_start'[g] /\ (k # g => i_start'[k] # i_start'[g])
        <5>1. PICK h : h = i_start'[g]
          OBVIOUS
        <5>2. Head(h)'
          BY <3>3, <3>8, <3>9, <4>1, <5>1
        <5> QED
          BY <1>3, <1>6, <3>3, <4>1, <5>1, <5>2 DEF LinkInv
      <4>2. ASSUME NEW g \in Files, held'[g] # 0
            PROVE  Head(held[g])' /\ \A k \in Files \ {g} : held'[k] # held'[g]
        <5>1. PICK h : h = held'[g]
          OBVIOUS
        <5>2. Head(h)'
          BY <1>3, <3>8, <3>9, <4>2, <5>1
        <5> QED
          BY <1>3, <1>6, <4>2, <5>1, <5>2 DEF LinkInv
      <4> QED
        BY <1>2, <1>4, <3>7, <4>1, <4>2, <1>6 DEF LinkInv
    <3>11. ASSUME NEW h, Head(h)' PROVE Chain(h) \subseteq Chain(h)'
      <4>1. PICK R : R = {}
        BY Zenon, ZenonT(60)
      <4>2. \A d \in Clusters : fat[d] \in Clusters => fat'[d] = fat[d] \/ fat[d] \in R
        BY <3>6
      <4>3. \A d \in R \cap Clusters : fat[d] \in Clusters => fat[d] \in R
        BY <4>1
      <4>4. Chain(h) \subseteq Chain(h)' \cup R
        BY <3>7, <3>11, <4>2, <4>3, Grows
      <4> QED
        BY <4>1, <4>4
    <3>12. PICK a : a = i_start[f]
      OBVIOUS
    <3>13. PICK S : S = Chain(a)'
      OBVIOUS
    <3>14. Head(a)' /\ Chain(a) \subseteq S
      BY <2>5, <3>8, <3>9, <3>11, <3>12, <3>13
    <3>15. \A d \in S : fat'[d] \in Clusters => fat'[d] \in S
      BY <3>7, <3>13, <3>14, ChainNext DEF ChainFact
    <3>16. h0 \in S
      BY <2>3, <3>2, <3>4, <3>12, <3>14, <3>15
    <3>17. Chain(h0) \subseteq S
      BY <3>6, <3>15, <3>16, Within
    <3>18. NoLeak'
      <4> SUFFICES ASSUME io_errors = 0, NEW c \in Clusters, fat'[c] # FAT_ENT_FREE
                   PROVE  \E g \in Files : c \in Chain(i_start[g])' \/ c \in Chain(held[g])'
        BY <1>2 DEF NoLeak, Owned, FreeSet
      <4>1. fat[c] # FAT_ENT_FREE
        BY <3>2, <3>4, ClusterNumbers
      <4>2. PICK g \in Files : c \in Chain(i_start[g]) \/ c \in Chain(held[g])
        BY <4>1 DEF NoLeak, Owned, FreeSet
      <4>3. CASE c \in S
        <5>1. a = i_start'[f]
          BY <3>3, <3>12
        <5> QED
          BY <3>13, <4>3, <5>1
      <4>4. CASE c \in Chain(i_start[g])
        <5>1. PICK h : h = i_start[g]
          OBVIOUS
        <5>2. Head(h)' /\ h = i_start'[g]
          BY <3>3, <3>8, <3>9, <4>4, <5>1, NoChain
        <5>3. c \in Chain(h)'
          BY <3>11, <4>4, <5>1, <5>2
        <5> QED
          BY <5>2, <5>3
      <4>5. CASE c \in Chain(held[g]) /\ g # f
        <5>1. PICK h : h = held[g]
          OBVIOUS
        <5>2. Head(h)' /\ h = held'[g]
          BY <1>3, <3>8, <3>9, <4>5, <5>1, NoChain
        <5>3. c \in Chain(h)'
          BY <3>11, <4>5, <5>1, <5>2
        <5> QED
          BY <5>2, <5>3
      <4>6. CASE c \in Chain(held[g]) /\ g = f
        BY <2>2, <3>17, <4>3, <4>6
      <4> QED
        BY <4>2, <4>4, <4>5, <4>6
    <3> QED
      BY <3>10, <3>18
  <2> QED
    BY <2>4, <2>5
<1> QED
  BY <1>5, <1>6

(* fat_free: the rest of a chain starts a chain of its own, in its hands;  *)
(* or is lost, when the end mark cannot be written.                        *)
LEMMA CutLinks ==
  ASSUME FiniteFacts, CountInv, TypeOK', LinkInv, NoLeak, NEW f \in Files, NEW skip \in 0 .. NClusters - 1,
         Truncate(f, skip) \/ TruncateError(f, skip)
  PROVE  LinkInv' /\ NoLeak'
<1>1. TypeOK /\ fat \in [Clusters -> Clusters \cup {FAT_ENT_FREE, FAT_ENT_EOF}]
      /\ i_start \in [Files -> Clusters \cup {0}] /\ io_errors \in Nat
  BY FatAllocAssumption DEF CountInv, TypeOK
<1>2. PICK t : t = FreeStart(f, skip)
  OBVIOUS
<1>3. /\ pc[f] = "idle" /\ held[f] = 0 /\ i_start[f] # 0 /\ t \in Clusters /\ WriteEof(f, skip)
      /\ link_error' = link_error /\ io_errors' \in {io_errors, io_errors + 1}
      /\ skip # 0 => Nth(i_start[f], skip - 1) \in Clusters
  BY <1>2 DEF Truncate, TruncateError, CanCut, errors, IoError, LinkInv
<1>4. /\ \A g \in Files \ {f} : held'[g] = held[g] /\ pc'[g] = pc[g] /\ i_start'[g] = i_start[g]
      /\ \/ /\ held'[f] = t /\ pc'[f] = "free" /\ i_start'[f] = (IF skip = 0 THEN 0 ELSE i_start[f])
            /\ io_errors' = io_errors
         \/ held'[f] = 0 /\ pc'[f] = "idle" /\ i_start'[f] = i_start[f] /\ skip # 0 /\ io_errors' = io_errors + 1
  BY <1>1, <1>2, <1>3 DEF Truncate, TruncateError, IoError, errors, TypeOK
<1>5. \A g \in Files : pc'[g] = "idle" <=> held'[g] = 0
  BY Zenon, ZenonT(60), <1>3, <1>4, ClusterNumbers DEF LinkInv
<1>0. link_error => io_errors # 0
  BY Zenon, ZenonT(60) DEF LinkInv
<1>6. (io_errors' = 0 => io_errors = 0 /\ held'[f] = t) /\ (link_error' => io_errors' # 0)
  BY <1>0, <1>1, <1>3, <1>4
<1>7. CASE link_error
  <2>1. link_error' /\ io_errors' # 0
    BY <1>3, <1>6, <1>7
  <2> QED
    BY <1>5, <2>1 DEF LinkInv, NoLeak
<1>8. CASE ~link_error
  <2>1. Linear /\ \A g \in Files : (i_start[g] # 0 => Head(i_start[g])) /\ (held[g] # 0 => Head(held[g]))
    BY <1>8 DEF LinkInv
  <2>0. /\ \A g, k \in Files : i_start[g] # 0 => held[k] # i_start[g]
        /\ \A g, k \in Files : held[g] # 0 /\ k # g => held[k] # held[g]
    BY Zenon, ZenonT(60), <1>8 DEF LinkInv
  <2>2. CASE skip = 0
    <3>1. fat' = fat /\ t = i_start[f] /\ held'[f] = t /\ i_start'[f] = 0 /\ io_errors' = io_errors
      BY Zenon, ZenonT(60), <1>2, <1>3, <1>4, <2>2 DEF WriteEof, FreeStart
    <3>2. \A h : (Head(h)' <=> Head(h)) /\ Chain(h)' = Chain(h)
      BY Zenon, ZenonT(60), <3>1, SameTable
    <3>3. LinkInv'
      <4>1. ASSUME NEW g \in Files, i_start'[g] # 0
            PROVE  /\ Head(i_start[g])'
                   /\ \A k \in Files : held'[k] # i_start'[g] /\ (k # g => i_start'[k] # i_start'[g])
        <5>1. PICK h : h = i_start'[g]
          OBVIOUS
        <5>2. Head(h)' /\ g # f /\ h = i_start[g]
          BY <1>4, <2>1, <3>1, <3>2, <4>1, <5>1
        <5> QED
          BY <1>4, <1>8, <3>1, <4>1, <5>1, <5>2 DEF LinkInv
      <4>2. ASSUME NEW g \in Files, held'[g] # 0
            PROVE  Head(held[g])' /\ \A k \in Files \ {g} : held'[k] # held'[g]
        <5>1. PICK h : h = held'[g]
          OBVIOUS
        <5>2. Head(h)'
          BY <1>3, <1>4, <2>1, <3>1, <3>2, <4>2, <5>1
        <5>3. ASSUME NEW k \in Files \ {g}, held'[k] = h
              PROVE  FALSE
          <6>1. CASE g = f
            BY <1>3, <1>4, <2>0, <3>1, <5>1, <5>3, <6>1
          <6>2. CASE k = f
            BY <1>3, <1>4, <2>0, <3>1, <5>1, <5>3, <6>2
          <6>3. CASE g # f /\ k # f
            BY <1>4, <2>0, <4>2, <5>1, <5>3, <6>3
          <6> QED
            BY <6>1, <6>2, <6>3
        <5> QED
          BY Zenon, ZenonT(60), <5>1, <5>2, <5>3
      <4>3. Linear'
        BY <2>1, <3>1, SameTable
      <4> QED
        BY <1>5, <1>6, <4>1, <4>2, <4>3 DEF LinkInv
    <3>4. NoLeak'
      <4> SUFFICES ASSUME io_errors = 0, NEW c \in Clusters, fat[c] # FAT_ENT_FREE
                   PROVE  \E g \in Files : c \in Chain(i_start[g])' \/ c \in Chain(held[g])'
        BY <3>1 DEF NoLeak, Owned, FreeSet
      <4>1. PICK g \in Files : c \in Chain(i_start[g]) \/ c \in Chain(held[g])
        BY DEF NoLeak, Owned, FreeSet
      <4>2. CASE g = f
        <5>1. c \in Chain(t)
          BY <1>3, <3>1, <4>1, <4>2, NoChain
        <5>2. c \in Chain(t)'
          BY <3>2, <5>1
        <5> QED
          BY <3>1, <5>2
      <4>3. CASE g # f
        <5>1. PICK a, b : a = i_start[g] /\ b = held[g]
          OBVIOUS
        <5>2. a = i_start'[g] /\ b = held'[g]
          BY <1>4, <4>3, <5>1
        <5>3. c \in Chain(a)' \/ c \in Chain(b)'
          BY <3>2, <4>1, <5>1
        <5> QED
          BY <5>2, <5>3
      <4> QED
        BY <4>2, <4>3
    <3> QED
      BY <3>3, <3>4
  <2>3. CASE skip # 0
    <3>1. PICK e : e = Nth(i_start[f], skip - 1)
      OBVIOUS
    <3>2. e \in Clusters /\ fat[e] = t /\ fat' = [fat EXCEPT ![e] = FAT_ENT_EOF]
      BY <1>2, <1>3, <2>3, <3>1 DEF WriteEof, FreeStart
    <3>3. fat'[e] = FAT_ENT_EOF /\ \A c \in Clusters \ {e} : fat'[c] = fat[c]
      BY <1>1, <3>2
    <3>4. \A g \in Files : i_start'[g] = i_start[g]
      BY <1>4, <2>3
    <3>5. \A c \in Clusters : fat[c] # FAT_ENT_FREE <=> fat'[c] # FAT_ENT_FREE
      BY <1>3, <3>2, <3>3, ClusterNumbers
    <3>6. Linear'
      BY <2>1, <3>2, <3>3, <3>5, ClusterNumbers DEF Linear
    <3>7. ASSUME NEW h, Head(h) PROVE Head(h)' /\ h # t
      BY <3>2, <3>3, <3>5, <3>7, ClusterNumbers DEF Head, NoPred
    <3>8. Head(t)'
      <4>1. fat'[t] # FAT_ENT_FREE
        BY <1>3, <2>1, <3>2, <3>5 DEF Linear
      <4>2. ASSUME NEW c \in Clusters, fat'[c] = t PROVE FALSE
        BY <1>3, <2>1, <3>2, <3>3, <4>2, ClusterNumbers DEF Linear
      <4> QED
        BY <1>3, <4>1, <4>2 DEF Head, NoPred
    <3>9. LinkInv'
      <4>1. ASSUME NEW g \in Files, i_start'[g] # 0
            PROVE  /\ Head(i_start[g])'
                   /\ \A k \in Files : held'[k] # i_start'[g] /\ (k # g => i_start'[k] # i_start'[g])
        <5>1. PICK h : h = i_start'[g]
          OBVIOUS
        <5>2. Head(h)' /\ h # t /\ h # 0 /\ h = i_start[g]
          BY <2>1, <3>4, <3>7, <4>1, <5>1
        <5> QED
          BY <1>4, <1>8, <3>4, <4>1, <5>1, <5>2 DEF LinkInv
      <4>2. ASSUME NEW g \in Files, held'[g] # 0
            PROVE  Head(held[g])' /\ \A k \in Files \ {g} : held'[k] # held'[g]
        <5>1. PICK h : h = held'[g]
          OBVIOUS
        <5>2. CASE g = f
          <6>1. h = t /\ Head(h)'
            BY <1>4, <3>8, <4>2, <5>1, <5>2
          <6>2. \A k \in Files \ {g} : held'[k] # t
            BY <1>3, <1>4, <2>1, <3>7, <5>2, ClusterNumbers
          <6> QED
            BY <5>1, <6>1, <6>2
        <5>3. CASE g # f
          <6>1. h = held[g] /\ Head(h)' /\ h # t
            BY <1>4, <2>1, <3>7, <4>2, <5>1, <5>3
          <6> QED
            BY <1>3, <1>4, <1>8, <4>2, <5>1, <5>3, <6>1 DEF LinkInv
        <5> QED
          BY <5>2, <5>3
      <4> QED
        BY <1>5, <1>6, <3>6, <4>1, <4>2 DEF LinkInv
    <3>10. NoLeak'
      <4> SUFFICES ASSUME io_errors' = 0, NEW c \in Clusters, fat'[c] # FAT_ENT_FREE
                   PROVE  \E g \in Files : c \in Chain(i_start[g])' \/ c \in Chain(held[g])'
        BY DEF NoLeak, Owned, FreeSet
      <4>1. io_errors = 0 /\ held'[f] = t /\ fat[c] # FAT_ENT_FREE
        BY <1>6, <3>5
      <4>2. PICK g \in Files : c \in Chain(i_start[g]) \/ c \in Chain(held[g])
        BY <4>1 DEF NoLeak, Owned, FreeSet
      <4>3. PICK R : R = Chain(t)'
        OBVIOUS
      <4>4. t \in R /\ \A d \in R : fat'[d] \in Clusters => fat'[d] \in R
        BY <3>6, <3>8, <4>3, ChainNext DEF ChainFact
      <4>5. ASSUME NEW h, Head(h) PROVE Chain(h) \subseteq Chain(h)' \cup R
        <5>1. \A d \in Clusters : fat[d] \in Clusters => fat'[d] = fat[d] \/ fat[d] \in R
          BY <3>2, <3>3, <4>4
        <5>2. \A d \in R \cap Clusters : fat[d] \in Clusters => fat[d] \in R
          BY <3>2, <3>3, <4>4
        <5>3. Head(h)'
          BY <3>7, <4>5
        <5> QED
          BY <3>6, <5>1, <5>2, <5>3, Grows
      <4>6. CASE c \in R
        BY <4>1, <4>3, <4>6
      <4>7. CASE c \in Chain(i_start[g]) /\ c \notin R
        <5>1. PICK h : h = i_start[g]
          OBVIOUS
        <5>2. Head(h) /\ h = i_start'[g]
          BY <2>1, <3>4, <4>7, <5>1, NoChain
        <5>3. c \in Chain(h)'
          BY <4>5, <4>7, <5>1, <5>2
        <5> QED
          BY <5>2, <5>3
      <4>8. CASE c \in Chain(held[g]) /\ c \notin R
        <5>1. PICK h : h = held[g]
          OBVIOUS
        <5>2. g # f
          BY <1>3, <4>8, NoChain
        <5>3. Head(h) /\ h = held'[g]
          BY <1>4, <2>1, <4>8, <5>1, <5>2, NoChain
        <5>4. c \in Chain(h)'
          BY <4>5, <4>8, <5>1, <5>3
        <5> QED
          BY <5>3, <5>4
      <4> QED
        BY <4>2, <4>6, <4>7, <4>8
    <3> QED
      BY <3>9, <3>10
  <2> QED
    BY <2>2, <2>3
<1> QED
  BY <1>7, <1>8

(* The invariant of the table.                                             *)
TableInv == CountInv /\ LinkInv /\ NoLeak

(* Initially every cluster is free.                                        *)
LEMMA TableInit == Init => TableInv
<1> SUFFICES ASSUME Init PROVE TableInv
  OBVIOUS
<1>1. \A c \in Clusters : fat[c] = FAT_ENT_FREE /\ fat[c] \notin Clusters
  BY ClusterNumbers DEF Init
<1>2. NoLeak
  BY <1>1 DEF NoLeak, FreeSet
<1>3. Linear
  BY <1>1 DEF Linear
<1>4. LinkInv
  BY <1>3 DEF LinkInv, Init
<1> QED
  BY <1>2, <1>4, CountInit DEF TableInv

(* Every step of a call on a file.                                         *)
LEMMA FileLinks ==
  ASSUME FiniteFacts, CountInv, TypeOK', LinkInv, NoLeak, NEW f \in Files, FileStep(f)
  PROVE  LinkInv' /\ NoLeak'
<1>1. TypeOK /\ ChainsDisjoint
  BY DisjointFromLinks DEF CountInv
<1>2. ASSUME NEW n \in 1 .. MaxNr,
             AllocNoSpace(f, n) \/ Alloc(f, n) \/ AllocExhausted(f, n) \/ AllocError(f, n)
      PROVE  LinkInv' /\ NoLeak'
  <2>1. pc[f] = "idle" /\ i_start' = i_start /\ link_error' = link_error
        /\ io_errors' \in {io_errors, io_errors + 1}
    BY <1>2 DEF AllocNoSpace, Alloc, AllocExhausted, AllocError, errors, IoError
  <2>2. \/ fat' = fat /\ pc' = pc /\ held' = held
        \/ \E s \in SUBSET FreeSet(fat), p \in {"add", "undo"} : Claim(f, s) /\ pc' = [pc EXCEPT ![f] = p]
    BY Zenon, ZenonT(60), <1>2 DEF AllocNoSpace, Alloc, AllocExhausted, AllocError, table, Found
  <2>3. CASE fat' = fat /\ pc' = pc /\ held' = held
    BY <1>1, <2>1, <2>3, LinksKept
  <2>4. ASSUME NEW s \in SUBSET FreeSet(fat), NEW p \in {"add", "undo"}, Claim(f, s), pc' = [pc EXCEPT ![f] = p]
        PROVE  LinkInv' /\ NoLeak'
    BY Zenon, ZenonT(60), <2>1, <2>4, ClaimLinks
  <2> QED
    BY <2>2, <2>3, <2>4
<1>3. CASE ChainAddError(f)
  <2>1. /\ fat' = fat /\ i_start' = i_start /\ held' = held /\ link_error' = link_error
        /\ pc[f] = "add" /\ pc' = [pc EXCEPT ![f] = "undo"] /\ io_errors' \in {io_errors, io_errors + 1}
    BY <1>3 DEF ChainAddError, table, IoError
  <2>2. \A g \in Files : pc'[g] = "idle" <=> pc[g] = "idle"
    BY <1>1, <2>1 DEF TypeOK
  <2> QED
    BY <1>1, <2>1, <2>2, LinksKept
<1>4. CASE ChainAddWriteError(f)
  <2>1. /\ held' = held /\ link_error' /\ io_errors' = io_errors + 1
        /\ pc[f] = "add" /\ pc' = [pc EXCEPT ![f] = "undo"]
    BY <1>4 DEF ChainAddWriteError, IoError
  <2>2. \A g \in Files : pc'[g] = "idle" <=> held'[g] = 0
    BY <1>1, <2>1 DEF TypeOK, LinkInv
  <2>3. io_errors' # 0
    BY <1>1, <2>1, FatAllocAssumption DEF TypeOK
  <2> QED
    BY Zenon, ZenonT(60), <2>1, <2>2, <2>3 DEF LinkInv, NoLeak
<1> QED
  BY <1>2, <1>3, <1>4, AddLinks, FreeHeldLinks, CutLinks DEF FileStep

(* Every step keeps the invariant.                                         *)
LEMMA TableStep ==
  ASSUME FiniteFacts
  PROVE  TableInv /\ [Next]_vars => TableInv'
<1> SUFFICES ASSUME TableInv, [Next]_vars PROVE TableInv'
  OBVIOUS
<1>1. CountInv /\ LinkInv /\ NoLeak /\ CountInv' /\ TypeOK' /\ TypeOK
  BY CountStep DEF TableInv, CountInv
<1>2. ASSUME NEW f \in Files, FileStep(f) PROVE LinkInv' /\ NoLeak'
  BY <1>1, <1>2, FileLinks
<1>3. CASE CountFree \/ TrimStep \/ UNCHANGED vars
  <2>1. fat' = fat /\ i_start' = i_start /\ held' = held /\ pc' = pc /\ link_error' = link_error
        /\ io_errors' = io_errors
    BY <1>3 DEF CountFree, TrimStep, TrimStart, TrimEntry, TrimLock, TrimEnd, vars, table, threads, errors
  <2> QED
    BY <1>1, <2>1, LinksKept DEF TableInv
<1> QED
  BY <1>1, <1>2, <1>3 DEF Next, TableInv

-----------------------------------------------------------------------------
\* The library of finite sets.
FST == INSTANCE FiniteSetTheorems

(* Its operators are those of the model.                                   *)
LEMMA SameCount == \A S : (IsFiniteSet(S) <=> FST!IsFiniteSet(S)) /\ Cardinality(S) = FST!Cardinality(S)
BY DEF IsFiniteSet, FST!IsFiniteSet, Cardinality, FST!Cardinality

(* So the facts hold.                                                      *)
LEMMA FiniteFactsHold == FiniteFacts
<1>1. ASSUME NEW T \in SUBSET Nat, T # {} PROVE \E x \in T : \A y \in T : x <= y
  <2>1. PICK R : R = FST!OpToRel(<, Nat)
    BY Zenon, ZenonT(60)
  <2>2. FST!IsWellFoundedOn(R, Nat)
    BY <2>1, FST!NatLessThanWellFounded, Zenon, ZenonT(60)
  <2>3. \E x \in T : \A y \in T : ~ (<<y, x>> \in R)
    BY <1>1, <2>2, FST!WFMin, Zenon, ZenonT(60)
  <2>4. R = {ss \in Nat \X Nat : ss[1] < ss[2]}
    BY <2>1 DEF FST!OpToRel
  <2>5. \A x, y \in Nat : y < x => <<y, x>> \in R
    BY <2>4
  <2>6. PICK x \in T : \A y \in T : ~ (<<y, x>> \in R)
    BY <2>3, Zenon, ZenonT(60)
  <2>7. ASSUME NEW y \in T PROVE x <= y
    <3>1. x \in Nat /\ y \in Nat
      BY <1>1, <2>6, <2>7, Zenon, ZenonT(60)
    <3>2. ~ (y < x)
      BY <2>5, <2>6, <2>7, <3>1, Zenon, ZenonT(60)
    <3> QED
      BY <3>1, <3>2
  <2> QED
    BY <2>6, <2>7, Zenon, ZenonT(60)
<1>2. FST!IsFiniteSet(Clusters) /\ FST!Cardinality(Clusters) = NClusters
  BY FatAllocAssumption, FST!FS_Interval DEF Clusters, max_cluster, FAT_START_ENT
<1>3. FST!IsFiniteSet(0 .. NClusters) /\ FST!Cardinality(0 .. NClusters) = NClusters + 1
  BY FatAllocAssumption, FST!FS_Interval
<1>4. ASSUME NEW w \in [0 .. NClusters -> Clusters]
      PROVE  \E i, j \in 0 .. NClusters : i # j /\ w[i] = w[j]
  <2>1. PICK S, T, v : S = 0 .. NClusters /\ T = Clusters /\ v = w
    OBVIOUS
  <2>2. FST!Cardinality(Clusters) < FST!Cardinality(0 .. NClusters)
    BY <1>2, <1>3, FatAllocAssumption
  <2>3. v \in [S -> T] /\ FST!IsFiniteSet(S) /\ FST!IsFiniteSet(T) /\ FST!Cardinality(T) < FST!Cardinality(S)
    BY <1>2, <1>3, <2>1, <2>2, Zenon, ZenonT(60)
  <2>4. \E x, y \in S : x # y /\ v[x] = v[y]
    BY <2>3, FST!FS_PigeonHole
  <2> QED
    BY <2>1, <2>4, Zenon, ZenonT(60)
<1>5. IsFiniteSet(Clusters) /\ Cardinality({}) = 0
  BY <1>2, SameCount, FST!FS_EmptySet
<1>6. ASSUME NEW S, IsFiniteSet(S), NEW T \in SUBSET S
      PROVE  IsFiniteSet(T) /\ Cardinality(T) \in Nat /\ Cardinality(T) <= Cardinality(S)
  BY <1>6, SameCount, FST!FS_Subset, FST!FS_CardinalityType
<1>7. ASSUME NEW S, NEW T, IsFiniteSet(S)
      PROVE  Cardinality(S \ T) = Cardinality(S) - Cardinality(S \cap T)
  BY <1>7, SameCount, FST!FS_Difference
<1>8. ASSUME NEW S, NEW T, IsFiniteSet(S), IsFiniteSet(T)
      PROVE  Cardinality(S \cup T) = Cardinality(S) + Cardinality(T) - Cardinality(S \cap T)
  BY <1>8, SameCount, FST!FS_Union
<1> QED
  BY Zenon, ZenonT(60), <1>1, <1>4, <1>5, <1>6, <1>7, <1>8 DEF FiniteFacts

(* The invariant of the allocator.                                         *)
THEOREM CountInvariant == Spec => []CountInv
<1>1. CountInv /\ [Next]_vars => CountInv'
  BY CountStep, FiniteFactsHold
<1> QED
  BY <1>1, CountInit, PTL DEF Spec

(* The variables keep their types; the search always starts inside the     *)
(* table.                                                                  *)
THEOREM TypeCorrect == Spec => []TypeOK
<1>1. CountInv => TypeOK
  BY DEF CountInv
<1> QED
  BY <1>1, CountInvariant, PTL

(* The count of free clusters, once valid, is exact.                       *)
THEOREM Counted == Spec => []CountExact
<1>1. CountInv => CountExact
  BY DEF CountInv, CountExact
<1> QED
  BY <1>1, CountInvariant, PTL

(* fat_alloc_clusters returns ENOSPC only when the space is not there.     *)
THEOREM RefusedForLackOfSpace == Spec => NoSpaceIsReal
<1>1. ASSUME CountInv, [Next]_vars, refused' \notin {0, refused}
      PROVE  Cardinality(FreeSet(fat)) < refused'
  <2>1. PICK f \in Files, n \in 1 .. MaxNr : AllocNoSpace(f, n) \/ AllocExhausted(f, n)
    BY <1>1
    DEF Next, FileStep, Alloc, AllocError, ChainAdd, ChainAddError, ChainAddWriteError, FreeHeld, FreeHeldError,
        Truncate, TruncateError, CountFree, TrimStep, TrimStart, TrimEntry, TrimLock, TrimEnd, vars, threads
  <2>2. CASE AllocNoSpace(f, n)
    BY <1>1, <2>2 DEF AllocNoSpace, CountInv
  <2>3. CASE AllocExhausted(f, n)
    BY <2>3 DEF AllocExhausted
  <2> QED
    BY <2>1, <2>2, <2>3
<1>2. CountInv /\ [Next]_vars => [~link_error /\ refused' \notin {0, refused} => Cardinality(FreeSet(fat)) < refused']_vars
  BY <1>1
<1> QED
  BY <1>2, CountInvariant, PTL DEF Spec, NoSpaceIsReal

(* FITRIM discards no cluster of the block it reads that is in use.        *)
THEOREM TrimmedFree == Spec => []TrimFreeInBlock
<1>1. Init => TrimInv
  BY DEF Init, TrimInv, TrimFreeInBlock
<1>2. CountInv /\ TrimInv /\ [Next]_vars => TrimInv'
  <2> SUFFICES ASSUME CountInv, TrimInv, [Next]_vars PROVE TrimInv'
    OBVIOUS
  <2>1. CASE UNCHANGED vars \/ CountFree
    BY <2>1 DEF TrimInv, TrimFreeInBlock, vars, table, trim, CountFree
  <2>2. ASSUME NEW f \in Files, FileStep(f) PROVE TrimInv'
    <3>1. UNCHANGED <<t_pc, t_entry, t_free>>
      BY <2>2
      DEF FileStep, AllocNoSpace, Alloc, AllocExhausted, AllocError, ChainAdd, ChainAddError, ChainAddWriteError,
          FreeHeld, FreeHeldError, Truncate, TruncateError, trim
    <3>2. ASSUME t_pc = "scan", t_entry < max_cluster, NEW c \in t_entry - t_free .. t_entry - 1
          PROVE  fat[c] = FAT_ENT_FREE => fat'[c] = FAT_ENT_FREE
      <4>1. c \in Clusters
        BY <3>2, FatAllocAssumption DEF CountInv, TypeOK, Clusters, max_cluster, FAT_START_ENT
      <4> QED
        BY <2>2, <3>2, <4>1, ScanFree DEF FreeSet
    <3> QED
      BY <3>1, <3>2 DEF TrimInv, TrimFreeInBlock, max_cluster
  <2> QED
    BY <2>1, <2>2, TrimStepInv DEF Next
<1>3. TrimInv => TrimFreeInBlock
  BY DEF TrimInv
<1> QED
  BY <1>1, <1>2, <1>3, CountInvariant, PTL DEF Spec

(* Every step of every call keeps each chain apart from the others.        *)
THEOREM TableInvariant == Spec => []TableInv
<1>1. TableInv /\ [Next]_vars => TableInv'
  BY TableStep, FiniteFactsHold
<1> QED
  BY <1>1, TableInit, PTL DEF Spec

(* Every chain ends, and no two files, allocations or truncations share a  *)
(* cluster, however the steps of the calls interleave, until a link of     *)
(* fat_chain_add could not be written.                                     *)
THEOREM Disjoint == Spec => []ChainsDisjoint
<1>1. TableInv => ChainsDisjoint
  BY DisjointFromLinks, FiniteFactsHold DEF TableInv, CountInv
<1> QED
  BY <1>1, TableInvariant, PTL

(* Without an I/O error every cluster in use belongs to a file or to a call*)
(* that is under way.                                                      *)
THEOREM NoClusterLeaks == Spec => []NoLeak
<1>1. TableInv => NoLeak
  BY DEF TableInv
<1> QED
  BY <1>1, TableInvariant, PTL
=============================================================================

------------------------------ MODULE FatFile -------------------------------
(***************************************************************************)
(* One regular file: its sizes (i_size, mmu_private, i_blocks), its        *)
(* cluster chain, and the cache of the extents of that chain               *)
(* (fat/cache.c), as the holder of the inode lock, readers and FIBMAP use  *)
(* them at the same time.                                                  *)
(*                                                                         *)
(* fat_get_cluster is a walk that each thread makes on its own: the lookup *)
(* in the cache, every FAT entry it reads, and the two holds of            *)
(* cache_lru_lock in fat_cache_add are separate steps.  The links of the   *)
(* chain are the sequence chain; sizes are in blocks.  Which cluster an    *)
(* allocation gives is FatAlloc's subject.  The test of fat_get_cluster    *)
(* for a chain without end is left out: a sequence has an end.             *)
(***************************************************************************)
EXTENDS Integers, Sequences, FiniteSets

CONSTANTS
  Others,         \* threads that map a block under a page lock, or in FIBMAP
  Writer,         \* the thread with the inode lock
  NClusters,      \* clusters of the file system
  sec_per_clus,
  FAT_MAX_CACHE

ASSUME FatFileAssumption ==
  /\ NClusters \in Nat \ {0} /\ sec_per_clus \in Nat \ {0} /\ FAT_MAX_CACHE \in Nat \ {0}
  /\ IsFiniteSet(Others) /\ Writer \notin Others

Threads == Others \cup {Writer}
Clusters == 2 .. NClusters + 1
Far == NClusters + 1       \* FAT_ENT_EOF as the cluster asked for
EofMark == -1
Free == 0

\* cache_valid_id is only ever compared for equality.  The id of a copied extent
\* is FAT_CACHE_VALID, the present cache_valid_id, or an earlier one.  (That the
\* 32 bits wrap around is left out.)
FAT_CACHE_VALID == "valid"
Present == "present"
Earlier == "earlier"

VARIABLES
  chain, tail,                     \* the file's clusters; those that fat_free has cut off and not yet freed
  i_size, mmu_private, i_blocks,   \* blocks, blocks, clusters
  cache,                           \* cache_lru, the most recently used extent first
  nr_caches,
  th,                              \* each thread's fat_get_cluster
  w,                               \* the writer's call: op, its step, the blocks it maps, the new cluster
  eof_kept,                        \* an eviction could not cut off the preallocated clusters
  races,                           \* what the locks of the cache leave open and has happened
  bug                              \* the BUG_ONs and error reports met

sizes == <<i_size, mmu_private, i_blocks>>
file == <<chain, tail, sizes>>
lru == <<cache, nr_caches>>
vars == <<file, lru, th, w, eof_kept, races, bug>>

Dummy == [id |-> FAT_CACHE_VALID, fcluster |-> -1, dcluster |-> -1, nr_contig |-> 0]
Quiet == [pc |-> "idle", lock |-> "inode", target |-> 0, fclus |-> 0, dclus |-> 0, cid |-> Dummy]
NoCall == [op |-> "none", pc |-> "idle", n |-> 0, new |-> 0]

Init ==
  /\ chain = <<>> /\ tail = <<>>
  /\ i_size = 0 /\ mmu_private = 0 /\ i_blocks = 0
  /\ cache = <<>> /\ nr_caches = 0
  /\ th = [t \in Threads |-> Quiet]
  /\ w = NoCall
  /\ eof_kept = FALSE /\ races = {} /\ bug = {}

ToClusters(blocks) == (blocks + sec_per_clus - 1) \div sec_per_clus

Least(a, b) == IF a < b THEN a ELSE b

InSeq(c, s) == \E i \in DOMAIN s : s[i] = c

\* The FAT entry of cluster c.
Follow(c, s) == LET i == CHOOSE i \in DOMAIN s : s[i] = c IN IF i = Len(s) THEN EofMark ELSE s[i + 1]
ent_read(c) ==
  IF InSeq(c, chain) THEN Follow(c, chain)
  ELSE IF InSeq(c, tail) THEN Follow(c, tail)
  ELSE IF c = w.new THEN EofMark ELSE Free

Report(what, holds) == bug' = IF holds THEN bug ELSE bug \cup {what}
-----------------------------------------------------------------------------
(* fat_cache_lookup, fat_cache_merge, fat_cache_add,                       *)
(* fat_cache_inval_inode.                                                  *)

MoveToFront(s, i) == <<s[i]>> \o SubSeq(s, 1, i - 1) \o SubSeq(s, i + 1, Len(s))

\* The cached extent nearest to cluster c of the file.  (The loop stops at the
\* first that contains c.  The extents do not overlap: it is the same one.)
IsNearest(i, c) ==
  /\ cache[i].fcluster \in 1 .. c
  /\ \A j \in DOMAIN cache : cache[j].fcluster \in 1 .. c => cache[j].fcluster <= cache[i].fcluster

\* A thread that is at cluster fclus, found at dclus on disk.
At(r, fclus, dclus, cid) ==
  [r EXCEPT !.fclus = fclus, !.dclus = dclus, !.cid = cid,
            !.pc = IF fclus < r.target THEN "walk" ELSE "add"]

\* fat_get_cluster returns; its copy of an extent is gone.
Finish(t) == th' = [th EXCEPT ![t].pc = "done", ![t].cid = Dummy]
Fail(t) == th' = [th EXCEPT ![t] = [Quiet EXCEPT !.pc = "fail", !.lock = th[t].lock]]

\* The first cluster.
Enter(t) ==
  /\ th[t].pc = "enter"
  /\ Report("start", chain # <<>>)
  /\ IF chain = <<>>
     THEN Fail(t)
     ELSE th' = [th EXCEPT ![t].pc = IF th[t].target = 0 THEN "done" ELSE "lookup", ![t].dclus = chain[1]]
  /\ UNCHANGED <<file, lru, w, eof_kept, races>>

\* What the cache knows, or the way from the first cluster.
Lookup(t) ==
  /\ th[t].pc = "lookup"
  /\ IF \E i \in DOMAIN cache : IsNearest(i, th[t].target)
     THEN \E i \in DOMAIN cache :
            /\ IsNearest(i, th[t].target)
            /\ LET hit == cache[i]
                   offset == Least(hit.nr_contig, th[t].target - hit.fcluster)
                   cid == [id |-> Present, fcluster |-> hit.fcluster,
                           dcluster |-> hit.dcluster, nr_contig |-> hit.nr_contig]
               IN th' = [th EXCEPT ![t] = At(@, hit.fcluster + offset, hit.dcluster + offset, cid)]
            /\ cache' = MoveToFront(cache, i)
     ELSE th' = [th EXCEPT ![t] = At(@, 0, @.dclus, Dummy)] /\ UNCHANGED cache
  /\ UNCHANGED <<file, nr_caches, w, eof_kept, races, bug>>

\* cache_contiguous, else cache_init.
Extended(cid, fclus, dclus) ==
  IF cid.dcluster + cid.nr_contig + 1 = dclus
  THEN [cid EXCEPT !.nr_contig = @ + 1]
  ELSE [id |-> FAT_CACHE_VALID, fcluster |-> fclus, dcluster |-> dclus, nr_contig |-> 0]

\* One entry of the chain; or it cannot be read.
Walk(t) ==
  /\ th[t].pc = "walk"
  /\ LET nr == ent_read(th[t].dclus)
         fclus == th[t].fclus + 1
     IN \/ nr \in Clusters /\ th' = [th EXCEPT ![t] = At(@, fclus, nr, Extended(@.cid, fclus, nr))]
        \/ nr = EofMark /\ th' = [th EXCEPT ![t].pc = "add"]
        \/ Fail(t)
  /\ UNCHANGED <<file, lru, w, eof_kept, races, bug>>

Same(cid, i) == cache[i].fcluster = cid.fcluster

Extent(cid) == [fcluster |-> cid.fcluster, dcluster |-> cid.dcluster, nr_contig |-> cid.nr_contig]

\* fat_cache_merge, and the move to the front.
Merge(cid) ==
  \E i \in DOMAIN cache :
    /\ Same(cid, i)
    /\ Report("merge", cache[i].dcluster = cid.dcluster)
    /\ LET longer == [cache EXCEPT ![i].nr_contig = IF cid.nr_contig > @ THEN cid.nr_contig ELSE @]
       IN cache' = MoveToFront(longer, i)

\* Only the dummy is dropped.
DroppedDummy(cid) == cid.fcluster = -1

\* The dummy, and an extent that was copied before an invalidation.
Dropped(cid) == cid.fcluster = -1 \/ cid.id = Earlier

\* fat_cache_add up to the unlock for the allocation: an extent of an earlier
\* id is dropped, the same extent is merged, the last one is reused when the
\* cache is full.
Add(t) ==
  /\ th[t].pc = "add"
  /\ LET cid == th[t].cid
     IN \/ Dropped(cid) /\ Finish(t) /\ UNCHANGED <<lru, races, bug>>
        \/ ~Dropped(cid) /\ Merge(cid) /\ Finish(t) /\ UNCHANGED <<nr_caches, races>>
        \/ /\ ~Dropped(cid) /\ \A i \in DOMAIN cache : ~Same(cid, i)
           /\ IF nr_caches < FAT_MAX_CACHE
              THEN /\ nr_caches' = nr_caches + 1 /\ th' = [th EXCEPT ![t].pc = "alloc"]
                   /\ UNCHANGED <<cache, races>>
              ELSE /\ races' = IF cache = <<>> THEN races \cup {"reuse"} ELSE races
                   /\ Finish(t) /\ UNCHANGED nr_caches
                   /\ cache' = IF cache = <<>> THEN <<>>
                               ELSE <<Extent(cid)>> \o SubSeq(cache, 1, Len(cache) - 1)
           /\ UNCHANGED bug
  /\ UNCHANGED <<file, w, eof_kept>>

\* After the allocation, which may fail: merged again, or put in front.
Allocated(t) ==
  /\ th[t].pc = "alloc"
  /\ \/ nr_caches' = nr_caches - 1 /\ UNCHANGED <<cache, bug>>
     \/ Merge(th[t].cid) /\ nr_caches' = nr_caches - 1
     \/ /\ \A i \in DOMAIN cache : ~Same(th[t].cid, i)
        /\ cache' = <<Extent(th[t].cid)>> \o cache
        /\ UNCHANGED <<nr_caches, bug>>
  /\ Finish(t)
  /\ UNCHANGED <<file, w, eof_kept, races>>

Entering(cluster) == [Quiet EXCEPT !.pc = "enter", !.target = cluster]

Call(t, cluster) == th' = [th EXCEPT ![t] = Entering(cluster)]

\* The id moves on for those who copied an extent.
Outdated == [t \in Threads |-> [th[t] EXCEPT !.cid.id = IF @ = Present THEN Earlier ELSE @]]

\* The list is emptied and the id moves on; the writer's next step is r.
Invalidate(r) ==
  /\ cache' = <<>>
  /\ nr_caches' = nr_caches - Len(cache)
  /\ th' = [Outdated EXCEPT ![Writer] = r]

GetCluster(t) == Enter(t) \/ Lookup(t) \/ Walk(t) \/ Add(t) \/ Allocated(t)
-----------------------------------------------------------------------------
(* fat_get_block without create, under a page lock; FIBMAP, under          *)
(* truncate_lock.                                                          *)

Evicting == w.op = "evict"
Cutting == w.op = "trunc"       \* setattr holds truncate_lock for writing

Bmapping == {t \in Others : th[t].pc # "idle" /\ th[t].lock = "truncate"}

EnterWith(t, lock, cluster) == th' = [th EXCEPT ![t] = [Entering(cluster) EXCEPT !.lock = lock]]

\* fat_bmap: up to i_size; a file without a first cluster has no mapping.
ReaderCall(t) ==
  /\ th[t].pc = "idle" /\ ~Evicting /\ chain # <<>>
  /\ \E sector \in 0 .. i_size - 1 : EnterWith(t, "page", sector \div sec_per_clus)
  /\ UNCHANGED <<file, lru, w, eof_kept, races, bug>>

\* fat_bmap from _fat_bmap: up to i_blocks.
BmapCall(t) ==
  /\ th[t].pc = "idle" /\ ~Evicting /\ ~Cutting /\ chain # <<>>
  /\ \E cluster \in 0 .. i_blocks - 1 : EnterWith(t, "truncate", cluster)
  /\ races' = IF w.op = "failed" THEN races \cup {"fibmap"} ELSE races
  /\ UNCHANGED <<file, lru, w, eof_kept, bug>>

\* The page is unlocked, truncate_lock released.
Return(t) ==
  /\ th[t].pc \in {"done", "fail"}
  /\ th' = [th EXCEPT ![t] = Quiet]
  /\ UNCHANGED <<file, lru, w, eof_kept, races, bug>>
-----------------------------------------------------------------------------
(* The holder of the inode lock: fat_free.                                 *)

\* What a finished call of fat_get_cluster says.
Found(t) == th[t].pc = "done" /\ th[t].fclus = th[t].target
AtEof(t) == th[t].pc = "done" /\ th[t].fclus < th[t].target

Hush == th' = [th EXCEPT ![Writer] = Quiet]

\* The call is over; an eviction goes on.
Over(op) == [NoCall EXCEPT !.op = IF op = "evict" THEN op ELSE "none"]

\* mmu_private keeps its value.
CutMmuKept(to) == mmu_private

CutMmu(to) == Least(mmu_private, to)

\* Threads that the cut of the chain overtakes: FIBMAP, which fat_write_failed
\* does not wait for, and one in the allocation with an extent that it copied:
\* the id is not compared again.
Overtaken ==
  {r \in {"fibmap", "readd"} :
     \/ r = "fibmap" /\ Bmapping # {}
     \/ r = "readd" /\ \E t \in Others : th[t].pc = "alloc" /\ th[t].cid.id # FAT_CACHE_VALID}

\* fat_truncate_blocks, and fat_free up to the walk to the last cluster that
\* stays.
CutStart(op, to) ==
  /\ mmu_private' = CutMmu(to)
  /\ IF chain = <<>>
     THEN w' = Over(op) /\ Hush /\ UNCHANGED <<lru, races>>
     ELSE /\ races' = races \cup Overtaken
          /\ Invalidate(IF to = 0 THEN Quiet ELSE Entering(ToClusters(to) - 1))
          /\ w' = [op |-> op, pc |-> "cut", n |-> ToClusters(to), new |-> 0]
  /\ UNCHANGED <<chain, tail, i_blocks>>

\* No cluster follows.
CutNothing ==
  /\ w.pc = "cut" /\ w.n # 0
  /\ AtEof(Writer) \/ (Found(Writer) /\ ent_read(th[Writer].dclus) = EofMark)
  /\ w' = Over(w.op) /\ Hush
  /\ UNCHANGED <<file, lru, eof_kept, races, bug>>

\* The chain cannot be read: it stays as it is.  (A write of the end mark that
\* fails only in the second copy of the FAT is in FatAlloc, here and below.)
CutError ==
  /\ w.pc = "cut" /\ w.n # 0
  /\ th[Writer].pc = "fail" \/ Found(Writer)
  /\ eof_kept' = (eof_kept \/ Evicting)
  /\ w' = Over(w.op) /\ Hush
  /\ UNCHANGED <<file, lru, races, bug>>

\* The new end mark, or no first cluster; and i_blocks.
Cut ==
  /\ w.pc = "cut"
  /\ w.n # 0 => Found(Writer) /\ ent_read(th[Writer].dclus) \in Clusters
  /\ Report("cut", w.n # 0 => w.n <= Len(chain) /\ chain[w.n] = th[Writer].dclus)
  /\ chain' = SubSeq(chain, 1, w.n) /\ tail' = SubSeq(chain, w.n + 1, Len(chain))
  /\ i_blocks' = w.n
  /\ w' = [w EXCEPT !.pc = "free"] /\ Hush
  /\ UNCHANGED <<i_size, mmu_private, lru, eof_kept, races>>

\* fat_free_clusters.
FreeTail ==
  /\ w.pc = "free"
  /\ tail' = <<>>
  /\ w' = Over(w.op)
  /\ UNCHANGED <<chain, sizes, lru, th, eof_kept, races, bug>>
-----------------------------------------------------------------------------
(* fat_add_cluster; __fat_get_block with create; fat_fallocate.            *)

FreeClusters == {c \in Clusters : ~InSeq(c, chain) /\ ~InSeq(c, tail)}

\* The writer's thread is at r next.
Go(r, inval) == IF inval THEN Invalidate(r) ELSE th' = [th EXCEPT ![Writer] = r] /\ UNCHANGED lru

Mapping(n) == [op |-> "grow", pc |-> "map", n |-> n, new |-> 0]

\* fat_chain_add once the last cluster is known: c becomes cluster new_fclus of
\* the file.  A write goes on to map n blocks.
Link(op, n, c, new_fclus) ==
  /\ chain' = Append(chain, c) /\ i_blocks' = i_blocks + 1 /\ UNCHANGED <<tail, i_size>>
  /\ mmu_private' = mmu_private + n
  /\ w' = IF op = "grow" THEN Mapping(n) ELSE NoCall
  /\ Go(IF op = "grow" THEN Entering(mmu_private \div sec_per_clus) ELSE Quiet, new_fclus # i_blocks)

\* A new cluster; fat_chain_add has to find the last one first.
NewCluster(op, n) ==
  \E c \in FreeClusters :
    IF chain = <<>>
    THEN Link(op, n, c, 0) /\ Report("count", i_blocks = 0)
    ELSE /\ w' = [op |-> op, pc |-> "link", n |-> n, new |-> c]
         /\ Call(Writer, Far)
         /\ UNCHANGED <<file, lru, bug>>

\* More than the rest of the cluster.
MaxBlocksUnbounded(req) == req

\* max_blocks: the blocks asked for that are left in the cluster.
MaxBlocks(req) == Least(sec_per_clus - (mmu_private % sec_per_clus), req)

\* No block is left of the last cluster, nor a preallocated cluster.
NoBlockLeft == mmu_private % sec_per_clus = 0 /\ mmu_private >= i_blocks * sec_per_clus

\* A write at the end of the file, or an expanding truncate: up to req blocks of
\* one cluster.  A cluster is allocated if no preallocated one is left; there
\* may be no space.
Grow(req) ==
  /\ w.op = "none"
  /\ \/ /\ ~NoBlockLeft
        /\ mmu_private' = mmu_private + MaxBlocks(req)
        /\ w' = Mapping(MaxBlocks(req)) /\ Call(Writer, mmu_private \div sec_per_clus)
        /\ UNCHANGED <<chain, tail, i_size, i_blocks, lru, races, bug>>
     \/ NoBlockLeft /\ NewCluster("grow", MaxBlocks(req)) /\ UNCHANGED races
     \/ NoBlockLeft /\ CutStart("failed", i_size) /\ UNCHANGED <<i_size, bug>>
  /\ UNCHANGED eof_kept

\* FALLOC_FL_KEEP_SIZE, one cluster.  (Without space nothing changes.)
Fallocate ==
  /\ w.op = "none"
  /\ NewCluster("falloc", 0)
  /\ UNCHANGED <<eof_kept, races>>

LinkAtEnd ==
  /\ w.pc = "link" /\ AtEof(Writer)
  /\ LET new_fclus == th[Writer].fclus + 1
     IN /\ Link(w.op, w.n, w.new, new_fclus)
        /\ bug' = bug \cup {x \in {"link", "count"} :
                              \/ x = "link" /\ th[Writer].dclus # chain[Len(chain)]
                              \/ x = "count" /\ new_fclus # i_blocks}
  /\ UNCHANGED <<eof_kept, races>>

\* The new cluster is given back.
LinkError ==
  /\ w.pc = "link" /\ th[Writer].pc \in {"done", "fail"}
  /\ IF w.op = "grow"
     THEN CutStart("failed", i_size) /\ UNCHANGED i_size
     ELSE w' = NoCall /\ Hush /\ UNCHANGED <<file, lru, races>>
  /\ UNCHANGED <<eof_kept, bug>>

\* The blocks that the second fat_bmap finds mapped.
MappedBlocks ==
  LET sector == mmu_private - w.n
      last_block == IF sector < i_size THEN i_size ELSE mmu_private
  IN Least(sec_per_clus - (sector % sec_per_clus), last_block - sector)

\* generic_write_end.
GrowDone ==
  /\ w.pc = "map" /\ Found(Writer)
  /\ Report("blocks", w.n = MappedBlocks)
  /\ i_size' = mmu_private
  /\ w' = NoCall /\ Hush
  /\ UNCHANGED <<chain, tail, mmu_private, i_blocks, lru, eof_kept, races>>

\* The block cannot be mapped, or the data cannot be copied: fat_write_failed,
\* without truncate_lock.
GrowFailed ==
  /\ w.pc = "map" /\ th[Writer].pc \in {"done", "fail"}
  /\ Report("blocks", Found(Writer) => w.n = MappedBlocks)
  /\ CutStart("failed", i_size)
  /\ UNCHANGED <<i_size, eof_kept>>
-----------------------------------------------------------------------------
(* Truncation; eviction and the next fat_fill_inode.                       *)

\* truncate_lock is taken and i_size is set.
Truncate(to) ==
  /\ w.op = "none" /\ to <= i_size
  /\ Bmapping = {}
  /\ i_size' = to
  /\ w' = [op |-> "trunc", pc |-> "pages", n |-> to, new |-> 0]
  /\ UNCHANGED <<chain, tail, mmu_private, i_blocks, lru, th, eof_kept, races, bug>>

\* The pages are dropped without their locks.
TruncatePagesNoWait ==
  /\ w.pc = "pages"
  /\ CutStart("trunc", w.n)
  /\ UNCHANGED <<i_size, eof_kept, bug>>

\* truncate_setsize drops the pages, each under its lock.
TruncatePages ==
  /\ w.pc = "pages"
  /\ \A t \in Others : th[t].pc = "idle" \/ th[t].target < ToClusters(w.n)
  /\ CutStart("trunc", w.n)
  /\ UNCHANGED <<i_size, eof_kept, bug>>

\* fat_free_eofblocks.
Evict ==
  /\ w.op = "none"
  /\ \A t \in Threads : th[t].pc = "idle"
  /\ IF i_blocks > ToClusters(mmu_private)
     THEN CutStart("evict", mmu_private) /\ UNCHANGED i_size
     ELSE w' = Over("evict") /\ UNCHANGED <<file, lru, th, races>>
  /\ UNCHANGED <<eof_kept, bug>>

\* The end of the eviction, and the file is used again.
Reload ==
  /\ Evicting /\ w.pc = "idle"
  /\ Invalidate(Quiet)
  /\ mmu_private' = i_size /\ i_blocks' = ToClusters(i_size)
  /\ w' = NoCall
  /\ UNCHANGED <<chain, tail, i_size, eof_kept, races, bug>>
-----------------------------------------------------------------------------
WriterStep ==
  \/ \E req \in 1 .. sec_per_clus : Grow(req)
  \/ Fallocate \/ LinkAtEnd \/ LinkError \/ GrowDone \/ GrowFailed
  \/ \E to \in 0 .. i_size : Truncate(to)
  \/ TruncatePages \/ CutNothing \/ CutError \/ Cut \/ FreeTail
  \/ Evict \/ Reload

Next ==
  \/ \E t \in Threads : GetCluster(t)
  \/ \E t \in Others : ReaderCall(t) \/ BmapCall(t) \/ Return(t)
  \/ WriterStep

Spec == Init /\ [][Next]_vars
-----------------------------------------------------------------------------
(* Properties.                                                             *)

Matches(e) ==
  \A k \in 0 .. e.nr_contig :
    e.fcluster + k < Len(chain) /\ chain[e.fcluster + k + 1] = e.dcluster + k

InAlloc == {t \in Threads : th[t].pc = "alloc"}

(* What the cache says about the chain is true at every moment of every    *)
(* truncation, extension and lookup: no extent of a part that was cut off  *)
(* survives in it, though a thread may have copied it before the           *)
(* invalidation.  cache_valid_id is there "for avoiding the race between   *)
(* fat_free() and fat_get_cluster()", truncate_lock to "protect bmap       *)
(* against truncate" (fat.h).  nr_caches counts the extents in the list    *)
(* and those being allocated without the lock.  Excepted are the three     *)
(* races: FIBMAP under way while a failed write cuts the chain, a copied   *)
(* extent put back after an allocation that the cut overtook, and a full   *)
(* cache all of whose extents are still being allocated.                   *)
CacheSound ==
  races = {} =>
    /\ \A i \in DOMAIN cache : Matches(cache[i])
    /\ \A i, j \in DOMAIN cache :
         i # j => \/ cache[i].fcluster + cache[i].nr_contig < cache[j].fcluster
                  \/ cache[j].fcluster + cache[j].nr_contig < cache[i].fcluster
    /\ nr_caches = Len(cache) + Cardinality(InAlloc) /\ nr_caches <= FAT_MAX_CACHE

(* fat_get_cluster returns the cluster asked for, to a reader, to FIBMAP   *)
(* and to a write, while the file grows and shrinks elsewhere; up to the   *)
(* same three races.                                                       *)
MapsRight ==
  races = {} => \A t \in Threads :
    Found(t) => th[t].target < Len(chain) /\ th[t].dclus = chain[th[t].target + 1]

(* Unless an eviction could not read the chain, or one of the races led a  *)
(* walk astray, i_blocks is the length of the chain, preallocated clusters *)
(* included, no more is mapped than allocated, and between calls nothing   *)
(* is mapped beyond i_size.  Failed writes, unreadable chains and          *)
(* evictions come in any order.                                            *)
BlocksExact ==
  ~eof_kept /\ races = {} =>
    /\ i_blocks = Len(chain)
    /\ mmu_private <= i_blocks * sec_per_clus
    /\ w.op = "none" => i_size = mmu_private

(* With the same exceptions no BUG_ON of cache.c and inode.c fires and no  *)
(* inconsistency is reported: a chain that is walked has a first cluster,  *)
(* a merged extent is the same, the new cluster is linked behind the last  *)
(* one.                                                                    *)
NoBug == ~eof_kept /\ races = {} => bug = {}
=============================================================================

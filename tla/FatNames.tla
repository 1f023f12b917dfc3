------------------------------ MODULE FatNames ------------------------------
(***************************************************************************)
(* Inodes and directory entries of the vfat file system.  An inode knows   *)
(* its entry by the position i_pos; the inodes in memory are hashed by it. *)
(* The name calls (create, mkdir, unlink, rmdir, lookup, rename, exchange) *)
(* run under s_lock and move inodes between entries; the flusher writes    *)
(* inodes to their entries (__fat_write_inode) and the shrinker evicts     *)
(* them (fat_evict_inode) without that lock.                               *)
(*                                                                         *)
(* An entry is its directory, the chain of clusters it starts and whether  *)
(* that is a directory; a directory is known by its chain.  A chain is one *)
(* value.  That a position is free and belongs to a directory is all that  *)
(* is left of the slots (FatDir).                                          *)
(***************************************************************************)
EXTENDS Integers, FiniteSets

CONSTANTS
  Inodes, Positions, Chains,
  Root,         \* the root directory's inode
  RootChain,
  Nothing,      \* no position, no chain, no inode
  Mounted,      \* the entries that the file system is mounted with
  MaxCalls      \* bound on the calls that change names or chains

ASSUME FatNamesAssumption ==
  /\ Root \notin Inodes /\ RootChain \notin Chains
  /\ Nothing \notin Inodes \cup Positions \cup Chains \cup {Root, RootChain}
  /\ MaxCalls \in Nat

VARIABLES
  disk,         \* at each position: Nothing, or an entry
  dotdot,       \* of each directory's chain: the chain in its ".." entry
  used,         \* the chains that are not free
  ino,          \* the inodes in memory
  op,           \* the rename that holds s_lock and has yet to hash its inodes again
  calls,
  wb,           \* the inode that the flusher writes, and the position it has read
  eof_read,     \* an entry was read while its inode, being evicted, had blocks beyond its end
  miscounted    \* the directories, by their chains, whose i_nlink is not their count

flaws == <<eof_read, miscounted>>
vars == <<disk, dotdot, used, ino, op, calls, wb, flaws>>

Entry(start, dir, parent) == [start |-> start, dir |-> dir, parent |-> parent]

\* state: "live" or "freeing" (I_FREEING: igrab fails).  eof: it has clusters and
\* no data (fallocate).
Inode(pos, start, dir, nlink) ==
  [pos |-> pos, start |-> start, dir |-> dir, nlink |-> nlink,
   held |-> TRUE, dirty |-> FALSE, eof |-> FALSE, state |-> "live"]

Idle == [i |-> Nothing]

Children(c) == {p \in Positions : disk[p] # Nothing /\ disk[p].parent = c}

\* fat_subdirs, fat_dir_empty
Subdirs(c) == 2 + Cardinality({p \in Children(c) : disk[p].dir})
Empty(c) == Children(c) = {}

\* The directory with chain c is, or is below, the one with chain b.
Below(c, b) ==
  \A up \in SUBSET (Chains \cup {RootChain}) :
    c \in up /\ (\A d \in up \ {RootChain} : dotdot[d] # Nothing => dotdot[d] \in up) => b \in up

\* A file system just mounted: only the root's inode is in memory.
Init ==
  /\ disk \in Mounted
  /\ dotdot = [c \in Chains |->
                 IF \E p \in Positions : disk[p] # Nothing /\ disk[p].dir /\ disk[p].start = c
                 THEN disk[CHOOSE p \in Positions : disk[p] # Nothing /\ disk[p].start = c].parent
                 ELSE Nothing]
  /\ used = {c \in Chains : \E p \in Positions : disk[p] # Nothing /\ disk[p].start = c}
  /\ ino = [i \in Inodes \cup {Root} |->
              IF i = Root THEN Inode(Nothing, RootChain, TRUE, Subdirs(RootChain)) ELSE Nothing]
  /\ op = Idle /\ wb = Idle /\ calls = 0
  /\ eof_read = FALSE /\ miscounted = {}
-----------------------------------------------------------------------------
Loaded == {i \in Inodes : ino[i] # Nothing}
Live(i) == ino[i] # Nothing /\ ino[i].state = "live" /\ ino[i].held

\* The directories that a call may be made in, the files it may be about.
Dirs == {d \in Inodes \cup {Root} : Live(d) /\ ino[d].dir /\ ino[d].nlink > 0}
Named == {i \in Inodes : Live(i) /\ ino[i].pos # Nothing}

InDir(i, d) == disk[ino[i].pos].parent = ino[d].start

Free(p) == disk[p] = Nothing
Unused(i) == i \in Inodes /\ ino[i] = Nothing

\* fat_iget: an inode that is being freed is not found.
Hashed(p) == {i \in Loaded : ino[i].pos = p /\ ino[i].state = "live"}

Locked == op = Idle      \* s_lock can be had
Called == calls < MaxCalls /\ calls' = calls + 1
Call == Locked /\ Called
-----------------------------------------------------------------------------
(* vfat_create, vfat_mkdir, vfat_lookup with fat_build_inode.              *)

Create(d, i, p) ==
  /\ Call /\ Free(p) /\ Unused(i)
  /\ disk' = [disk EXCEPT ![p] = Entry(Nothing, FALSE, ino[d].start)]
  /\ ino' = [ino EXCEPT ![i] = Inode(p, Nothing, FALSE, 1)]
  /\ UNCHANGED <<dotdot, used, op, wb, flaws>>

\* fat_build_inode fails: the entry stays, the call fails.
CreateNoInode(d, p) ==
  /\ Call /\ Free(p)
  /\ disk' = [disk EXCEPT ![p] = Entry(Nothing, FALSE, ino[d].start)]
  /\ UNCHANGED <<dotdot, used, ino, op, wb, flaws>>

\* fat_alloc_new_dir, vfat_add_entry; inode is the new directory's, or none when
\* fat_build_inode fails.
MkdirWith(d, p, c, inodes) ==
  /\ Call /\ Free(p) /\ c \in Chains \ used
  /\ used' = used \cup {c}
  /\ dotdot' = [dotdot EXCEPT ![c] = ino[d].start]
  /\ disk' = [disk EXCEPT ![p] = Entry(c, TRUE, ino[d].start)]
  /\ ino' = [i \in DOMAIN ino |->
               IF i = d THEN [ino[d] EXCEPT !.nlink = @ + 1]
               ELSE IF i \in inodes THEN Inode(p, c, TRUE, 2) ELSE ino[i]]
  /\ UNCHANGED <<op, wb, flaws>>

Mkdir(d, i, p, c) == Unused(i) /\ MkdirWith(d, p, c, {i})
MkdirNoInode(d, p, c) == MkdirWith(d, p, c, {})

\* fat_fill_inode: what the entry says.  It may not be what it says for long:
\* the eviction of an inode that has no data and preallocated blocks frees the
\* chain and writes the entry after this; and an exchange may have put a
\* directory where the entry still says file, or the reverse.
Fill(i, p) ==
  /\ Unused(i)
  /\ ino' = [ino EXCEPT ![i] = Inode(p, disk[p].start, disk[p].dir,
                                     IF disk[p].dir THEN Subdirs(disk[p].start) ELSE 1)]
  /\ eof_read' = (eof_read \/ \E j \in Loaded : ino[j].pos = p /\ ino[j].eof)
  /\ miscounted' = IF \E q \in Children(disk[p].start) : \E j \in Hashed(q) : ino[j].dir # disk[q].dir
                   THEN miscounted \cup {disk[p].start} ELSE miscounted \ {disk[p].start}

\* The hash is not asked: the entry is read whether an inode has it or not.
LookupUnhashed(d, i, p) ==
  /\ Locked /\ p \in Children(ino[d].start) /\ Fill(i, p)
  /\ UNCHANGED <<calls, disk, dotdot, used, op, wb>>

\* The hashed inode, or a new one.
Lookup(d, i, p) ==
  /\ Locked /\ p \in Children(ino[d].start)
  /\ IF Hashed(p) # {}
     THEN i \in Hashed(p) /\ ~ino[i].held /\ ino' = [ino EXCEPT ![i].held = TRUE] /\ UNCHANGED flaws
     ELSE Fill(i, p)
  /\ UNCHANGED <<calls, disk, dotdot, used, op, wb>>

\* The last reference goes: the dentry of a directory stays as long as one below
\* it does.
Drop(i) ==
  /\ Live(i) /\ i # Root /\ i # op.i
  /\ ino[i].dir => \A j \in Named : ~InDir(j, i)
  /\ op = Idle
  /\ ino' = [ino EXCEPT ![i].held = FALSE]
  /\ UNCHANGED <<calls, disk, dotdot, used, op, wb, flaws>>
-----------------------------------------------------------------------------
(* vfat_unlink, vfat_rmdir.                                                *)

Unlink(d, i) ==
  /\ Call /\ InDir(i, d) /\ ~ino[i].dir
  /\ disk' = [disk EXCEPT ![ino[i].pos] = Nothing]
  /\ ino' = [ino EXCEPT ![i].nlink = 0, ![i].pos = Nothing]
  /\ UNCHANGED <<dotdot, used, op, wb, flaws>>

\* The parent's link count stays.
RmdirLinked(d, i) ==
  /\ Call /\ InDir(i, d) /\ ino[i].dir /\ Empty(ino[i].start)
  /\ disk' = [disk EXCEPT ![ino[i].pos] = Nothing]
  /\ ino' = [ino EXCEPT ![i].nlink = 0, ![i].pos = Nothing]
  /\ UNCHANGED <<dotdot, used, op, wb, flaws>>

Rmdir(d, i) ==
  /\ Call /\ InDir(i, d) /\ ino[i].dir /\ Empty(ino[i].start)
  /\ disk' = [disk EXCEPT ![ino[i].pos] = Nothing]
  /\ ino' = [ino EXCEPT ![i].nlink = 0, ![i].pos = Nothing, ![d].nlink = @ - 1]
  /\ UNCHANGED <<dotdot, used, op, wb, flaws>>
-----------------------------------------------------------------------------
(* vfat_rename, vfat_rename_exchange.  The inodes are detached, attached at *)
(* their new positions, and marked dirty: another thread may come between. *)

\* Not into itself (the VFS's check).
Allowed(i, d) == ino[i].dir => ~Below(ino[d].start, ino[i].start)

Renaming(kind, i, j, od, nd, to) ==
  [kind |-> kind, i |-> i, j |-> j, od |-> od, nd |-> nd, from |-> ino[i].pos, to |-> to]

\* vfat_add_entry; the new entry has no chain yet.
RenameNew(od, nd, i, p) ==
  /\ Call /\ InDir(i, od) /\ Allowed(i, nd) /\ Free(p)
  /\ disk' = [disk EXCEPT ![p] = Entry(Nothing, ino[i].dir, ino[nd].start)]
  /\ ino' = [ino EXCEPT ![i].pos = Nothing]
  /\ op' = Renaming("rename", i, Nothing, od, nd, p)
  /\ UNCHANGED <<dotdot, used, wb, flaws>>

\* The entry of the inode it replaces.
RenameOver(od, nd, i, j) ==
  /\ Call /\ InDir(i, od) /\ Allowed(i, nd)
  /\ i # j /\ InDir(j, nd) /\ ino[i].dir = ino[j].dir
  /\ ino[i].dir => Empty(ino[j].start)
  /\ ino' = [ino EXCEPT ![i].pos = Nothing, ![j].pos = Nothing]
  /\ op' = Renaming("rename", i, j, od, nd, ino[j].pos)
  /\ UNCHANGED <<disk, dotdot, used, wb, flaws>>

Exchange(od, nd, i, j) ==
  /\ Call /\ i # j
  /\ InDir(i, od) /\ InDir(j, nd) /\ Allowed(i, nd) /\ Allowed(j, od)
  /\ ino' = [ino EXCEPT ![i].pos = Nothing, ![j].pos = Nothing]
  /\ op' = Renaming("exchange", i, j, od, nd, ino[j].pos)
  /\ UNCHANGED <<disk, dotdot, used, wb, flaws>>

\* fat_attach, for both inodes of an exchange.
Attach ==
  /\ ~Locked /\ ino[op.i].pos = Nothing
  /\ ino' = IF op.kind = "exchange"
            THEN [ino EXCEPT ![op.i].pos = op.to, ![op.j].pos = op.from]
            ELSE [ino EXCEPT ![op.i].pos = op.to]
  /\ UNCHANGED <<calls, disk, dotdot, used, op, wb, flaws>>

\* The directories' link counts after a subdirectory has moved.
Relinked(minus, plus) ==
  [i \in DOMAIN ino |->
     IF ino[i] = Nothing THEN Nothing
     ELSE [ino[i] EXCEPT !.nlink = @ - (IF i \in minus THEN 1 ELSE 0) + (IF i \in plus THEN 1 ELSE 0)]]

\* vfat_sync_ipos
NotMarked(inodes, i) == inodes
Marked(inodes, i) == [inodes EXCEPT ![i].dirty = TRUE]

\* ".." is left as it is.
MovesNever(i) == ino[i].dir /\ FALSE

Moves(i) == ino[i].dir /\ op.od # op.nd      \* its ".." changes

\* One drop_nlink for a directory too.
LinksOnce(i) == 1

Links(i) == IF ino[i].dir THEN 2 ELSE 1

\* The inode is marked dirty, ".." and the link counts follow, the old entry is
\* removed, the replaced inode loses its links.
RenameDone ==
  /\ ~Locked /\ op.kind = "rename" /\ ino[op.i].pos # Nothing
  /\ disk' = [disk EXCEPT ![op.from] = Nothing]
  /\ dotdot' = IF Moves(op.i) THEN [dotdot EXCEPT ![ino[op.i].start] = ino[op.nd].start] ELSE dotdot
  /\ LET linked == IF Moves(op.i)
                   THEN Relinked({op.od}, IF op.j = Nothing THEN {op.nd} ELSE {}) ELSE ino
         dirtied == Marked(linked, op.i)
     IN ino' = IF op.j = Nothing THEN dirtied
               ELSE [dirtied EXCEPT ![op.j].nlink = @ - Links(op.i)]
  /\ miscounted' = IF op.j # Nothing /\ ino[op.i].dir /\ op.od = op.nd
                   THEN miscounted \cup {ino[op.od].start} ELSE miscounted
  /\ op' = Idle
  /\ UNCHANGED <<calls, used, wb, eof_read>>

ExchangeDone ==
  /\ ~Locked /\ op.kind = "exchange" /\ ino[op.i].pos # Nothing
  /\ dotdot' = [c \in Chains |-> IF Moves(op.i) /\ c = ino[op.i].start THEN ino[op.nd].start
                                 ELSE IF Moves(op.j) /\ c = ino[op.j].start THEN ino[op.od].start
                                 ELSE dotdot[c]]
  /\ LET linked == CASE Moves(op.i) /\ ~Moves(op.j) -> Relinked({op.od}, {op.nd})
                     [] Moves(op.j) /\ ~Moves(op.i) -> Relinked({op.nd}, {op.od})
                     [] OTHER -> ino
     IN ino' = Marked(Marked(linked, op.j), op.i)
  /\ op' = Idle
  /\ UNCHANGED <<calls, disk, used, wb, flaws>>
-----------------------------------------------------------------------------
(* Data: the first cluster, fallocate for a file without data, truncate.   *)

GetBlock(i, c) ==
  /\ Called /\ Live(i) /\ ~ino[i].dir /\ ino[i].start = Nothing /\ c \in Chains \ used
  /\ used' = used \cup {c}
  /\ \E eof \in BOOLEAN : ino' = [ino EXCEPT ![i].start = c, ![i].dirty = TRUE, ![i].eof = eof]
  /\ UNCHANGED <<disk, dotdot, op, wb, flaws>>

\* Blocks, then nothing: fat_free sets i_start to 0 and frees the chain.
Truncate(i) ==
  /\ Called /\ Live(i) /\ ~ino[i].dir /\ ino[i].start # Nothing
  /\ used' = used \ {ino[i].start}
  /\ ino' = [ino EXCEPT ![i].start = Nothing, ![i].dirty = TRUE, ![i].eof = FALSE]
  /\ UNCHANGED <<disk, dotdot, op, wb, flaws>>
-----------------------------------------------------------------------------
(* __fat_write_inode, by the flusher.                                      *)

WriteInode(i) ==
  /\ wb = Idle /\ i \in Loaded /\ ino[i].state = "live" /\ ino[i].dirty
  /\ wb' = [i |-> i, pos |-> Nothing]
  /\ ino' = [ino EXCEPT ![i].dirty = FALSE]
  /\ UNCHANGED <<calls, disk, dotdot, used, op, flaws>>

ReadPos ==
  /\ wb # Idle /\ wb.pos = Nothing
  /\ wb' = IF ino[wb.i].pos = Nothing THEN Idle ELSE [wb EXCEPT !.pos = ino[wb.i].pos]
  /\ UNCHANGED <<calls, disk, dotdot, used, ino, op, flaws>>

\* An entry that is deleted stays deleted: the name is not written.
Written(p, i, start) ==
  IF Free(p) THEN disk ELSE [disk EXCEPT ![p].start = start, ![p].dir = ino[i].dir]

\* No second look at i_pos.
WriteEntryUnchecked ==
  /\ wb # Idle /\ wb.pos # Nothing
  /\ disk' = Written(wb.pos, wb.i, ino[wb.i].start)
  /\ wb' = Idle
  /\ UNCHANGED <<calls, dotdot, used, ino, op, flaws>>

\* After bread, under inode_hash_lock.
WriteEntry ==
  /\ wb # Idle /\ wb.pos # Nothing
  /\ IF wb.pos = ino[wb.i].pos
     THEN disk' = Written(wb.pos, wb.i, ino[wb.i].start) /\ wb' = Idle
     ELSE disk' = disk /\ wb' = [wb EXCEPT !.pos = Nothing]
  /\ UNCHANGED <<calls, dotdot, used, ino, op, flaws>>
-----------------------------------------------------------------------------
(* fat_evict_inode.                                                        *)

\* No reference, not being written; clean, unless it has no links.
Evict(i) ==
  /\ i \in Loaded /\ ino[i].state = "live" /\ ~ino[i].held /\ wb.i # i
  /\ ino[i].dirty => ino[i].nlink = 0
  /\ ino' = [ino EXCEPT ![i].state = "freeing"]
  /\ UNCHANGED <<calls, disk, dotdot, used, op, wb, flaws>>

\* All blocks go with the last link; blocks beyond the end go and the entry is
\* written (fat_free_eofblocks).  Then the inode is detached.
EvictBlocks(i) ==
  /\ i \in Loaded /\ ino[i].state = "freeing"
  /\ LET cut == ino[i].nlink = 0 \/ ino[i].eof
     IN /\ used' = IF cut THEN used \ {ino[i].start} ELSE used
        /\ disk' = IF cut /\ ino[i].pos # Nothing THEN Written(ino[i].pos, i, Nothing) ELSE disk
        /\ miscounted' = IF cut THEN miscounted \ {ino[i].start} ELSE miscounted
  /\ ino' = [ino EXCEPT ![i] = Nothing]
  /\ UNCHANGED <<calls, dotdot, op, wb, eof_read>>

Next ==
  \/ \E d \in Dirs, p \in Positions :
       \/ CreateNoInode(d, p)
       \/ \E c \in Chains : MkdirNoInode(d, p, c)
       \/ \E i \in Inodes :
            Create(d, i, p) \/ Lookup(d, i, p) \/ (\E c \in Chains : Mkdir(d, i, p, c))
  \/ \E d \in Dirs, i \in Named : Unlink(d, i) \/ Rmdir(d, i)
  \/ \E od, nd \in Dirs, i \in Named :
       \/ \E p \in Positions : RenameNew(od, nd, i, p)
       \/ \E j \in Named : RenameOver(od, nd, i, j) \/ Exchange(od, nd, i, j)
  \/ Attach \/ RenameDone \/ ExchangeDone
  \/ \E i \in Inodes :
       \/ Drop(i) \/ Truncate(i) \/ WriteInode(i)
       \/ Evict(i) \/ EvictBlocks(i)
       \/ \E c \in Chains : GetBlock(i, c)
  \/ ReadPos \/ WriteEntry

Spec == Init /\ [][Next]_vars
-----------------------------------------------------------------------------
(* Properties.                                                             *)

\* fat_iget and fat_attach keep one inode per entry: no two inodes that calls
\* can reach write to the same one.
OneInode ==
  \A i, j \in Loaded :
    i # j /\ ino[i].state = "live" /\ ino[j].state = "live" /\ ino[i].pos = ino[j].pos
      => ino[i].pos = Nothing

\* An inode that is clean and not being written is what its entry says, so
\* that it may be evicted: no write of an inode is lost between the flusher's
\* look at i_pos and a rename, and none goes to an entry that is not its own.
\* Excepted, here and below: an entry was read during the eviction that takes
\* the preallocated blocks from the file (eof_read).
CleanIsWritten ==
  ~eof_read => \A i \in Loaded :
    /\ Locked /\ ino[i].state = "live" /\ ino[i].pos # Nothing /\ ~ino[i].dirty /\ wb.i # i
    => disk[ino[i].pos].start = ino[i].start /\ disk[ino[i].pos].dir = ino[i].dir

\* The chain that a reader of the entry gets: the inode's, if it is in memory.
ChainAt(p) ==
  IF Hashed(p) # {} THEN ino[CHOOSE i \in Hashed(p) : TRUE].start ELSE disk[p].start

\* No file or directory starts with a cluster that is free, and no two start
\* with the same one.  fat_free_eofblocks writes the entry "to avoid any
\* corruption on the next access to the cluster chain for the file" (inode.c).
ChainsAlwaysOwned ==
  Locked => \A p \in Positions : disk[p] # Nothing /\ ChainAt(p) # Nothing =>
    /\ ChainAt(p) \in used
    /\ \A q \in Positions \ {p} : disk[q] # Nothing => ChainAt(q) # ChainAt(p)

\* The same, up to eof_read: through renames over files, exchanges, failed
\* creations, truncations and evictions.
ChainsOwned == ~eof_read => ChainsAlwaysOwned

\* A chain that is in use belongs to an entry, or to an inode that eviction
\* will free: it has no links left.  Excepted: eof_read; and a directory whose
\* link count was too high when another was renamed over it (miscounted): it
\* keeps a link, and eviction does not free its clusters.
NothingLeaks ==
  Locked /\ ~eof_read => \A c \in used \ miscounted :
    \/ \E p \in Positions : disk[p] # Nothing /\ ChainAt(p) = c
    \/ \E i \in Loaded : ino[i].start = c /\ ino[i].nlink = 0

\* ".." of every directory is the directory it is in, after renames and
\* exchanges between directories too, up to eof_read.
DotDotRight ==
  Locked /\ ~eof_read => \A p \in Positions : disk[p] # Nothing =>
    \A c \in Chains : ChainAt(p) = c /\ c \in {ino[i].start : i \in {i \in Hashed(p) : ino[i].dir}} =>
      dotdot[c] = disk[p].parent

\* i_nlink of a directory is what fat_subdirs would count.  Excepted: eof_read,
\* and the directories in which one was renamed over another (vfat_rename drops
\* no link when ".." stays), or that were read while the attribute of an
\* exchanged inode in them was unwritten; until they are read again.
NlinkCounts ==
  Locked /\ ~eof_read => \A d \in Loaded \cup {Root} :
    ino[d].dir /\ ino[d].state = "live" /\ ino[d].nlink > 0 /\ ino[d].start \notin miscounted =>
      ino[d].nlink = 2 + Cardinality({p \in Children(ino[d].start) :
                          IF Hashed(p) # {} THEN \E i \in Hashed(p) : ino[i].dir ELSE disk[p].dir})
=============================================================================

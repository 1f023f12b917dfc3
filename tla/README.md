# SuperRAID in TLA+

SuperRAID keeps the parameters of a vehicle computer in `/app_param`, a FAT
file system that exists twice, on partitions A and B.  Each partition is a
protected region followed by a 4 KiB footer with the SHA-256 of the region.
At boot `fsctl mount` verifies A, then B, mounts the first good one, tells
systemd that it is ready, and repairs the other one (Recovery) while the Apps
already run.  At power off the power path freezes the file system, seals the
active partition with a new footer and copies it over its peer.  Between the
two, nothing but the order of these steps protects the data against a loss of
power.  The modules here model that order, the two-thread digest everything
relies on, the release of the Apps, and the FAT driver under them: its write
gate, its allocator, its files and its directories.

Paths below are relative to `src/power-ctl/src/`.

## The system

| part | state | operations | what makes it hard |
|---|---|---|---|
| digest of a partition (`hash.c`) | a ring of 8 buffers, `head`, `tail`, `done`, `error` | `hash_sha256_fd`, `producer_thread`, `consumer_thread` | two threads and four atomics; a failure in either; a full ring |
| footer (`footer.c`) | one descriptor per partition | `read_descriptor`, `write_descriptor` | the footer and the region it describes reach the medium separately |
| A/B storage (`storage.c`) | the two partitions, the saved `vm.dirty_*`, `mounted_digest` | `mount_partition`, `recover_app_param`, `umount_partition` | power loss between any two block writes; failing I/O in the middle of a copy; Recovery and power off at the same time |
| command line (`fsctl.c`) | none | `mount`, `umount`, `seal`, `verify` | `umount` does not wait for Recovery |
| power path (`hb_powerctl_demo.c`) | none | wait for the mount service, prepare, go on | a 60 s timeout racing the end of Recovery; the transition goes on after a failure |
| App release (`lib/cache_my_data.c`, `storage.c`) | `force_pagecache` in each App, the units of systemd | wrappers of `fsync` and kin, the `SIGUSR2` handler, `release_app_services` | a unit changes its state between two calls over D-Bus; the signal may come before the handler is installed |
| FAT write gate (`fat/inode.c`, `fat/file.c`, `fat/namei_vfat.c`) | `write_gate`, `write_blocked` | `fat_begin_write`, `fat_end_write`, `fat_disable_write`, their callers | writers under way when the gate closes; paths that bypass it; nesting |
| FAT allocator (`fat/fatent.c`, `fat/misc.c`) | the FAT, `free_clusters`, `prev_free` | allocate, free, count, trim | a counter that may be stale; locks dropped in the middle of FITRIM |
| FAT files (`fat/cache.c`, `fat/inode.c`, `fat/file.c`) | `i_size`, `mmu_private`, `i_blocks`, the chain, an LRU of its extents | block mapping, `fallocate`, truncation, eviction | an invalidation racing a lookup that is under way; three sizes that must agree |
| FAT directories (`fat/dir.c`, `fat/namei_vfat.c`) | directory slots, negative dentries | create, lookup, remove, rename, slot search | several slots per name, aliases with number tails; an error between two of the writes |
| FAT inodes (`fat/inode.c`, `fat/namei_vfat.c`) | inodes hashed by the position of their entry | create, unlink, rename, exchange, writeback, eviction | the flusher and the shrinker run without the lock of the calls |

## Modules

| module | models | kind |
|---|---|---|
| `HashRing` | `hash_sha256_fd` and its two threads, one step per atomic access | component |
| `SuperRaid` | `mount_partition`, `recover_app_param`, `umount_partition`, the power path, the mounted file system, the medium | composition |
| `SnapshotStore` | what the two partitions promise together: one snapshot, replaced atomically | abstract specification |
| `FatGate` | the write gate of FAT and the calls that pass it, with the kernel's locks around them | component |
| `FatAlloc` | the FAT, its allocator, the count of free clusters, FITRIM | component |
| `FatFile` | one file: sizes, chain, extent cache, and the threads that map its blocks | component |
| `FatDir` | one directory, slot by slot | component |
| `Directory` | what a directory promises: a set of files under distinct names | abstract specification |
| `FatNames` | inodes and entries: the calls that change names against writeback and eviction | composition |
| `AppGate` | `release_app_services`, systemd's units, the preload library in each App | composition |
| `MC...` | one per component: the instance for TLC | |
| `HashRing_proofs`, `AppGate_proofs`, `FatGate_proofs` | theorems about the module they are named after | proofs |
| `SuperRaid_proofs`, `Prepare_proofs`, `Snapshot_proofs` | theorems about `SuperRaid`: the life cycle; Recovery and the power prepare; the refinement of `SnapshotStore` | proofs |
| `FatTable_proofs`, `FatAlloc_proofs` | lemmas and theorems about `FatAlloc` | proofs |

### HashRing

A chunk of the region is its index, a digest is the sequence of the chunks that
were hashed.  `head`, `tail`, `done`, `error` and `slots` are the fields of
`struct ring`; `p_*` and `c_*` are the locals of the two threads; `len`, `m_pc`
and `result` are the call of `hash_sha256_fd` itself.  A `pread` into a slot is
two steps, and in between the slot is `Torn`, so that a consumer that reads too
early is visible.  The atomics are sequentially consistent: the code's
acquire/release pairs order exactly the accesses the model orders.  The 32-bit
wrap of `head` and `tail` is not modelled; it needs a region of 2^32 chunks.

### SuperRaid

`payload` and `footer` are what a read of a partition returns, `d_payload` and
`d_footer` what survives a loss of power; `PersistBlock` and `PersistFooter` let
the device persist any unflushed cell at any time, `Flush` is an `fsync`.
`cache` is the file system its users see.  `f_pc` walks through `fsctl mount`,
`p_pc` through the power prepare.  The content of a block is the number of the
write that produced it, and SHA-256 is taken to be injective, so a digest is
the sequence of blocks that were hashed.

The environment is the constant `Env`, a set of hazards, because the design
states its guarantees for some environments and accepts losses in others:

| hazard | meaning |
|---|---|
| `boot_io` | a verify or a mount fails although the partition is good |
| `recovery_io` | an I/O step of Recovery fails |
| `early_writeback` | the kernel writes back in spite of the delayed `vm.dirty_*` profile |
| `slow_recovery` | the power transition overtakes Recovery after the 60 s wait |
| `evict` | `fat_evict_inode` changes the FAT after the freeze |
| `short_hash` | the digest misses the tail of the region (shown possible by `HashRing`) |
| `cli_umount` | `fsctl umount` is run by hand |
| `retry` | a prepare is followed by another one in the same boot |

The steps of the power prepare may always fail, power may always be lost, and a
power request may come at any time after the mount service has started.

### SnapshotStore

The abstract store has a `stable` snapshot, the `current` content while it is
mounted, and four actions: mount, modify, commit (the current content becomes
the stable one) and stop.  `SuperRaid` maps `stable` to what the next boot would
mount, and `current` to `cache`.

### FatGate

`SuperRaid` takes the write gate for one flag; `FatGate` looks inside.  A call
takes the lock the VFS holds around it (`vfs`), enters the gate (`gate`, for a
splice also `nested`), takes the lock of the operation (`inner`), works, and
returns; `fat_disable_write` takes the gate for writing, then `s_umount`, and
syncs.  A page fault leaves the gate with its page locked and dirty, and only
then does the page become writable, after which `Store` changes it without a
call.  `meta` counts the changes made under the gate, `page` those through the
mapping, `late` those of the two paths that take no gate: the eviction of an
unlinked inode and the recount by `statfs`.  `PreemptRt` chooses between the
kernel's two rw-semaphores; the target kernel (TODO.md:113) has the PREEMPT_RT
one.  A failed writeback may have written part of the changes and drops the page.

### FatAlloc

`fat` is the table itself.  One hold of `fat_lock` is one step, so an allocation
is one step and giving back what a failed one took is another; `held` is the
chain a call has in its hands in between.  `Found(k)` is the first `k` free
entries in the order of the search, which starts after `prev_free` and goes
around once.  `fat_chain_add` and `fat_free` write entries of their own chain
without `fat_lock`.  At mount the count and `prev_free` come from FSINFO and may
be wrong; `/app_param` is mounted without options, so the count is not relied on
until it was taken once.  FITRIM holds `fat_lock` from entry to entry and may
release it after each block of the FAT.  Left out: the packing of entries, the
second copy of the FAT (its errors are kept), the `discard` and `usefree`
options, and the range and `minlen` of FITRIM (it runs to the last cluster and
discards every run).

### FatFile

`chain` is the file's clusters, `i_size` and `mmu_private` count blocks,
`i_blocks` clusters.  `cache` is `cache_lru`, the most recent extent first.
Every thread has its own `fat_get_cluster` in `th[t]`: the reading of `i_start`
(`Enter`), the lookup in the cache (`Lookup`), each entry of the FAT it reads
(`Walk`), and the two holds of `cache_lru_lock` in `fat_cache_add` (`Add`,
`Allocated`) are steps of their own.  The holder of the
inode lock (`Writer`) writes at the end of the file, preallocates, truncates,
gives up a failed write, and is evicted and read again; the others map a block
under a page lock, or under `truncate_lock` in FIBMAP.  A truncation waits for
the locked pages beyond the new end, not for those before it.
`cache_valid_id` is present or earlier.  Which cluster an allocation gives is
any free one.  Direct I/O and the test for a chain without end are left out.

`races` records what the locks leave open, once it has happened: FIBMAP under way
while a failed write cuts the chain (`fibmap`), a cut that overtakes the
allocation for a copied extent (`readd`), a full cache with an empty list
(`reuse`).  The properties are about files without these; see below.

### FatDir and Directory

`slots` are the entries of one directory.  A name is what the code tells apart:
the 8.3 form made from it, whether the form is the name itself, and the number of
slots for its long form.  `seen` is what a pass over the slots reads; it is a
function of `slots`, kept in a variable only so that it is computed once.  The
calls run under `s_lock` and the directory's lock and are one step each, with
the ways in which they end early: no cluster, no alias, the largest size of a
directory, and in removals a block that cannot be mapped or read.  The latter
differ: `fat__get_entry` gives up at a block that cannot be mapped, and skips one
that cannot be read, so that `__fat_remove_entries` goes on with slots that are
not the name's (`skipped`).  Reads of lookups and readdir are taken not to fail.

`Directory` is a function from files to names that a call changes in one file.
`FatDir` implements it twice: by the names that readdir shows (`ShowsDirectory`)
and by the aliases (`KeepsFiles`).

### FatNames

The slots are gone; an entry is its directory, its first cluster and its kind,
at a position.  `ino` are the inodes in memory with `i_pos`, `i_start`,
`i_nlink`, the dirty flag and I_FREEING.  Create, mkdir, lookup, unlink and rmdir
are one step under `s_lock`.  A rename and an exchange are three: the new entry
is written and the inodes are detached; they are attached; they are marked dirty,
and `..`, the link counts and the old entry follow.  The flusher looks at `i_pos`
in between.  The flusher is three: it takes the inode, reads `i_pos`, and writes
the entry after comparing `i_pos` again under `inode_hash_lock`.  An eviction is
two, with lookups in between that do not find the inode.  Two variables record
the known exceptions when they happen: `eof_read` and `miscounted`, see below.

### AppGate

One step per call over D-Bus: `Query` reads a unit's state, `Kill` sends the
signal to whatever the unit has then, `Round` ends a poll.  Between them systemd
activates, forks and reaps, an App's constructor runs, and Apps sync.  The
release fails when the bus cannot be opened, the clock not be read or a call fails.
`SIGUSR2` ends a process whose constructor has not run.  `SuperRaid` has this as
one step, the end of the gate.

## Runs

| run | instance | shows |
|---|---|---|
| `hash_ring` | ring of 3, lengths 0, 1, 3, 7, fair | `HashedInOrder`, `ErrorsReported`, `MissingTailBounded`, `ReturnsUnlessInitFails` |
| `hash_ring_short_digest` | the same | violated: `DigestComplete` |
| `life_cycle` | 2 blocks, 3 modifications, no hazard, fair | `OneTrusted`, `RecoveryPowerExclusive`, `FrozenStable`, `AtomicSnapshot` (`SuperRaid` implements `SnapshotStore`), `PrepareTerminates`, `RecoveryTerminates` |
| `life_cycle_faults` | 2 blocks, 2 modifications, all hazards but `short_hash` and `cli_umount` | `ReleaseAfterPeerGood` |
| `life_cycle_cli` | 2 blocks, 2 modifications, all hazards but `evict`, `short_hash` and `retry` | `PreparedPairEqual`, `CopyOnlyFromSealed`, `TrustLostOnlyUnrepaired` |
| `fat_gate` | 3 threads, one call each of 8 kinds, one store, PREEMPT_RT, fair | `FrozenUnchanged`, `FrozenSynced`, `EveryCallReturns` |
| `fat_alloc` | 2 files, 3 clusters, up to 2 at a time, 3 entries per block, one I/O error | `ChainsDisjoint`, `CountExact`, `NoLeak`, `NoSpaceIsReal`, `TrimFreeInBlock` |
| `fat_file` | a writer and two other threads, 3 clusters of 2 blocks, a cache of 2, up to the first race | `CacheSound`, `MapsRight`, `BlocksExact`, `NoBug` |
| `fat_dir` | 4 names, 3 files, 6 slots in clusters of 2, one failed removal | `NamesFind`, `NegativeTrue`, `NoOrphans`, `ShowsDirectory`, `KeepsFiles` |
| `fat_names` | 3 inodes, 3 positions, 3 chains, 3 calls, two mounted trees | `OneInode`, `CleanIsWritten`, `ChainsOwned`, `NothingLeaks`, `DotDotRight`, `NlinkCounts` |
| `fat_names_eof` | the same | violated: `ChainsAlwaysOwned` |
| `app_gate` | 2 services, 3 polls, fair | `GateHolds`, `NormalOpen`, `ReleaseEnds` |

Bounds.  A ring of 3 with 7 chunks is filled, drained and wrapped twice; 1 and 3
are less than and equal to the ring, 0 takes the path without threads.  Two
blocks are the smallest region that can be torn; a write, a write during
Recovery and a write after it need 2 or 3 modifications.  The number of boots is
not bounded: a boot that writes nothing returns to a state already seen.  Three
threads in `FatGate` are a holder of the gate, a holder of a lock that the first
one needs, and a disable-write; the eight calls take the locks in every order
the code has.  Three clusters for two files that ask for two make an allocation
that gets only part of what it wants while another one is under way.  The files
of `FatAlloc` are interchangeable and its run uses that symmetry.  Three
clusters in `FatFile` make chains of as many extents as a cache of 2 holds, which
are cut and built anew elsewhere, and two other threads fill it while one of them
allocates; all three races are reached.  A constraint ends the search at a race,
which is sound: `races` is never reset and no property speaks of what follows.
Two blocks per cluster separate `mmu_private` from the end of the cluster.  The names
of `FatDir` are two long ones with the same basis (of one and of two slots), a
short one that is the first alias of both, and one that needs a long form only
for its case; in clusters of two slots a name can end at a cluster, cross one, or
need a new one.  Three calls in `FatNames` after a mount with two or three entries
are two renames and a change of a chain, with any number of lookups, writes and
evictions, and one of the trees has a directory in a directory, so that
directories are exchanged and renamed over each other between parents; its inodes,
the other threads of `FatFile` and the files of `FatDir` are interchangeable.  Two
services and three polls in `AppGate` are a service that is done in the first
poll beside one that is not done in the last.  `CHECK_DEADLOCK` is off where the
system may stop: `FatNames` when its calls are used up, `AppGate` when fsctl is
done and every App gone.

Fairness.  `HashRing` assumes that each thread and the caller are scheduled; the
spin loops call `sched_yield`.  `SuperRaid` assumes that the steps of `fsctl`,
of the power path and of the flusher threads happen when they stay possible.
Nothing is assumed of Apps, power requests, failures or the loss of power.
`FatGate` assumes that a thread inside a call is scheduled when it can go on.
`AppGate` assumes that fsctl is: its calls return or fail, and the poll has a
time limit.  Nothing is assumed of systemd and the Apps.

## What the violated runs show

* `hash_ring_short_digest`: the consumer loads `tail`, then `done` (hash.c:189-193).
  Chunks published between the two loads are not hashed, and the call succeeds.
  `MissingTailBounded` says how much can be missing: at most the ring.  The
  error makes a good partition fail its verify, and a seal may write a footer
  that no later verify accepts, to both partitions (`PreparedPairEqual` fails
  with `short_hash` in `Env`).
* `fat_names_eof`: the entry of a file that was preallocated and has no data is
  read by a lookup while the inode is evicted.  `fat_iget` does not find an inode
  that is being freed, and the new inode starts with the chain that the eviction
  frees, although fat/inode.c:675-680 writes the entry "to avoid any corruption
  on the next access to the cluster chain for the file".

The following results have no run of their own; each is a change of a constant or
of an exception in a property, and a reader can repeat it.  Those of `FatFile` need
the same exception in `UntilRace`.

* Digest.  `ReturnsUnlessInitFails` is as strong as it can be: a consumer that
  fails to initialise (hash.c:178-183) raises no flag, and the producer waits for
  a free slot for ever.
* Life cycle.  With `recovery_io`, `OneTrusted` fails: a Recovery that fails after
  it began to overwrite the peer restores the `vm.dirty_*` profile
  (storage.c:994-1001) while the Apps run, so their writes reach the only partition
  that verifies.  README.md:271 and 364 of the repository prescribe the restore and
  no repair.  With `slow_recovery` the unmount of the power transition does the
  same (hb_powerctl_demo.c:115-120 and 150).  `TrustLostOnlyUnrepaired` says that
  the last good partition is lost in no other way.  With `cli_umount` in `Env`, `RecoveryPowerExclusive` fails: `fsctl
  umount` enters the prepare without the wait; `life_cycle_cli` shows what still
  holds then.  With `retry`, `OneTrusted` fails: a prepare that failed in its copy
  has frozen and sealed the active partition and destroyed the peer, and a second
  one whose sync fails opens the gate again (fat/inode.c:260-261), against
  README.md:544 of the repository.  With `boot_io`, `AtomicSnapshot` fails: when
  both partitions verify and differ, a verify of A that fails once goes back to
  the older content.
* Gate.  `fat_evict_inode` takes no gate (fat/inode.c:692): after a freeze, the
  last reference of an inode whose unlink was under way when the gate closed
  frees its clusters.  TODO.md:62 (C5) lists references that outlive the freeze.
  With `PreemptRt = FALSE`, `EveryCallReturns` fails: `write_iter` holds the gate
  and waits for the inode lock, `setattr` holds that lock and queues at the gate
  behind a disable-write, which waits for `write_iter`.
* FITRIM.  `TrimFreeInBlock` is about the block at hand.  `fat_trim_fs` keeps its
  run of free entries while it lets others take `fat_lock` (fat/fatent.c:822-827),
  and discards the run later, with the clusters of earlier blocks that were
  allocated from it.
* Files.  Without the exception `fibmap`, `CacheSound`, `MapsRight` and `NoBug` fail:
  `fat_write_failed` truncates without `truncate_lock` (fat/inode.c:224), and
  FIBMAP adds an extent of the part that was cut off, returns a cluster of it, or
  finds a file without a first cluster.  Without `readd` everything holds in the
  run's instance, but with four clusters of one block `CacheSound` fails (56
  states): a reader has copied an extent, a full cache drops it, the reader's
  `fat_cache_add` counts a new one and gives up the lock, a truncation empties the
  cache, and the extent is inserted without a second look at its id
  (fat/cache.c:150-167) just before the chain is cut inside it.  In `reuse` the
  code takes the head of an empty list for an extent (fat/cache.c:169-170) and
  writes through it; the model does not follow it further.
* Directory slots.  After a removal that deleted the short name and could not map
  the long one (fat/dir.c:1059-1063, "This directory entry is already removed, and
  so return the success"), a later file with the same alias and no long name
  takes up the pieces that are left; hence `errors = 0` in `NamesFind`,
  `NegativeTrue` and `ShowsDirectory`.  A removal that meets a block it cannot
  read deletes slots of the files behind it (fat/dir.c:104, "skip this block");
  hence `skipped` in `KeepsFiles`.
* Inodes.  All properties but `OneInode` end at `eof_read`, the case of
  `fat_names_eof`.  `miscounted` are directories with a wrong link count: one
  renamed over another in the same directory leaves the parent's count as it was,
  and a directory is counted wrongly when it is read while an exchanged inode in it
  is not written.  `NlinkCounts` leaves them out, and `NothingLeaks` their chains:
  such a directory, when another is renamed over it, keeps a link and its clusters.
* Apps.  `NormalOpen` has three exceptions.  A service found inactive before
  systemd has dispatched its job is skipped, and its process, like one started
  again later, keeps its gate on; the README of the repository (395) limits the
  gate to the repair at boot.  After the time limit fsctl goes on to NORMAL with
  gates on.  And a process that the signal meets before its constructor has run
  (lib/cache_my_data.c:89) is ended by it.  A `KillUnit` that fails for one App
  makes the release fail for the ones behind it (storage.c:873).

## Theorems

`HashRing_proofs`, for every number of slots and every set of lengths:
`RingInvariant`, and from it `TypeCorrect`, `InOrder` (`HashedInOrder`),
`NoErrorLost` (`ErrorsReported`) and `TailBounded` (`MissingTailBounded`).  The
inductive invariant `RingInv` adds to the properties that the positions differ
by at most the ring (`RingBounds`), that each slot between `head` and `tail`
holds its chunk (`SlotsHold`), how the length of the digest follows `head`
(`HashedLength`), who may have been joined (`Joined`), and that `done` without
an error means that the producer published everything (`ProducerComplete`).

`SuperRaid_proofs`, for every number of blocks and modifications: `TypeCorrect`
for every `Env`, and under `Env \subseteq {"boot_io"}` (`Calm`) `LifeInvariant`
and from it `AlwaysBootable` (`OneTrusted`).  `OneTrusted` is not
inductive: which partition is good depends on the phase.  `LifeInv` says it
phase by phase: before READY=1 nothing was written (`QuietBeforeApps`); during
Recovery the active partition is the verified snapshot (`RecoverySource`), and
the peer is a growing copy of it (`RecoveryProgress`); after Recovery the peer is
good until the active one is sealed (`PeerOrActive`); the power path works only
after Recovery (`PowerPhases`), seals what it hashed (`SealProgress`) and copies
what it sealed (`PowerCopyProgress`).

`Prepare_proofs`, for every number of blocks and modifications, and for every
`Env` but the hazards named in the assumption of the theorem:

| theorem | property | excluded hazards |
|---|---|---|
| `PeerGoodBeforeRelease` | `ReleaseAfterPeerGood` | `short_hash`, `cli_umount` (`WaitedFor`) |
| `Exclusive` | `RecoveryPowerExclusive` | `short_hash`, `cli_umount` (`WaitedFor`) |
| `FreezeHolds` | `FrozenStable` | `evict` (`NoEvict`) |
| `PreparedEqual` | `PreparedPairEqual` | `evict`, `short_hash` (`NoEvict`, `WholeDigest`) |
| `CopyFromSealed` | `CopyOnlyFromSealed` | `evict`, `short_hash` (`NoEvict`, `WholeDigest`) |

So I/O errors, early writeback, an overtaken Recovery and repeated prepares harm
none of them.  Each has an inductive invariant of its own, since `LifeInv` does
not hold with these hazards.  `PeerInv` says who may write to the peer: nobody
but fsctl until the power path is past its wait, so the peer that the last verify
of Recovery found good is still good at the release.  `FreezeInv` says that from
the freeze on the region on the medium, the region in the cache of the device and
the file system are the same, and that nothing is left that could change them.
`SealInv` adds how far the seal and the copy have come; with `cli_umount` Recovery
may be at work at the same time, and what keeps it from the peer is that it was
opened exclusively (`PeerHeldByPower`, `PeerHeldByFsctl`).

`Snapshot_proofs`, for every number of blocks and modifications and `Env = {}`
(`NoHazard`): `SnapshotIsAtomic`, that `SuperRaid` implements `SnapshotStore`
(`AtomicSnapshot`).  `LifeInv` does not exclude that a partition which stopped
verifying verifies again later with old content, when the device persists the
cells of a copy in any order.  `SnapshotInv` does: while a partition is
overwritten with an image, each block of the region is the old one or that of
the image, and so is the footer (`Mixed`, `Overwriting`), so the partition
verifies only as what it was or as the image.  It also says in which phase the
snapshot is the peer (`OldSnapshot`), the footer of the new one is on its way
(`NewFooter`), or the active partition is sealed (`NewSnapshot`), and that B is
a candidate only when A does not verify (`CandidateInOrder`).  Each step is then
a stutter or one step of the store; the commit is the write that makes A verify
with the new content or stop verifying with the old one.

`FatGate_proofs`, for every set of threads and calls and both semaphores:
`GateInvariant`, and from it `TypeCorrect`, `Unchanged` (`FrozenUnchanged`) and
`Synced` (`FrozenSynced`).  `GateInv` says who holds the gate at which step
(`ReadersWhere`, `WriterWhere`), that a page stays locked and dirty from
`fat_page_mkwrite` until it is writable (`FaultHolds`), so that the sync of the
freeze cannot miss it, and that after the freeze nobody is inside
(`FrozenQuiet`).

`FatAlloc_proofs`, for every number of files, clusters and errors:
`CountInvariant`, and from it `TypeCorrect`, `Counted` (`CountExact`),
`RefusedForLackOfSpace` (`NoSpaceIsReal`) and `TrimmedFree` (`TrimFreeInBlock`).
The argument is that every step moves a set of entries into or out of the free
ones and counts that set, and that chains are linked and cut only at entries in
use.  `TableInvariant`, and from it `Disjoint` (`ChainsDisjoint`) and
`NoClusterLeaks` (`NoLeak`).  That chains are disjoint is not inductive: a link
to the middle of another chain is excluded by what the entries are, not by which
chains there are.  `LinkInv` says it of the entries: no entry is the next one of
two others, a link leads to an entry in use (`Linear`), and each file and each
call under way starts at an entry that nothing links to (`Head`), a different
one each.  From this a walk along the links meets no cluster twice, so it ends
within the number of clusters, and two walks never meet (`Meet`, `Stops`,
`ChainOf`, `Apart`).  Each step then adds or removes links at the two ends of a
chain that is in the hands of one call; `NoLeak` follows because the chains of
the new state cover those of the old one (`Grows`).  The lemmas are in
`FatTable_proofs`.  They take what they need of the library of finite sets as one
assumption, `FiniteFacts`, which `FatAlloc_proofs` proves (`FiniteFactsHold`)
before it draws the conclusions.

`AppGate_proofs`, for every number of services and polls: `ReleaseInvariant`, and
from it `TypeCorrect`, `GatedDuringRecovery` (`GateHolds`) and `OpenAtNormal`
(`NormalOpen`).  The invariant says what a service that is marked completed has:
no process, one that was started late, the signal on its way or the gate off.

Only model-checked: the liveness properties, which are out of the prover's reach;
`TrustLostOnlyUnrepaired`, whose hazards break `LifeInv`; and
`FatFile`, `FatDir` and `FatNames`.  The properties of `FatFile` and `FatDir` are
about sequences that are built and searched element by element (an LRU list, the
slots of a name), whose proofs need an induction over data at each step.  Those of
`FatNames` have no proof yet: they need an invariant for every pair of a call, a
write and an eviction under way, and a link count is a cardinality.

## Not modelled

The SHA-256 and CRC32C functions and the layout of the footer, which are
computations without state; path, size and sysfs checks, which are part of the
steps that may fail; logging; the conversion of names between character sets,
times and attributes; the parsing of mount options and of the boot sector, which
happens once and in one thread; direct I/O; the directory ioctls; the `dirsync`,
`discard` and `usefree` options, the short-name (`namei_msdos.c`) and NFS
(`nfs.c`) parts of FAT, which `/app_param` does not use; the test programs.

------------------------------- MODULE FatGate -------------------------------
(***************************************************************************)
(* The write gate of the FAT file system (fat/inode.c: fat_begin_write,    *)
(* fat_end_write, fat_disable_write) and the calls that pass it, as they   *)
(* interleave in the kernel.  A call takes, in this order, the lock the    *)
(* VFS takes for it, the gate, the lock the operation takes itself, and    *)
(* then changes the file system.  What it changes is a counter: the        *)
(* properties only tell whether memory changed and whether the medium has  *)
(* it.  A shared mapping changes a page without any call, as long as its   *)
(* page table entry is writable.                                           *)
(***************************************************************************)
EXTENDS Naturals

CONSTANTS
  Threads,       \* threads that call into the file system
  NoThread,      \* the holder of a free lock
  Ops,           \* the calls they make, a subset of AllOps
  MaxCalls,      \* bound on the number of calls of a thread
  MaxStores,     \* bound on the number of stores through a mapping
  PreemptRt      \* the kernel's rw_semaphore is the PREEMPT_RT one

InodeOps == {"write_iter", "splice_write", "fallocate", "set_attributes"}
NameOps == {"create", "unlink", "mkdir", "rmdir", "rename"}
Unlinking == {"unlink", "rmdir", "rename"}
GatedOps == InodeOps \cup NameOps \cup {"setattr", "fitrim", "page_mkwrite"}
AllOps == GatedOps \cup {"statfs", "disable_write", "sync"}

ASSUME FatGateAssumption ==
  /\ NoThread \notin Threads
  /\ Ops \subseteq AllOps
  /\ MaxCalls \in Nat /\ MaxStores \in Nat
  /\ PreemptRt \in BOOLEAN

Locks == {"inode", "dir", "s_lock", "folio", "fat_lock", "s_umount"}

VARIABLES
  pc, op,             \* where each thread is, and in which call
  calls,              \* how many calls it has made
  readers, writer,    \* write_gate: read holds per thread, the write holder
  lock,               \* holder of each other lock
  write_blocked,
  meta, page,         \* changes made under the gate, and through a mapping
  late,               \* changes made by the paths that take no gate, after a freeze too
  d_meta, d_page,     \* the changes the medium has
  wb_failed,          \* a writeback has failed since the mount
  pte, dirty,         \* the mapped page is writable, is dirty
  exact               \* FSINFO holds the right count of free clusters

threads == <<pc, op, calls>>
gate == <<readers, writer, write_blocked>>
medium == <<d_meta, d_page, wb_failed>>
mapping == <<page, pte, dirty>>
ungated == <<late, exact>>
vars == <<threads, gate, lock, meta, medium, mapping, ungated>>

Pcs == {"idle", "vfs", "gate", "nested", "inner", "work", "fault", "return",
        "return_iput", "iput", "gate_write", "s_umount", "sync"}

Init ==
  /\ pc = [t \in Threads |-> "idle"]
  /\ op = [t \in Threads |-> "statfs"]
  /\ calls = [t \in Threads |-> 0]
  /\ readers = [t \in Threads |-> 0] /\ writer = NoThread
  /\ lock = [l \in Locks |-> NoThread]
  /\ write_blocked = FALSE
  /\ meta = 0 /\ page = 0 /\ d_meta = 0 /\ d_page = 0
  /\ pte = FALSE /\ dirty = FALSE
  /\ exact \in BOOLEAN /\ late = 0 /\ wb_failed = FALSE
-----------------------------------------------------------------------------
(* The rw_semaphore.  A PREEMPT_RT reader is admitted until the writer has *)
(* the semaphore; otherwise a reader queues behind a waiting writer        *)
(* as long as other readers hold it.                                       *)

Writers == {t \in Threads : pc[t] = "gate_write"}
NoReaders == \A t \in Threads : readers[t] = 0

CanRead ==
  /\ writer = NoThread
  /\ PreemptRt \/ Writers = {} \/ NoReaders

Free(l) == lock[l] = NoThread
-----------------------------------------------------------------------------
(* The locks of a call.                                                    *)

\* The inode lock the VFS holds around the inode operation.
VfsLock(o) == IF o = "setattr" THEN {"inode"} ELSE IF o \in NameOps THEN {"dir"} ELSE {}

\* The lock the operation takes after it has passed the gate.
InnerLock(o) ==
  CASE o \in InodeOps -> {"inode"}
    [] o \in NameOps -> {"s_lock"}
    [] o = "page_mkwrite" -> {"folio"}
    [] o \in {"fitrim", "statfs"} -> {"fat_lock"}
    [] OTHER -> {}

FirstPc(o) ==
  CASE o = "disable_write" -> "gate_write"
    [] o = "sync" -> "s_umount"
    [] o = "statfs" -> "inner"
    [] OTHER -> "vfs"

Take(t, ls) ==
  /\ \A l \in ls : Free(l)
  /\ lock' = [l \in Locks |-> IF l \in ls THEN t ELSE lock[l]]

DropAll(t) == lock' = [l \in Locks |-> IF lock[l] = t THEN NoThread ELSE lock[l]]

Call(t, o) ==
  /\ pc[t] = "idle" /\ calls[t] < MaxCalls
  /\ op' = [op EXCEPT ![t] = o]
  /\ pc' = [pc EXCEPT ![t] = FirstPc(o)]
  /\ calls' = [calls EXCEPT ![t] = @ + 1]
  /\ UNCHANGED <<gate, lock, meta, medium, mapping, ungated>>

TakeVfsLock(t) ==
  /\ pc[t] = "vfs" /\ Take(t, VfsLock(op[t]))
  /\ pc' = [pc EXCEPT ![t] = "gate"]
  /\ UNCHANGED <<op, calls, gate, meta, medium, mapping, ungated>>

\* down_read without the check of write_blocked.
fat_begin_write_unchecked(t) ==
  /\ pc[t] = "gate" /\ CanRead
  /\ readers' = [readers EXCEPT ![t] = @ + 1]
  /\ pc' = [pc EXCEPT ![t] = IF op[t] = "splice_write" THEN "nested" ELSE "inner"]
  /\ UNCHANGED <<op, calls, writer, write_blocked, lock, meta, medium, mapping, ungated>>

\* A blocked gate is left again at once and the call fails with -EROFS.
fat_begin_write(t) ==
  /\ pc[t] = "gate" /\ CanRead
  /\ IF write_blocked
     THEN pc' = [pc EXCEPT ![t] = "return"] /\ UNCHANGED readers
     ELSE /\ readers' = [readers EXCEPT ![t] = @ + 1]
          /\ pc' = [pc EXCEPT ![t] = IF op[t] = "splice_write" THEN "nested" ELSE "inner"]
  /\ UNCHANGED <<op, calls, writer, write_blocked, lock, meta, medium, mapping, ungated>>

\* fat_file_splice_write holds the gate when iter_file_splice_write calls
\* fat_file_write_iter, which enters it again.
nested_begin_write(t) ==
  /\ pc[t] = "nested" /\ CanRead
  /\ readers' = [readers EXCEPT ![t] = @ + 1]
  /\ pc' = [pc EXCEPT ![t] = IF write_blocked THEN "return" ELSE "inner"]
  /\ UNCHANGED <<op, calls, writer, write_blocked, lock, meta, medium, mapping, ungated>>

TakeInnerLock(t) ==
  /\ pc[t] = "inner" /\ Take(t, InnerLock(op[t]))
  /\ pc' = [pc EXCEPT ![t] = "work"]
  /\ UNCHANGED <<op, calls, gate, meta, medium, mapping, ungated>>
-----------------------------------------------------------------------------
(* What the calls do.                                                      *)

\* An error path without fat_end_write.
ReturnInGate(t) ==
  /\ pc[t] \in {"return", "return_iput"}
  /\ DropAll(t)
  /\ pc' = [pc EXCEPT ![t] = IF pc[t] = "return_iput" THEN "iput" ELSE "idle"]
  /\ UNCHANGED <<op, calls, gate, meta, medium, mapping, ungated>>

\* fat_end_write(s), and the locks of the operation and of the VFS.  The VFS
\* drops its reference to an inode that lost its name after that.
Return(t) ==
  /\ pc[t] \in {"return", "return_iput"}
  /\ readers' = [readers EXCEPT ![t] = 0]
  /\ DropAll(t)
  /\ pc' = [pc EXCEPT ![t] = IF pc[t] = "return_iput" THEN "iput" ELSE "idle"]
  /\ UNCHANGED <<op, calls, writer, write_blocked, meta, medium, mapping, ungated>>

\* A write, a change of attributes or of a directory; it may also fail
\* before it has changed anything.
Modify(t) ==
  /\ pc[t] = "work" /\ op[t] \in GatedOps \ {"page_mkwrite"}
  /\ \/ meta' = meta /\ pc' = [pc EXCEPT ![t] = "return"]
     \/ /\ meta' = meta + 1
        /\ \E r \in {"return"} \cup (IF op[t] \in Unlinking THEN {"return_iput"} ELSE {}) :
             pc' = [pc EXCEPT ![t] = r]
  /\ UNCHANGED <<op, calls, gate, lock, medium, mapping, ungated>>

\* The page is marked dirty only after fat_end_write.
page_mkwrite_late_dirty(t) ==
  /\ pc[t] = "work" /\ op[t] = "page_mkwrite"
  /\ readers' = [readers EXCEPT ![t] = 0]
  /\ pc' = [pc EXCEPT ![t] = "fault"]
  /\ UNCHANGED <<op, calls, writer, write_blocked, lock, meta, medium, page, pte, dirty, ungated>>

\* filemap_page_mkwrite dirties the page and returns it locked; then
\* fat_page_mkwrite leaves the gate.
fat_page_mkwrite(t) ==
  /\ pc[t] = "work" /\ op[t] = "page_mkwrite"
  /\ dirty' = TRUE
  /\ readers' = [readers EXCEPT ![t] = 0]
  /\ pc' = [pc EXCEPT ![t] = "fault"]
  /\ UNCHANGED <<op, calls, writer, write_blocked, lock, meta, medium, page, pte, ungated>>

\* The fault handler makes the entry writable and unlocks the page.
FinishFault(t) ==
  /\ pc[t] = "fault"
  /\ pte' = TRUE /\ dirty' = TRUE
  /\ DropAll(t)
  /\ pc' = [pc EXCEPT ![t] = "idle"]
  /\ UNCHANGED <<op, calls, gate, meta, medium, page, ungated>>

Store ==
  /\ pte /\ page < MaxStores
  /\ page' = page + 1
  /\ UNCHANGED <<threads, gate, lock, meta, medium, pte, dirty, ungated>>

\* statfs counts the free clusters, unless it did so before, and marks FSINFO
\* dirty.
fat_statfs(t) ==
  /\ pc[t] = "work" /\ op[t] = "statfs"
  /\ late' = IF exact THEN late ELSE late + 1
  /\ exact' = TRUE
  /\ pc' = [pc EXCEPT ![t] = "return"]
  /\ UNCHANGED <<op, calls, gate, lock, meta, medium, mapping>>

\* The last reference to the inode goes away.  An unlinked one loses its
\* clusters; while somebody else has it open, this waits for the close.
fat_evict_inode(t) ==
  /\ pc[t] = "iput"
  /\ late' = late + 1
  /\ pc' = [pc EXCEPT ![t] = "idle"]
  /\ UNCHANGED <<op, calls, gate, lock, meta, medium, mapping, exact>>
-----------------------------------------------------------------------------
(* fat_disable_write, and a sync that is not its own.                      *)

DisableLock(t) ==
  /\ pc[t] = "gate_write" /\ writer = NoThread /\ NoReaders
  /\ writer' = t /\ write_blocked' = TRUE
  /\ pc' = [pc EXCEPT ![t] = "s_umount"]
  /\ UNCHANGED <<op, calls, readers, lock, meta, medium, mapping, ungated>>

TakeUmountLock(t) ==
  /\ pc[t] = "s_umount" /\ Take(t, {"s_umount"})
  /\ pc' = [pc EXCEPT ![t] = "sync"]
  /\ UNCHANGED <<op, calls, gate, meta, medium, mapping, ungated>>

\* The writeback of a dirty page locks it and write-protects its mappings.
SyncFilesystem ==
  /\ dirty => Free("folio")
  /\ d_meta' = meta /\ d_page' = IF dirty THEN page ELSE d_page
  /\ pte' = (pte /\ ~dirty) /\ dirty' = FALSE

ReleaseWriter(t) == writer' = IF writer = t THEN NoThread ELSE writer

SyncDone(t) ==
  /\ pc[t] = "sync"
  /\ SyncFilesystem
  /\ DropAll(t) /\ ReleaseWriter(t)
  /\ pc' = [pc EXCEPT ![t] = "idle"]
  /\ UNCHANGED <<op, calls, readers, write_blocked, meta, page, wb_failed, ungated>>

\* The sync or the flush fails: fat_disable_write opens the gate again.  A page
\* that could not be written is clean afterwards.
SyncFails(t) ==
  /\ pc[t] = "sync"
  /\ dirty => Free("folio")
  /\ d_meta' \in {d_meta, meta} /\ d_page' \in {d_page, page}
  /\ wb_failed' = TRUE
  /\ pte' = (pte /\ ~dirty) /\ dirty' = FALSE
  /\ write_blocked' = (write_blocked /\ op[t] # "disable_write")
  /\ DropAll(t) /\ ReleaseWriter(t)
  /\ pc' = [pc EXCEPT ![t] = "idle"]
  /\ UNCHANGED <<op, calls, readers, meta, page, ungated>>
-----------------------------------------------------------------------------
Step(t) ==
  \/ TakeVfsLock(t) \/ fat_begin_write(t) \/ nested_begin_write(t) \/ TakeInnerLock(t)
  \/ Modify(t) \/ fat_page_mkwrite(t) \/ FinishFault(t) \/ fat_statfs(t) \/ fat_evict_inode(t)
  \/ DisableLock(t) \/ TakeUmountLock(t) \/ SyncDone(t) \/ SyncFails(t) \/ Return(t)

Next == Store \/ \E t \in Threads : Step(t) \/ \E o \in Ops : Call(t, o)

Spec == Init /\ [][Next]_vars

\* A call under way goes on; nobody has to make a call.
FairSpec == Spec /\ \A t \in Threads : WF_vars(Step(t))
-----------------------------------------------------------------------------
(* The variables have their types.                                         *)
TypeOK ==
  /\ pc \in [Threads -> Pcs] /\ op \in [Threads -> AllOps] /\ calls \in [Threads -> Nat]
  /\ readers \in [Threads -> 0 .. 2] /\ writer \in Threads \cup {NoThread}
  /\ lock \in [Locks -> Threads \cup {NoThread}] /\ write_blocked \in BOOLEAN
  /\ meta \in Nat /\ page \in Nat /\ d_meta \in Nat /\ d_page \in Nat
  /\ pte \in BOOLEAN /\ dirty \in BOOLEAN
  /\ exact \in BOOLEAN /\ late \in Nat /\ wb_failed \in BOOLEAN

\* FAT_IOCTL_DISABLE_WRITE has returned 0.
Frozen == write_blocked /\ writer = NoThread

(* After disable-write has returned, nothing that takes the gate changes   *)
(* the file system: no call that was under way when the gate closed, no    *)
(* later call, and no store through a mapping that was writable before.    *)
FrozenUnchanged == [][Frozen /\ Frozen' => UNCHANGED <<meta, page>>]_vars

(* After disable-write has returned, the medium has every change that the  *)
(* gated calls and the mappings made before, unless a writeback failed     *)
(* earlier and its pages were dropped.                                     *)
FrozenSynced == Frozen /\ ~wb_failed => d_meta = meta /\ d_page = page

(* Every call returns, disable-write among them: the gate, the VFS locks   *)
(* and the locks of the operations never wait for each other in a circle.  *)
EveryCallReturns == \A t \in Threads : pc[t] # "idle" ~> pc[t] = "idle"
-----------------------------------------------------------------------------
(* The invariant behind FrozenUnchanged and FrozenSynced: who holds the    *)
(* gate where, and why no page can still become writable after a freeze.   *)

\* Between fat_begin_write and fat_end_write a call holds the gate.
ReadersWhere ==
  \A t \in Threads :
    /\ pc[t] \in {"idle", "vfs", "gate", "fault", "iput", "gate_write", "s_umount", "sync"} => readers[t] = 0
    /\ pc[t] = "nested" => readers[t] = 1
    /\ pc[t] \in {"inner", "work"} /\ op[t] \in GatedOps => readers[t] # 0
    /\ pc[t] \in {"vfs", "gate", "nested", "inner", "work"} => op[t] \in GatedOps \cup {"statfs"}

WriterWhere ==
  /\ writer # NoThread =>
       /\ write_blocked /\ NoReaders
       /\ pc[writer] \in {"s_umount", "sync"} /\ op[writer] = "disable_write"
  /\ \A t \in Threads :
       /\ pc[t] = "gate_write" => op[t] = "disable_write"
       /\ pc[t] \in {"s_umount", "sync"} /\ op[t] = "disable_write" => writer = t

\* From filemap_page_mkwrite on, the page is dirty and locked until it is writable.
FaultHolds ==
  /\ \A t \in Threads :
       /\ pc[t] = "work" /\ op[t] = "page_mkwrite" => lock["folio"] = t
       /\ pc[t] = "fault" => lock["folio"] = t /\ dirty
  /\ pte => dirty
  /\ ~dirty /\ ~wb_failed => d_page = page

FrozenQuiet ==
  Frozen => /\ NoReaders /\ ~dirty
            /\ ~wb_failed => d_meta = meta

GateInv == TypeOK /\ ReadersWhere /\ WriterWhere /\ FaultHolds /\ FrozenQuiet
=============================================================================

--------------------------- MODULE FatGate_proofs ---------------------------
(***************************************************************************)
(* Proofs about FatGate, for any set of threads and any calls: GateInv is  *)
(* inductive, and what it says of a frozen file system.                    *)
(***************************************************************************)
EXTENDS FatGate, TLAPS

\* The provers that are tried, in turn, on a leaf that names none.
USE SMTT(10), ZenonT(20), SMTT(20), ZenonT(40), SMTT(40)

USE DEF Locks

(* The gate is free and the file system unfrozen when it is mounted.       *)
LEMMA InitInv == Init => GateInv
  <1> SUFFICES ASSUME Init PROVE GateInv
    OBVIOUS
  <1>1. TypeOK
    <2>1. /\ pc \in [Threads -> Pcs] /\ op \in [Threads -> AllOps]
          /\ calls \in [Threads -> Nat] /\ readers \in [Threads -> 0 .. 2]
          /\ lock \in [Locks -> Threads \cup {NoThread}]
      BY DEF Init, Pcs, AllOps
    <2> QED
      BY Zenon, ZenonT(60), <2>1 DEF Init, TypeOK
  <1>2. ReadersWhere /\ WriterWhere /\ FaultHolds /\ FrozenQuiet
    BY DEF Init, ReadersWhere, WriterWhere, FaultHolds, FrozenQuiet, Frozen
  <1> QED
    BY <1>1, <1>2 DEF GateInv

(* A call that starts holds nothing yet.                                   *)
LEMMA CallStep ==
  ASSUME GateInv, NEW t \in Threads, NEW o \in AllOps, Call(t, o)
  PROVE  GateInv'
  <1> USE DEF GateInv
  <1>1. FirstPc(o) \in {"gate_write", "s_umount", "inner", "vfs"}
    BY DEF FirstPc
  <1>2. TypeOK'
    BY <1>1 DEF TypeOK, Call, gate, medium, mapping, ungated, Pcs
  <1>3. ReadersWhere'
    BY <1>1 DEF TypeOK, Call, gate, ReadersWhere, FirstPc, GatedOps, InodeOps, NameOps, AllOps
  <1>4. WriterWhere'
    BY <1>1 DEF TypeOK, Call, gate, WriterWhere, FirstPc, NoReaders
  <1>5. FaultHolds' /\ FrozenQuiet'
    BY <1>1 DEF TypeOK, Call, gate, medium, mapping, FaultHolds, FrozenQuiet, Frozen, NoReaders
  <1> QED
    BY <1>2, <1>3, <1>4, <1>5

(* The locks of the VFS and of the operation leave the gate alone.         *)
LEMMA LockStep ==
  ASSUME GateInv, NEW t \in Threads, TakeVfsLock(t) \/ TakeInnerLock(t) \/ TakeUmountLock(t)
  PROVE  GateInv'
  <1> USE DEF GateInv
  <1>0. /\ lock' \in [Locks -> Threads \cup {NoThread}]
        /\ lock["folio"] # NoThread => lock'["folio"] = lock["folio"]
    BY FatGateAssumption DEF TypeOK, TakeVfsLock, TakeInnerLock, TakeUmountLock, Take, Free
  <1>1. TypeOK'
    BY <1>0 DEF TypeOK, TakeVfsLock, TakeInnerLock, TakeUmountLock, gate, medium, mapping, ungated, Pcs
  <1>2. ReadersWhere' /\ WriterWhere'
    BY DEF TypeOK, TakeVfsLock, TakeInnerLock, TakeUmountLock, gate, ReadersWhere, WriterWhere, NoReaders
  <1>3. FaultHolds'
    <2>1. op[t] = "page_mkwrite" /\ pc[t] = "inner" => lock'["folio"] = t
      BY DEF TypeOK, TakeVfsLock, TakeInnerLock, TakeUmountLock, Take, InnerLock, InodeOps, NameOps
    <2> QED
      BY <1>0, <2>1, FatGateAssumption
      DEF TypeOK, TakeVfsLock, TakeInnerLock, TakeUmountLock, gate, medium, mapping, FaultHolds
  <1>4. FrozenQuiet'
    BY Zenon, ZenonT(60) DEF TypeOK, TakeVfsLock, TakeInnerLock, TakeUmountLock, gate, medium, mapping,
           FrozenQuiet, Frozen, NoReaders
  <1> QED
    BY <1>1, <1>2, <1>3, <1>4

(* fat_begin_write: the gate is entered only while no writer holds it, and *)
(* never when writes are blocked.                                          *)
LEMMA BeginStep ==
  ASSUME GateInv, NEW t \in Threads, fat_begin_write(t) \/ nested_begin_write(t)
  PROVE  GateInv'
  <1> USE DEF GateInv
  <1>1. /\ readers' \in [Threads -> 0 .. 2]
        /\ \A s \in Threads : s # t => readers'[s] = readers[s]
    BY DEF TypeOK, ReadersWhere, fat_begin_write, nested_begin_write
  <1>2. pc[t] = "nested" => ~write_blocked
    BY DEF TypeOK, ReadersWhere, FrozenQuiet, Frozen, NoReaders,
           fat_begin_write, nested_begin_write, CanRead
  <1>3. TypeOK'
    BY <1>1 DEF TypeOK, fat_begin_write, nested_begin_write, medium, mapping, ungated, Pcs
  <1>4. ReadersWhere'
    BY <1>1, <1>2 DEF TypeOK, fat_begin_write, nested_begin_write, ReadersWhere
  <1>5. WriterWhere'
    BY <1>1 DEF TypeOK, fat_begin_write, nested_begin_write, WriterWhere, CanRead, NoReaders
  <1>6. FaultHolds'
    BY DEF TypeOK, fat_begin_write, nested_begin_write, FaultHolds, medium, mapping
  <1>7. FrozenQuiet'
    BY Zenon, ZenonT(60), <1>1, <1>2 DEF TypeOK, fat_begin_write, nested_begin_write, FrozenQuiet, Frozen, NoReaders, medium, mapping
  <1> QED
    BY <1>3, <1>4, <1>5, <1>6, <1>7

(* The calls that change the file system hold the gate, so the gate has no *)
(* writer and is not frozen.                                               *)
LEMMA InGate ==
  ASSUME GateInv, NEW t \in Threads, readers[t] # 0
  PROVE  writer = NoThread /\ ~write_blocked
  BY DEF GateInv, WriterWhere, FrozenQuiet, Frozen, NoReaders

(* What a gated call, a mapping fault and the paths without a gate do.     *)
LEMMA WorkStep ==
  ASSUME GateInv, NEW t \in Threads,
         Modify(t) \/ fat_statfs(t) \/ fat_evict_inode(t)
  PROVE  GateInv'
  <1> USE DEF GateInv
  <1>1. /\ pc' \in [Threads -> Pcs] /\ \A s \in Threads : s # t => pc'[s] = pc[s]
        /\ pc'[t] \in {"return", "return_iput"} \/ (pc[t] = "iput" /\ pc'[t] = "idle")
        /\ pc[t] \in {"work", "iput"}
    <2>1. \/ pc[t] = "work" /\ pc' = [pc EXCEPT ![t] = "return"]
          \/ pc[t] = "work" /\ pc' = [pc EXCEPT ![t] = "return_iput"]
          \/ pc[t] = "iput" /\ pc' = [pc EXCEPT ![t] = "idle"]
      BY DEF Modify, fat_statfs, fat_evict_inode
    <2>2. pc \in [Threads -> Pcs]
      BY DEF TypeOK
    <2> QED
      BY <2>1, <2>2 DEF Pcs
  <1>2. meta' # meta => ~write_blocked
    <2>1. meta' # meta => readers[t] # 0
      BY DEF ReadersWhere, Modify, fat_statfs, fat_evict_inode
    <2> QED
      BY <2>1, InGate
  <1>3. TypeOK'
    <2>1. UNCHANGED <<op, calls, gate, lock, medium, mapping>>
      BY DEF Modify, fat_statfs, fat_evict_inode
    <2>2. meta' \in Nat /\ late' \in Nat
      BY DEF TypeOK, Modify, fat_statfs, fat_evict_inode, ungated
    <2>3. exact' = exact \/ exact' = TRUE
      BY DEF Modify, fat_statfs, fat_evict_inode, ungated
    <2> QED
      BY Zenon, ZenonT(60), <1>1, <2>1, <2>2, <2>3 DEF TypeOK, gate, medium, mapping
  <1>4. UNCHANGED <<op, gate, lock, medium, mapping>>
    BY DEF Modify, fat_statfs, fat_evict_inode, ungated
  <1>5. ReadersWhere' /\ WriterWhere'
    BY <1>1, <1>4 DEF TypeOK, ReadersWhere, WriterWhere, NoReaders, gate
  <1>6. FaultHolds' /\ FrozenQuiet'
    BY <1>1, <1>2, <1>4 DEF TypeOK, FaultHolds, FrozenQuiet, Frozen, NoReaders, gate, medium, mapping
  <1> QED
    BY <1>3, <1>5, <1>6

(* fat_page_mkwrite leaves the gate with the page dirty and locked.        *)
LEMMA MkwriteStep ==
  ASSUME GateInv, NEW t \in Threads, fat_page_mkwrite(t)
  PROVE  GateInv'
  <1> USE DEF GateInv
  <1>1. readers[t] # 0 /\ lock["folio"] = t
    BY DEF ReadersWhere, FaultHolds, fat_page_mkwrite, GatedOps
  <1>2. writer = NoThread /\ ~write_blocked
    BY <1>1, InGate
  <1>3. TypeOK'
    BY DEF TypeOK, fat_page_mkwrite, medium, ungated, Pcs
  <1>4. ReadersWhere' /\ WriterWhere'
    BY <1>2, FatGateAssumption DEF TypeOK, fat_page_mkwrite, ReadersWhere, WriterWhere, NoReaders
  <1>5. FaultHolds' /\ FrozenQuiet'
    BY <1>1, <1>2 DEF TypeOK, fat_page_mkwrite, FaultHolds, FrozenQuiet, Frozen, medium
  <1> QED
    BY <1>3, <1>4, <1>5

(* A call that returns drops its own locks, never the page lock of another *)
(* thread's fault.                                                         *)
LEMMA ReturnStep ==
  ASSUME GateInv, NEW t \in Threads, Return(t) \/ FinishFault(t)
  PROVE  GateInv'
  <1> USE DEF GateInv
  <1>1. /\ lock' \in [Locks -> Threads \cup {NoThread}]
        /\ lock["folio"] # t => lock'["folio"] = lock["folio"]
    BY DEF TypeOK, Return, FinishFault, DropAll
  <1>2. /\ readers' \in [Threads -> 0 .. 2]
        /\ \A s \in Threads : readers'[s] = readers[s] \/ (s = t /\ readers'[s] = 0)
    <2>1. readers' = readers \/ readers' = [readers EXCEPT ![t] = 0]
      BY DEF Return, FinishFault, gate
    <2> QED
      BY <2>1 DEF TypeOK
  <1>3. /\ pc' \in [Threads -> Pcs] /\ \A s \in Threads : s # t => pc'[s] = pc[s]
        /\ pc'[t] \in {"idle", "iput"} /\ readers'[t] = 0
        /\ pc[t] \in {"return", "return_iput", "fault"}
    BY DEF TypeOK, Return, FinishFault, Pcs, ReadersWhere, gate
  <1>4. UNCHANGED <<op, writer, write_blocked, meta, d_meta, d_page, wb_failed, page>>
    BY DEF Return, FinishFault, gate, medium, mapping
  <1>5. \/ UNCHANGED <<pte, dirty>>
        \/ dirty /\ dirty' /\ pte'
    BY DEF Return, FinishFault, mapping, FaultHolds
  <1>6. TypeOK'
    BY ZenonT(30), ZenonT(60), <1>1, <1>2, <1>3 DEF TypeOK, Return, FinishFault, gate, medium, mapping, ungated
  <1>7. ReadersWhere' /\ WriterWhere'
    BY <1>2, <1>3, <1>4 DEF TypeOK, ReadersWhere, WriterWhere, NoReaders
  <1>8. FaultHolds'
    <2>1. \A s \in Threads : pc'[s] = "work" /\ op'[s] = "page_mkwrite" => lock'["folio"] = s
      BY <1>1, <1>3, <1>4 DEF FaultHolds
    <2>2. \A s \in Threads : pc'[s] = "fault" => lock'["folio"] = s /\ dirty'
      BY <1>1, <1>3, <1>5 DEF FaultHolds
    <2> QED
      BY <1>4, <1>5, <2>1, <2>2 DEF FaultHolds
  <1>9. FrozenQuiet'
    BY <1>2, <1>4, <1>5 DEF TypeOK, FrozenQuiet, Frozen, NoReaders
  <1> QED
    BY <1>6, <1>7, <1>8, <1>9

(* The writer gets the gate only when no reader holds it.                  *)
LEMMA DisableStep ==
  ASSUME GateInv, NEW t \in Threads, DisableLock(t)
  PROVE  GateInv'
  <1> USE DEF GateInv
  <1>1. TypeOK'
    BY DEF TypeOK, DisableLock, medium, mapping, ungated, Pcs
  <1>2. ReadersWhere' /\ WriterWhere'
    BY FatGateAssumption DEF TypeOK, DisableLock, ReadersWhere, WriterWhere, NoReaders
  <1>3. FaultHolds' /\ FrozenQuiet'
    BY FatGateAssumption DEF TypeOK, DisableLock, FaultHolds, FrozenQuiet, Frozen, medium, mapping
  <1> QED
    BY <1>1, <1>2, <1>3

(* A sync that ends, well or not: it waited for the page lock of a fault,  *)
(* so no page is dirty or writable when disable-write returns.             *)
LEMMA SyncStep ==
  ASSUME GateInv, NEW t \in Threads, SyncDone(t) \/ SyncFails(t)
  PROVE  GateInv'
  <1> USE DEF GateInv
  <1>1. \A s \in Threads : pc[s] # "fault"
    BY FatGateAssumption DEF FaultHolds, SyncDone, SyncFails, SyncFilesystem, Free
  <1>2. /\ lock' \in [Locks -> Threads \cup {NoThread}]
        /\ lock["folio"] # t => lock'["folio"] = lock["folio"]
    BY DEF TypeOK, SyncDone, SyncFails, DropAll
  <1>3. /\ pc[t] = "sync" /\ pc' = [pc EXCEPT ![t] = "idle"]
        /\ ~dirty' /\ ~pte' /\ UNCHANGED <<op, calls, readers, meta, page, ungated>>
    BY Zenon, ZenonT(60) DEF SyncDone, SyncFails, SyncFilesystem, FaultHolds
  <1>4. /\ ~wb_failed' => d_meta' = meta /\ d_page' = page
        /\ d_meta' \in Nat /\ d_page' \in Nat /\ wb_failed' \in BOOLEAN
    BY Zenon, ZenonT(60) DEF TypeOK, SyncDone, SyncFails, SyncFilesystem, FaultHolds
  <1>5. /\ writer' = IF writer = t THEN NoThread ELSE writer
        /\ write_blocked' \in BOOLEAN
        /\ write_blocked' # write_blocked => writer = t
        /\ write_blocked' => write_blocked
    <2>1. writer' = IF writer = t THEN NoThread ELSE writer
      BY DEF SyncDone, SyncFails, ReleaseWriter
    <2>2. \/ write_blocked' = write_blocked
          \/ op[t] = "disable_write" /\ pc[t] = "sync" /\ write_blocked' = FALSE
      BY Zenon, ZenonT(60) DEF TypeOK, SyncDone, SyncFails
    <2>3. op[t] = "disable_write" /\ pc[t] = "sync" => writer = t
      BY DEF WriterWhere
    <2>4. write_blocked \in BOOLEAN
      BY DEF TypeOK
    <2>5. write_blocked' \in BOOLEAN
      BY Zenon, ZenonT(60), <2>2, <2>4
    <2>6. write_blocked' => write_blocked
      BY Zenon, ZenonT(60), <2>2
    <2>7. write_blocked' # write_blocked => writer = t
      BY <2>2, <2>3
    <2> QED
      BY <2>1, <2>5, <2>6, <2>7
  <1>6. TypeOK'
    <2>1. pte' \in BOOLEAN /\ dirty' \in BOOLEAN
      <3>1. pte' = (pte /\ ~dirty) /\ dirty' = FALSE
        BY DEF SyncDone, SyncFails, SyncFilesystem
      <3> QED
        BY <3>1, Zenon, ZenonT(60)
    <2>2. pc' \in [Threads -> Pcs]
      BY <1>3 DEF TypeOK, Pcs
    <2> QED
      BY <1>2, <1>3, <1>4, <1>5, <2>1, <2>2 DEF TypeOK, ungated
  <1>7. ReadersWhere'
    BY <1>3 DEF TypeOK, ReadersWhere
  <1>8. WriterWhere'
    BY <1>3, <1>5 DEF TypeOK, WriterWhere, NoReaders
  <1>9. FaultHolds'
    BY <1>1, <1>2, <1>3, <1>4 DEF TypeOK, FaultHolds
  <1>10. FrozenQuiet'
    BY <1>3, <1>4, <1>5 DEF TypeOK, WriterWhere, FrozenQuiet, Frozen, NoReaders
  <1> QED
    BY <1>6, <1>7, <1>8, <1>9, <1>10

(* A store needs a writable page table entry, and then the page is dirty.  *)
LEMMA StoreStep ==
  ASSUME GateInv, Store
  PROVE  GateInv'
  <1> USE DEF GateInv
  <1>1. TypeOK'
    BY DEF TypeOK, Store, threads, gate, medium, ungated
  <1>2. ReadersWhere' /\ WriterWhere'
    BY DEF Store, threads, gate, ReadersWhere, WriterWhere, NoReaders
  <1>3. FaultHolds' /\ FrozenQuiet'
    BY DEF Store, threads, gate, medium, FaultHolds, FrozenQuiet, Frozen, NoReaders
  <1> QED
    BY <1>1, <1>2, <1>3

(* Every step keeps GateInv.                                               *)
LEMMA StepInv ==
  ASSUME GateInv, [Next]_vars
  PROVE  GateInv'
  <1>1. CASE Store
    BY <1>1, StoreStep
  <1>2. ASSUME NEW t \in Threads, Step(t) PROVE GateInv'
    BY <1>2, LockStep, BeginStep, WorkStep, MkwriteStep, ReturnStep, DisableStep, SyncStep DEF Step
  <1>3. ASSUME NEW t \in Threads, NEW o \in Ops, Call(t, o) PROVE GateInv'
    BY <1>3, CallStep, FatGateAssumption
  <1>4. CASE UNCHANGED vars
    <2>1. UNCHANGED <<pc, op, calls, readers, writer, write_blocked, lock, meta>>
      BY <1>4 DEF vars, threads, gate
    <2>2. UNCHANGED <<d_meta, d_page, wb_failed, page, pte, dirty, late, exact>>
      BY <1>4 DEF vars, medium, mapping, ungated
    <2>3. TypeOK' /\ ReadersWhere'
      BY <2>1, <2>2 DEF GateInv, TypeOK, ReadersWhere
    <2>4. WriterWhere' /\ FaultHolds' /\ FrozenQuiet'
      BY <2>1, <2>2 DEF GateInv, WriterWhere, FaultHolds, FrozenQuiet, Frozen, NoReaders
    <2> QED
      BY <2>3, <2>4 DEF GateInv
  <1> QED
    BY <1>1, <1>2, <1>3, <1>4 DEF Next

(* GateInv holds in every reachable state, whatever the threads call.      *)
THEOREM GateInvariant == Spec => []GateInv
  BY InitInv, StepInv, PTL DEF Spec

(* The variables have their types.                                         *)
THEOREM TypeCorrect == Spec => []TypeOK
  BY GateInvariant, PTL DEF GateInv

(* After disable-write has returned 0, the medium has every change made    *)
(* under the gate and through mappings, unless a writeback failed before.  *)
THEOREM Synced == Spec => []FrozenSynced
  <1>1. GateInv => FrozenSynced
    BY DEF GateInv, FaultHolds, FrozenQuiet, FrozenSynced
  <1> QED
    BY <1>1, GateInvariant, PTL

(* After disable-write has returned 0, no gated call and no mapping        *)
(* changes the file system.                                                *)
THEOREM Unchanged == Spec => FrozenUnchanged
  <1>1. ASSUME GateInv, [Next]_vars, Frozen
        PROVE  UNCHANGED <<meta, page>>
    <2>0. ~pte /\ NoReaders
      BY <1>1 DEF GateInv, FaultHolds, FrozenQuiet
    <2>1. CASE Store
      BY <2>0, <2>1 DEF Store
    <2>2. ASSUME NEW t \in Threads, Step(t) PROVE UNCHANGED <<meta, page>>
      <3>1. ~Modify(t)
        BY <1>1, <2>0 DEF GateInv, ReadersWhere, NoReaders, Modify
      <3>2. CASE TakeVfsLock(t) \/ fat_begin_write(t) \/ nested_begin_write(t) \/ TakeInnerLock(t)
        BY <3>2 DEF TakeVfsLock, fat_begin_write, nested_begin_write, TakeInnerLock, mapping
      <3>3. CASE fat_page_mkwrite(t) \/ FinishFault(t) \/ fat_statfs(t) \/ fat_evict_inode(t) \/ Return(t)
        BY <3>3 DEF fat_page_mkwrite, FinishFault, fat_statfs, fat_evict_inode, Return, mapping
      <3>4. CASE DisableLock(t) \/ TakeUmountLock(t) \/ SyncDone(t) \/ SyncFails(t)
        BY <3>4 DEF DisableLock, TakeUmountLock, SyncDone, SyncFails, mapping
      <3> QED
        BY <2>2, <3>1, <3>2, <3>3, <3>4 DEF Step
    <2>3. ASSUME NEW t \in Threads, NEW o \in Ops, Call(t, o) PROVE UNCHANGED <<meta, page>>
      BY <2>3 DEF Call, mapping
    <2>4. CASE UNCHANGED vars
      BY <2>4 DEF vars, mapping
    <2> QED
      BY <1>1, <2>1, <2>2, <2>3, <2>4 DEF Next
  <1>2. GateInv /\ [Next]_vars => [Frozen /\ Frozen' => UNCHANGED <<meta, page>>]_vars
    BY <1>1
  <1> QED
    BY <1>2, GateInvariant, PTL DEF Spec, FrozenUnchanged
=============================================================================

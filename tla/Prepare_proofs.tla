--------------------------- MODULE Prepare_proofs ---------------------------
(***************************************************************************)
(* Proofs about Recovery and the power prepare of the A/B life cycle, for  *)
(* every number of blocks and of modifications.  They name the hazards     *)
(* that must be absent (WaitedFor, NoEvict, WholeDigest): every other one  *)
(* may happen, in any order.                                               *)
(***************************************************************************)
EXTENDS SuperRaid_proofs

\* The provers that are tried, in turn, on a leaf that names none.
USE SMTT(10), ZenonT(20), SMTT(20), ZenonT(40), SMTT(40)

-----------------------------------------------------------------------------
(* The peer before the gate is released.                                   *)

\* Neither a digest that is too short nor "fsctl umount" by hand.
WaitedFor == Env \cap {"short_hash", "cli_umount"} = {}

\* The steps of fsctl at which the mounted partition is its candidate.
Mounted == {"notify", "release", "restore_ok"} \cup Repairing

\* The steps at which the peer has nothing in the device's volatile cache.
PeerSettled == {"notify", "peer_verify", "post_verify", "release", "restore_ok"}

(* What the peer promises is kept by a step that leaves its cells and      *)
(* fsctl alone.                                                            *)
LEMMA PeerFrame ==
  ASSUME PeerInv, TypeOK', UNCHANGED <<fs, fsctl>>,
         p_pc' \notin {"idle", "wait", "done_fail"} => f_pc = "exited",
         f_pc \in Early => UNCHANGED device,
         f_pc \in PeerSettled =>
           /\ payload'[Other(cand)] = payload[Other(cand)] /\ d_payload'[Other(cand)] = d_payload[Other(cand)]
           /\ footer'[Other(cand)] = footer[Other(cand)] /\ d_footer'[Other(cand)] = d_footer[Other(cand)]
  PROVE  PeerInv'
PROOF
  BY DEF PeerInv, PeerSettled, Early, Repairing, ReleaseAfterPeerGood, Clean, Trusted, fsctl, device

(* The steps up to the mount: nothing is mounted and nothing is written.   *)
LEMMA PeerBootStep ==
  ASSUME PeerInv, TypeOK', Boot \/ ReadDirtyFails \/ EnableDelay \/ VerifyCandidate \/ CandidateFails
                           \/ MountCandidate
  PROVE  PeerInv'
PROOF
<1>1. /\ f_pc \in Early /\ UNCHANGED <<device, p_pc>>
      /\ \/ f_pc' \in Early \cup {"failed", "restore_fail"} /\ fs' = fs
         \/ f_pc' = "notify" /\ fs' = cand /\ cand' = cand
  BY DEF Boot, ReadDirtyFails, EnableDelay, VerifyCandidate, CandidateFails, MountCandidate,
     NextCandidate, Early, power, kernel
<1>2. p_pc \in {"idle", "wait", "done_fail"} /\ fs = "none" /\ \A p \in Parts : Clean(p)
  BY <1>1 DEF PeerInv, Early
<1>3. \A p \in Parts : Clean(p)'
  BY <1>1, <1>2 DEF Clean, device
<1>4. CASE f_pc' \in Early \cup {"failed", "restore_fail"} /\ fs' = fs
  BY <1>1, <1>2, <1>3, <1>4 DEF PeerInv, Early, Repairing, ReleaseAfterPeerGood
<1>5. CASE f_pc' = "notify" /\ fs' = cand /\ cand' = cand
  <2>1. Clean(Other(cand))'
    BY <1>3, <1>5, OtherPart DEF PeerInv, TypeOK, Clean
  <2> QED
    BY <1>1, <1>2, <1>5, <2>1 DEF PeerInv, Early, Repairing, ReleaseAfterPeerGood
<1> QED
  BY <1>1, <1>4, <1>5

(* The steps from READY=1 to the release of the gate.                      *)
LEMMA PeerRecoveryStep ==
  ASSUME WaitedFor, PeerInv, TypeOK', Notify \/ NotifyFails \/ RecoverAppParam
  PROVE  PeerInv'
PROOF
<1>1. f_pc \in Mounted \cup {"restore_fail"} /\ UNCHANGED <<p_pc, cand, mounted_digest>>
  BY DEF Notify, NotifyFails, RecoverAppParam, PeerVerify, PeerVerifyFails, RecoveryCopyOpen,
     RecoveryCopy, RecoveryFsync, PostVerify, RecoveryFails, Release, RestoreDirty, Mounted,
     Repairing, power
<1>2. /\ p_pc \in {"idle", "wait", "done_fail"}
      /\ f_pc \in Mounted => fs = cand
      /\ f_pc \in PeerSettled => Clean(Other(cand))
      /\ cand \in Parts /\ Other(cand) \in Parts
  BY <1>1, OtherPart DEF PeerInv, TypeOK, Mounted, Repairing, PeerSettled
<1>3. CASE f_pc' \notin Early \cup Mounted
  BY <1>1, <1>2, <1>3 DEF PeerInv, Early, Mounted, Repairing, ReleaseAfterPeerGood
<1>4. CASE Notify \/ PeerVerifyFails \/ RecoveryCopyOpen
  BY <1>1, <1>2, <1>4 DEF Notify, PeerVerifyFails, RecoveryCopyOpen, PeerInv, Early, Mounted,
     PeerSettled, Repairing, ReleaseAfterPeerGood, Clean, device, kernel
<1>5. CASE PeerVerify \/ PostVerify
  <2>1. /\ UNCHANGED device /\ fs' = cand
        /\ f_pc \in PeerSettled
        /\ \/ f_pc' \in {"copy_open", "restore_fail"}
           \/ /\ f_pc' = "release"
              /\ payload[Other(cand)] = footer[Other(cand)]
              /\ payload[Other(cand)] = mounted_digest
    <3>1. HashResults(payload[Other(cand)]) = {payload[Other(cand)]}
      BY DEF HashResults, WaitedFor
    <3> QED
      BY <1>2, <1>5, <3>1 DEF PeerVerify, PostVerify, PeerSettled, Mounted, Repairing, kernel
  <2>2. Clean(Other(cand))'
    BY <1>1, <1>2, <2>1 DEF Clean, device
  <2>3. f_pc' = "release" => ReleaseAfterPeerGood'
    BY <1>1, <2>1, <2>2 DEF ReleaseAfterPeerGood, Clean, Trusted, device
  <2> QED
    BY <1>1, <1>2, <2>1, <2>2, <2>3 DEF PeerInv, Early, Repairing, ReleaseAfterPeerGood
<1>6. CASE RecoveryCopy
  <2>1. fs' = cand /\ f_pc' \in {"copy", "copy_fsync"}
    BY <1>2, <1>6 DEF RecoveryCopy, CopyPc, Mounted, Repairing, kernel
  <2> QED
    BY <1>1, <1>2, <2>1 DEF PeerInv, Early, Repairing, ReleaseAfterPeerGood
<1>7. CASE RecoveryFsync
  <2>1. fs' = cand /\ f_pc' = "post_verify" /\ UNCHANGED <<payload, footer>> /\ Flush(Other(cand))
    BY <1>2, <1>7 DEF RecoveryFsync, Mounted, Repairing, kernel
  <2>2. Clean(Other(cand))'
    BY <1>1, <1>2, <2>1 DEF Clean, Flush, PeerInv, TypeOK
  <2> QED
    BY <1>1, <1>2, <2>1, <2>2 DEF PeerInv, Early, Repairing, ReleaseAfterPeerGood
<1>8. CASE Release /\ f_pc' = "restore_ok"
  BY <1>1, <1>2, <1>8 DEF Release, PeerInv, Early, Mounted, PeerSettled, Repairing,
     ReleaseAfterPeerGood, Clean, Trusted, device, kernel
<1> QED
  BY ZenonT(30), ZenonT(60), <1>3, <1>4, <1>5, <1>6, <1>7, <1>8
  DEF RecoverAppParam, NotifyFails, RecoveryFails, Release, RestoreDirty, Early, Mounted, Repairing

(* Apps, writeback and eviction write to the mounted partition only.       *)
LEMMA PeerFileSystemStep ==
  ASSUME PeerInv, TypeOK', FileSystem
  PROVE  PeerInv'
PROOF
<1>1. PICK b \in Blocks : AppWrite(b) \/ EvictInode(b) \/ AppFsync(b) \/ Writeback(b)
  BY DEF FileSystem
<1>2. /\ fs # "none" /\ UNCHANGED <<fs, fsctl, p_pc, footer>>
      /\ \A p \in Parts \ {fs} : /\ payload'[p] = payload[p] /\ d_payload'[p] = d_payload[p]
                                 /\ d_footer'[p] = d_footer[p]
  BY <1>1 DEF AppWrite, EvictInode, AppFsync, Writeback, device, kernel, power, PeerInv, TypeOK
<1>3. f_pc \notin Early
  BY <1>2 DEF PeerInv
<1>4. f_pc \in PeerSettled => Other(cand) \in Parts \ {fs}
  BY OtherPart DEF PeerInv, TypeOK, PeerSettled, Repairing
<1> QED
  BY <1>2, <1>3, <1>4, PeerFrame DEF PeerInv

(* A settled partition has nothing left that the device could persist.     *)
LEMMA PeerDeviceStep ==
  ASSUME PeerInv, TypeOK', Device
  PROVE  PeerInv'
PROOF
<1>1. PICK p \in Parts : PersistFooter(p) \/ \E b \in Blocks : PersistBlock(p, b)
  BY DEF Device
<1>2. /\ UNCHANGED <<fs, fsctl, p_pc, payload, footer>> /\ ~Clean(p)
      /\ \A q \in Parts \ {p} : d_payload'[q] = d_payload[q] /\ d_footer'[q] = d_footer[q]
  <2>1. CASE PersistFooter(p)
    BY <2>1 DEF PersistFooter, Clean, kernel, power, PeerInv, TypeOK
  <2>2. ASSUME NEW b \in Blocks, PersistBlock(p, b)
        PROVE  /\ UNCHANGED <<fs, fsctl, p_pc, payload, footer>> /\ ~Clean(p)
               /\ \A q \in Parts \ {p} : d_payload'[q] = d_payload[q] /\ d_footer'[q] = d_footer[q]
    BY <2>2 DEF PersistBlock, Clean, kernel, power, PeerInv, TypeOK
  <2> QED
    BY <1>1, <2>1, <2>2
<1>3. f_pc \notin Early
  BY <1>2 DEF PeerInv
<1>4. f_pc \in PeerSettled => Other(cand) \in Parts \ {p}
  BY <1>2, OtherPart DEF PeerInv, TypeOK, PeerSettled
<1> QED
  BY <1>2, <1>3, <1>4, PeerFrame DEF PeerInv

(* The power path writes only once fsctl has exited with success.          *)
LEMMA PeerPowerStep ==
  ASSUME WaitedFor, PeerInv, TypeOK', Request \/ Prepare
  PROVE  PeerInv'
PROOF
<1>1. /\ UNCHANGED <<fs, fsctl>>
      /\ f_pc # "exited" => UNCHANGED device
      /\ p_pc' \notin {"idle", "wait", "done_fail"} => f_pc = "exited"
  <2>1. CASE Request
    BY <2>1 DEF Request, PowerRequest, FsctlUmount, PrepareAgain, WaitedFor, device, kernel
  <2>2. CASE WaitMountRecovery
    BY <2>2 DEF WaitMountRecovery, SubState, device, kernel
  <2>3. CASE WaitFails
    BY <2>3 DEF WaitFails, device, kernel
  <2>4. CASE Prepare /\ ~WaitMountRecovery /\ ~WaitFails
    <3>1. p_pc \notin {"idle", "wait", "done_fail"} /\ UNCHANGED <<fs, fsctl>>
      BY <2>4 DEF Prepare, ResolveActivePeer, DisableWrite, DisableWriteDone, DisableWriteFails,
         SealHash, SealHashDone, WriteDescriptor, DescriptorFsync, PowerCopyOpen, PowerCopy,
         PowerCopyFsync, PrepareFails, kernel
    <3> QED
      BY <3>1 DEF PeerInv
  <2> QED
    BY <2>1, <2>2, <2>3, <2>4
<1>2. f_pc \in Early \cup PeerSettled => f_pc # "exited"
  BY DEF Early, PeerSettled
<1> QED
  BY <1>1, <1>2, PeerFrame DEF device

(* PeerInv is inductive, whatever fails, is late or is repeated, as long   *)
(* as the digest is whole and the power path waits for Recovery.           *)
LEMMA PeerInvStep ==
  ASSUME WaitedFor
  PROVE  PeerInv /\ [Next]_vars => PeerInv'
PROOF
<1> SUFFICES ASSUME PeerInv, [Next]_vars PROVE PeerInv'
  OBVIOUS
<1>1. CASE UNCHANGED vars
  BY <1>1 DEF vars, device, kernel, users, fsctl, power, PeerInv, TypeOK, Clean, Trusted,
     ReleaseAfterPeerGood
<1>2. CASE Next
  <2>1. TypeOK'
    BY <1>2, TypeStep DEF PeerInv
  <2>2. CASE MountPartition \/ MountFails \/ RecoverAppParam
    BY <2>1, <2>2, PeerBootStep, PeerRecoveryStep DEF MountPartition, MountFails
  <2>3. CASE FileSystem \/ Device
    BY <2>1, <2>3, PeerFileSystemStep, PeerDeviceStep
  <2>4. CASE Request \/ Prepare
    BY <2>1, <2>4, PeerPowerStep
  <2>5. CASE Crash \/ PowerOff
    <3>1. /\ f_pc' = "off" /\ p_pc' = "idle" /\ fs' = "none"
          /\ payload' = d_payload' /\ footer' = d_footer'
      BY <2>5 DEF Crash, PowerOff, VolatileReset
    <3> QED
      BY ZenonT(30), ZenonT(60), <2>1, <3>1 DEF PeerInv, Early, Repairing, ReleaseAfterPeerGood, Clean
  <2> QED
    BY <1>2, <2>2, <2>3, <2>4, <2>5 DEF Next
<1> QED
  BY <1>1, <1>2

(* PeerInv is an invariant.                                                *)
THEOREM PeerInvariant ==
  ASSUME WaitedFor
  PROVE  Spec => []PeerInv
PROOF
<1>1. Init => PeerInv
  <2> SUFFICES ASSUME Init PROVE PeerInv
    OBVIOUS
  <2>1. TypeOK
    BY TypeInit
  <2> QED
    BY <2>1 DEF Init, PeerInv, Early, Repairing, ReleaseAfterPeerGood, Clean
<1> QED
  BY <1>1, PeerInvStep, PTL DEF Spec

(* The gate of the Apps is released, and fsctl reports success, only when  *)
(* the peer holds on the medium the snapshot that was verified before the  *)
(* mount - although I/O errors, early writeback, evictions, a Recovery     *)
(* that is overtaken and repeated prepares may all happen.                 *)
THEOREM PeerGoodBeforeRelease ==
  ASSUME WaitedFor
  PROVE  Spec => []ReleaseAfterPeerGood
PROOF
<1>1. PeerInv => ReleaseAfterPeerGood
  BY DEF PeerInv
<1> QED
  BY <1>1, PeerInvariant, PTL

(* The power path never works on A/B while Recovery repairs the peer,      *)
(* whatever fails, is late or is repeated.                                 *)
THEOREM Exclusive ==
  ASSUME WaitedFor
  PROVE  Spec => []RecoveryPowerExclusive
PROOF
<1>1. PeerInv => RecoveryPowerExclusive
  BY DEF PeerInv, RecoveryPowerExclusive, Repairing, FreezeStates
<1> QED
  BY <1>1, PeerInvariant, PTL

-----------------------------------------------------------------------------
(* The freeze, the seal and the copy of the power path.                    *)

\* No cleanup of an inode follows the freeze.
NoEvict == "evict" \notin Env

\* Nor does a digest stop before the end of the region.
WholeDigest == "short_hash" \notin Env

\* The power path has not found the active partition, or has given up.
Resting == {"idle", "wait", "resolve", "done_fail"}

(* fsctl leaves the power path alone and writes to the peer of its         *)
(* candidate only; up to the mount it writes nothing.                      *)
LEMMA FsctlWrites ==
  ASSUME FreezeInv, MountPartition \/ MountFails \/ RecoverAppParam
  PROVE  /\ UNCHANGED power
         /\ payload'[cand] = payload[cand] /\ d_payload'[cand] = d_payload[cand]
         /\ footer'[cand] = footer[cand] /\ d_footer'[cand] = d_footer[cand]
         /\ \/ f_pc \in Early /\ p_pc \in Resting /\ fs' \in {cand', "none"} /\ (f_pc' \in Early => fs' = "none")
            \/ /\ f_pc \notin Early /\ f_pc' \notin Early /\ UNCHANGED <<cand, cache>>
               /\ (UNCHANGED <<fs, write_blocked>> \/ NotifyFails)
PROOF
<1>1. Other(cand) # cand /\ cand \in Parts /\ Other(cand) \in Parts
  BY OtherPart DEF FreezeInv, TypeOK
<1>2. CASE Boot \/ EnableDelay \/ VerifyCandidate \/ MountCandidate \/ ReadDirtyFails \/ CandidateFails
  <2>1. f_pc \in Early /\ p_pc \in Resting /\ fs = "none"
    BY <1>2 DEF FreezeInv, Early, Resting, Boot, EnableDelay, VerifyCandidate, MountCandidate,
       ReadDirtyFails, CandidateFails
  <2>2. UNCHANGED <<device, power>> /\ (fs' = fs \/ (fs' = cand /\ cand' = cand /\ f_pc' = "notify"))
    BY <1>2 DEF Boot, EnableDelay, VerifyCandidate, MountCandidate, ReadDirtyFails, CandidateFails,
       kernel
  <2> QED
    BY <2>1, <2>2 DEF device, Early
<1>3. CASE Notify \/ NotifyFails \/ PeerVerify \/ PeerVerifyFails \/ RecoveryCopyOpen \/ PostVerify
           \/ RecoveryFails \/ Release \/ RestoreDirty
  BY <1>3 DEF Notify, NotifyFails, PeerVerify, PeerVerifyFails, RecoveryCopyOpen, PostVerify,
     RecoveryFails, Release, RestoreDirty, Early, Repairing, device, kernel
<1>4. CASE RecoveryCopy
  <2>1. /\ UNCHANGED <<d_payload, d_footer, power, cand, cache, fs, write_blocked>>
        /\ f_pc \notin Early /\ f_pc' \notin Early
    BY <1>4 DEF RecoveryCopy, CopyPc, Early, kernel
  <2>2. payload'[cand] = payload[cand] /\ footer'[cand] = footer[cand]
    BY <1>1, <1>4 DEF RecoveryCopy, CopyCell, FreezeInv, TypeOK
  <2> QED
    BY <2>1, <2>2
<1>5. CASE RecoveryFsync
  BY <1>1, <1>5 DEF RecoveryFsync, Flush, Early, kernel, FreezeInv, TypeOK
<1> QED
  BY <1>2, <1>3, <1>4, <1>5 DEF MountPartition, MountFails, RecoverAppParam

(* Once disable-write has returned no App, no fsync and no writeback finds *)
(* anything to do.                                                         *)
LEMMA NoFileSystemStep ==
  ASSUME NoEvict, FreezeInv, Frozen
  PROVE  ~FileSystem
PROOF
<1>1. /\ fs = "none" \/ write_blocked
      /\ cache = payload[active]
      /\ fs \in {active, "none"}
  BY DEF FreezeInv, Frozen, FreezeStates
<1> QED
  BY <1>1 DEF NoEvict, FileSystem, AppWrite, EvictInode, AppFsync, Writeback, FreezeInv, Frozen

(* The device persists only what is not yet on the medium.                 *)
LEMMA DeviceKeeps ==
  ASSUME TypeOK, Device
  PROVE  /\ UNCHANGED <<payload, footer, kernel, users, fsctl, power>>
         /\ \A p \in Parts :
              /\ payload[p] = d_payload[p] => d_payload'[p] = d_payload[p]
              /\ footer[p] = d_footer[p] => d_footer'[p] = d_footer[p]
PROOF
<1>1. PICK q \in Parts : PersistFooter(q) \/ \E b \in Blocks : PersistBlock(q, b)
  BY DEF Device
<1>2. CASE PersistFooter(q)
  BY <1>2 DEF PersistFooter, TypeOK
<1>3. ASSUME NEW b \in Blocks, PersistBlock(q, b)
      PROVE  /\ UNCHANGED <<payload, footer, kernel, users, fsctl, power>>
             /\ \A p \in Parts :
                  /\ payload[p] = d_payload[p] => d_payload'[p] = d_payload[p]
                  /\ footer[p] = d_footer[p] => d_footer'[p] = d_footer[p]
  BY <1>3 DEF PersistBlock, TypeOK
<1> QED
  BY <1>1, <1>2, <1>3

(* What each step of the power path does to the frozen partition.          *)
LEMMA FreezePowerStep ==
  ASSUME FreezeInv, TypeOK', Request \/ Prepare
  PROVE  FreezeInv'
PROOF
<1>1. UNCHANGED <<fs, cand, f_pc>>
  BY ZenonT(30), ZenonT(60) DEF Request, PowerRequest, FsctlUmount, PrepareAgain, Prepare, WaitMountRecovery, WaitFails,
     ResolveActivePeer, DisableWrite, DisableWriteDone, DisableWriteFails, SealHash, SealHashDone,
     WriteDescriptor, DescriptorFsync, PowerCopyOpen, PowerCopy, PowerCopyFsync, PrepareFails,
     kernel, fsctl
<1>2. CASE p_pc' \in Resting
  BY <1>1, <1>2 DEF FreezeInv, Resting, Frozen, FreezeStates
<1>3. CASE ResolveActivePeer /\ p_pc' = "disable"
  BY <1>1, <1>3 DEF ResolveActivePeer, FreezeInv, Frozen, FreezeStates
<1>4. CASE DisableWrite
  BY <1>1, <1>4 DEF DisableWrite, FreezeInv, Frozen, FreezeStates
<1>5. CASE DisableWriteDone
  <2>1. fs = cand /\ active = cand /\ write_blocked /\ cand \in Parts /\ f_pc \notin Early
    BY <1>5 DEF DisableWriteDone, FreezeInv, TypeOK
  <2>2. d_payload'[cand] = payload[cand] /\ UNCHANGED <<payload, cache, active, write_blocked>>
        /\ p_pc' = "seal" /\ cache = payload[fs]
    BY <1>5, <2>1 DEF DisableWriteDone, Flush, FreezeInv, TypeOK, kernel
  <2> QED
    BY <1>1, <2>1, <2>2 DEF FreezeInv, Frozen, FreezeStates
<1>6. ASSUME Frozen, p_pc' \notin Resting, Request \/ Prepare
      PROVE  FreezeInv'
  <2>1. active = cand /\ active \in Parts /\ Other(active) # active /\ Other(active) \in Parts
        /\ f_pc \notin Early
    BY <1>6, OtherPart DEF FreezeInv, Frozen, FreezeStates, TypeOK
  <2>2. /\ UNCHANGED <<active, cache, write_blocked>>
        /\ p_pc' \in FreezeStates \cup {"done_ok"}
        /\ payload'[active] = payload[active]
        /\ d_payload'[active] \in {payload[active], d_payload[active]}
    <3>1. CASE SealHash \/ SealHashDone \/ WriteDescriptor \/ PowerCopyOpen
      BY <1>6, <3>1 DEF SealHash, SealHashDone, WriteDescriptor, PowerCopyOpen,
         Frozen, FreezeStates, device, kernel
    <3>2. CASE DescriptorFsync
      BY <2>1, <3>2 DEF DescriptorFsync, Flush, FreezeStates, kernel, FreezeInv, TypeOK
    <3>3. CASE PowerCopy
      <4>1. p_pc' \in {"copy", "copy_fsync"} /\ UNCHANGED <<d_payload, active, cache, write_blocked>>
        BY <3>3 DEF PowerCopy, CopyPc, kernel
      <4>2. payload'[active] = payload[active]
        BY <2>1, <3>3 DEF PowerCopy, CopyCell, FreezeInv, TypeOK
      <4> QED
        BY <4>1, <4>2 DEF FreezeStates
    <3>4. CASE PowerCopyFsync
      BY <2>1, <3>4 DEF PowerCopyFsync, Flush, FreezeStates, kernel, FreezeInv, TypeOK
    <3>5. CASE Request \/ WaitMountRecovery \/ WaitFails \/ ResolveActivePeer \/ DisableWrite
               \/ DisableWriteDone \/ DisableWriteFails \/ PrepareFails
      BY <1>6, <3>5 DEF Request, PowerRequest, FsctlUmount, PrepareAgain, WaitMountRecovery,
         WaitFails, ResolveActivePeer, DisableWrite, DisableWriteDone, DisableWriteFails,
         PrepareFails, Frozen, FreezeStates, Resting
    <3> QED
      BY <1>6, <3>1, <3>2, <3>3, <3>4, <3>5 DEF Prepare
  <2> QED
    BY <1>1, <1>6, <2>1, <2>2 DEF FreezeInv, Frozen, FreezeStates
<1> QED
  BY ZenonT(30), ZenonT(60), <1>2, <1>3, <1>4, <1>5, <1>6
  DEF Request, PowerRequest, FsctlUmount, PrepareAgain, Prepare, WaitMountRecovery, WaitFails,
     ResolveActivePeer, DisableWriteFails, SealHash, SealHashDone,
     WriteDescriptor, DescriptorFsync, PowerCopyOpen, PowerCopy, PowerCopyFsync, PrepareFails,
     Resting, Frozen, FreezeStates

(* FreezeInv is inductive as long as no eviction follows the freeze.       *)
LEMMA FreezeInvStep ==
  ASSUME NoEvict
  PROVE  FreezeInv /\ [Next]_vars => FreezeInv'
PROOF
<1> SUFFICES ASSUME FreezeInv, [Next]_vars PROVE FreezeInv'
  OBVIOUS
<1>1. CASE UNCHANGED vars
  BY <1>1 DEF vars, device, kernel, users, fsctl, power, FreezeInv, TypeOK, Frozen
<1>2. CASE Next
  <2>1. TypeOK'
    BY <1>2, TypeStep DEF FreezeInv
  <2>2. CASE MountPartition \/ MountFails \/ RecoverAppParam
    <3>1. CASE f_pc \in Early
      BY ZenonT(30), ZenonT(60), <2>1, <2>2, <3>1, FsctlWrites DEF FreezeInv, Resting, Frozen, FreezeStates, power
    <3>2. CASE f_pc \notin Early
      <4>1. Frozen => active = cand
        BY DEF FreezeInv, Frozen, FreezeStates
      <4>2. /\ fs' \in {fs, "none"}
            /\ p_pc = "sync" => fs' = fs /\ write_blocked'
            /\ fs' = "none" \/ write_blocked' = write_blocked
        BY ZenonT(30), ZenonT(60), <2>2, <3>2, FsctlWrites DEF NotifyFails, FreezeInv, TypeOK, Parts
      <4> QED
        BY <2>1, <2>2, <3>2, <4>1, <4>2, FsctlWrites DEF FreezeInv, Frozen, power
    <3> QED
      BY <3>1, <3>2
  <2>3. CASE FileSystem
    <3>1. ~Frozen
      BY <2>3, NoFileSystemStep
    <3>2. UNCHANGED <<fs, write_blocked, fsctl, power>>
      BY <2>3 DEF FileSystem, AppWrite, EvictInode, AppFsync, Writeback, kernel
    <3> QED
      BY Zenon, ZenonT(60), <2>1, <3>1, <3>2 DEF FreezeInv, Frozen, fsctl, power
  <2>4. CASE Device
    BY <2>1, <2>4, DeviceKeeps DEF FreezeInv, TypeOK, Frozen, kernel, fsctl, power
  <2>5. CASE Request \/ Prepare
    BY <2>1, <2>5, FreezePowerStep
  <2>6. CASE Crash \/ PowerOff
    <3>1. f_pc' = "off" /\ p_pc' = "idle" /\ fs' = "none"
      BY <2>6 DEF Crash, PowerOff, VolatileReset
    <3> QED
      BY <2>1, <3>1 DEF FreezeInv, Frozen, FreezeStates
  <2> QED
    BY <1>2, <2>2, <2>3, <2>4, <2>5, <2>6 DEF Next
<1> QED
  BY <1>1, <1>2

(* FreezeInv is an invariant, with every other hazard present.             *)
THEOREM FreezeInvariant ==
  ASSUME NoEvict
  PROVE  Spec => []FreezeInv
PROOF
<1>1. Init => FreezeInv
  <2> SUFFICES ASSUME Init PROVE FreezeInv
    OBVIOUS
  <2>1. TypeOK
    BY TypeInit
  <2> QED
    BY <2>1 DEF Init, FreezeInv, Frozen, FreezeStates
<1> QED
  BY <1>1, FreezeInvStep, PTL DEF Spec

(* Once disable-write has returned, no step but the loss of power changes  *)
(* the active partition or what the Apps see: not a Recovery that the      *)
(* prepare did not wait for, not an early writeback, not a failing step.   *)
THEOREM FreezeHolds ==
  ASSUME NoEvict
  PROVE  Spec => FrozenStable
PROOF
<1> DEFINE Stable == Frozen /\ f_pc' # "off" => payload'[active] = payload[active] /\ cache' = cache
<1>1. FreezeInv /\ FreezeInv' /\ [Next]_vars => [Stable]_vars
  <2> SUFFICES ASSUME FreezeInv, FreezeInv', Next, Frozen, f_pc' # "off"
               PROVE  payload'[active] = payload[active] /\ cache' = cache
    BY DEF vars
  <2>1. active = cand /\ f_pc \notin Early /\ p_pc \notin Resting
    BY DEF FreezeInv, Frozen, FreezeStates, Resting
  <2>2. CASE MountPartition \/ MountFails \/ RecoverAppParam
    BY <2>1, <2>2, FsctlWrites
  <2>3. CASE FileSystem
    BY <2>3, NoFileSystemStep
  <2>4. CASE Device
    BY <2>4, DeviceKeeps DEF FreezeInv, kernel
  <2>5. CASE Request
    BY <2>5 DEF Request, PowerRequest, FsctlUmount, PrepareAgain, device, kernel
  <2>6. CASE PowerCopy
    <3>1. Other(active) # active /\ active \in Parts
      BY <2>1, OtherPart DEF FreezeInv, TypeOK
    <3>2. payload'[active] = payload[active]
      BY Zenon, ZenonT(60), <2>6, <3>1 DEF PowerCopy, CopyCell, FreezeInv, TypeOK
    <3> QED
      BY <2>6, <3>2 DEF PowerCopy, kernel
  <2>7. CASE Prepare /\ ~PowerCopy
    BY <2>7
    DEF Prepare, WaitMountRecovery, WaitFails, ResolveActivePeer, DisableWrite,
        DisableWriteDone, DisableWriteFails, SealHash, SealHashDone, WriteDescriptor,
        DescriptorFsync, PowerCopyOpen, PowerCopyFsync, PrepareFails, device, kernel
  <2>8. CASE Crash \/ PowerOff
    BY <2>8 DEF Crash, PowerOff, VolatileReset
  <2> QED
    BY <2>2, <2>3, <2>4, <2>5, <2>6, <2>7, <2>8 DEF Next, Prepare
<1> QED
  BY <1>1, FreezeInvariant, PTL DEF Spec, FrozenStable

\* The steps of the power path after the seal.
SealedStates == {"copy_open", "copy", "copy_fsync", "done_ok"}

(* What the seal promises is kept by a step that leaves the power path, the *)
(* frozen file system and the copied cells alone.                          *)
LEMMA SealFrame ==
  ASSUME SealInv, FreezeInv', UNCHANGED <<power, cache>>,
         ~(PeerHeldByPower /\ PeerHeldByFsctl)',
         p_pc = "desc_fsync" => footer'[active] = footer[active],
         p_pc \in SealedStates =>
           /\ payload'[active] = payload[active] /\ d_payload'[active] = d_payload[active]
           /\ footer'[active] = footer[active] /\ d_footer'[active] = d_footer[active],
         p_pc \in {"copy", "copy_fsync", "done_ok"} =>
           payload'[Other(active)] = payload[Other(active)] /\ footer'[Other(active)] = footer[Other(active)],
         p_pc = "done_ok" =>
           d_payload'[Other(active)] = d_payload[Other(active)] /\ d_footer'[Other(active)] = d_footer[Other(active)]
  PROVE  SealInv'
PROOF
<1>1. p_pc' = p_pc /\ active' = active /\ p_pos' = p_pos /\ hbuf' = hbuf /\ cache' = cache
  BY ZenonT(30), ZenonT(60) DEF power
<1>2. p_pc \in SealedStates => Good(active)'
  BY ZenonT(30), ZenonT(60), <1>1 DEF SealInv, SealedStates, Good, Clean, Trusted
<1>3. p_pc = "done_ok" => Clean(Other(active))'
  BY <1>1 DEF SealInv, Clean
<1> QED
  BY ZenonT(30), ZenonT(60), <1>1, <1>2, <1>3 DEF SealInv, SealedStates

(* fsctl: a Recovery that copies after the prepare writes what is there.   *)
LEMMA SealFsctlStep ==
  ASSUME SealInv, FreezeInv', MountPartition \/ MountFails \/ RecoverAppParam
  PROVE  SealInv'
PROOF
<1>1. UNCHANGED power
  BY FsctlWrites DEF SealInv
<1>2. CASE p_pc \in Resting
  BY <1>1, <1>2 DEF SealInv, Resting, power, PeerHeldByPower
<1>3. CASE p_pc \notin Resting
  <2>1. /\ f_pc \notin Early /\ active = cand /\ active \in Parts /\ UNCHANGED <<cand, cache>>
        /\ Other(active) # active /\ Other(active) \in Parts
    BY <1>3, FsctlWrites, OtherPart DEF SealInv, FreezeInv, TypeOK, Resting
  <2>2. /\ payload'[active] = payload[active] /\ d_payload'[active] = d_payload[active]
        /\ footer'[active] = footer[active] /\ d_footer'[active] = d_footer[active]
    BY Zenon, ZenonT(60), <2>1, FsctlWrites DEF SealInv
  <2>3. ~(PeerHeldByPower /\ PeerHeldByFsctl)'
    <3>1. f_pc' \in {"copy", "copy_fsync"} => RecoveryCopyOpen \/ RecoveryCopy
      BY <2>1 DEF MountPartition, Boot, EnableDelay, VerifyCandidate, MountCandidate, Notify, MountFails,
         ReadDirtyFails, CandidateFails, NotifyFails, NextCandidate, RecoverAppParam, PeerVerify,
         PeerVerifyFails, RecoveryFsync, PostVerify, RecoveryFails, Release, RestoreDirty
    <3>2. p_pc' = p_pc
      BY <1>1 DEF power
    <3>3. (RecoveryCopyOpen \/ RecoveryCopy) => ~PeerHeldByPower
      BY ZenonT(30), ZenonT(60) DEF RecoveryCopyOpen, RecoveryCopy, SealInv, PeerHeldByFsctl
    <3> QED
      BY <3>1, <3>2, <3>3 DEF PeerHeldByPower, PeerHeldByFsctl
  <2>4. CASE RecoveryCopy
    <3>1. p_pc \notin {"copy", "copy_fsync"} /\ UNCHANGED <<d_payload, d_footer>>
      BY <2>4 DEF RecoveryCopy, SealInv, PeerHeldByFsctl, PeerHeldByPower
    <3>2. p_pc = "done_ok" => /\ payload'[Other(active)] = payload[Other(active)]
                              /\ footer'[Other(active)] = footer[Other(active)]
      <4> SUFFICES ASSUME p_pc = "done_ok"
                   PROVE  /\ payload'[Other(active)] = payload[Other(active)]
                          /\ footer'[Other(active)] = footer[Other(active)]
        OBVIOUS
      <4>1. /\ payload[active] = cache /\ footer[active] = cache
            /\ payload[Other(active)] = cache /\ footer[Other(active)] = cache
        BY DEF SealInv, FreezeInv, Frozen, FreezeStates, Good, Clean, Trusted
      <4>2. payload \in [Parts -> Image] /\ footer \in [Parts -> Digest] /\ f_pos \in 1 .. NBlocks + 1
        BY DEF SealInv, FreezeInv, TypeOK
      <4>3. CASE f_pos <= NBlocks
        <5>1. payload' = [payload EXCEPT ![Other(active)][f_pos] = payload[active][f_pos]] /\ footer' = footer
          BY <2>1, <2>4, <4>3 DEF RecoveryCopy, CopyCell
        <5>2. f_pos \in Blocks
          BY <4>2, <4>3 DEF Blocks
        <5>3. payload[Other(active)] \in Image /\ payload[active][f_pos] \in Version
          <6>1. payload[Other(active)] \in Image /\ payload[active] \in Image
            BY <2>1, <4>2
          <6> QED
            BY <5>2, <6>1 DEF Image
        <5>4. payload'[Other(active)] \in Image
          <6>1. payload' \in [Parts -> Image]
            BY ZenonT(30), ZenonT(60), <2>1, <4>2, <5>1, <5>2, BlockCopied
          <6> QED
            BY <2>1, <6>1
        <5>5. \A b \in Blocks : payload'[Other(active)][b] = payload[Other(active)][b]
          BY <2>1, <4>1, <4>2, <5>1, <5>2, <5>3, BlockWritten
        <5> QED
          BY Zenon, ZenonT(60), <5>1, <5>3, <5>4, <5>5, SameBlocks
      <4>4. CASE ~(f_pos <= NBlocks)
        BY <2>1, <2>4, <4>1, <4>2, <4>4 DEF RecoveryCopy, CopyCell
      <4> QED
        BY <4>3, <4>4
    <3> QED
      BY ZenonT(30), ZenonT(60), <1>1, <2>1, <2>2, <2>3, <3>1, <3>2, SealFrame DEF SealedStates
  <2>5. CASE RecoveryFsync
    <3>1. /\ UNCHANGED <<payload, footer>>
          /\ d_payload'[Other(active)] = payload[Other(active)]
          /\ d_footer'[Other(active)] = footer[Other(active)]
      BY <2>1, <2>5 DEF RecoveryFsync, Flush, SealInv, FreezeInv, TypeOK
    <3>2. p_pc = "done_ok" => /\ d_payload'[Other(active)] = d_payload[Other(active)]
                              /\ d_footer'[Other(active)] = d_footer[Other(active)]
      BY <3>1 DEF SealInv, Clean
    <3> QED
      BY <1>1, <2>1, <2>2, <2>3, <3>1, <3>2, SealFrame DEF SealedStates
  <2>6. CASE ~RecoveryCopy /\ ~RecoveryFsync
    <3>1. UNCHANGED device
      BY <2>6 DEF MountPartition, Boot, EnableDelay, VerifyCandidate, MountCandidate, Notify, MountFails,
         ReadDirtyFails, CandidateFails, NotifyFails, RecoverAppParam, PeerVerify,
         PeerVerifyFails, RecoveryCopyOpen, PostVerify, RecoveryFails, Release, RestoreDirty
    <3> QED
      BY <1>1, <2>1, <2>3, <3>1, SealFrame DEF device, SealedStates
  <2> QED
    BY <2>4, <2>5, <2>6
<1> QED
  BY <1>2, <1>3

(* The power path, up to the copy.                                         *)
LEMMA SealPowerStep ==
  ASSUME WholeDigest, SealInv, FreezeInv', Request \/ Prepare, ~PowerCopy
  PROVE  SealInv'
PROOF
<1>1. UNCHANGED f_pc
  BY DEF Request, PowerRequest, FsctlUmount, PrepareAgain, Prepare, WaitMountRecovery, WaitFails,
     ResolveActivePeer, DisableWrite, DisableWriteDone, DisableWriteFails, SealHash, SealHashDone,
     WriteDescriptor, DescriptorFsync, PowerCopyOpen, PowerCopy, PowerCopyFsync, PrepareFails, fsctl
<1>2. ASSUME p_pc' \in Resting \cup {"disable", "sync"} PROVE SealInv'
  BY <1>2 DEF SealInv, Resting, PeerHeldByPower
<1>3. CASE DisableWriteDone
  <2>1. p_pc' = "seal" /\ hbuf' = << >>
    BY <1>3 DEF DisableWriteDone
  <2>2. Len(hbuf') <= NBlocks /\ \A i \in 1 .. Len(hbuf') : hbuf'[i] = cache'[i]
    BY <2>1, SuperRaidAssumption
  <2> QED
    BY <2>1, <2>2, ZenonT(30), SMTT(30), SMTT(60) DEF SealInv, PeerHeldByPower
<1>4. ASSUME p_pc \in FreezeStates
      PROVE  /\ cache = payload[active] /\ cache = d_payload[active] /\ cache \in Image
             /\ active = cand /\ active \in Parts /\ Other(active) # active /\ Other(active) \in Parts
             /\ payload \in [Parts -> Image] /\ footer \in [Parts -> Digest]
             /\ d_payload \in [Parts -> Image] /\ d_footer \in [Parts -> Digest]
             /\ hbuf \in Seq(Version)
  BY <1>4, OtherPart DEF SealInv, FreezeInv, Frozen, FreezeStates, TypeOK
<1>5. CASE SealHash
  <2>1. /\ p_pc = "seal" /\ Len(hbuf) < NBlocks /\ p_pc' = "seal" /\ UNCHANGED <<cache, active>>
        /\ hbuf' = Append(hbuf, cache[Len(hbuf) + 1])
        /\ hbuf \in Seq(Version) /\ cache \in Image
    BY <1>4, <1>5 DEF SealHash, FreezeStates, kernel
  <2>2. \A i \in 1 .. Len(hbuf) : hbuf[i] = cache[i]
    BY <2>1 DEF SealInv
  <2>3. Len(hbuf) \in Nat /\ cache[Len(hbuf) + 1] \in Version
    BY <2>1, SuperRaidAssumption DEF Image, Blocks
  <2>4. Len(hbuf') = Len(hbuf) + 1 /\ \A i \in 1 .. Len(hbuf') : hbuf'[i] = cache[i]
    BY <2>1, <2>2, <2>3
  <2>5. Len(hbuf') <= NBlocks /\ \A i \in 1 .. Len(hbuf') : hbuf'[i] = cache'[i]
    BY <2>1, <2>3, <2>4, SuperRaidAssumption
  <2> QED
    BY <2>1, <2>5, ZenonT(30), SMTT(30), SMTT(60) DEF SealInv, PeerHeldByPower
<1>6. CASE SealHashDone
  <2>1. /\ p_pc = "seal" /\ Len(hbuf) = NBlocks /\ p_pc' = "descriptor" /\ UNCHANGED <<cache, active, hbuf>>
        /\ hbuf \in Seq(Version) /\ cache \in Image
    BY <1>4, <1>6 DEF SealHashDone, WholeDigest, FreezeStates, kernel
  <2>2. hbuf = cache
    BY <2>1, FullDigest DEF SealInv
  <2> QED
    BY <2>1, <2>2 DEF SealInv, PeerHeldByPower
<1>7. CASE WriteDescriptor
  <2>1. p_pc = "descriptor" /\ p_pc' = "desc_fsync" /\ UNCHANGED <<cache, active>>
        /\ footer'[active] = cache
    BY <1>4, <1>7 DEF WriteDescriptor, SealInv, FreezeStates, kernel
  <2> QED
    BY <2>1 DEF SealInv, PeerHeldByPower
<1>8. CASE DescriptorFsync
  <2>1. p_pc = "desc_fsync" /\ p_pc' = "copy_open" /\ UNCHANGED <<cache, active, payload, footer>>
        /\ d_payload'[active] = payload[active] /\ d_footer'[active] = footer[active]
    BY <1>4, <1>8 DEF DescriptorFsync, Flush, FreezeStates, kernel
  <2>2. Good(active)'
    BY <1>4, <2>1 DEF SealInv, Good, Clean, Trusted, FreezeStates
  <2> QED
    BY <2>1, <2>2 DEF SealInv, PeerHeldByPower
<1>9. CASE PowerCopyOpen
  <2>1. /\ p_pc = "copy_open" /\ p_pc' = "copy" /\ p_pos' = 1 /\ ~PeerHeldByFsctl
        /\ UNCHANGED <<device, cache, active>>
    BY <1>9 DEF PowerCopyOpen, kernel
  <2>2. Good(active)' /\ ~PeerHeldByFsctl'
    BY <1>1, <2>1 DEF SealInv, Good, Clean, Trusted, device, PeerHeldByFsctl
  <2> QED
    BY <2>1, <2>2 DEF SealInv, Blocks
<1>10. CASE PowerCopyFsync
  <2>1. /\ p_pc = "copy_fsync" /\ p_pc' = "done_ok" /\ UNCHANGED <<cache, active, payload, footer>>
        /\ d_payload'[Other(active)] = payload[Other(active)] /\ d_footer'[Other(active)] = footer[Other(active)]
        /\ d_payload'[active] = d_payload[active] /\ d_footer'[active] = d_footer[active]
    BY <1>4, <1>10 DEF PowerCopyFsync, Flush, FreezeStates, kernel
  <2>2. Good(active)' /\ Clean(Other(active))'
    BY <2>1 DEF SealInv, Good, Clean, Trusted
  <2> QED
    BY <2>1, <2>2 DEF SealInv, PeerHeldByPower
<1> QED
  BY <1>2, <1>3, <1>5, <1>6, <1>7, <1>8, <1>9, <1>10
  DEF Request, PowerRequest, FsctlUmount, PrepareAgain, Prepare, WaitMountRecovery, WaitFails,
     ResolveActivePeer, DisableWrite, DisableWriteFails, PrepareFails, Resting

(* The copy of the power path.                                             *)
LEMMA SealCopyStep ==
  ASSUME SealInv, FreezeInv', PowerCopy
  PROVE  SealInv'
PROOF
<1>1. /\ p_pc = "copy" /\ p_pc' = CopyPc(p_pos) /\ p_pos' = CopyPos(p_pos)
      /\ CopyCell(active, Other(active), p_pos)
      /\ UNCHANGED <<f_pc, cache, active, d_payload, d_footer>>
  BY DEF PowerCopy, kernel, fsctl
<1>2. /\ payload \in [Parts -> Image] /\ footer \in [Parts -> Digest]
      /\ p_pos \in 1 .. NBlocks + 1 /\ active \in Parts
      /\ cache = payload[active]
  BY <1>1 DEF SealInv, FreezeInv, TypeOK, Frozen, FreezeStates
<1>3. \A b \in Blocks : b < p_pos => payload[Other(active)][b] = payload[active][b]
  BY <1>1, <1>2 DEF SealInv
<1>4. /\ payload'[active] = payload[active] /\ footer'[active] = footer[active]
      /\ CopyPc(p_pos) = "copy" =>
           \A b \in Blocks : b < CopyPos(p_pos) => payload'[Other(active)][b] = payload'[active][b]
      /\ CopyPc(p_pos) = "copy_fsync" =>
           /\ payload'[Other(active)] = payload'[active]
           /\ footer'[Other(active)] = footer'[active]
  BY <1>1, <1>2, <1>3, CopyStep
<1>5. Good(active) /\ footer[active] = cache
  BY <1>1, <1>2 DEF SealInv, Good, Clean, Trusted
<1>6. Good(active)'
  BY <1>1, <1>4, <1>5 DEF Good, Clean, Trusted
<1>7. ~PeerHeldByFsctl'
  BY <1>1 DEF SealInv, PeerHeldByPower, PeerHeldByFsctl
<1>8. p_pc' \in {"copy", "copy_fsync"}
  BY <1>1 DEF CopyPc
<1> QED
  BY <1>1, <1>2, <1>4, <1>5, <1>6, <1>7, <1>8 DEF SealInv

(* SealInv is inductive as long as the digest is whole and no eviction     *)
(* follows the freeze.                                                     *)
LEMMA SealInvStep ==
  ASSUME NoEvict, WholeDigest
  PROVE  SealInv /\ [Next]_vars => SealInv'
PROOF
<1> SUFFICES ASSUME SealInv, [Next]_vars PROVE SealInv'
  OBVIOUS
<1>0. FreezeInv /\ FreezeInv'
  BY FreezeInvStep DEF SealInv
<1>1. CASE UNCHANGED vars
  <2>1. UNCHANGED <<device, power, cache, f_pc>>
    BY <1>1 DEF vars, kernel, fsctl
  <2>2. ~(PeerHeldByPower /\ PeerHeldByFsctl)'
    BY <2>1 DEF SealInv, PeerHeldByPower, PeerHeldByFsctl, power
  <2> QED
    BY <1>0, <2>1, <2>2, SealFrame DEF device
<1>2. CASE MountPartition \/ MountFails \/ RecoverAppParam
  BY <1>0, <1>2, SealFsctlStep
<1>3. CASE FileSystem
  <2>1. ~Frozen
    BY <1>0, <1>3, NoFileSystemStep
  <2>2. UNCHANGED <<fsctl, power>>
    BY <1>3 DEF FileSystem, AppWrite, EvictInode, AppFsync, Writeback
  <2> QED
    BY <1>0, <2>1, <2>2 DEF SealInv, Frozen, FreezeStates, PeerHeldByPower, PeerHeldByFsctl, fsctl, power
<1>4. CASE Device
  <2>1. TypeOK
    BY <1>0 DEF FreezeInv
  <2>2. /\ UNCHANGED <<payload, footer, cache, power, f_pc>>
        /\ \A p \in Parts : Clean(p) => d_payload'[p] = d_payload[p] /\ d_footer'[p] = d_footer[p]
    BY <1>4, <2>1, DeviceKeeps DEF Clean, kernel, fsctl
  <2>3. active \in Parts /\ Other(active) \in Parts
    BY <2>1, OtherPart DEF TypeOK
  <2>4. /\ p_pc \in SealedStates => Clean(active)
        /\ p_pc = "done_ok" => Clean(Other(active))
    BY DEF SealInv, SealedStates, Good
  <2>5. ~(PeerHeldByPower /\ PeerHeldByFsctl)'
    BY <2>2 DEF SealInv, PeerHeldByPower, PeerHeldByFsctl, power
  <2> QED
    BY <1>0, <2>2, <2>3, <2>4, <2>5, SealFrame
<1>5. CASE Request \/ Prepare
  BY <1>0, <1>5, SealPowerStep, SealCopyStep
<1>6. CASE Crash \/ PowerOff
  <2>1. p_pc' = "idle"
    BY <1>6 DEF Crash, PowerOff, VolatileReset
  <2> QED
    BY <1>0, <2>1 DEF SealInv, PeerHeldByPower
<1> QED
  BY <1>1, <1>2, <1>3, <1>4, <1>5, <1>6 DEF Next

(* SealInv is an invariant, with every other hazard present.               *)
THEOREM SealInvariant ==
  ASSUME NoEvict, WholeDigest
  PROVE  Spec => []SealInv
PROOF
<1>1. Init => SealInv
  <2> SUFFICES ASSUME Init PROVE SealInv
    OBVIOUS
  <2>1. TypeOK
    BY TypeInit
  <2> QED
    BY <2>1 DEF Init, FreezeInv, Frozen, FreezeStates, SealInv, PeerHeldByPower
<1> QED
  BY <1>1, SealInvStep, PTL DEF Spec

(* A successful power prepare leaves A equal to B, sealed on the medium,   *)
(* with all that the Apps wrote - also when "fsctl umount" did not wait    *)
(* for Recovery, and whatever failed or was repeated before.               *)
THEOREM PreparedEqual ==
  ASSUME NoEvict, WholeDigest
  PROVE  Spec => []PreparedPairEqual
PROOF
<1>1. SealInv => PreparedPairEqual
  <2> SUFFICES ASSUME SealInv, p_pc = "done_ok", NEW p \in Parts
               PROVE  d_payload[p] = cache /\ d_footer[p] = cache
    BY DEF PreparedPairEqual
  <2>1. cache = d_payload[active] /\ active \in Parts
    BY DEF SealInv, FreezeInv, TypeOK, Frozen
  <2>2. Good(active) /\ Clean(Other(active)) /\ payload[Other(active)] = cache /\ footer[Other(active)] = cache
    BY DEF SealInv
  <2>3. p = active \/ p = Other(active)
    BY <2>1, OtherPart
  <2> QED
    BY Zenon, ZenonT(60), <2>1, <2>2, <2>3 DEF Good, Clean, Trusted
<1> QED
  BY <1>1, SealInvariant, PTL

(* The power path overwrites the peer only while the active partition is   *)
(* sealed on the medium, whether or not Recovery is still at work.         *)
THEOREM CopyFromSealed ==
  ASSUME NoEvict, WholeDigest
  PROVE  Spec => []CopyOnlyFromSealed
PROOF
<1>1. SealInv => CopyOnlyFromSealed
  BY DEF SealInv, CopyOnlyFromSealed, Good
<1> QED
  BY <1>1, SealInvariant, PTL
=============================================================================

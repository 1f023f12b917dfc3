-------------------------- MODULE SuperRaid_proofs --------------------------
(***************************************************************************)
(* Proofs about the A/B life cycle, for every number of blocks and of      *)
(* modifications: the types hold under every set of hazards, and LifeInv,  *)
(* from which AlwaysBootable follows, is inductive under Calm.             *)
(***************************************************************************)
EXTENDS SuperRaid, TLAPS

\* The provers that are tried, in turn, on a leaf that names none.
USE SMTT(10), ZenonT(20), SMTT(20), ZenonT(40), SMTT(40)

\* No environment hazard but a failing verify or mount.
Calm == Env \subseteq {"boot_io"}

(* Without the short-hash hazard hash_sha256_fd returns the digest of the  *)
(* whole region, which is a value a footer can hold.                       *)
LEMMA HashIsImage ==
  ASSUME Calm, NEW img \in Image
  PROVE  HashResults(img) = {img}
PROOF
  BY DEF Calm, HashResults

(* The content of a region is a digest.                                    *)
LEMMA ImageIsDigest ==
  ASSUME NEW img \in Image
  PROVE  img \in Digest /\ Len(img) = NBlocks
PROOF
  BY SuperRaidAssumption DEF Image, Digest, Blocks, Version

(* The two partitions are each other's peer.                               *)
LEMMA OtherPart ==
  ASSUME NEW p \in Parts
  PROVE  Other(p) \in Parts /\ Other(p) # p /\ Other(Other(p)) = p /\ Parts = {p, Other(p)}
PROOF
  BY DEF Parts, Other

(* Writing one block of one partition.                                     *)
LEMMA BlockWritten ==
  ASSUME NEW f \in [Parts -> Image], NEW p \in Parts, NEW b \in Blocks, NEW v \in Version
  PROVE  /\ [f EXCEPT ![p][b] = v] \in [Parts -> Image]
         /\ [f EXCEPT ![p][b] = v][p][b] = v
         /\ \A q \in Parts, c \in Blocks :
              q # p \/ c # b => [f EXCEPT ![p][b] = v][q][c] = f[q][c]
         /\ \A q \in Parts : q # p => [f EXCEPT ![p][b] = v][q] = f[q]
PROOF
<1>1. [f EXCEPT ![p][b] = v] = [f EXCEPT ![p] = [f[p] EXCEPT ![b] = v]]
  OBVIOUS
<1>2. f[p] \in Image
  OBVIOUS
<1>3. [f[p] EXCEPT ![b] = v] \in Image
  BY <1>2 DEF Image
<1>4. [f EXCEPT ![p][b] = v] \in [Parts -> Image]
  BY <1>1, <1>3
<1>5. [f EXCEPT ![p][b] = v][p][b] = v
  BY <1>1, <1>2 DEF Image
<1>6. ASSUME NEW q \in Parts, q # p PROVE [f EXCEPT ![p][b] = v][q] = f[q]
  BY <1>1, <1>6
<1>7. ASSUME NEW c \in Blocks, c # b PROVE [f EXCEPT ![p][b] = v][p][c] = f[p][c]
  BY <1>1, <1>2, <1>7 DEF Image
<1> QED
  BY <1>4, <1>5, <1>6, <1>7

(* One step of a copy.                                                     *)
LEMMA BlockCopied ==
  ASSUME NEW f \in [Parts -> Image], NEW src \in Parts, NEW dst \in Parts, NEW b \in Blocks
  PROVE  [f EXCEPT ![dst][b] = f[src][b]] \in [Parts -> Image]
PROOF
<1>1. f[src] \in Image
  OBVIOUS
<1>2. f[src][b] \in Version
  BY <1>1 DEF Image
<1> QED
  BY <1>2, BlockWritten

(* Every step keeps the variables in their types, whatever the hazards.    *)
LEMMA TypeStep ==
  ASSUME TypeOK, Next
  PROVE  TypeOK'
PROOF
<1> USE SuperRaidAssumption
    DEF TypeOK, Parts, device, kernel, users, fsctl, power
<1>1. CASE Boot
  BY <1>1 DEF Boot, FStates, Repairing
<1>2. CASE ReadDirtyFails
  BY <1>2 DEF ReadDirtyFails, FStates, Repairing
<1>3. CASE EnableDelay
  BY <1>3 DEF EnableDelay, write_dirty_settings, FStates, Repairing
<1>4. CASE VerifyCandidate
  BY <1>4 DEF VerifyCandidate, NextCandidate, FStates, Repairing
<1>5. CASE MountCandidate
  BY Zenon, ZenonT(60), <1>5 DEF MountCandidate, FStates, Repairing
<1>6. CASE CandidateFails
  BY <1>6 DEF CandidateFails, NextCandidate, FStates, Repairing
<1>7. CASE Notify
  BY <1>7 DEF Notify, FStates, Repairing
<1>8. CASE NotifyFails
  BY <1>8 DEF NotifyFails, FStates, Repairing, PStates
<1>9. CASE PeerVerify
  BY <1>9 DEF PeerVerify, FStates, Repairing, Other
<1>10. CASE PeerVerifyFails
  BY <1>10 DEF PeerVerifyFails, FStates, Repairing
<1>11. CASE RecoveryCopyOpen
  BY <1>11 DEF RecoveryCopyOpen, FStates, Repairing
<1>12. CASE RecoveryCopy
  <2>1. f_pos \in 1 .. NBlocks + 1 /\ Other(cand) \in Parts /\ cand \in Parts
    BY DEF Other
  <2>2. CASE f_pos <= NBlocks
    <3>1. f_pos \in Blocks
      BY <2>1, <2>2 DEF Blocks
    <3>2. payload' = [payload EXCEPT ![Other(cand)][f_pos] = payload[cand][f_pos]]
      BY <1>12, <2>2 DEF RecoveryCopy, CopyCell
    <3>3. payload' \in [Parts -> Image]
      BY Zenon, ZenonT(60), <2>1, <3>1, <3>2, BlockCopied
    <3> QED
      BY <1>12, <2>1, <2>2, <3>3 DEF RecoveryCopy, CopyCell, CopyPos, CopyPc, FStates, Repairing
  <2>3. CASE f_pos > NBlocks
    BY <1>12, <2>1, <2>3 DEF RecoveryCopy, CopyCell, CopyPos, CopyPc, FStates, Repairing
  <2> QED
    BY <2>1, <2>2, <2>3
<1>13. CASE RecoveryFsync
  BY <1>13 DEF RecoveryFsync, Flush, FStates, Repairing, Other
<1>14. CASE PostVerify
  BY <1>14 DEF PostVerify, FStates, Repairing, Other
<1>15. CASE RecoveryFails
  BY <1>15 DEF RecoveryFails, FStates, Repairing
<1>16. CASE Release
  BY ZenonT(30), ZenonT(60), <1>16 DEF Release, FStates, Repairing
<1>17. CASE RestoreDirty
  BY <1>17 DEF RestoreDirty, write_dirty_settings, FStates, Repairing
<1>18. CASE PowerRequest
  BY <1>18 DEF PowerRequest, FStates, Repairing, PStates
<1>19. CASE FsctlUmount
  BY <1>19 DEF FsctlUmount, FStates, Repairing, PStates
<1>20. CASE WaitMountRecovery
  BY <1>20 DEF WaitMountRecovery, PStates
<1>21. CASE WaitFails
  BY <1>21 DEF WaitFails, PStates
<1>22. CASE ResolveActivePeer
  BY <1>22 DEF ResolveActivePeer, PStates
<1>23. CASE DisableWrite
  BY <1>23 DEF DisableWrite, PStates
<1>24. CASE DisableWriteDone
  <2>1. d_payload' \in [Parts -> Image] /\ d_footer' \in [Parts -> Digest]
    <3>1. CASE fs \in Parts
      BY <1>24, <3>1 DEF DisableWriteDone, Flush
    <3>2. CASE fs = "none"
      BY Zenon, ZenonT(60), <1>24, <3>2 DEF DisableWriteDone, Flush
    <3> QED
      BY <3>1, <3>2
  <2>2. hbuf' \in Seq(Version)
    BY <1>24 DEF DisableWriteDone
  <2> QED
    BY <1>24, <2>1, <2>2 DEF DisableWriteDone, PStates
<1>25. CASE DisableWriteFails
  BY ZenonT(30), ZenonT(60), <1>25 DEF DisableWriteFails, PStates
<1>26. CASE SealHash
  <2>1. Len(hbuf) + 1 \in Blocks
    BY <1>26 DEF SealHash, Blocks
  <2>2. hbuf' \in Seq(Version)
    <3>1. payload[active] \in Image
      OBVIOUS
    <3>2. payload[active][Len(hbuf) + 1] \in Version
      BY <2>1, <3>1 DEF Image
    <3> QED
      BY <1>26, <3>2 DEF SealHash
  <2> QED
    BY <1>26, <2>2 DEF SealHash
<1>27. CASE SealHashDone
  BY <1>27 DEF SealHashDone, PStates
<1>28. CASE WriteDescriptor
  <2>1. footer' \in [Parts -> Digest]
    BY <1>28 DEF WriteDescriptor, Digest
  <2> QED
    BY <1>28, <2>1 DEF WriteDescriptor, PStates
<1>29. CASE DescriptorFsync
  BY <1>29 DEF DescriptorFsync, Flush, PStates
<1>30. CASE PowerCopyOpen
  BY <1>30 DEF PowerCopyOpen, PStates
<1>31. CASE PowerCopy
  <2>1. p_pos \in 1 .. NBlocks + 1 /\ Other(active) \in Parts /\ active \in Parts
    BY DEF Other
  <2>2. CASE p_pos <= NBlocks
    <3>1. p_pos \in Blocks
      BY <2>1, <2>2 DEF Blocks
    <3>2. payload' = [payload EXCEPT ![Other(active)][p_pos] = payload[active][p_pos]]
      BY <1>31, <2>2 DEF PowerCopy, CopyCell
    <3>3. payload' \in [Parts -> Image]
      BY Zenon, ZenonT(60), <2>1, <3>1, <3>2, BlockCopied
    <3> QED
      BY <1>31, <2>1, <2>2, <3>3 DEF PowerCopy, CopyCell, CopyPos, CopyPc, PStates
  <2>3. CASE p_pos > NBlocks
    BY <1>31, <2>1, <2>3 DEF PowerCopy, CopyCell, CopyPos, CopyPc, PStates
  <2> QED
    BY <2>1, <2>2, <2>3
<1>32. CASE PowerCopyFsync
  BY <1>32 DEF PowerCopyFsync, Flush, PStates, Other
<1>33. CASE PrepareFails
  BY <1>33 DEF PrepareFails, PStates
<1>34. CASE PrepareAgain
  BY <1>34 DEF PrepareAgain, PStates
<1>35. CASE Crash
  <2>1. /\ cache' \in Image /\ hbuf' \in Seq(Version) /\ mounted_digest' \in Digest
        /\ f_pos' \in 1 .. NBlocks + 1 /\ p_pos' \in 1 .. NBlocks + 1
    BY <1>35 DEF Crash, VolatileReset, Fresh, Digest, Image, Version
  <2>2. /\ payload' \in [Parts -> Image] /\ d_payload' \in [Parts -> Image]
        /\ footer' \in [Parts -> Digest] /\ d_footer' \in [Parts -> Digest]
    BY <1>35 DEF Crash
  <2>3. profile' \in [Sysctls -> {"original", "delayed"}]
    BY <1>35 DEF Crash, VolatileReset
  <2> QED
    BY Zenon, ZenonT(60), <1>35, <2>1, <2>2, <2>3 DEF Crash, VolatileReset, FStates, PStates
<1>36. CASE PowerOff
  <2>1. /\ cache' \in Image /\ hbuf' \in Seq(Version) /\ mounted_digest' \in Digest
        /\ f_pos' \in 1 .. NBlocks + 1 /\ p_pos' \in 1 .. NBlocks + 1
    BY <1>36 DEF PowerOff, VolatileReset, Fresh, Digest, Image, Version
  <2>2. /\ payload' \in [Parts -> Image] /\ d_payload' \in [Parts -> Image]
        /\ footer' \in [Parts -> Digest] /\ d_footer' \in [Parts -> Digest]
    BY <1>36 DEF PowerOff
  <2>3. profile' \in [Sysctls -> {"original", "delayed"}]
    BY <1>36 DEF PowerOff, VolatileReset
  <2> QED
    BY ZenonT(30), ZenonT(60), <1>36, <2>1, <2>2, <2>3 DEF PowerOff, VolatileReset, FStates, PStates
<1>37. ASSUME NEW b \in Blocks, AppWrite(b) PROVE TypeOK'
  <2>1. version' \in Version /\ cache' \in Image
    BY <1>37 DEF AppWrite, Version, Image
  <2> QED
    BY <1>37, <2>1 DEF AppWrite
<1>38. ASSUME NEW b \in Blocks, EvictInode(b) PROVE TypeOK'
  <2>1. version' \in Version /\ cache' \in Image
    BY <1>38 DEF EvictInode, Version, Image
  <2> QED
    BY <1>38, <2>1 DEF EvictInode
<1>39. ASSUME NEW b \in Blocks, AppFsync(b) PROVE TypeOK'
  BY <1>39 DEF AppFsync, Blocks, Image
<1>40. ASSUME NEW b \in Blocks, Writeback(b) PROVE TypeOK'
  BY <1>40 DEF Writeback, Blocks, Image
<1>41. ASSUME NEW p \in Parts, NEW b \in Blocks, PersistBlock(p, b) PROVE TypeOK'
  <2>1. payload[p][b] \in Version
    BY DEF Image
  <2>2. d_payload' \in [Parts -> Image]
    BY <1>41, <2>1, BlockWritten DEF PersistBlock
  <2> QED
    BY <1>41, <2>2 DEF PersistBlock
<1>42. ASSUME NEW p \in Parts, PersistFooter(p) PROVE TypeOK'
  BY <1>42 DEF PersistFooter, Blocks
<1> QED
  BY ZenonT(30), ZenonT(60), <1>1, <1>2, <1>3, <1>4, <1>5, <1>6, <1>7, <1>8, <1>9, <1>10, <1>11, <1>12, <1>13,
       <1>14, <1>15, <1>16, <1>17, <1>18, <1>19, <1>20, <1>21, <1>22, <1>23, <1>24, <1>25, <1>26,
       <1>27, <1>28, <1>29, <1>30, <1>31, <1>32, <1>33, <1>34, <1>35, <1>36, <1>37, <1>38, <1>39,
       <1>40, <1>41, <1>42 DEF Next, MountPartition, MountFails, RecoverAppParam, FileSystem,
       Device, Request, Prepare

(* Two regions with the same blocks are the same region.                   *)
LEMMA SameBlocks ==
  ASSUME NEW f \in Image, NEW g \in Image, \A b \in Blocks : f[b] = g[b]
  PROVE  f = g
PROOF
  BY DEF Image

(* A digest context that took NBlocks blocks, each that of the region,     *)
(* holds the digest of the region.                                         *)
LEMMA FullDigest ==
  ASSUME NEW s \in Seq(Version), Len(s) = NBlocks, NEW f \in Image,
         \A i \in 1 .. Len(s) : s[i] = f[i]
  PROVE  s = f
PROOF
<1>1. s \in Image
  BY SuperRaidAssumption DEF Image, Blocks
<1> QED
  BY <1>1, SameBlocks DEF Blocks

(* One step of copy_block_range_from_target: the source keeps its content, *)
(* the copied prefix grows, and after the last cell the two are equal.     *)
LEMMA CopyStep ==
  ASSUME payload \in [Parts -> Image], footer \in [Parts -> Digest],
         NEW src \in Parts, NEW pos \in 1 .. NBlocks + 1,
         CopyCell(src, Other(src), pos),
         \A b \in Blocks : b < pos => payload[Other(src)][b] = payload[src][b]
  PROVE  /\ payload'[src] = payload[src] /\ footer'[src] = footer[src]
         /\ CopyPc(pos) = "copy" =>
              \A b \in Blocks : b < CopyPos(pos) => payload'[Other(src)][b] = payload'[src][b]
         /\ CopyPc(pos) = "copy_fsync" =>
              /\ payload'[Other(src)] = payload'[src]
              /\ footer'[Other(src)] = footer'[src]
PROOF
<1>1. Other(src) \in Parts /\ Other(src) # src
  BY OtherPart
<1>2. CASE pos <= NBlocks
  <2>1. pos \in Blocks /\ CopyPc(pos) = "copy" /\ CopyPos(pos) = pos + 1
    BY <1>2, SuperRaidAssumption DEF Blocks, CopyPc, CopyPos
  <2>2. payload[src][pos] \in Version
    <3>1. payload[src] \in Image
      OBVIOUS
    <3> QED
      BY <2>1, <3>1 DEF Image
  <2>3. payload' = [payload EXCEPT ![Other(src)][pos] = payload[src][pos]] /\ footer' = footer
    BY <1>2 DEF CopyCell
  <2>4. /\ payload'[Other(src)][pos] = payload[src][pos]
        /\ \A c \in Blocks : c # pos => payload'[Other(src)][c] = payload[Other(src)][c]
        /\ payload'[src] = payload[src]
    BY <1>1, <2>1, <2>2, <2>3, BlockWritten
  <2>5. ASSUME NEW b \in Blocks, b < pos + 1
        PROVE  payload'[Other(src)][b] = payload'[src][b]
    <3>1. b = pos \/ b < pos
      BY <2>1, <2>5 DEF Blocks
    <3> QED
      BY <2>4, <3>1, <2>1 DEF Blocks
  <2> QED
    BY <2>1, <2>3, <2>4, <2>5
<1>3. CASE pos > NBlocks
  <2>1. CopyPc(pos) = "copy_fsync"
    BY <1>3, SuperRaidAssumption DEF CopyPc
  <2>2. payload' = payload /\ footer' = [footer EXCEPT ![Other(src)] = footer[src]]
    BY <1>3, SuperRaidAssumption DEF CopyCell
  <2>3. \A b \in Blocks : payload[Other(src)][b] = payload[src][b]
    BY <1>3, SuperRaidAssumption DEF Blocks
  <2>4. payload[Other(src)] = payload[src]
    BY <1>1, <2>3, SameBlocks
  <2> QED
    BY <1>1, <2>1, <2>2, <2>4
<1> QED
  BY <1>2, <1>3, SuperRaidAssumption

(* Whatever the phase, LifeInv leaves a partition that passes verify.      *)
LEMMA LifeInvTrusts == LifeInv => OneTrusted
PROOF
<1> SUFFICES ASSUME LifeInv PROVE OneTrusted
  OBVIOUS
<1>1. CASE ~apps
  BY <1>1 DEF LifeInv, QuietBeforeApps, OneTrusted
<1>2. CASE f_pc \in Repairing
  BY <1>2 DEF LifeInv, TypeOK, RecoverySource, Good, OneTrusted
<1>3. CASE apps /\ f_pc \notin Repairing
  <2>1. fs \in Parts /\ Other(fs) \in Parts
    BY <1>3, OtherPart DEF LifeInv, TypeOK, MountPhases
  <2>2. Good(Other(fs)) \/ Good(fs)
    BY <1>3 DEF LifeInv, TypeOK, PStates, PeerOrActive, Sealed
  <2> QED
    BY <2>1, <2>2 DEF Good, OneTrusted
<1> QED
  BY <1>1, <1>2, <1>3

-----------------------------------------------------------------------------
(* Frames: which conjuncts of LifeInv a step cannot disturb, by its phase. *)

\* Before the power path has found the active partition, and after it failed.
Idle == {"idle", "wait", "done_fail"}

(* The phases of the mount depend on these variables only.                 *)
LEMMA MountPhasesFrame ==
  ASSUME MountPhases, UNCHANGED <<fs, apps, gate, profile, fsctl>>
  PROVE  MountPhases'
PROOF
  BY DEF MountPhases, Delayed, fsctl

(* A step of the power path that writes nothing leaves Recovery alone.     *)
LEMMA RecoveryFrame ==
  ASSUME LifeInv, UNCHANGED <<device, kernel, users, fsctl>>
  PROVE  MountPhases' /\ QuietBeforeApps' /\ RecoverySource' /\ RecoveryProgress'
PROOF
<1>1. MountPhases'
  BY MountPhasesFrame DEF LifeInv, kernel, users
<1>2. \A p : (Clean(p) <=> Clean(p)') /\ (Trusted(p) <=> Trusted(p)') /\ (Good(p) <=> Good(p)')
  BY DEF Clean, Trusted, Good, device
<1>3. QuietBeforeApps'
  BY <1>2 DEF LifeInv, QuietBeforeApps, device, kernel, users, fsctl
<1>4. RecoverySource' /\ RecoveryProgress'
  BY <1>2 DEF LifeInv, RecoverySource, RecoveryProgress, device, fsctl
<1> QED
  BY <1>1, <1>3, <1>4

(* Once the Apps run and Recovery is over, nothing is asked of it.         *)
LEMMA RecoveryOver ==
  ASSUME apps', f_pc' \notin {"notify"} \cup Repairing
  PROVE  QuietBeforeApps' /\ RecoverySource' /\ RecoveryProgress'
PROOF
  BY DEF QuietBeforeApps, RecoverySource, RecoveryProgress, Repairing

(* A power path that is not at work asks nothing of the partitions.        *)
LEMMA PowerIdle ==
  ASSUME p_pc' \in Idle
  PROVE  PowerPhases' /\ SealProgress' /\ PowerCopyProgress'
PROOF
  BY DEF Idle, PowerPhases, SealProgress, PowerCopyProgress

(* fsctl takes steps only while the power path is not at work.             *)
LEMMA FsctlAlone ==
  ASSUME LifeInv, f_pc # "exited"
  PROVE  p_pc \in Idle
PROOF
  BY DEF LifeInv, PowerPhases, Idle

(* What the power path finds when it is at work.                           *)
LEMMA PowerAtWork ==
  ASSUME LifeInv, p_pc \notin Idle
  PROVE  /\ f_pc = "exited" /\ apps /\ fs \in Parts /\ fs = cand
         /\ Other(fs) \in Parts /\ Other(fs) # fs
         /\ p_pc # "resolve" => active = fs
PROOF
<1>1. f_pc = "exited" /\ apps /\ fs = cand /\ (p_pc # "resolve" => active = fs)
  BY DEF LifeInv, PowerPhases, MountPhases, Idle
<1> QED
  BY <1>1, OtherPart DEF LifeInv, TypeOK

(* The steps of mount_partition that succeed preserve LifeInv: nobody else *)
(* writes before READY=1.                                                  *)
LEMMA MountPartitionStep ==
  ASSUME Calm, LifeInv, MountPartition
  PROVE  LifeInv'
PROOF
<1>1. TypeOK'
  BY TypeStep DEF Next, LifeInv
<1>2. p_pc \in Idle /\ UNCHANGED power /\ ~apps
  BY FsctlAlone DEF LifeInv, MountPhases, MountPartition, Boot, EnableDelay,
     VerifyCandidate, MountCandidate, Notify
<1>3. PowerPhases' /\ SealProgress' /\ PowerCopyProgress'
  BY <1>2, PowerIdle DEF power
<1>4. /\ \A p \in Parts : Clean(p)
      /\ \E p \in Parts : Trusted(p)
      /\ fs # "none" => cache = payload[fs]
      /\ f_pc = "mount" => payload[cand] = mounted_digest /\ footer[cand] = mounted_digest
  BY <1>2 DEF LifeInv, QuietBeforeApps
<1>5. ASSUME UNCHANGED device
      PROVE  (\A p \in Parts : Clean(p)') /\ (\E p \in Parts : Trusted(p)')
  BY <1>4, <1>5 DEF Clean, Trusted, device
<1>6. cand \in Parts /\ Other(cand) \in Parts
  BY OtherPart DEF LifeInv, TypeOK
<1>7. CASE Boot
  <2>1. UNCHANGED <<device, apps, fs>> /\ f_pc' = "enable" /\ fs = "none"
    BY <1>7 DEF Boot, kernel, users, LifeInv, MountPhases
  <2>2. MountPhases'
    BY <1>2, <2>1 DEF MountPhases, Repairing
  <2>3. QuietBeforeApps' /\ RecoverySource' /\ RecoveryProgress' /\ PeerOrActive'
    BY <1>2, <1>5, <2>1 DEF QuietBeforeApps, RecoverySource, RecoveryProgress, PeerOrActive,
       Repairing
  <2> QED
    BY <1>1, <1>3, <2>2, <2>3 DEF LifeInv
<1>8. CASE EnableDelay
  <2>1. /\ UNCHANGED <<device, apps, fs>> /\ fs = "none"
        /\ f_pc' \in {"verify", "restore_fail"}
        /\ f_pc' = "verify" => profile' = [s \in Sysctls |-> "delayed"]
    BY <1>8 DEF EnableDelay, write_dirty_settings, users, LifeInv, MountPhases
  <2>2. MountPhases'
    BY <1>2, <2>1 DEF MountPhases, Repairing, Delayed
  <2>3. QuietBeforeApps' /\ RecoverySource' /\ RecoveryProgress' /\ PeerOrActive'
    BY <1>2, <1>5, <2>1 DEF QuietBeforeApps, RecoverySource, RecoveryProgress, PeerOrActive,
       Repairing
  <2> QED
    BY <1>1, <1>3, <2>2, <2>3 DEF LifeInv
<1>9. CASE VerifyCandidate
  <2>1. UNCHANGED <<device, kernel, apps>> /\ fs = "none" /\ Delayed
    BY <1>9 DEF VerifyCandidate, users, LifeInv, MountPhases
  <2>2. /\ f_pc' \in {"verify", "mount", "restore_fail"}
        /\ f_pc' = "mount" => /\ cand' = cand /\ mounted_digest' = payload[cand]
                              /\ footer[cand] = payload[cand]
    <3>1. HashResults(payload[cand]) = {payload[cand]}
      BY <1>6, HashIsImage DEF LifeInv, TypeOK
    <3> QED
      BY <1>9, <3>1 DEF VerifyCandidate, NextCandidate
  <2>3. MountPhases'
    BY <1>2, <2>1, <2>2 DEF MountPhases, Repairing, Delayed, kernel
  <2>4. QuietBeforeApps' /\ RecoverySource' /\ RecoveryProgress' /\ PeerOrActive'
    BY <1>2, <1>5, <2>1, <2>2 DEF QuietBeforeApps, RecoverySource, RecoveryProgress,
       PeerOrActive, Repairing, device, kernel
  <2> QED
    BY <1>1, <1>3, <2>3, <2>4 DEF LifeInv
<1>10. CASE MountCandidate
  <2>1. /\ UNCHANGED <<device, profile, apps, cand, mounted_digest>>
        /\ fs' = cand /\ cache' = payload[cand] /\ f_pc = "mount" /\ f_pc' = "notify"
    BY <1>10 DEF MountCandidate, users
  <2>2. MountPhases'
    BY <1>2, <2>1 DEF LifeInv, MountPhases, Repairing, Delayed
  <2>3. RecoverySource'
    BY <1>4, <1>6, <2>1 DEF RecoverySource, Repairing, Good, Clean, Trusted, device
  <2>4. QuietBeforeApps' /\ RecoveryProgress' /\ PeerOrActive'
    BY <1>2, <1>5, <2>1 DEF QuietBeforeApps, RecoveryProgress, PeerOrActive, device
  <2> QED
    BY <1>1, <1>3, <2>2, <2>3, <2>4 DEF LifeInv
<1>11. CASE Notify
  <2>1. /\ UNCHANGED <<device, kernel, cand, mounted_digest>>
        /\ apps' /\ gate' /\ f_pc = "notify" /\ f_pc' = "peer_verify"
    BY <1>11 DEF Notify
  <2>2. MountPhases'
    BY <1>6, <2>1 DEF LifeInv, MountPhases, Repairing, Delayed, kernel, Parts
  <2>3. RecoverySource' /\ RecoveryProgress'
    BY <1>4, <1>6, <2>1 DEF LifeInv, RecoverySource, RecoveryProgress, Repairing, Good, Clean,
       Trusted, device
  <2>4. QuietBeforeApps' /\ PeerOrActive'
    BY <2>1 DEF QuietBeforeApps, PeerOrActive, Repairing
  <2> QED
    BY <1>1, <1>3, <2>2, <2>3, <2>4 DEF LifeInv
<1> QED
  BY <1>7, <1>8, <1>9, <1>10, <1>11 DEF MountPartition

(* A mount_partition that fails leaves both partitions as they were.       *)
LEMMA MountFailsStep ==
  ASSUME Calm, LifeInv, MountFails
  PROVE  LifeInv'
PROOF
<1>1. TypeOK'
  BY TypeStep DEF Next, LifeInv
<1>2. /\ p_pc \in Idle /\ ~apps /\ UNCHANGED <<device, apps, profile, power>>
      /\ f_pc \in {"enable", "verify", "mount", "notify"}
      /\ f_pc' \in {"failed", "verify", "restore_fail"}
  BY FsctlAlone DEF LifeInv, MountPhases, MountFails, ReadDirtyFails, CandidateFails,
     NotifyFails, NextCandidate, kernel, users
<1>3. PowerPhases' /\ SealProgress' /\ PowerCopyProgress'
  BY <1>2, PowerIdle DEF power
<1>4. fs' = "none" \/ (fs' = fs /\ cache' = cache)
  BY DEF MountFails, ReadDirtyFails, CandidateFails, NotifyFails, kernel
<1>5. f_pc' = "verify" => fs' = "none" /\ Delayed
  BY DEF LifeInv, MountPhases, MountFails, ReadDirtyFails, CandidateFails, NotifyFails,
     NextCandidate, kernel
<1>6. MountPhases'
  BY <1>2, <1>5 DEF MountPhases, Repairing, Delayed
<1>7. /\ \A p \in Parts : Clean(p)'
      /\ \E p \in Parts : Trusted(p)'
      /\ fs' # "none" => cache' = payload'[fs']
  BY <1>2, <1>4 DEF LifeInv, QuietBeforeApps, Clean, Trusted, device
<1>8. QuietBeforeApps' /\ RecoverySource' /\ RecoveryProgress' /\ PeerOrActive'
  BY <1>2, <1>7 DEF QuietBeforeApps, RecoverySource, RecoveryProgress, PeerOrActive, Repairing
<1> QED
  BY <1>1, <1>3, <1>6, <1>8 DEF LifeInv

(* Recovery preserves LifeInv: it writes the peer only, and the active     *)
(* partition stays the snapshot that was verified.                         *)
LEMMA RecoverAppParamStep ==
  ASSUME Calm, LifeInv, RecoverAppParam
  PROVE  LifeInv'
PROOF
<1>1. TypeOK'
  BY TypeStep DEF Next, LifeInv
<1>2. p_pc \in Idle /\ UNCHANGED power
  BY FsctlAlone DEF RecoverAppParam, PeerVerify, PeerVerifyFails, RecoveryCopyOpen,
     RecoveryCopy, RecoveryFsync, PostVerify, RecoveryFails, Release, RestoreDirty, Repairing
<1>3. PowerPhases' /\ SealProgress' /\ PowerCopyProgress'
  BY <1>2, PowerIdle DEF power
<1>4. cand \in Parts /\ Other(cand) \in Parts /\ Other(cand) # cand
  BY OtherPart DEF LifeInv, TypeOK
<1>5. ASSUME f_pc \in Repairing
      PROVE  /\ apps /\ gate /\ fs = cand /\ Delayed
             /\ Good(cand) /\ d_payload[cand] = mounted_digest
  BY <1>5 DEF LifeInv, MountPhases, RecoverySource
<1>6. ASSUME f_pc \in Repairing, f_pc' \in Repairing, UNCHANGED <<kernel, users, cand>>
      PROVE  MountPhases' /\ QuietBeforeApps' /\ PeerOrActive'
  BY <1>4, <1>5, <1>6 DEF MountPhases, QuietBeforeApps, PeerOrActive, Repairing, Delayed,
     kernel, users, Parts
<1>7. ASSUME f_pc \in Repairing, UNCHANGED <<device, kernel, users, cand>>,
             \/ f_pc' = "release" /\ Good(Other(cand))
             \/ f_pc' = "restore_fail" /\ Good(Other(cand))
      PROVE  LifeInv'
  <2>1. apps' /\ f_pc' \notin {"notify"} \cup Repairing
    BY <1>5, <1>7 DEF users, Repairing
  <2>2. MountPhases'
    BY <1>4, <1>5, <1>7 DEF MountPhases, Repairing, Delayed, kernel, users, Parts
  <2>3. Good(Other(fs))'
    BY <1>5, <1>7 DEF Good, Clean, Trusted, device, kernel
  <2>4. PeerOrActive'
    BY <1>2, <2>3 DEF PeerOrActive, Idle, power
  <2> QED
    BY <1>1, <1>3, <2>1, <2>2, <2>4, RecoveryOver DEF LifeInv
<1>8. CASE PeerVerify \/ PostVerify
  <2>1. /\ f_pc \in {"peer_verify", "post_verify"}
        /\ UNCHANGED <<device, kernel, users, cand, mounted_digest>>
        /\ f_pc' \in {"release", "copy_open", "restore_fail"}
    BY <1>8 DEF PeerVerify, PostVerify
  <2>2. HashResults(payload[Other(cand)]) = {payload[Other(cand)]}
    BY <1>4, HashIsImage DEF LifeInv, TypeOK
  <2>3. f_pc' = "release" => payload[Other(cand)] = footer[Other(cand)]
    BY <1>8, <2>2 DEF PeerVerify, PostVerify
  <2>4. f_pc' = "restore_fail" => f_pc = "post_verify"
    BY <1>8, <2>2 DEF PeerVerify, PostVerify
  <2>5. Clean(Other(cand))
    BY <2>1 DEF LifeInv, RecoveryProgress
  <2>6. f_pc = "post_verify" => Good(Other(cand))
    BY <1>4, <1>5, <2>5 DEF LifeInv, RecoveryProgress, Repairing, Good, Clean, Trusted
  <2>7. f_pc' = "release" => Good(Other(cand))
    BY <2>3, <2>5 DEF Good, Clean, Trusted
  <2>8. CASE f_pc' = "copy_open"
    <3>1. RecoverySource' /\ RecoveryProgress'
      BY <1>5, <2>1, <2>8 DEF RecoverySource, RecoveryProgress, Repairing, Good, Clean,
         Trusted, device
    <3> QED
      BY <1>1, <1>3, <1>6, <2>1, <2>8, <3>1 DEF LifeInv, Repairing
  <2> QED
    BY <1>7, <2>1, <2>4, <2>6, <2>7, <2>8 DEF Repairing
<1>9. CASE PeerVerifyFails \/ RecoveryCopyOpen
  <2>1. /\ f_pc \in Repairing /\ f_pc' \in {"copy_open", "copy"} /\ (f_pc' = "copy" => f_pos' = 1)
        /\ UNCHANGED <<device, kernel, users, cand, mounted_digest>>
    BY <1>9 DEF PeerVerifyFails, RecoveryCopyOpen, Repairing
  <2>2. RecoverySource'
    BY <1>5, <2>1 DEF RecoverySource, Repairing, Good, Clean, Trusted, device
  <2>3. RecoveryProgress'
    BY <2>1 DEF RecoveryProgress, Blocks
  <2> QED
    BY <1>1, <1>3, <1>6, <2>1, <2>2, <2>3 DEF LifeInv, Repairing
<1>10. CASE RecoveryCopy
  <2>1. /\ f_pc = "copy" /\ f_pc' \in {"copy", "copy_fsync"}
        /\ UNCHANGED <<d_payload, d_footer, kernel, users, cand, mounted_digest>>
    BY <1>10 DEF RecoveryCopy, CopyPc
  <2>2. /\ payload'[cand] = payload[cand] /\ footer'[cand] = footer[cand]
        /\ f_pc' = "copy" =>
             \A b \in Blocks : b < f_pos' => payload'[Other(cand)][b] = payload'[cand][b]
        /\ f_pc' = "copy_fsync" =>
             /\ payload'[Other(cand)] = payload'[cand]
             /\ footer'[Other(cand)] = footer'[cand]
    <3>1. /\ payload \in [Parts -> Image] /\ footer \in [Parts -> Digest]
          /\ f_pos \in 1 .. NBlocks + 1
      BY DEF LifeInv, TypeOK
    <3>2. \A b \in Blocks : b < f_pos => payload[Other(cand)][b] = payload[cand][b]
      BY <2>1 DEF LifeInv, RecoveryProgress
    <3>3. /\ CopyCell(cand, Other(cand), f_pos)
          /\ f_pos' = CopyPos(f_pos) /\ f_pc' = CopyPc(f_pos)
      BY <1>10 DEF RecoveryCopy
    <3> QED
      BY <1>4, <3>1, <3>2, <3>3, CopyStep
  <2>3. RecoverySource' /\ RecoveryProgress'
    BY <1>5, <2>1, <2>2 DEF RecoverySource, RecoveryProgress, Repairing, Good, Clean, Trusted
  <2> QED
    BY <1>1, <1>3, <1>6, <2>1, <2>3 DEF LifeInv, Repairing
<1>11. CASE RecoveryFsync
  <2>1. /\ f_pc = "copy_fsync" /\ f_pc' = "post_verify" /\ Flush(Other(cand))
        /\ UNCHANGED <<payload, footer, kernel, users, cand, mounted_digest>>
    BY <1>11 DEF RecoveryFsync
  <2>2. /\ d_payload'[cand] = d_payload[cand] /\ d_footer'[cand] = d_footer[cand]
        /\ d_payload'[Other(cand)] = payload[Other(cand)]
        /\ d_footer'[Other(cand)] = footer[Other(cand)]
    BY <1>4, <2>1 DEF Flush, LifeInv, TypeOK
  <2>3. RecoverySource' /\ RecoveryProgress'
    BY <1>5, <2>1, <2>2 DEF LifeInv, RecoverySource, RecoveryProgress, Repairing, Good, Clean,
       Trusted
  <2> QED
    BY <1>1, <1>3, <1>6, <2>1, <2>3 DEF LifeInv, Repairing
<1>12. CASE RecoveryFails
  BY <1>2, <1>12 DEF Calm, RecoveryFails, PeerHeldByPower, Idle
<1>13. CASE Release
  <2>1. /\ f_pc = "release" /\ f_pc' \in {"restore_ok", "restore_fail"}
        /\ UNCHANGED <<device, kernel, apps, cand>>
    BY <1>13 DEF Release
  <2>2. apps /\ fs = cand
    BY <2>1 DEF LifeInv, MountPhases
  <2>3. MountPhases'
    BY <1>4, <2>1, <2>2 DEF MountPhases, Repairing, kernel, Parts
  <2>4. PeerOrActive'
    BY <1>2, <2>1, <2>2 DEF LifeInv, PeerOrActive, Repairing, Idle, Good, Clean, Trusted,
       Sealed, device, kernel, power
  <2> QED
    BY <1>1, <1>3, <2>1, <2>2, <2>3, <2>4, RecoveryOver DEF LifeInv, Repairing
<1>14. CASE RestoreDirty
  <2>1. /\ f_pc \in {"restore_ok", "restore_fail"} /\ f_pc' \in {"exited", "failed"}
        /\ f_pc' = "exited" => f_pc = "restore_ok"
        /\ UNCHANGED <<device, fs, cache, write_blocked, apps, cand, mounted_digest>>
    BY <1>14 DEF RestoreDirty, users
  <2>2. MountPhases'
    BY <2>1 DEF LifeInv, MountPhases, Repairing
  <2>3. QuietBeforeApps' /\ RecoverySource' /\ RecoveryProgress'
    BY <2>1 DEF LifeInv, QuietBeforeApps, RecoverySource, RecoveryProgress, Repairing, Clean,
       Trusted, device
  <2>4. PeerOrActive'
    BY <1>2, <2>1 DEF LifeInv, PeerOrActive, Repairing, Idle, Good, Clean, Trusted, Sealed,
       device, power
  <2> QED
    BY <1>1, <1>3, <2>2, <2>3, <2>4 DEF LifeInv
<1> QED
  BY <1>8, <1>9, <1>10, <1>11, <1>12, <1>13, <1>14 DEF RecoverAppParam

(* Data of the file system reaches the device only when the peer is good   *)
(* and the power path has not sealed.                                      *)
LEMMA WritebackPhase ==
  ASSUME Calm, LifeInv, NEW b \in Blocks, AppFsync(b) \/ Writeback(b)
  PROVE  /\ fs \in Parts /\ cache # payload[fs] /\ apps
         /\ p_pc \in Idle \cup {"resolve", "disable", "sync"}
         /\ f_pc \notin {"notify"} \cup Repairing
         /\ Good(Other(fs))
PROOF
<1>1. fs \in Parts /\ cache # payload[fs]
  BY DEF AppFsync, Writeback, LifeInv, TypeOK
<1>2. apps
  BY <1>1 DEF LifeInv, QuietBeforeApps, Parts
<1>3. p_pc \in Idle \cup {"resolve", "disable", "sync"}
  <2>1. p_pc \notin {"seal", "descriptor", "desc_fsync"}
    BY <1>1 DEF LifeInv, SealProgress
  <2>2. p_pc \notin {"copy_open", "copy", "copy_fsync", "done_ok"}
    BY <1>1, PowerAtWork DEF LifeInv, PeerOrActive, Sealed, Idle, Repairing
  <2> QED
    BY <2>1, <2>2 DEF LifeInv, TypeOK, PStates, Idle
<1>4. f_pc \notin {"notify"} \cup Repairing
  <2>1. f_pc \notin Repairing
    BY <1>3 DEF LifeInv, MountPhases, PowerPhases, Calm, AppFsync, Writeback, Idle, Repairing
  <2> QED
    BY <1>2, <2>1 DEF LifeInv, MountPhases
<1>5. Good(Other(fs))
  BY <1>1, <1>2, <1>3, <1>4 DEF LifeInv, PeerOrActive, Sealed, Idle
<1> QED
  BY <1>1, <1>2, <1>3, <1>4, <1>5

(* App writes, fsync and writeback preserve LifeInv: they reach the active *)
(* partition only when the peer is good and the power path has not sealed. *)
LEMMA FileSystemStep ==
  ASSUME Calm, LifeInv, FileSystem
  PROVE  LifeInv'
PROOF
<1>1. TypeOK'
  BY TypeStep DEF Next, LifeInv
<1>2. UNCHANGED <<fs, write_blocked, profile, apps, gate, fsctl, power, footer>>
  BY DEF FileSystem, AppWrite, EvictInode, AppFsync, Writeback, device, kernel, users
<1>3. MountPhases' /\ PowerPhases'
  BY <1>2, MountPhasesFrame DEF LifeInv, PowerPhases, fsctl, power
<1>4. CASE \E b \in Blocks : AppWrite(b)
  <2>1. apps /\ ~write_blocked /\ UNCHANGED device
    BY <1>4 DEF AppWrite
  <2>2. \A p : (Clean(p) <=> Clean(p)') /\ (Good(p) <=> Good(p)')
    BY <2>1 DEF Clean, Good, Trusted, device
  <2>3. QuietBeforeApps' /\ RecoverySource' /\ RecoveryProgress'
    BY <1>2, <2>1, <2>2 DEF LifeInv, QuietBeforeApps, RecoverySource, RecoveryProgress, device,
       fsctl
  <2>4. PeerOrActive'
    BY <1>2, <2>1, <2>2 DEF LifeInv, PeerOrActive, Sealed, fsctl, power
  <2>5. p_pc \in Idle \cup {"resolve", "disable"}
    <3>1. p_pc \notin {"sync", "seal", "descriptor", "desc_fsync"}
      BY <2>1 DEF LifeInv, SealProgress
    <3>2. p_pc \notin {"copy_open", "copy", "copy_fsync", "done_ok"}
      BY <2>1, PowerAtWork DEF LifeInv, PeerOrActive, Sealed, Idle, Repairing
    <3> QED
      BY <3>1, <3>2 DEF LifeInv, TypeOK, PStates, Idle
  <2>6. SealProgress' /\ PowerCopyProgress'
    BY <1>2, <2>5 DEF SealProgress, PowerCopyProgress, Idle, power
  <2> QED
    BY <1>1, <1>3, <2>3, <2>4, <2>6 DEF LifeInv
<1>5. CASE \E b \in Blocks : AppFsync(b) \/ Writeback(b)
  <2>1. PICK b \in Blocks : AppFsync(b) \/ Writeback(b)
    BY <1>5
  <2>2. /\ fs \in Parts /\ apps /\ p_pc \in Idle \cup {"resolve", "disable", "sync"}
        /\ f_pc \notin {"notify"} \cup Repairing /\ Good(Other(fs))
    BY <2>1, WritebackPhase
  <2>3. QuietBeforeApps' /\ RecoverySource' /\ RecoveryProgress'
    BY <1>2, <2>2, RecoveryOver DEF fsctl
  <2>4. /\ payload'[Other(fs)] = payload[Other(fs)] /\ d_payload'[Other(fs)] = d_payload[Other(fs)]
        /\ d_footer'[Other(fs)] = d_footer[Other(fs)]
    BY <2>1, <2>2, OtherPart DEF AppFsync, Writeback, LifeInv, TypeOK
  <2>5. PeerOrActive'
    BY <1>2, <2>2, <2>4 DEF PeerOrActive, Good, Clean, Trusted, Idle, power
  <2>6. SealProgress' /\ PowerCopyProgress'
    BY <1>2, <2>2 DEF LifeInv, SealProgress, PowerCopyProgress, Idle, power
  <2> QED
    BY <1>1, <1>3, <2>3, <2>5, <2>6 DEF LifeInv
<1>6. ~\E b \in Blocks : EvictInode(b)
  BY DEF EvictInode, Calm
<1> QED
  BY <1>4, <1>5, <1>6 DEF FileSystem

(* A device that persists a cached cell preserves LifeInv: it changes only *)
(* a partition that is not clean, and makes it no worse.                   *)
LEMMA DeviceStep ==
  ASSUME Calm, LifeInv, Device
  PROVE  LifeInv'
PROOF
<1>1. TypeOK'
  BY TypeStep DEF Next, LifeInv
<1>2. UNCHANGED <<payload, footer, kernel, users, fsctl, power>>
  BY DEF Device, PersistBlock, PersistFooter
<1>3. \A q \in Parts : (payload[q] = d_payload[q] => d_payload'[q] = d_payload[q])
                    /\ (footer[q] = d_footer[q] => d_footer'[q] = d_footer[q])
  <2> SUFFICES ASSUME NEW q \in Parts
               PROVE  /\ payload[q] = d_payload[q] => d_payload'[q] = d_payload[q]
                      /\ footer[q] = d_footer[q] => d_footer'[q] = d_footer[q]
    OBVIOUS
  <2>1. d_payload \in [Parts -> Image] /\ d_footer \in [Parts -> Digest]
    BY DEF LifeInv, TypeOK
  <2>2. ASSUME NEW p \in Parts, PersistFooter(p) PROVE d_payload' = d_payload
    BY <2>2 DEF PersistFooter
  <2>3. ASSUME NEW p \in Parts, PersistFooter(p)
        PROVE  footer[q] = d_footer[q] => d_footer'[q] = d_footer[q]
    BY <2>1, <2>3 DEF PersistFooter
  <2>4. ASSUME NEW p \in Parts, NEW b \in Blocks, PersistBlock(p, b) PROVE d_footer' = d_footer
    BY <2>4 DEF PersistBlock
  <2>5. ASSUME NEW p \in Parts, NEW b \in Blocks, PersistBlock(p, b)
        PROVE  payload[q] = d_payload[q] => d_payload'[q] = d_payload[q]
    BY <2>1, <2>5 DEF PersistBlock
  <2> QED
    BY <2>2, <2>3, <2>4, <2>5 DEF Device
<1>4. \A q \in Parts : (Clean(q) => Clean(q)') /\ (Good(q) => Good(q)')
  BY <1>2, <1>3 DEF Clean, Good, Trusted
<1>5. cand \in Parts /\ Other(cand) \in Parts /\ (fs # "none" => fs \in Parts /\ Other(fs) \in Parts)
  BY OtherPart DEF LifeInv, TypeOK
<1>6. MountPhases' /\ PowerPhases'
  BY <1>2, MountPhasesFrame DEF LifeInv, PowerPhases, fsctl, kernel, users, power
<1>7. QuietBeforeApps'
  <2> SUFFICES ASSUME ~apps PROVE QuietBeforeApps'
    BY <1>2 DEF QuietBeforeApps, users
  <2>1. \E p \in Parts : Good(p)
    BY DEF LifeInv, QuietBeforeApps, Good
  <2>2. \E p \in Parts : Trusted(p)'
    BY <1>4, <2>1 DEF Good
  <2>3. \A p \in Parts : Clean(p)'
    BY <1>4 DEF LifeInv, QuietBeforeApps
  <2> QED
    BY <1>2, <2>2, <2>3 DEF LifeInv, QuietBeforeApps, kernel, users, fsctl
<1>8. RecoverySource'
  <2> SUFFICES ASSUME f_pc \in {"notify"} \cup Repairing PROVE RecoverySource'
    BY <1>2 DEF RecoverySource, fsctl
  <2>1. Good(cand) /\ d_payload[cand] = mounted_digest
    BY DEF LifeInv, RecoverySource
  <2>2. d_payload'[cand] = d_payload[cand]
    BY <1>3, <1>5, <2>1 DEF Good, Clean
  <2> QED
    BY <1>2, <1>4, <1>5, <2>1, <2>2 DEF RecoverySource, fsctl
<1>9. RecoveryProgress'
  BY <1>2, <1>4, <1>5 DEF LifeInv, RecoveryProgress, fsctl
<1>10. Sealed(fs) /\ fs # "none" => Sealed(fs)'
  BY <1>2, <1>4, <1>5 DEF Sealed, kernel
<1>11. PeerOrActive'
  <2> SUFFICES ASSUME apps, f_pc \notin Repairing PROVE PeerOrActive'
    BY <1>2 DEF PeerOrActive, users, fsctl
  <2>1. fs # "none"
    BY DEF LifeInv, MountPhases
  <2>2. Good(Other(fs)) => Good(Other(fs))'
    BY <1>2, <1>4, <1>5, <2>1 DEF kernel
  <2> QED
    BY <1>2, <1>10, <2>1, <2>2 DEF LifeInv, PeerOrActive, power
<1>12. SealProgress'
  BY <1>2, <1>3, PowerAtWork DEF LifeInv, SealProgress, Idle, kernel, power
<1>13. PowerCopyProgress'
  <2>1. p_pc = "done_ok" => Clean(Other(fs))'
    BY <1>2, <1>4, PowerAtWork DEF LifeInv, PowerCopyProgress, Idle, kernel
  <2> QED
    BY <1>2, <2>1 DEF LifeInv, PowerCopyProgress, kernel, power
<1> QED
  BY <1>1, <1>6, <1>7, <1>8, <1>9, <1>11, <1>12, <1>13 DEF LifeInv

(* A power request preserves LifeInv; the hazards that would skip the wait *)
(* or repeat the prepare are absent.                                       *)
LEMMA RequestStep ==
  ASSUME Calm, LifeInv, Request
  PROVE  LifeInv'
PROOF
<1>1. TypeOK'
  BY TypeStep DEF Next, LifeInv
<1>2. /\ p_pc = "idle" /\ p_pc' = "wait" /\ UNCHANGED <<device, kernel, users, fsctl>>
  BY DEF Request, PowerRequest, FsctlUmount, PrepareAgain, Calm
<1>3. PowerPhases' /\ SealProgress' /\ PowerCopyProgress'
  BY <1>2, PowerIdle DEF Idle
<1>4. PeerOrActive'
  BY <1>2 DEF LifeInv, PeerOrActive, Good, Clean, Trusted, device, kernel, users, fsctl
<1> QED
  BY <1>1, <1>2, <1>3, <1>4, RecoveryFrame DEF LifeInv

(* The power prepare preserves LifeInv: the active partition is sealed on  *)
(* the medium before the peer is written.                                  *)
LEMMA PrepareStep ==
  ASSUME Calm, LifeInv, Prepare
  PROVE  LifeInv'
PROOF
<1>1. TypeOK'
  BY TypeStep DEF Next, LifeInv
<1>2. UNCHANGED <<fs, cache, profile, users, fsctl>>
  BY DEF Prepare, WaitMountRecovery, WaitFails, ResolveActivePeer, DisableWrite,
     DisableWriteDone, DisableWriteFails, SealHash, SealHashDone, WriteDescriptor,
     DescriptorFsync, PowerCopyOpen, PowerCopy, PowerCopyFsync, PrepareFails, kernel
<1>3. MountPhases'
  BY <1>2, MountPhasesFrame DEF LifeInv, users
<1>4. ASSUME p_pc \notin Idle, p_pc' \in Idle \cup {"resolve"} \/ active' = fs
      PROVE  PowerPhases' /\ QuietBeforeApps' /\ RecoverySource' /\ RecoveryProgress'
  <2>1. f_pc = "exited" /\ apps /\ fs = cand
    BY <1>4, PowerAtWork
  <2>2. PowerPhases'
    BY <1>2, <1>4, <2>1 DEF PowerPhases, Idle, fsctl
  <2> QED
    BY <1>2, <2>1, <2>2, RecoveryOver DEF Repairing, users, fsctl
<1>5. CASE WaitMountRecovery \/ WaitFails
  <2>1. /\ p_pc = "wait" /\ p_pc' \in {"resolve", "done_fail"}
        /\ UNCHANGED <<device, kernel, users, fsctl>>
        /\ p_pc' = "resolve" => f_pc = "exited"
    BY <1>5 DEF WaitMountRecovery, WaitFails, SubState
  <2>2. PowerPhases' /\ SealProgress' /\ PowerCopyProgress'
    BY <2>1 DEF PowerPhases, SealProgress, PowerCopyProgress, fsctl
  <2>3. PeerOrActive'
    BY <2>1 DEF LifeInv, PeerOrActive, Good, Clean, Trusted, device, kernel, users, fsctl
  <2> QED
    BY <1>1, <2>1, <2>2, <2>3, RecoveryFrame DEF LifeInv
<1>6. CASE p_pc \in {"resolve", "disable", "sync", "seal", "descriptor", "desc_fsync",
                     "copy_open", "copy", "copy_fsync"}
  <2>1. /\ f_pc = "exited" /\ apps /\ fs = cand /\ fs \in Parts /\ Other(fs) \in Parts
        /\ Other(fs) # fs /\ (p_pc # "resolve" => active = fs)
    BY <1>6, PowerAtWork DEF Idle
  <2>2. p_pc \notin {"copy", "copy_fsync"} => Good(Other(fs))
    BY <1>6, <2>1 DEF LifeInv, PeerOrActive, Repairing
  <2>3. p_pc \in {"copy_open", "copy", "copy_fsync"} => Sealed(fs)
    BY <1>6, <2>1 DEF LifeInv, PeerOrActive, Repairing
  <2>4. /\ \A p : UNCHANGED device => (Good(p) <=> Good(p)')
        /\ UNCHANGED <<device, kernel>> => (Sealed(fs) <=> Sealed(fs)')
    BY DEF Sealed, Good, Clean, Trusted, device, kernel
  <2>5. p_pc' \in Idle \cup {"resolve"} \/ active' = fs
    BY <1>6, <2>1 DEF Idle, Prepare, WaitMountRecovery, WaitFails, ResolveActivePeer, DisableWrite,
     DisableWriteDone, DisableWriteFails, SealHash, SealHashDone, WriteDescriptor,
     DescriptorFsync, PowerCopyOpen, PowerCopy, PowerCopyFsync, PrepareFails
  <2>6. ASSUME PeerOrActive', SealProgress', PowerCopyProgress' PROVE LifeInv'
    BY <1>1, <1>3, <1>4, <1>6, <2>5, <2>6 DEF LifeInv, Idle
  <2>7. CASE ResolveActivePeer
    <3>1. p_pc = "resolve" /\ p_pc' \in {"disable", "done_fail"} /\ UNCHANGED <<device, fs>>
      BY <2>7 DEF ResolveActivePeer, kernel
    <3>2. PeerOrActive' /\ SealProgress' /\ PowerCopyProgress'
      BY <2>2, <3>1, <2>4 DEF PeerOrActive, SealProgress, PowerCopyProgress
    <3> QED
      BY <2>6, <3>2
  <2>8. CASE DisableWrite \/ DisableWriteFails
    <3>1. /\ p_pc \in {"disable", "sync"} /\ p_pc' \in {"sync", "done_fail"}
          /\ p_pc' = "sync" => write_blocked'
          /\ UNCHANGED <<device, fs>>
      BY <2>8 DEF DisableWrite, DisableWriteFails
    <3>2. PeerOrActive' /\ SealProgress' /\ PowerCopyProgress'
      BY <2>2, <3>1, <2>4 DEF PeerOrActive, SealProgress, PowerCopyProgress
    <3> QED
      BY <2>6, <3>2
  <2>9. CASE DisableWriteDone
    <3>1. /\ p_pc = "sync" /\ p_pc' = "seal" /\ hbuf' = << >> /\ cache = payload[fs]
          /\ Flush(fs) /\ UNCHANGED <<payload, footer, kernel>>
      BY <2>9 DEF DisableWriteDone
    <3>2. /\ d_payload'[fs] = payload[fs]
          /\ d_payload'[Other(fs)] = d_payload[Other(fs)]
          /\ d_footer'[Other(fs)] = d_footer[Other(fs)]
      BY <2>1, <3>1 DEF Flush, LifeInv, TypeOK
    <3>3. PeerOrActive'
      BY <2>2, <3>1, <3>2 DEF PeerOrActive, Good, Clean, Trusted, kernel
    <3>4. write_blocked' /\ fs' = fs /\ cache' = cache /\ Len(hbuf') = 0
      BY <3>1 DEF LifeInv, SealProgress, kernel
    <3>5. SealProgress'
      <4>1. cache' = payload'[fs'] /\ payload'[fs'] = d_payload'[fs']
        BY <3>1, <3>2, <3>4
      <4>2. Len(hbuf') <= NBlocks /\ 1 .. Len(hbuf') = {}
        BY <3>4, SuperRaidAssumption
      <4>3. \A i \in 1 .. Len(hbuf') : hbuf'[i] = payload'[fs'][i]
        BY <4>2
      <4>4. p_pc' = "seal"
        BY <3>1
      <4> QED
        BY <3>4, <4>1, <4>2, <4>3, <4>4 DEF SealProgress
    <3>6. PowerCopyProgress'
      BY <3>1 DEF PowerCopyProgress
    <3> QED
      BY <2>6, <3>3, <3>5, <3>6
  <2>10. CASE SealHash
    <3>1. /\ p_pc = "seal" /\ p_pc' = "seal" /\ Len(hbuf) < NBlocks
          /\ hbuf' = Append(hbuf, payload[fs][Len(hbuf) + 1])
          /\ UNCHANGED <<device, kernel>>
      BY <2>1, <2>10 DEF SealHash
    <3>2. PeerOrActive' /\ PowerCopyProgress'
      BY <2>2, <2>4, <3>1 DEF PeerOrActive, PowerCopyProgress, kernel
    <3>3. hbuf \in Seq(Version) /\ (\A i \in 1 .. Len(hbuf) : hbuf[i] = payload[fs][i])
      BY <3>1 DEF LifeInv, TypeOK, SealProgress
    <3>4. /\ Len(hbuf') <= NBlocks
          /\ \A i \in 1 .. Len(hbuf') : hbuf'[i] = payload[fs][i]
      BY <3>1, <3>3, SuperRaidAssumption
    <3>5. SealProgress'
      BY <3>1, <3>4 DEF LifeInv, SealProgress, device, kernel
    <3> QED
      BY <2>6, <3>2, <3>5
  <2>11. CASE SealHashDone
    <3>1. /\ p_pc = "seal" /\ p_pc' = "descriptor" /\ Len(hbuf) = NBlocks
          /\ UNCHANGED <<device, kernel, hbuf>>
      BY <2>11 DEF SealHashDone, Calm
    <3>2. hbuf = payload[fs]
      BY <2>1, <3>1, FullDigest DEF LifeInv, TypeOK, SealProgress
    <3>3. PeerOrActive' /\ PowerCopyProgress'
      BY <2>2, <2>4, <3>1 DEF PeerOrActive, PowerCopyProgress, kernel
    <3>4. SealProgress'
      BY <3>1, <3>2 DEF LifeInv, SealProgress, device, kernel
    <3> QED
      BY <2>6, <3>3, <3>4
  <2>12. CASE WriteDescriptor
    <3>1. /\ p_pc = "descriptor" /\ p_pc' = "desc_fsync"
          /\ footer' = [footer EXCEPT ![fs] = hbuf]
          /\ UNCHANGED <<payload, d_payload, d_footer, kernel>>
      BY <2>1, <2>12 DEF WriteDescriptor
    <3>2. footer'[fs] = hbuf /\ footer'[Other(fs)] = footer[Other(fs)]
      BY <2>1, <3>1 DEF LifeInv, TypeOK
    <3>3. PeerOrActive' /\ PowerCopyProgress'
      BY <2>2, <3>1, <3>2 DEF PeerOrActive, PowerCopyProgress, Good, Clean, Trusted, kernel
    <3>4. SealProgress'
      BY <3>1, <3>2 DEF LifeInv, SealProgress, kernel
    <3> QED
      BY <2>6, <3>3, <3>4
  <2>13. CASE DescriptorFsync
    <3>1. /\ p_pc = "desc_fsync" /\ p_pc' = "copy_open" /\ Flush(fs)
          /\ UNCHANGED <<payload, footer, kernel>>
      BY <2>1, <2>13 DEF DescriptorFsync
    <3>2. /\ d_payload'[fs] = payload[fs] /\ d_footer'[fs] = footer[fs]
          /\ d_payload'[Other(fs)] = d_payload[Other(fs)]
          /\ d_footer'[Other(fs)] = d_footer[Other(fs)]
      BY <2>1, <3>1 DEF Flush, LifeInv, TypeOK
    <3>3. Sealed(fs)'
      BY <3>1, <3>2 DEF LifeInv, SealProgress, Sealed, Good, Clean, Trusted, kernel
    <3>4. Good(Other(fs))'
      BY <2>2, <3>1, <3>2 DEF Good, Clean, Trusted, kernel
    <3>5. PeerOrActive' /\ SealProgress' /\ PowerCopyProgress'
      BY <3>1, <3>3, <3>4 DEF PeerOrActive, SealProgress, PowerCopyProgress
    <3> QED
      BY <2>6, <3>5
  <2>14. CASE PowerCopyOpen
    <3>1. p_pc = "copy_open" /\ p_pc' = "copy" /\ p_pos' = 1 /\ UNCHANGED <<device, kernel>>
      BY <2>14 DEF PowerCopyOpen
    <3>2. Sealed(fs)' /\ fs' = fs
      BY <2>3, <2>4, <3>1 DEF kernel
    <3>3. PeerOrActive' /\ SealProgress'
      BY <3>1, <3>2 DEF PeerOrActive, SealProgress
    <3>4. PowerCopyProgress'
      BY <3>1, SuperRaidAssumption DEF PowerCopyProgress, Blocks
    <3> QED
      BY <2>6, <3>3, <3>4
  <2>15. CASE PowerCopy
    <3>1. /\ p_pc = "copy" /\ p_pc' \in {"copy", "copy_fsync"}
          /\ UNCHANGED <<d_payload, d_footer, kernel>>
      BY <2>15 DEF PowerCopy, CopyPc
    <3>2. /\ payload'[fs] = payload[fs] /\ footer'[fs] = footer[fs]
          /\ p_pc' = "copy" =>
               \A b \in Blocks : b < p_pos' => payload'[Other(fs)][b] = payload'[fs][b]
          /\ p_pc' = "copy_fsync" =>
               /\ payload'[Other(fs)] = payload'[fs]
               /\ footer'[Other(fs)] = footer'[fs]
      <4>1. /\ payload \in [Parts -> Image] /\ footer \in [Parts -> Digest]
            /\ p_pos \in 1 .. NBlocks + 1
        BY DEF LifeInv, TypeOK
      <4>2. \A b \in Blocks : b < p_pos => payload[Other(fs)][b] = payload[fs][b]
        BY <3>1 DEF LifeInv, PowerCopyProgress
      <4>3. /\ CopyCell(fs, Other(fs), p_pos)
            /\ p_pos' = CopyPos(p_pos) /\ p_pc' = CopyPc(p_pos)
        BY <2>1, <2>15 DEF PowerCopy
      <4> QED
        BY <2>1, <4>1, <4>2, <4>3, CopyStep
    <3>3. Sealed(fs)'
      BY <2>3, <3>1, <3>2 DEF Sealed, Good, Clean, Trusted, kernel
    <3>4. PeerOrActive' /\ SealProgress' /\ PowerCopyProgress'
      BY <3>1, <3>2, <3>3 DEF PeerOrActive, SealProgress, PowerCopyProgress, kernel
    <3> QED
      BY <2>6, <3>4
  <2>16. CASE PowerCopyFsync
    <3>1. /\ p_pc = "copy_fsync" /\ p_pc' = "done_ok" /\ Flush(Other(fs))
          /\ UNCHANGED <<payload, footer, kernel>>
      BY <2>1, <2>16 DEF PowerCopyFsync
    <3>2. /\ d_payload'[fs] = d_payload[fs] /\ d_footer'[fs] = d_footer[fs]
          /\ d_payload'[Other(fs)] = payload[Other(fs)]
          /\ d_footer'[Other(fs)] = footer[Other(fs)]
      BY <2>1, <3>1 DEF Flush, LifeInv, TypeOK
    <3>3. Sealed(fs)' /\ Clean(Other(fs))'
      BY <2>3, <3>1, <3>2 DEF Sealed, Good, Clean, Trusted, kernel
    <3>4. PeerOrActive' /\ SealProgress' /\ PowerCopyProgress'
      BY <3>1, <3>3 DEF LifeInv, PeerOrActive, SealProgress, PowerCopyProgress, kernel
    <3> QED
      BY <2>6, <3>4
  <2>17. CASE PrepareFails
    <3>1. p_pc' = "done_fail" /\ UNCHANGED <<device, kernel>>
      BY <2>17 DEF PrepareFails
    <3>2. Good(Other(fs))' \/ Sealed(fs)'
      BY <1>6, <2>2, <2>3, <2>4, <3>1 DEF kernel
    <3>3. PeerOrActive' /\ SealProgress' /\ PowerCopyProgress'
      BY <3>1, <3>2 DEF PeerOrActive, SealProgress, PowerCopyProgress
    <3> QED
      BY <2>6, <3>3
  <2> QED
    BY <1>5, <2>7, <2>8, <2>9, <2>10, <2>11, <2>12, <2>13, <2>14, <2>15, <2>16, <2>17
    DEF Prepare
<1> QED
  BY <1>5, <1>6 DEF Prepare, ResolveActivePeer, DisableWrite,
     DisableWriteDone, DisableWriteFails, SealHash, SealHashDone, WriteDescriptor,
     DescriptorFsync, PowerCopyOpen, PowerCopy, PowerCopyFsync, PrepareFails

(* A loss of power and a power transition leave what LifeInv asks of a     *)
(* device that is off.                                                     *)
LEMMA PowerGoneStep ==
  ASSUME Calm, LifeInv, Crash \/ PowerOff
  PROVE  LifeInv'
PROOF
<1>1. TypeOK'
  BY TypeStep DEF Next, LifeInv
<1>2. /\ ~apps' /\ fs' = "none" /\ f_pc' = "off" /\ p_pc' = "idle"
      /\ payload' = d_payload' /\ footer' = d_footer'
  BY DEF Crash, PowerOff, VolatileReset
<1>3. MountPhases' /\ PowerPhases' /\ SealProgress' /\ PowerCopyProgress'
  BY <1>2, PowerIdle DEF MountPhases, Repairing, Idle
<1>4. \E p \in Parts : Trusted(p)'
  <2>1. CASE Crash
    BY <2>1, LifeInvTrusts DEF Crash, OneTrusted, Trusted
  <2>2. CASE PowerOff
    <3>1. d_footer' = footer /\ d_payload' = [p \in Parts |-> IF p = fs THEN cache ELSE payload[p]]
      BY <2>2 DEF PowerOff
    <3>2. CASE ~apps
      <4>1. PICK p \in Parts : Trusted(p)
        BY <3>2 DEF LifeInv, QuietBeforeApps
      <4>2. footer[p] = payload[p] /\ (p = fs => cache = payload[p])
        BY <3>2, <4>1 DEF LifeInv, QuietBeforeApps, Trusted, Clean, Parts
      <4> QED
        BY <3>1, <4>1, <4>2 DEF Trusted
    <3>3. CASE apps
      <4>1. fs \in Parts /\ Other(fs) \in Parts /\ Other(fs) # fs
        BY <3>3, OtherPart DEF LifeInv, TypeOK, MountPhases
      <4>2. Good(Other(fs)) \/ Sealed(fs)
        BY <2>2, <3>3 DEF PowerOff, Calm, LifeInv, PeerOrActive
      <4>3. footer[Other(fs)] = payload[Other(fs)] \/ footer[fs] = cache
        BY <4>2 DEF Good, Sealed, Clean, Trusted
      <4> QED
        BY <3>1, <4>1, <4>3 DEF Trusted
    <3> QED
      BY <3>2, <3>3
  <2> QED
    BY <2>1, <2>2
<1>5. QuietBeforeApps' /\ RecoverySource' /\ RecoveryProgress' /\ PeerOrActive'
  BY <1>2, <1>4 DEF QuietBeforeApps, RecoverySource, RecoveryProgress, PeerOrActive, Repairing,
     Clean
<1> QED
  BY <1>1, <1>3, <1>5 DEF LifeInv


(* The initial state has the types, and is an off device whose partitions  *)
(* nobody has written since they were deployed.                            *)
LEMMA TypeInit == Init => TypeOK
PROOF
<1> SUFFICES ASSUME Init PROVE TypeOK
  OBVIOUS
<1>1. Fresh \in Image /\ 0 \in Version
  BY SuperRaidAssumption DEF Fresh, Image, Version
<1>2. Fresh \in Digest /\ NoDigest \in Digest
  BY <1>1, ImageIsDigest DEF Digest
<1>3. /\ d_payload \in [Parts -> Image] /\ d_footer \in [Parts -> Digest]
      /\ payload \in [Parts -> Image] /\ footer \in [Parts -> Digest]
  BY <1>1, <1>2 DEF Init
<1>4. hbuf \in Seq(Version) /\ profile \in [Sysctls -> {"original", "delayed"}]
  BY DEF Init
<1>5. f_pos \in 1 .. NBlocks + 1 /\ p_pos \in 1 .. NBlocks + 1
  BY SuperRaidAssumption DEF Init
<1> QED
  BY ZenonT(30), ZenonT(60), <1>1, <1>2, <1>3, <1>4, <1>5 DEF Init, TypeOK, Parts, FStates, PStates

(* The device is deployed with a good partition and is off.                *)
LEMMA LifeInvInit == Init => LifeInv
PROOF
<1> SUFFICES ASSUME Init PROVE LifeInv
  OBVIOUS
<1>1. TypeOK
  BY TypeInit
<1>2. \E p \in Parts : Trusted(p)
  BY DEF Init, Trusted
<1>3. QuietBeforeApps
  BY <1>2 DEF Init, QuietBeforeApps, Clean
<1>4. MountPhases /\ PowerPhases /\ RecoverySource /\ RecoveryProgress
  BY DEF Init, MountPhases, PowerPhases, RecoverySource, RecoveryProgress, Repairing
<1>5. PeerOrActive /\ SealProgress /\ PowerCopyProgress
  BY DEF Init, PeerOrActive, SealProgress, PowerCopyProgress
<1> QED
  BY <1>1, <1>3, <1>4, <1>5 DEF LifeInv

(* LifeInv is inductive when no hazard but a failing verify is present.    *)
LEMMA LifeInvStep ==
  ASSUME Calm
  PROVE  LifeInv /\ [Next]_vars => LifeInv'
PROOF
<1> SUFFICES ASSUME LifeInv, [Next]_vars PROVE LifeInv'
  OBVIOUS
<1>1. CASE MountPartition
  BY <1>1, MountPartitionStep
<1>2. CASE MountFails
  BY <1>2, MountFailsStep
<1>3. CASE RecoverAppParam
  BY <1>3, RecoverAppParamStep
<1>4. CASE FileSystem
  BY <1>4, FileSystemStep
<1>5. CASE Device
  BY <1>5, DeviceStep
<1>6. CASE Request
  BY <1>6, RequestStep
<1>7. CASE Prepare
  BY <1>7, PrepareStep
<1>8. CASE Crash \/ PowerOff
  BY <1>8, PowerGoneStep
<1>9. CASE UNCHANGED vars
  <2>1. UNCHANGED <<device, kernel, users, fsctl, power>>
    BY <1>9 DEF vars
  <2>2. TypeOK'
    BY <2>1 DEF LifeInv, TypeOK, device, kernel, users, fsctl, power
  <2>3. MountPhases' /\ QuietBeforeApps' /\ RecoverySource' /\ RecoveryProgress'
    BY <2>1, RecoveryFrame
  <2>4. PowerPhases' /\ SealProgress' /\ PowerCopyProgress'
    BY <2>1 DEF LifeInv, PowerPhases, SealProgress, PowerCopyProgress, Clean, device, kernel,
       fsctl, power
  <2>5. PeerOrActive'
    BY <2>1 DEF LifeInv, PeerOrActive, Sealed, Good, Clean, Trusted, device, kernel, users,
       fsctl, power
  <2> QED
    BY <2>2, <2>3, <2>4, <2>5 DEF LifeInv
<1> QED
  BY <1>1, <1>2, <1>3, <1>4, <1>5, <1>6, <1>7, <1>8, <1>9 DEF Next

(* The variables keep their types, under every set of hazards.             *)
THEOREM TypeCorrect == Spec => []TypeOK
PROOF
<1>1. TypeOK /\ [Next]_vars => TypeOK'
  <2> SUFFICES ASSUME TypeOK, [Next]_vars PROVE TypeOK'
    OBVIOUS
  <2>1. CASE Next
    BY <2>1, TypeStep
  <2>2. CASE UNCHANGED vars
    BY <2>2 DEF vars, device, kernel, users, fsctl, power, TypeOK
  <2> QED
    BY <2>1, <2>2
<1> QED
  BY <1>1, TypeInit, PTL DEF Spec

(* LifeInv is an invariant of the A/B life cycle.                          *)
THEOREM LifeInvariant ==
  ASSUME Calm
  PROVE  Spec => []LifeInv
PROOF
  BY LifeInvInit, LifeInvStep, PTL DEF Spec

(* At every moment a power loss leaves a partition that the next boot can  *)
(* verify and mount, for every number of blocks and of modifications.      *)
THEOREM AlwaysBootable ==
  ASSUME Calm
  PROVE  Spec => []OneTrusted
PROOF
  BY LifeInvariant, LifeInvTrusts, PTL
=============================================================================

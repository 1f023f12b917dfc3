------------------------------ MODULE SuperRaid ------------------------------
(***************************************************************************)
(* The A/B life cycle of /app_param (storage.c, fsctl.c,                   *)
(* hb_powerctl_demo.c): boot verification and mount, Recovery of the peer, *)
(* normal operation, and the power prepare that freezes, seals and copies  *)
(* the active partition, with a power loss possible between any two steps. *)
(*                                                                         *)
(* A partition is NBlocks blocks of protected region and a footer.  The    *)
(* content of a block is the number of the write that produced it, and     *)
(* SHA-256 is taken to be injective: a digest is the sequence of the       *)
(* block contents that were hashed.  payload/footer are what a read of the *)
(* block device returns; d_payload/d_footer are what survives a power      *)
(* loss.  A device may persist an unflushed write at any time.             *)
(***************************************************************************)
EXTENDS Naturals, Integers, Sequences

CONSTANTS
  NBlocks,       \* blocks of the protected region
  MaxVersion,    \* bound on the number of file-system modifications
  Env            \* the environment hazards that may happen, see EnvFeatures

(***************************************************************************)
(* boot_io          verify of a partition, or its mount, may fail although *)
(*                  its content is good                                    *)
(* recovery_io      an I/O step of Recovery may fail                       *)
(* early_writeback  the kernel may write back under the delayed profile    *)
(* slow_recovery    the power transition may overtake Recovery, after the  *)
(*                  60 s wait of the power path has expired                *)
(* evict            a cleanup of fat_evict_inode may follow the freeze     *)
(* short_hash       hash_sha256_fd may stop before the end of the region   *)
(*                  (see HashRing)                                         *)
(* cli_umount       "fsctl umount" may be run by hand at any time          *)
(* retry            a prepare may be followed by another one               *)
(***************************************************************************)
EnvFeatures == {"boot_io", "recovery_io", "early_writeback", "slow_recovery",
                "evict", "short_hash", "cli_umount", "retry"}

ASSUME SuperRaidAssumption ==
  /\ NBlocks \in Nat \ {0}
  /\ MaxVersion \in Nat
  /\ Env \subseteq EnvFeatures

Parts == {"A", "B"}
Other(p) == IF p = "A" THEN "B" ELSE "A"
Blocks == 1 .. NBlocks
Version == 0 .. MaxVersion
Image == [Blocks -> Version]
NoDigest == <<-1>>      \* a descriptor that validate_descriptor rejects
Digest == Seq(Version) \cup {NoDigest}
Sysctls == {"dirty_writeback_centisecs", "dirty_background_ratio", "dirty_ratio"}
Fresh == [b \in Blocks |-> 0]     \* the image the A/B partitions are deployed with

VARIABLES
  payload, footer,         \* block-device contents of the two partitions
  d_payload, d_footer,     \* the part of them that survives a power loss
  fs,                      \* the mounted partition, or "none"
  cache,                   \* the file system as its users see it
  write_blocked,           \* msdos_sb_info.write_blocked
  apps,                    \* READY=1 was sent and the Apps run
  gate,                    \* their preload recovery gate is on
  profile,                 \* the three vm.dirty_* sysctls
  f_pc, cand, mounted_digest, f_pos,   \* "fsctl mount"
  p_pc, active, p_pos, hbuf,   \* the power prepare, its active partition and digest context
  version                  \* number of the last file-system modification

device == <<payload, footer, d_payload, d_footer>>
kernel == <<fs, cache, write_blocked, profile>>
users == <<apps, gate, version>>
fsctl == <<f_pc, cand, mounted_digest, f_pos>>
power == <<p_pc, active, p_pos, hbuf>>
vars == <<device, kernel, users, fsctl, power>>

\* Between READY=1 and the peer being known to be good.
Repairing == {"peer_verify", "copy_open", "copy", "copy_fsync", "post_verify"}
FStates == {"off", "enable", "verify", "mount", "notify", "release",
            "restore_ok", "restore_fail", "exited", "failed"} \cup Repairing
PStates == {"idle", "wait", "resolve", "disable", "sync", "seal", "descriptor",
            "desc_fsync", "copy_open", "copy", "copy_fsync", "done_ok", "done_fail"}

\* app_param-mount.service is Type=notify with RemainAfterExit=yes: its
\* SubState is start until READY=1, then running until fsctl exits.
SubState ==
  CASE f_pc = "off" -> "dead"
    [] f_pc \in {"exited", "failed"} -> f_pc
    [] OTHER -> IF apps THEN "running" ELSE "start"

Trusted(p) == d_footer[p] = d_payload[p]

Delayed == \A s \in Sysctls : profile[s] = "delayed"

\* What hash_sha256_fd may return for an image.
HashResults(img) ==
  {img} \cup (IF "short_hash" \in Env THEN {SubSeq(img, 1, k) : k \in 0 .. NBlocks - 1}
                                      ELSE {})

Init ==
  /\ \E good \in Parts, peer \in {Fresh, NoDigest} :
       /\ d_payload = [p \in Parts |-> Fresh]
       /\ d_footer = [p \in Parts |-> IF p = good THEN Fresh ELSE peer]
  /\ payload = d_payload /\ footer = d_footer
  /\ fs = "none" /\ cache = Fresh /\ write_blocked = FALSE
  /\ apps = FALSE /\ gate = TRUE /\ version = 0
  /\ profile = [s \in Sysctls |-> "original"]
  /\ f_pc = "off" /\ cand = "A" /\ mounted_digest = NoDigest /\ f_pos = 1
  /\ p_pc = "idle" /\ active = "A" /\ p_pos = 1 /\ hbuf = << >>
-----------------------------------------------------------------------------
(* mount_partition.                                                        *)

\* write_dirty_settings attempts the three sysctls, whichever of them fail.
write_dirty_settings(value, fails) ==
  profile' = [s \in Sysctls |-> IF s \in fails THEN profile[s] ELSE value]

Boot ==
  /\ f_pc = "off"
  /\ f_pc' = "enable"
  /\ UNCHANGED <<device, kernel, users, cand, mounted_digest, f_pos, power>>

\* read_dirty_settings: fsctl exits before it has changed anything.
ReadDirtyFails ==
  /\ f_pc = "enable"
  /\ f_pc' = "failed"
  /\ UNCHANGED <<device, kernel, users, cand, mounted_digest, f_pos, power>>

\* enable_pagecache_delay and mkdir; on a failure the profile is restored.
EnableDelay ==
  /\ f_pc = "enable"
  /\ \E fails \in SUBSET Sysctls :
       /\ write_dirty_settings("delayed", fails)
       /\ \/ fails = {} /\ f_pc' = "verify"
          \/ f_pc' = "restore_fail"
  /\ cand' = "A"
  /\ UNCHANGED <<device, fs, cache, write_blocked, users, mounted_digest, f_pos, power>>

NextCandidate ==
  IF cand = "A" THEN cand' = "B" /\ f_pc' = "verify"
                ELSE UNCHANGED cand /\ f_pc' = "restore_fail"

\* powerctl_verify_path_digest of the candidate.
VerifyCandidate ==
  /\ f_pc = "verify"
  /\ \E d \in HashResults(payload[cand]) :
       IF d = footer[cand] THEN mounted_digest' = d /\ f_pc' = "mount" /\ UNCHANGED cand
                           ELSE UNCHANGED mounted_digest /\ NextCandidate
  /\ UNCHANGED <<device, kernel, users, f_pos, power>>

MountCandidate ==
  /\ f_pc = "mount"
  /\ fs' = cand /\ cache' = payload[cand] /\ write_blocked' = FALSE
  /\ f_pc' = "notify"
  /\ UNCHANGED <<device, profile, users, cand, mounted_digest, f_pos, power>>

\* A verify that cannot read, or a mount that fails, skips the candidate.
CandidateFails ==
  /\ "boot_io" \in Env /\ f_pc \in {"verify", "mount"}
  /\ NextCandidate
  /\ UNCHANGED <<device, kernel, users, mounted_digest, f_pos, power>>

Notify ==
  /\ f_pc = "notify"
  /\ apps' = TRUE /\ gate' = TRUE
  /\ f_pc' = "peer_verify"
  /\ UNCHANGED <<device, kernel, version, cand, mounted_digest, f_pos, power>>

\* fail_unmount; the cleanup umount2 may fail too and is only logged.  An open
\* descriptor, as disable_vfat_write holds one, makes it fail.
NotifyFails ==
  /\ f_pc = "notify"
  /\ fs' \in (IF p_pc = "sync" THEN {fs} ELSE {"none", fs})
  /\ write_blocked' = (write_blocked /\ fs' # "none")
  /\ f_pc' = "restore_fail"
  /\ UNCHANGED <<device, cache, profile, users, cand, mounted_digest,
                 f_pos, power>>
-----------------------------------------------------------------------------
(* copy_block_range_from_target: block after block, the footer last, then  *)
(* fsync; pos is the next cell.                                            *)

CopyCell(src, dst, pos) ==
  IF pos <= NBlocks
  THEN /\ payload' = [payload EXCEPT ![dst][pos] = payload[src][pos]]
       /\ UNCHANGED footer
  ELSE /\ footer' = [footer EXCEPT ![dst] = footer[src]]
       /\ UNCHANGED payload

CopyPos(pos) == IF pos <= NBlocks THEN pos + 1 ELSE 1
CopyPcForever(pos) == "copy"
CopyPc(pos) == IF pos <= NBlocks THEN "copy" ELSE "copy_fsync"

Flush(p) ==
  /\ d_payload' = [d_payload EXCEPT ![p] = payload[p]]
  /\ d_footer' = [d_footer EXCEPT ![p] = footer[p]]
-----------------------------------------------------------------------------
(* recover_app_param.  The mounted partition is cand.                      *)

\* The peer is opened O_EXCL, so two copies never run at the same time.
PeerHeldByPower == p_pc \in {"copy", "copy_fsync"}
PeerHeldByFsctl == f_pc \in {"copy", "copy_fsync"}

PeerVerifySkipped ==
  /\ f_pc = "peer_verify"
  /\ f_pc' = "release"
  /\ UNCHANGED <<device, kernel, users, cand, mounted_digest, f_pos, power>>

PeerVerify ==
  /\ f_pc = "peer_verify"
  /\ \E d \in HashResults(payload[Other(cand)]) :
       f_pc' = IF d = footer[Other(cand)] /\ d = mounted_digest THEN "release"
                                                                ELSE "copy_open"
  /\ UNCHANGED <<device, kernel, users, cand, mounted_digest, f_pos, power>>

\* A peer that cannot be read is repaired like one with a wrong digest.
PeerVerifyFails ==
  /\ "boot_io" \in Env /\ f_pc = "peer_verify"
  /\ f_pc' = "copy_open"
  /\ UNCHANGED <<device, kernel, users, cand, mounted_digest, f_pos, power>>

RecoveryCopyOpen ==
  /\ f_pc = "copy_open" /\ ~PeerHeldByPower
  /\ f_pc' = "copy" /\ f_pos' = 1
  /\ UNCHANGED <<device, kernel, users, cand, mounted_digest, power>>

RecoveryCopy ==
  /\ f_pc = "copy"
  /\ CopyCell(cand, Other(cand), f_pos)
  /\ f_pos' = CopyPos(f_pos) /\ f_pc' = CopyPc(f_pos)
  /\ UNCHANGED <<d_payload, d_footer, kernel, users, cand, mounted_digest, power>>

RecoveryFsync ==
  /\ f_pc = "copy_fsync"
  /\ Flush(Other(cand))
  /\ f_pc' = "post_verify"
  /\ UNCHANGED <<payload, footer, kernel, users, cand, mounted_digest, f_pos, power>>

PostVerifyDropped ==
  /\ f_pc = "post_verify"
  /\ f_pc' = "release"
  /\ UNCHANGED <<device, kernel, users, cand, mounted_digest, f_pos, power>>

PostVerify ==
  /\ f_pc = "post_verify"
  /\ \E d \in HashResults(payload[Other(cand)]) :
       f_pc' = IF d = footer[Other(cand)] /\ d = mounted_digest THEN "release"
                                                                ELSE "restore_fail"
  /\ UNCHANGED <<device, kernel, users, cand, mounted_digest, f_pos, power>>

\* A failed step of the repair.
RecoveryFails ==
  /\ \/ f_pc \in Repairing \ {"peer_verify"} /\ "recovery_io" \in Env
     \/ f_pc = "copy_open" /\ PeerHeldByPower
  /\ f_pc' = "restore_fail"
  /\ UNCHANGED <<device, kernel, users, cand, mounted_digest, f_pos, power>>

\* release_app_services: SIGUSR2 sent to all, some or none of the Apps.  Apps
\* that are skipped or waited for in vain do not make it fail; the bus or the
\* clock may, before or after some were signalled.
Release ==
  /\ f_pc = "release"
  /\ gate' \in {FALSE, gate} /\ f_pc' \in {"restore_ok", "restore_fail"}
  /\ UNCHANGED <<device, kernel, apps, version, cand, mounted_digest, f_pos, power>>

\* out_restore and fail_restore_dirty: fsctl exits.
RestoreDirty ==
  /\ f_pc \in {"restore_ok", "restore_fail"}
  /\ \E fails \in SUBSET Sysctls :
       /\ write_dirty_settings("original", fails)
       /\ f_pc' = IF f_pc = "restore_ok" /\ fails = {} THEN "exited" ELSE "failed"
  /\ UNCHANGED <<device, fs, cache, write_blocked, users, cand, mounted_digest, f_pos, power>>
-----------------------------------------------------------------------------
(* The mounted file system: Apps, kernel writeback and inode eviction.     *)

AppWriteUngated(b) ==
  /\ apps /\ fs # "none" /\ version < MaxVersion
  /\ version' = version + 1
  /\ cache' = [cache EXCEPT ![b] = version + 1]
  /\ UNCHANGED <<device, fs, write_blocked, profile, apps, gate, fsctl, power>>

\* A modification through a gated FAT entry point.
AppWrite(b) ==
  /\ apps /\ fs # "none" /\ ~write_blocked /\ version < MaxVersion
  /\ version' = version + 1
  /\ cache' = [cache EXCEPT ![b] = version + 1]
  /\ UNCHANGED <<device, fs, write_blocked, profile, apps, gate, fsctl, power>>

\* fat_evict_inode takes no gate: freeing clusters of an unlinked or
\* over-allocated file changes FAT metadata although writes are blocked.
EvictInode(b) ==
  /\ "evict" \in Env
  /\ fs # "none" /\ write_blocked /\ version < MaxVersion
  /\ version' = version + 1
  /\ cache' = [cache EXCEPT ![b] = version + 1]
  /\ UNCHANGED <<device, fs, write_blocked, profile, apps, gate, fsctl, power>>

\* fsync and its kin reach the kernel only when the preload gate is off.
AppFsync(b) ==
  /\ apps /\ ~gate /\ fs # "none" /\ cache[b] # payload[fs][b]
  /\ payload' = [payload EXCEPT ![fs][b] = cache[b]]
  /\ d_payload' = [d_payload EXCEPT ![fs] = payload'[fs]]
  /\ d_footer' = [d_footer EXCEPT ![fs] = footer[fs]]
  /\ UNCHANGED <<footer, kernel, users, fsctl, power>>

\* The flusher threads, or the sync_filesystem of fat_disable_write.
Writeback(b) ==
  /\ fs # "none" /\ cache[b] # payload[fs][b]
  /\ ~Delayed \/ p_pc = "sync" \/ "early_writeback" \in Env
  /\ payload' = [payload EXCEPT ![fs][b] = cache[b]]
  /\ UNCHANGED <<footer, d_payload, d_footer, kernel, users, fsctl, power>>

\* The device persists one cell of its volatile cache.
PersistBlock(p, b) ==
  /\ d_payload[p][b] # payload[p][b]
  /\ d_payload' = [d_payload EXCEPT ![p][b] = payload[p][b]]
  /\ UNCHANGED <<payload, footer, d_footer, kernel, users, fsctl, power>>

PersistFooter(p) ==
  /\ d_footer[p] # footer[p]
  /\ d_footer' = [d_footer EXCEPT ![p] = footer[p]]
  /\ UNCHANGED <<payload, footer, d_payload, kernel, users, fsctl, power>>
-----------------------------------------------------------------------------
(* hb_powerctl_demo: prepare_app_param and umount_partition.               *)

PowerRequest ==
  /\ p_pc = "idle" /\ f_pc # "off"
  /\ p_pc' = "wait"
  /\ UNCHANGED <<device, kernel, users, fsctl, active, p_pos, hbuf>>

\* "fsctl umount" enters umount_partition without waiting for Recovery.
FsctlUmount ==
  /\ "cli_umount" \in Env
  /\ p_pc = "idle" /\ f_pc # "off"
  /\ p_pc' = "resolve"
  /\ UNCHANGED <<device, kernel, users, fsctl, active, p_pos, hbuf>>

WaitReadyOnly ==
  /\ p_pc = "wait" /\ SubState # "start"
  /\ p_pc' = IF SubState \in {"running", "exited"} THEN "resolve" ELSE "done_fail"
  /\ UNCHANGED <<device, kernel, users, fsctl, active, p_pos, hbuf>>

\* wait_mount_recovery_complete.
WaitMountRecovery ==
  /\ p_pc = "wait" /\ SubState \in {"exited", "failed", "dead"}
  /\ p_pc' = IF SubState = "exited" THEN "resolve" ELSE "done_fail"
  /\ UNCHANGED <<device, kernel, users, fsctl, active, p_pos, hbuf>>

\* The 60 s timeout, or a bus or clock call that fails.
WaitFails ==
  /\ p_pc = "wait"
  /\ p_pc' = "done_fail"
  /\ UNCHANGED <<device, kernel, users, fsctl, active, p_pos, hbuf>>

\* resolve_active_peer: the partition that backs the mount point is active.
ResolveActivePeer ==
  /\ p_pc = "resolve"
  /\ IF fs = "none" THEN p_pc' = "done_fail" /\ UNCHANGED active
                    ELSE p_pc' = "disable" /\ active' = fs
  /\ UNCHANGED <<device, kernel, users, fsctl, p_pos, hbuf>>

\* FAT_IOCTL_DISABLE_WRITE: block writers, then sync and flush.
DisableWrite ==
  /\ p_pc = "disable" /\ fs # "none"
  /\ write_blocked' = TRUE
  /\ p_pc' = "sync"
  /\ UNCHANGED <<device, fs, cache, profile, users, fsctl, active, p_pos, hbuf>>

DisableWriteDone ==
  /\ p_pc = "sync" /\ cache = payload[fs]
  /\ Flush(fs)
  /\ p_pc' = "seal" /\ hbuf' = << >>
  /\ UNCHANGED <<payload, footer, kernel, users, fsctl, active, p_pos>>

DisableWriteFails ==
  /\ p_pc = "sync"
  /\ write_blocked' = FALSE
  /\ p_pc' = "done_fail"
  /\ UNCHANGED <<device, fs, cache, profile, users, fsctl, active, p_pos, hbuf>>

\* powerctl_seal_block_device: hash the region, write the descriptor, fsync.
SealHash ==
  /\ p_pc = "seal" /\ Len(hbuf) < NBlocks
  /\ hbuf' = Append(hbuf, payload[active][Len(hbuf) + 1])
  /\ UNCHANGED <<device, kernel, users, fsctl, p_pc, active, p_pos>>

SealHashDone ==
  /\ p_pc = "seal" /\ (Len(hbuf) = NBlocks \/ "short_hash" \in Env)
  /\ p_pc' = "descriptor"
  /\ UNCHANGED <<device, kernel, users, fsctl, active, p_pos, hbuf>>

WriteDescriptor ==
  /\ p_pc = "descriptor"
  /\ footer' = [footer EXCEPT ![active] = hbuf]
  /\ p_pc' = "desc_fsync"
  /\ UNCHANGED <<payload, d_payload, d_footer, kernel, users, fsctl, active, p_pos, hbuf>>

DescriptorNoFsync ==
  /\ p_pc = "desc_fsync"
  /\ p_pc' = "copy_open"
  /\ UNCHANGED <<device, kernel, users, fsctl, active, p_pos, hbuf>>

DescriptorFsync ==
  /\ p_pc = "desc_fsync"
  /\ Flush(active)
  /\ p_pc' = "copy_open"
  /\ UNCHANGED <<payload, footer, kernel, users, fsctl, active, p_pos, hbuf>>

PowerCopyOpen ==
  /\ p_pc = "copy_open" /\ ~PeerHeldByFsctl
  /\ p_pc' = "copy" /\ p_pos' = 1
  /\ UNCHANGED <<device, kernel, users, fsctl, active, hbuf>>

PowerCopy ==
  /\ p_pc = "copy"
  /\ CopyCell(active, Other(active), p_pos)
  /\ p_pos' = CopyPos(p_pos) /\ p_pc' = CopyPc(p_pos)
  /\ UNCHANGED <<d_payload, d_footer, kernel, users, fsctl, active, hbuf>>

PowerCopyNoFsync ==
  /\ p_pc = "copy_fsync"
  /\ p_pc' = "done_ok"
  /\ UNCHANGED <<device, kernel, users, fsctl, active, p_pos, hbuf>>

PowerCopyFsync ==
  /\ p_pc = "copy_fsync"
  /\ Flush(Other(active))
  /\ p_pc' = "done_ok"
  /\ UNCHANGED <<payload, footer, kernel, users, fsctl, active, p_pos, hbuf>>

\* Any later step may fail; the prepare stops there and is only logged.
PrepareFails ==
  /\ p_pc \in {"resolve", "disable", "seal", "descriptor", "desc_fsync", "copy_open", "copy", "copy_fsync"}
  /\ p_pc' = "done_fail"
  /\ UNCHANGED <<device, kernel, users, fsctl, active, p_pos, hbuf>>

\* --prepare-only, or a power transition that systemd refused.
PrepareAgain ==
  /\ "retry" \in Env
  /\ p_pc \in {"done_ok", "done_fail"}
  /\ p_pc' = "idle"
  /\ UNCHANGED <<device, kernel, users, fsctl, active, p_pos, hbuf>>
-----------------------------------------------------------------------------
(* Power goes away: all processes and the page cache are gone.             *)

VolatileReset ==
  /\ fs' = "none" /\ cache' = Fresh /\ write_blocked' = FALSE
  /\ profile' = [s \in Sysctls |-> "original"]
  /\ apps' = FALSE /\ gate' = TRUE
  /\ f_pc' = "off" /\ cand' = "A" /\ mounted_digest' = NoDigest /\ f_pos' = 1
  /\ p_pc' = "idle" /\ active' = "A" /\ p_pos' = 1 /\ hbuf' = << >>
  /\ UNCHANGED version

Crash ==
  /\ f_pc # "off"
  /\ payload' = d_payload /\ footer' = d_footer
  /\ UNCHANGED <<d_payload, d_footer>>
  /\ VolatileReset

\* The power transition continues whether or not the prepare succeeded: it
\* stops the services, and the unmount writes back what is still dirty.
PowerOff ==
  /\ p_pc \in {"done_ok", "done_fail"}
  /\ "slow_recovery" \in Env \/ f_pc \notin Repairing
  /\ payload' = [p \in Parts |-> IF p = fs THEN cache ELSE payload[p]]
  /\ d_payload' = payload'
  /\ d_footer' = footer /\ UNCHANGED footer
  /\ VolatileReset
-----------------------------------------------------------------------------
MountPartition == Boot \/ EnableDelay \/ VerifyCandidate \/ MountCandidate \/ Notify
MountFails == ReadDirtyFails \/ CandidateFails \/ NotifyFails
RecoverAppParam ==
  \/ PeerVerify \/ PeerVerifyFails \/ RecoveryCopyOpen \/ RecoveryCopy \/ RecoveryFsync \/ PostVerify
  \/ RecoveryFails \/ Release \/ RestoreDirty
FileSystem ==
  \E b \in Blocks : AppWrite(b) \/ EvictInode(b) \/ AppFsync(b) \/ Writeback(b)
Device ==
  \E p \in Parts : PersistFooter(p) \/ \E b \in Blocks : PersistBlock(p, b)
Prepare ==
  \/ WaitMountRecovery \/ WaitFails \/ ResolveActivePeer
  \/ DisableWrite \/ DisableWriteDone \/ DisableWriteFails
  \/ SealHash \/ SealHashDone \/ WriteDescriptor \/ DescriptorFsync
  \/ PowerCopyOpen \/ PowerCopy \/ PowerCopyFsync \/ PrepareFails
Request == PowerRequest \/ FsctlUmount \/ PrepareAgain

Next ==
  \/ MountPartition \/ MountFails \/ RecoverAppParam
  \/ FileSystem \/ Device \/ Request \/ Prepare \/ PowerOff \/ Crash

Spec == Init /\ [][Next]_vars

\* fsctl, the power path and the flusher threads are scheduled.
Fairness ==
  /\ WF_vars(MountPartition) /\ WF_vars(RecoverAppParam) /\ WF_vars(Prepare)
  /\ \A b \in Blocks : WF_vars(Writeback(b))

FairSpec == Spec /\ Fairness
-----------------------------------------------------------------------------
(* The variables have their types.                                         *)
TypeOK ==
  /\ payload \in [Parts -> Image] /\ d_payload \in [Parts -> Image]
  /\ footer \in [Parts -> Digest] /\ d_footer \in [Parts -> Digest]
  /\ fs \in Parts \cup {"none"} /\ cache \in Image /\ write_blocked \in BOOLEAN
  /\ apps \in BOOLEAN /\ gate \in BOOLEAN /\ version \in Version
  /\ profile \in [Sysctls -> {"original", "delayed"}]
  /\ f_pc \in FStates /\ cand \in Parts /\ mounted_digest \in Digest
  /\ f_pos \in 1 .. NBlocks + 1
  /\ p_pc \in PStates /\ active \in Parts /\ p_pos \in 1 .. NBlocks + 1 /\ hbuf \in Seq(Version)

(* Whenever the power fails, at least one partition passes verify at the   *)
(* next boot: Recovery overwrites the peer only while the active snapshot  *)
(* is intact on the medium, Apps reach the active partition only after the *)
(* peer is good, and the power path overwrites the peer only after the     *)
(* active partition is sealed (storage.c: mount_partition,                 *)
(* recover_app_param, umount_partition).                                   *)
OneTrusted == \E p \in Parts : Trusted(p)

(* After a successful power prepare A equals B, both footers match, and    *)
(* both hold every modification the Apps made (README, section 11).        *)
PreparedPairEqual ==
  p_pc = "done_ok" =>
    \A p \in Parts : d_payload[p] = cache /\ d_footer[p] = cache

(* Once disable-write has returned, the protected region of the active     *)
(* partition keeps its content until power goes away (README, section 12,  *)
(* condition 5).                                                           *)
FreezeStates == {"seal", "descriptor", "desc_fsync", "copy_open", "copy", "copy_fsync"}
Frozen == p_pc \in FreezeStates \cup {"done_ok"}
FrozenStable ==
  [][Frozen /\ f_pc' # "off" => payload'[active] = payload[active] /\ cache' = cache]_vars

(* The last partition that passes verify is lost only while its peer could *)
(* not be repaired: Recovery is at work and comes too late, or the kernel  *)
(* writes back early; or it has failed, and recover_app_param gives the    *)
(* Apps their dirty profile back.  It is never lost at boot, by a Recovery *)
(* that repairs the peer, between it and the power prepare, during or      *)
(* after the seal and the copy, nor when the prepare fails.  (A failed     *)
(* prepare that is repeated may open the gate again: "retry" is left out.) *)
TrustLostOnlyUnrepaired ==
  [][OneTrusted /\ ~OneTrusted' => f_pc \in Repairing \cup {"restore_fail", "failed"}]_vars

(* The power path touches A/B only when the Recovery of this boot is over  *)
(* (README, section 12, condition 7).                                      *)
RecoveryPowerExclusive ==
  ~(f_pc \in Repairing /\ p_pc \in FreezeStates)

(* The Apps' gate is released, and fsctl reports success, only when the    *)
(* peer holds on the medium exactly the snapshot that was verified before  *)
(* the mount, even if the active partition changed during the copy         *)
(* (README, section 12, conditions 2 to 4).                                *)
ReleaseAfterPeerGood ==
  f_pc \in {"release", "restore_ok"} =>
    /\ Trusted(Other(cand))
    /\ d_payload[Other(cand)] = mounted_digest

(* The power path overwrites the peer only while the active partition, as  *)
(* it is on the medium, passes verify: a crash in the middle of the copy   *)
(* leaves a bootable partition, whatever happened to the peer before.      *)
CopyOnlyFromSealed == p_pc \in {"copy", "copy_fsync"} => Trusted(active)

(* A power request is answered - the prepare succeeds or fails and the     *)
(* power transition goes on - unless the power is lost first (README,      *)
(* section 12, condition 8).                                               *)
PrepareTerminates == p_pc = "wait" ~> p_pc \in {"done_ok", "done_fail", "idle"}

(* Recovery comes to an end: the mount service leaves "running".           *)
RecoveryTerminates == f_pc = "peer_verify" ~> f_pc \in {"exited", "failed", "off"}
-----------------------------------------------------------------------------
(* What the pair of partitions promises: one snapshot that is replaced     *)
(* atomically.  The snapshot is what the next boot would mount.            *)
Snapshot ==
  IF Trusted("A") THEN d_payload["A"] ELSE d_payload["B"]

Store == INSTANCE SnapshotStore WITH
  Content <- Image,
  stable  <- Snapshot,
  current <- IF fs = "none" THEN Snapshot ELSE cache,
  up      <- fs # "none"

(* The A/B life cycle implements the atomic snapshot store: a boot always  *)
(* finds the file system as it was at one moment, never a mixture of two,  *)
(* and never an older one than the last commit.                            *)
AtomicSnapshot == Store!Spec
-----------------------------------------------------------------------------
(* The invariant behind OneTrusted, PreparedPairEqual, FrozenStable and    *)
(* RecoveryPowerExclusive, for Env \subseteq {"boot_io"}: who may touch     *)
(* which partition in which phase.                                         *)

Clean(p) == payload[p] = d_payload[p] /\ footer[p] = d_footer[p]
Good(p) == Clean(p) /\ Trusted(p)

\* Every write to the partition stopped after it was sealed.
Sealed(p) == write_blocked /\ cache = payload[p] /\ Good(p)

MountPhases ==
  /\ f_pc \in {"off", "enable", "verify", "mount"} => fs = "none"
  /\ f_pc \in {"notify", "release", "restore_ok", "exited"} \cup Repairing => fs = cand
  /\ f_pc \in {"off", "enable", "verify", "mount", "notify"} => ~apps
  /\ f_pc \in {"release", "restore_ok", "exited"} \cup Repairing => apps
  /\ f_pc \in {"verify", "mount", "notify", "release"} \cup Repairing => Delayed
  /\ f_pc \in Repairing => gate
  /\ apps => fs # "none"

\* The power path is past its wait only when Recovery has succeeded.
PowerPhases ==
  /\ p_pc \notin {"idle", "wait", "done_fail"} => f_pc = "exited"
  /\ p_pc \notin {"idle", "wait", "resolve", "done_fail"} => active = fs

\* Before READY=1 nobody has written anything.
QuietBeforeApps ==
  ~apps =>
    /\ \A p \in Parts : Clean(p)
    /\ \E p \in Parts : Trusted(p)
    /\ fs # "none" => cache = payload[fs]
    /\ f_pc = "mount" => payload[cand] = mounted_digest /\ footer[cand] = mounted_digest

\* During Recovery the active partition is the snapshot that was verified.
RecoverySource ==
  f_pc \in {"notify"} \cup Repairing => Good(cand) /\ d_payload[cand] = mounted_digest

RecoveryProgress ==
  /\ f_pc = "copy" =>
       \A b \in Blocks : b < f_pos => payload[Other(cand)][b] = payload[cand][b]
  /\ f_pc \in {"copy_fsync", "post_verify"} =>
       /\ payload[Other(cand)] = payload[cand]
       /\ footer[Other(cand)] = footer[cand]
  /\ f_pc \in {"peer_verify", "post_verify"} => Clean(Other(cand))

\* After Recovery the peer is good until the active partition is sealed.
PeerOrActive ==
  apps /\ f_pc \notin Repairing =>
    /\ p_pc \notin {"copy", "copy_fsync", "done_ok", "done_fail"} => Good(Other(fs))
    /\ p_pc \in {"copy_open", "copy", "copy_fsync", "done_ok"} => Sealed(fs)
    /\ p_pc = "done_fail" => Good(Other(fs)) \/ Sealed(fs)

SealProgress ==
  /\ p_pc = "sync" => write_blocked
  /\ p_pc \in {"seal", "descriptor", "desc_fsync"} =>
       write_blocked /\ cache = payload[fs] /\ payload[fs] = d_payload[fs]
  /\ p_pc = "seal" =>
       Len(hbuf) <= NBlocks /\ \A i \in 1 .. Len(hbuf) : hbuf[i] = payload[fs][i]
  /\ p_pc = "descriptor" => hbuf = payload[fs]
  /\ p_pc = "desc_fsync" => footer[fs] = payload[fs]

PowerCopyProgress ==
  /\ p_pc = "copy" =>
       \A b \in Blocks : b < p_pos => payload[Other(fs)][b] = payload[fs][b]
  /\ p_pc \in {"copy_fsync", "done_ok"} =>
       payload[Other(fs)] = payload[fs] /\ footer[Other(fs)] = footer[fs]
  /\ p_pc = "done_ok" => Clean(Other(fs))

LifeInv ==
  /\ TypeOK /\ MountPhases /\ PowerPhases /\ QuietBeforeApps /\ RecoverySource
  /\ RecoveryProgress /\ PeerOrActive /\ SealProgress /\ PowerCopyProgress
-----------------------------------------------------------------------------
(* The invariants behind the properties that survive more hazards.         *)

Early == {"off", "enable", "verify", "mount"}

\* Who may write where: only fsctl itself writes to the peer until the power
\* path is past its wait.  Behind ReleaseAfterPeerGood, without "cli_umount"
\* and "short_hash".
PeerInv ==
  /\ TypeOK
  /\ p_pc \notin {"idle", "wait", "done_fail"} => f_pc = "exited"
  /\ f_pc \in Early => fs = "none" /\ \A p \in Parts : Clean(p)
  /\ f_pc \in {"notify", "release", "restore_ok"} \cup Repairing => fs = cand
  /\ f_pc \in {"notify", "peer_verify", "post_verify", "release", "restore_ok"} => Clean(Other(cand))
  /\ ReleaseAfterPeerGood

\* What disable-write froze.  Behind FrozenStable, without "evict".
FreezeInv ==
  /\ TypeOK
  /\ fs \in {cand, "none"}
  /\ f_pc \in Early => fs = "none" /\ p_pc \in {"idle", "wait", "resolve", "done_fail"}
  /\ p_pc \notin {"idle", "wait", "resolve", "done_fail"} => active = cand
  /\ p_pc = "sync" => fs = cand /\ write_blocked
  /\ Frozen => /\ fs = "none" \/ write_blocked
               /\ cache = payload[active] /\ cache = d_payload[active]

\* What is sealed, and how far the copy has come, whether or not Recovery is at
\* work on the same peer.  Behind PreparedPairEqual and CopyOnlyFromSealed,
\* without "evict" and "short_hash".
SealInv ==
  /\ FreezeInv
  /\ p_pc = "seal" =>
       Len(hbuf) <= NBlocks /\ \A i \in 1 .. Len(hbuf) : hbuf[i] = cache[i]
  /\ p_pc = "descriptor" => hbuf = cache
  /\ p_pc = "desc_fsync" => footer[active] = cache
  /\ p_pc \in {"copy_open", "copy", "copy_fsync", "done_ok"} => Good(active)
  /\ ~(PeerHeldByPower /\ PeerHeldByFsctl)
  /\ p_pc = "copy" => \A b \in Blocks : b < p_pos => payload[Other(active)][b] = cache[b]
  /\ p_pc \in {"copy_fsync", "done_ok"} =>
       payload[Other(active)] = cache /\ footer[Other(active)] = cache
  /\ p_pc = "done_ok" => Clean(Other(active))
-----------------------------------------------------------------------------
(* What AtomicSnapshot rests on besides, when Env is empty: which images   *)
(* the cells of the pair belong to, so that a partition that no longer     *)
(* verifies never verifies again with an old image.                        *)

\* A partition that img is written over, with the region new and the footer fnew,
\* of which the region old and the footer fold are on the medium.
Mixed(new, fnew, old, fold, img) ==
  /\ \A b \in Blocks : new[b] \in {old[b], img[b]}
  /\ fnew \in {fold, img}
  /\ \/ fold \in {img, NoDigest}
     \/ \A b \in Blocks : old[b] \in {fold[b], img[b]}

Overwriting(p, img) == Mixed(payload[p], footer[p], d_payload[p], d_footer[p], img)

\* The peer holds the snapshot that the footer of the active partition is of.
OldSnapshot ==
  /\ Good(Other(fs))
  /\ footer[fs] = d_payload[Other(fs)] /\ d_footer[fs] = footer[fs]

\* The new footer is on its way.
NewFooter ==
  /\ Good(Other(fs))
  /\ write_blocked /\ cache = payload[fs] /\ d_payload[fs] = cache /\ footer[fs] = cache
  /\ d_footer[fs] \in {cache, d_payload[Other(fs)]}

NewSnapshot == Sealed(fs) /\ Overwriting(Other(fs), cache)

CandidateInOrder ==
  f_pc \in {"verify", "mount", "notify"} /\ cand = "B" => ~Trusted("A")

QuietPair == ~apps => Trusted("A") \/ Overwriting("A", d_payload["B"])

RecoveryPair ==
  f_pc \in Repairing /\ cand = "B" =>
    /\ Overwriting("A", d_payload["B"])
    /\ Trusted("A") => d_payload["A"] = d_payload["B"]

PowerPair ==
  apps /\ f_pc \notin Repairing =>
    /\ p_pc \in {"idle", "wait", "resolve", "disable", "sync", "seal", "descriptor"} => OldSnapshot
    /\ p_pc = "desc_fsync" => NewFooter
    /\ p_pc \in {"copy_open", "copy", "copy_fsync", "done_ok"} => NewSnapshot
    /\ p_pc = "done_fail" => OldSnapshot \/ NewFooter \/ NewSnapshot

SnapshotInv == CandidateInOrder /\ QuietPair /\ RecoveryPair /\ PowerPair
=============================================================================

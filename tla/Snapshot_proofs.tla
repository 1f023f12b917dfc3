-------------------------- MODULE Snapshot_proofs ---------------------------
(***************************************************************************)
(* The pair of partitions implements SnapshotStore, for every number of    *)
(* blocks and of modifications, when no environment hazard happens: power  *)
(* may be lost at any moment and every step of the prepare may fail.       *)
(***************************************************************************)
EXTENDS SuperRaid_proofs

\* The provers that are tried, in turn, on a leaf that names none.
USE SMTT(10), ZenonT(20), SMTT(20), ZenonT(40), SMTT(40)

\* Power losses, device caches and failing prepares, but nothing of EnvFeatures.
NoHazard == Env = {}

(* What is proved under Calm holds without hazards.                        *)
LEMMA NoHazardCalm == NoHazard => Calm
PROOF
  BY DEF NoHazard, Calm

(* No image is the digest of a rejected descriptor.                        *)
LEMMA ImageNoDigest ==
  ASSUME NEW img \in Image
  PROVE  img # NoDigest
PROOF
<1>1. 1 \in Blocks /\ NoDigest[1] = -1
  BY SuperRaidAssumption DEF Blocks, NoDigest
<1>2. img[1] \in Version
  BY <1>1 DEF Image
<1>3. img[1] # -1
  BY <1>2, SuperRaidAssumption DEF Version
<1> QED
  BY <1>1, <1>3

(* A partition that is clean, and whose footer is of its own content or of *)
(* the image to come, is as one that is about to be overwritten.           *)
LEMMA MixedStart ==
  ASSUME NEW new, NEW fnew, NEW img, fnew \in {new, img}
  PROVE  Mixed(new, fnew, new, fnew, img)
PROOF
  BY DEF Mixed

(* The device persists one block: if that makes the partition verify, it   *)
(* is img, or it verified before.                                          *)
LEMMA MixedPersistBlock ==
  ASSUME NEW new \in Image, NEW fnew, NEW old \in Image, NEW fold, NEW img \in Image,
         Mixed(new, fnew, old, fold, img), NEW b \in Blocks,
         NEW later, later = [old EXCEPT ![b] = new[b]]
  PROVE  /\ Mixed(new, fnew, later, fold, img)
         /\ fold = later => later = img \/ later = old
PROOF
<1>1. later \in Image /\ later[b] = new[b] /\ \A c \in Blocks : c # b => later[c] = old[c]
  BY DEF Image
<1>2. Mixed(new, fnew, later, fold, img)
  BY <1>1 DEF Mixed
<1>3. ASSUME fold = later PROVE later = img \/ later = old
  <2>1. fold # NoDigest
    BY Zenon, ZenonT(60), <1>1, <1>3, ImageNoDigest
  <2>2. CASE fold = img
    BY <1>3, <2>2
  <2>3. CASE \A c \in Blocks : old[c] \in {fold[c], img[c]}
    <3>1. old[b] \in {new[b], img[b]} /\ new[b] \in {old[b], img[b]}
      BY <1>1, <1>3, <2>3 DEF Mixed
    <3>2. \A c \in Blocks : later[c] = old[c]
      BY <1>1, <3>1
    <3> QED
      BY Zenon, ZenonT(60), <1>1, <3>2, SameBlocks
  <2> QED
    BY <2>1, <2>2, <2>3 DEF Mixed
<1> QED
  BY <1>2, <1>3

(* The device persists the footer: the same.                               *)
LEMMA MixedPersistFooter ==
  ASSUME NEW new, NEW fnew, NEW old, NEW fold, NEW img, Mixed(new, fnew, old, fold, img)
  PROVE  /\ Mixed(new, fnew, old, fnew, img)
         /\ fnew = old => old = img \/ fold = old
PROOF
  BY DEF Mixed

(* All of the partition is flushed: if it verifies then, it is img, or it  *)
(* verified before with the same content.                                  *)
LEMMA MixedFlush ==
  ASSUME NEW new \in Image, NEW fnew, NEW old \in Image, NEW fold, NEW img \in Image,
         Mixed(new, fnew, old, fold, img)
  PROVE  /\ Mixed(new, fnew, new, fnew, img)
         /\ fnew = new => new = img \/ (new = old /\ fold = old)
PROOF
<1>1. Mixed(new, fnew, new, fnew, img)
  BY DEF Mixed
<1>2. ASSUME fnew = new, new # img PROVE new = old /\ fold = old
  <2>1. fold = new /\ fold # NoDigest /\ fold # img
    BY <1>2, ImageNoDigest DEF Mixed
  <2>2. \A b \in Blocks : old[b] = new[b]
    BY <2>1 DEF Mixed
  <2> QED
    BY <2>1, <2>2, SameBlocks
<1> QED
  BY <1>1, <1>2

(* The copy writes a block, or the footer, of img.                         *)
LEMMA MixedCopy ==
  ASSUME NEW new \in Image, NEW fnew, NEW old \in Image, NEW fold, NEW img \in Image,
         Mixed(new, fnew, old, fold, img)
  PROVE  /\ Mixed(new, img, old, fold, img)
         /\ \A b \in Blocks : Mixed([new EXCEPT ![b] = img[b]], fnew, old, fold, img)
PROOF
  BY DEF Mixed, Image

(* Power is lost in the middle of it.                                      *)
LEMMA MixedCrash ==
  ASSUME NEW new, NEW fnew, NEW old, NEW fold, NEW img, Mixed(new, fnew, old, fold, img)
  PROVE  Mixed(old, fold, old, fold, img)
PROOF
  BY DEF Mixed
(* One step of copy_block_range_from_target, on the peer of src.           *)
LEMMA CopyOverwrites ==
  ASSUME payload \in [Parts -> Image], d_payload \in [Parts -> Image],
         footer \in [Parts -> Digest],
         NEW src \in Parts, NEW pos \in 1 .. NBlocks + 1,
         CopyCell(src, Other(src), pos), UNCHANGED <<d_payload, d_footer>>,
         footer[src] = payload[src], Overwriting(Other(src), payload[src])
  PROVE  /\ payload'[src] = payload[src] /\ footer'[src] = footer[src]
         /\ Mixed(payload'[Other(src)], footer'[Other(src)], d_payload'[Other(src)],
                  d_footer'[Other(src)], payload[src])
PROOF
<1> DEFINE dst == Other(src)
<1>1. dst \in Parts /\ dst # src
  BY OtherPart
<1>2. Mixed(payload[dst], footer[dst], d_payload[dst], d_footer[dst], payload[src])
  BY DEF Overwriting
<1>3. payload[dst] \in Image /\ d_payload[dst] \in Image /\ payload[src] \in Image
  BY <1>1
<1> HIDE DEF dst
<1>4. CASE pos <= NBlocks
  <2>1. pos \in Blocks
    BY <1>4, SuperRaidAssumption DEF Blocks
  <2>2. payload' = [payload EXCEPT ![dst][pos] = payload[src][pos]] /\ footer' = footer
    BY <1>4 DEF CopyCell, dst
  <2>3. /\ payload'[dst] = [payload[dst] EXCEPT ![pos] = payload[src][pos]]
        /\ payload'[src] = payload[src]
    BY <1>1, <2>2
  <2>4. Mixed([payload[dst] EXCEPT ![pos] = payload[src][pos]], footer[dst], d_payload[dst],
              d_footer[dst], payload[src])
    BY Zenon, ZenonT(60), <1>2, <1>3, <2>1, MixedCopy
  <2> QED
    BY <2>2, <2>3, <2>4 DEF dst
<1>5. CASE pos > NBlocks
  <2>1. payload' = payload /\ footer' = [footer EXCEPT ![dst] = footer[src]]
    BY <1>5, SuperRaidAssumption DEF CopyCell, dst
  <2>2. footer'[dst] = payload[src] /\ footer'[src] = footer[src]
    BY <1>1, <2>1
  <2>3. Mixed(payload[dst], payload[src], d_payload[dst], d_footer[dst], payload[src])
    BY <1>2, <1>3, MixedCopy
  <2> QED
    BY <2>1, <2>2, <2>3 DEF dst
<1> QED
  BY <1>4, <1>5, SuperRaidAssumption
-----------------------------------------------------------------------------
(* Steps of the abstract store.                                            *)

(* Nothing that the store shows has changed.                               *)
LEMMA StoreStutter ==
  ASSUME Snapshot' = Snapshot, fs' = fs, cache' = cache
  PROVE  UNCHANGED Store!vars
PROOF
  BY DEF Store!vars

(* The mount shows what the next boot was to find.                         *)
LEMMA StoreMount ==
  ASSUME fs = "none", fs' # "none", Snapshot' = Snapshot, cache' = Snapshot
  PROVE  Store!Next
PROOF
  BY DEF Store!Next, Store!Mount

(* The content changes under the mount.                                    *)
LEMMA StoreModify ==
  ASSUME fs # "none", fs' = fs, cache' \in Image, Snapshot' = Snapshot
  PROVE  Store!Next
PROOF
  BY DEF Store!Next, Store!Modify

(* The current content becomes the snapshot, or nothing happens.           *)
LEMMA StoreCommit ==
  ASSUME fs # "none", fs' = fs, cache' = cache, Snapshot' \in {Snapshot, cache}
  PROVE  Store!Next \/ UNCHANGED Store!vars
PROOF
<1>1. CASE Snapshot' = cache
  BY <1>1 DEF Store!Next, Store!Commit
<1>2. CASE Snapshot' = Snapshot
  BY <1>2, StoreStutter
<1> QED
  BY <1>1, <1>2

(* The file system goes away, with or without a commit.                    *)
LEMMA StoreStop ==
  ASSUME fs # "none", fs' = "none", Snapshot' \in {Snapshot, cache}
  PROVE  Store!Next
PROOF
  BY DEF Store!Next, Store!Stop

(* Power is lost, or the boot goes on, with nothing mounted.               *)
LEMMA StoreDown ==
  ASSUME fs = "none", fs' = "none", Snapshot' = Snapshot
  PROVE  UNCHANGED Store!vars
PROOF
  BY DEF Store!vars
-----------------------------------------------------------------------------
(* What the next boot mounts, by the phase.                                *)

(* During Recovery it is the mounted partition.                            *)
LEMMA SnapshotRepairing ==
  ASSUME LifeInv, SnapshotInv, f_pc \in Repairing
  PROVE  Snapshot = d_payload[cand]
PROOF
  BY DEF LifeInv, TypeOK, Parts, RecoverySource, Good, SnapshotInv, RecoveryPair, Snapshot

(* Until the new footer is written it is the peer, also when the active    *)
(* partition happens to verify.                                            *)
LEMMA SnapshotOld ==
  ASSUME fs \in Parts, OldSnapshot
  PROVE  Snapshot = d_payload[Other(fs)]
PROOF
  BY DEF Parts, Other, OldSnapshot, Good, Trusted, Snapshot

(* The phases of a device that is on.                                      *)
LEMMA SnapshotPhases ==
  ASSUME LifeInv, SnapshotInv, apps, f_pc \notin Repairing
  PROVE  /\ fs \in Parts /\ Other(fs) \in Parts /\ Other(fs) # fs
         /\ f_pc \notin {"verify", "mount", "notify"}
         /\ OldSnapshot \/ NewFooter \/ NewSnapshot
PROOF
<1>1. fs \in Parts /\ f_pc \notin {"verify", "mount", "notify"}
  BY DEF LifeInv, TypeOK, MountPhases
<1>2. OldSnapshot \/ NewFooter \/ NewSnapshot
  BY DEF LifeInv, TypeOK, PStates, SnapshotInv, PowerPair
<1> QED
  BY <1>1, <1>2, OtherPart

(* A step that leaves the partitions and the mount alone.                  *)
LEMMA PairFrame ==
  ASSUME UNCHANGED <<device, fs, cache, write_blocked>>
  PROVE  /\ OldSnapshot' <=> OldSnapshot
         /\ NewFooter' <=> NewFooter
         /\ NewSnapshot' <=> NewSnapshot
         /\ Overwriting("A", d_payload["B"])' <=> Overwriting("A", d_payload["B"])
         /\ Trusted("A")' <=> Trusted("A")
         /\ Snapshot' = Snapshot
         /\ UNCHANGED Store!vars
PROOF
<1>1. \A p : (Good(p)' <=> Good(p)) /\ (Trusted(p)' <=> Trusted(p))
  BY DEF Good, Clean, Trusted, device
<1>2. /\ OldSnapshot' <=> OldSnapshot
      /\ NewFooter' <=> NewFooter
  BY <1>1 DEF OldSnapshot, NewFooter, device
<1>3. /\ NewSnapshot' <=> NewSnapshot
      /\ Overwriting("A", d_payload["B"])' <=> Overwriting("A", d_payload["B"])
  BY <1>1 DEF NewSnapshot, Sealed, Overwriting, device
<1>4. Snapshot' = Snapshot
  BY <1>1 DEF Snapshot, device
<1> QED
  BY <1>1, <1>2, <1>3, <1>4, StoreStutter

(* A step that moves neither fsctl nor the power path.                     *)
LEMMA PowerPairKept ==
  ASSUME LifeInv, SnapshotInv, apps, f_pc \notin Repairing, UNCHANGED <<apps, fsctl, p_pc>>,
         OldSnapshot => OldSnapshot', NewFooter => NewFooter', NewSnapshot => NewSnapshot'
  PROVE  SnapshotInv'
PROOF
<1>1. CandidateInOrder' /\ QuietPair' /\ RecoveryPair'
  BY SnapshotPhases DEF CandidateInOrder, QuietPair, RecoveryPair, fsctl
<1>2. PowerPair'
  BY DEF SnapshotInv, PowerPair, fsctl
<1> QED
  BY <1>1, <1>2 DEF SnapshotInv

(* mount_partition mounts what the store holds: A when it verifies, else B. *)
LEMMA MountRefines ==
  ASSUME NoHazard, LifeInv, SnapshotInv, MountPartition \/ MountFails
  PROVE  SnapshotInv' /\ (Store!Next \/ UNCHANGED Store!vars)
PROOF
<1>1. ~apps /\ UNCHANGED device
  BY DEF LifeInv, MountPhases, MountPartition, MountFails, Boot, EnableDelay, VerifyCandidate,
     MountCandidate, Notify, ReadDirtyFails, CandidateFails, NotifyFails
<1>2. (Trusted("A")' <=> Trusted("A")) /\ Snapshot' = Snapshot
      /\ (Overwriting("A", d_payload["B"])' <=> Overwriting("A", d_payload["B"]))
  BY <1>1 DEF Trusted, Snapshot, Overwriting, device
<1>3. QuietPair'
  BY <1>1, <1>2 DEF SnapshotInv, QuietPair
<1>4. \A p \in Parts : Clean(p)
  BY <1>1 DEF LifeInv, QuietBeforeApps
<1>5. ASSUME UNCHANGED apps, f_pc' \notin Repairing PROVE RecoveryPair' /\ PowerPair'
  BY <1>1, <1>5 DEF RecoveryPair, PowerPair
<1>6. CASE Boot \/ EnableDelay \/ ReadDirtyFails
  <2>1. /\ UNCHANGED <<apps, fs, cache>> /\ f_pc' \notin Repairing
        /\ f_pc' \in {"verify", "mount", "notify"} => cand' = "A"
    BY <1>6 DEF Boot, EnableDelay, ReadDirtyFails, kernel, users, Repairing
  <2>2. CandidateInOrder'
    BY <2>1 DEF CandidateInOrder
  <2> QED
    BY <1>2, <1>3, <1>5, <2>1, <2>2, StoreStutter DEF SnapshotInv
<1>7. CASE VerifyCandidate
  <2>1. cand \in Parts /\ HashResults(payload[cand]) = {payload[cand]}
    BY HashIsImage, NoHazardCalm DEF LifeInv, TypeOK
  <2>2. UNCHANGED <<apps, fs, cache>> /\ f_pc' \notin Repairing /\ f_pc = "verify"
    BY <1>7 DEF VerifyCandidate, NextCandidate, kernel, users, Repairing
  <2>3. cand' = "B" => cand = "B" \/ (cand = "A" /\ footer["A"] # payload["A"])
    BY <1>7, <2>1 DEF VerifyCandidate, NextCandidate, Parts
  <2>4. CandidateInOrder'
    BY <1>2, <1>4, <2>2, <2>3 DEF SnapshotInv, CandidateInOrder, Clean, Trusted, Parts
  <2> QED
    BY <1>2, <1>3, <1>5, <2>2, <2>4, StoreStutter DEF SnapshotInv
<1>8. CASE MountCandidate
  <2>1. /\ UNCHANGED <<apps, cand>> /\ f_pc = "mount" /\ f_pc' = "notify"
        /\ fs' = cand /\ cache' = payload[cand] /\ fs = "none" /\ cand \in Parts
    BY <1>8 DEF MountCandidate, users, LifeInv, TypeOK, MountPhases
  <2>2. CandidateInOrder'
    BY <1>2, <2>1 DEF SnapshotInv, CandidateInOrder
  <2>3. payload[cand] = d_payload[cand] /\ Trusted(cand)
    BY <1>1, <1>4, <2>1 DEF LifeInv, QuietBeforeApps, Clean, Trusted
  <2>4. cache' = Snapshot
    BY <2>1, <2>3 DEF SnapshotInv, CandidateInOrder, Snapshot, Parts
  <2>5. Store!Next
    BY <1>2, <2>1, <2>4, StoreMount DEF Parts
  <2> QED
    BY <1>3, <1>5, <2>1, <2>2, <2>5 DEF SnapshotInv, Repairing
<1>9. CASE Notify
  <2>1. /\ UNCHANGED <<fs, cache, cand>> /\ f_pc = "notify" /\ f_pc' = "peer_verify"
    BY <1>9 DEF Notify, kernel
  <2>2. CandidateInOrder' /\ PowerPair'
    BY <2>1 DEF CandidateInOrder, PowerPair, Repairing
  <2>3. RecoveryPair'
    BY <1>1, <1>2, <2>1 DEF SnapshotInv, CandidateInOrder, QuietPair, RecoveryPair
  <2> QED
    BY <1>2, <1>3, <2>1, <2>2, <2>3, StoreStutter DEF SnapshotInv
<1>10. CASE NotifyFails
  <2>1. /\ f_pc' = "restore_fail" /\ UNCHANGED <<apps, cache>>
        /\ fs' = fs \/ fs' = "none"
    BY <1>10 DEF NotifyFails, users
  <2>2. Store!Next \/ UNCHANGED Store!vars
    BY <1>2, <2>1, StoreStutter, StoreStop
  <2>3. CandidateInOrder'
    BY <2>1 DEF CandidateInOrder
  <2> QED
    BY <1>3, <1>5, <2>1, <2>2, <2>3 DEF SnapshotInv, Repairing
<1>11. ~CandidateFails
  BY DEF CandidateFails, NoHazard
<1> QED
  BY <1>6, <1>7, <1>8, <1>9, <1>10, <1>11 DEF MountPartition, MountFails

(* Recovery changes nothing that the next boot finds, and ends with both   *)
(* partitions at the snapshot.                                             *)
LEMMA RecoveryRefines ==
  ASSUME NoHazard, LifeInv, SnapshotInv, RecoverAppParam
  PROVE  SnapshotInv' /\ (Store!Next \/ UNCHANGED Store!vars)
PROOF
<1>1. p_pc \in Idle /\ UNCHANGED <<fs, cache, write_blocked, apps, cand, p_pc>>
  BY FsctlAlone DEF RecoverAppParam, PeerVerify, PeerVerifyFails, RecoveryCopyOpen,
     RecoveryCopy, RecoveryFsync, PostVerify, RecoveryFails, Release, RestoreDirty, Repairing,
     kernel, users, power
<1>2. /\ cand \in Parts /\ Other(cand) \in Parts /\ Other(cand) # cand
      /\ payload \in [Parts -> Image] /\ d_payload \in [Parts -> Image]
      /\ footer \in [Parts -> Digest] /\ d_footer \in [Parts -> Digest]
  BY OtherPart DEF LifeInv, TypeOK
<1>3. ASSUME f_pc \in Repairing
      PROVE  apps /\ fs = cand /\ Good(cand) /\ d_payload[cand] = mounted_digest
  BY <1>3 DEF LifeInv, MountPhases, RecoverySource
<1>4. ASSUME f_pc \in Repairing, f_pc' \in Repairing, RecoveryPair', Snapshot' = Snapshot
      PROVE  SnapshotInv' /\ UNCHANGED Store!vars
  <2>1. CandidateInOrder' /\ QuietPair' /\ PowerPair'
    BY <1>1, <1>3, <1>4 DEF CandidateInOrder, QuietPair, PowerPair, Repairing
  <2> QED
    BY <1>1, <1>4, <2>1, StoreStutter DEF SnapshotInv
<1>5. CASE PeerVerify \/ PostVerify
  <2>1. /\ f_pc \in {"peer_verify", "post_verify"} /\ UNCHANGED device
        /\ f_pc' \in {"release", "copy_open", "restore_fail"}
        /\ f_pc' = "copy_open" => f_pc = "peer_verify"
        /\ f_pc' = "restore_fail" => f_pc = "post_verify"
    BY <1>5 DEF PeerVerify, PostVerify
  <2>2. CASE f_pc' = "copy_open"
    <3>1. RecoveryPair' /\ Snapshot' = Snapshot
      BY <1>1, <2>1, PairFrame DEF SnapshotInv, RecoveryPair, Repairing, device
    <3> QED
      BY <1>4, <2>1, <2>2, <3>1 DEF Repairing
  <2>3. CASE f_pc' # "copy_open"
    <3>1. Clean(Other(cand))
      BY <2>1 DEF LifeInv, RecoveryProgress
    <3>2. HashResults(payload[Other(cand)]) = {payload[Other(cand)]}
      BY <1>2, HashIsImage, NoHazardCalm
    <3>3. Good(cand) /\ d_payload[cand] = mounted_digest /\ fs = cand /\ apps
      BY <1>3, <2>1 DEF Repairing
    <3>4. payload[Other(cand)] = mounted_digest /\ footer[Other(cand)] = mounted_digest
      <4>1. CASE f_pc = "post_verify"
        BY <3>3, <4>1 DEF LifeInv, RecoveryProgress, Good, Clean, Trusted
      <4>2. CASE f_pc = "peer_verify"
        BY <1>5, <2>1, <2>3, <3>2, <4>2 DEF PeerVerify, PostVerify
      <4> QED
        BY <2>1, <4>1, <4>2
    <3>5. OldSnapshot
      BY <3>1, <3>3, <3>4 DEF OldSnapshot, Good, Clean, Trusted
    <3>6. OldSnapshot' /\ UNCHANGED Store!vars
      BY <1>1, <2>1, <3>5, PairFrame
    <3>7. CandidateInOrder' /\ QuietPair' /\ RecoveryPair' /\ PowerPair'
      BY <1>1, <2>1, <2>3, <3>3, <3>6 DEF CandidateInOrder, QuietPair, RecoveryPair, PowerPair,
         Repairing, Idle
    <3> QED
      BY <3>6, <3>7 DEF SnapshotInv
  <2> QED
    BY <2>2, <2>3
<1>6. CASE RecoveryCopyOpen
  <2>1. f_pc = "copy_open" /\ f_pc' = "copy" /\ UNCHANGED device
    BY <1>6 DEF RecoveryCopyOpen
  <2>2. RecoveryPair' /\ Snapshot' = Snapshot
    BY <1>1, <2>1, PairFrame DEF SnapshotInv, RecoveryPair, Repairing, device
  <2> QED
    BY <1>4, <2>1, <2>2 DEF Repairing
<1>7. CASE RecoveryCopy
  <2>1. /\ f_pc = "copy" /\ f_pc' \in Repairing /\ UNCHANGED <<d_payload, d_footer>>
        /\ CopyCell(cand, Other(cand), f_pos) /\ f_pos \in 1 .. NBlocks + 1
    BY <1>7 DEF RecoveryCopy, CopyPc, Repairing, LifeInv, TypeOK
  <2>2. Snapshot' = Snapshot /\ (Trusted("A")' <=> Trusted("A"))
    BY <2>1 DEF Snapshot, Trusted
  <2>3. ASSUME cand = "B" PROVE Overwriting("A", d_payload["B"])'
    <3>1. /\ Overwriting("A", d_payload["B"]) /\ Other(cand) = "A"
          /\ payload["B"] = d_payload["B"] /\ footer["B"] = d_payload["B"]
      BY <1>3, <2>1, <2>3 DEF SnapshotInv, RecoveryPair, Repairing, Other, Good, Clean, Trusted
    <3>2. /\ payload'["B"] = payload["B"]
          /\ Mixed(payload'["A"], footer'["A"], d_payload'["A"], d_footer'["A"], payload["B"])
      BY <1>2, <2>1, <2>3, <3>1, CopyOverwrites
    <3> QED
      BY <2>1, <3>1, <3>2 DEF Overwriting
  <2>4. RecoveryPair'
    BY <1>1, <2>1, <2>2, <2>3 DEF SnapshotInv, RecoveryPair, Repairing
  <2> QED
    BY <1>4, <2>1, <2>2, <2>4 DEF Repairing
<1>8. CASE RecoveryFsync
  <2>1. /\ f_pc = "copy_fsync" /\ f_pc' = "post_verify" /\ Flush(Other(cand))
        /\ UNCHANGED <<payload, footer>>
    BY <1>8 DEF RecoveryFsync
  <2>2. /\ d_payload'[cand] = d_payload[cand] /\ d_footer'[cand] = d_footer[cand]
        /\ d_payload'[Other(cand)] = payload[Other(cand)]
        /\ d_footer'[Other(cand)] = footer[Other(cand)]
    BY <1>2, <2>1 DEF Flush
  <2>3. payload[Other(cand)] = d_payload[cand] /\ footer[Other(cand)] = d_payload[cand]
    BY <1>3, <2>1 DEF LifeInv, RecoveryProgress, Repairing, Good, Clean, Trusted
  <2>4. RecoveryPair'
    BY <1>1, <2>1, <2>2, <2>3 DEF RecoveryPair, Other, Overwriting, Mixed
  <2>5. Snapshot' = d_payload[cand]
    BY <1>2, <1>3, <2>1, <2>2, <2>3 DEF Snapshot, Trusted, Good, Parts, Other, Repairing
  <2>6. Snapshot' = Snapshot
    BY <2>1, <2>5, SnapshotRepairing DEF Repairing
  <2> QED
    BY <1>4, <2>1, <2>4, <2>6 DEF Repairing
<1>9. CASE Release \/ RestoreDirty
  <2>1. /\ f_pc \notin Repairing /\ f_pc' \notin {"verify", "mount", "notify"} \cup Repairing
        /\ UNCHANGED device
    BY <1>9 DEF Release, RestoreDirty, Repairing
  <2>2. CandidateInOrder' /\ RecoveryPair'
    BY <2>1 DEF CandidateInOrder, RecoveryPair
  <2>3. QuietPair' /\ PowerPair'
    BY <1>1, <2>1, PairFrame DEF SnapshotInv, QuietPair, PowerPair
  <2> QED
    BY <1>1, <2>1, <2>2, <2>3, PairFrame DEF SnapshotInv
<1>10. ~PeerVerifyFails /\ ~RecoveryFails
  BY <1>1 DEF PeerVerifyFails, RecoveryFails, PeerHeldByPower, Idle, NoHazard
<1> QED
  BY <1>5, <1>6, <1>7, <1>8, <1>9, <1>10 DEF RecoverAppParam

(* Modifications change the current content only, and writeback nothing.   *)
LEMMA FileSystemRefines ==
  ASSUME NoHazard, LifeInv, LifeInv', SnapshotInv, FileSystem
  PROVE  SnapshotInv' /\ (Store!Next \/ UNCHANGED Store!vars)
PROOF
<1>1. UNCHANGED <<fs, write_blocked, apps, fsctl, p_pc, footer>>
  BY DEF FileSystem, AppWrite, EvictInode, AppFsync, Writeback, device, kernel, users, power
<1>2. CASE \E b \in Blocks : AppWrite(b)
  <2>1. apps /\ fs # "none" /\ ~write_blocked /\ UNCHANGED device
    BY <1>2 DEF AppWrite
  <2>2. /\ Snapshot' = Snapshot /\ (OldSnapshot' <=> OldSnapshot)
        /\ Overwriting("A", d_payload["B"])' <=> Overwriting("A", d_payload["B"])
        /\ Trusted("A")' <=> Trusted("A")
    BY <1>1, <2>1 DEF Snapshot, Trusted, OldSnapshot, Good, Clean, Overwriting, device
  <2>3. ~NewFooter /\ ~NewSnapshot
    BY <2>1 DEF NewFooter, NewSnapshot, Sealed
  <2>4. CASE f_pc \in Repairing
    <3>1. RecoveryPair'
      BY <1>1, <2>1, <2>2, <2>4 DEF SnapshotInv, RecoveryPair, fsctl, device
    <3>2. CandidateInOrder' /\ QuietPair' /\ PowerPair'
      BY <1>1, <2>1, <2>4 DEF CandidateInOrder, QuietPair, PowerPair, fsctl, Repairing
    <3> QED
      BY <1>1, <2>1, <2>2, <3>1, <3>2, StoreModify DEF SnapshotInv, LifeInv, TypeOK
  <2>5. CASE f_pc \notin Repairing
    <3>1. SnapshotInv'
      BY <1>1, <2>1, <2>2, <2>3, <2>5, PowerPairKept
    <3> QED
      BY <1>1, <2>1, <2>2, <3>1, StoreModify DEF LifeInv, TypeOK
  <2> QED
    BY <2>4, <2>5
<1>3. CASE \E b \in Blocks : AppFsync(b) \/ Writeback(b)
  <2>1. PICK b \in Blocks : AppFsync(b) \/ Writeback(b)
    BY <1>3
  <2>2. /\ fs \in Parts /\ cache # payload[fs] /\ apps /\ f_pc \notin Repairing
    BY <2>1, WritebackPhase, NoHazardCalm
  <2>3. ~NewFooter /\ ~NewSnapshot
    BY <2>2 DEF NewFooter, NewSnapshot, Sealed
  <2>4. OldSnapshot /\ Other(fs) \in Parts /\ Other(fs) # fs
    BY <2>2, <2>3, SnapshotPhases
  <2>5. /\ payload'[Other(fs)] = payload[Other(fs)] /\ d_payload'[Other(fs)] = d_payload[Other(fs)]
        /\ d_footer'[Other(fs)] = d_footer[Other(fs)] /\ UNCHANGED cache
    BY <2>1, <2>2, <2>4 DEF AppFsync, Writeback, LifeInv, TypeOK, kernel
  <2>6. d_footer'[fs] \in {d_footer[fs], footer[fs]}
    BY <2>1, <2>2 DEF AppFsync, Writeback, LifeInv, TypeOK
  <2>7. OldSnapshot'
    BY <1>1, <2>4, <2>5, <2>6 DEF OldSnapshot, Good, Clean, Trusted
  <2>8. Snapshot = d_payload[Other(fs)] /\ Snapshot' = d_payload'[Other(fs)]
    <3>1. Snapshot' = d_payload'[Other(fs')]
      BY <1>1, <2>2, <2>7 DEF Parts, Other, OldSnapshot, Good, Trusted, Snapshot
    <3> QED
      BY <1>1, <2>2, <2>4, <3>1, SnapshotOld
  <2>9. SnapshotInv'
    BY <1>1, <2>2, <2>3, <2>7, PowerPairKept
  <2> QED
    BY <1>1, <2>5, <2>8, <2>9, StoreStutter
<1>4. ~\E b \in Blocks : EvictInode(b)
  BY DEF EvictInode, NoHazard
<1> QED
  BY <1>2, <1>3, <1>4 DEF FileSystem

(* The device persists a cell of a partition that is overwritten: what A   *)
(* verifies with afterwards, it verified with before, or it is img.        *)
LEMMA PersistOverwritten ==
  ASSUME LifeInv, NEW p \in Parts, NEW img \in Image, Overwriting(p, img),
         PersistFooter(p) \/ \E b \in Blocks : PersistBlock(p, b)
  PROVE  /\ Mixed(payload[p], footer[p], d_payload'[p], d_footer'[p], img)
         /\ Trusted(p)' => d_payload'[p] = img \/ (Trusted(p) /\ d_payload'[p] = d_payload[p])
         /\ \A q \in Parts : q # p => d_payload'[q] = d_payload[q] /\ d_footer'[q] = d_footer[q]
PROOF
<1>1. /\ payload[p] \in Image /\ d_payload[p] \in Image
      /\ d_payload \in [Parts -> Image] /\ d_footer \in [Parts -> Digest]
  BY DEF LifeInv, TypeOK
<1>2. Mixed(payload[p], footer[p], d_payload[p], d_footer[p], img)
  BY DEF Overwriting
<1>3. CASE PersistFooter(p)
  <2>1. d_payload' = d_payload /\ d_footer' = [d_footer EXCEPT ![p] = footer[p]]
    BY <1>3 DEF PersistFooter
  <2>2. d_footer'[p] = footer[p] /\ \A q \in Parts : q # p => d_footer'[q] = d_footer[q]
    BY <1>1, <2>1
  <2>3. /\ Mixed(payload[p], footer[p], d_payload[p], footer[p], img)
        /\ footer[p] = d_payload[p] => d_payload[p] = img \/ d_footer[p] = d_payload[p]
    BY <1>2, MixedPersistFooter
  <2> QED
    BY <2>1, <2>2, <2>3 DEF Trusted
<1>4. ASSUME NEW b \in Blocks, PersistBlock(p, b)
      PROVE  /\ Mixed(payload[p], footer[p], d_payload'[p], d_footer'[p], img)
             /\ Trusted(p)' => d_payload'[p] = img \/ (Trusted(p) /\ d_payload'[p] = d_payload[p])
             /\ \A q \in Parts : q # p =>
                  d_payload'[q] = d_payload[q] /\ d_footer'[q] = d_footer[q]
  <2>1. d_footer' = d_footer /\ d_payload' = [d_payload EXCEPT ![p][b] = payload[p][b]]
    BY <1>4 DEF PersistBlock
  <2>2. /\ d_payload'[p] = [d_payload[p] EXCEPT ![b] = payload[p][b]]
        /\ \A q \in Parts : q # p => d_payload'[q] = d_payload[q]
    BY <1>1, <2>1
  <2>3. /\ Mixed(payload[p], footer[p], d_payload'[p], d_footer[p], img)
        /\ d_footer[p] = d_payload'[p] => d_payload'[p] = img \/ d_payload'[p] = d_payload[p]
    BY <1>1, <1>2, <2>2, MixedPersistBlock
  <2> QED
    BY <2>1, <2>2, <2>3 DEF Trusted
<1> QED
  BY <1>3, <1>4

(* The peer of a sealed partition changes: the next boot finds what it     *)
(* would have found, or the content that was sealed.                       *)
LEMMA SnapshotReplaced ==
  ASSUME fs \in Parts, d_payload'[fs] = cache, d_footer'[fs] = cache,
         d_footer'[Other(fs)] = d_payload'[Other(fs)] =>
           \/ d_payload'[Other(fs)] = cache
           \/ Trusted(Other(fs)) /\ d_payload'[Other(fs)] = d_payload[Other(fs)]
  PROVE  Snapshot' \in {Snapshot, cache}
PROOF
  BY DEF Parts, Other, Snapshot, Trusted

(* A device that persists a cell changes what the next boot finds only     *)
(* when that commits the sealed content.                                   *)
LEMMA DeviceRefines ==
  ASSUME NoHazard, LifeInv, SnapshotInv, Device
  PROVE  SnapshotInv' /\ (Store!Next \/ UNCHANGED Store!vars)
PROOF
<1>1. UNCHANGED <<payload, footer, fs, cache, write_blocked, apps, fsctl, p_pc>>
  BY DEF Device, PersistBlock, PersistFooter, kernel, users, power
<1>2. PICK p \in Parts : PersistFooter(p) \/ \E b \in Blocks : PersistBlock(p, b)
  BY DEF Device
<1>3. /\ d_payload \in [Parts -> Image] /\ payload \in [Parts -> Image] /\ cache \in Image
      /\ d_footer \in [Parts -> Digest] /\ cand \in Parts
  BY DEF LifeInv, TypeOK
<1>4. /\ ~Clean(p)
      /\ footer[p] = d_footer[p] => UNCHANGED d_footer /\ ~PersistFooter(p)
      /\ payload[p] = d_payload[p] => UNCHANGED d_payload /\ d_footer'[p] = footer[p]
  BY <1>2, <1>3 DEF Clean, PersistFooter, PersistBlock
<1>5. \A q \in Parts : q # p => d_payload'[q] = d_payload[q] /\ d_footer'[q] = d_footer[q]
  BY <1>2, <1>3 DEF PersistFooter, PersistBlock
<1>6. apps
  BY <1>4 DEF LifeInv, QuietBeforeApps
<1>7. CASE f_pc \in Repairing
  <2>1. Good(cand) /\ p # cand
    BY <1>4, <1>7 DEF LifeInv, RecoverySource, Good
  <2>2. d_payload'[cand] = d_payload[cand] /\ d_footer'[cand] = d_footer[cand]
    BY <1>3, <1>5, <2>1
  <2>3. ASSUME cand = "B"
        PROVE  /\ Overwriting("A", d_payload["B"])'
               /\ Trusted("A")' => d_payload'["A"] = d_payload'["B"]
    <3>1. /\ p = "A" /\ Overwriting("A", d_payload["B"])
          /\ Trusted("A") => d_payload["A"] = d_payload["B"]
      BY <1>7, <2>1, <2>3 DEF SnapshotInv, RecoveryPair, Parts
    <3>2. d_payload["B"] \in Image
      BY <1>3, <2>3
    <3>3. /\ Mixed(payload["A"], footer["A"], d_payload'["A"], d_footer'["A"], d_payload["B"])
          /\ Trusted("A")' => \/ d_payload'["A"] = d_payload["B"]
                              \/ Trusted("A") /\ d_payload'["A"] = d_payload["A"]
      BY <1>2, <3>1, <3>2, PersistOverwritten
    <3> QED
      BY <1>1, <2>2, <2>3, <3>1, <3>3 DEF Overwriting
  <2>4. RecoveryPair'
    BY <1>1, <2>3 DEF RecoveryPair, fsctl
  <2>5. CandidateInOrder' /\ QuietPair' /\ PowerPair'
    BY <1>1, <1>6, <1>7 DEF CandidateInOrder, QuietPair, PowerPair, Repairing, fsctl
  <2>6. Snapshot' = d_payload'[cand]
    <3>1. CASE cand = "A"
      BY <2>1, <2>2, <3>1 DEF Snapshot, Good, Trusted
    <3>2. CASE cand = "B"
      BY <2>3, <3>2 DEF Snapshot
    <3> QED
      BY <1>3, <3>1, <3>2 DEF Parts
  <2>7. Snapshot' = Snapshot
    BY <1>7, <2>2, <2>6, SnapshotRepairing
  <2> QED
    BY <1>1, <2>4, <2>5, <2>7, StoreStutter DEF SnapshotInv
<1>8. CASE f_pc \notin Repairing
  <2>1. /\ fs \in Parts /\ Other(fs) \in Parts /\ Other(fs) # fs /\ Parts = {fs, Other(fs)}
        /\ OldSnapshot \/ NewFooter \/ NewSnapshot
    BY <1>6, <1>8, SnapshotPhases, OtherPart
  <2>2. ASSUME OldSnapshot PROVE OldSnapshot' /\ Snapshot' = Snapshot
    <3>1. p = fs /\ UNCHANGED d_footer /\ d_payload'[Other(fs)] = d_payload[Other(fs)]
      BY <1>4, <1>5, <2>1, <2>2 DEF OldSnapshot, Good
    <3>2. OldSnapshot'
      BY <1>1, <2>2, <3>1 DEF OldSnapshot, Good, Clean, Trusted
    <3>3. Snapshot' = d_payload'[Other(fs)]
      BY <1>1, <2>1, <3>2 DEF Parts, Other, OldSnapshot, Good, Trusted, Snapshot
    <3> QED
      BY <2>1, <2>2, <3>1, <3>2, <3>3, SnapshotOld
  <2>3. ASSUME NewFooter PROVE NewFooter' /\ Snapshot' \in {Snapshot, cache}
    <3>1. /\ p = fs /\ UNCHANGED d_payload /\ d_footer'[fs] = footer[fs]
          /\ d_footer'[Other(fs)] = d_footer[Other(fs)]
      BY <1>4, <1>5, <2>1, <2>3 DEF NewFooter, Good
    <3>2. NewFooter'
      BY <1>1, <2>3, <3>1 DEF NewFooter, Good, Clean, Trusted
    <3>3. d_payload'[fs] = cache /\ d_footer'[fs] = cache
      BY <2>3, <3>1 DEF NewFooter
    <3>4. Trusted(Other(fs)) /\ d_payload'[Other(fs)] = d_payload[Other(fs)]
      BY <2>3, <3>1 DEF NewFooter, Good
    <3> QED
      BY <1>1, <2>1, <3>2, <3>3, <3>4, SnapshotReplaced
  <2>4. ASSUME NewSnapshot PROVE NewSnapshot' /\ Snapshot' \in {Snapshot, cache}
    <3>1. p = Other(fs) /\ d_payload'[fs] = d_payload[fs] /\ d_footer'[fs] = d_footer[fs]
      BY <1>4, <1>5, <2>1, <2>4 DEF NewSnapshot, Sealed, Good
    <3>2. Sealed(fs)' /\ d_payload'[fs] = cache /\ d_footer'[fs] = cache
      BY <1>1, <2>4, <3>1 DEF NewSnapshot, Sealed, Good, Clean, Trusted
    <3>3. /\ Mixed(payload[Other(fs)], footer[Other(fs)], d_payload'[Other(fs)],
                   d_footer'[Other(fs)], cache)
          /\ d_footer'[Other(fs)] = d_payload'[Other(fs)] =>
               \/ d_payload'[Other(fs)] = cache
               \/ Trusted(Other(fs)) /\ d_payload'[Other(fs)] = d_payload[Other(fs)]
      <4>1. Overwriting(p, cache)
        BY <2>4, <3>1 DEF NewSnapshot
      <4>2. /\ Mixed(payload[p], footer[p], d_payload'[p], d_footer'[p], cache)
            /\ Trusted(p)' => d_payload'[p] = cache \/ (Trusted(p) /\ d_payload'[p] = d_payload[p])
        BY <1>2, <1>3, <4>1, PersistOverwritten
      <4> QED
        BY <1>1, <3>1, <4>2 DEF Trusted
    <3>4. NewSnapshot'
      BY <1>1, <3>2, <3>3 DEF NewSnapshot, Overwriting
    <3> QED
      BY <1>1, <2>1, <3>2, <3>3, <3>4, SnapshotReplaced
  <2>5. SnapshotInv'
    BY <1>1, <1>6, <1>8, <2>2, <2>3, <2>4, PowerPairKept
  <2>6. Snapshot' \in {Snapshot, cache} /\ fs # "none"
    BY <2>1, <2>2, <2>3, <2>4 DEF Parts
  <2> QED
    BY <1>1, <2>5, <2>6, StoreCommit
<1> QED
  BY <1>7, <1>8

(* A request changes nothing that the next boot finds.                     *)
LEMMA RequestRefines ==
  ASSUME NoHazard, LifeInv, SnapshotInv, Request
  PROVE  SnapshotInv' /\ UNCHANGED Store!vars
PROOF
<1>1. /\ p_pc = "idle" /\ p_pc' = "wait" /\ UNCHANGED <<device, kernel, users, fsctl>>
  BY DEF Request, PowerRequest, FsctlUmount, PrepareAgain, NoHazard
<1>2. UNCHANGED <<fs, cache, write_blocked, apps, f_pc, cand>>
  BY <1>1 DEF kernel, users, fsctl
<1>3. CandidateInOrder' /\ QuietPair' /\ RecoveryPair' /\ PowerPair'
  BY <1>1, <1>2, PairFrame DEF SnapshotInv, CandidateInOrder, QuietPair, RecoveryPair,
     PowerPair, device
<1> QED
  BY <1>1, <1>2, <1>3, PairFrame DEF SnapshotInv

(* The prepare commits the content it has sealed, or nothing.              *)
LEMMA PrepareRefines ==
  ASSUME NoHazard, LifeInv, SnapshotInv, Prepare
  PROVE  SnapshotInv' /\ (Store!Next \/ UNCHANGED Store!vars)
PROOF
<1>1. UNCHANGED <<fs, cache, apps, f_pc, cand>>
  BY DEF Prepare, WaitMountRecovery, WaitFails, ResolveActivePeer, DisableWrite,
     DisableWriteDone, DisableWriteFails, SealHash, SealHashDone, WriteDescriptor,
     DescriptorFsync, PowerCopyOpen, PowerCopy, PowerCopyFsync, PrepareFails, kernel, users, fsctl
<1>2. CASE WaitMountRecovery \/ WaitFails
  <2>1. p_pc = "wait" /\ p_pc' \in {"resolve", "done_fail"} /\ UNCHANGED <<device, write_blocked>>
    BY <1>2 DEF WaitMountRecovery, WaitFails, kernel
  <2>2. CandidateInOrder' /\ QuietPair' /\ RecoveryPair' /\ PowerPair'
    BY <1>1, <2>1, PairFrame DEF SnapshotInv, CandidateInOrder, QuietPair, RecoveryPair,
       PowerPair, device
  <2> QED
    BY <1>1, <2>1, <2>2, PairFrame DEF SnapshotInv
<1>3. CASE p_pc \notin Idle
  <2>1. /\ f_pc = "exited" /\ apps /\ fs \in Parts /\ Other(fs) \in Parts /\ Other(fs) # fs
        /\ p_pc # "resolve" => active = fs
    BY <1>3, PowerAtWork
  <2>2. /\ payload \in [Parts -> Image] /\ d_payload \in [Parts -> Image] /\ cache \in Image
        /\ footer \in [Parts -> Digest] /\ d_footer \in [Parts -> Digest]
    BY DEF LifeInv, TypeOK
  <2>3. /\ p_pc \in {"resolve", "disable", "sync", "seal", "descriptor"} => OldSnapshot
        /\ p_pc = "desc_fsync" => NewFooter
        /\ p_pc \in {"copy_open", "copy", "copy_fsync"} => NewSnapshot
    BY <2>1 DEF SnapshotInv, PowerPair, Repairing
  <2>4. ASSUME PowerPair' PROVE SnapshotInv'
    BY <1>1, <2>1, <2>4 DEF SnapshotInv, CandidateInOrder, QuietPair, RecoveryPair, Repairing
  <2>5. ASSUME UNCHANGED <<device, write_blocked>>,
               \/ /\ p_pc \in {"resolve", "disable", "sync", "seal", "descriptor"}
                  /\ p_pc' \in {"disable", "sync", "seal", "descriptor"}
               \/ p_pc = "copy_open" /\ p_pc' = "copy"
               \/ /\ p_pc \in {"resolve", "disable", "sync", "seal", "descriptor", "desc_fsync",
                               "copy_open", "copy", "copy_fsync"}
                  /\ p_pc' = "done_fail"
        PROVE  SnapshotInv' /\ UNCHANGED Store!vars
    <3>1. PowerPair'
      BY <1>1, <2>3, <2>5, PairFrame DEF PowerPair
    <3> QED
      BY <1>1, <2>4, <2>5, <3>1, PairFrame
  <2>6. CASE ResolveActivePeer \/ SealHash \/ SealHashDone \/ PowerCopyOpen \/ PrepareFails
    BY <2>5, <2>6 DEF ResolveActivePeer, SealHash, SealHashDone, PowerCopyOpen, PrepareFails,
       kernel
  <2>7. CASE DisableWrite \/ DisableWriteFails
    <3>1. p_pc \in {"disable", "sync"} /\ p_pc' \in {"sync", "done_fail"} /\ UNCHANGED device
      BY <2>7 DEF DisableWrite, DisableWriteFails
    <3>2. OldSnapshot' /\ Snapshot' = Snapshot
      BY <1>1, <2>3, <3>1 DEF OldSnapshot, Good, Clean, Trusted, Snapshot, device
    <3> QED
      BY <1>1, <2>4, <3>1, <3>2, StoreStutter DEF PowerPair
  <2>8. CASE DisableWriteDone
    <3>1. p_pc = "sync" /\ p_pc' = "seal" /\ Flush(fs) /\ UNCHANGED <<payload, footer>>
      BY <2>8 DEF DisableWriteDone
    <3>2. /\ d_payload'[Other(fs)] = d_payload[Other(fs)]
          /\ d_footer'[Other(fs)] = d_footer[Other(fs)] /\ d_footer'[fs] = footer[fs]
      BY <2>1, <2>2, <3>1 DEF Flush
    <3>3. OldSnapshot'
      BY <1>1, <2>3, <3>1, <3>2 DEF OldSnapshot, Good, Clean, Trusted
    <3>4. Snapshot' = d_payload'[Other(fs)]
      BY <1>1, <2>1, <3>3 DEF Parts, Other, OldSnapshot, Good, Trusted, Snapshot
    <3>5. Snapshot' = Snapshot
      BY <2>1, <2>3, <3>1, <3>2, <3>4, SnapshotOld
    <3> QED
      BY <1>1, <2>4, <3>1, <3>3, <3>5, StoreStutter DEF PowerPair
  <2>9. CASE WriteDescriptor
    <3>1. /\ p_pc = "descriptor" /\ p_pc' = "desc_fsync"
          /\ footer' = [footer EXCEPT ![fs] = hbuf]
          /\ UNCHANGED <<payload, d_payload, d_footer, write_blocked>>
      BY <2>1, <2>9 DEF WriteDescriptor, kernel
    <3>2. /\ write_blocked /\ cache = payload[fs] /\ d_payload[fs] = cache /\ hbuf = cache
          /\ footer'[fs] = hbuf /\ footer'[Other(fs)] = footer[Other(fs)]
      BY <2>1, <2>2, <3>1 DEF LifeInv, SealProgress
    <3>3. NewFooter'
      BY <1>1, <2>3, <3>1, <3>2 DEF OldSnapshot, NewFooter, Good, Clean, Trusted
    <3>4. Snapshot' = Snapshot
      BY <3>1 DEF Snapshot, Trusted
    <3> QED
      BY <1>1, <2>4, <3>1, <3>3, <3>4, StoreStutter DEF PowerPair
  <2>10. CASE DescriptorFsync
    <3>1. /\ p_pc = "desc_fsync" /\ p_pc' = "copy_open" /\ Flush(fs)
          /\ UNCHANGED <<payload, footer, write_blocked>>
      BY <2>1, <2>10 DEF DescriptorFsync, kernel
    <3>2. /\ d_payload'[fs] = payload[fs] /\ d_footer'[fs] = footer[fs]
          /\ d_payload'[Other(fs)] = d_payload[Other(fs)]
          /\ d_footer'[Other(fs)] = d_footer[Other(fs)]
      BY <2>1, <2>2, <3>1 DEF Flush
    <3>3. Sealed(fs)' /\ d_payload'[fs] = cache /\ d_footer'[fs] = cache
      BY <1>1, <2>3, <3>1, <3>2 DEF NewFooter, Sealed, Good, Clean, Trusted
    <3>4. Overwriting(Other(fs), cache)'
      <4>1. /\ payload[Other(fs)] = d_payload[Other(fs)] /\ footer[Other(fs)] = d_footer[Other(fs)]
            /\ d_footer[Other(fs)] = d_payload[Other(fs)]
        BY <2>3, <3>1 DEF NewFooter, Good, Clean, Trusted
      <4>2. Mixed(d_payload[Other(fs)], d_payload[Other(fs)], d_payload[Other(fs)],
                  d_payload[Other(fs)], cache)
        BY MixedStart
      <4>3. Mixed(payload[Other(fs)], footer[Other(fs)], d_payload'[Other(fs)],
                  d_footer'[Other(fs)], cache)
        BY <3>2, <4>1, <4>2
      <4> QED
        BY <1>1, <2>3, <3>1, <4>3 DEF Overwriting
    <3>5. Trusted(Other(fs))
      BY <2>3, <3>1 DEF NewFooter, Good
    <3>6. Snapshot' \in {Snapshot, cache}
      BY <2>1, <3>2, <3>3, <3>5, SnapshotReplaced
    <3>7. PowerPair'
      BY <3>1, <3>3, <3>4 DEF PowerPair, NewSnapshot
    <3> QED
      BY <1>1, <2>1, <2>4, <3>6, <3>7, StoreCommit DEF Parts
  <2>11. CASE PowerCopy
    <3>1. /\ p_pc = "copy" /\ p_pc' \in {"copy", "copy_fsync"}
          /\ CopyCell(fs, Other(fs), p_pos) /\ p_pos \in 1 .. NBlocks + 1
          /\ UNCHANGED <<d_payload, d_footer, write_blocked>>
      BY <2>1, <2>11 DEF PowerCopy, CopyPc, kernel, LifeInv, TypeOK
    <3>2. Sealed(fs) /\ footer[fs] = payload[fs] /\ Overwriting(Other(fs), payload[fs])
      BY <2>3, <3>1 DEF NewSnapshot, Sealed, Good, Clean, Trusted
    <3>3. /\ payload'[fs] = payload[fs] /\ footer'[fs] = footer[fs]
          /\ Mixed(payload'[Other(fs)], footer'[Other(fs)], d_payload'[Other(fs)],
                   d_footer'[Other(fs)], payload[fs])
      BY <2>1, <2>2, <3>1, <3>2, CopyOverwrites
    <3>4. NewSnapshot'
      BY <1>1, <3>1, <3>2, <3>3 DEF NewSnapshot, Overwriting, Sealed, Good, Clean, Trusted
    <3>5. Snapshot' = Snapshot
      BY <3>1 DEF Snapshot, Trusted
    <3> QED
      BY <1>1, <2>4, <3>1, <3>4, <3>5, StoreStutter DEF PowerPair
  <2>12. CASE PowerCopyFsync
    <3>1. /\ p_pc = "copy_fsync" /\ p_pc' = "done_ok" /\ Flush(Other(fs))
          /\ UNCHANGED <<payload, footer, write_blocked>>
      BY <2>1, <2>12 DEF PowerCopyFsync, kernel
    <3>2. /\ d_payload'[fs] = d_payload[fs] /\ d_footer'[fs] = d_footer[fs]
          /\ d_payload'[Other(fs)] = payload[Other(fs)]
          /\ d_footer'[Other(fs)] = footer[Other(fs)]
      BY <2>1, <2>2, <3>1 DEF Flush
    <3>3. Sealed(fs)' /\ d_payload'[fs] = cache /\ d_footer'[fs] = cache
      BY <1>1, <2>3, <3>1, <3>2 DEF NewSnapshot, Sealed, Good, Clean, Trusted
    <3>4. payload[Other(fs)] = cache /\ footer[Other(fs)] = cache
      BY <2>3, <3>1 DEF LifeInv, PowerCopyProgress, NewSnapshot, Sealed, Good, Clean, Trusted
    <3>5. NewSnapshot'
      BY <1>1, <3>1, <3>2, <3>3, <3>4, MixedStart DEF NewSnapshot, Overwriting
    <3>6. Snapshot' \in {Snapshot, cache}
      BY <2>1, <3>2, <3>3, <3>4, SnapshotReplaced
    <3> QED
      BY <1>1, <2>1, <2>4, <3>1, <3>5, <3>6, StoreCommit DEF PowerPair, Parts
  <2> QED
    BY <1>2, <2>6, <2>7, <2>8, <2>9, <2>10, <2>11, <2>12 DEF Prepare
<1> QED
  BY <1>2, <1>3 DEF Prepare, Idle, ResolveActivePeer, DisableWrite, DisableWriteDone,
     DisableWriteFails, SealHash, SealHashDone, WriteDescriptor, DescriptorFsync, PowerCopyOpen,
     PowerCopy, PowerCopyFsync, PrepareFails

(* Power goes away: the next boot finds the snapshot, or the content at    *)
(* that moment.                                                            *)
LEMMA PowerGoneRefines ==
  ASSUME NoHazard, LifeInv, SnapshotInv, Crash \/ PowerOff
  PROVE  SnapshotInv' /\ (Store!Next \/ UNCHANGED Store!vars)
PROOF
<1>1. /\ ~apps' /\ f_pc' = "off" /\ fs' = "none"
      /\ payload' = d_payload' /\ footer' = d_footer'
  BY DEF Crash, PowerOff, VolatileReset
<1>2. /\ payload \in [Parts -> Image] /\ d_payload \in [Parts -> Image] /\ cache \in Image
      /\ cand \in Parts /\ fs \in Parts \cup {"none"}
  BY DEF LifeInv, TypeOK
<1> DEFINE Kept == \/ d_footer'["A"] = d_payload'["A"]
                   \/ Mixed(d_payload'["A"], d_footer'["A"], d_payload'["A"], d_footer'["A"],
                            d_payload'["B"])
<1>3. ASSUME Kept, Snapshot' \in {Snapshot, cache}, fs = "none" => Snapshot' = Snapshot
      PROVE  SnapshotInv' /\ (Store!Next \/ UNCHANGED Store!vars)
  <2>1. CandidateInOrder' /\ QuietPair' /\ RecoveryPair' /\ PowerPair'
    BY <1>1, <1>3 DEF CandidateInOrder, QuietPair, RecoveryPair, PowerPair, Repairing, Trusted,
       Overwriting
  <2> QED
    BY <1>1, <1>3, <2>1, StoreStop, StoreDown DEF SnapshotInv
<1>4. CASE UNCHANGED <<d_payload, d_footer>>
  <2>1. Snapshot' = Snapshot
    BY <1>4 DEF Snapshot, Trusted
  <2>2. ASSUME Overwriting("A", d_payload["B"]) PROVE Kept
    BY <1>4, <2>2, MixedCrash DEF Overwriting
  <2>3. CASE ~apps
    BY <1>3, <1>4, <2>1, <2>2, <2>3 DEF SnapshotInv, QuietPair, Trusted
  <2>4. CASE f_pc \in Repairing
    <3>1. Trusted("A") \/ Overwriting("A", d_payload["B"])
      BY <1>2, <2>4 DEF LifeInv, RecoverySource, Good, SnapshotInv, RecoveryPair, Parts
    <3> QED
      BY <1>3, <1>4, <2>1, <2>2, <3>1 DEF Trusted
  <2>5. CASE apps /\ f_pc \notin Repairing
    <3>1. fs \in Parts /\ (OldSnapshot \/ NewFooter \/ NewSnapshot)
      BY <2>5, SnapshotPhases
    <3>2. CASE OldSnapshot \/ NewFooter
      BY <1>3, <1>4, <2>1, <3>1, <3>2, MixedStart DEF OldSnapshot, NewFooter, Good, Trusted,
         Other, Parts
    <3>3. CASE NewSnapshot
      <4>1. Trusted("A") \/ Overwriting("A", d_payload["B"])
        BY <3>1, <3>3 DEF NewSnapshot, Sealed, Good, Clean, Other, Parts
      <4> QED
        BY <1>3, <1>4, <2>1, <2>2, <4>1 DEF Trusted
    <3> QED
      BY <3>1, <3>2, <3>3
  <2> QED
    BY <2>3, <2>4, <2>5
<1>5. CASE PowerOff
  <2>1. /\ d_payload' = [p \in Parts |-> IF p = fs THEN cache ELSE payload[p]]
        /\ d_footer' = footer /\ f_pc \notin Repairing
    BY <1>5 DEF PowerOff, NoHazard
  <2>2. CASE ~apps
    <3>1. /\ \A p \in Parts : payload[p] = d_payload[p] /\ footer[p] = d_footer[p]
          /\ fs # "none" => cache = payload[fs]
      BY <2>2 DEF LifeInv, QuietBeforeApps, Clean
    <3>2. \A p \in Parts : d_payload'[p] = d_payload[p] /\ d_footer'[p] = d_footer[p]
      BY <1>2, <2>1, <3>1 DEF Parts
    <3>3. UNCHANGED <<d_payload, d_footer>>
      BY <1>2, <2>1, <3>2 DEF LifeInv, TypeOK
    <3> QED
      BY <1>4, <3>3
  <2>3. CASE apps
    <3>1. /\ fs \in Parts /\ Other(fs) \in Parts /\ Other(fs) # fs
          /\ OldSnapshot \/ NewFooter \/ NewSnapshot
      BY <2>1, <2>3, SnapshotPhases
    <3>2. d_payload'[fs] = cache /\ d_payload'[Other(fs)] = payload[Other(fs)]
      BY <2>1, <3>1
    <3>3. CASE OldSnapshot
      <4>1. /\ d_footer'[fs] = d_payload'[Other(fs)]
            /\ d_payload'[Other(fs)] = d_payload[Other(fs)]
            /\ d_footer'[Other(fs)] = d_payload'[Other(fs)]
        BY <2>1, <3>2, <3>3 DEF OldSnapshot, Good, Clean, Trusted
      <4>2. Kept
        BY <3>1, <4>1, MixedStart DEF Other, Parts
      <4>3. Snapshot' = d_payload[Other(fs)]
        BY <3>1, <4>1 DEF Snapshot, Trusted, Other, Parts
      <4> QED
        BY <1>3, <3>1, <3>3, <4>2, <4>3, SnapshotOld
    <3>4. CASE NewFooter
      <4>1. /\ d_footer'[fs] = cache /\ Trusted(Other(fs))
            /\ d_payload'[Other(fs)] = d_payload[Other(fs)]
            /\ d_footer'[Other(fs)] = d_payload'[Other(fs)]
        BY <2>1, <3>2, <3>4 DEF NewFooter, Good, Clean, Trusted
      <4>2. Kept
        BY <3>1, <3>2, <4>1 DEF Other, Parts
      <4>3. Snapshot' \in {Snapshot, cache}
        BY <3>1, <3>2, <4>1, SnapshotReplaced
      <4> QED
        BY <1>3, <3>1, <4>2, <4>3 DEF Parts
    <3>5. CASE NewSnapshot
      <4>1. d_footer'[fs] = cache /\ d_footer'[Other(fs)] = footer[Other(fs)]
        BY <2>1, <3>5 DEF NewSnapshot, Sealed, Good, Clean, Trusted
      <4>2. Mixed(payload[Other(fs)], footer[Other(fs)], d_payload[Other(fs)],
                  d_footer[Other(fs)], cache)
        BY <3>5 DEF NewSnapshot, Overwriting
      <4>3. /\ Mixed(payload[Other(fs)], footer[Other(fs)], payload[Other(fs)],
                     footer[Other(fs)], cache)
            /\ footer[Other(fs)] = payload[Other(fs)] =>
                 \/ payload[Other(fs)] = cache
                 \/ payload[Other(fs)] = d_payload[Other(fs)] /\ Trusted(Other(fs))
        BY <1>2, <3>1, <4>2, MixedFlush DEF Trusted
      <4>4. Kept
        BY <3>1, <3>2, <4>1, <4>3 DEF Other, Parts
      <4>5. Snapshot' \in {Snapshot, cache}
        BY <3>1, <3>2, <4>1, <4>3, SnapshotReplaced
      <4> QED
        BY <1>3, <3>1, <4>4, <4>5 DEF Parts
    <3> QED
      BY <3>1, <3>3, <3>4, <3>5
  <2> QED
    BY <2>2, <2>3
<1> QED
  BY <1>4, <1>5 DEF Crash
-----------------------------------------------------------------------------
(* The deployed pair holds the initial snapshot.                           *)
LEMMA SnapshotInit == Init => SnapshotInv /\ Store!Init
PROOF
<1> SUFFICES ASSUME Init PROVE SnapshotInv /\ Store!Init
  OBVIOUS
<1>1. /\ f_pc = "off" /\ ~apps /\ fs = "none" /\ payload = d_payload /\ footer = d_footer
      /\ d_payload["A"] = Fresh /\ d_payload["B"] = Fresh
      /\ d_footer["A"] \in {Fresh, NoDigest}
  BY DEF Init, Parts
<1>2. Fresh \in Image
  BY SuperRaidAssumption DEF Fresh, Image, Version
<1>3. Store!Init
  BY <1>1, <1>2 DEF Store!Init, Snapshot
<1>4. Overwriting("A", d_payload["B"])
  BY <1>1 DEF Overwriting, Mixed
<1>5. SnapshotInv
  BY <1>1, <1>4 DEF SnapshotInv, CandidateInOrder, QuietPair, RecoveryPair, PowerPair, Repairing
<1> QED
  BY <1>3, <1>5

(* Every step of the pair is a step of the store, or changes nothing in it. *)
LEMMA SnapshotStep ==
  ASSUME NoHazard
  PROVE  LifeInv /\ SnapshotInv /\ [Next]_vars => SnapshotInv' /\ [Store!Next]_(Store!vars)
PROOF
<1> SUFFICES ASSUME LifeInv, SnapshotInv, [Next]_vars
             PROVE  SnapshotInv' /\ (Store!Next \/ UNCHANGED Store!vars)
  OBVIOUS
<1>1. LifeInv'
  BY LifeInvStep, NoHazardCalm
<1>2. CASE Next
  BY <1>1, <1>2, MountRefines, RecoveryRefines, FileSystemRefines, DeviceRefines,
     RequestRefines, PrepareRefines, PowerGoneRefines DEF Next
<1>3. CASE UNCHANGED vars
  <2>1. UNCHANGED <<device, fs, cache, write_blocked, apps, f_pc, cand, p_pc>>
    BY <1>3 DEF vars, kernel, users, fsctl, power
  <2>2. CandidateInOrder' /\ QuietPair' /\ RecoveryPair' /\ PowerPair'
    BY <2>1, PairFrame DEF SnapshotInv, CandidateInOrder, QuietPair, RecoveryPair, PowerPair,
       device
  <2> QED
    BY <2>1, <2>2, PairFrame DEF SnapshotInv
<1> QED
  BY <1>2, <1>3

(* The A/B life cycle (storage.c: mount_partition, recover_app_param,      *)
(* umount_partition) implements the atomic snapshot store: whatever moment *)
(* the power is lost at, and whichever cells the device had persisted, the *)
(* next boot mounts the last committed content or the one being committed. *)
THEOREM SnapshotIsAtomic ==
  ASSUME NoHazard
  PROVE  Spec => AtomicSnapshot
PROOF
<1>1. Init => LifeInv /\ SnapshotInv /\ Store!Init
  BY LifeInvInit, SnapshotInit
<1>2. LifeInv /\ SnapshotInv /\ [Next]_vars =>
        LifeInv' /\ SnapshotInv' /\ [Store!Next]_(Store!vars)
  BY LifeInvStep, SnapshotStep, NoHazardCalm
<1> QED
  BY <1>1, <1>2, PTL DEF Spec, AtomicSnapshot, Store!Spec
=============================================================================

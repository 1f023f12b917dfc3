-------------------------- MODULE HashRing_proofs --------------------------
(***************************************************************************)
(* Proofs about the ring of hash_sha256_fd, for every number of slots and  *)
(* every region length: RingInv is inductive, and the safety properties of *)
(* HashRing follow from it.                                                *)
(***************************************************************************)
EXTENDS HashRing, TLAPS

\* The provers that are tried, in turn, on a leaf that names none.
USE SMTT(10), ZenonT(20), SMTT(20), ZenonT(40), SMTT(40)

(* Two different chunks that are less than RING_SLOTS apart are in         *)
(* different slots (the "% RING_SLOTS" of both threads).                   *)
LEMMA SlotsDiffer ==
  ASSUME NEW a \in Nat, NEW b \in Nat, b < a, a - b < RING_SLOTS
  PROVE  a % RING_SLOTS # b % RING_SLOTS
PROOF
<1>1. RING_SLOTS \in Nat /\ RING_SLOTS > 0
  BY RingAssumption
<1>2. /\ a = RING_SLOTS * (a \div RING_SLOTS) + (a % RING_SLOTS)
      /\ b = RING_SLOTS * (b \div RING_SLOTS) + (b % RING_SLOTS)
      /\ a \div RING_SLOTS \in Int /\ b \div RING_SLOTS \in Int
      /\ a % RING_SLOTS \in Int /\ b % RING_SLOTS \in Int
  BY <1>1
<1>3. SUFFICES ASSUME a % RING_SLOTS = b % RING_SLOTS PROVE FALSE
  OBVIOUS
<1>4. PICK d \in Int : d = (a \div RING_SLOTS) - (b \div RING_SLOTS)
  BY <1>2
<1>5. RING_SLOTS * d = a - b
  BY <1>1, <1>2, <1>3, <1>4
<1>6. d <= 0 \/ d >= 1
  BY <1>4
<1>7. d <= 0 => RING_SLOTS * d <= 0
  BY <1>1
<1>8. d >= 1 => RING_SLOTS * d >= RING_SLOTS
  BY <1>1
<1> QED
  BY <1>1, <1>5, <1>6, <1>7, <1>8

(* A slot index is in the range of the slots array.                        *)
LEMMA SlotInRange ==
  ASSUME NEW a \in Nat
  PROVE  a % RING_SLOTS \in 0 .. RING_SLOTS - 1
PROOF
  BY RingAssumption

(* Filling one slot keeps the array an array of chunks.                    *)
LEMMA SlotFilled ==
  ASSUME NEW f \in [0 .. RING_SLOTS - 1 -> 0 .. len], NEW i \in 0 .. RING_SLOTS - 1,
         NEW v \in 0 .. len
  PROVE  /\ [f EXCEPT ![i] = v] \in [0 .. RING_SLOTS - 1 -> 0 .. len]
         /\ [f EXCEPT ![i] = v][i] = v
PROOF
  OBVIOUS

(* RingInv holds when hash_sha256_fd is entered.                           *)
LEMMA RingInvInit == Init => RingInv
PROOF
<1> SUFFICES ASSUME Init PROVE RingInv
  OBVIOUS
<1>1. len \in Nat
  BY RingAssumption DEF Init
<1>2. TypeOK
  <2>1. slots \in [0 .. RING_SLOTS - 1 -> 0 .. len]
    BY <1>1 DEF Init, Torn
  <2>2. hashed \in Seq(0 .. len)
    BY DEF Init
  <2>3. result \in {-1, 0}
    BY DEF Init
  <2>4. p_tail \in 0 .. len /\ head \in Nat /\ tail \in Nat /\ p_head \in Nat
    BY <1>1 DEF Init
  <2>5. p_pc \in PStates /\ c_pc \in CStates /\ m_pc \in MStates
    BY DEF Init, PStates, CStates, MStates
  <2> QED
    BY Zenon, ZenonT(60), <2>1, <2>2, <2>3, <2>4, <2>5 DEF Init, TypeOK
<1>3. HashedInOrder
  BY DEF Init, HashedInOrder, Prefix
<1>4. RingBounds /\ SlotsHold /\ HashedLength
  BY RingAssumption DEF Init, RingBounds, SlotsHold, HashedLength
<1>5. Joined /\ ProducerComplete /\ FaultSeen
  BY DEF Init, Joined, ProducerComplete, FaultSeen
<1> QED
  BY <1>2, <1>3, <1>4, <1>5 DEF RingInv

(* The steps of the caller preserve RingInv.                               *)
LEMMA CallerStep ==
  ASSUME RingInv, Caller
  PROVE  RingInv'
PROOF
<1> USE RingAssumption
    DEF RingInv, RingBounds, SlotsHold, HashedLength, HashedInOrder, Prefix, Joined,
        ProducerComplete, FaultSeen, ring, producer, consumer, caller
<1>1. CASE HashEmpty
  BY <1>1 DEF HashEmpty, TypeOK, PStates, CStates, MStates
<1>2. CASE AllocateFails
  BY <1>2 DEF AllocateFails, TypeOK, PStates, CStates, MStates
<1>3. CASE CreateConsumer
  BY <1>3 DEF CreateConsumer, TypeOK, PStates, CStates, MStates
<1>4. CASE CreateConsumerFails
  BY <1>4 DEF CreateConsumerFails, TypeOK, PStates, CStates, MStates
<1>5. CASE CreateProducer
  BY <1>5 DEF CreateProducer, TypeOK, PStates, CStates, MStates
<1>6. CASE CreateProducerFails
  BY <1>6 DEF CreateProducerFails, TypeOK, PStates, CStates, MStates
<1>7. CASE JoinProducer
  BY <1>7 DEF JoinProducer, TypeOK, PStates, CStates, MStates
<1>8. CASE JoinConsumer
  BY <1>8 DEF JoinConsumer, TypeOK, PStates, CStates, MStates
<1>9. CASE Collect
  BY <1>9 DEF Collect, TypeOK, PStates, CStates, MStates
<1> QED
  BY <1>1, <1>2, <1>3, <1>4, <1>5, <1>6, <1>7, <1>8, <1>9 DEF Caller

(* The steps of the producer thread preserve RingInv.                       *)
LEMMA ProducerStep ==
  ASSUME RingInv, Producer
  PROVE  RingInv'
PROOF
<1> USE RingAssumption
    DEF RingInv, RingBounds, SlotsHold, HashedLength, HashedInOrder, Prefix, Joined,
        ProducerComplete, FaultSeen, ring, producer, consumer, caller
<1>1. CASE ProducerLoop
  BY <1>1 DEF ProducerLoop, TypeOK, PStates, CStates, MStates
<1>2. CASE ProducerLoadHead
  BY <1>2 DEF ProducerLoadHead, TypeOK, PStates, CStates, MStates
<1>3. CASE ProducerCheckError
  BY <1>3 DEF ProducerCheckError, TypeOK, PStates, CStates, MStates
<1>4. CASE ProducerBeginRead
  <2>1. ASSUME NEW k \in head .. tail - 1
        PROVE  slots'[k % RING_SLOTS] = k + 1
    <3>1. k \in Nat /\ tail \in Nat /\ k < tail /\ tail - k < RING_SLOTS
      BY <1>4, <2>1 DEF ProducerBeginRead, TypeOK
    <3>2. k % RING_SLOTS # tail % RING_SLOTS
      BY Zenon, ZenonT(60), <3>1, SlotsDiffer
    <3> QED
      BY Zenon, ZenonT(60), <1>4, <3>1, <3>2, SlotInRange DEF ProducerBeginRead, TypeOK
  <2>2. slots' \in [0 .. RING_SLOTS - 1 -> 0 .. len]
    <3>0. p_tail \in Nat /\ Torn \in 0 .. len
      BY DEF TypeOK, Torn
    <3>1. p_tail % RING_SLOTS \in 0 .. RING_SLOTS - 1
      BY <3>0, SlotInRange
    <3>2. slots' = [slots EXCEPT ![p_tail % RING_SLOTS] = Torn]
      BY <1>4 DEF ProducerBeginRead
    <3>3. slots \in [0 .. RING_SLOTS - 1 -> 0 .. len]
      BY DEF TypeOK
    <3> QED
      BY <3>0, <3>1, <3>2, <3>3, SlotFilled
  <2>3. TypeOK'
    BY <1>4, <2>2 DEF ProducerBeginRead, TypeOK, PStates, CStates, MStates
  <2> QED
    BY <1>4, <2>1, <2>3 DEF ProducerBeginRead, TypeOK
<1>5. CASE ProducerEndRead
  <2>1. ASSUME NEW k \in head .. tail - 1
        PROVE  slots'[k % RING_SLOTS] = k + 1
    <3>1. k \in Nat /\ tail \in Nat /\ k < tail /\ tail - k < RING_SLOTS
      BY <1>5, <2>1 DEF ProducerEndRead, TypeOK
    <3>2. k % RING_SLOTS # tail % RING_SLOTS
      BY Zenon, ZenonT(60), <3>1, SlotsDiffer
    <3> QED
      BY Zenon, ZenonT(60), <1>5, <3>1, <3>2, SlotInRange DEF ProducerEndRead, TypeOK
  <2>2. slots' \in [0 .. RING_SLOTS - 1 -> 0 .. len] /\ slots'[tail % RING_SLOTS] = tail + 1
    <3>0. p_tail \in Nat /\ p_tail + 1 \in 0 .. len /\ p_tail = tail
      BY <1>5 DEF ProducerEndRead, TypeOK
    <3>1. p_tail % RING_SLOTS \in 0 .. RING_SLOTS - 1
      BY <3>0, SlotInRange
    <3>2. slots' = [slots EXCEPT ![p_tail % RING_SLOTS] = p_tail + 1]
      BY <1>5 DEF ProducerEndRead
    <3>3. slots \in [0 .. RING_SLOTS - 1 -> 0 .. len]
      BY DEF TypeOK
    <3> QED
      BY <3>0, <3>1, <3>2, <3>3, SlotFilled
  <2>3. TypeOK'
    BY <1>5, <2>2 DEF ProducerEndRead, TypeOK, PStates, CStates, MStates
  <2>4. SlotsHold'
    BY <1>5, <2>1, <2>2 DEF ProducerEndRead, TypeOK
  <2> QED
    BY <1>5, <2>3, <2>4 DEF ProducerEndRead, TypeOK
<1>6. CASE ProducerReadFails
  BY <1>6 DEF ProducerReadFails, TypeOK, PStates, CStates, MStates
<1>7. CASE ProducerPublish
  <2>1. TypeOK' /\ RingBounds'
    BY <1>7 DEF ProducerPublish, TypeOK, PStates, CStates, MStates
  <2>2. ASSUME NEW k \in head' .. tail' - 1
        PROVE  slots'[k % RING_SLOTS] = k + 1
    <3>1. CASE k = tail
      BY <1>7, <3>1 DEF ProducerPublish, TypeOK
    <3>2. CASE k # tail
      <4>1. k \in head .. tail - 1
        BY <1>7, <2>2, <3>2 DEF ProducerPublish, TypeOK
      <4> QED
        BY <1>7, <4>1 DEF ProducerPublish
    <3> QED
      BY <3>1, <3>2
  <2> QED
    BY <1>7, <2>1, <2>2 DEF ProducerPublish, TypeOK
<1>8. CASE ProducerDone
  BY <1>8 DEF ProducerDone, TypeOK, PStates, CStates, MStates
<1> QED
  BY <1>1, <1>2, <1>3, <1>4, <1>5, <1>6, <1>7, <1>8 DEF Producer

(* The steps of the consumer thread preserve RingInv.                       *)
LEMMA ConsumerStep ==
  ASSUME RingInv, Consumer
  PROVE  RingInv'
PROOF
<1> USE RingAssumption
    DEF RingInv, RingBounds, SlotsHold, HashedLength, HashedInOrder, Prefix, Joined,
        ProducerComplete, FaultSeen, ring, producer, consumer, caller
<1>1. CASE ConsumerInit
  BY <1>1 DEF ConsumerInit, TypeOK, PStates, CStates, MStates
<1>2. CASE ConsumerInitFails
  BY <1>2 DEF ConsumerInitFails, TypeOK, PStates, CStates, MStates
<1>3. CASE ConsumerLoadTail
  BY <1>3 DEF ConsumerLoadTail, TypeOK, PStates, CStates, MStates
<1>4. CASE ConsumerCheckDone
  BY <1>4 DEF ConsumerCheckDone, TypeOK, PStates, CStates, MStates
<1>5. CASE ConsumerUpdate
  <2>1. /\ slots[c_head % RING_SLOTS] = c_head + 1
        /\ slots[c_head % RING_SLOTS] \in 0 .. len
    <3>1. c_head \in head .. tail - 1
      BY <1>5 DEF ConsumerUpdate, TypeOK
    <3> QED
      BY Zenon, ZenonT(60), <3>1, SlotInRange DEF TypeOK
  <2>2. hashed' = Append(hashed, c_head + 1) /\ Len(hashed) = c_head
    BY <1>5, <2>1 DEF ConsumerUpdate, TypeOK
  <2>3. hashed' \in Seq(0 .. len) /\ Len(hashed') = c_head + 1
    BY <2>1, <2>2 DEF TypeOK
  <2>4. hashed' = Prefix(c_head + 1)
    <3>1. DOMAIN hashed' = 1 .. c_head + 1
      BY <2>3 DEF TypeOK
    <3>2. ASSUME NEW i \in 1 .. c_head + 1 PROVE hashed'[i] = i
      BY <2>2, <3>2 DEF TypeOK
    <3>3. hashed' = [i \in 1 .. c_head + 1 |-> hashed'[i]]
      BY <2>3 DEF TypeOK
    <3> QED
      BY <3>2, <3>3
  <2>5. TypeOK' /\ HashedLength' /\ HashedInOrder'
    BY <1>5, <2>3, <2>4 DEF ConsumerUpdate, TypeOK, CStates
  <2> QED
    BY <1>5, <2>5 DEF ConsumerUpdate, TypeOK
<1>6. CASE ConsumerUpdateFails
  BY <1>6 DEF ConsumerUpdateFails, TypeOK, PStates, CStates, MStates
<1>7. CASE ConsumerFailDone
  BY <1>7 DEF ConsumerFailDone, TypeOK, PStates, CStates, MStates
<1>8. CASE ConsumerAdvance
  <2>1. TypeOK' /\ RingBounds'
    BY <1>8 DEF ConsumerAdvance, TypeOK, CStates
  <2>2. SlotsHold'
    <3>1. \A k \in head' .. tail' - 1 : k \in head .. tail - 1
      BY <1>8 DEF ConsumerAdvance, TypeOK
    <3> QED
      BY <1>8, <3>1 DEF ConsumerAdvance
  <2>3. HashedLength'
    BY <1>8 DEF ConsumerAdvance, TypeOK
  <2> QED
    BY <1>8, <2>1, <2>2, <2>3 DEF ConsumerAdvance
<1>9. CASE ConsumerFinish
  BY <1>9 DEF ConsumerFinish, TypeOK, PStates, CStates, MStates
<1>10. CASE ConsumerFinalFails
  BY <1>10 DEF ConsumerFinalFails, TypeOK, PStates, CStates, MStates
<1> QED
  BY ZenonT(30), ZenonT(60), <1>1, <1>2, <1>3, <1>4, <1>5, <1>6, <1>7, <1>8, <1>9, <1>10 DEF Consumer

(* RingInv is preserved by every step, the stuttering ones included.       *)
LEMMA RingInvStep == RingInv /\ [Next]_vars => RingInv'
PROOF
<1> SUFFICES ASSUME RingInv, [Next]_vars PROVE RingInv'
  OBVIOUS
<1>1. CASE Caller
  BY <1>1, CallerStep
<1>2. CASE Producer
  BY <1>2, ProducerStep
<1>3. CASE Consumer
  BY <1>3, ConsumerStep
<1>4. CASE UNCHANGED vars
  BY <1>4
  DEF vars, ring, producer, consumer, caller, RingInv, TypeOK, RingBounds, SlotsHold,
      HashedLength, HashedInOrder, Prefix, Joined, ProducerComplete, FaultSeen
<1> QED
  BY <1>1, <1>2, <1>3, <1>4 DEF Next, Returned

(* RingInv is an invariant of hash_sha256_fd and its threads.              *)
THEOREM RingInvariant == Spec => []RingInv
PROOF
  BY RingInvInit, RingInvStep, PTL DEF Spec

(* The variables keep their types; in particular no thread reads or writes *)
(* past the slots of the ring or the chunks of the region.                 *)
THEOREM TypeCorrect == Spec => []TypeOK
PROOF
<1>1. RingInv => TypeOK
  BY DEF RingInv
<1> QED
  BY <1>1, RingInvariant, PTL

(* The consumer hashes the chunks in order, each once and complete, for    *)
(* every ring size and region length.                                      *)
THEOREM InOrder == Spec => []HashedInOrder
PROOF
<1>1. RingInv => HashedInOrder
  BY DEF RingInv
<1> QED
  BY <1>1, RingInvariant, PTL

(* No failure of any of the three threads is lost on the way to the        *)
(* caller's return value.                                                  *)
THEOREM NoErrorLost == Spec => []ErrorsReported
PROOF
<1>1. RingInv => ErrorsReported
  BY DEF RingInv, TypeOK, FaultSeen, ErrorsReported
<1> QED
  BY <1>1, RingInvariant, PTL

(* A successful digest misses at most RING_SLOTS chunks, the most that can *)
(* be published between the consumer's loads of tail and of done.          *)
THEOREM TailBounded == Spec => []MissingTailBounded
PROOF
<1>1. RingInv => MissingTailBounded
  <2> SUFFICES ASSUME RingInv, m_pc = "returned", result = 0
               PROVE  len - Len(hashed) <= RING_SLOTS
    BY DEF MissingTailBounded
  <2>1. len \in Nat /\ c_head \in Nat /\ tail \in Nat /\ RING_SLOTS \in Nat
    BY RingAssumption DEF RingInv, TypeOK
  <2>2. Len(hashed) = c_head
    BY <2>1 DEF RingInv, HashedLength, Joined
  <2>3. ~error /\ p_pc \in {"none", "exit"}
    BY DEF RingInv, FaultSeen, Joined
  <2>4. CASE p_pc = "exit"
    BY <2>1, <2>2, <2>3, <2>4 DEF RingInv, ProducerComplete, RingBounds
  <2>5. CASE p_pc = "none"
    BY <2>1, <2>2, <2>3, <2>5, RingAssumption DEF RingInv, ProducerComplete
  <2> QED
    BY <2>3, <2>4, <2>5
<1> QED
  BY <1>1, RingInvariant, PTL
=============================================================================

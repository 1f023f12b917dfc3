------------------------------ MODULE HashRing ------------------------------
(***************************************************************************)
(* hash_sha256_fd (hash.c): SHA-256 of the protected region of a partition *)
(* computed by two threads that share a ring of RING_SLOTS buffers.  The   *)
(* producer preads chunk after chunk into the slots, the consumer feeds    *)
(* the slots to EVP_DigestUpdate, and the caller joins both.               *)
(*                                                                         *)
(* A chunk is its index 1 .. len; the digest of a region is the            *)
(* sequence of chunks fed to it.  Every atomic load and store of the ring  *)
(* is a step of its own, and a pread is two steps, because the slot holds  *)
(* neither its old nor its new content while the pread runs.               *)
(***************************************************************************)
EXTENDS Naturals, Integers, Sequences

CONSTANTS
  RING_SLOTS,    \* number of buffers in the ring (8 in the code)
  Lengths        \* the region lengths, in chunks, that a call may be given

ASSUME RingAssumption ==
  /\ RING_SLOTS \in Nat \ {0}
  /\ Lengths \subseteq Nat

Torn == 0        \* content of a slot that never held, or is receiving, data

VARIABLES
  head, tail, done, error,   \* the atomics of struct ring
  slots,                     \* slots[i].data
  p_pc, p_tail, p_head,      \* producer thread: its local tail, the head it loaded
  c_pc, c_head, c_tail,      \* consumer thread: its local head, the tail it loaded
  hashed, c_error,           \* the digest context and consumer_args.error
  len, m_pc, result,         \* hash_sha256_fd: its argument and return value
  faulted                    \* history: some call of the three failed

ring == <<head, tail, done, error, slots>>
producer == <<p_pc, p_tail, p_head>>
consumer == <<c_pc, c_head, c_tail, hashed, c_error>>
caller == <<len, m_pc, result>>
vars == <<ring, producer, consumer, caller, faulted>>

PStates == {"none", "loop", "loadHead", "checkError", "read", "endRead",
            "publish", "failDone", "setDone", "exit"}
CStates == {"none", "init", "initFailed", "loadTail", "checkDone", "update", "advance",
            "failDone", "finish", "exit"}
MStates == {"start", "createProducer", "joinProducer", "joinConsumer",
            "collect", "returned"}

Init ==
  /\ head = 0 /\ tail = 0 /\ done = FALSE /\ error = FALSE
  /\ slots = [i \in 0 .. RING_SLOTS - 1 |-> Torn]
  /\ p_pc = "none" /\ p_tail = 0 /\ p_head = 0
  /\ c_pc = "none" /\ c_head = 0 /\ c_tail = 0 /\ hashed = << >> /\ c_error = FALSE
  /\ len \in Lengths /\ m_pc = "start" /\ result = -1
  /\ faulted = FALSE
-----------------------------------------------------------------------------
(* The caller: hash_sha256_fd.                                             *)

\* An empty region is hashed in memory, without threads.
HashEmpty ==
  /\ m_pc = "start" /\ len = 0
  /\ m_pc' = "returned"
  /\ \/ result' = 0 /\ UNCHANGED faulted
     \/ result' = -1 /\ faulted' = TRUE
  /\ UNCHANGED <<len, ring, producer, consumer>>

AllocateFails ==
  /\ m_pc = "start" /\ len > 0
  /\ m_pc' = "returned" /\ result' = -1 /\ faulted' = TRUE
  /\ UNCHANGED <<len, ring, producer, consumer>>

CreateConsumer ==
  /\ m_pc = "start" /\ len > 0
  /\ m_pc' = "createProducer" /\ c_pc' = "init"
  /\ UNCHANGED <<len, ring, producer, c_head, c_tail, hashed, c_error, result, faulted>>

\* Without a consumer the producer is not created either.
CreateConsumerFails ==
  /\ m_pc = "start" /\ len > 0
  /\ m_pc' = "collect" /\ error' = TRUE /\ done' = TRUE /\ faulted' = TRUE
  /\ UNCHANGED <<len, head, tail, slots, producer, consumer, result>>

CreateProducer ==
  /\ m_pc = "createProducer"
  /\ m_pc' = "joinProducer" /\ p_pc' = "loop"
  /\ UNCHANGED <<len, ring, p_tail, p_head, consumer, result, faulted>>

\* The two flags release a consumer that already waits.
CreateProducerFails ==
  /\ m_pc = "createProducer"
  /\ m_pc' = "joinConsumer" /\ error' = TRUE /\ done' = TRUE /\ faulted' = TRUE
  /\ UNCHANGED <<len, head, tail, slots, producer, consumer, result>>

JoinProducer ==
  /\ m_pc = "joinProducer" /\ p_pc = "exit"
  /\ m_pc' = "joinConsumer"
  /\ UNCHANGED <<len, ring, producer, consumer, result, faulted>>

JoinConsumer ==
  /\ m_pc = "joinConsumer" /\ c_pc \in {"exit", "initFailed"}
  /\ m_pc' = "collect"
  /\ UNCHANGED <<len, ring, producer, consumer, result, faulted>>

CollectDropsConsumerError ==
  /\ m_pc = "collect"
  /\ m_pc' = "returned" /\ result' = IF error THEN -1 ELSE 0
  /\ UNCHANGED <<len, ring, producer, consumer, faulted>>

Collect ==
  /\ m_pc = "collect"
  /\ m_pc' = "returned" /\ result' = IF error \/ c_error THEN -1 ELSE 0
  /\ UNCHANGED <<len, ring, producer, consumer, faulted>>
-----------------------------------------------------------------------------
(* producer_thread.                                                        *)

ProducerLoop ==
  /\ p_pc = "loop"
  /\ p_pc' = IF p_tail < len THEN "loadHead" ELSE "setDone"
  /\ UNCHANGED <<ring, p_tail, p_head, consumer, caller, faulted>>

ProducerLoadHead ==
  /\ p_pc = "loadHead"
  /\ p_head' = head /\ p_pc' = "checkError"
  /\ UNCHANGED <<ring, p_tail, consumer, caller, faulted>>

ProducerCheckErrorOffByOne ==
  /\ p_pc = "checkError"
  /\ p_pc' = CASE error                         -> "exit"
               [] ~error /\ p_tail - p_head <= RING_SLOTS -> "read"
               [] OTHER                         -> "loadHead"
  /\ UNCHANGED <<ring, p_tail, p_head, consumer, caller, faulted>>

ProducerStopsWhenFull ==
  /\ p_pc = "checkError"
  /\ p_pc' = CASE error                         -> "exit"
               [] ~error /\ p_tail - p_head < RING_SLOTS -> "read"
               [] OTHER                         -> "setDone"
  /\ UNCHANGED <<ring, p_tail, p_head, consumer, caller, faulted>>

\* An error ends the thread, a free slot ends the wait, a full ring spins.
ProducerCheckError ==
  /\ p_pc = "checkError"
  /\ p_pc' = CASE error                         -> "exit"
               [] ~error /\ p_tail - p_head < RING_SLOTS -> "read"
               [] OTHER                         -> "loadHead"
  /\ UNCHANGED <<ring, p_tail, p_head, consumer, caller, faulted>>

ProducerBeginRead ==
  /\ p_pc = "read"
  /\ slots' = [slots EXCEPT ![p_tail % RING_SLOTS] = Torn]
  /\ p_pc' = "endRead"
  /\ UNCHANGED <<head, tail, done, error, p_tail, p_head, consumer, caller, faulted>>

ProducerEndRead ==
  /\ p_pc = "endRead"
  /\ slots' = [slots EXCEPT ![p_tail % RING_SLOTS] = p_tail + 1]
  /\ p_pc' = "publish"
  /\ UNCHANGED <<head, tail, done, error, p_tail, p_head, consumer, caller, faulted>>

\* A short or failed pread: the error flag, then the done flag.
ProducerReadFails ==
  /\ p_pc = "endRead"
  /\ error' = TRUE /\ faulted' = TRUE
  /\ p_pc' = "failDone"
  /\ UNCHANGED <<head, tail, done, slots, p_tail, p_head, consumer, caller>>

ProducerPublish ==
  /\ p_pc = "publish"
  /\ tail' = p_tail + 1 /\ p_tail' = p_tail + 1
  /\ p_pc' = "loop"
  /\ UNCHANGED <<head, done, error, slots, p_head, consumer, caller, faulted>>

ProducerDone ==
  /\ p_pc \in {"setDone", "failDone"}
  /\ done' = TRUE
  /\ p_pc' = "exit"
  /\ UNCHANGED <<head, tail, error, slots, p_tail, p_head, consumer, caller, faulted>>

Producer ==
  \/ ProducerLoop \/ ProducerLoadHead \/ ProducerCheckError \/ ProducerBeginRead
  \/ ProducerEndRead \/ ProducerReadFails \/ ProducerPublish \/ ProducerDone
-----------------------------------------------------------------------------
(* consumer_thread.                                                        *)

ConsumerInit ==
  /\ c_pc = "init"
  /\ c_pc' = "loadTail"
  /\ UNCHANGED <<ring, producer, c_head, c_tail, hashed, c_error, caller, faulted>>

\* The early return of a failed EVP_DigestInit_ex sets no flag of the ring.
ConsumerInitFails ==
  /\ c_pc = "init"
  /\ c_pc' = "initFailed" /\ c_error' = TRUE /\ faulted' = TRUE
  /\ UNCHANGED <<ring, producer, c_head, c_tail, hashed, caller>>

ConsumerLoadTail ==
  /\ c_pc = "loadTail"
  /\ c_tail' = tail
  /\ c_pc' = IF c_head < tail THEN "update" ELSE "checkDone"
  /\ UNCHANGED <<ring, producer, c_head, hashed, c_error, caller, faulted>>

ConsumerNeverDone ==
  /\ c_pc = "checkDone"
  /\ c_pc' = "loadTail"
  /\ UNCHANGED <<ring, producer, c_head, c_tail, hashed, c_error, caller, faulted>>

\* done is loaded now, the tail it is compared with was loaded before.
ConsumerCheckDone ==
  /\ c_pc = "checkDone"
  /\ c_pc' = IF done /\ c_head >= c_tail THEN "finish" ELSE "loadTail"
  /\ UNCHANGED <<ring, producer, c_head, c_tail, hashed, c_error, caller, faulted>>

ConsumerUpdate ==
  /\ c_pc = "update"
  /\ hashed' = Append(hashed, slots[c_head % RING_SLOTS])
  /\ c_pc' = "advance"
  /\ UNCHANGED <<ring, producer, c_head, c_tail, c_error, caller, faulted>>

ConsumerUpdateFails ==
  /\ c_pc = "update"
  /\ c_error' = TRUE /\ error' = TRUE /\ faulted' = TRUE
  /\ c_pc' = "failDone"
  /\ UNCHANGED <<head, tail, done, slots, producer, c_head, c_tail, hashed, caller>>

ConsumerFailDone ==
  /\ c_pc = "failDone"
  /\ done' = TRUE
  /\ c_pc' = "exit"
  /\ UNCHANGED <<head, tail, error, slots, producer, c_head, c_tail, hashed, c_error,
                 caller, faulted>>

ConsumerAdvance ==
  /\ c_pc = "advance"
  /\ c_head' = c_head + 1 /\ head' = c_head + 1
  /\ c_pc' = "loadTail"
  /\ UNCHANGED <<tail, done, error, slots, producer, c_tail, hashed, c_error, caller, faulted>>

ConsumerFinish ==
  /\ c_pc = "finish"
  /\ c_pc' = "exit"
  /\ UNCHANGED <<ring, producer, c_head, c_tail, hashed, c_error, caller, faulted>>

\* EVP_DigestFinal_ex is called, and can fail, only when no error was raised.
ConsumerFinalFails ==
  /\ c_pc = "finish" /\ ~error
  /\ c_pc' = "exit" /\ c_error' = TRUE /\ faulted' = TRUE
  /\ UNCHANGED <<ring, producer, c_head, c_tail, hashed, caller>>

Consumer ==
  \/ ConsumerInit \/ ConsumerInitFails \/ ConsumerLoadTail \/ ConsumerCheckDone
  \/ ConsumerUpdate \/ ConsumerUpdateFails \/ ConsumerFailDone \/ ConsumerAdvance
  \/ ConsumerFinish \/ ConsumerFinalFails
-----------------------------------------------------------------------------
Caller ==
  \/ HashEmpty \/ AllocateFails \/ CreateConsumer \/ CreateConsumerFails
  \/ CreateProducer \/ CreateProducerFails \/ JoinProducer \/ JoinConsumer \/ Collect

\* The call is over; the threads are gone.
Returned ==
  m_pc = "returned" /\ UNCHANGED vars

Next == Caller \/ Producer \/ Consumer \/ Returned

Spec == Init /\ [][Next]_vars

\* Every thread is scheduled again and again: the spin loops call sched_yield.
Fairness == WF_vars(Caller) /\ WF_vars(Producer) /\ WF_vars(Consumer)

FairSpec == Spec /\ Fairness
-----------------------------------------------------------------------------
(* The variables of the three threads and of struct ring have their types. *)
TypeOK ==
  /\ head \in Nat /\ tail \in Nat /\ done \in BOOLEAN /\ error \in BOOLEAN
  /\ slots \in [0 .. RING_SLOTS - 1 -> 0 .. len]
  /\ p_pc \in PStates /\ p_tail \in 0 .. len /\ p_head \in Nat
  /\ c_pc \in CStates /\ c_head \in Nat /\ c_tail \in Nat
  /\ hashed \in Seq(0 .. len) /\ c_error \in BOOLEAN
  /\ len \in Lengths /\ m_pc \in MStates /\ result \in {-1, 0} /\ faulted \in BOOLEAN

\* The region's chunks, in the order in which a digest must take them.
Prefix(n) == [i \in 1 .. n |-> i]

(* What the consumer has hashed is the chunks 1, 2, ... in order: no slot  *)
(* is hashed while the producer refills it, twice, or before it is full    *)
(* (hash.c: the head/tail protocol of producer_thread and consumer_thread).*)
HashedInOrder == hashed = Prefix(Len(hashed))

(* Every failure - of an allocation, a thread creation, a pread or an EVP  *)
(* call, in whichever thread - makes hash_sha256_fd return -1.             *)
ErrorsReported == m_pc = "returned" /\ faulted => result = -1

(* A digest that is returned with success lacks at most the last           *)
(* RING_SLOTS chunks: those published after the consumer loaded tail and   *)
(* before it loaded done.                                                  *)
MissingTailBounded ==
  m_pc = "returned" /\ result = 0 => len - Len(hashed) <= RING_SLOTS

(* hash_sha256_fd returns, unless the consumer's EVP_DigestInit_ex fails.  *)
ReturnsUnlessInitFails == <>(m_pc = "returned" \/ c_pc = "initFailed")

(* A digest that is returned with success covers the whole region, as the  *)
(* README defines the payload hash ([0, partition_size - sizeof(footer))). *)
DigestComplete == m_pc = "returned" /\ result = 0 => hashed = Prefix(len)
-----------------------------------------------------------------------------
(* The invariant behind the properties: how far the two threads may be     *)
(* apart, which slots hold which chunk, and who is still running.          *)

\* At most RING_SLOTS chunks are published and not yet consumed.
RingBounds ==
  /\ tail = p_tail /\ head = c_head
  /\ p_head <= head /\ c_tail <= tail /\ head <= tail /\ tail <= head + RING_SLOTS
  /\ p_pc \in {"read", "endRead", "publish"} => tail - p_head < RING_SLOTS /\ tail < len
  /\ p_pc \in {"loadHead", "checkError"} => tail < len
  /\ c_pc \in {"update", "advance"} => c_head < c_tail

\* A published chunk stays in its slot until the consumer advances.
SlotsHold ==
  /\ \A k \in head .. tail - 1 : slots[k % RING_SLOTS] = k + 1
  /\ p_pc = "publish" => slots[tail % RING_SLOTS] = tail + 1

HashedLength == Len(hashed) = c_head + (IF c_pc = "advance" THEN 1 ELSE 0)

\* The caller returns only when both threads are gone.
Joined ==
  /\ m_pc = "start" => p_pc = "none" /\ c_pc = "none"
  /\ m_pc = "createProducer" => p_pc = "none"
  /\ m_pc \in {"joinConsumer", "collect", "returned"} => p_pc \in {"none", "exit"}
  /\ m_pc \in {"collect", "returned"} => c_pc \in {"none", "exit", "initFailed"}

\* A producer that ended without an error has published every chunk.
ProducerComplete ==
  /\ p_pc = "setDone" => p_tail = len
  /\ p_pc = "failDone" => error
  /\ p_pc = "exit" /\ ~error => p_tail = len
  /\ p_pc = "none" => \/ m_pc \in {"start", "createProducer"} \/ error
                      \/ m_pc = "returned" /\ (result = -1 \/ len = 0)

FaultSeen ==
  /\ faulted => error \/ c_error \/ m_pc = "returned"
  /\ m_pc = "returned" /\ result = 0 => ~error /\ ~c_error /\ ~faulted

RingInv ==
  /\ TypeOK /\ RingBounds /\ SlotsHold /\ HashedLength /\ HashedInOrder
  /\ Joined /\ ProducerComplete /\ FaultSeen
=============================================================================

------------------------------ MODULE MpscQueue ------------------------------
(***************************************************************************)
(* The lock-free multi-producer single-consumer ring of mbufs of           *)
(* framework/src/queues/mpsc_mbuf_queue.rs.  Every load, store and         *)
(* compare-exchange of a shared word is a step of its own, so producers    *)
(* and the consumer interleave as they do on different cores.              *)
(*                                                                         *)
(* The head and tail counters are usize words that wrap.  Word stands for  *)
(* 2^64; on operands below Word the operators WAdd and WSub are            *)
(* wrapping_add and wrapping_sub.                                          *)
(***************************************************************************)
EXTENDS Integers, Sequences, FiniteSets

CONSTANTS
  Producers,      \* MpscProducer handles that may come to exist
  FirstProducer,  \* the handle new_mpsc_queue_pair_with_size returns
  Mbufs,          \* packet buffers
  NoMbuf,         \* the null pointer an unused slot holds
  Slots,          \* number of slots, a power of 2
  Word,           \* number of values of a usize
  MaxBatch        \* longest slice handed to enqueue or dequeue

ASSUME ProducersAssumption == FirstProducer \in Producers
ASSUME MbufsAssumption == NoMbuf \notin Mbufs
ASSUME SizesAssumption ==
  /\ Slots \in Nat \ {0}
  /\ Word \in Nat \ {0}
  /\ Word % Slots = 0
  /\ MaxBatch \in Nat \ {0}
  /\ Slots + MaxBatch < Word

VARIABLES
  prod_head, prod_tail,  \* producer: QueueMetadata
  cons_head, cons_tail,  \* consumer: QueueMetadata
  queue,                 \* the slots
  n_producers,
  ppc,                   \* where each producer handle is in enqueue
  batch,                 \* the mbufs slice of its call
  sp,                    \* TRUE when the call took enqueue_sp
  head,                  \* its local producer_head
  insert,                \* its local insert
  written,               \* slots stored so far by enqueue_mbufs
  cpc,                   \* where the consumer is in dequeue
  dequeue,               \* its local dequeue
  got,                   \* mbufs read so far by dequeue_mbufs
  outside                \* mbufs owned by the rest of the pipeline

shared == <<prod_head, prod_tail, cons_head, cons_tail, queue, n_producers>>
producerVars == <<ppc, batch, sp, head, insert, written>>
consumerVars == <<cpc, dequeue, got>>
vars == <<shared, producerVars, consumerVars, outside>>

-----------------------------------------------------------------------------
(* Words *)

Mask == Slots - 1
Words == 0 .. Word - 1
WAdd(a, b) == IF a + b < Word THEN a + b ELSE a + b - Word
WSub(a, b) == IF b <= a THEN a - b ELSE a - b + Word
SlotOf(i) == i % Slots
MinOf(a, b) == IF a <= b THEN a ELSE b

\* mask + consumer_tail - producer_head, as both enqueue paths compute it.
FreeSlots(phead, ctail) == WSub(WAdd(Mask, ctail), phead)

\* Slices of distinct mbufs, the empty one included.
Batches(S) ==
  {b \in UNION {[1..n -> S] : n \in 0..MaxBatch} :
     \A i, j \in DOMAIN b : b[i] = b[j] => i = j}

Elements(s) == {s[i] : i \in DOMAIN s}

-----------------------------------------------------------------------------
(* A producer's program counter.  "none" is a handle not yet cloned.       *)

ProducerPC == {"none", "idle", "load_head", "load_tail", "reserve",
               "write", "await", "commit"}
ConsumerPC == {"idle", "reserve", "read", "commit"}

Handles == {p \in Producers : ppc[p] # "none"}

\* Slots reserved by moving producer.head and not yet committed.
Reserving(p) == ppc[p] \in {"write", "await", "commit"}

Init ==
  /\ prod_head = 0 /\ prod_tail = 0
  /\ cons_head = 0 /\ cons_tail = 0
  /\ queue = [i \in 0 .. Slots - 1 |-> NoMbuf]
  /\ n_producers = 1
  /\ ppc = [p \in Producers |-> IF p = FirstProducer THEN "idle" ELSE "none"]
  /\ batch = [p \in Producers |-> <<>>]
  /\ sp = [p \in Producers |-> FALSE]
  /\ head = [p \in Producers |-> 0]
  /\ insert = [p \in Producers |-> 0]
  /\ written = [p \in Producers |-> 0]
  /\ cpc = "idle"
  /\ dequeue = 0
  /\ got = <<>>
  /\ outside = Mbufs

\* Faulty variant: a handle is cloned while enqueue runs.
CloneActive(p, q) ==
  /\ ppc[q] = "none"
  /\ ppc[p] # "none"
  /\ n_producers' = n_producers + 1
  /\ ppc' = [ppc EXCEPT ![q] = "idle"]
  /\ UNCHANGED <<prod_head, prod_tail, cons_head, cons_tail, queue, batch, sp,
                 head, insert, written, consumerVars, outside>>

\* MpscProducer::clone.  The comment on reference_producers makes it a
\* precondition that no producer is active.
Clone(p, q) ==
  /\ ppc[q] = "none"
  /\ ppc[p] # "none"
  /\ \A r \in Producers : ppc[r] \in {"none", "idle"}
  /\ n_producers' = n_producers + 1
  /\ ppc' = [ppc EXCEPT ![q] = "idle"]
  /\ UNCHANGED <<prod_head, prod_tail, cons_head, cons_tail, queue, batch, sp,
                 head, insert, written, consumerVars, outside>>

\* MpscProducer::enqueue and enqueue: the packets are drained, n_producers is
\* loaded and picks the path.
Enqueue(p) ==
  /\ ppc[p] = "idle"
  /\ \E b \in Batches(outside) :
       /\ batch' = [batch EXCEPT ![p] = b]
       /\ outside' = outside \ Elements(b)
  /\ sp' = [sp EXCEPT ![p] = n_producers = 1]
  /\ ppc' = [ppc EXCEPT ![p] = "load_head"]
  /\ UNCHANGED <<shared, head, insert, written, consumerVars>>

LoadHead(p) ==
  /\ ppc[p] = "load_head"
  /\ head' = [head EXCEPT ![p] = prod_head]
  /\ ppc' = [ppc EXCEPT ![p] = "load_tail"]
  /\ UNCHANGED <<shared, batch, sp, insert, written, consumerVars, outside>>

\* enqueue returns and its locals are gone; whatever of the slice was not
\* inserted is dropped with the Vec of raw pointers that held it.
Return(p) ==
  /\ ppc' = [ppc EXCEPT ![p] = "idle"]
  /\ batch' = [batch EXCEPT ![p] = <<>>]
  /\ sp' = [sp EXCEPT ![p] = FALSE]
  /\ head' = [head EXCEPT ![p] = 0]
  /\ insert' = [insert EXCEPT ![p] = 0]
  /\ written' = [written EXCEPT ![p] = 0]

LoadTail(p) ==
  LET n == MinOf(FreeSlots(head[p], cons_tail), Len(batch[p])) IN
  /\ ppc[p] = "load_tail"
  /\ \/ /\ n = 0
        /\ Return(p)
     \/ /\ n > 0
        /\ insert' = [insert EXCEPT ![p] = n]
        /\ ppc' = [ppc EXCEPT ![p] = "reserve"]
        /\ UNCHANGED <<batch, sp, head, written>>
  /\ UNCHANGED <<shared, consumerVars, outside>>

\* A producer between its load of producer.head and its reservation.
HoldsHead(p) == ppc[p] \in {"load_tail", "reserve"}

\* Bound: no producer stalls between its load of producer.head and its
\* compare-exchange while the others reserve Word (2^64) slots.
NotOvertaken(p) ==
  \A q \in Producers \ {p} :
    HoldsHead(q) => WSub(prod_head, head[q]) + insert[p] < Word

StartWriting(p) ==
  /\ prod_head' = WAdd(head[p], insert[p])
  /\ UNCHANGED written
  /\ ppc' = [ppc EXCEPT ![p] = "write"]

\* enqueue_sp stores producer.head.
ReserveSp(p) ==
  /\ ppc[p] = "reserve" /\ sp[p]
  /\ StartWriting(p)
  /\ UNCHANGED <<prod_tail, cons_head, cons_tail, queue, n_producers, batch,
                 sp, head, insert, consumerVars, outside>>

\* Faulty variant: producer.head is stored without comparing it.
ReserveMpStore(p) ==
  /\ ppc[p] = "reserve" /\ ~sp[p]
  /\ StartWriting(p)
  /\ UNCHANGED <<prod_tail, cons_head, cons_tail, queue, n_producers, batch,
                 sp, head, insert, consumerVars, outside>>

\* enqueue_mp's compare_exchange on producer.head; on failure it loops.
ReserveMp(p) ==
  /\ ppc[p] = "reserve" /\ ~sp[p]
  /\ \/ /\ prod_head = head[p]
        /\ NotOvertaken(p)
        /\ StartWriting(p)
        /\ UNCHANGED <<head, insert>>
     \/ /\ prod_head # head[p]
        /\ ppc' = [ppc EXCEPT ![p] = "load_head"]
        /\ head' = [head EXCEPT ![p] = 0]
        /\ insert' = [insert EXCEPT ![p] = 0]
        /\ UNCHANGED <<prod_head, written>>
  /\ UNCHANGED <<prod_tail, cons_head, cons_tail, queue, n_producers, batch,
                 sp, consumerVars, outside>>

\* One store of enqueue_mbufs.  After the last one enqueue_sp goes on to store
\* producer.tail, enqueue_mp first waits for the producers before it.
WriteSlot(p) ==
  LET i == SlotOf(WAdd(head[p], written[p])) IN
  /\ ppc[p] = "write"
  /\ queue' = [queue EXCEPT ![i] = batch[p][written[p] + 1]]
  /\ written' = [written EXCEPT ![p] = @ + 1]
  /\ ppc' = [ppc EXCEPT ![p] =
               IF written[p] + 1 < insert[p] THEN "write"
               ELSE IF sp[p] THEN "commit" ELSE "await"]
  /\ UNCHANGED <<prod_head, prod_tail, cons_head, cons_tail, n_producers,
                 batch, sp, head, insert, consumerVars, outside>>

\* Faulty variant: enqueue_mp does not wait for the producers before it.
AwaitNothing(p) ==
  /\ ppc[p] = "await"
  /\ ppc' = [ppc EXCEPT ![p] = "commit"]
  /\ UNCHANGED <<shared, batch, sp, head, insert, written, consumerVars, outside>>

\* Faulty variant: enqueue_mp waits for the end of its own slots.
AwaitEnd(p) ==
  /\ ppc[p] = "await"
  /\ prod_tail = WAdd(head[p], insert[p])
  /\ ppc' = [ppc EXCEPT ![p] = "commit"]
  /\ UNCHANGED <<shared, batch, sp, head, insert, written, consumerVars, outside>>

\* The spin of enqueue_mp ends when producer.tail reaches producer_head.
Await(p) ==
  /\ ppc[p] = "await"
  /\ prod_tail = head[p]
  /\ ppc' = [ppc EXCEPT ![p] = "commit"]
  /\ UNCHANGED <<shared, batch, sp, head, insert, written, consumerVars, outside>>

Commit(p) ==
  /\ ppc[p] = "commit"
  /\ prod_tail' = WAdd(head[p], insert[p])
  /\ Return(p)
  /\ UNCHANGED <<prod_head, cons_head, cons_tail, queue, n_producers,
                 consumerVars, outside>>

-----------------------------------------------------------------------------
(* The consumer: dequeue, called from ReceiveBatch through                 *)
(* MpscConsumer::recv.  Only it writes consumer.head, so its load of that  *)
(* word is joined with the load of producer.tail.  A call that finds       *)
(* nothing changes nothing.                                                *)

\* Faulty variant: the last committed mbuf is left behind.
DequeueButLast(n) ==
  LET available == WSub(prod_tail, cons_head) - 1 IN
  /\ cpc = "idle"
  /\ MinOf(n, available) > 0
  /\ dequeue' = MinOf(n, available)
  /\ cpc' = "reserve"
  /\ UNCHANGED <<shared, producerVars, got, outside>>

Dequeue(n) ==
  LET available == WSub(prod_tail, cons_head) IN
  /\ cpc = "idle"
  /\ MinOf(n, available) > 0
  /\ dequeue' = MinOf(n, available)
  /\ cpc' = "reserve"
  /\ UNCHANGED <<shared, producerVars, got, outside>>

ReserveDequeue ==
  /\ cpc = "reserve"
  /\ cons_head' = WAdd(cons_head, dequeue)
  /\ cpc' = "read"
  /\ UNCHANGED <<prod_head, prod_tail, cons_tail, queue, n_producers,
                 producerVars, dequeue, got, outside>>

\* One load of dequeue_mbufs; consumer.tail still is where the call started.
ReadSlot ==
  /\ cpc = "read"
  /\ got' = Append(got, queue[SlotOf(WAdd(cons_tail, Len(got)))])
  /\ cpc' = IF Len(got) + 1 < dequeue THEN "read" ELSE "commit"
  /\ UNCHANGED <<shared, producerVars, dequeue, outside>>

CommitDequeue ==
  /\ cpc = "commit"
  /\ cons_tail' = cons_head
  /\ cpc' = "idle"
  /\ got' = <<>>
  /\ dequeue' = 0
  /\ outside' = outside \cup Elements(got)
  /\ UNCHANGED <<prod_head, prod_tail, cons_head, queue, n_producers,
                 producerVars>>

-----------------------------------------------------------------------------
ProducerStep(p) ==
  \/ LoadHead(p) \/ LoadTail(p) \/ ReserveSp(p) \/ ReserveMp(p)
  \/ WriteSlot(p) \/ Await(p) \/ Commit(p)

ConsumerStep == ReserveDequeue \/ ReadSlot \/ CommitDequeue

Next ==
  \/ \E p, q \in Producers : Clone(p, q)
  \/ \E p \in Producers : Enqueue(p) \/ ProducerStep(p)
  \/ \E n \in 1..MaxBatch : Dequeue(n)
  \/ ConsumerStep

Spec == Init /\ [][Next]_vars

\* Every core keeps running: a producer inside enqueue, and the consumer, go on.
FairSpec ==
  /\ Spec
  /\ \A p \in Producers : WF_vars(ProducerStep(p))
  /\ WF_vars(ConsumerStep)
  /\ WF_vars(\E n \in 1..MaxBatch : Dequeue(n))
-----------------------------------------------------------------------------
(* Safety *)

\* The words, locals and program counters keep their types; in particular
\* dequeue never hands out the null pointer of a slot nobody wrote.
TypeOK ==
  /\ prod_head \in Words /\ prod_tail \in Words
  /\ cons_head \in Words /\ cons_tail \in Words
  /\ queue \in [0 .. Slots - 1 -> Mbufs \cup {NoMbuf}]
  /\ n_producers \in Nat \ {0}
  /\ ppc \in [Producers -> ProducerPC]
  /\ batch \in [Producers -> Seq(Mbufs)]
  /\ sp \in [Producers -> BOOLEAN]
  /\ head \in [Producers -> Words]
  /\ insert \in [Producers -> 0..MaxBatch]
  /\ written \in [Producers -> 0..MaxBatch]
  /\ cpc \in ConsumerPC
  /\ dequeue \in 0..MaxBatch
  /\ got \in Seq(Mbufs)
  /\ outside \in SUBSET Mbufs

\* Distances from consumer.tail, the oldest position still in use.
Offset(i) == WSub(i, cons_tail)

\* consumer.tail, consumer.head, producer.tail and producer.head stay in this
\* order around the ring and never span more than mask slots: no interleaving
\* of the two enqueue paths and dequeue overfills the ring or lets the consumer
\* run past what was committed.
CountersOrdered ==
  /\ Offset(cons_head) <= Offset(prod_tail)
  /\ Offset(prod_tail) <= Offset(prod_head)
  /\ Offset(prod_head) <= Mask

\* The slots producer p reserved and has not committed.
ReservedSlots(p) == {SlotOf(WAdd(head[p], k)) : k \in 0 .. insert[p] - 1}

\* The slots between consumer.tail and producer.tail, which hold committed mbufs.
CommittedSlots == {SlotOf(WAdd(cons_tail, k)) : k \in 0 .. Offset(prod_tail) - 1}

\* A slot that a producer reserved belongs to it alone until it commits: no
\* other producer reserved it, and it holds no committed mbuf the consumer may
\* still read.  This is what the compare-exchange on producer.head, the free
\* computation and the late store of consumer.tail are for.
SlotsExclusive ==
  \A p \in Producers : Reserving(p) =>
    /\ ReservedSlots(p) \cap CommittedSlots = {}
    /\ \A q \in Producers \ {p} :
         Reserving(q) => ReservedSlots(p) \cap ReservedSlots(q) = {}

\* Committed mbufs the consumer has not read yet, oldest first.
Contents ==
  LET first == WAdd(cons_tail, Len(got)) IN
  [i \in 1 .. WSub(prod_tail, first) |-> queue[SlotOf(WAdd(first, i - 1))]]

\* An mbuf has one owner at a time: it is outside, in one producer's slice, in
\* the ring or in the consumer's array, and never twice in one of them.  A
\* lost reservation or a stale slot would hand a packet to two owners.
OneOwner ==
  LET owned == Contents \o got IN
  /\ \A i, j \in DOMAIN owned : owned[i] = owned[j] => i = j
  /\ Elements(owned) \subseteq Mbufs \ outside
  /\ \A p \in Producers :
       /\ Elements(batch[p]) \cap (outside \cup Elements(owned)) = {}
       /\ \A q \in Producers \ {p} : Elements(batch[p]) \cap Elements(batch[q]) = {}

\* No mbuf disappears: each is outside, in a slice, in the ring or in the
\* consumer's array.  Packet::get_mbuf makes the code that takes the mbuf
\* responsible for freeing it, and enqueue takes mbufs it may not insert.
NoMbufLost ==
  Mbufs = outside \cup Elements(Contents \o got)
            \cup UNION {Elements(batch[p]) : p \in Producers}

-----------------------------------------------------------------------------
(* The inductive invariant behind CountersOrdered and SlotsExclusive *)

\* While n_producers is 1 there is one handle, and only then is a call on the
\* single-producer path.
OneHandleOnSpPath ==
  /\ n_producers = 1 => \A p, q \in Handles : p = q
  /\ \A p \in Producers :
       sp[p] => n_producers = 1 /\ ppc[p] \notin {"none", "idle"}

\* The locals of a call agree with how far it got.
CallLocals ==
  \A p \in Producers :
    /\ Len(batch[p]) <= MaxBatch
    /\ ppc[p] = "reserve" \/ Reserving(p) => insert[p] \in 1 .. Len(batch[p])
    /\ ppc[p] = "write" => written[p] < insert[p]
    /\ ppc[p] \in {"await", "commit"} => written[p] = insert[p]
    /\ ~Reserving(p) => written[p] = 0

\* A successful reservation fits: the slots counted free when consumer.tail was
\* loaded are free as long as producer.head has not moved.
ReservationFits ==
  \A p \in Producers :
    /\ ppc[p] = "reserve" /\ head[p] = prod_head => Offset(prod_head) + insert[p] <= Mask
    /\ HoldsHead(p) /\ sp[p] => head[p] = prod_head

\* End of the slots p reserved.
EndOf(p) == WAdd(head[p], insert[p])

\* Reserved ranges lie between producer.tail and producer.head without overlap.
ReservationsApart ==
  \A p \in Producers : Reserving(p) =>
    /\ Offset(prod_tail) <= Offset(head[p])
    /\ Offset(head[p]) + insert[p] <= Offset(prod_head)
    /\ \A q \in Producers \ {p} : Reserving(q) =>
         \/ Offset(head[p]) + insert[p] <= Offset(head[q])
         \/ Offset(head[q]) + insert[q] <= Offset(head[p])

\* Reserved ranges leave no gap: one starts at producer.tail, and each is
\* followed by another unless it ends at producer.head.
ReservationsChain ==
  /\ prod_tail # prod_head => \E p \in Producers : Reserving(p) /\ head[p] = prod_tail
  /\ \A p \in Producers : Reserving(p) =>
       EndOf(p) = prod_head \/ \E q \in Producers : Reserving(q) /\ head[q] = EndOf(p)
  /\ \A p \in Producers : ppc[p] = "commit" => head[p] = prod_tail

\* The consumer's locals agree with consumer.head and consumer.tail.
DequeueLocals ==
  /\ cpc \in {"idle", "reserve"} => cons_head = cons_tail /\ got = <<>>
  /\ cpc = "reserve" => dequeue \in 1 .. Offset(prod_tail)
  /\ cpc \in {"read", "commit"} => Offset(cons_head) = dequeue
  /\ cpc = "read" => Len(got) < dequeue
  /\ cpc = "commit" => Len(got) = dequeue

\* Committed positions hold mbufs, and the positions a producer has written hold
\* the mbufs of its slice in order.
SlotsHold ==
  /\ \A i \in Words : Offset(i) < Offset(prod_tail) => queue[SlotOf(i)] \in Mbufs
  /\ \A p \in Producers : Reserving(p) =>
       \A i \in Words : WSub(i, head[p]) < written[p] =>
         queue[SlotOf(i)] = batch[p][WSub(i, head[p]) + 1]

\* Everything the steps of enqueue, dequeue and clone preserve together.
IInv ==
  /\ TypeOK
  /\ OneHandleOnSpPath
  /\ CallLocals
  /\ CountersOrdered
  /\ ReservationFits
  /\ ReservationsApart
  /\ ReservationsChain
  /\ DequeueLocals
  /\ SlotsHold

-----------------------------------------------------------------------------
(* What the queue promises *)

Fifo == INSTANCE MbufFifo WITH
          Capacity <- Mask,
          fifo <- Contents, calls <- batch,
          busy <- [p \in Producers |-> ppc[p] \notin {"none", "idle"}]

\* The ring implements a bounded FIFO to which each enqueue appends a prefix of
\* its slice in one step: mbufs come out once, in the order of the commits.
ImplementsFifo == Fifo!Spec

\* A producer that reserved slots commits them: the spin on producer.tail ends
\* because every earlier reservation is committed too.
ReservationsCommit ==
  \A p \in Producers : Reserving(p) ~> ppc[p] = "idle"

\* Whatever was committed is dequeued, as long as the consumer keeps polling.
CommittedAreDequeued ==
  \A m \in Mbufs : m \in Elements(Contents) ~> m \in outside
=============================================================================

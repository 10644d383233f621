--------------------------- MODULE MpscQueueProofs ---------------------------
(***************************************************************************)
(* Proofs about MpscQueue for every number of producers, mbufs and slots,  *)
(* every word size that the slots divide and every batch size: the steps   *)
(* preserve the inductive invariant; every step of the ring is a step of a *)
(* FIFO or a stutter; and every mbuf has one owner, for which only the     *)
(* steps of the FIFO need to be looked at.                                 *)
(***************************************************************************)
EXTENDS MpscQueueSteps

\* Time limit of the SMT backend for the leaves that name no other backend.
USE SMTT(60)

(* The initial state and the steps preserve IInv. *)

\* The counters of MpscQueue::new are zero and nothing is reserved.
LEMMA InitIInv == Init => IInv
<1> SUFFICES ASSUME Init PROVE IInv
  BY Zenon
<1> USE DEF Init
<1>1. TypeOK
  BY ProducersAssumption, MbufsAssumption, SizesAssumption
  DEF TypeOK, Words, ProducerPC, ConsumerPC
<1>2. OneHandleOnSpPath
  BY Zenon DEF OneHandleOnSpPath, Handles
<1>3. CallLocals
  BY SizesAssumption DEF CallLocals, Reserving
<1>4. CountersOrdered
  BY SizesAssumption DEF CountersOrdered, Offset, WSub, Mask
<1>5. ReservationFits
  BY Zenon DEF ReservationFits, HoldsHead
<1>6. ReservationsApart
  BY Zenon DEF ReservationsApart, Reserving
<1>7. ReservationsChain
  BY Zenon DEF ReservationsChain, Reserving
<1>8. DequeueLocals
  BY Zenon DEF DequeueLocals
<1>9. SlotsHold
  BY OffsetWord, SizesAssumption DEF SlotsHold, Reserving, Offset, TypeOK, Words
<1> QED BY Zenon, <1>1, <1>2, <1>3, <1>4, <1>5, <1>6, <1>7, <1>8, <1>9 DEF IInv

\* dequeue loads the consumer's head and producer.tail.
LEMMA DequeueIInv ==
  ASSUME IInv, NEW n \in 1..MaxBatch, Dequeue(n)
  PROVE  IInv'
<1> USE DEF Dequeue, shared
<1>1. OneHandleOnSpPath' /\ CallLocals' /\ ReservationFits' /\ ReservationsApart' /\ ReservationsChain'
  BY Zenon, ProducersUntouched
<1>2. cons_head = cons_tail /\ got = <<>>
  BY Zenon DEF IInv, DequeueLocals
<1>3. dequeue' \in 1 .. Offset(prod_tail) /\ dequeue' \in 0..MaxBatch
  <2>1. Offset(prod_tail) \in Nat
    BY OffsetWord, SizesAssumption DEF Offset, IInv, TypeOK
  <2>2. dequeue' = MinOf(n, Offset(prod_tail)) /\ MinOf(n, Offset(prod_tail)) > 0
    BY Zenon, <1>2 DEF Offset
  <2> QED BY <2>1, <2>2, SizesAssumption DEF MinOf
<1>4. TypeOK'
  BY Zenon, <1>3 DEF TypeOK, IInv, ConsumerPC, producerVars
<1>5. CountersOrdered'
  BY Zenon DEF IInv, CountersOrdered, Offset
<1>6. DequeueLocals'
  BY Zenon, <1>2, <1>3 DEF DequeueLocals, Offset
<1>7. SlotsHold'
  BY Zenon, <1>4, SlotsHoldUntouched DEF Reserving, producerVars
<1> QED BY Zenon, <1>1, <1>4, <1>5, <1>6, <1>7 DEF IInv

\* dequeue stores consumer.head.
LEMMA ReserveDequeueIInv ==
  ASSUME IInv, ReserveDequeue
  PROVE  IInv'
<1> USE DEF ReserveDequeue
<1>1. OneHandleOnSpPath' /\ CallLocals' /\ ReservationFits' /\ ReservationsApart' /\ ReservationsChain'
  BY Zenon, ProducersUntouched
<1>2. /\ cons_head = cons_tail /\ got = <<>> /\ dequeue \in 1 .. Offset(prod_tail)
      /\ Offset(prod_tail) \in 0 .. Word - 1
      /\ Offset(prod_tail) <= Offset(prod_head) /\ Offset(prod_head) <= Mask
  BY Zenon, OffsetWord DEF IInv, DequeueLocals, CountersOrdered, TypeOK, Offset
<1>3. cons_head' \in Words /\ Offset(cons_head)' = dequeue
  <2>1. WSub(cons_tail, cons_tail) = 0 /\ dequeue \in Nat /\ dequeue < Word
    BY <1>2, OffsetWord, SizesAssumption DEF IInv, TypeOK
  <2>2. WAdd(cons_tail, dequeue) \in Words /\ WSub(WAdd(cons_tail, dequeue), cons_tail) = dequeue
    BY <2>1, OffsetAdd DEF IInv, TypeOK
  <2> QED BY Zenon, <1>2, <2>2 DEF Offset
<1>4. TypeOK'
  BY Zenon, <1>3 DEF IInv, TypeOK, ConsumerPC, producerVars
<1>5. CountersOrdered'
  BY <1>2, <1>3 DEF CountersOrdered, Offset
<1>6. DequeueLocals'
  BY <1>2, <1>3 DEF DequeueLocals
<1>7. SlotsHold'
  BY Zenon, <1>4, SlotsHoldUntouched DEF Reserving, producerVars
<1> QED BY Zenon, <1>1, <1>4, <1>5, <1>6, <1>7 DEF IInv

\* dequeue_mbufs reads one slot of the consumer's range.
LEMMA ReadSlotIInv ==
  ASSUME IInv, ReadSlot
  PROVE  IInv'
<1> USE DEF ReadSlot, shared
<1>1. OneHandleOnSpPath' /\ CallLocals' /\ ReservationFits' /\ ReservationsApart' /\ ReservationsChain'
  BY Zenon, ProducersUntouched
<1>2. /\ Len(got) \in Nat /\ Len(got) < dequeue /\ dequeue \in Nat
      /\ got \in Seq(Mbufs) /\ cons_tail \in Words
      /\ dequeue <= MaxBatch
  BY SizesAssumption DEF IInv, DequeueLocals, TypeOK
<1>3. queue[SlotOf(WAdd(cons_tail, Len(got)))] \in Mbufs
  <2>1. /\ Len(got) < Offset(prod_tail)
        /\ Offset(prod_tail) \in 0 .. Word - 1
    <3>1. Offset(prod_tail) \in 0 .. Word - 1 /\ Offset(cons_head) \in 0 .. Word - 1
      BY Zenon, OffsetWord DEF IInv, TypeOK, Offset
    <3>2. Len(got) < Offset(cons_head) /\ Offset(cons_head) <= Offset(prod_tail)
      BY Zenon, <1>2 DEF IInv, DequeueLocals, CountersOrdered
    <3> QED BY <1>2, <3>1, <3>2, SizesAssumption
  <2>2. WSub(cons_tail, cons_tail) = 0
    BY Zenon, <1>2, OffsetWord
  <2>3. WSub(cons_tail, cons_tail) + Len(got) < Word
    BY <1>2, <2>2, SizesAssumption
  <2>4. /\ WAdd(cons_tail, Len(got)) \in Words
        /\ WSub(WAdd(cons_tail, Len(got)), cons_tail) = WSub(cons_tail, cons_tail) + Len(got)
    BY Zenon, <1>2, <2>3, OffsetAdd
  <2>5. Offset(WAdd(cons_tail, Len(got))) = Len(got)
    BY <1>2, <2>2, <2>4 DEF Offset
  <2> QED BY Zenon, <2>1, <2>4, <2>5 DEF IInv, SlotsHold
<1>4. got' \in Seq(Mbufs) /\ Len(got') = Len(got) + 1
  BY <1>2, <1>3
<1>5. TypeOK'
  BY Zenon, <1>4 DEF IInv, TypeOK, ConsumerPC, producerVars
<1>6. CountersOrdered'
  BY Zenon DEF IInv, CountersOrdered, Offset
<1>7. DequeueLocals'
  BY <1>2, <1>4 DEF IInv, DequeueLocals, Offset
<1>8. SlotsHold'
  BY Zenon, <1>5, SlotsHoldUntouched DEF Reserving, producerVars
<1> QED BY Zenon, <1>1, <1>5, <1>6, <1>7, <1>8 DEF IInv

\* dequeue stores consumer.tail: the slots it read are free again.
LEMMA CommitDequeueIInv ==
  ASSUME IInv, CommitDequeue
  PROVE  IInv'
<1> USE DEF IInv
<1>0. /\ cpc = "commit" /\ cpc' = "idle" /\ cons_tail' = cons_head
      /\ got' = <<>> /\ dequeue' = 0 /\ outside' = outside \cup Elements(got)
      /\ UNCHANGED <<prod_head, prod_tail, cons_head, queue, n_producers, ppc,
                     batch, sp, head, insert, written>>
  BY Zenon DEF CommitDequeue, producerVars
<1> DEFINE d == Offset(cons_head)
<1>d. /\ cons_head \in Words /\ cons_tail \in Words
      /\ prod_head \in Words /\ prod_tail \in Words
      /\ \A r \in Producers : head[r] \in Words /\ insert[r] \in Nat
  BY DEF TypeOK
<1>r. \A a \in Words : d <= Offset(a) => Offset(a)' = Offset(a) - d
  BY Zenon, <1>0, <1>d, OffsetRebase DEF Offset
<1>n. d \in Nat /\ \A a \in Words : Offset(a) \in Nat
  BY <1>d, OffsetWord, SizesAssumption DEF Offset
<1>c. d <= Offset(prod_tail) /\ Offset(prod_tail) <= Offset(prod_head) /\ Offset(prod_head) <= Mask
  BY Zenon DEF CountersOrdered
<1>m. Mask \in Nat
  BY SizesAssumption DEF Mask
<1>o. /\ Offset(prod_tail)' = Offset(prod_tail) - d
      /\ Offset(prod_head)' = Offset(prod_head) - d
      /\ Offset(cons_head)' = 0
  <2>1. d <= Offset(prod_head)
    BY <1>c, <1>d, <1>n
  <2>2. \A a \in Words : d <= Offset(a) => WSub(a, cons_tail') = Offset(a) - d
    BY Zenon, <1>r DEF Offset
  <2>3. /\ WSub(prod_tail, cons_tail') = Offset(prod_tail) - d
        /\ WSub(prod_head, cons_tail') = Offset(prod_head) - d
    BY Zenon, <1>c, <1>d, <2>1, <2>2
  <2>4. WSub(cons_head', cons_tail') = 0
    BY Zenon, <1>0, <1>d, OffsetWord
  <2> QED BY Zenon, <1>0, <2>3, <2>4 DEF Offset
<1>1. TypeOK'
  <2>1. outside' \in SUBSET Mbufs
    BY <1>0 DEF TypeOK, Elements
  <2> QED BY <1>0, <1>d, <2>1, SizesAssumption DEF TypeOK, ConsumerPC
<1>2. OneHandleOnSpPath' /\ CallLocals'
  BY Zenon, <1>0 DEF OneHandleOnSpPath, Handles, CallLocals, Reserving
<1>3. CountersOrdered'
  BY <1>c, <1>d, <1>m, <1>n, <1>o DEF CountersOrdered, Mask
<1>h. \A r \in Producers : Reserving(r) => Offset(head[r])' = Offset(head[r]) - d
  <2> SUFFICES ASSUME NEW r \in Producers, Reserving(r)
               PROVE  Offset(head[r])' = Offset(head[r]) - d
    BY Zenon
  <2>1. Offset(prod_tail) <= Offset(head[r])
    BY Zenon DEF ReservationsApart
  <2>2. d <= Offset(head[r])
    BY <1>c, <1>d, <1>n, <2>1
  <2>3. WSub(head[r], cons_tail') = Offset(head[r]) - d
    BY Zenon, <1>d, <1>r, <2>2 DEF Offset
  <2> QED BY Zenon, <1>0, <2>3 DEF Offset
<1>4. ReservationFits'
  BY <1>0, <1>c, <1>d, <1>m, <1>n, <1>o DEF ReservationFits, HoldsHead, Mask
<1>5. ReservationsApart'
  <2>1. \A r \in Producers : Reserving(r)' <=> Reserving(r)
    BY Zenon, <1>0 DEF Reserving
  <2>2. \A r \in Producers : Offset(head[r]) \in Nat /\ insert'[r] = insert[r]
    BY Zenon, <1>0, <1>d, <1>n
  <2> QED BY <1>c, <1>d, <1>h, <1>n, <1>o, <2>1, <2>2 DEF ReservationsApart
<1>6. ReservationsChain'
  BY Zenon, <1>0 DEF ReservationsChain, Reserving, EndOf
<1>7. DequeueLocals'
  BY Zenon, <1>0 DEF DequeueLocals
<1>8. SlotsHold'
  <2>1. ASSUME NEW i \in Words, Offset(i)' < Offset(prod_tail)'
        PROVE  queue'[SlotOf(i)] \in Mbufs
    <3>1. WSub(i, cons_head) \in Nat /\ Offset(i)' = WSub(i, cons_head)
      BY <1>0, <1>d, OffsetWord, SizesAssumption DEF Offset
    <3>2. WSub(cons_head, cons_tail) + WSub(i, cons_head) < Offset(prod_tail)
      BY <1>d, <1>n, <1>o, <2>1, <3>1 DEF Offset
    <3>3. Offset(prod_tail) \in 0 .. Word - 1
      BY Zenon, <1>d, OffsetWord DEF Offset
    <3>4. Offset(i) = WSub(cons_head, cons_tail) + WSub(i, cons_head)
      BY <1>d, <1>n, <3>1, <3>2, <3>3, OffsetFrom, SizesAssumption DEF Offset
    <3> QED BY Zenon, <1>0, <3>2, <3>4 DEF SlotsHold
  <2>2. \A r \in Producers : Reserving(r)' => \A i \in Words :
          WSub(i, head'[r]) < written'[r] => queue'[SlotOf(i)] = batch'[r][WSub(i, head'[r]) + 1]
    BY Zenon, <1>0 DEF SlotsHold, Reserving
  <2> QED BY Zenon, <2>1, <2>2 DEF SlotsHold, Words, WSub
<1> QED BY Zenon, <1>1, <1>2, <1>3, <1>4, <1>5, <1>6, <1>7, <1>8

-----------------------------------------------------------------------------
(* Theorems *)

\* IInv is an invariant: no interleaving of enqueue, dequeue and clone breaks it.
THEOREM InductiveInvariant == Spec => []IInv
<1>1. Init => IInv
  BY Zenon, InitIInv
<1>2. IInv /\ [Next]_vars => IInv'
  <2> SUFFICES ASSUME IInv, [Next]_vars PROVE IInv'
    BY Zenon
  <2>1. ASSUME NEW p \in Producers, NEW q \in Producers, Clone(p, q) PROVE IInv'
    BY Zenon, <2>1, CloneIInv
  <2>2. ASSUME NEW p \in Producers, Enqueue(p) PROVE IInv'
    BY Zenon, <2>2, EnqueueIInv
  <2>3. ASSUME NEW p \in Producers, ProducerStep(p) PROVE IInv'
    BY Zenon, <2>3, LoadHeadIInv, LoadTailIInv, ReserveSpIInv, ReserveMpIInv,
       WriteSlotIInv, AwaitIInv, CommitIInv DEF ProducerStep
  <2>4. ASSUME NEW n \in 1..MaxBatch, Dequeue(n) PROVE IInv'
    BY Zenon, <2>4, DequeueIInv
  <2>5. CASE ConsumerStep
    BY Zenon, <2>5, ReserveDequeueIInv, ReadSlotIInv, CommitDequeueIInv DEF ConsumerStep
  <2>6. CASE UNCHANGED vars
    <3>1. OneHandleOnSpPath' /\ CallLocals' /\ ReservationFits' /\ ReservationsApart' /\ ReservationsChain'
      BY Zenon, <2>6, ProducersUntouched DEF vars, shared
    <3>2. TypeOK' /\ CountersOrdered' /\ DequeueLocals'
      BY Zenon, <2>6 DEF IInv, TypeOK, CountersOrdered, DequeueLocals, Offset, vars, shared,
                  producerVars, consumerVars
    <3>3. SlotsHold'
      BY Zenon, <2>6, <3>2, SlotsHoldUntouched DEF vars, shared, producerVars, Reserving
    <3> QED BY Zenon, <3>1, <3>2, <3>3 DEF IInv
  <2> QED BY Zenon, <2>1, <2>2, <2>3, <2>4, <2>5, <2>6 DEF Next
<1> QED BY <1>1, <1>2, PTL DEF Spec

\* Every word, local and slot keeps its type; dequeue hands out mbufs only.
THEOREM TypeCorrect == Spec => []TypeOK
<1>1. IInv => TypeOK
  BY Zenon DEF IInv
<1> QED BY <1>1, InductiveInvariant, PTL

\* The counters stay in order and within mask slots of each other: enqueue never
\* overfills the ring and dequeue never passes what was committed.
THEOREM RingNeverOverfull == Spec => []CountersOrdered
<1>1. IInv => CountersOrdered
  BY Zenon DEF IInv
<1> QED BY <1>1, InductiveInvariant, PTL

\* A position of a reserved range lies that far from consumer.tail, within the ring.
LEMMA ReservedPosition ==
  ASSUME IInv, NEW p \in Producers, Reserving(p), NEW k \in 0 .. insert[p] - 1
  PROVE  /\ WAdd(head[p], k) \in Words
         /\ WSub(WAdd(head[p], k), cons_tail) = Offset(head[p]) + k
         /\ Offset(head[p]) + k < Slots
         /\ Offset(head[p]) \in Nat /\ insert[p] \in Nat /\ k \in Nat /\ k < insert[p]
<1>1. /\ insert[p] \in 1 .. Mask /\ Offset(head[p]) \in Nat
      /\ Offset(head[p]) + insert[p] <= Mask
  BY Zenon, ReservingNonempty
<1>2. k \in Nat /\ k < insert[p] /\ insert[p] \in Nat
  BY <1>1, SizesAssumption DEF Mask
<1>3. Offset(head[p]) + k < Slots /\ Slots < Word
  BY <1>1, <1>2, SizesAssumption DEF Mask
<1>4. WSub(head[p], cons_tail) + k < Word
  BY <1>1, <1>2, <1>3, SizesAssumption DEF Offset
<1> QED BY Zenon, <1>1, <1>2, <1>3, <1>4, OffsetAdd DEF IInv, TypeOK, Offset

\* A committed position lies that far from consumer.tail, within the ring.
LEMMA CommittedPosition ==
  ASSUME IInv, NEW k \in 0 .. Offset(prod_tail) - 1
  PROVE  /\ WAdd(cons_tail, k) \in Words
         /\ WSub(WAdd(cons_tail, k), cons_tail) = k
         /\ k \in Nat /\ k < Offset(prod_tail) /\ k < Slots
         /\ Offset(prod_tail) \in Nat
<1>1. /\ Offset(prod_tail) \in 0 .. Word - 1 /\ Offset(prod_head) \in 0 .. Word - 1
      /\ WSub(cons_tail, cons_tail) = 0 /\ cons_tail \in Words
  BY Zenon, OffsetWord DEF IInv, TypeOK, Offset
<1>2. Offset(prod_tail) <= Mask
  BY <1>1, SizesAssumption DEF IInv, CountersOrdered, Mask
<1>3. k \in Nat /\ k < Offset(prod_tail) /\ k < Slots /\ Offset(prod_tail) \in Nat /\ k < Word
  BY <1>1, <1>2, SizesAssumption DEF Mask
<1>4. WSub(cons_tail, cons_tail) + k < Word
  BY <1>1, <1>3
<1> QED BY <1>1, <1>3, <1>4, OffsetAdd

\* Slots a producer reserved are its own until it commits: no other producer
\* stores to them, and the consumer does not read them.
THEOREM SlotsStayExclusive == Spec => []SlotsExclusive
<1>1. IInv => SlotsExclusive
  <2> SUFFICES ASSUME IInv, NEW p \in Producers, Reserving(p)
               PROVE  /\ ReservedSlots(p) \cap CommittedSlots = {}
                      /\ \A q \in Producers \ {p} :
                           Reserving(q) => ReservedSlots(p) \cap ReservedSlots(q) = {}
    BY Zenon DEF SlotsExclusive
  <2>t. cons_tail \in Words
    BY Zenon DEF IInv, TypeOK
  <2>1. ASSUME NEW j \in 0 .. insert[p] - 1, NEW k \in 0 .. Offset(prod_tail) - 1
        PROVE  SlotOf(WAdd(head[p], j)) # SlotOf(WAdd(cons_tail, k))
    <3>1. Offset(prod_tail) <= Offset(head[p])
      BY Zenon DEF IInv, ReservationsApart
    <3>2. WSub(WAdd(head[p], j), cons_tail) # WSub(WAdd(cons_tail, k), cons_tail)
      BY <3>1, ReservedPosition, CommittedPosition
    <3>3. WAdd(head[p], j) \in Words /\ WSub(WAdd(head[p], j), cons_tail) < Slots
      BY Zenon, ReservedPosition
    <3>4. WAdd(cons_tail, k) \in Words /\ WSub(WAdd(cons_tail, k), cons_tail) < Slots
      BY Zenon, CommittedPosition
    <3> QED BY Zenon, <2>t, <3>2, <3>3, <3>4, SlotInjective
  <2>2. ASSUME NEW q \in Producers \ {p}, Reserving(q),
               NEW j \in 0 .. insert[p] - 1, NEW k \in 0 .. insert[q] - 1
        PROVE  SlotOf(WAdd(head[p], j)) # SlotOf(WAdd(head[q], k))
    <3>1. \/ Offset(head[p]) + insert[p] <= Offset(head[q])
          \/ Offset(head[q]) + insert[q] <= Offset(head[p])
      BY Zenon, <2>2 DEF IInv, ReservationsApart
    <3>2. WSub(WAdd(head[p], j), cons_tail) # WSub(WAdd(head[q], k), cons_tail)
      BY <2>2, <3>1, ReservedPosition
    <3>3. WAdd(head[p], j) \in Words /\ WSub(WAdd(head[p], j), cons_tail) < Slots
      BY Zenon, ReservedPosition
    <3>4. WAdd(head[q], k) \in Words /\ WSub(WAdd(head[q], k), cons_tail) < Slots
      BY Zenon, <2>2, ReservedPosition
    <3> QED BY Zenon, <2>t, <3>2, <3>3, <3>4, SlotInjective
  <2> QED BY Zenon, <2>1, <2>2 DEF ReservedSlots, CommittedSlots
<1> QED BY <1>1, InductiveInvariant, PTL

-----------------------------------------------------------------------------
(* Sequences as collections of mbufs *)

\* No mbuf occurs twice in s.
AllDistinct(s) == \A i, j \in DOMAIN s : s[i] = s[j] => i = j

\* Length, domain and elements of a sequence of mbufs.
LEMMA LenFacts ==
  ASSUME NEW s \in Seq(Mbufs)
  PROVE  /\ Len(s) \in Nat /\ DOMAIN s = 1 .. Len(s)
         /\ \A i \in 1 .. Len(s) : s[i] \in Mbufs
         /\ s = <<>> <=> Len(s) = 0
OBVIOUS

\* Length and elements of a concatenation.
LEMMA ConcatFacts ==
  ASSUME NEW s \in Seq(Mbufs), NEW t \in Seq(Mbufs)
  PROVE  /\ s \o t \in Seq(Mbufs)
         /\ Len(s \o t) = Len(s) + Len(t)
         /\ \A i \in 1 .. Len(s) + Len(t) :
              (s \o t)[i] = IF i <= Len(s) THEN s[i] ELSE t[i - Len(s)]
         /\ s \o <<>> = s
OBVIOUS

\* The head and the tail of a sequence that is not empty.
LEMMA TailFacts ==
  ASSUME NEW s \in Seq(Mbufs), s # <<>>
  PROVE  /\ Head(s) \in Mbufs /\ Head(s) = s[1]
         /\ Tail(s) \in Seq(Mbufs)
         /\ Len(Tail(s)) = Len(s) - 1
         /\ \A i \in 1 .. Len(Tail(s)) : Tail(s)[i] = s[i + 1]
OBVIOUS

\* Appending an mbuf is concatenating a one-element sequence.
LEMMA AppendFacts ==
  ASSUME NEW s \in Seq(Mbufs), NEW m \in Mbufs
  PROVE  Len(Append(s, m)) = Len(s) + 1 /\ Append(s, m) = s \o <<m>>
OBVIOUS

\* Length and elements of a prefix.
LEMMA PrefixFacts ==
  ASSUME NEW s \in Seq(Mbufs), NEW n \in 0 .. Len(s)
  PROVE  /\ SubSeq(s, 1, n) \in Seq(Mbufs)
         /\ Len(SubSeq(s, 1, n)) = n
         /\ \A i \in 1 .. n : SubSeq(s, 1, n)[i] = s[i]
OBVIOUS

\* The empty sequence holds nothing.
LEMMA EmptyElements == Elements(<<>>) = {} /\ AllDistinct(<<>>)
BY DEF Elements, AllDistinct

\* What a concatenation holds, and when it holds it once.
LEMMA ConcatElements ==
  ASSUME NEW s \in Seq(Mbufs), NEW t \in Seq(Mbufs)
  PROVE  /\ Elements(s \o t) = Elements(s) \cup Elements(t)
         /\ AllDistinct(s \o t) <=>
              AllDistinct(s) /\ AllDistinct(t) /\ Elements(s) \cap Elements(t) = {}
<1> DEFINE c == s \o t
<1>1. /\ c \in Seq(Mbufs) /\ Len(s) \in Nat /\ Len(t) \in Nat
      /\ DOMAIN c = 1 .. Len(s) + Len(t)
      /\ DOMAIN s = 1 .. Len(s) /\ DOMAIN t = 1 .. Len(t)
      /\ \A i \in 1 .. Len(s) + Len(t) : c[i] = IF i <= Len(s) THEN s[i] ELSE t[i - Len(s)]
  BY ConcatFacts, LenFacts
<1> HIDE DEF c
<1>2. /\ \A i \in DOMAIN s : i \in DOMAIN c /\ c[i] = s[i]
      /\ \A i \in DOMAIN t : i + Len(s) \in DOMAIN c /\ c[i + Len(s)] = t[i]
  BY <1>1
<1>3. \A i \in DOMAIN c :
        \/ i \in DOMAIN s /\ c[i] = s[i]
        \/ i - Len(s) \in DOMAIN t /\ c[i] = t[i - Len(s)]
  BY <1>1
<1>4. Elements(c) = Elements(s) \cup Elements(t)
  <2>1. \A i \in DOMAIN c : c[i] \in Elements(s) \cup Elements(t)
    BY Zenon, <1>3 DEF Elements
  <2>2. \A i \in DOMAIN s : s[i] \in Elements(c)
    BY Zenon, <1>2 DEF Elements
  <2>3. \A i \in DOMAIN t : t[i] \in Elements(c)
    BY Zenon, <1>2 DEF Elements
  <2> QED BY Zenon, <2>1, <2>2, <2>3 DEF Elements
<1>5. ASSUME AllDistinct(c) PROVE AllDistinct(s) /\ AllDistinct(t) /\ Elements(s) \cap Elements(t) = {}
  <2>1. AllDistinct(s)
    BY Zenon, <1>2, <1>5 DEF AllDistinct
  <2>2. AllDistinct(t)
    <3> SUFFICES ASSUME NEW i \in DOMAIN t, NEW j \in DOMAIN t, t[i] = t[j] PROVE i = j
      BY Zenon DEF AllDistinct
    <3>1. i + Len(s) = j + Len(s)
      BY Zenon, <1>2, <1>5 DEF AllDistinct
    <3> QED BY <3>1, <1>1
  <2>3. ASSUME NEW i \in DOMAIN s, NEW j \in DOMAIN t PROVE s[i] # t[j]
    <3>1. i # j + Len(s)
      BY <1>1
    <3> QED BY Zenon, <3>1, <1>2, <1>5 DEF AllDistinct
  <2> QED BY Zenon, <2>1, <2>2, <2>3 DEF Elements
<1>6. ASSUME AllDistinct(s), AllDistinct(t), Elements(s) \cap Elements(t) = {}
      PROVE  AllDistinct(c)
  <2> SUFFICES ASSUME NEW i \in DOMAIN c, NEW j \in DOMAIN c, c[i] = c[j] PROVE i = j
    BY Zenon DEF AllDistinct
  <2>1. \A k \in DOMAIN s, l \in DOMAIN t : s[k] # t[l]
    BY Zenon, <1>6 DEF Elements
  <2>2. CASE i \in DOMAIN s /\ c[i] = s[i] /\ j \in DOMAIN s /\ c[j] = s[j]
    BY Zenon, <2>2, <1>6 DEF AllDistinct
  <2>3. CASE /\ i - Len(s) \in DOMAIN t /\ c[i] = t[i - Len(s)]
             /\ j - Len(s) \in DOMAIN t /\ c[j] = t[j - Len(s)]
    <3>1. i - Len(s) = j - Len(s)
      BY Zenon, <2>3, <1>6 DEF AllDistinct
    <3> QED BY <3>1, <1>1
  <2> QED BY Zenon, <1>3, <2>1, <2>2, <2>3
<1> QED BY Zenon, <1>4, <1>5, <1>6 DEF c

\* A function on 1..n is a sequence of length n.
LEMMA SeqOfFunction ==
  ASSUME NEW n \in Nat, NEW f \in [1 .. n -> Mbufs]
  PROVE  f \in Seq(Mbufs) /\ Len(f) = n /\ DOMAIN f = 1 .. n
OBVIOUS

\* Sequences that agree in length and at every index are equal.
LEMMA SeqsEqual ==
  ASSUME NEW s \in Seq(Mbufs), NEW t \in Seq(Mbufs), Len(s) = Len(t),
         \A i \in 1 .. Len(s) : s[i] = t[i]
  PROVE  s = t
OBVIOUS

\* What Tail leaves of a sequence, and the head it takes away.
LEMMA TailElements ==
  ASSUME NEW s \in Seq(Mbufs), s # <<>>
  PROVE  /\ Elements(s) = {Head(s)} \cup Elements(Tail(s))
         /\ AllDistinct(s) => AllDistinct(Tail(s)) /\ Head(s) \notin Elements(Tail(s))
<1> DEFINE t == Tail(s)
<1>1. /\ Len(s) \in Nat \ {0} /\ DOMAIN s = 1 .. Len(s) /\ DOMAIN t = 1 .. Len(s) - 1
      /\ Head(s) = s[1] /\ \A i \in DOMAIN t : t[i] = s[i + 1]
  BY Zenon, TailFacts, LenFacts
<1> HIDE DEF t
<1>2. 1 \in DOMAIN s /\ \A i \in DOMAIN t : i + 1 \in DOMAIN s /\ i + 1 # 1
  BY <1>1
<1>3. \A i \in DOMAIN s : i = 1 \/ (i - 1 \in DOMAIN t /\ t[i - 1] = s[i])
  BY <1>1
<1>4. Elements(s) = {Head(s)} \cup Elements(t)
  <2>1. \A i \in DOMAIN s : s[i] \in {Head(s)} \cup Elements(t)
    BY Zenon, <1>1, <1>3 DEF Elements
  <2>2. \A i \in DOMAIN t : t[i] \in Elements(s)
    BY Zenon, <1>1, <1>2 DEF Elements
  <2>3. Head(s) \in Elements(s)
    BY Zenon, <1>1, <1>2 DEF Elements
  <2> QED BY Zenon, <2>1, <2>2, <2>3 DEF Elements
<1>5. ASSUME AllDistinct(s) PROVE AllDistinct(t) /\ Head(s) \notin Elements(t)
  <2>1. ASSUME NEW i \in DOMAIN t, NEW j \in DOMAIN t, t[i] = t[j] PROVE i + 1 = j + 1
    <3>1. s[i + 1] = s[j + 1] /\ i + 1 \in DOMAIN s /\ j + 1 \in DOMAIN s
      BY Zenon, <1>1, <1>2, <2>1
    <3> QED BY Zenon, <3>1, <1>5 DEF AllDistinct
  <2>2. AllDistinct(t)
    BY <2>1, <1>1 DEF AllDistinct
  <2>3. ASSUME NEW i \in DOMAIN t PROVE t[i] # Head(s)
    <3>1. t[i] = s[i + 1] /\ i + 1 \in DOMAIN s /\ i + 1 # 1 /\ 1 \in DOMAIN s
      BY Zenon, <1>1, <1>2
    <3> QED BY Zenon, <3>1, <1>1, <1>5 DEF AllDistinct
  <2> QED BY Zenon, <2>2, <2>3 DEF Elements
<1> QED BY Zenon, <1>4, <1>5 DEF t

\* A one-element sequence holds that element once.
LEMMA OneElement ==
  ASSUME NEW m \in Mbufs
  PROVE  <<m>> \in Seq(Mbufs) /\ Elements(<<m>>) = {m} /\ AllDistinct(<<m>>)
BY DEF Elements, AllDistinct

\* What a prefix of a slice holds.
LEMMA PrefixElements ==
  ASSUME NEW s \in Seq(Mbufs), NEW n \in 0 .. Len(s)
  PROVE  /\ SubSeq(s, 1, n) \in Seq(Mbufs)
         /\ Len(SubSeq(s, 1, n)) = n
         /\ \A i \in 1 .. n : SubSeq(s, 1, n)[i] = s[i]
         /\ Elements(SubSeq(s, 1, n)) \subseteq Elements(s)
         /\ AllDistinct(s) => AllDistinct(SubSeq(s, 1, n))
<1> DEFINE t == SubSeq(s, 1, n)
<1>1. Len(s) \in Nat /\ DOMAIN s = 1 .. Len(s) /\ \A i \in 1 .. n : s[i] \in Mbufs
  BY LenFacts
<1>2. /\ t \in Seq(Mbufs) /\ Len(t) = n /\ \A i \in 1 .. n : t[i] = s[i]
  BY Zenon, <1>1, PrefixFacts
<1>3. \A i \in DOMAIN t : i \in DOMAIN s /\ t[i] = s[i]
  BY <1>1, <1>2, LenFacts
<1> HIDE DEF t
<1>4. Elements(t) \subseteq Elements(s)
  BY Zenon, <1>3 DEF Elements
<1>5. AllDistinct(s) => AllDistinct(t)
  BY Zenon, <1>3 DEF AllDistinct
<1> QED BY Zenon, <1>2, <1>4, <1>5 DEF t

-----------------------------------------------------------------------------
(* What the ring holds *)

\* The slots at distances a, ..., b - 1 from the counter t.
RingRun(q, t, a, b) == [i \in 1 .. b - a |-> q[SlotOf(WAdd(t, a + i - 1))]]

\* Contents counts from the first unread position; the run counts from
\* consumer.tail.
LEMMA RunFromTail ==
  ASSUME NEW q, NEW t \in Words, NEW e \in Words, NEW l \in Nat, l <= WSub(e, t)
  PROVE  [i \in 1 .. WSub(e, WAdd(t, l)) |-> q[SlotOf(WAdd(WAdd(t, l), i - 1))]]
           = RingRun(q, t, l, WSub(e, t))
<1>1. WSub(e, WAdd(t, l)) = WSub(e, t) - l
  BY SizesAssumption DEF WSub, WAdd, Words
<1>2. \A i \in 1 .. WSub(e, t) - l : WAdd(WAdd(t, l), i - 1) = WAdd(t, l + i - 1)
  BY SizesAssumption DEF WSub, WAdd, Words
<1>3. [i \in 1 .. WSub(e, t) - l |-> q[SlotOf(WAdd(WAdd(t, l), i - 1))]]
        = [i \in 1 .. WSub(e, t) - l |-> q[SlotOf(WAdd(t, l + i - 1))]]
  BY Zenon, <1>2
<1> QED BY Zenon, <1>1, <1>3 DEF RingRun

\* The consumer has read committed positions only, and the rest of them are
\* mbufs waiting in the ring.
ContentsFacts ==
  /\ Len(got) \in 0 .. MaxBatch
  /\ Offset(prod_tail) \in 0 .. Mask
  /\ Len(got) <= Offset(prod_tail)
  /\ Contents = RingRun(queue, cons_tail, Len(got), Offset(prod_tail))
  /\ Contents \in Seq(Mbufs)
  /\ Len(Contents) = Offset(prod_tail) - Len(got)

\* The inductive invariant of the queue gives these facts.
LEMMA ContentsKnown == IInv => ContentsFacts
<1> SUFFICES ASSUME IInv PROVE ContentsFacts
  BY Zenon
<1>1. /\ Offset(cons_head) \in Nat /\ Offset(prod_tail) \in Nat /\ Offset(prod_head) \in Nat
      /\ Mask \in Nat
  BY Zenon, OffsetsTyped DEF IInv, OffsetsAreWords
<1>2. Offset(prod_tail) \in 0 .. Mask /\ Offset(cons_head) <= Offset(prod_tail)
  BY <1>1 DEF IInv, CountersOrdered
<1>3. Len(got) \in Nat /\ dequeue \in 0 .. MaxBatch /\ cpc \in ConsumerPC
  BY DEF IInv, TypeOK
<1>4. Len(got) \in 0 .. MaxBatch /\ Len(got) <= Offset(prod_tail)
  <2>1. CASE cpc \in {"idle", "reserve"}
    <3>1. Len(got) = 0
      BY <2>1 DEF IInv, DequeueLocals
    <3> QED BY <3>1, <1>1, SizesAssumption
  <2>2. CASE cpc \in {"read", "commit"}
    <3>1. Offset(cons_head) = dequeue /\ Len(got) <= dequeue
      BY <2>2, <1>3 DEF IInv, DequeueLocals
    <3> QED BY <3>1, <1>2, <1>1, <1>3, SizesAssumption
  <2> QED BY Zenon, <1>3, <2>1, <2>2 DEF ConsumerPC
<1>5. Contents = RingRun(queue, cons_tail, Len(got), Offset(prod_tail))
  BY Zenon, <1>3, <1>4, RunFromTail DEF Contents, Offset, IInv, TypeOK
<1>6. \A i \in 1 .. Offset(prod_tail) - Len(got) :
        queue[SlotOf(WAdd(cons_tail, Len(got) + i - 1))] \in Mbufs
  <2> TAKE i \in 1 .. Offset(prod_tail) - Len(got)
  <2> DEFINE k == Len(got) + i - 1
  <2>1. k \in 0 .. Offset(prod_tail) - 1
    BY <1>1, <1>3, <1>4
  <2> HIDE DEF k
  <2>2. WAdd(cons_tail, k) \in Words /\ Offset(WAdd(cons_tail, k)) < Offset(prod_tail)
    BY Zenon, <2>1, CommittedPosition DEF Offset
  <2>3. queue[SlotOf(WAdd(cons_tail, k))] \in Mbufs
    BY Zenon, <2>2 DEF IInv, SlotsHold
  <2> QED BY Zenon, <2>3 DEF k
<1>7. Contents \in Seq(Mbufs) /\ Len(Contents) = Offset(prod_tail) - Len(got)
  <2>1. Offset(prod_tail) - Len(got) \in Nat
    BY <1>1, <1>3, <1>4
  <2>2. Contents \in [1 .. Offset(prod_tail) - Len(got) -> Mbufs]
    BY Zenon, <1>5, <1>6 DEF RingRun
  <2> QED BY Zenon, <2>1, <2>2, SeqOfFunction
<1> QED BY Zenon, <1>2, <1>4, <1>5, <1>7 DEF ContentsFacts

\* The same after a step.
LEMMA ContentsKnownNext == IInv' => ContentsFacts'
BY ContentsKnown, PTL

\* Runs of the same slots are equal.
LEMMA RunsAgree ==
  ASSUME NEW q, NEW r, NEW t, NEW a \in Nat, NEW b \in Nat, a <= b,
         \A k \in 0 .. b - 1 : r[SlotOf(WAdd(t, k))] = q[SlotOf(WAdd(t, k))]
  PROVE  RingRun(r, t, a, b) = RingRun(q, t, a, b)
<1>1. \A i \in 1 .. b - a : a + i - 1 \in 0 .. b - 1
  OBVIOUS
<1>2. \A i \in 1 .. b - a :
        r[SlotOf(WAdd(t, a + i - 1))] = q[SlotOf(WAdd(t, a + i - 1))]
  BY Zenon, <1>1
<1> QED BY Zenon, <1>2 DEF RingRun

-----------------------------------------------------------------------------
(* Steps of the ring as steps of the FIFO *)

\* Which producers are inside a call.
Busy == [p \in Producers |-> ppc[p] \notin {"none", "idle"}]

\* A step that moves one producer makes it busy or idle and leaves the others.
LEMMA BusyStep ==
  ASSUME TypeOK, NEW p \in Producers, NEW x, ppc' = [ppc EXCEPT ![p] = x]
  PROVE  Busy' = [Busy EXCEPT ![p] = x \notin {"none", "idle"}]
<1>1. /\ \A r \in Producers \ {p} : ppc'[r] = ppc[r]
      /\ ppc'[p] = x
  BY Zenon DEF TypeOK
<1> DEFINE b == [Busy EXCEPT ![p] = x \notin {"none", "idle"}]
<1>2. b = [r \in Producers |-> IF r = p THEN x \notin {"none", "idle"} ELSE Busy[r]]
  BY Zenon DEF Busy
<1>3. \A r \in Producers :
        (ppc'[r] \notin {"none", "idle"})
          = (IF r = p THEN x \notin {"none", "idle"} ELSE Busy[r])
  BY Zenon, <1>1 DEF Busy
<1> HIDE DEF b
<1>4. Busy' = [r \in Producers |-> ppc'[r] \notin {"none", "idle"}]
  BY Zenon DEF Busy
<1> QED BY Zenon, <1>2, <1>3, <1>4 DEF b

\* A producer that goes on inside its call, or stays outside, changes nobody's
\* busyness.
LEMMA BusyKept ==
  ASSUME TypeOK, NEW p \in Producers, NEW x, ppc' = [ppc EXCEPT ![p] = x],
         x \in {"none", "idle"} <=> ppc[p] \in {"none", "idle"}
  PROVE  Busy' = Busy
<1>1. \A r \in Producers : ppc'[r] \in {"none", "idle"} <=> ppc[r] \in {"none", "idle"}
  BY Zenon DEF TypeOK
<1>2. \A r \in Producers : (ppc'[r] \notin {"none", "idle"}) = (ppc[r] \notin {"none", "idle"})
  BY Zenon, <1>1
<1> QED BY Zenon, <1>2 DEF Busy

\* A step that leaves the slots and the counters that bound Contents alone, and
\* takes no producer into or out of a call, is invisible.
LEMMA Stutters ==
  ASSUME UNCHANGED <<prod_tail, cons_tail, queue, got, batch, outside>>, Busy' = Busy
  PROVE  UNCHANGED Fifo!vars
<1>1. Contents' = Contents
  BY Zenon DEF Contents
<1> QED BY Zenon, <1>1 DEF Fifo!vars, Busy

\* Cloning a handle, the loads, the reservation and the spin of enqueue, and the
\* first two steps of dequeue do not touch what the FIFO shows.
LEMMA SilentSteps ==
  ASSUME IInv, NEW p \in Producers, NEW q \in Producers, NEW n \in 1 .. MaxBatch,
         \/ Clone(p, q) \/ LoadHead(p) \/ ReserveSp(p) \/ ReserveMp(p) \/ Await(p)
         \/ Dequeue(n) \/ ReserveDequeue
  PROVE  UNCHANGED Fifo!vars
<1>t. TypeOK
  BY Zenon DEF IInv
<1>1. CASE Clone(p, q)
  <2>1. Busy' = Busy
    BY Zenon, <1>1, <1>t, BusyKept DEF Clone
  <2> QED BY Zenon, <1>1, <2>1, Stutters DEF Clone, consumerVars
<1>2. CASE LoadHead(p)
  <2>1. Busy' = Busy
    <3>1. "load_tail" \in {"none", "idle"} <=> ppc[p] \in {"none", "idle"}
      BY Zenon, <1>2 DEF LoadHead
    <3> QED BY Zenon, <1>2, <3>1, <1>t, BusyKept DEF LoadHead
  <2> QED BY Zenon, <1>2, <2>1, Stutters DEF LoadHead, shared, consumerVars
<1>3. CASE ReserveSp(p)
  <2>1. Busy' = Busy
    <3>1. "write" \in {"none", "idle"} <=> ppc[p] \in {"none", "idle"}
      BY Zenon, <1>3 DEF ReserveSp
    <3> QED BY Zenon, <1>3, <3>1, <1>t, BusyKept DEF ReserveSp, StartWriting
  <2> QED BY Zenon, <1>3, <2>1, Stutters DEF ReserveSp, StartWriting, consumerVars
<1>4. CASE ReserveMp(p)
  <2>1. Busy' = Busy
    <3>1. /\ "write" \in {"none", "idle"} <=> ppc[p] \in {"none", "idle"}
          /\ "load_head" \in {"none", "idle"} <=> ppc[p] \in {"none", "idle"}
      BY Zenon, <1>4 DEF ReserveMp
    <3>2. \E x \in {"write", "load_head"} : ppc' = [ppc EXCEPT ![p] = x]
      BY Zenon, <1>4 DEF ReserveMp, StartWriting
    <3> QED BY Zenon, <3>1, <3>2, <1>t, BusyKept
  <2> QED BY Zenon, <1>4, <2>1, Stutters DEF ReserveMp, consumerVars
<1>5. CASE Await(p)
  <2>1. Busy' = Busy
    <3>1. "commit" \in {"none", "idle"} <=> ppc[p] \in {"none", "idle"}
      BY Zenon, <1>5 DEF Await
    <3> QED BY Zenon, <1>5, <3>1, <1>t, BusyKept DEF Await
  <2> QED BY Zenon, <1>5, <2>1, Stutters DEF Await, shared, consumerVars
<1>6. CASE Dequeue(n) \/ ReserveDequeue
  <2>1. Busy' = Busy
    BY Zenon, <1>6 DEF Dequeue, ReserveDequeue, Busy, producerVars
  <2> QED BY Zenon, <1>6, <2>1, Stutters DEF Dequeue, ReserveDequeue, shared, producerVars
<1> QED BY Zenon, <1>1, <1>2, <1>3, <1>4, <1>5, <1>6

\* A store of enqueue_mbufs goes to a reserved slot, which is no slot the
\* consumer may read.
LEMMA WriteSilent ==
  ASSUME IInv, IInv', NEW p \in Producers, WriteSlot(p)
  PROVE  UNCHANGED Fifo!vars
<1> DEFINE x == WAdd(head[p], written[p])
<1>t. TypeOK
  BY Zenon DEF IInv
<1>0. /\ ppc[p] = "write" /\ Reserving(p)
      /\ queue' = [queue EXCEPT ![SlotOf(x)] = batch[p][written[p] + 1]]
      /\ UNCHANGED <<prod_tail, cons_tail, got, batch, outside>>
  BY Zenon DEF WriteSlot, consumerVars, Reserving
<1>1. Busy' = Busy
  <2>1. \E y \in {"write", "await", "commit"} : ppc' = [ppc EXCEPT ![p] = y]
    BY Zenon DEF WriteSlot
  <2>2. \A y \in {"write", "await", "commit"} :
          y \in {"none", "idle"} <=> ppc[p] \in {"none", "idle"}
    BY Zenon, <1>0
  <2> QED BY Zenon, <2>1, <2>2, <1>t, BusyKept
<1>2. written[p] \in 0 .. insert[p] - 1
  BY <1>0 DEF IInv, TypeOK, CallLocals
<1>3. ASSUME NEW k \in 0 .. Offset(prod_tail) - 1
      PROVE  queue'[SlotOf(WAdd(cons_tail, k))] = queue[SlotOf(WAdd(cons_tail, k))]
  <2>1. SlotOf(x) # SlotOf(WAdd(cons_tail, k))
    <3>1. Offset(prod_tail) <= Offset(head[p])
      BY Zenon, <1>0 DEF IInv, ReservationsApart
    <3>2. /\ x \in Words /\ WSub(x, cons_tail) < Slots
          /\ WSub(x, cons_tail) = Offset(head[p]) + written[p]
          /\ Offset(head[p]) \in Nat /\ written[p] \in Nat
      BY Zenon, <1>0, <1>2, ReservedPosition
    <3> HIDE DEF x
    <3>3. /\ WAdd(cons_tail, k) \in Words /\ WSub(WAdd(cons_tail, k), cons_tail) < Slots
          /\ WSub(WAdd(cons_tail, k), cons_tail) = k
          /\ k \in Nat /\ k < Offset(prod_tail) /\ Offset(prod_tail) \in Nat
      BY Zenon, CommittedPosition
    <3>4. WSub(x, cons_tail) # WSub(WAdd(cons_tail, k), cons_tail)
      BY <3>1, <3>2, <3>3
    <3>5. cons_tail \in Words
      BY Zenon, <1>t DEF TypeOK
    <3> QED BY Zenon, <3>2, <3>3, <3>4, <3>5, SlotInjective
  <2> HIDE DEF x
  <2>2. WAdd(cons_tail, k) \in Nat
    BY CommittedPosition, SizesAssumption DEF Words
  <2>3. SlotOf(WAdd(cons_tail, k)) \in 0 .. Slots - 1
    BY Zenon, <2>2, SlotOfRange
  <2> QED BY Zenon, <1>0, <2>1, <2>3, <1>t DEF TypeOK
<1>4. Contents' = Contents
  <2>1. ContentsFacts /\ ContentsFacts'
    BY Zenon, ContentsKnown, ContentsKnownNext
  <2>2. RingRun(queue', cons_tail, Len(got), Offset(prod_tail))
          = RingRun(queue, cons_tail, Len(got), Offset(prod_tail))
    <3>1. Len(got) \in Nat /\ Offset(prod_tail) \in Nat /\ Len(got) <= Offset(prod_tail)
      BY <2>1, SizesAssumption DEF ContentsFacts, Mask
    <3>2. \A k \in 0 .. Offset(prod_tail) - 1 :
            queue'[SlotOf(WAdd(cons_tail, k))] = queue[SlotOf(WAdd(cons_tail, k))]
      BY Zenon, <1>3
    <3> QED BY <3>1, <3>2, RunsAgree
  <2>3. Contents' = RingRun(queue', cons_tail', Len(got'), WSub(prod_tail', cons_tail'))
    BY Zenon, <2>1 DEF ContentsFacts, Offset
  <2>4. Contents = RingRun(queue, cons_tail, Len(got), Offset(prod_tail))
    BY Zenon, <2>1 DEF ContentsFacts
  <2> QED BY Zenon, <1>0, <2>2, <2>3, <2>4 DEF Offset
<1> QED BY Zenon, <1>0, <1>1, <1>4 DEF Fifo!vars, Busy

\* Entering enqueue is a call of the FIFO with the same slice.
LEMMA EnqueueIsCall ==
  ASSUME IInv, NEW p \in Producers, Enqueue(p)
  PROVE  Fifo!Call(p)
<1>t. TypeOK
  BY Zenon DEF IInv
<1>1. ~Busy[p]
  BY Zenon DEF Enqueue, Busy
<1>2. Busy' = [Busy EXCEPT ![p] = TRUE]
  <2>1. Busy' = [Busy EXCEPT ![p] = "load_head" \notin {"none", "idle"}]
    BY Zenon, <1>t, BusyStep DEF Enqueue
  <2>2. ("load_head" \notin {"none", "idle"}) = TRUE
    BY Zenon
  <2> QED BY Zenon, <2>1, <2>2
<1>3. Contents' = Contents /\ got' = got
  BY Zenon DEF Enqueue, Contents, shared, consumerVars
<1>4. \E b \in UNION {[1..n -> outside] : n \in 0..MaxBatch} :
        /\ \A i, j \in DOMAIN b : b[i] = b[j] => i = j
        /\ batch' = [batch EXCEPT ![p] = b]
        /\ outside' = outside \ Elements(b)
  BY Zenon DEF Enqueue, Batches
<1> QED BY Zenon, <1>1, <1>2, <1>3, <1>4 DEF Fifo!Call, Fifo!Elements, Elements, Busy

\* enqueue that finds no free slot, or has nothing to insert, returns: the FIFO
\* inserts an empty prefix.
LEMMA LoadTailIsInsert ==
  ASSUME IInv, IInv', NEW p \in Producers, LoadTail(p)
  PROVE  Fifo!Insert(p, 0) \/ UNCHANGED Fifo!vars
<1> DEFINE n == MinOf(FreeSlots(head[p], cons_tail), Len(batch[p]))
<1>t. TypeOK
  BY Zenon DEF IInv
<1>0. /\ ppc[p] = "load_tail"
      /\ UNCHANGED <<prod_tail, cons_tail, queue, got, outside>>
  BY Zenon DEF LoadTail, shared, consumerVars
<1>1. CASE n = 0 /\ Return(p)
  <2>1. Busy[p]
    BY Zenon, <1>0 DEF Busy
  <2>2. Busy' = [Busy EXCEPT ![p] = FALSE]
    <3>1. Busy' = [Busy EXCEPT ![p] = "idle" \notin {"none", "idle"}]
      BY Zenon, <1>1, <1>t, BusyStep DEF Return
    <3>2. ("idle" \notin {"none", "idle"}) = FALSE
      BY Zenon
    <3> QED BY Zenon, <3>1, <3>2
  <2>3. Contents' = Contents
    BY Zenon, <1>0 DEF Contents
  <2>4. batch[p] \in Seq(Mbufs) /\ batch' = [batch EXCEPT ![p] = <<>>]
    BY Zenon, <1>1, <1>t DEF Return, TypeOK
  <2>5. ContentsFacts
    BY Zenon, ContentsKnown
  <2>6. 0 <= Len(batch[p]) /\ Len(Contents) + Len(got) + 0 <= Mask
    BY <2>4, <2>5, SizesAssumption DEF ContentsFacts, Mask
  <2>7. Contents \o SubSeq(batch[p], 1, 0) = Contents
    <3>1. SubSeq(batch[p], 1, 0) = <<>>
      BY <2>4
    <3>2. Contents \in Seq(Mbufs)
      BY Zenon, <2>5 DEF ContentsFacts
    <3> QED BY Zenon, <3>1, <3>2, ConcatFacts
  <2> QED BY Zenon, <1>0, <2>1, <2>2, <2>3, <2>4, <2>6, <2>7 DEF Fifo!Insert, Busy
<1>2. CASE ppc' = [ppc EXCEPT ![p] = "reserve"] /\ batch' = batch
  <2>1. "reserve" \in {"none", "idle"} <=> ppc[p] \in {"none", "idle"}
    BY Zenon, <1>0
  <2>2. Busy' = Busy
    BY Zenon, <1>2, <2>1, <1>t, BusyKept
  <2> QED BY Zenon, <1>0, <1>2, <2>2, Stutters
<1> QED BY Zenon, <1>1, <1>2 DEF LoadTail

\* The slots behind producer.tail hold the slice of the call that commits them.
LEMMA CommittedSlice ==
  ASSUME IInv, NEW p \in Producers, ppc[p] = "commit", NEW j \in 0 .. insert[p] - 1
  PROVE  queue[SlotOf(WAdd(cons_tail, Offset(prod_tail) + j))] = batch[p][j + 1]
<1> DEFINE y == WAdd(cons_tail, Offset(prod_tail) + j)
<1>1. Reserving(p) /\ head[p] = prod_tail /\ written[p] = insert[p]
  BY Zenon DEF Reserving, IInv, ReservationsChain, CallLocals
<1>2. /\ Offset(prod_tail) \in Nat /\ Offset(prod_tail) + j < Slots /\ j \in Nat
      /\ insert[p] \in Nat /\ j < insert[p]
  BY Zenon, <1>1, ReservedPosition
<1>3. prod_tail \in Words /\ cons_tail \in Words /\ WSub(cons_tail, cons_tail) = 0
  BY Zenon, OffsetWord DEF IInv, TypeOK
<1>4. y \in Words /\ WSub(y, cons_tail) = Offset(prod_tail) + j
  <2>1. Offset(prod_tail) + j \in Nat /\ WSub(cons_tail, cons_tail) + (Offset(prod_tail) + j) < Word
    BY <1>2, <1>3, SizesAssumption
  <2> QED BY <1>2, <1>3, <2>1, OffsetAdd
<1> HIDE DEF y
<1>5. WSub(y, prod_tail) = j
  BY <1>2, <1>3, <1>4, OffsetRebase DEF Offset
<1>6. queue[SlotOf(y)] = batch[p][WSub(y, head[p]) + 1]
  <2>1. WSub(y, head[p]) < written[p]
    BY Zenon, <1>1, <1>2, <1>5
  <2> QED BY Zenon, <1>1, <1>4, <2>1 DEF IInv, SlotsHold
<1> QED BY Zenon, <1>1, <1>5, <1>6 DEF y

\* The store of producer.tail appends the inserted prefix of the slice, all at
\* once.
LEMMA CommitIsInsert ==
  ASSUME IInv, IInv', NEW p \in Producers, Commit(p)
  PROVE  \E m \in 0 .. MaxBatch : Fifo!Insert(p, m)
<1> DEFINE n == insert[p]
           T == Offset(prod_tail)
           L == Len(got)
           b == batch[p]
<1>t. TypeOK
  BY Zenon DEF IInv
<1>0. /\ ppc[p] = "commit" /\ prod_tail' = WAdd(head[p], insert[p]) /\ Return(p)
      /\ UNCHANGED <<cons_tail, queue, got, outside>>
  BY Zenon DEF Commit, consumerVars
<1>1. Reserving(p) /\ head[p] = prod_tail
  BY Zenon, <1>0 DEF Reserving, IInv, ReservationsChain
<1>2. Busy[p]
  BY Zenon, <1>0 DEF Busy
<1>3. Busy' = [Busy EXCEPT ![p] = FALSE]
  <2>1. Busy' = [Busy EXCEPT ![p] = "idle" \notin {"none", "idle"}]
    BY Zenon, <1>0, <1>t, BusyStep DEF Return
  <2>2. ("idle" \notin {"none", "idle"}) = FALSE
    BY Zenon
  <2> QED BY Zenon, <2>1, <2>2
<1>4. b \in Seq(Mbufs) /\ batch' = [batch EXCEPT ![p] = <<>>]
  BY Zenon, <1>0, <1>t DEF Return, TypeOK
<1>5. n \in 0 .. Len(b) /\ n \in Nat
  BY <1>1, <1>4 DEF IInv, CallLocals
<1>6. /\ T \in Nat /\ T + n <= Mask /\ Mask \in Nat /\ Mask < Word
  BY <1>1, ReservingNonempty, SizesAssumption DEF Mask
<1>7. ContentsFacts /\ ContentsFacts'
  BY Zenon, ContentsKnown, ContentsKnownNext
<1>8. WSub(prod_tail', cons_tail') = T + n
  <2>1. prod_tail \in Words /\ cons_tail \in Words
    BY Zenon, <1>t DEF TypeOK
  <2>2. WSub(prod_tail, cons_tail) + n < Word
    <3>1. T + n < Word
      <4> HIDE DEF T, n
      <4> QED BY <1>5, <1>6, SizesAssumption
    <3> QED BY Zenon, <3>1 DEF Offset
  <2>3. WSub(WAdd(prod_tail, n), cons_tail) = WSub(prod_tail, cons_tail) + n
    BY Zenon, <1>5, <2>1, <2>2, OffsetAdd
  <2> QED BY Zenon, <1>0, <1>1, <2>3 DEF Offset
<1>9. /\ Contents = RingRun(queue, cons_tail, L, T)
      /\ Contents \in Seq(Mbufs) /\ Len(Contents) = T - L /\ L \in Nat /\ L <= T
  BY <1>7 DEF ContentsFacts
<1>10. /\ Contents' = RingRun(queue, cons_tail, L, T + n)
       /\ Contents' \in Seq(Mbufs) /\ Len(Contents') = (T + n) - L
  <2>1. /\ Contents' = RingRun(queue', cons_tail', Len(got'), WSub(prod_tail', cons_tail'))
        /\ Contents' \in Seq(Mbufs) /\ Len(Contents') = WSub(prod_tail', cons_tail') - Len(got')
    BY Zenon, <1>7 DEF ContentsFacts, Offset
  <2> QED BY Zenon, <1>0, <1>8, <2>1
<1>11. Len(Contents) + Len(got) + n <= Mask /\ n <= Len(b)
  BY <1>4, <1>5, <1>6, <1>9, LenFacts
<1>12. /\ SubSeq(b, 1, n) \in Seq(Mbufs) /\ Len(SubSeq(b, 1, n)) = n
       /\ \A i \in 1 .. n : SubSeq(b, 1, n)[i] = b[i]
  BY Zenon, <1>4, <1>5, PrefixElements
<1>13. \A j \in 0 .. n - 1 : queue[SlotOf(WAdd(cons_tail, T + j))] = b[j + 1]
  BY Zenon, <1>0, CommittedSlice
<1> HIDE DEF n, T, L, b
<1>14. Contents' = Contents \o SubSeq(b, 1, n)
  <2> DEFINE s == SubSeq(b, 1, n)
             c == Contents
             d == Contents'
             slot(k) == queue[SlotOf(WAdd(cons_tail, k))]
  <2>0. /\ c \in Seq(Mbufs) /\ d \in Seq(Mbufs) /\ s \in Seq(Mbufs)
        /\ Len(c) = T - L /\ Len(d) = (T + n) - L /\ Len(s) = n
    BY Zenon, <1>9, <1>10, <1>12
  <2>1. /\ \A i \in 1 .. T - L : c[i] = slot(L + i - 1)
        /\ \A i \in 1 .. (T + n) - L : d[i] = slot(L + i - 1)
    BY Zenon, <1>9, <1>10 DEF RingRun
  <2>2. \A j \in 0 .. n - 1 : slot(T + j) = b[j + 1]
    BY Zenon, <1>13
  <2>3. \A i \in 1 .. n : s[i] = b[i]
    BY Zenon, <1>12
  <2> HIDE DEF s, c, d, slot
  <2>4. /\ c \o s \in Seq(Mbufs) /\ Len(c \o s) = (T + n) - L
        /\ \A i \in 1 .. (T - L) + n : (c \o s)[i] = IF i <= T - L THEN c[i] ELSE s[i - (T - L)]
    <3>1. /\ c \o s \in Seq(Mbufs) /\ Len(c \o s) = Len(c) + Len(s)
          /\ \A i \in 1 .. Len(c) + Len(s) : (c \o s)[i] = IF i <= Len(c) THEN c[i] ELSE s[i - Len(c)]
      BY Zenon, <2>0, ConcatFacts
    <3>2. (T - L) + n = (T + n) - L
      BY <1>5, <1>6, <1>9
    <3> QED BY Zenon, <2>0, <3>1, <3>2
  <2>5. ASSUME NEW i \in 1 .. (T + n) - L PROVE d[i] = (c \o s)[i]
    <3>0. i \in Nat /\ T \in Nat /\ n \in Nat /\ L \in Nat /\ i \in 1 .. (T - L) + n /\ L <= T
      BY <1>5, <1>6, <1>9
    <3>1. CASE i <= T - L
      <4>1. i \in 1 .. T - L
        BY <3>0, <3>1
      <4> QED BY Zenon, <3>0, <3>1, <4>1, <2>1, <2>4
    <3>2. CASE ~(i <= T - L)
      <4> DEFINE j == i - (T - L) - 1
      <4>1. j \in 0 .. n - 1 /\ L + i - 1 = T + j /\ j + 1 = i - (T - L) /\ j + 1 \in 1 .. n
        BY <3>0, <3>2
      <4> HIDE DEF j
      <4>2. d[i] = b[j + 1]
        BY Zenon, <4>1, <2>1, <2>2
      <4>3. (c \o s)[i] = s[j + 1]
        BY Zenon, <4>1, <3>0, <3>2, <2>4
      <4> QED BY Zenon, <4>1, <4>2, <4>3, <2>3
    <3> QED BY Zenon, <3>1, <3>2
  <2>6. d = c \o s
    <3>1. Len(d) = Len(c \o s) /\ \A i \in 1 .. Len(d) : d[i] = (c \o s)[i]
      BY Zenon, <2>0, <2>4, <2>5
    <3> QED BY Zenon, <2>0, <2>4, <3>1, SeqsEqual
  <2> QED BY Zenon, <2>6 DEF s, c, d
<1>15. PICK m \in 0 .. MaxBatch : m = n
  BY Zenon, <1>t DEF TypeOK, n
<1>16. Fifo!Insert(p, m)
  BY Zenon, <1>0, <1>2, <1>3, <1>4, <1>11, <1>14, <1>15 DEF Fifo!Insert, Busy, b
<1> QED BY Zenon, <1>16

\* A load of dequeue_mbufs takes the oldest mbuf.
LEMMA ReadIsTake ==
  ASSUME IInv, IInv', ReadSlot
  PROVE  Fifo!Take
<1> DEFINE T == Offset(prod_tail)
           L == Len(got)
           slot(k) == queue[SlotOf(WAdd(cons_tail, k))]
<1>0. /\ cpc = "read" /\ got' = Append(got, slot(L))
      /\ UNCHANGED <<prod_tail, cons_tail, queue, batch, outside, ppc>>
  BY Zenon DEF ReadSlot, shared, producerVars
<1>1. Busy' = Busy
  BY Zenon, <1>0 DEF Busy
<1>2. ContentsFacts /\ ContentsFacts'
  BY Zenon, ContentsKnown, ContentsKnownNext
<1>3. L \in Nat /\ L < MaxBatch /\ L < T
  <2>1. L < dequeue /\ Offset(cons_head) = dequeue
    BY Zenon, <1>0 DEF IInv, DequeueLocals
  <2>2. dequeue \in 0 .. MaxBatch /\ Offset(cons_head) <= T /\ T \in 0 .. Mask /\ L \in 0 .. MaxBatch
    BY Zenon, <1>2 DEF IInv, TypeOK, CountersOrdered, ContentsFacts
  <2> HIDE DEF T, L
  <2> QED BY <2>1, <2>2, SizesAssumption DEF Mask
<1>4. /\ Contents = RingRun(queue, cons_tail, L, T)
      /\ Contents \in Seq(Mbufs) /\ Len(Contents) = T - L /\ T \in Nat
  BY <1>2 DEF ContentsFacts
<1>5. got \in Seq(Mbufs) /\ slot(L) \in Mbufs /\ Len(got') = L + 1
  <2>1. got \in Seq(Mbufs) /\ got' \in Seq(Mbufs)
    BY Zenon DEF IInv, TypeOK
  <2>2. Contents[1] = slot(L + 1 - 1) /\ Contents[1] \in Mbufs
    <3>1. 1 \in 1 .. T - L
      <4> HIDE DEF T, L
      <4> QED BY <1>3, <1>4
    <3>2. Contents[1] = slot(L + 1 - 1)
      BY Zenon, <1>4, <3>1 DEF RingRun
    <3>3. Contents[1] \in Mbufs
      BY Zenon, <1>4, <3>1, LenFacts
    <3> QED BY Zenon, <3>2, <3>3
  <2>3. L + 1 - 1 = L
    <3> HIDE DEF L
    <3> QED BY <1>3
  <2>4. slot(L) \in Mbufs
    BY Zenon, <2>2, <2>3
  <2> HIDE DEF slot
  <2> QED BY Zenon, <1>0, <2>1, <2>4, AppendFacts
<1>6. /\ Contents' = RingRun(queue, cons_tail, L + 1, T)
      /\ Contents' \in Seq(Mbufs) /\ Len(Contents') = T - (L + 1)
  <2>1. /\ Contents' = RingRun(queue', cons_tail', Len(got'), WSub(prod_tail', cons_tail'))
        /\ Contents' \in Seq(Mbufs) /\ Len(Contents') = WSub(prod_tail', cons_tail') - Len(got')
    BY Zenon, <1>2 DEF ContentsFacts, Offset
  <2> QED BY Zenon, <1>0, <1>5, <2>1 DEF Offset
<1> HIDE DEF T, L
<1>7. Contents # <<>> /\ Head(Contents) = slot(L) /\ Contents' = Tail(Contents)
  <2> DEFINE c == Contents
             d == Contents'
  <2>1. /\ c \in Seq(Mbufs) /\ d \in Seq(Mbufs) /\ Len(c) = T - L /\ Len(d) = T - (L + 1)
    BY Zenon, <1>4, <1>6
  <2>2. /\ \A i \in 1 .. T - L : c[i] = slot(L + i - 1)
        /\ \A i \in 1 .. T - (L + 1) : d[i] = slot((L + 1) + i - 1)
    BY Zenon, <1>4, <1>6 DEF RingRun
  <2> HIDE DEF c, d, slot
  <2>3. c # <<>>
    BY <2>1, <1>3, <1>4, LenFacts
  <2>4. Head(c) = slot(L)
    <3>1. 1 \in 1 .. T - L /\ L + 1 - 1 = L
      BY <1>3, <1>4
    <3>2. Head(c) = c[1]
      BY <2>1
    <3> QED BY Zenon, <2>2, <3>1, <3>2
  <2>5. /\ Tail(c) \in Seq(Mbufs) /\ Len(Tail(c)) = T - (L + 1)
        /\ \A i \in 1 .. T - (L + 1) : Tail(c)[i] = c[i + 1]
    <3>1. /\ Tail(c) \in Seq(Mbufs) /\ Len(Tail(c)) = Len(c) - 1
          /\ \A i \in 1 .. Len(Tail(c)) : Tail(c)[i] = c[i + 1]
      BY Zenon, <2>1, <2>3, TailFacts
    <3>2. (T - L) - 1 = T - (L + 1)
      BY <1>3, <1>4
    <3> QED BY Zenon, <2>1, <3>1, <3>2
  <2>6. ASSUME NEW i \in 1 .. T - (L + 1) PROVE d[i] = Tail(c)[i]
    <3>1. i + 1 \in 1 .. T - L /\ L + (i + 1) - 1 = (L + 1) + i - 1
      BY <1>3, <1>4
    <3> QED BY Zenon, <3>1, <2>2, <2>5
  <2>7. d = Tail(c)
    BY Zenon, <2>1, <2>5, <2>6, SeqsEqual
  <2> QED BY Zenon, <2>3, <2>4, <2>7 DEF c, d
<1> QED BY Zenon, <1>0, <1>1, <1>3, <1>7 DEF Fifo!Take, Busy, L

\* The store of consumer.tail frees the slots that were read and hands the mbufs
\* to the caller; what is left in the ring stays.
LEMMA CommitDequeueIsDeliver ==
  ASSUME IInv, CommitDequeue
  PROVE  Fifo!Deliver \/ UNCHANGED Fifo!vars
<1>0. /\ cpc = "commit" /\ cons_tail' = cons_head /\ got' = <<>>
      /\ outside' = outside \cup Elements(got)
      /\ UNCHANGED <<prod_tail, queue, batch, ppc>>
  BY Zenon DEF CommitDequeue, producerVars
<1>1. Busy' = Busy
  BY Zenon, <1>0 DEF Busy
<1>2. WAdd(cons_tail, Len(got)) = cons_head
  <2>1. cons_tail \in Words /\ cons_head \in Words /\ WSub(cons_head, cons_tail) = Len(got)
    BY Zenon, <1>0 DEF IInv, TypeOK, DequeueLocals, Offset
  <2> HIDE DEF Words
  <2>2. \A a, b \in Words : WAdd(b, WSub(a, b)) = a
    BY SizesAssumption DEF Words, WAdd, WSub
  <2> QED BY Zenon, <2>1, <2>2
<1>3. WAdd(cons_tail', Len(got')) = cons_head
  <2>1. Len(<<>>) = 0 /\ \A a \in Words : WAdd(a, 0) = a
    BY SizesAssumption DEF Words, WAdd
  <2> QED BY Zenon, <1>0, <2>1 DEF IInv, TypeOK
<1>4. Contents' = Contents
  BY Zenon, <1>0, <1>2, <1>3 DEF Contents
<1>5. CASE got = <<>>
  <2>1. outside' = outside
    BY Zenon, <1>0, <1>5, EmptyElements
  <2> QED BY Zenon, <1>0, <1>1, <1>4, <1>5, <2>1 DEF Fifo!vars, Busy
<1>6. CASE got # <<>>
  BY Zenon, <1>0, <1>1, <1>4, <1>6 DEF Fifo!Deliver, Fifo!Elements, Elements, Busy
<1> QED BY Zenon, <1>5, <1>6

\* Every step of the ring is a step of the FIFO or invisible to it.
LEMMA StepsImplementFifo ==
  ASSUME IInv, IInv', [Next]_vars
  PROVE  [Fifo!Next]_(Fifo!vars)
<1>1. ASSUME NEW p \in Producers, NEW q \in Producers, Clone(p, q)
      PROVE  UNCHANGED Fifo!vars
  <2>1. 1 \in 1 .. MaxBatch
    BY SizesAssumption
  <2> QED BY Zenon, <1>1, <2>1, SilentSteps
<1>2. ASSUME NEW p \in Producers, Enqueue(p) PROVE Fifo!Next
  BY Zenon, <1>2, EnqueueIsCall DEF Fifo!Next
<1>3. ASSUME NEW p \in Producers, ProducerStep(p) PROVE Fifo!Next \/ UNCHANGED Fifo!vars
  <2>0. 1 \in 1 .. MaxBatch /\ 0 \in 0 .. MaxBatch
    BY SizesAssumption
  <2>1. CASE LoadHead(p) \/ ReserveSp(p) \/ ReserveMp(p) \/ Await(p)
    BY Zenon, <2>0, <2>1, SilentSteps
  <2>2. CASE LoadTail(p)
    <3>1. Fifo!Insert(p, 0) \/ UNCHANGED Fifo!vars
      BY Zenon, <2>2, LoadTailIsInsert
    <3>2. (\E n \in 0 .. MaxBatch : Fifo!Insert(p, n)) \/ UNCHANGED Fifo!vars
      BY Zenon, <2>0, <3>1
    <3> QED BY Zenon, <3>2 DEF Fifo!Next
  <2>3. CASE WriteSlot(p)
    BY Zenon, <2>3, WriteSilent
  <2>4. CASE Commit(p)
    BY Zenon, <2>4, CommitIsInsert DEF Fifo!Next
  <2> QED BY Zenon, <1>3, <2>1, <2>2, <2>3, <2>4 DEF ProducerStep
<1>4. ASSUME NEW n \in 1 .. MaxBatch, Dequeue(n) PROVE UNCHANGED Fifo!vars
  BY Zenon, <1>4, SilentSteps, ProducersAssumption
<1>5. CASE ConsumerStep
  <2>0. 1 \in 1 .. MaxBatch
    BY SizesAssumption
  <2>1. CASE ReserveDequeue
    BY Zenon, <2>0, <2>1, SilentSteps, ProducersAssumption
  <2>2. CASE ReadSlot
    BY Zenon, <2>2, ReadIsTake DEF Fifo!Next
  <2>3. CASE CommitDequeue
    BY Zenon, <2>3, CommitDequeueIsDeliver DEF Fifo!Next
  <2> QED BY Zenon, <1>5, <2>1, <2>2, <2>3 DEF ConsumerStep
<1>6. CASE UNCHANGED vars
  BY Zenon, <1>6, Stutters DEF vars, shared, producerVars, consumerVars, Busy
<1> QED BY Zenon, <1>1, <1>2, <1>3, <1>4, <1>5, <1>6 DEF Next

\* The new ring is the empty FIFO.
LEMMA InitIsEmptyFifo == Init => Fifo!Init
<1> SUFFICES ASSUME Init PROVE Fifo!Init
  BY Zenon
<1>1. /\ got = <<>> /\ outside = Mbufs /\ batch = [p \in Producers |-> <<>>]
      /\ \A p \in Producers : ppc[p] \in {"none", "idle"}
  BY Zenon DEF Init
<1>2. Busy = [p \in Producers |-> FALSE]
  BY Zenon, <1>1 DEF Busy
<1>3. Contents = <<>>
  <2>1. ContentsFacts
    BY Zenon, InitIInv, ContentsKnown
  <2>2. Offset(prod_tail) = 0 /\ Len(got) = 0
    BY DEF Init, Offset, WSub
  <2>3. Contents \in Seq(Mbufs) /\ Len(Contents) = 0
    BY <2>1, <2>2 DEF ContentsFacts
  <2> QED BY Zenon, <2>3, LenFacts
<1> QED BY Zenon, <1>1, <1>2, <1>3 DEF Fifo!Init, Busy

\* Whatever the interleaving of producers and consumer, the ring is a FIFO of
\* capacity mask: an enqueue appends a prefix of its slice in one step, and
\* dequeue takes mbufs out once, oldest first.
THEOREM QueueImplementsFifo == Spec => ImplementsFifo
<1>1. Init => Fifo!Init
  BY Zenon, InitIsEmptyFifo
<1>2. IInv /\ IInv' /\ [Next]_vars => [Fifo!Next]_(Fifo!vars)
  BY Zenon, StepsImplementFifo
<1> QED BY <1>1, <1>2, InductiveInvariant, PTL DEF Spec, ImplementsFifo, Fifo!Spec

-----------------------------------------------------------------------------
(* One owner *)

\* The FIFO f, the array g of dequeue, the slices b of the calls and the mbufs o
\* outside share no mbuf, and none of them holds an mbuf twice.
Apart(f, g, b, o) ==
  /\ AllDistinct(f) /\ AllDistinct(g)
  /\ Elements(f) \cap Elements(g) = {}
  /\ Elements(f) \cap o = {}
  /\ Elements(g) \cap o = {}
  /\ \A p \in Producers :
       /\ AllDistinct(b[p])
       /\ Elements(b[p]) \cap o = {}
       /\ Elements(b[p]) \cap Elements(f) = {}
       /\ Elements(b[p]) \cap Elements(g) = {}
       /\ \A q \in Producers \ {p} : Elements(b[p]) \cap Elements(b[q]) = {}

\* A call takes a slice of distinct mbufs from outside.
LEMMA CallApart ==
  ASSUME NEW f, NEW g, NEW b, NEW o, Apart(f, g, b, o), NEW p \in Producers,
         NEW s, AllDistinct(s), Elements(s) \subseteq o,
         NEW c, c[p] = s, \A q \in Producers \ {p} : c[q] = b[q]
  PROVE  Apart(f, g, c, o \ Elements(s))
<1> DEFINE O == o \ Elements(s)
<1>1. /\ AllDistinct(f) /\ AllDistinct(g) /\ Elements(f) \cap Elements(g) = {}
      /\ Elements(f) \cap O = {} /\ Elements(g) \cap O = {}
  BY Zenon DEF Apart
<1>2. ASSUME NEW q \in Producers
      PROVE  /\ AllDistinct(c[q]) /\ Elements(c[q]) \cap O = {}
             /\ Elements(c[q]) \cap Elements(f) = {} /\ Elements(c[q]) \cap Elements(g) = {}
             /\ \A r \in Producers \ {q} : Elements(c[q]) \cap Elements(c[r]) = {}
  <2>1. CASE q = p
    <3>1. c[q] = s
      BY Zenon, <2>1
    <3>2. /\ Elements(s) \cap O = {} /\ Elements(s) \cap Elements(f) = {}
          /\ Elements(s) \cap Elements(g) = {}
      BY Zenon DEF Apart
    <3>3. ASSUME NEW r \in Producers \ {q} PROVE Elements(s) \cap Elements(c[r]) = {}
      <4>1. c[r] = b[r] /\ Elements(b[r]) \cap o = {}
        BY Zenon, <2>1 DEF Apart
      <4> QED BY Zenon, <4>1
    <3> QED BY Zenon, <3>1, <3>2, <3>3
  <2>2. CASE q # p
    <3>1. /\ c[q] = b[q] /\ AllDistinct(b[q]) /\ Elements(b[q]) \cap o = {}
          /\ Elements(b[q]) \cap Elements(f) = {} /\ Elements(b[q]) \cap Elements(g) = {}
      BY Zenon, <2>2 DEF Apart
    <3>2. ASSUME NEW r \in Producers \ {q} PROVE Elements(b[q]) \cap Elements(c[r]) = {}
      <4>1. CASE r = p
        BY Zenon, <4>1, <3>1
      <4>2. CASE r # p
        BY Zenon, <4>2 DEF Apart
      <4> QED BY Zenon, <4>1, <4>2
    <3>3. Elements(b[q]) \cap O = {}
      BY Zenon, <3>1
    <3> QED BY Zenon, <3>1, <3>2, <3>3
  <2> QED BY Zenon, <2>1, <2>2
<1> QED BY Zenon, <1>1, <1>2 DEF Apart

\* An insert moves a prefix of the slice into the FIFO and drops the rest.
LEMMA InsertApart ==
  ASSUME NEW f \in Seq(Mbufs), NEW g, NEW b, NEW o, Apart(f, g, b, o), NEW p \in Producers,
         b[p] \in Seq(Mbufs), NEW n \in 0 .. Len(b[p]),
         NEW c, c[p] = <<>>, \A q \in Producers \ {p} : c[q] = b[q]
  PROVE  Apart(f \o SubSeq(b[p], 1, n), g, c, o)
<1> DEFINE s == SubSeq(b[p], 1, n)
           F == f \o s
<1>1. s \in Seq(Mbufs) /\ Elements(s) \subseteq Elements(b[p]) /\ AllDistinct(s)
  BY Zenon, PrefixElements DEF Apart
<1> HIDE DEF s
<1>2. /\ Elements(F) = Elements(f) \cup Elements(s)
      /\ AllDistinct(F) <=> AllDistinct(f) /\ AllDistinct(s) /\ Elements(f) \cap Elements(s) = {}
  BY Zenon, <1>1, ConcatElements
<1> HIDE DEF F
<1>3. /\ Elements(b[p]) \cap o = {} /\ Elements(b[p]) \cap Elements(f) = {}
      /\ Elements(b[p]) \cap Elements(g) = {}
      /\ AllDistinct(f) /\ AllDistinct(g) /\ Elements(f) \cap Elements(g) = {}
      /\ Elements(f) \cap o = {} /\ Elements(g) \cap o = {}
  BY Zenon DEF Apart
<1>4. AllDistinct(F) /\ Elements(F) \cap Elements(g) = {} /\ Elements(F) \cap o = {}
  BY Zenon, <1>1, <1>2, <1>3
<1>5. ASSUME NEW q \in Producers
      PROVE  /\ AllDistinct(c[q]) /\ Elements(c[q]) \cap o = {}
             /\ Elements(c[q]) \cap Elements(F) = {} /\ Elements(c[q]) \cap Elements(g) = {}
             /\ \A r \in Producers \ {q} : Elements(c[q]) \cap Elements(c[r]) = {}
  <2>1. CASE q = p
    <3>1. Elements(c[q]) = {} /\ AllDistinct(c[q])
      BY Zenon, <2>1, EmptyElements
    <3> QED BY Zenon, <3>1
  <2>2. CASE q # p
    <3>1. /\ c[q] = b[q] /\ AllDistinct(b[q]) /\ Elements(b[q]) \cap o = {}
          /\ Elements(b[q]) \cap Elements(f) = {} /\ Elements(b[q]) \cap Elements(g) = {}
          /\ Elements(b[q]) \cap Elements(b[p]) = {}
      BY Zenon, <2>2 DEF Apart
    <3>2. ASSUME NEW r \in Producers \ {q} PROVE Elements(b[q]) \cap Elements(c[r]) = {}
      <4>1. CASE r = p
        BY Zenon, <4>1, EmptyElements
      <4>2. CASE r # p
        BY Zenon, <4>2 DEF Apart
      <4> QED BY Zenon, <4>1, <4>2
    <3>3. Elements(b[q]) \cap Elements(F) = {}
      BY Zenon, <3>1, <1>1, <1>2
    <3> QED BY Zenon, <3>1, <3>2, <3>3
  <2> QED BY Zenon, <2>1, <2>2
<1>6. Apart(F, g, c, o)
  BY Zenon, <1>3, <1>4, <1>5 DEF Apart
<1> QED BY Zenon, <1>6 DEF F, s

\* A take moves the head of the FIFO to the array of dequeue.
LEMMA TakeApart ==
  ASSUME NEW f \in Seq(Mbufs), f # <<>>, NEW g \in Seq(Mbufs), NEW b, NEW o,
         Apart(f, g, b, o)
  PROVE  Apart(Tail(f), Append(g, Head(f)), b, o)
<1> DEFINE m == Head(f)
           F == Tail(f)
           G == Append(g, m)
<1>0. /\ AllDistinct(f) /\ AllDistinct(g) /\ Elements(f) \cap Elements(g) = {}
      /\ Elements(f) \cap o = {} /\ Elements(g) \cap o = {}
  BY Zenon DEF Apart
<1>1. Elements(f) = {m} \cup Elements(F) /\ AllDistinct(F) /\ m \notin Elements(F) /\ m \in Mbufs
  BY Zenon, <1>0, TailElements, TailFacts
<1> HIDE DEF m, F
<1>2. Elements(G) = Elements(g) \cup {m} /\ AllDistinct(G)
  <2>1. <<m>> \in Seq(Mbufs) /\ Elements(<<m>>) = {m} /\ AllDistinct(<<m>>)
    BY Zenon, <1>1, OneElement
  <2>2. G = g \o <<m>>
    BY Zenon, <1>1, AppendFacts
  <2>3. Elements(g) \cap {m} = {}
    BY Zenon, <1>0, <1>1
  <2> HIDE DEF G
  <2> QED BY Zenon, <1>0, <2>1, <2>2, <2>3, ConcatElements
<1> HIDE DEF G
<1>3. Elements(F) \cap Elements(G) = {} /\ Elements(F) \cap o = {} /\ Elements(G) \cap o = {}
  BY Zenon, <1>0, <1>1, <1>2
<1>4. ASSUME NEW q \in Producers
      PROVE  Elements(b[q]) \cap Elements(F) = {} /\ Elements(b[q]) \cap Elements(G) = {}
  <2>1. Elements(b[q]) \cap Elements(f) = {} /\ Elements(b[q]) \cap Elements(g) = {}
    BY Zenon DEF Apart
  <2> QED BY Zenon, <2>1, <1>1, <1>2
<1>5. Apart(F, G, b, o)
  BY Zenon, <1>1, <1>2, <1>3, <1>4 DEF Apart
<1> QED BY Zenon, <1>5 DEF F, G, m

\* A delivery hands the array of dequeue to the pipeline.
LEMMA DeliverApart ==
  ASSUME NEW f, NEW g, NEW b, NEW o, Apart(f, g, b, o)
  PROVE  Apart(f, <<>>, b, o \cup Elements(g))
<1> DEFINE O == o \cup Elements(g)
<1>1. AllDistinct(f) /\ Elements(f) \cap O = {}
  BY Zenon DEF Apart
<1>2. ASSUME NEW q \in Producers PROVE Elements(b[q]) \cap O = {}
  BY Zenon DEF Apart
<1>3. \A S : S \cap Elements(<<>>) = {} /\ Elements(<<>>) \cap S = {}
  BY Zenon, EmptyElements
<1>4. AllDistinct(<<>>)
  BY Zenon, EmptyElements
<1> HIDE DEF O
<1> QED BY Zenon, <1>1, <1>2, <1>3, <1>4 DEF Apart, O

\* OneOwner with what makes it inductive: no slice holds an mbuf twice.
OwnersApart == Apart(Contents, got, batch, outside)

\* Every step of the FIFO keeps the owners apart, whatever the ring does to
\* implement it.
LEMMA FifoStepApart ==
  ASSUME IInv, OwnersApart, [Fifo!Next]_(Fifo!vars)
  PROVE  OwnersApart'
<1>t. /\ batch \in [Producers -> Seq(Mbufs)] /\ got \in Seq(Mbufs)
      /\ Contents \in Seq(Mbufs)
  BY Zenon, ContentsKnown DEF IInv, TypeOK, ContentsFacts
<1> SUFFICES Apart(Contents', got', batch', outside')
  BY Zenon DEF OwnersApart
<1>a. Apart(Contents, got, batch, outside)
  BY Zenon DEF OwnersApart
<1>1. ASSUME NEW p \in Producers, Fifo!Call(p)
      PROVE  Apart(Contents', got', batch', outside')
  <2>1. PICK b \in UNION {[1..n -> outside] : n \in 0..MaxBatch} :
          /\ \A i, j \in DOMAIN b : b[i] = b[j] => i = j
          /\ batch' = [batch EXCEPT ![p] = b]
          /\ outside' = outside \ Elements(b)
    BY Zenon, <1>1 DEF Fifo!Call, Fifo!Elements, Elements
  <2>2. Contents' = Contents /\ got' = got
    BY Zenon, <1>1 DEF Fifo!Call
  <2>3. AllDistinct(b) /\ Elements(b) \subseteq outside
    <3>1. PICK n \in 0 .. MaxBatch : b \in [1..n -> outside]
      BY Zenon
    <3>2. Elements(b) \subseteq outside
      BY Zenon, <3>1 DEF Elements
    <3>3. AllDistinct(b)
      BY Zenon, <2>1 DEF AllDistinct
    <3> QED BY Zenon, <3>2, <3>3
  <2>4. batch'[p] = b /\ \A q \in Producers \ {p} : batch'[q] = batch[q]
    BY Zenon, <2>1, <1>t
  <2>5. Apart(Contents, got, batch', outside \ Elements(b))
    BY Zenon, <1>a, <2>3, <2>4, CallApart
  <2> QED BY Zenon, <2>1, <2>2, <2>5
<1>2. ASSUME NEW p \in Producers, NEW n \in 0 .. MaxBatch, Fifo!Insert(p, n)
      PROVE  Apart(Contents', got', batch', outside')
  <2>1. /\ n <= Len(batch[p]) /\ batch' = [batch EXCEPT ![p] = <<>>]
        /\ got' = got /\ outside' = outside
        /\ Contents' = Contents \o SubSeq(batch[p], 1, n)
    BY Zenon, <1>2 DEF Fifo!Insert
  <2>2. batch[p] \in Seq(Mbufs)
    BY Zenon, <1>t
  <2>3. n \in 0 .. Len(batch[p])
    BY <2>1, <2>2
  <2>4. batch'[p] = <<>> /\ \A q \in Producers \ {p} : batch'[q] = batch[q]
    BY Zenon, <2>1, <1>t
  <2>5. Apart(Contents \o SubSeq(batch[p], 1, n), got, batch', outside)
    BY Zenon, <1>a, <1>t, <2>2, <2>3, <2>4, InsertApart
  <2> QED BY Zenon, <2>1, <2>5
<1>3. CASE Fifo!Take
  BY Zenon, <1>3, <1>a, <1>t, TakeApart DEF Fifo!Take
<1>4. CASE Fifo!Deliver
  <2>1. /\ Contents' = Contents /\ batch' = batch /\ got' = <<>>
        /\ outside' = outside \cup Elements(got)
    BY Zenon, <1>4 DEF Fifo!Deliver, Fifo!Elements, Elements
  <2> QED BY Zenon, <2>1, <1>a, DeliverApart
<1>5. CASE UNCHANGED Fifo!vars
  BY Zenon, <1>5, <1>a DEF Fifo!vars
<1> QED BY Zenon, <1>1, <1>2, <1>3, <1>4, <1>5 DEF Fifo!Next

\* Before the first call every mbuf is outside.
LEMMA InitApart == Init => OwnersApart
<1> SUFFICES ASSUME Init PROVE Apart(Contents, got, batch, outside)
  BY Zenon DEF OwnersApart
<1>1. /\ Contents = <<>> /\ got = <<>> /\ \A p \in Producers : batch[p] = <<>>
  BY Zenon, InitIsEmptyFifo DEF Fifo!Init
<1>2. \A S : S \cap Elements(<<>>) = {} /\ Elements(<<>>) \cap S = {}
  BY Zenon, EmptyElements
<1> QED BY Zenon, <1>1, <1>2, EmptyElements DEF Apart

\* The ring, the array of dequeue, the slices and the outside stay apart.
THEOREM OwnersStayApart == Spec => []OwnersApart
<1>1. Init => OwnersApart
  BY Zenon, InitApart
<1>2. IInv /\ IInv' /\ OwnersApart /\ [Next]_vars => OwnersApart'
  BY Zenon, StepsImplementFifo, FifoStepApart
<1> QED BY <1>1, <1>2, InductiveInvariant, PTL DEF Spec

\* No interleaving of enqueue and dequeue hands an mbuf to two owners: it is
\* outside, in one producer's slice, in the ring or in the consumer's array, and
\* once only.
THEOREM EveryMbufHasOneOwner == Spec => []OneOwner
<1>1. IInv /\ OwnersApart => OneOwner
  <2> SUFFICES ASSUME IInv, OwnersApart PROVE OneOwner
    BY Zenon
  <2> DEFINE owned == Contents \o got
  <2>1. got \in Seq(Mbufs) /\ Contents \in Seq(Mbufs)
    BY Zenon, ContentsKnown DEF IInv, TypeOK, ContentsFacts
  <2>2. /\ Elements(owned) = Elements(Contents) \cup Elements(got)
        /\ AllDistinct(owned)
    BY Zenon, <2>1, ConcatElements DEF OwnersApart, Apart
  <2>3. Elements(Contents) \subseteq Mbufs /\ Elements(got) \subseteq Mbufs
    <3>1. ASSUME NEW s \in Seq(Mbufs) PROVE Elements(s) \subseteq Mbufs
      BY DEF Elements
    <3> QED BY Zenon, <2>1, <3>1
  <2> HIDE DEF owned
  <2>4. Elements(owned) \subseteq Mbufs \ outside
    BY Zenon, <2>2, <2>3 DEF OwnersApart, Apart
  <2>5. ASSUME NEW p \in Producers
        PROVE  /\ Elements(batch[p]) \cap (outside \cup Elements(owned)) = {}
               /\ \A q \in Producers \ {p} : Elements(batch[p]) \cap Elements(batch[q]) = {}
    <3>1. /\ Elements(batch[p]) \cap outside = {} /\ Elements(batch[p]) \cap Elements(got) = {}
          /\ Elements(batch[p]) \cap Elements(Contents) = {}
          /\ \A q \in Producers \ {p} : Elements(batch[p]) \cap Elements(batch[q]) = {}
      BY Zenon DEF OwnersApart, Apart
    <3> QED BY Zenon, <2>2, <3>1
  <2>6. \A i, j \in DOMAIN owned : owned[i] = owned[j] => i = j
    BY Zenon, <2>2 DEF AllDistinct
  <2> QED BY Zenon, <2>4, <2>5, <2>6 DEF OneOwner, owned
<1> QED BY <1>1, OwnersStayApart, InductiveInvariant, PTL
=============================================================================

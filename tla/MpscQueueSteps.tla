---------------------------- MODULE MpscQueueSteps ----------------------------
(***************************************************************************)
(* What the proofs about MpscQueue rest on: the arithmetic of its wrapping *)
(* counters, facts of the inductive invariant that several steps use, and, *)
(* action by action, that clone and enqueue preserve it.                   *)
(***************************************************************************)
EXTENDS MpscQueue, TLAPS

\* Time limit of the SMT backend for the leaves that name no other backend.
USE SMTT(60)

(***************************************************************************)
(* Arithmetic of the wrapping counters.                                    *)
(***************************************************************************)

\* A multiple of s strictly between -s and s is zero.
LEMMA SmallMultiple ==
  ASSUME NEW s \in Nat \ {0}, NEW z \in Int, s * z < s, -s < s * z
  PROVE  z = 0
<1>1. CASE z >= 1
  <2>1. s * z >= s BY <1>1
  <2> QED BY <2>1
<1>2. CASE z <= -1
  <2>1. s * z <= -s BY <1>2
  <2> QED BY <2>1
<1> QED BY <1>1, <1>2

\* x & mask is an index of the slot array.
LEMMA SlotOfRange ==
  ASSUME NEW x \in Nat
  PROVE  SlotOf(x) \in 0 .. Slots - 1
BY SizesAssumption DEF SlotOf

\* Quotient and remainder of x & mask.
LEMMA SlotOfDivision ==
  ASSUME NEW x \in Nat
  PROVE  \E q \in Int : x = Slots * q + SlotOf(x)
<1>1. x = Slots * (x \div Slots) + (x % Slots) BY SizesAssumption
<1>2. x \div Slots \in Int BY SizesAssumption
<1> QED BY Zenon, <1>1, <1>2 DEF SlotOf

\* Two counters fewer than slots positions past a third use different slots:
\* this needs the slots to divide the word.
LEMMA SlotInjective ==
  ASSUME NEW t \in Words, NEW a \in Words, NEW b \in Words,
         WSub(a, t) < Slots, WSub(b, t) < Slots, SlotOf(a) = SlotOf(b)
  PROVE  a = b
<1>1. PICK k \in Int : Word = Slots * k
  <2>1. Word = Slots * (Word \div Slots) + (Word % Slots) BY SizesAssumption
  <2>2. Word \div Slots \in Int BY SizesAssumption
  <2>3. Word = Slots * (Word \div Slots) BY <2>1, <2>2, SizesAssumption
  <2> QED BY <2>2, <2>3, Zenon
<1>2. a \in Nat /\ b \in Nat /\ t \in Nat BY SizesAssumption DEF Words
<1>3. PICK qa \in Int : a = Slots * qa + SlotOf(a) BY Zenon, <1>2, SlotOfDivision
<1>4. PICK qb \in Int : b = Slots * qb + SlotOf(b) BY Zenon, <1>2, SlotOfDivision
<1>5. SlotOf(a) \in Int BY <1>2, SlotOfRange, SizesAssumption
<1>6. a - b = Slots * (qa - qb) BY <1>3, <1>4, <1>5, SizesAssumption
<1>7. \E e \in {-1, 0, 1} : WSub(a, t) - WSub(b, t) = (a - b) + e * Word
  BY <1>2, SizesAssumption DEF WSub
<1>8. PICK e \in {-1, 0, 1} : WSub(a, t) - WSub(b, t) = (a - b) + e * Word BY Zenon, <1>7
<1>9. WSub(a, t) - WSub(b, t) = Slots * (qa - qb + e * k)
  BY <1>1, <1>6, <1>8, SizesAssumption
<1>10. WSub(a, t) \in Nat /\ WSub(b, t) \in Nat
  BY SizesAssumption DEF WSub, Words
<1>11. WSub(a, t) - WSub(b, t) < Slots /\ -Slots < WSub(a, t) - WSub(b, t)
  BY <1>10, SizesAssumption
<1>12. qa - qb + e * k = 0
  BY <1>9, <1>11, SmallMultiple, SizesAssumption
<1>13. WSub(a, t) = WSub(b, t) BY <1>9, <1>10, <1>12, SizesAssumption
<1> QED BY <1>13, SizesAssumption DEF WSub, Words

\* Moving a counter by n moves its distance from t by n, while that fits a word.
LEMMA OffsetAdd ==
  ASSUME NEW t \in Words, NEW a \in Words, NEW n \in Nat, WSub(a, t) + n < Word
  PROVE  WAdd(a, n) \in Words /\ WSub(WAdd(a, n), t) = WSub(a, t) + n
BY SizesAssumption DEF Words, WAdd, WSub

\* Distances re-based from t to c, a counter between t and a.
LEMMA OffsetRebase ==
  ASSUME NEW t \in Words, NEW c \in Words, NEW a \in Words, WSub(c, t) <= WSub(a, t)
  PROVE  WSub(a, c) = WSub(a, t) - WSub(c, t)
BY SizesAssumption DEF Words, WSub

\* Distances are words, and a counter is determined by its distance.
LEMMA OffsetWord ==
  ASSUME NEW t \in Words, NEW a \in Words
  PROVE  /\ WSub(a, t) \in 0 .. Word - 1
         /\ \A b \in Words : WSub(a, t) = WSub(b, t) => a = b
         /\ WSub(t, t) = 0
BY SizesAssumption DEF Words, WSub

\* Distances add up, while the sum fits a word.
LEMMA OffsetFrom ==
  ASSUME NEW t \in Words, NEW h \in Words, NEW a \in Words,
         WSub(h, t) + WSub(a, h) < Word
  PROVE  WSub(a, t) = WSub(h, t) + WSub(a, h)
BY SizesAssumption DEF Words, WSub

\* Ranges of n numbers from a on and of m from b on that do not overlap.
LEMMA RangesApart ==
  ASSUME NEW a \in Nat, NEW b \in Nat, NEW n \in Nat, NEW m \in Nat, NEW i \in Nat, NEW j \in Nat,
         a + n <= b \/ b + m <= a, i < n, j < m
  PROVE  a + i # b + j
OBVIOUS

\* The free count is a word, and it is exact when producer.head is within the
\* ring.
LEMMA FreeSlotsExact ==
  ASSUME NEW h \in Words, NEW t \in Words
  PROVE  /\ FreeSlots(h, t) \in Nat
         /\ WSub(h, t) <= Mask => FreeSlots(h, t) = Mask - WSub(h, t)
BY SizesAssumption DEF Words, WAdd, WSub, FreeSlots, Mask

-----------------------------------------------------------------------------
(* Facts of the inductive invariant. *)

\* The distances the invariant compares, and the bound on them, are naturals.
OffsetsAreWords ==
  /\ Mask \in Nat
  /\ Offset(cons_head) \in Nat /\ Offset(prod_tail) \in Nat /\ Offset(prod_head) \in Nat
  /\ \A p \in Producers : Offset(head[p]) \in Nat

\* The type invariant makes every distance from consumer.tail a natural number.
LEMMA OffsetsTyped ==
  ASSUME TypeOK
  PROVE  OffsetsAreWords
<1>1. \A i \in Words : Offset(i) \in Nat
  <2>1. cons_tail \in Words BY Zenon DEF TypeOK
  <2> QED BY <2>1, OffsetWord, SizesAssumption DEF Offset
<1>2. Mask \in Nat
  BY SizesAssumption DEF Mask
<1> QED BY Zenon, <1>1, <1>2 DEF OffsetsAreWords, TypeOK

\* A call that returns resets its locals to values of their types.
LEMMA ReturnTyped ==
  ASSUME TypeOK, NEW p \in Producers, Return(p)
  PROVE  /\ ppc' \in [Producers -> ProducerPC]
         /\ batch' \in [Producers -> Seq(Mbufs)]
         /\ sp' \in [Producers -> BOOLEAN]
         /\ head' \in [Producers -> Words]
         /\ insert' \in [Producers -> 0..MaxBatch]
         /\ written' \in [Producers -> 0..MaxBatch]
<1>1. "idle" \in ProducerPC /\ <<>> \in Seq(Mbufs) /\ 0 \in Words /\ 0 \in 0..MaxBatch
  BY SizesAssumption DEF ProducerPC, Words
<1>2. ppc' \in [Producers -> ProducerPC] /\ batch' \in [Producers -> Seq(Mbufs)]
  BY Zenon, <1>1 DEF TypeOK, Return
<1>3. sp' \in [Producers -> BOOLEAN] /\ head' \in [Producers -> Words]
  BY Zenon, <1>1 DEF TypeOK, Return
<1>4. insert' \in [Producers -> 0..MaxBatch] /\ written' \in [Producers -> 0..MaxBatch]
  BY Zenon, <1>1 DEF TypeOK, Return
<1> QED BY Zenon, <1>2, <1>3, <1>4

\* Steps that neither store a slot nor move a tail leave what the slots hold.
LEMMA SlotsHoldUntouched ==
  ASSUME IInv, TypeOK', UNCHANGED <<prod_tail, cons_tail, queue>>,
         \A r \in Producers : Reserving(r)' =>
           \/ /\ Reserving(r)
              /\ head'[r] = head[r] /\ batch'[r] = batch[r] /\ written'[r] = written[r]
           \/ written'[r] = 0
  PROVE  SlotsHold'
<1>1. \A i \in Words : Offset(i)' < Offset(prod_tail)' => queue'[SlotOf(i)] \in Mbufs
  BY Zenon DEF IInv, SlotsHold, Offset
<1>2. ASSUME NEW r \in Producers, Reserving(r)', NEW i \in Words,
             WSub(i, head'[r]) < written'[r]
      PROVE  queue'[SlotOf(i)] = batch'[r][WSub(i, head'[r]) + 1]
  <2>1. WSub(i, head'[r]) \in Nat
    BY OffsetWord, SizesAssumption DEF TypeOK
  <2>2. written'[r] # 0
    BY <1>2, <2>1
  <2> QED BY Zenon, <1>2, <2>2 DEF IInv, SlotsHold
<1> QED BY Zenon, <1>1, <1>2 DEF SlotsHold, Words, WSub

\* Steps that keep every reservation and the producers' two words keep the
\* reservations apart and chained.
LEMMA ReservationsUntouched ==
  ASSUME IInv, UNCHANGED <<prod_head, prod_tail, cons_tail>>,
         \A r \in Producers : Reserving(r)' <=> Reserving(r),
         \A r \in Producers :
           Reserving(r) => head'[r] = head[r] /\ insert'[r] = insert[r],
         \A r \in Producers : ppc'[r] = "commit" => ppc[r] = "commit"
  PROVE  ReservationsApart' /\ ReservationsChain'
<1>1. \A r \in Producers : Reserving(r) => EndOf(r)' = EndOf(r)
  BY Zenon DEF EndOf
<1>2. prod_tail' # prod_head' =>
        \E r \in Producers : Reserving(r)' /\ head'[r] = prod_tail'
  BY Zenon DEF IInv, ReservationsChain
<1>3. ASSUME NEW p \in Producers, Reserving(p)', EndOf(p)' # prod_head'
      PROVE  \E q \in Producers : Reserving(q)' /\ head'[q] = EndOf(p)'
  <2>1. Reserving(p) /\ EndOf(p)' = EndOf(p) /\ EndOf(p) # prod_head
    BY Zenon, <1>1, <1>3
  <2>2. PICK q \in Producers : Reserving(q) /\ head[q] = EndOf(p)
    BY Zenon, <2>1 DEF IInv, ReservationsChain
  <2>3. Reserving(q)' /\ head'[q] = EndOf(p)'
    BY Zenon, <2>1, <2>2
  <2> QED BY Zenon, <2>3
<1>4. \A r \in Producers : ppc'[r] = "commit" => head'[r] = prod_tail'
  <2>1. \A r \in Producers : ppc[r] = "commit" => Reserving(r)
    BY Zenon DEF Reserving
  <2> QED BY Zenon, <2>1 DEF IInv, ReservationsChain
<1>5. ReservationsApart'
  BY Zenon DEF IInv, ReservationsApart, Offset
<1> QED BY Zenon, <1>2, <1>3, <1>4, <1>5 DEF ReservationsChain

\* A reservation is never empty, so producer.tail is behind producer.head.
LEMMA ReservingNonempty ==
  ASSUME IInv, NEW p \in Producers, Reserving(p)
  PROVE  /\ insert[p] \in 1 .. Mask
         /\ Offset(head[p]) \in Nat /\ Offset(prod_tail) \in Nat /\ Offset(prod_head) \in Nat
         /\ Offset(head[p]) + insert[p] <= Mask
         /\ prod_tail # prod_head
<1>1. insert[p] \in Nat \ {0}
  BY DEF IInv, CallLocals, TypeOK
<1>2. Offset(head[p]) \in Nat /\ Offset(prod_tail) \in Nat /\ Offset(prod_head) \in Nat
  BY OffsetWord, SizesAssumption DEF Offset, IInv, TypeOK
<1>3. /\ Offset(prod_tail) <= Offset(head[p])
      /\ Offset(head[p]) + insert[p] <= Offset(prod_head)
      /\ Offset(prod_head) <= Mask
  BY Zenon DEF IInv, ReservationsApart, CountersOrdered
<1>4. Mask \in Nat
  BY SizesAssumption DEF Mask
<1> QED BY <1>1, <1>2, <1>3, <1>4

\* Steps of the consumer leave every conjunct about producers alone unless they
\* move consumer.tail.
LEMMA ProducersUntouched ==
  ASSUME IInv,
         UNCHANGED <<prod_head, prod_tail, cons_tail, queue, n_producers,
                     producerVars>>
  PROVE  /\ OneHandleOnSpPath' /\ CallLocals' /\ ReservationFits'
         /\ ReservationsApart' /\ ReservationsChain'
<1> USE DEF IInv, producerVars
<1>1. OneHandleOnSpPath'
  BY Zenon DEF OneHandleOnSpPath, Handles
<1>2. CallLocals'
  BY Zenon DEF CallLocals, Reserving
<1>3. ReservationFits'
  BY Zenon DEF ReservationFits, HoldsHead, Offset
<1>4. ReservationsApart'
  BY Zenon DEF ReservationsApart, Reserving, Offset
<1>5. ReservationsChain'
  BY Zenon DEF ReservationsChain, Reserving, EndOf
<1> QED BY Zenon, <1>1, <1>2, <1>3, <1>4, <1>5

-----------------------------------------------------------------------------
(* clone, and enqueue up to the exchange of producer.head *)

\* MpscProducer::clone adds an idle producer.
LEMMA CloneIInv ==
  ASSUME IInv, NEW p \in Producers, NEW q \in Producers, Clone(p, q)
  PROVE  IInv'
<1> USE DEF IInv, Clone
<1>1. TypeOK'
  BY DEF TypeOK, ProducerPC, consumerVars
<1>2. OneHandleOnSpPath'
  <2>1. \A r \in Producers : ~sp[r]
    BY Zenon DEF OneHandleOnSpPath
  <2>2. n_producers' # 1
    BY DEF TypeOK
  <2> QED BY Zenon, <2>1, <2>2 DEF OneHandleOnSpPath
<1>3. \A r \in Producers : ~Reserving(r) /\ ~Reserving(r)'
  BY Zenon DEF Reserving, TypeOK
<1>4. CallLocals'
  BY Zenon, <1>3 DEF CallLocals, TypeOK
<1>5. CountersOrdered'
  BY Zenon DEF CountersOrdered, Offset
<1>6. ReservationFits'
  BY Zenon DEF ReservationFits, HoldsHead, TypeOK
<1>7. ReservationsApart'
  BY Zenon, <1>3 DEF ReservationsApart
<1>8. ReservationsChain'
  BY Zenon, <1>3 DEF ReservationsChain, TypeOK
<1>9. DequeueLocals'
  BY Zenon DEF DequeueLocals, Offset, consumerVars
<1>10. SlotsHold'
  BY Zenon, <1>1, <1>3, SlotsHoldUntouched
<1> QED BY Zenon, <1>1, <1>2, <1>4, <1>5, <1>6, <1>7, <1>8, <1>9, <1>10

\* A call of enqueue takes its mbufs and chooses enqueue_sp or enqueue_mp.
LEMMA EnqueueIInv ==
  ASSUME IInv, NEW p \in Producers, Enqueue(p)
  PROVE  IInv'
<1> USE DEF IInv, shared, consumerVars
<1>0. PICK b \in Batches(outside) :
        batch' = [batch EXCEPT ![p] = b] /\ outside' = outside \ Elements(b)
  BY Zenon DEF Enqueue
<1>b. b \in Seq(Mbufs) /\ Len(b) <= MaxBatch
  <2>1. PICK n \in 0..MaxBatch : b \in [1..n -> outside]
    BY Zenon DEF Batches
  <2>2. b \in Seq(outside) /\ Len(b) = n
    BY <2>1, SizesAssumption
  <2> QED BY <2>2, SizesAssumption DEF TypeOK
<1>1. TypeOK'
  BY Zenon, <1>0, <1>b DEF TypeOK, ProducerPC, Enqueue
<1>2. OneHandleOnSpPath'
  BY Zenon DEF OneHandleOnSpPath, Handles, Enqueue, TypeOK
<1>3. \A r \in Producers : Reserving(r)' <=> Reserving(r)
  BY Zenon DEF Reserving, TypeOK, Enqueue
<1>4. CallLocals'
  BY Zenon, <1>0, <1>b, <1>3 DEF CallLocals, TypeOK, Enqueue, Reserving
<1>5. CountersOrdered'
  BY Zenon DEF CountersOrdered, Offset, Enqueue
<1>6. ReservationFits'
  BY Zenon DEF ReservationFits, HoldsHead, TypeOK, Enqueue, Offset
<1>7. ReservationsApart'
  BY Zenon, <1>3 DEF ReservationsApart, Enqueue, Offset
<1>8. ReservationsChain'
  BY Zenon, <1>3 DEF ReservationsChain, TypeOK, Enqueue, EndOf
<1>9. DequeueLocals'
  BY Zenon DEF DequeueLocals, Offset, Enqueue
<1>10. SlotsHold'
  <2>1. \A r \in Producers : Reserving(r) => batch'[r] = batch[r]
    BY Zenon, <1>0 DEF Reserving, TypeOK, Enqueue
  <2> QED BY Zenon, <1>1, <1>3, <2>1, SlotsHoldUntouched DEF Enqueue
<1> QED BY Zenon, <1>1, <1>2, <1>4, <1>5, <1>6, <1>7, <1>8, <1>9, <1>10

\* enqueue loads producer.head: the snapshot equals the current value.
LEMMA LoadHeadIInv ==
  ASSUME IInv, NEW p \in Producers, LoadHead(p)
  PROVE  IInv'
<1> USE DEF IInv, LoadHead, shared, consumerVars
<1>1. TypeOK'
  BY Zenon DEF TypeOK, ProducerPC
<1>2. OneHandleOnSpPath'
  BY Zenon DEF OneHandleOnSpPath, Handles, TypeOK
<1>3. \A r \in Producers : Reserving(r)' <=> Reserving(r)
  BY Zenon DEF Reserving, TypeOK
<1>h. \A r \in Producers : Reserving(r) => head'[r] = head[r]
  BY Zenon DEF Reserving, TypeOK
<1>4. CallLocals'
  BY Zenon, <1>3 DEF CallLocals, TypeOK, Reserving
<1>5. CountersOrdered'
  BY Zenon DEF CountersOrdered, Offset
<1>6. ReservationFits'
  BY Zenon DEF ReservationFits, HoldsHead, TypeOK, Offset
<1>7. ReservationsApart' /\ ReservationsChain'
  <2>1. \A r \in Producers : ppc'[r] = "commit" => ppc[r] = "commit"
    BY Zenon DEF TypeOK
  <2> QED BY Zenon, <1>3, <1>h, <2>1, ReservationsUntouched
<1>9. DequeueLocals'
  BY Zenon DEF DequeueLocals, Offset
<1>10. SlotsHold'
  BY Zenon, <1>1, <1>3, <1>h, SlotsHoldUntouched
<1> QED BY Zenon, <1>1, <1>2, <1>4, <1>5, <1>6, <1>7, <1>9, <1>10

\* enqueue loads consumer.tail: the free count it derives is no larger than the
\* true one unless producer.head has moved, in which case the exchange fails.
LEMMA LoadTailIInv ==
  ASSUME IInv, NEW p \in Producers, LoadTail(p)
  PROVE  IInv'
<1> DEFINE n == MinOf(FreeSlots(head[p], cons_tail), Len(batch[p]))
<1> USE DEF IInv, shared, consumerVars
<1>n. n \in 0 .. Len(batch[p]) /\ n <= FreeSlots(head[p], cons_tail)
  <2>1. FreeSlots(head[p], cons_tail) \in Nat
    BY Zenon, FreeSlotsExact DEF TypeOK
  <2>2. Len(batch[p]) \in Nat
    BY DEF TypeOK
  <2> QED BY <2>1, <2>2 DEF MinOf
<1>0. /\ ppc[p] = "load_tail"
      /\ UNCHANGED <<prod_head, prod_tail, cons_head, cons_tail, queue,
                     n_producers, cpc, dequeue, got, outside>>
  BY Zenon DEF LoadTail
<1>d. \/ n = 0 /\ Return(p)
      \/ /\ n > 0
         /\ insert' = [insert EXCEPT ![p] = n]
         /\ ppc' = [ppc EXCEPT ![p] = "reserve"]
         /\ UNCHANGED <<batch, sp, head, written>>
  BY Zenon DEF LoadTail
<1> HIDE DEF n
<1>3. \A r \in Producers : Reserving(r)' <=> Reserving(r)
  BY Zenon, <1>0, <1>d DEF Reserving, TypeOK, Return
<1>h. \A r \in Producers :
        Reserving(r) => /\ head'[r] = head[r] /\ insert'[r] = insert[r]
                        /\ batch'[r] = batch[r] /\ written'[r] = written[r]
  BY Zenon, <1>0, <1>d DEF Reserving, TypeOK, Return
<1>c. /\ CountersOrdered' /\ DequeueLocals'
  BY Zenon, <1>0 DEF CountersOrdered, DequeueLocals, Offset
<1>7. ReservationsApart' /\ ReservationsChain'
  <2>1. \A r \in Producers : ppc'[r] = "commit" => ppc[r] = "commit"
    BY Zenon, <1>0, <1>d DEF TypeOK, Return
  <2> QED BY Zenon, <1>0, <1>3, <1>h, <2>1, ReservationsUntouched
<1>A. CASE n = 0 /\ Return(p)
  <2> USE DEF Return
  <2>1. TypeOK'
    BY Zenon, <1>0, <1>A, ReturnTyped DEF TypeOK
  <2>2. OneHandleOnSpPath'
    BY Zenon, <1>0, <1>A DEF OneHandleOnSpPath, Handles, TypeOK
  <2>4. CallLocals'
    BY <1>0, <1>A, <1>3, SizesAssumption DEF CallLocals, TypeOK, Reserving
  <2>6. ReservationFits'
    BY Zenon, <1>0, <1>A DEF ReservationFits, HoldsHead, TypeOK, Offset
  <2>7. SlotsHold'
    BY Zenon, <1>0, <1>3, <1>h, <2>1, SlotsHoldUntouched
  <2> QED BY Zenon, <1>c, <1>7, <2>1, <2>2, <2>4, <2>6, <2>7
<1>B. CASE /\ n > 0
           /\ insert' = [insert EXCEPT ![p] = n]
           /\ ppc' = [ppc EXCEPT ![p] = "reserve"]
           /\ UNCHANGED <<batch, sp, head, written>>
  <2>1. TypeOK'
    BY <1>0, <1>n, <1>B, SizesAssumption DEF TypeOK, ProducerPC, CallLocals
  <2>2. OneHandleOnSpPath'
    BY Zenon, <1>0, <1>B DEF OneHandleOnSpPath, Handles, TypeOK
  <2>4. CallLocals'
    BY <1>0, <1>n, <1>B, <1>3 DEF CallLocals, TypeOK, Reserving
  <2>5. head[p] = prod_head => Offset(prod_head) + n <= Mask
    <3>1. FreeSlots(prod_head, cons_tail) = Mask - Offset(prod_head)
      BY Zenon, FreeSlotsExact DEF TypeOK, CountersOrdered, Offset
    <3>2. Offset(prod_head) \in Nat /\ Mask \in Nat
      BY OffsetWord, SizesAssumption DEF Offset, Mask, TypeOK
    <3> QED BY <1>n, <3>1, <3>2
  <2>6. ReservationFits'
    BY Zenon, <1>0, <1>B, <2>5 DEF ReservationFits, HoldsHead, TypeOK, Offset
  <2>7. SlotsHold'
    BY Zenon, <1>0, <1>3, <1>h, <2>1, SlotsHoldUntouched
  <2> QED BY Zenon, <1>c, <1>7, <2>1, <2>2, <2>4, <2>6, <2>7
<1> QED BY Zenon, <1>d, <1>A, <1>B

\* Shared by ReserveSp and ReserveMp: producer.head moves from head[p], and no
\* other producer's loaded head is met by the new value.
LEMMA StartWritingIInv ==
  ASSUME IInv, NEW p \in Producers, ppc[p] = "reserve", head[p] = prod_head,
         NotOvertaken(p), StartWriting(p),
         UNCHANGED <<prod_tail, cons_head, cons_tail, queue, n_producers, batch,
                     sp, head, insert, consumerVars, outside>>
  PROVE  IInv'
<1>0. /\ insert[p] \in 1..MaxBatch
      /\ Offset(prod_head) + insert[p] <= Mask
  BY SizesAssumption DEF IInv, CallLocals, ReservationFits, TypeOK
<1>n. insert[p] \in Nat /\ insert[p] > 0
  BY <1>0, SizesAssumption
<1>s. prod_head' = EndOf(p) /\ ppc' = [ppc EXCEPT ![p] = "write"] /\ written' = written
  BY Zenon DEF StartWriting, EndOf
<1>o. OffsetsAreWords
  BY Zenon, OffsetsTyped DEF IInv
<1>p. \A r \in Producers : ppc'[r] = IF r = p THEN "write" ELSE ppc[r]
  BY Zenon, <1>s DEF IInv, TypeOK
<1>w. /\ prod_head' \in Words
      /\ Offset(prod_head)' = Offset(prod_head) + insert[p]
  <2>1. prod_head \in Words /\ cons_tail \in Words /\ WSub(prod_head, cons_tail) \in Nat
    BY Zenon, <1>o DEF IInv, TypeOK, OffsetsAreWords, Offset
  <2>2. WSub(prod_head, cons_tail) + insert[p] < Word
    BY <1>0, <2>1, SizesAssumption DEF Offset, Mask
  <2>3. /\ WAdd(prod_head, insert[p]) \in Words
        /\ WSub(WAdd(prod_head, insert[p]), cons_tail) = WSub(prod_head, cons_tail) + insert[p]
    BY Zenon, <1>n, <2>1, <2>2, OffsetAdd
  <2> QED BY Zenon, <1>s, <2>3 DEF Offset, EndOf
<1>1. TypeOK'
  BY Zenon, <1>s, <1>w DEF IInv, TypeOK, ProducerPC, consumerVars
<1>2. OneHandleOnSpPath'
  BY Zenon, <1>p DEF IInv, OneHandleOnSpPath, Handles
<1>3. /\ Reserving(p)' /\ ~Reserving(p)
      /\ \A r \in Producers \ {p} : Reserving(r)' <=> Reserving(r)
  BY Zenon, <1>p DEF Reserving
<1>4. CallLocals'
  BY <1>0, <1>p, <1>s, <1>3 DEF IInv, CallLocals, TypeOK, Reserving
<1>5. CountersOrdered'
  <2>1. Offset(prod_tail)' = Offset(prod_tail) /\ Offset(cons_head)' = Offset(cons_head)
    BY Zenon DEF Offset
  <2>2. CountersOrdered
    BY Zenon DEF IInv
  <2> QED BY <1>0, <1>o, <1>w, <2>1, <2>2 DEF CountersOrdered, OffsetsAreWords
<1>6. ReservationFits'
  <2> SUFFICES ASSUME NEW q \in Producers, HoldsHead(q)'
               PROVE  head[q] # prod_head' /\ ~sp[q]
    BY Zenon DEF ReservationFits, HoldsHead
  <2>1. q # p /\ HoldsHead(q)
    BY Zenon, <1>p DEF HoldsHead
  <2>2. WSub(prod_head, head[q]) + insert[p] < Word
    BY Zenon, <2>1 DEF NotOvertaken
  <2>3. prod_head \in Words /\ head[q] \in Words
    BY Zenon DEF IInv, TypeOK
  <2>4. WSub(WAdd(prod_head, insert[p]), head[q]) = WSub(prod_head, head[q]) + insert[p]
    BY Zenon, <1>n, <2>2, <2>3, OffsetAdd
  <2>5. WSub(prod_head, head[q]) \in Nat /\ WSub(head[q], head[q]) = 0
    BY <2>3, OffsetWord, SizesAssumption
  <2>6. head[q] # WAdd(prod_head, insert[p])
    BY <1>n, <2>4, <2>5
  <2>7. ~sp[q]
    BY Zenon, <2>1 DEF IInv, OneHandleOnSpPath, Handles, HoldsHead
  <2> QED BY Zenon, <1>s, <2>6, <2>7 DEF EndOf
<1>7. ReservationsApart'
  <2>1. /\ Offset(prod_tail)' = Offset(prod_tail)
        /\ \A r \in Producers : Offset(head[r])' = Offset(head[r])
    BY Zenon DEF Offset
  <2>2. /\ Offset(prod_tail) <= Offset(head[p])
        /\ \A r \in Producers : Reserving(r) =>
             r # p /\ Offset(head[r]) + insert[r] <= Offset(head[p])
    BY Zenon, <1>3 DEF IInv, ReservationsApart, CountersOrdered
  <2>3. \A r \in Producers : insert[r] \in Nat /\ insert'[r] = insert[r] /\ head'[r] = head[r]
    BY SizesAssumption DEF IInv, TypeOK
  <2>4. \A r, q \in Producers : Reserving(r)' /\ Reserving(q)' /\ q # r =>
          \/ Offset(head[r]) + insert[r] <= Offset(head[q])
          \/ Offset(head[q]) + insert[q] <= Offset(head[r])
    BY Zenon, <1>3, <2>2 DEF IInv, ReservationsApart
  <2>5. Offset(prod_tail) <= Offset(head[p])' /\ Offset(head[p])' + insert[p] <= Offset(prod_head)'
    BY <1>n, <1>o, <1>w, <2>1, <2>2 DEF OffsetsAreWords
  <2>6. ASSUME NEW r \in Producers \ {p}, Reserving(r)
        PROVE  Offset(prod_tail) <= Offset(head[r]) /\ Offset(head[r]) + insert[r] <= Offset(prod_head)'
    <3>1. Offset(prod_tail) <= Offset(head[r]) /\ Offset(head[r]) + insert[r] <= Offset(prod_head)
      BY Zenon, <2>6 DEF IInv, ReservationsApart
    <3> QED BY <1>n, <1>o, <1>w, <2>3, <3>1 DEF OffsetsAreWords
  <2> QED BY Zenon, <1>3, <2>1, <2>3, <2>4, <2>5, <2>6 DEF ReservationsApart
<1>8. ReservationsChain'
  <2>1. EndOf(p)' = prod_head'
    BY Zenon, <1>s DEF EndOf
  <2>2. \A r \in Producers : EndOf(r)' = EndOf(r)
    BY Zenon DEF EndOf
  <2>3. ReservationsChain
    BY Zenon DEF IInv
  <2> QED BY <1>3, <1>p, <2>1, <2>2, <2>3 DEF ReservationsChain
<1>9. DequeueLocals'
  BY Zenon DEF IInv, DequeueLocals, Offset, consumerVars
<1>10. SlotsHold'
  <2>1. written'[p] = 0
    BY Zenon, <1>3, <1>s DEF IInv, CallLocals
  <2> QED BY Zenon, <1>1, <1>3, <1>s, <2>1, SlotsHoldUntouched
<1> QED BY Zenon, <1>1, <1>2, <1>4, <1>5, <1>6, <1>7, <1>8, <1>9, <1>10 DEF IInv

\* enqueue_sp stores the new producer.head: nobody else moved it.
LEMMA ReserveSpIInv ==
  ASSUME IInv, NEW p \in Producers, ReserveSp(p)
  PROVE  IInv'
<1>1. ppc[p] = "reserve" /\ sp[p] /\ n_producers = 1
  BY Zenon DEF ReserveSp, IInv, OneHandleOnSpPath
<1>2. head[p] = prod_head
  BY Zenon, <1>1 DEF IInv, ReservationFits, HoldsHead
<1>3. NotOvertaken(p)
  BY Zenon, <1>1 DEF NotOvertaken, HoldsHead, IInv, OneHandleOnSpPath, Handles
<1> QED BY Zenon, <1>1, <1>2, <1>3, StartWritingIInv DEF ReserveSp

\* enqueue_mp's compare_exchange succeeds only on an unchanged producer.head.
LEMMA ReserveMpIInv ==
  ASSUME IInv, NEW p \in Producers, ReserveMp(p)
  PROVE  IInv'
<1>1. CASE prod_head = head[p]
  <2>1. /\ ppc[p] = "reserve" /\ NotOvertaken(p) /\ StartWriting(p)
        /\ UNCHANGED <<prod_tail, cons_head, cons_tail, queue, n_producers,
                       batch, sp, head, insert, consumerVars, outside>>
    BY Zenon, <1>1 DEF ReserveMp
  <2> QED BY Zenon, <1>1, <2>1, StartWritingIInv
<1>2. CASE prod_head # head[p]
  <2>0. /\ ppc[p] = "reserve"
        /\ ppc' = [ppc EXCEPT ![p] = "load_head"]
        /\ head' = [head EXCEPT ![p] = 0]
        /\ insert' = [insert EXCEPT ![p] = 0]
        /\ UNCHANGED <<prod_head, prod_tail, cons_head, cons_tail, queue,
                       n_producers, batch, sp, written, cpc, dequeue, got, outside>>
    BY Zenon, <1>2 DEF ReserveMp, consumerVars
  <2> USE DEF IInv
  <2>1. TypeOK'
    <3>1. 0 \in Words /\ 0 \in 0..MaxBatch
      BY SizesAssumption DEF Words
    <3>2. /\ ppc' \in [Producers -> ProducerPC]
          /\ head' \in [Producers -> Words]
          /\ insert' \in [Producers -> 0..MaxBatch]
      BY Zenon, <2>0, <3>1 DEF TypeOK, ProducerPC
    <3> QED BY Zenon, <2>0, <3>2 DEF TypeOK
  <2>2. OneHandleOnSpPath'
    BY Zenon, <2>0 DEF OneHandleOnSpPath, Handles, TypeOK
  <2>3. \A r \in Producers : Reserving(r)' <=> Reserving(r)
    BY Zenon, <2>0 DEF Reserving, TypeOK
  <2>h. \A r \in Producers :
          Reserving(r) => head'[r] = head[r] /\ insert'[r] = insert[r]
    BY Zenon, <2>0 DEF Reserving, TypeOK
  <2>4. CallLocals'
    BY Zenon, <2>0, <2>3 DEF CallLocals, TypeOK, Reserving
  <2>5. CountersOrdered' /\ DequeueLocals'
    BY Zenon, <2>0 DEF CountersOrdered, DequeueLocals, Offset
  <2>6. ReservationFits'
    BY Zenon, <2>0 DEF ReservationFits, HoldsHead, TypeOK, Offset
  <2>7. ReservationsApart' /\ ReservationsChain'
    <3>1. \A r \in Producers : ppc'[r] = "commit" => ppc[r] = "commit"
      BY Zenon, <2>0 DEF TypeOK
    <3> QED BY Zenon, <2>0, <2>3, <2>h, <3>1, ReservationsUntouched
  <2>9. SlotsHold'
    <3> HIDE DEF IInv
    <3>1. \A r \in Producers : Reserving(r)' =>
            /\ Reserving(r) /\ head'[r] = head[r]
            /\ batch'[r] = batch[r] /\ written'[r] = written[r]
      BY Zenon, <2>0, <2>3, <2>h
    <3>2. UNCHANGED <<prod_tail, cons_tail, queue>>
      BY Zenon, <2>0
    <3> QED BY Zenon, <2>1, <3>1, <3>2, SlotsHoldUntouched
  <2> QED BY Zenon, <2>1, <2>2, <2>4, <2>5, <2>6, <2>7, <2>9
<1> QED BY Zenon, <1>1, <1>2

-----------------------------------------------------------------------------
(* enqueue after its reservation *)

\* enqueue_mbufs stores one mbuf into a slot of the producer's own range.
LEMMA WriteSlotIInv ==
  ASSUME IInv, NEW p \in Producers, WriteSlot(p)
  PROVE  IInv'
<1> DEFINE i == SlotOf(WAdd(head[p], written[p]))
<1> USE DEF IInv, consumerVars
<1>0. /\ ppc[p] = "write"
      /\ queue' = [queue EXCEPT ![i] = batch[p][written[p] + 1]]
      /\ written' = [written EXCEPT ![p] = @ + 1]
      /\ ppc' = [ppc EXCEPT ![p] =
                   IF written[p] + 1 < insert[p] THEN "write"
                   ELSE IF sp[p] THEN "commit" ELSE "await"]
      /\ UNCHANGED <<prod_head, prod_tail, cons_head, cons_tail, n_producers,
                     batch, sp, head, insert, cpc, dequeue, got, outside>>
  BY Zenon DEF WriteSlot
<1> HIDE DEF i
<1>l. /\ Reserving(p)
      /\ written[p] \in Nat /\ insert[p] \in 1 .. Len(batch[p])
      /\ written[p] + 1 <= insert[p] /\ Len(batch[p]) \in Nat /\ Len(batch[p]) <= MaxBatch
  BY <1>0 DEF CallLocals, Reserving, TypeOK
<1>1. TypeOK'
  <2>1. batch[p][written[p] + 1] \in Mbufs
    BY <1>l DEF TypeOK
  <2>2. queue' \in [0 .. Slots - 1 -> Mbufs \cup {NoMbuf}]
    BY Zenon, <1>0, <2>1 DEF TypeOK
  <2>3. written' \in [Producers -> 0..MaxBatch]
    <3>1. written[p] + 1 \in 0..MaxBatch
      BY <1>l, SizesAssumption
    <3> QED BY Zenon, <1>0, <3>1 DEF TypeOK
  <2>4. ppc' \in [Producers -> ProducerPC]
    BY Zenon, <1>0 DEF TypeOK, ProducerPC
  <2> QED BY Zenon, <1>0, <2>2, <2>3, <2>4 DEF TypeOK
<1>p. \A r \in Producers \ {p} : ppc'[r] = ppc[r] /\ written'[r] = written[r]
  BY Zenon, <1>0 DEF TypeOK
<1>q. /\ ppc'[p] \in {"write", "await", "commit"}
      /\ ppc'[p] = "write" => written[p] + 1 < insert[p]
      /\ ppc'[p] = "commit" => sp[p]
      /\ written'[p] = written[p] + 1
  BY Zenon, <1>0 DEF TypeOK
<1>2. OneHandleOnSpPath'
  BY <1>0, <1>p, <1>q DEF OneHandleOnSpPath, Handles
<1>3. \A r \in Producers : Reserving(r)' <=> Reserving(r)
  BY Zenon, <1>0, <1>p, <1>q DEF Reserving
<1>4. CallLocals'
  BY <1>0, <1>l, <1>p, <1>q, <1>3 DEF CallLocals, Reserving
<1>5. CountersOrdered' /\ DequeueLocals'
  BY Zenon, <1>0 DEF CountersOrdered, DequeueLocals, Offset
<1>6. ReservationFits'
  BY <1>0, <1>p, <1>q DEF ReservationFits, HoldsHead, Offset
<1>7. ReservationsApart'
  BY Zenon, <1>0, <1>3 DEF ReservationsApart, Offset
<1>8. ReservationsChain'
  <2>1. ppc'[p] = "commit" => head[p] = prod_tail
    <3> SUFFICES ASSUME sp[p] PROVE head[p] = prod_tail
      BY Zenon, <1>q
    <3>1. PICK r \in Producers : Reserving(r) /\ head[r] = prod_tail
      BY Zenon, <1>l, ReservingNonempty DEF ReservationsChain
    <3>2. r = p
      BY Zenon, <3>1, <1>0 DEF OneHandleOnSpPath, Handles, Reserving
    <3> QED BY Zenon, <3>1, <3>2
  <2>2. \A r \in Producers : EndOf(r)' = EndOf(r)
    BY Zenon, <1>0 DEF EndOf
  <2> QED BY <1>0, <1>p, <1>3, <2>1, <2>2 DEF ReservationsChain
<1>9. SlotsHold'
  <2> DEFINE x == WAdd(head[p], written[p])
  <2>1. /\ Offset(head[p]) \in Nat /\ Offset(head[p]) + insert[p] <= Mask
        /\ Mask \in Nat /\ Mask < Slots /\ Slots < Word /\ insert[p] \in Nat
        /\ head[p] \in Words /\ cons_tail \in Words
    BY <1>l, ReservingNonempty, SizesAssumption DEF Mask, TypeOK
  <2>2. /\ x \in Words
        /\ Offset(x) = Offset(head[p]) + written[p]
        /\ WSub(x, head[p]) = written[p]
    <3>1. WSub(head[p], cons_tail) + written[p] < Word /\ written[p] < Word
      <4>1. written[p] \in Nat /\ written[p] < insert[p]
        BY <1>l
      <4>2. Offset(head[p]) + written[p] < Word /\ written[p] < Word
        BY <2>1, <4>1, SizesAssumption
      <4> QED BY Zenon, <4>2 DEF Offset
    <3>2. WSub(head[p], head[p]) = 0
      BY Zenon, <2>1, OffsetWord
    <3> QED BY <1>l, <2>1, <3>1, <3>2, OffsetAdd DEF Offset
  <2>3. queue' = [queue EXCEPT ![SlotOf(x)] = batch[p][written[p] + 1]]
    BY Zenon, <1>0 DEF i
  <2>4. SlotOf(x) \in DOMAIN queue
    <3>1. x \in Nat
      BY <2>2, SizesAssumption DEF Words
    <3> QED BY Zenon, <3>1, SlotOfRange DEF TypeOK
  <2>5. Offset(x) < Slots
    BY <1>l, <2>1, <2>2, SizesAssumption
  <2> HIDE DEF x
  \* Positions within the ring other than x keep their slot.
  <2>6. ASSUME NEW y \in Words, Offset(y) < Slots, y # x
        PROVE  queue'[SlotOf(y)] = queue[SlotOf(y)]
    <3>1. SlotOf(y) # SlotOf(x)
      BY Zenon, <2>1, <2>2, <2>5, <2>6, SlotInjective DEF Offset
    <3> QED BY <2>3, <3>1 DEF TypeOK
  <2>7. ASSUME NEW y \in Words, Offset(y)' < Offset(prod_tail)'
        PROVE  queue'[SlotOf(y)] \in Mbufs
    <3>1. Offset(y) < Offset(prod_tail) /\ Offset(y) \in Nat /\ Offset(prod_tail) \in Nat
      BY <1>0, <2>7, OffsetWord, SizesAssumption DEF Offset, TypeOK
    <3>2. Offset(prod_tail) <= Offset(head[p])
      BY Zenon, <1>l DEF ReservationsApart
    <3>3. Offset(y) < Slots /\ Offset(y) < Offset(x)
      <4>1. /\ Offset(head[p]) \in Nat /\ written[p] \in Nat
            /\ Offset(x) = Offset(head[p]) + written[p] /\ Offset(x) < Slots
        BY Zenon, <1>l, <2>1, <2>2, <2>5
      <4>2. Offset(y) < Offset(x)
        BY <3>1, <3>2, <4>1
      <4> QED BY <3>1, <4>1, <4>2, SizesAssumption
    <3>4. y # x
      BY <2>1, <2>2, <3>1, <3>3
    <3> QED BY Zenon, <2>6, <3>1, <3>3, <3>4 DEF SlotsHold
  <2>8. ASSUME NEW r \in Producers, Reserving(r)', NEW y \in Words,
               WSub(y, head'[r]) < written'[r]
        PROVE  queue'[SlotOf(y)] = batch'[r][WSub(y, head'[r]) + 1]
    <3>1. /\ Reserving(r) /\ head'[r] = head[r] /\ batch'[r] = batch[r]
          /\ head[r] \in Words /\ written[r] \in Nat
      BY <1>0, <1>3, <2>8 DEF TypeOK
    <3>2. WSub(y, head[r]) \in Nat
      BY <3>1, OffsetWord, SizesAssumption
    <3>3. /\ Offset(head[r]) \in Nat /\ insert[r] \in Nat
          /\ Offset(head[r]) + insert[r] <= Mask
      BY <3>1, ReservingNonempty
    <3>4. written'[r] <= insert[r] /\ written'[r] \in Nat
      <4>1. CASE r = p
        BY <4>1, <1>l, <1>q, <1>0
      <4>2. CASE r # p
        BY <4>2, <1>p, <3>1, <3>3 DEF CallLocals, Reserving
      <4> QED BY Zenon, <4>1, <4>2
    <3>5. /\ Offset(y) = Offset(head[r]) + WSub(y, head[r])
          /\ WSub(y, head[r]) < insert[r]
          /\ Offset(y) < Slots
      <4>1. WSub(y, head[r]) < insert[r]
        BY <2>8, <3>1, <3>2, <3>3, <3>4
      <4>2. WSub(head[r], cons_tail) + WSub(y, head[r]) < Word
        BY <2>1, <3>2, <3>3, <4>1, SizesAssumption DEF Offset
      <4>3. Offset(y) = Offset(head[r]) + WSub(y, head[r])
        BY <2>1, <3>1, <4>2, OffsetFrom DEF Offset
      <4> QED BY <2>1, <3>2, <3>3, <4>1, <4>3, SizesAssumption
    <3>6. CASE r = p /\ y = x
      <4>1. WSub(y, head[r]) = written[p]
        BY Zenon, <2>2, <3>6
      <4>2. queue'[SlotOf(x)] = batch[p][written[p] + 1]
        BY Zenon, <2>3, <2>4
      <4> QED BY Zenon, <3>1, <3>6, <4>1, <4>2
    <3>7. CASE r = p /\ y # x
      <4>1. WSub(y, head[p]) # written[p]
        BY Zenon, <2>1, <2>2, <3>7, OffsetWord
      <4>a. WSub(y, head[p]) \in Nat /\ written[p] \in Nat /\ WSub(y, head[p]) < written[p] + 1
        BY Zenon, <1>l, <1>q, <2>8, <3>1, <3>2, <3>7
      <4>2. WSub(y, head[p]) < written[p]
        BY <4>1, <4>a
      <4>3. queue[SlotOf(y)] = batch[p][WSub(y, head[p]) + 1]
        BY Zenon, <1>l, <4>2 DEF SlotsHold
      <4> QED BY Zenon, <2>6, <3>1, <3>5, <3>7, <4>3
    <3>8. CASE r # p
      <4>1. \/ Offset(head[p]) + insert[p] <= Offset(head[r])
            \/ Offset(head[r]) + insert[r] <= Offset(head[p])
        BY Zenon, <1>l, <3>1, <3>8 DEF ReservationsApart
      <4>a. written[p] \in Nat /\ written[p] < insert[p] /\ insert[p] \in Nat
        BY <1>l
      <4>b. Offset(head[p]) \in Nat /\ Offset(x) = Offset(head[p]) + written[p]
        BY Zenon, <2>1, <2>2
      <4>2. y # x
        BY Zenon, <3>2, <3>3, <3>5, <4>1, <4>a, <4>b, RangesApart
      <4>3. WSub(y, head[r]) < written[r]
        BY Zenon, <1>p, <2>8, <3>1, <3>8
      <4>4. queue[SlotOf(y)] = batch[r][WSub(y, head[r]) + 1]
        BY Zenon, <3>1, <4>3 DEF SlotsHold
      <4> QED BY Zenon, <2>6, <3>1, <3>5, <4>2, <4>4
    <3> QED BY Zenon, <3>6, <3>7, <3>8
  <2> QED BY Zenon, <2>7, <2>8 DEF SlotsHold, Words, WSub
<1> QED BY Zenon, <1>1, <1>2, <1>4, <1>5, <1>6, <1>7, <1>8, <1>9

\* A producer sees producer.tail reach its own head.
LEMMA AwaitIInv ==
  ASSUME IInv, NEW p \in Producers, Await(p)
  PROVE  IInv'
<1> USE DEF IInv, Await, shared, consumerVars
<1>1. TypeOK'
  BY Zenon DEF TypeOK, ProducerPC
<1>2. OneHandleOnSpPath'
  BY Zenon DEF OneHandleOnSpPath, Handles, TypeOK
<1>3. \A r \in Producers : Reserving(r)' <=> Reserving(r)
  BY Zenon DEF Reserving, TypeOK
<1>4. CallLocals'
  BY Zenon, <1>3 DEF CallLocals, TypeOK, Reserving
<1>5. CountersOrdered' /\ DequeueLocals'
  BY Zenon DEF CountersOrdered, DequeueLocals, Offset
<1>6. ReservationFits'
  BY Zenon DEF ReservationFits, HoldsHead, TypeOK, Offset
<1>7. ReservationsApart'
  BY Zenon, <1>3 DEF ReservationsApart, Offset
<1>8. ReservationsChain'
  BY Zenon, <1>3 DEF ReservationsChain, TypeOK, EndOf
<1>9. SlotsHold'
  BY Zenon, <1>1, <1>3, SlotsHoldUntouched
<1> QED BY Zenon, <1>1, <1>2, <1>4, <1>5, <1>6, <1>7, <1>8, <1>9

\* A producer stores producer.tail: its range becomes readable.
LEMMA CommitIInv ==
  ASSUME IInv, NEW p \in Producers, Commit(p)
  PROVE  IInv'
<1> USE DEF IInv
<1>0. /\ ppc[p] = "commit"
      /\ prod_tail' = EndOf(p)
      /\ ppc' = [ppc EXCEPT ![p] = "idle"]
      /\ batch' = [batch EXCEPT ![p] = <<>>]
      /\ sp' = [sp EXCEPT ![p] = FALSE]
      /\ head' = [head EXCEPT ![p] = 0]
      /\ insert' = [insert EXCEPT ![p] = 0]
      /\ written' = [written EXCEPT ![p] = 0]
      /\ UNCHANGED <<prod_head, cons_head, cons_tail, queue, n_producers,
                     cpc, dequeue, got, outside>>
  BY Zenon DEF Commit, Return, consumerVars, EndOf
<1>l. /\ Reserving(p) /\ head[p] = prod_tail
  BY Zenon, <1>0 DEF Reserving, ReservationsChain
<1>w. /\ prod_tail' \in Words
      /\ Offset(prod_tail)' = Offset(prod_tail) + insert[p]
      /\ insert[p] \in Nat \ {0}
      /\ Offset(prod_tail) \in Nat
      /\ Offset(prod_tail) + insert[p] <= Offset(prod_head)
      /\ Offset(prod_tail)' <= Offset(prod_head)
  <2>1. /\ insert[p] \in 1 .. Mask /\ Offset(prod_tail) \in Nat
        /\ Offset(head[p]) + insert[p] <= Mask
    BY Zenon, <1>l, ReservingNonempty
  <2>2. WSub(prod_tail, cons_tail) + insert[p] < Word /\ insert[p] \in Nat \ {0}
    BY <1>l, <2>1, SizesAssumption DEF Offset, Mask
  <2>3. WAdd(prod_tail, insert[p]) \in Words
        /\ WSub(WAdd(prod_tail, insert[p]), cons_tail) = WSub(prod_tail, cons_tail) + insert[p]
    BY Zenon, <2>2, OffsetAdd DEF TypeOK
  <2>4. Offset(prod_tail)' = Offset(prod_tail) + insert[p]
    BY Zenon, <1>0, <1>l, <2>3 DEF Offset, EndOf
  <2>5. Offset(prod_tail) + insert[p] <= Offset(prod_head)
    BY Zenon, <1>l DEF ReservationsApart
  <2> QED BY Zenon, <1>0, <1>l, <2>1, <2>2, <2>3, <2>4, <2>5 DEF EndOf
<1>1. TypeOK'
  <2>1. Return(p)
    BY Zenon DEF Commit
  <2> QED BY Zenon, <1>0, <1>w, <2>1, ReturnTyped DEF TypeOK
<1>p. /\ ppc'[p] = "idle" /\ ~sp'[p] /\ batch'[p] = <<>> /\ written'[p] = 0
      /\ \A r \in Producers \ {p} :
           /\ ppc'[r] = ppc[r] /\ batch'[r] = batch[r] /\ sp'[r] = sp[r]
           /\ head'[r] = head[r] /\ insert'[r] = insert[r] /\ written'[r] = written[r]
  BY Zenon, <1>0 DEF TypeOK
<1>2. OneHandleOnSpPath'
  BY <1>0, <1>p DEF OneHandleOnSpPath, Handles
<1>3. /\ ~Reserving(p)'
      /\ \A r \in Producers \ {p} : Reserving(r)' <=> Reserving(r)
  BY Zenon, <1>p DEF Reserving
<1>4. CallLocals'
  <2>1. Len(batch'[p]) <= MaxBatch
    BY <1>p, SizesAssumption
  <2> QED BY Zenon, <1>p, <1>3, <2>1 DEF CallLocals
<1>5. CountersOrdered'
  <2>1. /\ Offset(prod_head)' = Offset(prod_head) /\ Offset(cons_head)' = Offset(cons_head)
        /\ Offset(cons_head) \in Nat
    BY <1>0, OffsetWord, SizesAssumption DEF Offset, TypeOK
  <2>2. Mask' = Mask
    BY Zenon DEF Mask
  <2>3. Offset(cons_head) <= Offset(prod_tail) /\ Offset(prod_head) <= Mask
    BY Zenon DEF CountersOrdered
  <2>4. Offset(cons_head) <= Offset(prod_tail)'
    BY <1>w, <2>1, <2>3
  <2> QED BY Zenon, <1>w, <2>1, <2>2, <2>3, <2>4 DEF CountersOrdered
<1>6. ReservationFits'
  BY <1>0, <1>p DEF ReservationFits, HoldsHead, Offset
<1>7. ReservationsApart'
  <2> SUFFICES ASSUME NEW q \in Producers, Reserving(q)'
               PROVE  /\ Offset(prod_tail)' <= Offset(head[q])'
                      /\ Offset(head[q])' + insert'[q] <= Offset(prod_head)'
                      /\ \A r \in Producers \ {q} : Reserving(r)' =>
                           \/ Offset(head[q])' + insert'[q] <= Offset(head[r])'
                           \/ Offset(head[r])' + insert'[r] <= Offset(head[q])'
    BY Zenon DEF ReservationsApart
  <2>1. q # p /\ Reserving(q)
    BY Zenon, <1>3
  <2>2. \A r \in Producers \ {p} : Offset(head[r])' = Offset(head[r])
    BY Zenon, <1>0, <1>p DEF Offset
  <2>3. Offset(prod_tail)' <= Offset(head[q])
    <3>1. \/ Offset(prod_tail) + insert[p] <= Offset(head[q])
          \/ Offset(head[q]) + insert[q] <= Offset(prod_tail)
      BY Zenon, <1>l, <2>1 DEF ReservationsApart
    <3>2. /\ insert[q] \in Nat \ {0} /\ Offset(head[q]) \in Nat
          /\ Offset(prod_tail) <= Offset(head[q])
      BY <2>1, ReservingNonempty DEF ReservationsApart
    <3> QED BY <1>w, <3>1, <3>2
  <2>4. Offset(prod_head)' = Offset(prod_head)
    BY Zenon, <1>0 DEF Offset
  <2> QED BY Zenon, <1>p, <1>3, <2>1, <2>2, <2>3, <2>4 DEF ReservationsApart
<1>8. ReservationsChain'
  <2>1. \A r \in Producers \ {p} : EndOf(r)' = EndOf(r)
    BY Zenon, <1>p DEF EndOf
  <2>2. \A r \in Producers : Reserving(r) => EndOf(r) # prod_tail
    <3> SUFFICES ASSUME NEW r \in Producers, Reserving(r) PROVE EndOf(r) # prod_tail
      BY Zenon
    <3>1. /\ insert[r] \in 1 .. Mask /\ Offset(head[r]) \in Nat
          /\ Offset(head[r]) + insert[r] <= Mask /\ Offset(prod_tail) \in Nat
          /\ Offset(prod_tail) <= Offset(head[r])
      BY Zenon, ReservingNonempty DEF ReservationsApart
    <3>2. insert[r] \in Nat \ {0} /\ WSub(head[r], cons_tail) + insert[r] < Word
      BY <3>1, SizesAssumption DEF Offset, Mask
    <3>3. Offset(EndOf(r)) = Offset(head[r]) + insert[r]
      BY Zenon, <3>2, OffsetAdd DEF Offset, EndOf, TypeOK
    <3> QED BY <3>1, <3>2, <3>3
  <2>3. prod_tail' # prod_head => \E q \in Producers : Reserving(q) /\ head[q] = prod_tail'
    BY Zenon, <1>0, <1>l DEF ReservationsChain
  <2>4. prod_tail' # prod_tail
    BY Zenon, <1>0, <1>l, <2>2
  <2>5. prod_tail' # prod_head => \E q \in Producers \ {p} : Reserving(q) /\ head[q] = prod_tail'
    BY Zenon, <1>l, <2>3, <2>4
  <2>6. \A r \in Producers \ {p} : Reserving(r) =>
          EndOf(r) = prod_head \/ \E q \in Producers \ {p} : Reserving(q) /\ head[q] = EndOf(r)
    BY Zenon, <1>l, <2>2 DEF ReservationsChain
  <2>7. \A r \in Producers \ {p} : ppc[r] # "commit"
    <3> SUFFICES ASSUME NEW r \in Producers \ {p}, ppc[r] = "commit" PROVE FALSE
      BY Zenon
    <3>1. Reserving(r) /\ head[r] = head[p]
      BY Zenon, <1>l DEF Reserving, ReservationsChain
    <3>2. insert[r] \in Nat \ {0} /\ insert[p] \in Nat \ {0} /\ Offset(head[p]) \in Nat
      BY <1>l, <3>1, ReservingNonempty
    <3>3. \/ Offset(head[p]) + insert[p] <= Offset(head[r])
          \/ Offset(head[r]) + insert[r] <= Offset(head[p])
      BY Zenon, <1>l, <3>1 DEF ReservationsApart
    <3> QED BY <3>1, <3>2, <3>3
  <2>8. prod_head' = prod_head
    BY Zenon, <1>0
  <2>a. (prod_tail # prod_head => \E q \in Producers : Reserving(q) /\ head[q] = prod_tail)'
    BY Zenon, <1>p, <1>3, <2>5, <2>8
  <2>b. (\A r \in Producers : Reserving(r) =>
           EndOf(r) = prod_head \/ \E q \in Producers : Reserving(q) /\ head[q] = EndOf(r))'
    BY <1>p, <1>3, <2>1, <2>6, <2>8
  <2>c. (\A r \in Producers : ppc[r] = "commit" => head[r] = prod_tail)'
    BY Zenon, <1>p, <2>7
  <2> QED BY Zenon, <2>a, <2>b, <2>c DEF ReservationsChain
<1>9. DequeueLocals'
  <2>1. Offset(cons_head)' = Offset(cons_head)
    BY Zenon, <1>0 DEF Offset
  <2>2. cpc = "reserve" => dequeue \in 1 .. Offset(prod_tail)'
    BY <1>w DEF DequeueLocals
  <2> QED BY Zenon, <1>0, <2>1, <2>2 DEF DequeueLocals
<1>10. SlotsHold'
  <2>1. ASSUME NEW i \in Words, Offset(i)' < Offset(prod_tail)'
        PROVE  queue'[SlotOf(i)] \in Mbufs
    <3>1. Offset(i) < Offset(prod_tail) + insert[p] /\ Offset(i) \in Nat
      BY <1>0, <1>w, <2>1, OffsetWord, SizesAssumption DEF Offset, TypeOK
    <3>2. CASE Offset(i) < Offset(prod_tail)
      BY Zenon, <1>0, <3>2 DEF SlotsHold
    <3>3. CASE Offset(i) >= Offset(prod_tail)
      <4>1. WSub(i, head[p]) = Offset(i) - Offset(prod_tail)
        BY Zenon, <1>l, <3>3, OffsetRebase DEF Offset, TypeOK
      <4>2. WSub(i, head[p]) \in 0 .. insert[p] - 1
        BY <1>w, <3>1, <3>3, <4>1
      <4>3. written[p] = insert[p] /\ insert[p] \in 1 .. Len(batch[p]) /\ Len(batch[p]) \in Nat
        BY <1>0, <1>l DEF CallLocals, TypeOK
      <4>w. WSub(i, head[p]) < written[p]
        BY <4>2, <4>3
      <4>4. queue[SlotOf(i)] = batch[p][WSub(i, head[p]) + 1]
        BY Zenon, <1>l, <4>w DEF SlotsHold
      <4>5. WSub(i, head[p]) + 1 \in 1 .. Len(batch[p])
        BY <4>2, <4>3
      <4>6. batch[p][WSub(i, head[p]) + 1] \in Mbufs
        BY <4>5 DEF TypeOK
      <4> QED BY Zenon, <1>0, <4>4, <4>6
    <3> QED BY <1>w, <3>1, <3>2, <3>3
  <2>2. \A r \in Producers : Reserving(r)' => \A i \in Words :
          WSub(i, head'[r]) < written'[r] => queue'[SlotOf(i)] = batch'[r][WSub(i, head'[r]) + 1]
    BY <1>0, <1>p, <1>3 DEF SlotsHold
  <2> QED BY Zenon, <2>1, <2>2 DEF SlotsHold, Words, WSub
<1> QED BY Zenon, <1>1, <1>2, <1>4, <1>5, <1>6, <1>7, <1>8, <1>9, <1>10
=============================================================================

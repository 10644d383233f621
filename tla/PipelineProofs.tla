---------------------------- MODULE PipelineProofs ----------------------------
(***************************************************************************)
(* Proofs about Pipeline for every mempool, number of groups, batch and    *)
(* queue size.                                                             *)
(***************************************************************************)
EXTENDS Pipeline, PacketBatchProofs

\* Time limit of the SMT backend for the leaves that name no other backend.
USE SMTT(60)

-----------------------------------------------------------------------------
(* The inductive invariant *)

\* Nothing of the batch is left before a batch is received, and nothing of a group's
\* batch outside its turn.
Control ==
  /\ idx \in 1 .. Len(rx_array) + 1
  /\ ppc = "idle" => rx_array = <<>> /\ ~rx_applied
  /\ ppc \in {"idle", "filter"} => idx = 1
  /\ ppc = "enqueue" => idx <= Len(rx_array)
  /\ \A g \in Groups : Len(queue[g]) <= QueueSize
  /\ \A g \in Groups : g # which \/ cpc = "idle" => array[g] = <<>> /\ ~applied[g]

\* What was done to a packet p in the batch of the producer, in a queue, in the batch
\* of a group and at the port.
Waiting(p) == p.first = 1 /\ p.second = 0
Passed(p) == p.keep /\ p.first = 1 /\ p.saved
Queued(p, g) == Passed(p) /\ p.second = 0 /\ p.group = g
Restored(p, g) == Passed(p) /\ p.second = 1 /\ p.group = g
Sent(p) == Passed(p) /\ p.second = 1

\* What was done to a packet, by the place its mbuf is in.
Stages ==
  /\ \A m \in Elements(Pending) : Waiting(pkt[m]) /\ (ppc \in {"save", "enqueue"} => pkt[m].keep)
  /\ ppc = "enqueue" => pkt[rx_array[idx]].saved
  /\ \A g \in Groups : \A m \in Elements(queue[g]) : Queued(pkt[m], g)
  /\ \A g \in Groups : \A m \in Elements(array[g]) : Restored(pkt[m], g)
  /\ \A m \in tx : Sent(pkt[m])

\* No batch or queue has an mbuf twice.
Once ==
  /\ AllDistinct(Pending)
  /\ \A g \in Groups : AllDistinct(queue[g]) /\ AllDistinct(array[g])

\* No mbuf is in two places.
Apart ==
  \A m \in Mbufs :
    /\ m \in pool => m \notin tx /\ m \notin Elements(Pending)
    /\ m \in tx => m \notin Elements(Pending)
    /\ m \in pool \cup tx \cup Elements(Pending) =>
         \A g \in Groups : m \notin Elements(queue[g]) /\ m \notin Elements(array[g])
    /\ \A g, h \in Groups : m \in Elements(queue[g]) => m \notin Elements(array[h])
    /\ \A g, h \in Groups : m \in Elements(queue[g]) /\ m \in Elements(queue[h]) => g = h
    /\ \A g, h \in Groups : m \in Elements(array[g]) /\ m \in Elements(array[h]) => g = h

PipelineInv == TypeOK /\ Control /\ Stages /\ Once /\ Apart /\ InOrder

-----------------------------------------------------------------------------
(* Facts of the batches *)

\* One more element in front.
LEMMA OnlyFront ==
  ASSUME NEW T, NEW t \in Seq(T), NEW x \in T, NEW S
  PROVE  /\ x \in S => Only(<<x>> \o t, S) = <<x>> \o Only(t, S)
         /\ x \notin S => Only(<<x>> \o t, S) = Only(t, S)
<1> DEFINE e == <<x>>
<1>1. e \in Seq(T) /\ Elements(e) = {x}
  BY DEF Elements
<1> HIDE DEF e
<1>2. Only(e \o t, S) = Only(e, S) \o Only(t, S)
  BY <1>1, OnlyConcat
<1>3. ASSUME x \in S PROVE Only(e, S) = e
  <2>1. Elements(e) \subseteq S
    BY Zenon, <1>1, <1>3
  <2> QED BY <1>1, <2>1, OnlyAll
<1>4. ASSUME x \notin S PROVE Only(e, S) \o Only(t, S) = Only(t, S)
  <2>1. \A y \in Elements(e) : y \notin S
    BY Zenon, <1>1, <1>4
  <2>2. Only(e, S) = <<>>
    BY <1>1, <2>1, OnlyNone
  <2>3. Only(t, S) \in Seq(T)
    BY Zenon, OnlyElements
  <2> QED BY <2>2, <2>3, ConcatEmpty
<1> QED BY Zenon, <1>2, <1>3, <1>4 DEF e

\* Taking S out of c followed by what K keeps of p.
WithoutParts(c, p, K, S) == Without(c \o Only(p, K), S) = Without(c, S) \o Only(p, K \ S)

LEMMA WithoutConcat ==
  ASSUME NEW c \in Seq(Mbufs), NEW p \in Seq(Mbufs), NEW K, NEW S
  PROVE  WithoutParts(c, p, K, S)
<1> DEFINE o == Only(p, K)
           N == Mbufs \ S
<1>1. o \in Seq(Mbufs)
  BY Zenon, OnlyElements
<1> HIDE DEF o
<1>2. Only(c \o o, N) = Only(c, N) \o Only(o, N)
  <2> HIDE DEF N
  <2> QED BY <1>1, OnlyConcat
<1>3. Only(o, N) = Only(p, K \cap N)
  <2> HIDE DEF N
  <2> QED BY OnlyTwice DEF o
<1>4. Only(p, K \cap N) = Only(p, K \ S)
  <2>1. Elements(p) \subseteq Mbufs
    BY Zenon, ElementsType
  <2>2. \A x \in Elements(p) : x \in K \cap N <=> x \in K \ S
    BY Zenon, <2>1
  <2> DEFINE R == K \cap N
             Q == K \ S
  <2> HIDE DEF R, Q
  <2>3. \A x \in Elements(p) : x \in R <=> x \in Q
    BY Zenon, <2>2 DEF R, Q
  <2>4. Only(p, R) = Only(p, Q)
    BY <2>3, OnlyAgree
  <2> QED BY Zenon, <2>4 DEF R, Q
<1> QED BY Zenon, <1>2, <1>3, <1>4 DEF WithoutParts, Without, o

\* Taking out what is not there changes nothing.
LEMMA WithoutNone ==
  ASSUME NEW c \in Seq(Mbufs), NEW S, \A m \in Elements(c) : m \notin S
  PROVE  Without(c, S) = c
<1>1. Elements(c) \subseteq Mbufs
  BY Zenon, ElementsType
<1>2. Elements(c) \subseteq Mbufs \ S
  BY Zenon, <1>1
<1> DEFINE N == Mbufs \ S
<1> HIDE DEF N
<1>3. Only(c, N) = c
  BY <1>2, OnlyAll DEF N
<1> QED BY Zenon, <1>3 DEF Without, N

\* Taking all of s out of s followed by t.
LEMMA WithoutFirst ==
  ASSUME NEW s \in Seq(Mbufs), NEW t \in Seq(Mbufs), NEW S, Elements(s) \subseteq S,
         \A m \in Elements(t) : m \notin S
  PROVE  Without(s \o t, S) = t
<1> DEFINE N == Mbufs \ S
<1>1. Only(s \o t, N) = Only(s, N) \o Only(t, N)
  <2> HIDE DEF N
  <2> QED BY OnlyConcat
<1>2. Only(s, N) = <<>>
  <2>1. \A m \in Elements(s) : m \notin N
    BY Zenon
  <2> HIDE DEF N
  <2> QED BY <2>1, OnlyNone
<1>3. Only(t, N) = t
  BY Zenon, WithoutNone DEF Without
<1>4. <<>> \o t = t
  BY ConcatEmpty
<1> QED BY Zenon, <1>1, <1>2, <1>3, <1>4 DEF Without

\* The batches are sequences of mbufs.
LEMMA BatchTypes ==
  ASSUME TypeOK, Control
  PROVE  /\ Pending \in Seq(Mbufs) /\ (idx = 1 => Pending = rx_array)
         /\ \A g \in Groups : /\ queue[g] \in Seq(Mbufs) /\ array[g] \in Seq(Mbufs)
                              /\ arrived[g] \in Seq(Mbufs)
<1>1. rx_array \in Seq(Mbufs)
  BY DEF TypeOK, Batches
<1>2. Len(rx_array) \in Nat
  BY <1>1, LenFacts
<1>3. Pending \in Seq(Mbufs)
  <2>1. idx \in 1 .. Len(rx_array) + 1 /\ Len(rx_array) \in idx - 1 .. Len(rx_array)
    BY <1>2 DEF Control
  <2> QED BY <1>1, <2>1, SubSeqFacts DEF Pending
<1>4. idx = 1 => Pending = rx_array
  BY <1>1, PrefixEnds DEF Pending
<1>5. \A g \in Groups : /\ queue[g] \in Seq(Mbufs) /\ array[g] \in Seq(Mbufs)
                        /\ arrived[g] \in Seq(Mbufs)
  BY DEF TypeOK, Batches
<1> QED BY Zenon, <1>3, <1>4, <1>5

-----------------------------------------------------------------------------
(* The steps of the producer *)

\* A batch that a port delivers is made of free mbufs, none of them twice.
LEMMA ReceivedBatch ==
  ASSUME NEW free \in SUBSET Mbufs, NEW b \in Received(free)
  PROVE  b \in Seq(Mbufs) /\ Elements(b) \subseteq free /\ AllDistinct(b)
<1> DEFINE most == MinOf(BatchSize, Cardinality(free))
           sizes == IF port = "physical" THEN 0 .. most
                    ELSE IF most = BatchSize THEN {most} ELSE {0}
<1>1. /\ b \in UNION {[1 .. n -> free] : n \in sizes}
      /\ \A i, j \in DOMAIN b : b[i] = b[j] => i = j
  BY Zenon DEF Received
<1>2. \A n \in sizes : n \in Nat
  <2> HIDE DEF most
  <2> QED BY SizesAssumption
<1> HIDE DEF sizes
<1>3. PICK n \in Nat : b \in [1 .. n -> free]
  BY Zenon, <1>1, <1>2
<1>4. b \in Seq(free)
  BY <1>3, SeqOfFunction
<1>5. b \in Seq(Mbufs)
  BY <1>4
<1> QED BY Zenon, <1>1, <1>4, <1>5, ElementsType DEF AllDistinct

\* The packets b with groups g and verdicts k of the filter are new ones.
Arrives(b, g, k) ==
  /\ pkt' = [m \in Mbufs |->
               IF m \in Elements(b) THEN [NewPacket(g[m], k[m]) EXCEPT !.first = 1]
               ELSE pkt[m]]
  /\ arrived' = [h \in Groups |->
                   arrived[h] \o Only(b, {m \in Elements(b) : g[m] = h /\ k[m]})]

\* Receive puts free mbufs with new packets into the batch, which was empty.
LEMMA ReceiveEffect ==
  ASSUME PipelineInv, Receive
  PROVE  /\ Pending = <<>>
         /\ \E b \in Seq(Mbufs) : \E g \in [Elements(b) -> Groups], k \in [Elements(b) -> BOOLEAN] :
              /\ AllDistinct(b) /\ Elements(b) \subseteq pool
              /\ Pending' = b /\ rx_array' = b
              /\ pool' = pool \ Elements(b)
              /\ Arrives(b, g, k)
<1> DEFINE free == pool \cup Elements(rx_array)
<1>1. ppc = "idle" /\ rx_array = <<>> /\ ~rx_applied /\ idx = 1 /\ idx' = 1
  BY DEF PipelineInv, Receive, Control
<1>2. free = pool /\ pool \in SUBSET Mbufs
  BY Zenon, <1>1, EmptyElements DEF PipelineInv, TypeOK
<1>3. Pending = <<>>
  BY <1>1, BatchTypes DEF PipelineInv
<1>4. PICK b \in Received(free) :
        \E g \in [Elements(b) -> Groups], k \in [Elements(b) -> BOOLEAN] :
          rx_array' = b /\ pool' = free \ Elements(b) /\ Arrives(b, g, k)
  <2>1. \E b \in Received(free) :
          \E g \in [Elements(b) -> Groups], k \in [Elements(b) -> BOOLEAN] :
            /\ rx_array' = b
            /\ pool' = free \ Elements(b)
            /\ pkt' = [m \in Mbufs |->
                         IF m \in Elements(b) THEN [NewPacket(g[m], k[m]) EXCEPT !.first = 1]
                         ELSE pkt[m]]
            /\ arrived' = [h \in Groups |->
                             arrived[h] \o Only(b, {m \in Elements(b) : g[m] = h /\ k[m]})]
    BY Zenon, <1>1 DEF Receive
  <2> HIDE DEF free
  <2> QED BY ZenonT(60), <2>1 DEF Arrives
<1> HIDE DEF free
<1>5. b \in Received(pool)
  BY Zenon, <1>2
<1>6. b \in Seq(Mbufs) /\ Elements(b) \subseteq pool /\ AllDistinct(b)
  BY Zenon, <1>2, <1>5, ReceivedBatch
<1>7. PICK g \in [Elements(b) -> Groups], k \in [Elements(b) -> BOOLEAN] :
        rx_array' = b /\ pool' = free \ Elements(b) /\ Arrives(b, g, k)
  BY Zenon, <1>4
<1>8. pool' = pool \ Elements(b)
  BY Zenon, <1>2, <1>7
<1>9. Pending' = b
  <2>1. Pending' = SubSeq(b, 1, Len(b))
    BY Zenon, <1>1, <1>7 DEF Pending
  <2> QED BY <1>6, <2>1, PrefixEnds
<1> QED BY Zenon, <1>3, <1>6, <1>7, <1>8, <1>9

\* The packets that the filter passes and that go to group h.
Kept(h) == {m \in Mbufs : pkt[m].keep /\ pkt[m].group = h}

\* What the packet in an mbuf is.
Packets == [group : Groups, keep : BOOLEAN, first : 0 .. 1, second : 0 .. 1, saved : BOOLEAN]

\* A new packet of group x with verdict y that has passed the first transform.
Fresh(p, x, y) == p.group = x /\ p.keep = y /\ Waiting(p) /\ p \in Packets

LEMMA FirstPass ==
  \A x \in Groups, y \in BOOLEAN : Fresh([NewPacket(x, y) EXCEPT !.first = 1], x, y)
<1> TAKE x \in Groups, y \in BOOLEAN
<1>1. [NewPacket(x, y) EXCEPT !.first = 1]
        = [group |-> x, keep |-> y, first |-> 1, second |-> 0, saved |-> FALSE]
  <2>1. \A z : [[group |-> x, keep |-> y, first |-> 0, second |-> 0, saved |-> z] EXCEPT !.first = 1]
                = [group |-> x, keep |-> y, first |-> 1, second |-> 0, saved |-> z]
    OBVIOUS
  <2> QED BY Zenon, <2>1 DEF NewPacket
<1>2. Fresh([group |-> x, keep |-> y, first |-> 1, second |-> 0, saved |-> FALSE], x, y)
  <2> DEFINE p == [group |-> x, keep |-> y, first |-> 1, second |-> 0, saved |-> FALSE]
  <2>1. 0 \in 0 .. 1 /\ 1 \in 0 .. 1
    OBVIOUS
  <2>2. p \in Packets
    BY Zenon, <2>1 DEF Packets
  <2>3. p.group = x /\ p.keep = y /\ p.first = 1 /\ p.second = 0
    BY Zenon
  <2> QED BY Zenon, <2>2, <2>3 DEF Fresh, Waiting
<1> QED BY Zenon, <1>1, <1>2

\* Receive keeps the invariant: the new packets are at the end of the order of arrival.
LEMMA ReceiveKeeps ==
  ASSUME PipelineInv, Receive
  PROVE  PipelineInv'
<1>1. PICK b \in Seq(Mbufs) : \E g \in [Elements(b) -> Groups], k \in [Elements(b) -> BOOLEAN] :
              /\ AllDistinct(b) /\ Elements(b) \subseteq pool
              /\ Pending' = b /\ rx_array' = b
              /\ pool' = pool \ Elements(b)
              /\ Arrives(b, g, k)
  BY Zenon, ReceiveEffect
<1>2. PICK g \in [Elements(b) -> Groups], k \in [Elements(b) -> BOOLEAN] :
              /\ AllDistinct(b) /\ Elements(b) \subseteq pool
              /\ Pending' = b /\ rx_array' = b
              /\ pool' = pool \ Elements(b)
              /\ Arrives(b, g, k)
  BY Zenon, <1>1
<1>3. /\ UNCHANGED <<port, tx, queue, array, applied, which, cpc>>
      /\ rx_applied' = TRUE /\ idx' = 1 /\ ppc' = "filter" /\ ppc = "idle"
  BY Zenon DEF Receive, consumerVars
<1>4. /\ \A m \in Elements(b) : Fresh(pkt'[m], g[m], k[m])
      /\ \A m \in Mbufs : m \notin Elements(b) => pkt'[m] = pkt[m]
  <2>1. Elements(b) \subseteq Mbufs
    BY Zenon, ElementsType
  <2>2. ASSUME NEW m \in Elements(b)
        PROVE  Fresh(pkt'[m], g[m], k[m])
    <3>1. pkt'[m] = [NewPacket(g[m], k[m]) EXCEPT !.first = 1]
      BY Zenon, <1>2, <2>1 DEF Arrives
    <3>2. g[m] \in Groups /\ k[m] \in BOOLEAN
      BY Zenon
    <3> QED BY Zenon, <3>1, <3>2, FirstPass
  <2>3. \A m \in Mbufs : m \notin Elements(b) => pkt'[m] = pkt[m]
    BY Zenon, <1>2 DEF Arrives
  <2> QED BY Zenon, <2>2, <2>3
<1>5. Pending = <<>> /\ Elements(Pending) = {} /\ Elements(b) \subseteq Mbufs
  BY Zenon, ReceiveEffect, EmptyElements, ElementsType
<1>6. \A h \in Groups : /\ queue[h] \in Seq(Mbufs) /\ array[h] \in Seq(Mbufs)
                        /\ arrived[h] \in Seq(Mbufs)
  BY Zenon, BatchTypes DEF PipelineInv
<1> DEFINE A(h) == {m \in Elements(b) : g[m] = h /\ k[m]}
<1>7. ASSUME NEW h \in Groups
      PROVE  /\ arrived'[h] = arrived[h] \o Only(b, A(h))
             /\ arrived'[h] \in Seq(Mbufs)
  <2>1. arrived'[h] = arrived[h] \o Only(b, A(h))
    BY Zenon, <1>2 DEF Arrives
  <2>2. Only(b, A(h)) \in Seq(Mbufs)
    <3> HIDE DEF A
    <3> QED BY Zenon, OnlyElements
  <2> QED BY <1>6, <2>1, <2>2, ConcatFacts
<1>8. TypeOK'
  <2>1. pkt' \in [Mbufs -> Packets]
    <3>1. \A m \in Mbufs : pkt'[m] \in Packets
      BY Zenon, <1>4 DEF PipelineInv, TypeOK, Packets, Fresh
    <3> QED BY Zenon, <1>2, <3>1 DEF Arrives
  <2>2. arrived' \in [Groups -> Seq(Mbufs)]
    BY Zenon, <1>2, <1>7 DEF Arrives
  <2>3. pool' \subseteq Mbufs
    BY Zenon, <1>2 DEF PipelineInv, TypeOK
  <2>4. idx' \in Nat \ {0} /\ ppc' \in {"idle", "filter", "save", "enqueue"}
    BY <1>3
  <2> QED BY Zenon, <1>2, <1>3, <2>1, <2>2, <2>3, <2>4 DEF PipelineInv, TypeOK, Batches, Packets
<1>9. Control'
  <2>1. Len(b) \in Nat
    BY LenFacts
  <2> QED BY <1>2, <1>3, <2>1 DEF PipelineInv, Control
<1>10. /\ \A h \in Groups : \A m \in Elements(queue[h]) \cup Elements(array[h]) :
                m \in Mbufs /\ m \notin Elements(b)
       /\ \A m \in tx : m \in Mbufs /\ m \notin Elements(b)
  <2>1. \A h \in Groups : Elements(queue[h]) \subseteq Mbufs /\ Elements(array[h]) \subseteq Mbufs
    BY Zenon, <1>6, ElementsType
  <2> QED BY Zenon, <1>2, <1>5, <2>1 DEF PipelineInv, TypeOK, Apart
<1>11. Stages'
  <2>1. \A m \in Elements(Pending') : Waiting(pkt'[m])
    BY Zenon, <1>2, <1>4 DEF Fresh
  <2>2. \A h \in Groups : \A m \in Elements(queue[h]) \cup Elements(array[h]) : pkt'[m] = pkt[m]
    BY Zenon, <1>4, <1>10
  <2>3. \A m \in tx : pkt'[m] = pkt[m]
    BY Zenon, <1>4, <1>10
  <2>4. ppc' \notin {"save", "enqueue"} /\ ppc' # "enqueue"
    BY <1>3
  <2> QED BY Zenon, <1>3, <2>1, <2>2, <2>3, <2>4 DEF PipelineInv, Stages
<1>12. Once'
  BY Zenon, <1>2, <1>3 DEF PipelineInv, Once
<1>13. Apart'
  BY Zenon, <1>2, <1>3, <1>5, <1>10 DEF PipelineInv, Apart
<1>14. InOrder'
  <2> SUFFICES ASSUME NEW h \in Groups
               PROVE  (array'[h] \o queue'[h]) \o Only(Pending', Kept(h)') = arrived'[h]
    BY Zenon DEF InOrder, Kept
  <2>1. (array[h] \o queue[h]) \o Only(Pending, Kept(h)) = arrived[h]
    BY Zenon DEF PipelineInv, InOrder, Kept
  <2>2. Only(Pending, Kept(h)) = <<>>
    BY Zenon, <1>5, OnlyEmpty
  <2>3. array[h] \o queue[h] \in Seq(Mbufs)
    BY <1>6, ConcatFacts
  <2>4. array[h] \o queue[h] = arrived[h]
    <3> DEFINE c == array[h] \o queue[h]
    <3> HIDE DEF c
    <3>1. c \o <<>> = c
      BY <2>3, ConcatEmpty DEF c
    <3> QED BY Zenon, <2>1, <2>2, <3>1 DEF c
  <2>5. \A m \in Elements(b) : m \in Kept(h)' <=> m \in A(h)
    BY Zenon, <1>4, <1>5 DEF Kept, Fresh
  <2>6. Only(b, Kept(h)') = Only(b, A(h))
    <3> DEFINE R == Kept(h)'
    <3>1. \A m \in Elements(b) : m \in R <=> m \in A(h)
      BY Zenon, <2>5
    <3> HIDE DEF R, A
    <3>2. Only(b, R) = Only(b, A(h))
      BY <3>1, OnlyAgree
    <3> QED BY Zenon, <3>2 DEF R
  <2> QED BY Zenon, <1>2, <1>3, <1>7, <2>4, <2>6
<1> QED BY Zenon, <1>8, <1>9, <1>11, <1>12, <1>13, <1>14 DEF PipelineInv

\* Filter leaves the packets that pass, in their order, and frees the others.
LEMMA FilterEffect ==
  ASSUME PipelineInv, Filter
  PROVE  LET K == {m \in Mbufs : pkt[m].keep} IN
         /\ Pending' = Only(Pending, K) /\ rx_array' = Only(Pending, K)
         /\ pool' = pool \cup (Elements(Pending) \ K)
         /\ ppc' = "save" /\ idx' = 1 /\ rx_applied' = rx_applied
         /\ UNCHANGED <<port, tx, pkt, queue, array, applied, which, cpc, arrived>>
<1> DEFINE K == {m \in Mbufs : pkt[m].keep}
           d == drop_packets_stable(rx_array, Rejected(rx_array, K))
<1>1. /\ ppc = "filter" /\ ppc' = IF d.some THEN "save" ELSE "panicked"
      /\ rx_array' = d.array /\ pool' = pool \cup d.freed
      /\ UNCHANGED <<port, tx, pkt, rx_applied, idx, queue, array, applied, which, cpc, arrived>>
  BY Zenon DEF Filter, consumerVars
<1>2. idx = 1 /\ rx_array \in Seq(Mbufs) /\ Pending = rx_array
  BY <1>1, BatchTypes DEF PipelineInv, Control, TypeOK, Batches
<1> HIDE DEF K
<1>3. d = [some |-> TRUE, array |-> Only(rx_array, K), freed |-> Elements(rx_array) \ K]
  BY <1>2, DropIsStable
<1> HIDE DEF d
<1>4. d.some /\ d.array = Only(rx_array, K) /\ d.freed = Elements(rx_array) \ K
  BY <1>3
<1>5. /\ rx_array' = Only(Pending, K) /\ pool' = pool \cup (Elements(Pending) \ K)
      /\ ppc' = "save" /\ idx' = 1
  BY Zenon, <1>1, <1>2, <1>4
<1>6. Only(Pending, K) \in Seq(Mbufs)
  BY Zenon, <1>2, OnlyElements
<1>7. Pending' = Only(Pending, K)
  <2> DEFINE o == Only(Pending, K)
  <2>1. Pending' = SubSeq(o, 1, Len(o))
    BY Zenon, <1>5 DEF Pending
  <2> HIDE DEF o
  <2>2. SubSeq(o, 1, Len(o)) = o
    BY <1>6, PrefixEnds DEF o
  <2> QED BY Zenon, <2>1, <2>2 DEF o
<1> QED BY Zenon, <1>1, <1>5, <1>7 DEF K

\* Filter keeps the invariant: the packets it drops were not in the order of arrival.
LEMMA FilterKeeps ==
  ASSUME PipelineInv, Filter
  PROVE  PipelineInv'
<1> DEFINE K == {m \in Mbufs : pkt[m].keep}
<1>1. /\ Pending' = Only(Pending, K) /\ rx_array' = Only(Pending, K)
      /\ pool' = pool \cup (Elements(Pending) \ K)
      /\ ppc' = "save" /\ idx' = 1 /\ rx_applied' = rx_applied
      /\ UNCHANGED <<port, tx, pkt, queue, array, applied, which, cpc, arrived>>
  BY Zenon, FilterEffect
<1>2. Pending \in Seq(Mbufs) /\ Elements(Pending) \subseteq Mbufs
  BY Zenon, BatchTypes, ElementsType DEF PipelineInv
<1>3. /\ Only(Pending, K) \in Seq(Mbufs)
      /\ Elements(Only(Pending, K)) = Elements(Pending) \cap K
      /\ AllDistinct(Pending) => AllDistinct(Only(Pending, K))
  <2> HIDE DEF K
  <2> QED BY Zenon, <1>2, OnlyElements
<1>4. TypeOK'
  <2>1. pool' \subseteq Mbufs
    BY Zenon, <1>1, <1>2 DEF PipelineInv, TypeOK
  <2>2. idx' \in Nat \ {0} /\ ppc' \in {"idle", "filter", "save", "enqueue"}
    BY <1>1
  <2> QED BY Zenon, <1>1, <1>3, <2>1, <2>2 DEF PipelineInv, TypeOK, Batches
<1>5. Control'
  <2>1. Len(rx_array') \in Nat
    <3> HIDE DEF K
    <3> QED BY <1>1, <1>3, LenFacts
  <2>2. /\ idx' \in 1 .. Len(rx_array') + 1
        /\ ppc' = "idle" => rx_array' = <<>> /\ ~rx_applied'
        /\ ppc' \in {"idle", "filter"} => idx' = 1
        /\ ppc' = "enqueue" => idx' <= Len(rx_array')
    <3> DEFINE n == Len(rx_array')
    <3> HIDE DEF K, n
    <3>1. idx' \in 1 .. n + 1
      BY <1>1, <2>1 DEF n
    <3> QED BY <1>1, <3>1 DEF n
  <2> QED BY Zenon, <1>1, <2>2 DEF PipelineInv, Control
<1>6. Stages'
  <2>1. \A m \in Elements(Pending') : Waiting(pkt'[m]) /\ pkt'[m].keep
    BY Zenon, <1>1, <1>3 DEF PipelineInv, Stages
  <2>2. ppc' # "enqueue"
    BY <1>1
  <2> QED BY Zenon, <1>1, <2>1, <2>2 DEF PipelineInv, Stages
<1>7. Once'
  BY Zenon, <1>1, <1>3 DEF PipelineInv, Once
<1>8. Apart'
  <2>1. \A m : m \in Elements(Pending') => m \in Elements(Pending) /\ m \notin Elements(Pending) \ K
    BY Zenon, <1>1, <1>3
  <2> HIDE DEF K
  <2> QED BY Zenon, <1>1, <2>1 DEF PipelineInv, Apart
<1>9. InOrder'
  <2> SUFFICES ASSUME NEW h \in Groups
               PROVE  (array'[h] \o queue'[h]) \o Only(Pending', Kept(h)') = arrived'[h]
    BY Zenon DEF InOrder, Kept
  <2>1. (array[h] \o queue[h]) \o Only(Pending, Kept(h)) = arrived[h]
    BY Zenon DEF PipelineInv, InOrder, Kept
  <2>2. Kept(h)' = Kept(h)
    BY Zenon, <1>1 DEF Kept
  <2>3. K \cap Kept(h) = Kept(h)
    BY Zenon DEF Kept
  <2> HIDE DEF K
  <2>4. Only(Only(Pending, K), Kept(h)) = Only(Pending, K \cap Kept(h))
    BY <1>2, OnlyTwice
  <2> QED BY Zenon, <1>1, <2>1, <2>2, <2>3, <2>4
<1> QED BY Zenon, <1>4, <1>5, <1>6, <1>7, <1>8, <1>9 DEF PipelineInv

\* Save keeps the invariant: it marks the packet whose header it puts into its own mbuf.
LEMMA SaveKeeps ==
  ASSUME PipelineInv, Save
  PROVE  PipelineInv'
<1> DEFINE x == rx_array[idx]
<1>1. /\ ppc = "save" /\ idx <= Len(rx_array) /\ ppc' = "enqueue"
      /\ pkt' = [pkt EXCEPT ![x].saved = TRUE]
      /\ UNCHANGED <<port, pool, tx, rx_array, rx_applied, idx, queue, array, applied, which,
                     cpc, arrived>>
  BY Zenon DEF Save, consumerVars
<1>2. rx_array \in Seq(Mbufs) /\ idx \in 1 .. Len(rx_array)
  <2>1. rx_array \in Seq(Mbufs) /\ Len(rx_array) \in Nat
    BY LenFacts DEF PipelineInv, TypeOK, Batches
  <2> QED BY <1>1, <2>1 DEF PipelineInv, Control
<1>3. Pending' = Pending /\ Pending \in Seq(Mbufs) /\ Elements(Pending) \subseteq Mbufs
  BY Zenon, <1>1, BatchTypes, ElementsType DEF PipelineInv, Pending
<1>4. x \in Mbufs /\ x \in Elements(Pending)
  <2> DEFINE r == SubSeq(rx_array, idx + 1, Len(rx_array))
  <2>1. r \in Seq(Mbufs) /\ x \in Mbufs /\ Pending = <<x>> \o r
    BY Zenon, <1>2, SuffixNext DEF Pending
  <2> HIDE DEF r, x
  <2>2. Elements(<<x>> \o r) = {x} \cup Elements(r)
    BY Zenon, <2>1, FrontElements
  <2> QED BY Zenon, <2>1, <2>2
<1> HIDE DEF x
<1>5. pkt \in [Mbufs -> Packets]
  BY Zenon DEF PipelineInv, TypeOK, Packets
<1>6. /\ pkt'[x] = [pkt[x] EXCEPT !.saved = TRUE]
      /\ \A m \in Mbufs : m # x => pkt'[m] = pkt[m]
      /\ pkt' \in [Mbufs -> Packets]
  <2>1. [pkt[x] EXCEPT !.saved = TRUE] \in Packets
    <3>1. pkt[x] \in Packets
      BY Zenon, <1>4, <1>5
    <3>2. \A z \in BOOLEAN : [pkt[x] EXCEPT !.saved = z] \in Packets
      BY <3>1 DEF Packets
    <3> QED BY Zenon, <3>2
  <2> DEFINE v == [pkt[x] EXCEPT !.saved = TRUE]
  <2>2. pkt' = [pkt EXCEPT ![x] = v]
    BY Zenon, <1>1
  <2> HIDE DEF v
  <2> QED BY <1>4, <1>5, <2>1, <2>2 DEF v
<1>7. /\ pkt'[x].group = pkt[x].group /\ pkt'[x].keep = pkt[x].keep
      /\ pkt'[x].first = pkt[x].first /\ pkt'[x].second = pkt[x].second /\ pkt'[x].saved
  <2>1. pkt[x] \in Packets
    BY Zenon, <1>4, <1>5
  <2> QED BY <1>6, <2>1 DEF Packets
<1>8. \A m \in Mbufs : /\ pkt'[m].group = pkt[m].group /\ pkt'[m].keep = pkt[m].keep
                       /\ Waiting(pkt[m]) => Waiting(pkt'[m])
  BY Zenon, <1>6, <1>7 DEF Waiting
<1>9. TypeOK'
  <2>1. ppc' \in {"idle", "filter", "save", "enqueue"}
    BY <1>1
  <2> QED BY Zenon, <1>1, <1>6, <2>1 DEF PipelineInv, TypeOK, Packets
<1>10. Control'
  <2>1. ppc' \notin {"idle", "filter"} /\ ppc' # "idle"
    BY <1>1
  <2> QED BY Zenon, <1>1, <2>1 DEF PipelineInv, Control
<1>11. Stages'
  <2>1. \A m \in Elements(Pending') : Waiting(pkt'[m]) /\ pkt'[m].keep
    <3>1. ppc \in {"save", "enqueue"}
      BY Zenon, <1>1
    <3> QED BY Zenon, <1>3, <1>8, <3>1 DEF PipelineInv, Stages
  <2>2. pkt'[rx_array'[idx']].saved
    BY Zenon, <1>1, <1>7 DEF x
  <2>3. \A g \in Groups : Elements(queue[g]) \subseteq Mbufs /\ Elements(array[g]) \subseteq Mbufs
    BY Zenon, BatchTypes, ElementsType DEF PipelineInv
  <2>4. /\ x \notin tx
        /\ \A g \in Groups : x \notin Elements(queue[g]) /\ x \notin Elements(array[g])
    BY Zenon, <1>4 DEF PipelineInv, Apart
  <2>5. /\ \A g \in Groups : \A m \in Elements(queue[g]) \cup Elements(array[g]) : pkt'[m] = pkt[m]
        /\ \A m \in tx : pkt'[m] = pkt[m]
    BY ZenonT(60), <1>6, <2>3, <2>4 DEF PipelineInv, TypeOK
  <2> QED BY Zenon, <1>1, <2>1, <2>2, <2>5 DEF PipelineInv, Stages
<1>12. Once' /\ Apart'
  BY Zenon, <1>1, <1>3 DEF PipelineInv, Once, Apart
<1>13. InOrder'
  <2> SUFFICES ASSUME NEW h \in Groups
               PROVE  (array'[h] \o queue'[h]) \o Only(Pending', Kept(h)') = arrived'[h]
    BY Zenon DEF InOrder, Kept
  <2>1. (array[h] \o queue[h]) \o Only(Pending, Kept(h)) = arrived[h]
    BY Zenon DEF PipelineInv, InOrder, Kept
  <2>2. \A m : m \in Kept(h)' <=> m \in Kept(h)
    BY Zenon, <1>8 DEF Kept
  <2>3. Kept(h)' = Kept(h)
    BY Zenon, <2>2
  <2> QED BY Zenon, <1>1, <1>3, <2>1, <2>3
<1> QED BY Zenon, <1>9, <1>10, <1>11, <1>12, <1>13 DEF PipelineInv

\* ProducerDone keeps the invariant: nothing of the batch is left.
LEMMA ProducerDoneKeeps ==
  ASSUME PipelineInv, ProducerDone
  PROVE  PipelineInv'
<1>1. /\ idx = Len(rx_array) + 1
      /\ rx_array' = <<>> /\ rx_applied' = FALSE /\ idx' = 1 /\ ppc' = "idle"
      /\ UNCHANGED <<port, pool, tx, pkt, queue, array, applied, which, cpc, arrived>>
  BY Zenon DEF ProducerDone, consumerVars
<1>2. Pending = <<>> /\ Pending' = <<>>
  <2>1. rx_array \in Seq(Mbufs) /\ Len(rx_array) \in Nat
    BY LenFacts DEF PipelineInv, TypeOK, Batches
  <2>2. SubSeq(rx_array, Len(rx_array) + 1, Len(rx_array)) = <<>>
    BY <2>1
  <2>3. SubSeq(<<>>, 1, Len(<<>>)) = <<>>
    OBVIOUS
  <2> QED BY Zenon, <1>1, <2>2, <2>3 DEF Pending
<1>3. TypeOK' /\ Control'
  <2>1. /\ idx' \in Nat \ {0} /\ ppc' \in {"idle", "filter", "save", "enqueue"}
        /\ ppc' # "enqueue" /\ idx' \in 1 .. Len(rx_array') + 1 /\ rx_array' \in Seq(Mbufs)
    BY <1>1
  <2> QED BY Zenon, <1>1, <2>1 DEF PipelineInv, TypeOK, Batches, Control
<1>4. Stages'
  <2>1. ppc' # "enqueue" /\ Elements(Pending') = {}
    BY <1>1, <1>2, EmptyElements
  <2> QED BY Zenon, <1>1, <2>1 DEF PipelineInv, Stages
<1>5. Once' /\ Apart'
  BY Zenon, <1>1, <1>2 DEF PipelineInv, Once, Apart
<1>6. InOrder'
  BY Zenon, <1>1, <1>2 DEF PipelineInv, InOrder
<1> QED BY Zenon, <1>3, <1>4, <1>5, <1>6 DEF PipelineInv

\* EnqueueOne takes the first pending packet, which has passed the filter and whose
\* header is saved.
LEMMA EnqueueEffect ==
  ASSUME PipelineInv, EnqueueOne
  PROVE  LET x == rx_array[idx] IN
         /\ x \in Mbufs /\ pkt[x].group \in Groups /\ Queued(pkt[x], pkt[x].group)
         /\ Pending' \in Seq(Mbufs) /\ Pending = <<x>> \o Pending'
         /\ Elements(Pending) = {x} \cup Elements(Pending')
         /\ AllDistinct(Pending') /\ x \notin Elements(Pending')
<1> DEFINE x == rx_array[idx]
           r == SubSeq(rx_array, idx + 1, Len(rx_array))
<1>1. ppc = "enqueue" /\ idx' = idx + 1 /\ rx_array' = rx_array
  BY Zenon DEF EnqueueOne
<1>2. rx_array \in Seq(Mbufs) /\ idx \in 1 .. Len(rx_array)
  <2>1. rx_array \in Seq(Mbufs) /\ Len(rx_array) \in Nat
    BY LenFacts DEF PipelineInv, TypeOK, Batches
  <2> QED BY <1>1, <2>1 DEF PipelineInv, Control
<1>3. r \in Seq(Mbufs) /\ x \in Mbufs /\ Pending = <<x>> \o r
  BY Zenon, <1>2, SuffixNext DEF Pending
<1>4. Pending' = r
  BY Zenon, <1>1 DEF Pending
<1> HIDE DEF x, r
<1>5. /\ Elements(<<x>> \o r) = {x} \cup Elements(r)
      /\ AllDistinct(<<x>> \o r) <=> AllDistinct(r) /\ x \notin Elements(r)
  BY <1>3, FrontElements
<1>6. AllDistinct(r) /\ x \notin Elements(r)
  BY Zenon, <1>3, <1>5 DEF PipelineInv, Once
<1>7. x \in Elements(Pending)
  BY Zenon, <1>3, <1>5
<1>8. Waiting(pkt[x]) /\ pkt[x].keep /\ pkt[x].saved
  <2>1. ppc \in {"save", "enqueue"}
    BY Zenon, <1>1
  <2> QED BY Zenon, <1>1, <1>7, <2>1 DEF PipelineInv, Stages, x
<1>9. pkt[x].group \in Groups
  <2>1. pkt[x] \in Packets
    BY Zenon, <1>3 DEF PipelineInv, TypeOK, Packets
  <2> QED BY Zenon, <2>1 DEF Packets
<1>10. Queued(pkt[x], pkt[x].group)
  BY Zenon, <1>8 DEF Queued, Passed, Waiting
<1> QED BY Zenon, <1>3, <1>4, <1>5, <1>6, <1>9, <1>10 DEF x

\* The order of arrival when x moves from the front of p to the end of q.
SameOrder(a, q, p, x, K) == (a \o Append(q, x)) \o Only(p, K) = (a \o q) \o Only(<<x>> \o p, K)

LEMMA OrderOfMove ==
  ASSUME NEW a \in Seq(Mbufs), NEW q \in Seq(Mbufs), NEW p \in Seq(Mbufs), NEW x \in Mbufs,
         NEW K, x \in K
  PROVE  SameOrder(a, q, p, x, K)
<1> DEFINE e == <<x>>
           o == Only(p, K)
           c == a \o q
<1>1. e \in Seq(Mbufs) /\ Append(q, x) = q \o e
  BY AppendIsConcat
<1>2. o \in Seq(Mbufs) /\ c \in Seq(Mbufs)
  BY OnlyElements, ConcatFacts
<1>3. Only(e \o p, K) = e \o o
  BY ZenonT(60), OnlyFront
<1> HIDE DEF e, o
<1>4. a \o (q \o e) = (a \o q) \o e
  <2>1. e \in Seq(Mbufs)
    BY Zenon, <1>1
  <2> HIDE DEF c
  <2> QED BY <2>1, ConcatAssoc
<1> HIDE DEF c
<1>5. (c \o e) \o o = c \o (e \o o)
  <2>1. c \in Seq(Mbufs) /\ e \in Seq(Mbufs) /\ o \in Seq(Mbufs)
    BY Zenon, <1>1, <1>2
  <2> QED BY <2>1, ConcatAssoc
<1> QED BY Zenon, <1>1, <1>3, <1>4, <1>5 DEF SameOrder, c, o, e

\* EnqueueOne keeps the invariant: the packet moves from the front of what is pending
\* to the end of the queue of its group, or leaves the order of arrival.
LEMMA EnqueueOneKeeps ==
  ASSUME PipelineInv, EnqueueOne
  PROVE  PipelineInv'
<1> DEFINE x == rx_array[idx]
           g == pkt[x].group
<1>1. /\ x \in Mbufs /\ g \in Groups /\ Queued(pkt[x], g)
      /\ Pending' \in Seq(Mbufs) /\ Pending = <<x>> \o Pending'
      /\ Elements(Pending) = {x} \cup Elements(Pending')
      /\ AllDistinct(Pending') /\ x \notin Elements(Pending')
  BY Zenon, EnqueueEffect
<1>2. /\ ppc = "enqueue" /\ idx' = idx + 1 /\ ppc' = "save"
      /\ IF Len(queue[g]) < QueueSize
         THEN queue' = [queue EXCEPT ![g] = Append(@, x)] /\ UNCHANGED arrived
         ELSE arrived' = [arrived EXCEPT ![g] = Without(@, {x})] /\ UNCHANGED queue
      /\ UNCHANGED <<port, pool, tx, pkt, rx_array, rx_applied, array, applied, which, cpc>>
  BY Zenon DEF EnqueueOne, consumerVars
<1>3. \A h \in Groups : /\ queue[h] \in Seq(Mbufs) /\ array[h] \in Seq(Mbufs)
                        /\ arrived[h] \in Seq(Mbufs)
  BY Zenon, BatchTypes DEF PipelineInv
<1>4. /\ queue \in [Groups -> Seq(Mbufs)] /\ arrived \in [Groups -> Seq(Mbufs)]
  BY Zenon DEF PipelineInv, TypeOK, Batches
<1>5. /\ x \notin pool /\ x \notin tx
      /\ \A h \in Groups : x \notin Elements(queue[h]) /\ x \notin Elements(array[h])
  BY Zenon, <1>1 DEF PipelineInv, Apart
<1> HIDE DEF x, g
<1>6. /\ idx' \in Nat \ {0} /\ idx' \in 1 .. Len(rx_array') + 1
      /\ ppc' \in {"idle", "filter", "save", "enqueue"}
      /\ ppc' \notin {"idle", "filter"} /\ ppc' # "idle" /\ ppc' # "enqueue"
  <2>1. Len(rx_array) \in Nat
    BY LenFacts DEF PipelineInv, TypeOK, Batches
  <2> QED BY <1>2, <2>1 DEF PipelineInv, Control
<1>7. \A m \in Elements(Pending') : Waiting(pkt'[m]) /\ pkt'[m].keep
  <2>1. ppc \in {"save", "enqueue"}
    BY Zenon, <1>2
  <2> QED BY Zenon, <1>1, <1>2, <2>1 DEF PipelineInv, Stages
<1>8. \A h \in Groups : (array[h] \o queue[h]) \o Only(Pending, Kept(h)) = arrived[h]
  BY Zenon DEF PipelineInv, InOrder, Kept
<1>9. \A h \in Groups : Kept(h)' = Kept(h)
  BY Zenon, <1>2 DEF Kept
<1>10. x \in Kept(g) /\ \A h \in Groups : h # g => x \notin Kept(h)
  BY Zenon, <1>1 DEF Kept, Queued, Passed, g
<1>11. \A h \in Groups : h # g => Only(Pending', Kept(h)) = Only(Pending, Kept(h))
  <2> TAKE h \in Groups
  <2> HAVE h # g
  <2> DEFINE p == Pending'
             R == Kept(h)
  <2> HIDE DEF p, R
  <2>1. p \in Seq(Mbufs) /\ x \in Mbufs /\ x \notin R
    BY Zenon, <1>1, <1>10 DEF p, R
  <2>2. Only(<<x>> \o p, R) = Only(p, R)
    BY ZenonT(60), <2>1, OnlyFront
  <2> QED BY Zenon, <1>1, <2>2 DEF p, R
<1>12. CASE Len(queue[g]) < QueueSize
  <2>1. queue' = [queue EXCEPT ![g] = Append(queue[g], x)] /\ arrived' = arrived
    BY Zenon, <1>2, <1>12
  <2>2. /\ queue'[g] = Append(queue[g], x)
        /\ \A h \in Groups : h # g => queue'[h] = queue[h]
    BY Zenon, <1>1, <1>4, <2>1
  <2>3. /\ Append(queue[g], x) \in Seq(Mbufs) /\ Len(Append(queue[g], x)) = Len(queue[g]) + 1
        /\ Elements(Append(queue[g], x)) = Elements(queue[g]) \cup {x}
        /\ AllDistinct(Append(queue[g], x)) <=> AllDistinct(queue[g]) /\ x \notin Elements(queue[g])
    <3> DEFINE q == queue[g]
    <3>1. q \in Seq(Mbufs) /\ x \in Mbufs
      BY Zenon, <1>1, <1>3
    <3> HIDE DEF q
    <3>2. Append(q, x) \in Seq(Mbufs) /\ Len(Append(q, x)) = Len(q) + 1
      BY <3>1, AppendFacts
    <3>3. /\ Elements(Append(q, x)) = Elements(q) \cup {x}
          /\ AllDistinct(Append(q, x)) <=> AllDistinct(q) /\ x \notin Elements(q)
      BY <3>1, AppendElements
    <3> QED BY Zenon, <3>2, <3>3 DEF q
  <2>4. \A h \in Groups : queue'[h] \in Seq(Mbufs)
    BY Zenon, <1>3, <2>2, <2>3
  <2>5. TypeOK'
    <3>1. queue' \in [Groups -> Seq(Mbufs)]
      BY Zenon, <1>4, <2>1, <2>4
    <3> QED BY Zenon, <1>2, <1>6, <2>1, <3>1 DEF PipelineInv, TypeOK, Batches
  <2>6. Control'
    <3>1. Len(queue'[g]) <= QueueSize
      <4>1. Len(queue[g]) \in Nat
        BY <1>1, <1>3, LenFacts
      <4> DEFINE n == Len(queue[g])
      <4> HIDE DEF n
      <4>2. n + 1 <= QueueSize
        BY <1>12, <4>1, SizesAssumption DEF n
      <4> QED BY Zenon, <2>2, <2>3, <4>2 DEF n
    <3>2. \A h \in Groups : Len(queue'[h]) <= QueueSize
      BY Zenon, <2>2, <3>1 DEF PipelineInv, Control
    <3> QED BY Zenon, <1>2, <1>6, <3>2 DEF PipelineInv, Control
  <2>7. Stages'
    <3>1. \A h \in Groups : \A m \in Elements(queue'[h]) : Queued(pkt'[m], h)
      BY Zenon, <1>1, <1>2, <2>2, <2>3 DEF PipelineInv, Stages
    <3> QED BY Zenon, <1>2, <1>6, <1>7, <3>1 DEF PipelineInv, Stages
  <2>8. Once'
    BY Zenon, <1>1, <1>2, <1>5, <2>2, <2>3 DEF PipelineInv, Once
  <2>9. \A h \in Groups : \A m : m \in Elements(queue'[h]) <=> m \in Elements(queue[h]) \/ (m = x /\ h = g)
    BY Zenon, <2>2, <2>3
  <2>10. Apart'
    BY ZenonT(60), <1>1, <1>2, <1>5, <2>9 DEF PipelineInv, Apart
  <2>11. InOrder'
    <3> SUFFICES ASSUME NEW h \in Groups
                 PROVE  (array'[h] \o queue'[h]) \o Only(Pending', Kept(h)') = arrived'[h]
      BY Zenon DEF InOrder, Kept
    <3>1. CASE h = g
      <4> DEFINE a == array[g]
                 q == queue[g]
                 p == Pending'
                 R == Kept(g)
      <4> HIDE DEF a, q, p, R
      <4>1. a \in Seq(Mbufs) /\ q \in Seq(Mbufs) /\ p \in Seq(Mbufs) /\ x \in Mbufs /\ x \in R
        BY Zenon, <1>1, <1>3, <1>10 DEF a, q, p, R
      <4>2. SameOrder(a, q, p, x, R)
        BY Zenon, <4>1, OrderOfMove
      <4> QED BY Zenon, <1>1, <1>2, <1>8, <1>9, <2>1, <2>2, <3>1, <4>2 DEF SameOrder, a, q, p, R
    <3>2. CASE h # g
      BY Zenon, <1>2, <1>8, <1>9, <1>11, <2>1, <2>2, <3>2
    <3> QED BY Zenon, <3>1, <3>2
  <2> QED BY Zenon, <2>5, <2>6, <2>7, <2>8, <2>10, <2>11 DEF PipelineInv
<1>13. CASE ~(Len(queue[g]) < QueueSize)
  <2>1. arrived' = [arrived EXCEPT ![g] = Without(arrived[g], {x})] /\ queue' = queue
    BY Zenon, <1>2, <1>13
  <2>2. /\ arrived'[g] = Without(arrived[g], {x})
        /\ \A h \in Groups : h # g => arrived'[h] = arrived[h]
    BY Zenon, <1>1, <1>4, <2>1
  <2>3. \A h \in Groups : arrived'[h] \in Seq(Mbufs)
    <3>1. Without(arrived[g], {x}) \in Seq(Mbufs)
      BY Zenon, <1>1, <1>3, OnlyElements DEF Without
    <3> QED BY Zenon, <1>3, <2>2, <3>1
  <2>4. TypeOK' /\ Control'
    <3>1. arrived' \in [Groups -> Seq(Mbufs)]
      BY Zenon, <1>4, <2>1, <2>3
    <3> QED BY Zenon, <1>2, <1>6, <2>1, <3>1 DEF PipelineInv, TypeOK, Batches, Control
  <2>5. Stages'
    BY Zenon, <1>2, <1>6, <1>7, <2>1 DEF PipelineInv, Stages
  <2>6. Once'
    BY Zenon, <1>1, <1>2, <2>1 DEF PipelineInv, Once
  <2>7. Apart'
    BY Zenon, <1>1, <1>2, <2>1 DEF PipelineInv, Apart
  <2>8. InOrder'
    <3> SUFFICES ASSUME NEW h \in Groups
                 PROVE  (array'[h] \o queue'[h]) \o Only(Pending', Kept(h)') = arrived'[h]
      BY Zenon DEF InOrder, Kept
    <3>1. CASE h = g
      <4> DEFINE c == array[g] \o queue[g]
                 p == Pending'
                 R == Kept(g)
                 e == <<x>>
      <4>1. c \in Seq(Mbufs) /\ Elements(c) = Elements(array[g]) \cup Elements(queue[g])
        <5> DEFINE a == array[g]
                   q == queue[g]
        <5>1. a \in Seq(Mbufs) /\ q \in Seq(Mbufs)
          BY Zenon, <1>1, <1>3
        <5> HIDE DEF a, q
        <5>2. a \o q \in Seq(Mbufs) /\ Elements(a \o q) = Elements(a) \cup Elements(q)
          BY <5>1, ConcatFacts, ConcatElements
        <5> QED BY Zenon, <5>2 DEF a, q
      <4>2. e \in Seq(Mbufs) /\ e \o p \in Seq(Mbufs)
        BY <1>1, AppendIsConcat, ConcatFacts
      <4> HIDE DEF c, p, R
      <4>3. Without(c \o Only(e \o p, R), {x}) = Without(c, {x}) \o Only(e \o p, R \ {x})
        <5> DEFINE t == e \o p
                   S == {x}
        <5> HIDE DEF t, S
        <5>1. c \in Seq(Mbufs) /\ t \in Seq(Mbufs)
          BY Zenon, <4>1, <4>2 DEF t, p
        <5>2. WithoutParts(c, t, R, S)
          BY Zenon, <5>1, WithoutConcat
        <5> QED BY Zenon, <5>2 DEF t, S, WithoutParts
      <4>4. Without(c, {x}) = c
        <5>1. \A m \in Elements(c) : m \notin {x}
          BY Zenon, <1>1, <1>5, <4>1
        <5> QED BY Zenon, <4>1, <5>1, WithoutNone
      <4>5. p \in Seq(Mbufs) /\ x \in Mbufs /\ x \notin R \ {x}
        BY Zenon, <1>1 DEF p
      <4>6. Only(e \o p, R \ {x}) = Only(p, R \ {x})
        BY ZenonT(60), <4>5, OnlyFront
      <4>7. Only(p, R \ {x}) = Only(p, R)
        <5> DEFINE Q == R \ {x}
        <5>1. \A m \in Elements(p) : m \in Q <=> m \in R
          BY Zenon, <1>1 DEF p
        <5> HIDE DEF Q
        <5>2. Only(p, Q) = Only(p, R)
          BY <4>5, <5>1, OnlyAgree
        <5> QED BY Zenon, <5>2 DEF Q
      <4>8. c \o Only(e \o p, R) = arrived[g]
        BY Zenon, <1>1, <1>8 DEF c, p, R
      <4> HIDE DEF e
      <4>9. c \o Only(p, R) = arrived'[g]
        BY Zenon, <2>2, <4>3, <4>4, <4>6, <4>7, <4>8
      <4> QED BY Zenon, <1>2, <1>9, <2>1, <3>1, <4>9 DEF c, p, R
    <3>2. CASE h # g
      BY Zenon, <1>2, <1>8, <1>9, <1>11, <2>1, <2>2, <3>2
    <3> QED BY Zenon, <3>1, <3>2
  <2> QED BY Zenon, <2>4, <2>5, <2>6, <2>7, <2>8 DEF PipelineInv
<1> QED BY Zenon, <1>12, <1>13

-----------------------------------------------------------------------------
(* The steps of the consumer *)

\* The second transform, and RestoreHeader before it, of a queued packet.
LEMMA SecondPass ==
  ASSUME NEW p \in Packets, NEW h, Queued(p, h)
  PROVE  LET q == [p EXCEPT !.second = @ + 1] IN
         q \in Packets /\ Restored(q, h) /\ q.keep = p.keep /\ q.group = p.group
<1>1. p.keep /\ p.first = 1 /\ p.saved /\ p.second = 0 /\ p.group = h
  BY Zenon DEF Queued, Passed
<1> DEFINE q == [p EXCEPT !.second = 1]
<1>2. [p EXCEPT !.second = p.second + 1] = q
  <2>1. p.second + 1 = 1
    BY <1>1
  <2> QED BY Zenon, <2>1
<1>3. q \in Packets
  BY DEF Packets
<1>4. /\ q.keep = p.keep /\ q.group = p.group /\ q.first = p.first /\ q.saved = p.saved
      /\ q.second = 1
  BY DEF Packets
<1> HIDE DEF q
<1>5. Restored(q, h)
  BY Zenon, <1>1, <1>4 DEF Restored, Passed
<1> QED BY Zenon, <1>2, <1>3, <1>4, <1>5

\* GroupAct moves the first packets of the queue of the group whose turn it is into
\* its batch, which was empty.
LEMMA GroupActEffect ==
  ASSUME PipelineInv, GroupAct
  PROVE  \E b \in Seq(Mbufs), r \in Seq(Mbufs) :
           /\ queue[which] = b \o r /\ array[which] = <<>>
           /\ queue' = [queue EXCEPT ![which] = r]
           /\ array' = [array EXCEPT ![which] = b]
           /\ pool' = pool
           /\ pkt' = [m \in Mbufs |-> IF m \in Elements(b) THEN [pkt[m] EXCEPT !.second = @ + 1]
                                      ELSE pkt[m]]
           /\ Len(r) <= Len(queue[which])
<1> DEFINE g == which
           n == MinOf(BatchSize, Len(queue[g]))
           b == SubSeq(queue[g], 1, n)
           r == SubSeq(queue[g], n + 1, Len(queue[g]))
<1>1. which \in Groups /\ queue[g] \in Seq(Mbufs) /\ cpc = "idle"
  BY Zenon, BatchTypes DEF PipelineInv, TypeOK, GroupAct
<1>2. array[g] = <<>> /\ ~applied[g]
  BY Zenon, <1>1 DEF PipelineInv, Control
<1>3. /\ queue' = [queue EXCEPT ![which] = r]
      /\ array' = [array EXCEPT ![which] = b]
      /\ pool' = pool \cup Elements(array[g])
      /\ pkt' = [m \in Mbufs |-> IF m \in Elements(b) THEN [pkt[m] EXCEPT !.second = @ + 1]
                                 ELSE pkt[m]]
  BY Zenon, <1>2 DEF GroupAct
<1>4. pool' = pool
  BY Zenon, <1>2, <1>3, EmptyElements
<1>5. Len(queue[g]) \in Nat /\ n \in 0 .. Len(queue[g])
  <2> DEFINE l == Len(queue[g])
  <2> HIDE DEF l
  <2>1. l \in Nat
    BY <1>1, LenFacts DEF l
  <2>2. MinOf(BatchSize, l) \in 0 .. l
    BY <2>1, SizesAssumption DEF MinOf
  <2> QED BY Zenon, <2>1, <2>2 DEF l
<1> HIDE DEF n
<1>6. b \in Seq(Mbufs) /\ r \in Seq(Mbufs) /\ queue[g] = b \o r
  BY Zenon, <1>1, <1>5, SeqSplit
<1>7. Len(r) <= Len(queue[g])
  <2>1. n + 1 \in 1 .. Len(queue[g]) + 1 /\ Len(queue[g]) \in (n + 1) - 1 .. Len(queue[g])
    BY <1>5
  <2>2. Len(r) = Len(queue[g]) - (n + 1) + 1
    BY <1>1, <2>1, SubSeqFacts
  <2> HIDE DEF r
  <2> QED BY <1>5, <2>2
<1> HIDE DEF b, r
<1> QED BY Zenon, <1>2, <1>3, <1>4, <1>6, <1>7

\* GroupAct keeps the invariant: the first packets of the queue become the batch, and
\* each passes the second transform for the first time.
LEMMA GroupActKeeps ==
  ASSUME PipelineInv, GroupAct
  PROVE  PipelineInv'
<1> DEFINE g == which
<1>1. PICK b \in Seq(Mbufs), r \in Seq(Mbufs) :
           /\ queue[which] = b \o r /\ array[which] = <<>>
           /\ queue' = [queue EXCEPT ![which] = r]
           /\ array' = [array EXCEPT ![which] = b]
           /\ pool' = pool
           /\ pkt' = [m \in Mbufs |-> IF m \in Elements(b) THEN [pkt[m] EXCEPT !.second = @ + 1]
                                      ELSE pkt[m]]
           /\ Len(r) <= Len(queue[which])
  BY Zenon, GroupActEffect
<1>2. /\ cpc = "idle" /\ cpc' = "send" /\ applied' = [applied EXCEPT ![g] = TRUE]
      /\ UNCHANGED <<port, tx, rx_array, rx_applied, idx, ppc, which, arrived>>
  BY Zenon DEF GroupAct, producerVars
<1>3. \A h \in Groups : /\ queue[h] \in Seq(Mbufs) /\ array[h] \in Seq(Mbufs)
                        /\ arrived[h] \in Seq(Mbufs)
  BY Zenon, BatchTypes DEF PipelineInv
<1>4. /\ queue \in [Groups -> Seq(Mbufs)] /\ array \in [Groups -> Seq(Mbufs)]
      /\ g \in Groups /\ pkt \in [Mbufs -> Packets] /\ applied \in [Groups -> BOOLEAN]
  BY Zenon DEF PipelineInv, TypeOK, Batches, Packets
<1>5. Pending' = Pending /\ Elements(Pending) \subseteq Mbufs
  BY Zenon, <1>2, BatchTypes, ElementsType DEF Pending, PipelineInv
<1>6. /\ queue'[g] = r /\ array'[g] = b
      /\ \A h \in Groups : h # g => queue'[h] = queue[h] /\ array'[h] = array[h]
  BY Zenon, <1>1, <1>4
<1>7. /\ Elements(queue[g]) = Elements(b) \cup Elements(r)
      /\ AllDistinct(b) /\ AllDistinct(r) /\ \A m \in Elements(b) : m \notin Elements(r)
      /\ Elements(b) \subseteq Mbufs /\ Elements(r) \subseteq Mbufs
  <2>1. /\ Elements(b \o r) = Elements(b) \cup Elements(r)
        /\ AllDistinct(b \o r) <=> /\ AllDistinct(b) /\ AllDistinct(r)
                                   /\ \A m \in Elements(b) : m \notin Elements(r)
    BY ConcatElements
  <2>2. AllDistinct(b \o r)
    BY Zenon, <1>1, <1>4 DEF PipelineInv, Once
  <2>3. Elements(b) \subseteq Mbufs /\ Elements(r) \subseteq Mbufs
    BY Zenon, ElementsType
  <2> QED BY Zenon, <1>1, <2>1, <2>2, <2>3
<1>8. \A m \in Elements(b) : Queued(pkt[m], g)
  BY Zenon, <1>4, <1>7 DEF PipelineInv, Stages
<1>9. /\ \A m \in Elements(b) : /\ pkt'[m] \in Packets /\ Restored(pkt'[m], g)
                                /\ pkt'[m].keep = pkt[m].keep /\ pkt'[m].group = pkt[m].group
      /\ \A m \in Mbufs : m \notin Elements(b) => pkt'[m] = pkt[m]
  <2>1. ASSUME NEW m \in Elements(b)
        PROVE  /\ pkt'[m] \in Packets /\ Restored(pkt'[m], g)
               /\ pkt'[m].keep = pkt[m].keep /\ pkt'[m].group = pkt[m].group
    <3>1. pkt'[m] = [pkt[m] EXCEPT !.second = @ + 1] /\ pkt[m] \in Packets /\ Queued(pkt[m], g)
      BY Zenon, <1>1, <1>4, <1>7, <1>8
    <3> DEFINE q == [pkt[m] EXCEPT !.second = @ + 1]
    <3>2. q \in Packets /\ Restored(q, g) /\ q.keep = pkt[m].keep /\ q.group = pkt[m].group
      BY Zenon, <3>1, SecondPass
    <3> HIDE DEF q
    <3>3. pkt'[m] = q
      BY Zenon, <3>1 DEF q
    <3> QED BY Zenon, <3>2, <3>3
  <2>2. \A m \in Mbufs : m \notin Elements(b) => pkt'[m] = pkt[m]
    BY Zenon, <1>1
  <2> QED BY Zenon, <2>1, <2>2
<1> HIDE DEF g
<1>10. TypeOK'
  <2>1. pkt' \in [Mbufs -> Packets]
    <3>1. \A m \in Mbufs : pkt'[m] \in Packets
      BY Zenon, <1>4, <1>9
    <3> QED BY Zenon, <1>1, <3>1
  <2>2. queue' \in [Groups -> Seq(Mbufs)] /\ array' \in [Groups -> Seq(Mbufs)]
    <3>1. \A h \in Groups : queue'[h] \in Seq(Mbufs) /\ array'[h] \in Seq(Mbufs)
      BY Zenon, <1>3, <1>6
    <3> QED BY Zenon, <1>1, <1>4, <3>1
  <2>3. applied' \in [Groups -> BOOLEAN]
    BY Zenon, <1>2, <1>4
  <2>4. cpc' \in {"idle", "send", "done"}
    BY <1>2
  <2> QED BY Zenon, <1>1, <1>2, <2>1, <2>2, <2>3, <2>4 DEF PipelineInv, TypeOK, Batches, Packets
<1>11. Control'
  <2>1. \A h \in Groups : Len(queue'[h]) <= QueueSize
    <3> SUFFICES Len(r) <= QueueSize
      BY Zenon, <1>6 DEF PipelineInv, Control
    <3>1. Len(queue[g]) <= QueueSize
      BY Zenon, <1>4 DEF PipelineInv, Control
    <3>2. Len(r) <= Len(queue[g])
      BY Zenon, <1>1 DEF g
    <3>3. Len(r) \in Nat /\ Len(queue[g]) \in Nat
      BY <1>3, <1>4, LenFacts
    <3> QED BY <3>1, <3>2, <3>3, SizesAssumption
  <2>2. \A h \in Groups : h # which' \/ cpc' = "idle" => array'[h] = <<>> /\ ~applied'[h]
    <3>1. cpc' # "idle" /\ which' = g
      BY <1>2 DEF g
    <3>2. \A h \in Groups : h # g => array[h] = <<>> /\ ~applied[h]
      BY Zenon DEF PipelineInv, Control, g
    <3>3. \A h \in Groups : h # g => applied'[h] = applied[h]
      BY Zenon, <1>2, <1>4
    <3> QED BY Zenon, <1>6, <3>1, <3>2, <3>3
  <2> QED BY Zenon, <1>2, <2>1, <2>2 DEF PipelineInv, Control
<1>12. /\ \A m \in tx \cup Elements(Pending) : m \in Mbufs /\ m \notin Elements(b)
       /\ \A h \in Groups : \A m \in Elements(queue'[h]) : m \in Mbufs /\ m \notin Elements(b)
       /\ \A h \in Groups : h # g =>
            \A m \in Elements(array[h]) : m \in Mbufs /\ m \notin Elements(b)
  <2>1. \A h \in Groups : Elements(queue[h]) \subseteq Mbufs /\ Elements(array[h]) \subseteq Mbufs
    BY Zenon, <1>3, ElementsType
  <2>2. \A m \in Elements(b) : m \in Mbufs /\ m \in Elements(queue[g])
    BY Zenon, <1>7
  <2>3. \A m \in tx \cup Elements(Pending) : m \in Mbufs /\ m \notin Elements(b)
    BY Zenon, <1>4, <1>5, <2>2 DEF PipelineInv, TypeOK, Apart
  <2>4. \A h \in Groups : h # g => \A m \in Elements(queue[h]) : m \in Mbufs /\ m \notin Elements(b)
    BY Zenon, <1>4, <2>1, <2>2 DEF PipelineInv, Apart
  <2>5. \A h \in Groups : \A m \in Elements(queue'[h]) : m \in Mbufs /\ m \notin Elements(b)
    BY Zenon, <1>6, <1>7, <2>4
  <2>6. \A h \in Groups : \A m \in Elements(array[h]) : m \in Mbufs /\ m \notin Elements(b)
    BY Zenon, <1>4, <2>1, <2>2 DEF PipelineInv, Apart
  <2> QED BY Zenon, <2>3, <2>5, <2>6
<1>13. \A h \in Groups : \A m \in Elements(queue'[h]) : m \in Elements(queue[h])
  BY Zenon, <1>6, <1>7
<1>14. Stages'
  <2>1. \A m \in Elements(Pending) : pkt'[m] = pkt[m]
    BY Zenon, <1>9, <1>12
  <2>2. ppc = "enqueue" => pkt'[rx_array[idx]].saved
    <3> SUFFICES ASSUME ppc = "enqueue" PROVE pkt'[rx_array[idx]] = pkt[rx_array[idx]]
      BY Zenon DEF PipelineInv, Stages
    <3>1. rx_array[idx] \in Elements(Pending)
      <4>1. rx_array \in Seq(Mbufs) /\ idx \in 1 .. Len(rx_array)
        <5>1. rx_array \in Seq(Mbufs) /\ Len(rx_array) \in Nat
          BY LenFacts DEF PipelineInv, TypeOK, Batches
        <5> QED BY <5>1 DEF PipelineInv, Control
      <4> DEFINE x == rx_array[idx]
                 t == SubSeq(rx_array, idx + 1, Len(rx_array))
      <4>2. t \in Seq(Mbufs) /\ x \in Mbufs /\ Pending = <<x>> \o t
        BY Zenon, <4>1, SuffixNext DEF Pending
      <4> HIDE DEF t, x
      <4>3. Elements(<<x>> \o t) = {x} \cup Elements(t)
        BY Zenon, <4>2, FrontElements
      <4> QED BY Zenon, <4>2, <4>3 DEF x
    <3> QED BY Zenon, <2>1, <3>1
  <2>3. \A h \in Groups : \A m \in Elements(queue'[h]) : Queued(pkt'[m], h)
    BY Zenon, <1>9, <1>12, <1>13 DEF PipelineInv, Stages
  <2>4. \A h \in Groups : \A m \in Elements(array'[h]) : Restored(pkt'[m], h)
    <3>1. \A h \in Groups : h # g => \A m \in Elements(array'[h]) : Restored(pkt'[m], h)
      BY Zenon, <1>6, <1>9, <1>12 DEF PipelineInv, Stages
    <3> QED BY Zenon, <1>6, <1>9, <3>1
  <2>5. \A m \in tx : Sent(pkt'[m])
    BY Zenon, <1>9, <1>12 DEF PipelineInv, Stages
  <2>6. \A m \in Elements(Pending) : Waiting(pkt'[m]) /\ (ppc \in {"save", "enqueue"} => pkt'[m].keep)
    BY Zenon, <2>1 DEF PipelineInv, Stages
  <2> QED BY Zenon, <1>2, <1>5, <2>2, <2>3, <2>4, <2>5, <2>6 DEF Stages
<1>15. Once'
  BY Zenon, <1>5, <1>6, <1>7 DEF PipelineInv, Once
<1>16. Apart'
  <2>1. \A h \in Groups : \A m \in Elements(array'[h]) :
          m \in Elements(array[h]) \/ (h = g /\ m \in Elements(queue[g]) /\ m \in Elements(b))
    BY Zenon, <1>6, <1>7
  <2>2. \A m \in Mbufs :
          /\ m \in pool' => m \notin tx' /\ m \notin Elements(Pending')
          /\ m \in tx' => m \notin Elements(Pending')
    BY Zenon, <1>1, <1>2, <1>5 DEF PipelineInv, Apart
  <2>3. \A m \in Mbufs : m \in pool' \cup tx' \cup Elements(Pending') =>
          \A h \in Groups : m \notin Elements(queue'[h]) /\ m \notin Elements(array'[h])
    BY Zenon, <1>1, <1>2, <1>4, <1>5, <1>13, <2>1 DEF PipelineInv, Apart
  <2>4. \A m \in Mbufs : \A h, j \in Groups :
          m \in Elements(queue'[h]) => m \notin Elements(array'[j])
    BY Zenon, <1>12, <1>13, <2>1 DEF PipelineInv, Apart
  <2>5. \A m \in Mbufs : \A h, j \in Groups :
          m \in Elements(queue'[h]) /\ m \in Elements(queue'[j]) => h = j
    BY Zenon, <1>13 DEF PipelineInv, Apart
  <2>6. \A m \in Mbufs : \A h, j \in Groups :
          m \in Elements(array'[h]) /\ m \in Elements(array'[j]) => h = j
    BY ZenonT(60), <1>4, <2>1 DEF PipelineInv, Apart
  <2> QED BY Zenon, <2>2, <2>3, <2>4, <2>5, <2>6 DEF Apart
<1>17. InOrder'
  <2> SUFFICES ASSUME NEW h \in Groups
               PROVE  (array'[h] \o queue'[h]) \o Only(Pending', Kept(h)') = arrived'[h]
    BY Zenon DEF InOrder, Kept
  <2>1. (array[h] \o queue[h]) \o Only(Pending, Kept(h)) = arrived[h]
    BY Zenon DEF PipelineInv, InOrder, Kept
  <2>2. \A m : m \in Kept(h)' <=> m \in Kept(h)
    BY Zenon, <1>9 DEF Kept
  <2>3. Kept(h)' = Kept(h)
    BY Zenon, <2>2
  <2>4. array'[h] \o queue'[h] = array[h] \o queue[h]
    <3>1. <<>> \o (b \o r) = b \o r
      BY ConcatFacts, ConcatEmpty
    <3> QED BY Zenon, <1>1, <1>6, <3>1 DEF g
  <2> QED BY Zenon, <1>2, <1>5, <2>1, <2>3, <2>4
<1> QED BY Zenon, <1>10, <1>11, <1>14, <1>15, <1>16, <1>17 DEF PipelineInv

\* The order of arrival when s leaves from the front.
LeavesInOrder(s, r, q, p, K) ==
  Without(((s \o r) \o q) \o Only(p, K), Elements(s)) = (r \o q) \o Only(p, K)

LEMMA OrderOfLeave ==
  ASSUME NEW s \in Seq(Mbufs), NEW r \in Seq(Mbufs), NEW q \in Seq(Mbufs), NEW p \in Seq(Mbufs),
         NEW K,
         \A m \in Elements(s) : m \notin Elements(r) /\ m \notin Elements(q) /\ m \notin Elements(p)
  PROVE  LeavesInOrder(s, r, q, p, K)
<1> DEFINE S == Elements(s)
           t == r \o q
           c == s \o t
<1>1. t \in Seq(Mbufs) /\ Elements(t) = Elements(r) \cup Elements(q)
  BY ConcatFacts, ConcatElements
<1>2. (s \o r) \o q = c
  BY ConcatAssoc
<1> HIDE DEF t
<1>3. c \in Seq(Mbufs)
  BY <1>1, ConcatFacts
<1>4. Without(c, S) = t
  <2>1. \A m \in Elements(t) : m \notin S
    BY Zenon, <1>1
  <2>2. Elements(s) \subseteq S /\ t \in Seq(Mbufs)
    BY Zenon, <1>1
  <2> HIDE DEF S
  <2> QED BY <2>1, <2>2, WithoutFirst
<1> HIDE DEF c, S
<1>5. Without(c \o Only(p, K), S) = Without(c, S) \o Only(p, K \ S)
  <2>1. WithoutParts(c, p, K, S)
    BY Zenon, <1>3, WithoutConcat
  <2> QED BY Zenon, <2>1 DEF WithoutParts
<1>6. Only(p, K \ S) = Only(p, K)
  <2> DEFINE Q == K \ S
  <2>1. \A m \in Elements(p) : m \in Q <=> m \in K
    BY Zenon DEF S
  <2> HIDE DEF Q
  <2>2. Only(p, Q) = Only(p, K)
    BY <2>1, OnlyAgree
  <2> QED BY Zenon, <2>2 DEF Q
<1> QED BY Zenon, <1>2, <1>4, <1>5, <1>6 DEF LeavesInOrder, S, t

\* The packets s leave the batch of group g from its front, to the port or to the mempool.
Leave(g, s, r) ==
  /\ array[g] = s \o r
  /\ array' = [array EXCEPT ![g] = r]
  /\ arrived' = [arrived EXCEPT ![g] = Without(@, Elements(s))]
  /\ \/ pool' = pool \cup Elements(s) /\ tx' = tx
     \/ tx' = tx \cup Elements(s) /\ pool' = pool
  /\ UNCHANGED <<port, pkt, rx_array, rx_applied, idx, ppc, queue>>

LEMMA LeaveKeeps ==
  ASSUME PipelineInv, NEW g \in Groups, NEW s \in Seq(Mbufs), NEW r \in Seq(Mbufs), Leave(g, s, r)
  PROVE  /\ pool' \subseteq Mbufs /\ tx' \subseteq Mbufs
         /\ array' \in [Groups -> Seq(Mbufs)] /\ arrived' \in [Groups -> Seq(Mbufs)]
         /\ array'[g] = r /\ \A h \in Groups : h # g => array'[h] = array[h]
         /\ Stages' /\ Once' /\ Apart' /\ InOrder'
<1>1. \A h \in Groups : /\ queue[h] \in Seq(Mbufs) /\ array[h] \in Seq(Mbufs)
                        /\ arrived[h] \in Seq(Mbufs)
  BY Zenon, BatchTypes DEF PipelineInv
<1>2. array \in [Groups -> Seq(Mbufs)] /\ arrived \in [Groups -> Seq(Mbufs)]
  BY Zenon DEF PipelineInv, TypeOK, Batches
<1>3. /\ Pending' = Pending /\ Pending \in Seq(Mbufs)
  BY Zenon, BatchTypes DEF Leave, Pending, PipelineInv
<1>4. array'[g] = r /\ \A h \in Groups : h # g => array'[h] = array[h]
  BY Zenon, <1>2 DEF Leave
<1>5. /\ arrived'[g] = Without(arrived[g], Elements(s))
      /\ \A h \in Groups : h # g => arrived'[h] = arrived[h]
  BY Zenon, <1>2 DEF Leave
<1>6. /\ Elements(array[g]) = Elements(s) \cup Elements(r)
      /\ AllDistinct(s) /\ AllDistinct(r) /\ \A m \in Elements(s) : m \notin Elements(r)
      /\ Elements(s) \subseteq Mbufs /\ Elements(r) \subseteq Mbufs
  <2>1. /\ Elements(s \o r) = Elements(s) \cup Elements(r)
        /\ AllDistinct(s \o r) <=> /\ AllDistinct(s) /\ AllDistinct(r)
                                   /\ \A m \in Elements(s) : m \notin Elements(r)
    BY ConcatElements
  <2>2. AllDistinct(s \o r) /\ array[g] = s \o r
    BY Zenon DEF PipelineInv, Once, Leave
  <2>3. Elements(s) \subseteq Mbufs /\ Elements(r) \subseteq Mbufs
    BY Zenon, ElementsType
  <2> QED BY Zenon, <2>1, <2>2, <2>3
<1>7. \A m \in Elements(s) :
        /\ m \in Mbufs /\ m \in Elements(array[g]) /\ Sent(pkt[m])
        /\ m \notin pool /\ m \notin tx /\ m \notin Elements(Pending)
        /\ \A h \in Groups : m \notin Elements(queue[h])
        /\ \A h \in Groups : m \notin Elements(array'[h])
  <2>1. \A m \in Elements(s) : m \in Mbufs /\ m \in Elements(array[g])
    BY Zenon, <1>6
  <2>2. \A m \in Elements(s) : Sent(pkt[m])
    BY Zenon, <2>1 DEF PipelineInv, Stages, Restored, Sent
  <2>3. \A m \in Elements(s) : /\ m \notin pool /\ m \notin tx /\ m \notin Elements(Pending)
                               /\ \A h \in Groups : m \notin Elements(queue[h])
    BY Zenon, <2>1 DEF PipelineInv, Apart
  <2>4. \A m \in Elements(s) : \A h \in Groups : h # g => m \notin Elements(array[h])
    BY Zenon, <2>1 DEF PipelineInv, Apart
  <2> QED BY Zenon, <1>4, <1>6, <2>1, <2>2, <2>3, <2>4
<1>8. \A h \in Groups : \A m \in Elements(array'[h]) : m \in Elements(array[h])
  BY Zenon, <1>4, <1>6
<1>9. pool' \subseteq Mbufs /\ tx' \subseteq Mbufs
  BY Zenon, <1>6 DEF Leave, PipelineInv, TypeOK
<1>10. array' \in [Groups -> Seq(Mbufs)]
  <2>1. \A h \in Groups : array'[h] \in Seq(Mbufs)
    BY Zenon, <1>1, <1>4
  <2> QED BY Zenon, <1>2, <2>1 DEF Leave
<1>11. arrived' \in [Groups -> Seq(Mbufs)]
  <2>1. Without(arrived[g], Elements(s)) \in Seq(Mbufs)
    BY Zenon, <1>1, OnlyElements DEF Without
  <2>2. \A h \in Groups : arrived'[h] \in Seq(Mbufs)
    BY Zenon, <1>1, <1>5, <2>1
  <2> QED BY Zenon, <1>2, <2>2 DEF Leave
<1>12. /\ pkt' = pkt /\ queue' = queue /\ ppc' = ppc /\ rx_array' = rx_array /\ idx' = idx
  BY Zenon DEF Leave
<1>13. \A m \in tx' : m \in tx \/ m \in Elements(s)
  BY Zenon DEF Leave
<1>14. \A m \in pool' : m \in pool \/ m \in Elements(s)
  BY Zenon DEF Leave
<1>15. \A m : ~(m \in pool' /\ m \in tx' /\ m \in Elements(s))
  BY Zenon, <1>7 DEF Leave
<1>16. Stages'
  <2>1. \A m \in tx' : Sent(pkt[m])
    BY Zenon, <1>7, <1>13 DEF PipelineInv, Stages
  <2>2. \A h \in Groups : \A m \in Elements(array'[h]) : Restored(pkt[m], h)
    BY Zenon, <1>8 DEF PipelineInv, Stages
  <2> QED BY Zenon, <1>3, <1>12, <2>1, <2>2 DEF PipelineInv, Stages
<1>17. Once'
  BY Zenon, <1>3, <1>4, <1>6, <1>12 DEF PipelineInv, Once
<1>18. Apart'
  <2>1. \A m \in Mbufs :
          /\ m \in pool' => m \notin tx' /\ m \notin Elements(Pending')
          /\ m \in tx' => m \notin Elements(Pending')
    BY Zenon, <1>3, <1>7, <1>13, <1>14, <1>15 DEF PipelineInv, Apart
  <2>2. \A m \in Mbufs : m \in pool' \cup tx' \cup Elements(Pending') =>
          \A h \in Groups : m \notin Elements(queue'[h]) /\ m \notin Elements(array'[h])
    BY Zenon, <1>3, <1>7, <1>8, <1>12, <1>13, <1>14 DEF PipelineInv, Apart
  <2>3. \A m \in Mbufs : \A h, j \in Groups :
          m \in Elements(queue'[h]) => m \notin Elements(array'[j])
    BY Zenon, <1>8, <1>12 DEF PipelineInv, Apart
  <2>4. \A m \in Mbufs : \A h, j \in Groups :
          /\ m \in Elements(queue'[h]) /\ m \in Elements(queue'[j]) => h = j
          /\ m \in Elements(array'[h]) /\ m \in Elements(array'[j]) => h = j
    BY Zenon, <1>8, <1>12 DEF PipelineInv, Apart
  <2> QED BY Zenon, <2>1, <2>2, <2>3, <2>4 DEF Apart
<1>19. InOrder'
  <2> SUFFICES ASSUME NEW h \in Groups
               PROVE  (array'[h] \o queue'[h]) \o Only(Pending', Kept(h)') = arrived'[h]
    BY Zenon DEF InOrder, Kept
  <2>1. (array[h] \o queue[h]) \o Only(Pending, Kept(h)) = arrived[h]
    BY Zenon DEF PipelineInv, InOrder, Kept
  <2>2. Kept(h)' = Kept(h)
    BY Zenon, <1>12 DEF Kept
  <2>3. CASE h = g
    <3> DEFINE q == queue[g]
               p == Pending
               R == Kept(g)
    <3>1. \A m \in Elements(s) : m \notin Elements(r) /\ m \notin Elements(q) /\ m \notin Elements(p)
      BY Zenon, <1>6, <1>7
    <3>2. q \in Seq(Mbufs) /\ p \in Seq(Mbufs)
      BY Zenon, <1>1, <1>3
    <3> HIDE DEF q, p, R
    <3>3. LeavesInOrder(s, r, q, p, R)
      BY Zenon, <3>1, <3>2, OrderOfLeave
    <3>4. arrived[g] = ((s \o r) \o q) \o Only(p, R)
      BY Zenon, <2>1, <2>3 DEF Leave, p, q, R
    <3>5. arrived'[g] = (r \o q) \o Only(p, R)
      BY Zenon, <1>5, <3>3, <3>4 DEF LeavesInOrder
    <3> QED BY Zenon, <1>3, <1>4, <1>12, <2>2, <2>3, <3>5 DEF p, q, R
  <2>4. CASE h # g
    BY Zenon, <1>3, <1>4, <1>5, <1>12, <2>1, <2>2, <2>4
  <2> QED BY Zenon, <2>3, <2>4
<1> QED BY Zenon, <1>4, <1>9, <1>10, <1>11, <1>16, <1>17, <1>18, <1>19

\* What consume_batch_partial leaves is the rest of the batch.
LEMMA ConsumeIsSuffix ==
  ASSUME NEW a \in Seq(Mbufs), NEW n \in 0 .. Len(a)
  PROVE  consume_batch_partial(a, n) = SubSeq(a, n + 1, Len(a))
<1> DEFINE c == consume_batch_partial(a, n)
           r == SubSeq(a, n + 1, Len(a))
<1>1. Len(a) \in Nat /\ \A i \in 1 .. Len(a) : a[i] \in Mbufs
  BY LenFacts
<1>2. /\ r \in Seq(Mbufs) /\ Len(r) = Len(a) - n
      /\ \A i \in 1 .. Len(a) - n : r[i] = a[i + n]
  <2>1. n + 1 \in 1 .. Len(a) + 1 /\ Len(a) \in (n + 1) - 1 .. Len(a)
    BY <1>1
  <2>2. /\ r \in Seq(Mbufs) /\ Len(r) = Len(a) - (n + 1) + 1
        /\ \A i \in 1 .. Len(a) - (n + 1) + 1 : r[i] = a[i + (n + 1) - 1]
    BY Zenon, <2>1, SubSeqFacts
  <2> HIDE DEF r
  <2> QED BY <1>1, <2>2
<1>3. /\ c \in Seq(Mbufs) /\ Len(c) = Len(a) - n
      /\ \A i \in 1 .. Len(a) - n : c[i] = a[i + n]
  <2>1. Len(a) - n \in Nat /\ \A i \in 1 .. Len(a) - n : i + n \in 1 .. Len(a)
    BY <1>1
  <2>2. c \in [1 .. Len(a) - n -> Mbufs] /\ \A i \in 1 .. Len(a) - n : c[i] = a[i + n]
    BY Zenon, <1>1, <2>1 DEF consume_batch_partial
  <2> HIDE DEF c
  <2>3. c \in Seq(Mbufs) /\ Len(c) = Len(a) - n
    BY Zenon, <2>1, <2>2, SeqOfFunction
  <2> QED BY Zenon, <2>2, <2>3
<1> HIDE DEF c, r
<1>4. c = r
  <2>1. c \in Seq(Mbufs) /\ r \in Seq(Mbufs) /\ Len(c) = Len(r)
    BY Zenon, <1>2, <1>3
  <2>2. \A i \in 1 .. Len(c) : c[i] = r[i]
    BY Zenon, <1>2, <1>3
  <2> QED BY Zenon, <2>1, <2>2, SeqsEqual
<1> QED BY Zenon, <1>4 DEF c, r

\* In Send the port takes packets from the front of the batch.
LEMMA SendLeaves ==
  ASSUME PipelineInv, Send
  PROVE  \E g \in Groups : g = which /\ \E s \in Seq(Mbufs), r \in Seq(Mbufs) : Leave(g, s, r)
<1> DEFINE a == array[which]
<1>1. which \in Groups /\ a \in Seq(Mbufs) /\ Len(a) \in Nat
  <2>1. which \in Groups /\ a \in Seq(Mbufs)
    BY Zenon, BatchTypes DEF PipelineInv, TypeOK
  <2> QED BY <2>1, LenFacts
<1>2. \E s \in Seq(Mbufs), r \in Seq(Mbufs) : Leave(which, s, r)
  <2>1. PICK n \in IF port = "virtual" THEN {Len(a)} ELSE 0 .. Len(a) :
          /\ array' = [array EXCEPT ![which] = consume_batch_partial(@, n)]
          /\ arrived' = [arrived EXCEPT ![which] = Without(@, Elements(SubSeq(a, 1, n)))]
          /\ IF port = "virtual" THEN pool' = pool \cup Elements(SubSeq(a, 1, n)) /\ UNCHANGED tx
             ELSE tx' = tx \cup Elements(SubSeq(a, 1, n)) /\ UNCHANGED pool
    BY Zenon DEF Send
  <2> DEFINE s == SubSeq(a, 1, n)
             r == SubSeq(a, n + 1, Len(a))
  <2>2. n \in 0 .. Len(a)
    <3>1. Len(a) \in 0 .. Len(a)
      BY <1>1
    <3> QED BY Zenon, <3>1
  <2>3. s \in Seq(Mbufs) /\ r \in Seq(Mbufs) /\ a = s \o r
    BY Zenon, <1>1, <2>2, SeqSplit
  <2>4. consume_batch_partial(a, n) = r
    <3> HIDE DEF a
    <3> QED BY <1>1, <2>2, ConsumeIsSuffix
  <2>5. UNCHANGED <<port, pkt, rx_array, rx_applied, idx, ppc, queue>>
    BY Zenon DEF Send, producerVars
  <2>6. array' = [array EXCEPT ![which] = r]
    BY Zenon, <2>1, <2>4
  <2> HIDE DEF r, s
  <2>7. arrived' = [arrived EXCEPT ![which] = Without(@, Elements(s))]
    BY Zenon, <2>1 DEF s
  <2>8. \/ pool' = pool \cup Elements(s) /\ tx' = tx
        \/ tx' = tx \cup Elements(s) /\ pool' = pool
    BY Zenon, <2>1 DEF s
  <2>9. Leave(which, s, r)
    BY Zenon, <2>3, <2>5, <2>6, <2>7, <2>8 DEF Leave
  <2> QED BY Zenon, <2>3, <2>9
<1> QED BY Zenon, <1>1, <1>2

\* Send keeps the invariant.
LEMMA SendKeeps ==
  ASSUME PipelineInv, Send
  PROVE  PipelineInv'
<1>3. cpc = "send" /\ cpc' = "done" /\ UNCHANGED <<applied, which>>
  BY Zenon DEF Send
<1>4. PICK g \in Groups : g = which /\ \E s \in Seq(Mbufs), r \in Seq(Mbufs) : Leave(g, s, r)
  BY Zenon, SendLeaves
<1>5. PICK s \in Seq(Mbufs), r \in Seq(Mbufs) : Leave(g, s, r)
  BY Zenon, <1>4
<1>6. /\ pool' \subseteq Mbufs /\ tx' \subseteq Mbufs
      /\ array' \in [Groups -> Seq(Mbufs)] /\ arrived' \in [Groups -> Seq(Mbufs)]
      /\ array'[g] = r /\ \A h \in Groups : h # g => array'[h] = array[h]
      /\ Stages' /\ Once' /\ Apart' /\ InOrder'
  BY Zenon, <1>5, LeaveKeeps
<1>7. UNCHANGED <<port, pkt, rx_array, rx_applied, idx, ppc, queue>>
  BY Zenon, <1>5 DEF Leave
<1>8. TypeOK'
  <2>1. cpc' \in {"idle", "send", "done"}
    BY <1>3
  <2> QED BY Zenon, <1>3, <1>6, <1>7, <2>1 DEF PipelineInv, TypeOK, Batches
<1>9. Control'
  <2>1. cpc' # "idle"
    BY <1>3
  <2>2. \A h \in Groups : h # which' \/ cpc' = "idle" => array'[h] = <<>> /\ ~applied'[h]
    BY Zenon, <1>3, <1>4, <1>6, <2>1 DEF PipelineInv, Control
  <2> QED BY Zenon, <1>7, <2>2 DEF PipelineInv, Control
<1> QED BY Zenon, <1>6, <1>8, <1>9 DEF PipelineInv

\* In MergeDone all that is left of the batch leaves it.
LEMMA MergeDoneLeaves ==
  ASSUME PipelineInv, MergeDone
  PROVE  \E g \in Groups : g = which /\
           \E s \in Seq(Mbufs), r \in Seq(Mbufs) : r = <<>> /\ Leave(g, s, r)
<1> DEFINE a == array[which]
<1>1. which \in Groups /\ a \in Seq(Mbufs)
  BY Zenon, BatchTypes DEF PipelineInv, TypeOK
<1>2. \E s \in Seq(Mbufs), r \in Seq(Mbufs) : r = <<>> /\ Leave(which, s, r)
  <2>1. /\ pool' = pool \cup Elements(a)
        /\ arrived' = [arrived EXCEPT ![which] = Without(@, Elements(a))]
        /\ array' = [array EXCEPT ![which] = <<>>]
        /\ UNCHANGED <<port, tx, pkt, rx_array, rx_applied, idx, ppc, queue>>
    BY Zenon DEF MergeDone, producerVars
  <2>2. a = a \o <<>> /\ <<>> \in Seq(Mbufs)
    <3> HIDE DEF a
    <3> QED BY <1>1, ConcatEmpty
  <2>3. Leave(which, a, <<>>)
    BY Zenon, <2>1, <2>2 DEF Leave
  <2> QED BY Zenon, <1>1, <2>2, <2>3
<1> QED BY Zenon, <1>1, <1>2

\* MergeDone keeps the invariant: what the port did not take goes back to the mempool.
LEMMA MergeDoneKeeps ==
  ASSUME PipelineInv, MergeDone
  PROVE  PipelineInv'
<1>1. which \in Groups
  BY Zenon DEF PipelineInv, TypeOK
<1>3. /\ cpc = "done" /\ cpc' = "idle" /\ applied' = [applied EXCEPT ![which] = FALSE]
      /\ which' = IF which + 1 = NGroups THEN 0 ELSE which + 1
  BY Zenon DEF MergeDone
<1>4. PICK g \in Groups : g = which /\
        \E s \in Seq(Mbufs), r \in Seq(Mbufs) : r = <<>> /\ Leave(g, s, r)
  BY Zenon, MergeDoneLeaves
<1>5. PICK s \in Seq(Mbufs), r \in Seq(Mbufs) : r = <<>> /\ Leave(g, s, r)
  BY Zenon, <1>4
<1>6. /\ pool' \subseteq Mbufs /\ tx' \subseteq Mbufs
      /\ array' \in [Groups -> Seq(Mbufs)] /\ arrived' \in [Groups -> Seq(Mbufs)]
      /\ array'[g] = r /\ \A h \in Groups : h # g => array'[h] = array[h]
      /\ Stages' /\ Once' /\ Apart' /\ InOrder'
  BY Zenon, <1>5, LeaveKeeps
<1>7. UNCHANGED <<port, pkt, rx_array, rx_applied, idx, ppc, queue>>
  BY Zenon, <1>5 DEF Leave
<1>8. applied \in [Groups -> BOOLEAN]
  BY Zenon DEF PipelineInv, TypeOK
<1>9. /\ applied' \in [Groups -> BOOLEAN] /\ ~applied'[g]
      /\ \A h \in Groups : h # g => applied'[h] = applied[h]
  BY Zenon, <1>3, <1>4, <1>8
<1>10. TypeOK'
  <2>1. cpc' \in {"idle", "send", "done"}
    BY <1>3
  <2>2. which' \in Groups
    BY <1>1, <1>3, SizesAssumption DEF Groups
  <2> QED BY Zenon, <1>6, <1>7, <1>9, <2>1, <2>2 DEF PipelineInv, TypeOK, Batches
<1>11. Control'
  <2>1. \A h \in Groups : array'[h] = <<>> /\ ~applied'[h]
    BY Zenon, <1>4, <1>5, <1>6, <1>9 DEF PipelineInv, Control
  <2> QED BY Zenon, <1>7, <2>1 DEF PipelineInv, Control
<1> QED BY Zenon, <1>6, <1>10, <1>11 DEF PipelineInv

\* Transmitted keeps the invariant: the mbuf goes from the port to the mempool.
LEMMA TransmittedKeeps ==
  ASSUME PipelineInv, NEW m \in Mbufs, Transmitted(m)
  PROVE  PipelineInv'
<1>1. /\ m \in tx /\ tx' = tx \ {m} /\ pool' = pool \cup {m}
      /\ UNCHANGED <<port, pkt, rx_array, rx_applied, idx, ppc, queue, array, applied, which, cpc,
                     arrived>>
  BY Zenon DEF Transmitted, producerVars, consumerVars
<1>2. Pending' = Pending
  BY Zenon, <1>1 DEF Pending
<1>3. TypeOK' /\ Control'
  <2>1. pool' \subseteq Mbufs /\ tx' \subseteq Mbufs
    BY Zenon, <1>1 DEF PipelineInv, TypeOK
  <2> QED BY Zenon, <1>1, <2>1 DEF PipelineInv, TypeOK, Control
<1>4. Stages'
  <2>1. \A x \in tx' : x \in tx
    BY Zenon, <1>1
  <2> QED BY Zenon, <1>1, <1>2, <2>1 DEF PipelineInv, Stages
<1>5. Once' /\ InOrder'
  BY Zenon, <1>1, <1>2 DEF PipelineInv, Once, InOrder
<1>6. Apart'
  BY Zenon, <1>1, <1>2 DEF PipelineInv, Apart
<1> QED BY Zenon, <1>3, <1>4, <1>5, <1>6 DEF PipelineInv

-----------------------------------------------------------------------------
(* The invariant *)

\* At the start every mbuf is free.
LEMMA InitInv ==
  ASSUME Init
  PROVE  PipelineInv
<1>1. /\ port \in Ports /\ pool = Mbufs /\ tx = {}
      /\ pkt = [m \in Mbufs |-> NewPacket(0, TRUE)]
      /\ rx_array = <<>> /\ rx_applied = FALSE /\ idx = 1 /\ ppc = "idle"
      /\ which = 0 /\ cpc = "idle"
  BY Zenon DEF Init
<1>2. \A g \in Groups : queue[g] = <<>> /\ array[g] = <<>> /\ arrived[g] = <<>> /\ ~applied[g]
  BY Zenon DEF Init
<1>3. /\ <<>> \in Seq(Mbufs) /\ Len(<<>>) = 0 /\ SubSeq(<<>>, 1, 0) = <<>>
      /\ <<>> \o <<>> = <<>>
  OBVIOUS
<1>4. Pending = <<>>
  BY Zenon, <1>1, <1>3 DEF Pending
<1>5. 0 \in Groups /\ idx \in Nat \ {0} /\ idx \in 1 .. 0 + 1 /\ 0 <= QueueSize
  BY <1>1, SizesAssumption DEF Groups
<1>6. TypeOK
  <2>1. pkt \in [Mbufs -> Packets]
    <3>1. NewPacket(0, TRUE) \in Packets
      <4>1. 0 \in 0 .. 1
        OBVIOUS
      <4> QED BY Zenon, <1>5, <4>1 DEF NewPacket, Packets
    <3> QED BY Zenon, <1>1, <3>1
  <2>2. /\ queue \in [Groups -> Seq(Mbufs)] /\ array \in [Groups -> Seq(Mbufs)]
        /\ arrived \in [Groups -> Seq(Mbufs)] /\ applied \in [Groups -> BOOLEAN]
    BY Zenon, <1>3 DEF Init
  <2>3. ppc \in {"idle", "filter", "save", "enqueue"} /\ cpc \in {"idle", "send", "done"}
    BY <1>1
  <2>4. pool \subseteq Mbufs /\ tx \subseteq Mbufs
    BY Zenon, <1>1
  <2> QED BY Zenon, <1>1, <1>3, <1>5, <2>1, <2>2, <2>3, <2>4 DEF TypeOK, Batches, Packets
<1>7. Control
  <2>1. \A g \in Groups : Len(queue[g]) <= QueueSize
    BY Zenon, <1>2, <1>3, <1>5
  <2>2. ppc # "enqueue"
    BY <1>1
  <2>3. idx \in 1 .. Len(rx_array) + 1
    BY Zenon, <1>1, <1>3, <1>5
  <2> QED BY Zenon, <1>1, <1>2, <2>1, <2>2, <2>3 DEF Control
<1>8. Stages
  <2>1. ppc # "enqueue" /\ Elements(Pending) = {}
    BY <1>1, <1>4, EmptyElements
  <2>2. \A g \in Groups : Elements(queue[g]) = {} /\ Elements(array[g]) = {}
    BY Zenon, <1>2, EmptyElements
  <2> QED BY Zenon, <1>1, <2>1, <2>2 DEF Stages
<1>9. Once
  BY Zenon, <1>2, <1>4, EmptyElements DEF Once
<1>10. Apart
  <2>1. Elements(Pending) = {} /\ \A g \in Groups : Elements(queue[g]) = {} /\ Elements(array[g]) = {}
    BY Zenon, <1>2, <1>4, EmptyElements
  <2> QED BY Zenon, <1>1, <2>1 DEF Apart
<1>11. InOrder
  BY Zenon, <1>2, <1>3, <1>4, OnlyEmpty DEF InOrder
<1> QED BY Zenon, <1>6, <1>7, <1>8, <1>9, <1>10, <1>11 DEF PipelineInv

\* Every step keeps the invariant.
LEMMA StepInv ==
  ASSUME PipelineInv, [Next]_vars
  PROVE  PipelineInv'
<1>1. CASE Receive
  BY Zenon, <1>1, ReceiveKeeps
<1>2. CASE Filter
  BY Zenon, <1>2, FilterKeeps
<1>3. CASE Save
  BY Zenon, <1>3, SaveKeeps
<1>4. CASE EnqueueOne
  BY Zenon, <1>4, EnqueueOneKeeps
<1>5. CASE ProducerDone
  BY Zenon, <1>5, ProducerDoneKeeps
<1>6. CASE GroupAct
  BY Zenon, <1>6, GroupActKeeps
<1>7. CASE Send
  BY Zenon, <1>7, SendKeeps
<1>8. CASE MergeDone
  BY Zenon, <1>8, MergeDoneKeeps
<1>9. ASSUME NEW m \in Mbufs, Transmitted(m) PROVE PipelineInv'
  BY Zenon, <1>9, TransmittedKeeps
<1>10. CASE UNCHANGED vars
  <2>1. UNCHANGED <<port, pool, tx, pkt, rx_array, rx_applied, idx, ppc, queue, array, applied,
                    which, cpc, arrived>>
    BY Zenon, <1>10 DEF vars, producerVars, consumerVars
  <2>2. Pending' = Pending
    BY Zenon, <2>1 DEF Pending
  <2>3. TypeOK' /\ Control'
    BY Zenon, <2>1 DEF PipelineInv, TypeOK, Control
  <2>4. Stages' /\ Once' /\ Apart' /\ InOrder'
    BY Zenon, <2>1, <2>2 DEF PipelineInv, Stages, Once, Apart, InOrder
  <2> QED BY Zenon, <2>3, <2>4 DEF PipelineInv
<1> QED BY Zenon, <1>1, <1>2, <1>3, <1>4, <1>5, <1>6, <1>7, <1>8, <1>9, <1>10
        DEF Next, ProducerStep, ConsumerStep

\* In every state of the pipeline each mbuf is in one place, what was done to its packet
\* is what belongs to that place, and the packets of a group are in the order of arrival.
THEOREM PipelineInvariant == Spec => []PipelineInv
<1>1. Init => PipelineInv
  BY InitInv
<1>2. PipelineInv /\ [Next]_vars => PipelineInv'
  BY StepInv
<1> QED BY <1>1, <1>2, PTL DEF Spec

\* Every variable keeps its type; no index that a filter asks to drop is missed, so no
\* task panics.
THEOREM TypeCorrect == Spec => []TypeOK
<1>1. PipelineInv => TypeOK
  BY Zenon DEF PipelineInv
<1> QED BY <1>1, PipelineInvariant, PTL

\* Filtering, grouping, merging and partial sends keep the packets of a group in the
\* order of their arrival.
THEOREM PacketsStayInOrder == Spec => []InOrder
<1>1. PipelineInv => InOrder
  BY Zenon DEF PipelineInv
<1> QED BY <1>1, PipelineInvariant, PTL

\* A packet in a group passed the filter and the first transform and has its own header
\* saved, and the port gets it after the second transform was applied once.
THEOREM PacketsAreSentAsSpecified == Spec => []SentAsSpecified
<1>1. PipelineInv => SentAsSpecified
  <2> SUFFICES ASSUME PipelineInv, NEW m \in Mbufs
               PROVE  /\ (\E g \in Groups : m \in Elements(queue[g]) \cup Elements(array[g]))
                            => pkt[m].keep /\ pkt[m].first = 1 /\ pkt[m].saved
                      /\ m \in tx => /\ pkt[m].keep /\ pkt[m].first = 1 /\ pkt[m].saved
                                     /\ pkt[m].second = 1
    BY Zenon DEF SentAsSpecified
  <2>1. ASSUME NEW g \in Groups, m \in Elements(queue[g]) \cup Elements(array[g])
        PROVE  Passed(pkt[m])
    BY Zenon, <2>1 DEF PipelineInv, Stages, Queued, Restored
  <2>2. m \in tx => Sent(pkt[m])
    BY Zenon DEF PipelineInv, Stages
  <2> QED BY Zenon, <2>1, <2>2 DEF Passed, Sent
<1> QED BY <1>1, PipelineInvariant, PTL

-----------------------------------------------------------------------------
(* Owners *)

\* An owner is one of the places.
OwnedBy(m, w) ==
  \/ w = <<"pool">> /\ m \in pool
  \/ w = <<"tx">> /\ m \in tx
  \/ \E i \in DOMAIN Pending : Pending[i] = m /\ w = <<"batch", i>>
  \/ \E g \in Groups : \E i \in DOMAIN queue[g] : queue[g][i] = m /\ w = <<"queue", g, i>>
  \/ \E g \in Groups : \E i \in DOMAIN array[g] : array[g][i] = m /\ w = <<"group", g, i>>

LEMMA OwnersArePlaces == \A m, v : v \in Owners(m) <=> OwnedBy(m, v)
<1> TAKE m
<1> DEFINE A == {w \in {<<"pool">>, <<"tx">>} : m \in IF w = <<"pool">> THEN pool ELSE tx}
           B == {<<"batch", i>> : i \in {j \in DOMAIN Pending : Pending[j] = m}}
           C == UNION {{<<"queue", g, i>> : i \in {j \in DOMAIN queue[g] : queue[g][j] = m}} :
                       g \in Groups}
           D == UNION {{<<"group", g, i>> : i \in {j \in DOMAIN array[g] : array[g][j] = m}} :
                       g \in Groups}
<1>5. Owners(m) = A \cup B \cup C \cup D
  BY Zenon DEF Owners
<1> TAKE v
<1>1. v \in A <=> (v = <<"pool">> /\ m \in pool) \/ (v = <<"tx">> /\ m \in tx)
  <2> DEFINE p == <<"pool">>
             t == <<"tx">>
  <2>1. p # t
    OBVIOUS
  <2>2. A = {w \in {p, t} : m \in IF w = p THEN pool ELSE tx}
    BY Zenon
  <2> HIDE DEF p, t, A
  <2>3. v \in A <=> (v = p /\ m \in pool) \/ (v = t /\ m \in tx)
    BY Zenon, <2>1, <2>2
  <2> QED BY Zenon, <2>3 DEF p, t
<1>2. v \in B <=> \E i \in DOMAIN Pending : Pending[i] = m /\ v = <<"batch", i>>
  OBVIOUS
<1>3. v \in C <=>
        \E g \in Groups : \E i \in DOMAIN queue[g] : queue[g][i] = m /\ v = <<"queue", g, i>>
  OBVIOUS
<1>4. v \in D <=>
        \E g \in Groups : \E i \in DOMAIN array[g] : array[g][i] = m /\ v = <<"group", g, i>>
  OBVIOUS
<1> HIDE DEF A, B, C, D
<1>6. v \in Owners(m) <=> v \in A \/ v \in B \/ v \in C \/ v \in D
  BY Zenon, <1>5
<1> QED BY Zenon, <1>1, <1>2, <1>3, <1>4, <1>6 DEF OwnedBy

\* No mbuf is freed twice or used after it was freed.
THEOREM EveryMbufHasOneHolder == Spec => []OneOwner
<1>1. PipelineInv => OneOwner
  <2> SUFFICES ASSUME PipelineInv, NEW m \in Mbufs, NEW v, NEW w, OwnedBy(m, v), OwnedBy(m, w)
               PROVE  v = w
    BY Zenon, OwnersArePlaces DEF OneOwner
  <2> DEFINE P(u) == \E i \in DOMAIN Pending : Pending[i] = m /\ u = <<"batch", i>>
             Q(u) == \E g \in Groups : \E i \in DOMAIN queue[g] :
                       queue[g][i] = m /\ u = <<"queue", g, i>>
             A(u) == \E g \in Groups : \E i \in DOMAIN array[g] :
                       array[g][i] = m /\ u = <<"group", g, i>>
  <2>1. \A u : /\ P(u) => m \in Elements(Pending)
               /\ Q(u) => \E g \in Groups : m \in Elements(queue[g])
               /\ A(u) => \E g \in Groups : m \in Elements(array[g])
    BY Zenon DEF Elements
  <2>2. P(v) /\ P(w) => v = w
    BY Zenon DEF PipelineInv, Once, AllDistinct
  <2>3. Q(v) /\ Q(w) => v = w
    <3> SUFFICES ASSUME Q(v), Q(w) PROVE v = w
      BY Zenon
    <3>1. PICK g \in Groups : \E i \in DOMAIN queue[g] : queue[g][i] = m /\ v = <<"queue", g, i>>
      BY Zenon
    <3>2. PICK i \in DOMAIN queue[g] : queue[g][i] = m /\ v = <<"queue", g, i>>
      BY Zenon, <3>1
    <3>3. PICK h \in Groups : \E j \in DOMAIN queue[h] : queue[h][j] = m /\ w = <<"queue", h, j>>
      BY Zenon
    <3>4. PICK j \in DOMAIN queue[h] : queue[h][j] = m /\ w = <<"queue", h, j>>
      BY Zenon, <3>3
    <3>5. g = h
      <4>1. m \in Elements(queue[g]) /\ m \in Elements(queue[h])
        BY Zenon, <3>2, <3>4 DEF Elements
      <4> QED BY Zenon, <4>1 DEF PipelineInv, Apart
    <3>6. i = j
      BY Zenon, <3>2, <3>4, <3>5 DEF PipelineInv, Once, AllDistinct
    <3> QED BY Zenon, <3>2, <3>4, <3>5, <3>6
  <2>4. A(v) /\ A(w) => v = w
    <3> SUFFICES ASSUME A(v), A(w) PROVE v = w
      BY Zenon
    <3>1. PICK g \in Groups : \E i \in DOMAIN array[g] : array[g][i] = m /\ v = <<"group", g, i>>
      BY Zenon
    <3>2. PICK i \in DOMAIN array[g] : array[g][i] = m /\ v = <<"group", g, i>>
      BY Zenon, <3>1
    <3>3. PICK h \in Groups : \E j \in DOMAIN array[h] : array[h][j] = m /\ w = <<"group", h, j>>
      BY Zenon
    <3>4. PICK j \in DOMAIN array[h] : array[h][j] = m /\ w = <<"group", h, j>>
      BY Zenon, <3>3
    <3>5. g = h
      <4>1. m \in Elements(array[g]) /\ m \in Elements(array[h])
        BY Zenon, <3>2, <3>4 DEF Elements
      <4> QED BY Zenon, <4>1 DEF PipelineInv, Apart
    <3>6. i = j
      BY Zenon, <3>2, <3>4, <3>5 DEF PipelineInv, Once, AllDistinct
    <3> QED BY Zenon, <3>2, <3>4, <3>5, <3>6
  <2> HIDE DEF P, Q, A
  <2>5. \A u : OwnedBy(m, u) =>
          \/ u = <<"pool">> /\ m \in pool
          \/ u = <<"tx">> /\ m \in tx
          \/ P(u) \/ Q(u) \/ A(u)
    BY Zenon DEF OwnedBy, P, Q, A
  <2> QED BY Zenon, <2>1, <2>2, <2>3, <2>4, <2>5 DEF PipelineInv, Apart
<1> QED BY <1>1, PipelineInvariant, PTL

\* Somebody holds the pointer to an mbuf.
Held(m) ==
  \/ m \in pool \/ m \in tx \/ m \in Elements(Pending)
  \/ \E g \in Groups : m \in Elements(queue[g])
  \/ \E g \in Groups : m \in Elements(array[g])

LEMMA OwnersHold == \A m : Owners(m) # {} <=> Held(m)
<1> TAKE m
<1>1. Owners(m) # {} <=> \E w : OwnedBy(m, w)
  BY Zenon, OwnersArePlaces
<1>2. (\E w : OwnedBy(m, w)) => Held(m)
  BY Zenon DEF OwnedBy, Held, Elements
<1>3. Held(m) => \E w : OwnedBy(m, w)
  BY Zenon DEF OwnedBy, Held, Elements
<1> QED BY Zenon, <1>1, <1>2, <1>3

LEMMA OwnersHoldNext == (\A m : Owners(m) # {} <=> Held(m))'
BY OwnersHold, PTL

\* Only the packet that finds its queue full is given up by a step.
LEMMA StepHolds ==
  ASSUME PipelineInv, [Next]_vars, NEW m \in Mbufs, Held(m), ~Held(m)'
  PROVE  Len(queue[pkt[m].group]) = QueueSize
<1>1. CASE Receive
  <2>1. Pending = <<>> /\ Elements(Pending) = {}
    BY Zenon, <1>1, ReceiveEffect, EmptyElements
  <2>2. \A x \in pool : x \in pool' \/ x \in Elements(Pending')
    BY Zenon, <1>1, ReceiveEffect
  <2>3. UNCHANGED <<tx, queue, array>>
    BY Zenon, <1>1 DEF Receive, consumerVars
  <2> QED BY Zenon, <2>1, <2>2, <2>3 DEF Held
<1>2. CASE Filter
  <2> DEFINE K == {x \in Mbufs : pkt[x].keep}
  <2>1. /\ Pending' = Only(Pending, K) /\ pool' = pool \cup (Elements(Pending) \ K)
        /\ UNCHANGED <<tx, queue, array>>
    BY Zenon, <1>2, FilterEffect
  <2> HIDE DEF K
  <2>2. Elements(Only(Pending, K)) = Elements(Pending) \cap K
    BY Zenon, BatchTypes, OnlyElements DEF PipelineInv
  <2> QED BY Zenon, <2>1, <2>2 DEF Held
<1>3. CASE Save
  BY Zenon, <1>3 DEF Save, consumerVars, Held, Pending
<1>4. CASE EnqueueOne
  <2> DEFINE x == rx_array[idx]
             g == pkt[x].group
  <2>1. /\ x \in Mbufs /\ g \in Groups
        /\ Elements(Pending) = {x} \cup Elements(Pending')
    BY Zenon, <1>4, EnqueueEffect
  <2>2. /\ IF Len(queue[g]) < QueueSize
           THEN queue' = [queue EXCEPT ![g] = Append(@, x)] /\ UNCHANGED arrived
           ELSE arrived' = [arrived EXCEPT ![g] = Without(@, {x})] /\ UNCHANGED queue
        /\ UNCHANGED <<pool, tx, array>>
    BY Zenon, <1>4 DEF EnqueueOne, consumerVars
  <2>3. queue \in [Groups -> Seq(Mbufs)]
    BY Zenon DEF PipelineInv, TypeOK, Batches
  <2> HIDE DEF x, g
  <2>4. ~(Len(queue[g]) < QueueSize)
    <3> SUFFICES ASSUME Len(queue[g]) < QueueSize PROVE FALSE
      OBVIOUS
    <3>1. queue'[g] = Append(queue[g], x) /\ \A h \in Groups : h # g => queue'[h] = queue[h]
      BY Zenon, <2>1, <2>2, <2>3
    <3>2. Elements(queue'[g]) = Elements(queue[g]) \cup {x}
      <4>1. queue[g] \in Seq(Mbufs) /\ x \in Mbufs
        BY Zenon, <2>1, <2>3
      <4>2. Elements(Append(queue[g], x)) = Elements(queue[g]) \cup {x}
        <5> DEFINE q == queue[g]
        <5> HIDE DEF q
        <5>1. Elements(Append(q, x)) = Elements(q) \cup {x}
          BY <4>1, AppendElements DEF q
        <5> QED BY Zenon, <5>1 DEF q
      <4> QED BY Zenon, <3>1, <4>2
    <3>3. \A h \in Groups : \A y \in Elements(queue[h]) : y \in Elements(queue'[h])
      BY Zenon, <3>1, <3>2
    <3> QED BY Zenon, <2>1, <2>2, <3>2, <3>3 DEF Held
  <2>5. m = x
    BY Zenon, <2>1, <2>2, <2>4 DEF Held
  <2>6. Len(queue[g]) \in Nat /\ Len(queue[g]) <= QueueSize
    <3>1. queue[g] \in Seq(Mbufs)
      BY Zenon, <2>1, <2>3
    <3>2. Len(queue[g]) \in Nat
      BY <3>1, LenFacts
    <3> QED BY Zenon, <2>1, <3>2 DEF PipelineInv, Control
  <2>7. Len(queue[g]) = QueueSize
    BY <2>4, <2>6, SizesAssumption
  <2> QED BY Zenon, <2>5, <2>7 DEF g
<1>5. CASE ProducerDone
  <2>1. UNCHANGED <<pool, tx, queue, array>> /\ idx = Len(rx_array) + 1
    BY Zenon, <1>5 DEF ProducerDone, consumerVars
  <2>2. Pending = <<>>
    <3>1. rx_array \in Seq(Mbufs) /\ Len(rx_array) \in Nat
      BY LenFacts DEF PipelineInv, TypeOK, Batches
    <3>2. SubSeq(rx_array, Len(rx_array) + 1, Len(rx_array)) = <<>>
      BY <3>1
    <3> QED BY Zenon, <2>1, <3>2 DEF Pending
  <2> QED BY Zenon, <2>1, <2>2, EmptyElements DEF Held
<1>6. CASE GroupAct
  <2>1. PICK b \in Seq(Mbufs), r \in Seq(Mbufs) :
           /\ queue[which] = b \o r /\ array[which] = <<>>
           /\ queue' = [queue EXCEPT ![which] = r]
           /\ array' = [array EXCEPT ![which] = b]
           /\ pool' = pool
    BY Zenon, <1>6, GroupActEffect
  <2>2. UNCHANGED <<tx, rx_array, idx>>
    BY Zenon, <1>6 DEF GroupAct, producerVars
  <2>3. /\ queue \in [Groups -> Seq(Mbufs)] /\ array \in [Groups -> Seq(Mbufs)]
        /\ which \in Groups
    BY Zenon DEF PipelineInv, TypeOK, Batches
  <2>4. Elements(queue[which]) = Elements(b) \cup Elements(r)
    <3>1. Elements(b \o r) = Elements(b) \cup Elements(r)
      BY ConcatElements
    <3> QED BY Zenon, <2>1, <3>1
  <2>5. /\ queue'[which] = r /\ array'[which] = b /\ Elements(array[which]) = {}
        /\ \A h \in Groups : h # which => queue'[h] = queue[h] /\ array'[h] = array[h]
    BY Zenon, <2>1, <2>3, EmptyElements
  <2>6. Pending' = Pending
    BY Zenon, <2>2 DEF Pending
  <2>7. \A h \in Groups : \A y \in Elements(queue[h]) \cup Elements(array[h]) :
          y \in Elements(queue'[h]) \cup Elements(array'[h])
    BY Zenon, <2>4, <2>5
  <2> QED BY Zenon, <2>1, <2>2, <2>6, <2>7 DEF Held
<1>7. ASSUME NEW g \in Groups, NEW s \in Seq(Mbufs), NEW r \in Seq(Mbufs), Leave(g, s, r)
      PROVE  FALSE
  <2>1. Elements(array[g]) = Elements(s) \cup Elements(r)
    <3>1. Elements(s \o r) = Elements(s) \cup Elements(r)
      BY ConcatElements
    <3> QED BY Zenon, <1>7, <3>1 DEF Leave
  <2>2. array'[g] = r /\ \A h \in Groups : h # g => array'[h] = array[h]
    BY Zenon, <1>7, LeaveKeeps
  <2>3. Pending' = Pending /\ queue' = queue
    BY Zenon, <1>7 DEF Leave, Pending
  <2>4. \A y \in pool \cup tx \cup Elements(s) : y \in pool' \cup tx'
    BY Zenon, <1>7 DEF Leave
  <2>5. \A h \in Groups : \A y \in Elements(array[h]) :
          y \in pool' \cup tx' \/ y \in Elements(array'[h])
    BY Zenon, <2>1, <2>2, <2>4
  <2> QED BY Zenon, <2>3, <2>4, <2>5 DEF Held
<1>8. CASE Send
  BY Zenon, <1>7, <1>8, SendLeaves
<1>9. CASE MergeDone
  BY Zenon, <1>7, <1>9, MergeDoneLeaves
<1>10. ASSUME NEW x \in Mbufs, Transmitted(x)
       PROVE  FALSE
  <2>1. /\ tx' = tx \ {x} /\ pool' = pool \cup {x}
        /\ UNCHANGED <<rx_array, idx, queue, array>>
    BY Zenon, <1>10 DEF Transmitted, producerVars, consumerVars
  <2>2. Pending' = Pending
    BY Zenon, <2>1 DEF Pending
  <2> QED BY Zenon, <2>1, <2>2 DEF Held
<1>11. CASE UNCHANGED vars
  BY Zenon, <1>11 DEF vars, producerVars, consumerVars, Held, Pending
<1> QED BY Zenon, <1>1, <1>2, <1>3, <1>4, <1>5, <1>6, <1>8, <1>9, <1>10, <1>11
        DEF Next, ProducerStep, ConsumerStep

\* An mbuf gets lost only in enqueue_one, and only when the queue of its group is full.
THEOREM MbufsAreLostOnlyWhenFull == Spec => LostOnlyWhenFull
<1>1. PipelineInv /\ [Next]_vars =>
        [\A m \in Mbufs : (Owners(m) # {} /\ Owners(m)' = {}) =>
           Len(queue[pkt[m].group]) = QueueSize]_vars
  <2> SUFFICES ASSUME PipelineInv, [Next]_vars, NEW m \in Mbufs, Owners(m) # {}, Owners(m)' = {}
               PROVE  Len(queue[pkt[m].group]) = QueueSize
    BY Zenon
  <2>1. Held(m)
    BY Zenon, OwnersHold
  <2>2. ~Held(m)'
    BY Zenon, OwnersHoldNext
  <2> QED BY Zenon, <2>1, <2>2, StepHolds
<1> QED BY <1>1, PipelineInvariant, PTL DEF Spec, LostOnlyWhenFull
=============================================================================

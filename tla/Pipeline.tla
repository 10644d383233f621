-------------------------------- MODULE Pipeline --------------------------------
(***************************************************************************)
(* A pipeline as the network functions under test/ build it:               *)
(*                                                                         *)
(*   ReceiveBatch(port).transform(..).filter(..).group_by(N, ..)           *)
(*   merge(group 0 .. N-1, each .transform(..)).send(port)                 *)
(*                                                                         *)
(* It runs as two tasks, the GroupByProducer and the merged SendBatch,     *)
(* joined by one queue of mbufs per group (MbufFifo describes a queue).    *)
(* The tasks interleave at every step that touches what both can reach,    *)
(* as they do when the groups are handed to another scheduler.             *)
(***************************************************************************)
EXTENDS PacketBatch, FiniteSets

CONSTANTS
  Mbufs,      \* the mempool
  NGroups,    \* groups of group_by
  BatchSize,  \* capacity of a PacketBatch
  QueueSize,  \* mbufs a queue holds
  Ports       \* the ports to choose from: "physical" is a PortQueue, "virtual" a VirtualQueue

ASSUME SizesAssumption ==
  NGroups \in Nat \ {0} /\ BatchSize \in Nat \ {0} /\ QueueSize \in Nat \ {0}
ASSUME PortsAssumption == Ports \subseteq {"physical", "virtual"}

Groups == 0 .. NGroups - 1

VARIABLES
  port,              \* where the pipeline receives and sends
  pool,              \* free mbufs
  tx,                \* mbufs the port has to transmit
  pkt,               \* per mbuf: the packet in it
  rx_array,          \* the batch of the GroupByProducer
  rx_applied,        \* applied of its TransformBatch
  idx,               \* its PayloadEnumerator
  ppc,
  queue,             \* per group
  array, applied,    \* per group: the batch, and applied of its TransformBatch
  which,             \* of MergeBatch
  cpc,
  arrived            \* per group: packets received and kept that are still here, in order

producerVars == <<rx_array, rx_applied, idx, ppc>>
consumerVars == <<array, applied, which, cpc>>
vars == <<port, pool, tx, pkt, producerVars, queue, consumerVars, arrived>>

\* What the group and filter functions will say of a packet, how often each
\* transform was applied to it, and whether the metadata slots hold its header.
NewPacket(g, k) == [group |-> g, keep |-> k, first |-> 0, second |-> 0, saved |-> FALSE]

Init ==
  /\ port \in Ports
  /\ pool = Mbufs /\ tx = {}
  /\ pkt = [m \in Mbufs |-> NewPacket(0, TRUE)]
  /\ rx_array = <<>> /\ rx_applied = FALSE /\ idx = 1 /\ ppc = "idle"
  /\ queue = [g \in Groups |-> <<>>]
  /\ array = [g \in Groups |-> <<>>]
  /\ applied = [g \in Groups |-> FALSE]
  /\ which = 0 /\ cpc = "idle"
  /\ arrived = [g \in Groups |-> <<>>]

MinOf(a, b) == IF a <= b THEN a ELSE b
Without(s, S) == Only(s, Mbufs \ S)

-----------------------------------------------------------------------------
(* GroupByProducer::execute *)

\* The batches a port may deliver: a PortQueue some packets, a VirtualQueue a full
\* batch or, when the mempool does not have one, nothing.
Received(free) ==
  LET most == MinOf(BatchSize, Cardinality(free))
      sizes == IF port = "physical" THEN 0 .. most ELSE IF most = BatchSize THEN {most} ELSE {0}
  IN {b \in UNION {[1 .. n -> free] : n \in sizes} :
        \A i, j \in DOMAIN b : b[i] = b[j] => i = j}

\* act of ReceiveBatch, which first frees what is left in the batch, and of the
\* TransformBatch above it, which does nothing when it is already applied.
Receive ==
  /\ ppc = "idle"
  /\ ppc' = "filter" /\ rx_applied' = TRUE /\ idx' = 1
  /\ IF rx_applied THEN UNCHANGED <<pool, pkt, rx_array, arrived>>
     ELSE \E b \in Received(pool \cup Elements(rx_array)) :
            \E g \in [Elements(b) -> Groups], k \in [Elements(b) -> BOOLEAN] :
              /\ rx_array' = b
              /\ pool' = (pool \cup Elements(rx_array)) \ Elements(b)
              /\ pkt' = [m \in Mbufs |->
                           IF m \in Elements(b) THEN [NewPacket(g[m], k[m]) EXCEPT !.first = 1]
                           ELSE pkt[m]]
              /\ arrived' = [h \in Groups |->
                               arrived[h] \o Only(b, {m \in Elements(b) : g[m] = h /\ k[m]})]
  /\ UNCHANGED <<port, tx, queue, consumerVars>>

\* act of FilterBatch.
Filter ==
  LET remove == Rejected(rx_array, {m \in Mbufs : pkt[m].keep})
      dropped == drop_packets_stable(rx_array, remove)
  IN
  /\ ppc = "filter"
  /\ ppc' = IF dropped.some THEN "save" ELSE "panicked"
  /\ rx_array' = dropped.array
  /\ pool' = pool \cup dropped.freed
  /\ UNCHANGED <<port, tx, pkt, rx_applied, idx, queue, consumerVars, arrived>>

\* Faulty variant: the header is not saved.
SaveNothing ==
  /\ ppc = "save" /\ idx <= Len(rx_array)
  /\ ppc' = "enqueue"
  /\ UNCHANGED <<port, pool, tx, pkt, rx_array, rx_applied, idx, queue, consumerVars, arrived>>

\* save_header_and_offset of the next packet.
Save ==
  /\ ppc = "save" /\ idx <= Len(rx_array)
  /\ pkt' = [pkt EXCEPT ![rx_array[idx]].saved = TRUE]
  /\ ppc' = "enqueue"
  /\ UNCHANGED <<port, pool, tx, rx_array, rx_applied, idx, queue, consumerVars, arrived>>

\* Faulty variant: a queue with room for one packet is taken to be full.
EnqueueSkips ==
  LET m == rx_array[idx]
      g == pkt[m].group
  IN
  /\ ppc = "enqueue"
  /\ IF Len(queue[g]) + 1 < QueueSize
     THEN queue' = [queue EXCEPT ![g] = Append(@, m)] /\ UNCHANGED arrived
     ELSE arrived' = [arrived EXCEPT ![g] = Without(@, {m})] /\ UNCHANGED queue
  /\ idx' = idx + 1 /\ ppc' = "save"
  /\ UNCHANGED <<port, pool, tx, pkt, rx_array, rx_applied, consumerVars>>

\* enqueue_one: the mbuf of a packet that finds the queue full is not kept.
EnqueueOne ==
  LET m == rx_array[idx]
      g == pkt[m].group
  IN
  /\ ppc = "enqueue"
  /\ IF Len(queue[g]) < QueueSize
     THEN queue' = [queue EXCEPT ![g] = Append(@, m)] /\ UNCHANGED arrived
     ELSE arrived' = [arrived EXCEPT ![g] = Without(@, {m})] /\ UNCHANGED queue
  /\ idx' = idx + 1 /\ ppc' = "save"
  /\ UNCHANGED <<port, pool, tx, pkt, rx_array, rx_applied, consumerVars>>

\* clear_packets, then done: the batch is empty and nothing is freed.
ProducerDone ==
  /\ ppc = "save" /\ idx = Len(rx_array) + 1
  /\ rx_array' = <<>> /\ rx_applied' = FALSE /\ idx' = 1 /\ ppc' = "idle"
  /\ UNCHANGED <<port, pool, tx, pkt, queue, consumerVars, arrived>>

-----------------------------------------------------------------------------
(* SendBatch::act on the merged groups *)

\* act of the group whose turn it is: what is left in its batch is freed, packets
\* are dequeued, their header is restored and the transform applied.
GroupAct ==
  LET g == which
      n == MinOf(BatchSize, Len(queue[g]))
      b == SubSeq(queue[g], 1, n)
  IN
  /\ cpc = "idle"
  /\ cpc' = "send" /\ applied' = [applied EXCEPT ![g] = TRUE]
  /\ IF applied[g] THEN UNCHANGED <<pool, pkt, queue, array>>
     ELSE /\ queue' = [queue EXCEPT ![g] = SubSeq(@, n + 1, Len(@))]
          /\ array' = [array EXCEPT ![g] = b]
          /\ pool' = pool \cup Elements(array[g])
          /\ pkt' = [m \in Mbufs |-> IF m \in Elements(b) THEN [pkt[m] EXCEPT !.second = @ + 1]
                                     ELSE pkt[m]]
  /\ UNCHANGED <<port, tx, producerVars, which, arrived>>

\* Faulty variant: the packets at the end of the batch are taken to be the sent ones.
SendKeepsSent ==
  LET g == which IN
  /\ cpc = "send"
  /\ cpc' = "done"
  /\ \E n \in IF port = "virtual" THEN {Len(array[g])} ELSE 0 .. Len(array[g]) :
       LET sent == Elements(SubSeq(array[g], 1, n)) IN
       /\ array' = [array EXCEPT ![g] = SubSeq(@, 1, Len(@) - n)]
       /\ arrived' = [arrived EXCEPT ![g] = Without(@, sent)]
       /\ IF port = "virtual" THEN pool' = pool \cup sent /\ UNCHANGED tx
          ELSE tx' = tx \cup sent /\ UNCHANGED pool
  /\ UNCHANGED <<port, pkt, producerVars, queue, applied, which>>

\* send_q offers the batch to the port once.  A PortQueue takes the first n packets,
\* a VirtualQueue frees them all.
Send ==
  LET g == which IN
  /\ cpc = "send"
  /\ cpc' = "done"
  /\ \E n \in IF port = "virtual" THEN {Len(array[g])} ELSE 0 .. Len(array[g]) :
       LET sent == Elements(SubSeq(array[g], 1, n)) IN
       /\ array' = [array EXCEPT ![g] = consume_batch_partial(@, n)]
       /\ arrived' = [arrived EXCEPT ![g] = Without(@, sent)]
       /\ IF port = "virtual" THEN pool' = pool \cup sent /\ UNCHANGED tx
          ELSE tx' = tx \cup sent /\ UNCHANGED pool
  /\ UNCHANGED <<port, pkt, producerVars, queue, applied, which>>

\* Faulty variant: done of TransformBatch leaves applied set.
MergeDoneApplied ==
  LET g == which IN
  /\ cpc = "done"
  /\ cpc' = "idle"
  /\ pool' = pool \cup Elements(array[g])
  /\ arrived' = [arrived EXCEPT ![g] = Without(@, Elements(array[g]))]
  /\ array' = [array EXCEPT ![g] = <<>>]
  /\ which' = IF g + 1 = NGroups THEN 0 ELSE g + 1
  /\ UNCHANGED <<port, tx, pkt, producerVars, queue, applied>>

\* done of MergeBatch: the group frees what the port did not take, and it is the
\* turn of the next one.
MergeDone ==
  LET g == which IN
  /\ cpc = "done"
  /\ cpc' = "idle"
  /\ pool' = pool \cup Elements(array[g])
  /\ arrived' = [arrived EXCEPT ![g] = Without(@, Elements(array[g]))]
  /\ array' = [array EXCEPT ![g] = <<>>]
  /\ applied' = [applied EXCEPT ![g] = FALSE]
  /\ which' = IF g + 1 = NGroups THEN 0 ELSE g + 1
  /\ UNCHANGED <<port, tx, pkt, producerVars, queue>>

-----------------------------------------------------------------------------
\* The port has transmitted a packet and frees its mbuf.
Transmitted(m) ==
  /\ m \in tx
  /\ tx' = tx \ {m} /\ pool' = pool \cup {m}
  /\ UNCHANGED <<port, pkt, producerVars, queue, consumerVars, arrived>>

ProducerStep == Receive \/ Filter \/ Save \/ EnqueueOne \/ ProducerDone
ConsumerStep == GroupAct \/ Send \/ MergeDone

Next == ProducerStep \/ ConsumerStep \/ (\E m \in Mbufs : Transmitted(m))

Spec == Init /\ [][Next]_vars

\* The scheduler comes back to the task that sends (RoundRobin of Scheduler), and
\* the port frees what it transmitted.
FairSpec ==
  /\ Spec
  /\ WF_vars(ConsumerStep)
  /\ \A m \in Mbufs : WF_vars(Transmitted(m))

-----------------------------------------------------------------------------
(* Properties *)

\* The packets of the batch that GroupByProducer has not handed over yet.
Pending == SubSeq(rx_array, idx, Len(rx_array))

Batches == Seq(Mbufs)

\* Every variable keeps its type, and no task panics.
TypeOK ==
  /\ port \in Ports
  /\ pool \subseteq Mbufs /\ tx \subseteq Mbufs
  /\ pkt \in [Mbufs -> [group : Groups, keep : BOOLEAN, first : 0 .. 1, second : 0 .. 1,
                        saved : BOOLEAN]]
  /\ rx_array \in Batches /\ rx_applied \in BOOLEAN
  /\ idx \in Nat \ {0} /\ ppc \in {"idle", "filter", "save", "enqueue"}
  /\ queue \in [Groups -> Batches] /\ array \in [Groups -> Batches]
  /\ applied \in [Groups -> BOOLEAN]
  /\ which \in Groups /\ cpc \in {"idle", "send", "done"}
  /\ arrived \in [Groups -> Batches]

\* Where the pointer to an mbuf is held by somebody who will send or free it.
Owners(m) ==
  {w \in {<<"pool">>, <<"tx">>} : m \in IF w = <<"pool">> THEN pool ELSE tx}
    \cup {<<"batch", i>> : i \in {j \in DOMAIN Pending : Pending[j] = m}}
    \cup (UNION {{<<"queue", g, i>> : i \in {j \in DOMAIN queue[g] : queue[g][j] = m}} : g \in Groups})
    \cup (UNION {{<<"group", g, i>> : i \in {j \in DOMAIN array[g] : array[g][j] = m}} : g \in Groups})

\* No mbuf is freed twice or used after it was freed: while group_by has a packet
\* both in its batch and in a queue, only the queue counts, and the consumer may
\* send and free it before the batch is cleared.
OneOwner == \A m \in Mbufs : \A v, w \in Owners(m) : v = w

\* An mbuf gets lost only when the queue of its group is full.
LostOnlyWhenFull ==
  [][\A m \in Mbufs : (Owners(m) # {} /\ Owners(m)' = {}) =>
       Len(queue[pkt[m].group]) = QueueSize]_vars

\* Filtering, grouping, merging and partial sends keep the packets of a group in the
\* order of their arrival, and each group gets its own packets.
InOrder ==
  \A g \in Groups :
    array[g] \o queue[g] \o Only(Pending, {m \in Mbufs : pkt[m].keep /\ pkt[m].group = g})
      = arrived[g]

\* A packet that reaches a group passed the filter and the first transform, and
\* RestoreHeader finds its own header in the metadata slots, never that of an earlier
\* packet in the same mbuf; it passes the second transform once before it is sent,
\* although acts and dones of two tasks and several groups alternate.
SentAsSpecified ==
  \A m \in Mbufs :
    LET p == pkt[m] IN
    /\ (\E g \in Groups : m \in Elements(queue[g]) \cup Elements(array[g]))
          => p.keep /\ p.first = 1 /\ p.saved
    /\ m \in tx => p.keep /\ p.first = 1 /\ p.saved /\ p.second = 1

\* No group starves: a queued packet is sent or dropped and its mbuf comes back.
PacketsLeave ==
  \A m \in Mbufs : (\E g \in Groups : m \in Elements(queue[g])) ~> m \in pool
=============================================================================

------------------------------- MODULE MbufFifo -------------------------------
(***************************************************************************)
(* What users of MpscProducer and MpscConsumer rely on: a bounded FIFO of  *)
(* mbufs.  An enqueue call takes a slice of distinct mbufs, appends a      *)
(* prefix of it in one step, and does not insert the rest of the slice.    *)
(***************************************************************************)
EXTENDS Integers, Sequences

CONSTANTS Producers, Mbufs, MaxBatch, Capacity

VARIABLES fifo, calls, busy, got, outside

vars == <<fifo, calls, busy, got, outside>>

Elements(s) == {s[i] : i \in DOMAIN s}

Init ==
  /\ fifo = <<>>
  /\ calls = [p \in Producers |-> <<>>]
  /\ busy = [p \in Producers |-> FALSE]
  /\ got = <<>>
  /\ outside = Mbufs

Call(p) ==
  /\ ~busy[p]
  /\ busy' = [busy EXCEPT ![p] = TRUE]
  /\ \E b \in UNION {[1..n -> outside] : n \in 0..MaxBatch} :
       /\ \A i, j \in DOMAIN b : b[i] = b[j] => i = j
       /\ calls' = [calls EXCEPT ![p] = b]
       /\ outside' = outside \ Elements(b)
  /\ UNCHANGED <<fifo, got>>

\* The call inserts its first n mbufs and returns.
Insert(p, n) ==
  /\ busy[p]
  /\ n <= Len(calls[p])
  /\ busy' = [busy EXCEPT ![p] = FALSE]
  /\ calls' = [calls EXCEPT ![p] = <<>>]
  /\ UNCHANGED <<got, outside>>
  /\ Len(fifo) + Len(got) + n <= Capacity
  /\ fifo' = fifo \o SubSeq(calls[p], 1, n)

Take ==
  /\ Len(got) < MaxBatch
  /\ fifo # <<>>
  /\ got' = Append(got, Head(fifo))
  /\ fifo' = Tail(fifo)
  /\ UNCHANGED <<calls, busy, outside>>

\* dequeue returns what it took to the caller.
Deliver ==
  /\ got # <<>>
  /\ outside' = outside \cup Elements(got)
  /\ got' = <<>>
  /\ UNCHANGED <<fifo, calls, busy>>

Next ==
  \/ \E p \in Producers : Call(p) \/ (\E n \in 0..MaxBatch : Insert(p, n))
  \/ Take
  \/ Deliver

Spec == Init /\ [][Next]_vars
=============================================================================

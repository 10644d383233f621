------------------------------ MODULE PacketBatch ------------------------------
(***************************************************************************)
(* What the operations of framework/src/operators/packet_batch.rs do to    *)
(* the array of mbuf pointers of a batch.                                  *)
(***************************************************************************)
EXTENDS Integers, Sequences

Elements(s) == {s[i] : i \in DOMAIN s}

\* The elements of s that are in S, in their order: what SelectSeq gives for the test
\* x \in S, with the loop spelled out so that proofs can follow it.
OnlyWalk(s, S) ==
  LET Walk[i \in 0 .. Len(s)] ==
        IF i = 0 THEN <<>>
        ELSE IF s[i] \in S THEN Append(Walk[i - 1], s[i])
        ELSE Walk[i - 1]
  IN Walk

Only(s, S) == OnlyWalk(s, S)[Len(s)]

\* The indexes, from 0, of the packets of a batch that a filter does not pass.
Rejected(batch, passed) ==
  Only([i \in 1 .. Len(batch) |-> i - 1], {i \in 0 .. Len(batch) - 1 : batch[i + 1] \notin passed})

\* Faulty variant: the last packet of the batch takes the place of a dropped one.
CompactedBySwap(array, idxes) ==
  LET Walk[k \in 0 .. Len(idxes)] ==
        IF k = 0 THEN [array |-> array, kept |-> Len(array), scratch |-> <<>>]
        ELSE LET w == Walk[k - 1]
                 i == idxes[Len(idxes) - k + 1] + 1
             IN [array |-> [w.array EXCEPT ![i] = w.array[w.kept]], kept |-> w.kept - 1,
                 scratch |-> Append(w.scratch, w.array[i])]
  IN Walk[Len(idxes)]

\* The loops of drop_packets_stable after i packets: those that stay are moved to the
\* front of the array and the others to scratch.  idxes counts from 0.
CompactWalk(array, idxes) ==
  LET Walk[i \in 0 .. Len(array)] ==
        IF i = 0 THEN [array |-> array, kept |-> 0, scratch |-> <<>>]
        ELSE LET w == Walk[i - 1]
                 r == Len(w.scratch) + 1
             IN IF r <= Len(idxes) /\ idxes[r] = i - 1
                THEN [w EXCEPT !.scratch = Append(@, w.array[i])]
                ELSE [w EXCEPT !.array[w.kept + 1] = w.array[i], !.kept = @ + 1]
  IN Walk

Compacted(array, idxes) == CompactWalk(array, idxes)[Len(array)]

\* The batch that remains, and the mbufs that are freed; None, on which filter
\* panics, when an index was not met.
drop_packets_stable(array, idxes) ==
  LET w == Compacted(array, idxes) IN
  [some |-> Len(w.scratch) = Len(idxes),
   array |-> SubSeq(w.array, 1, w.kept), freed |-> Elements(w.scratch)]

\* What send_q leaves in the batch after the first n packets were sent.
consume_batch_partial(array, n) == [i \in 1 .. Len(array) - n |-> array[i + n]]
=============================================================================

------------------------------ MODULE RingStream ------------------------------
(***************************************************************************)
(* One RingBuffer and a client that makes any sequence of calls on it,     *)
(* moving the tail only over positions that exist, as the comment on       *)
(* write_at_offset_from_tail asks.                                         *)
(***************************************************************************)
EXTENDS RingBuffer

CONSTANTS
  Bytes,   \* byte values; NilByte is one of them
  NilByte,
  MaxLen   \* bound: longest slice, offset or seek of a call

\* new zeroes the cells.
ASSUME BytesAssumption == NilByte \in Bytes
ASSUME LengthAssumption == MaxLen \in Nat

VARIABLE ring

Slices == UNION {[1..n -> Bytes] : n \in 0..MaxLen}

RingInit == ring = NewRing(NilByte)

WriteAtTail(data) == ring' = write_at_tail(ring, data)

WriteAhead(offset, data) == ring' = write_at_offset_from_tail(ring, offset, data)

SeekTail(n) == n <= Space(ring) /\ ring' = seek_tail(ring, n)

\* n is the length of the slice; read_from_head has increment = n.
Read(n, increment) == ring' = read_from_head_with_increment(ring, n, increment)

\* seek_head asserts that the bytes are available.
SeekHead(n) == Available(ring) >= n /\ ring' = seek_head(ring, n)

Clear == ring' = clear(ring)

RingNext ==
  \/ \E data \in Slices : WriteAtTail(data)
  \/ \E data \in Slices, offset \in 0..MaxLen : WriteAhead(offset, data)
  \/ \E n \in 1..MaxLen : SeekTail(n)
  \/ \E n, increment \in 0..MaxLen : Read(n, increment)
  \/ \E n \in 1..MaxLen : SeekHead(n)
  \/ Clear

RingSpec == RingInit /\ [][RingNext]_ring

-----------------------------------------------------------------------------
\* head and tail are words and every cell holds a byte.
RingTypeOK ==
  ring \in [head : Counters, tail : Counters, vec : [Cells -> Bytes]]

\* The positions from the next byte to read on.
Window == [k \in 0 .. Mask - 1 |-> ring.vec[(ring.head + k) % Size]]

\* A read of n bytes returns the first of them, in order, and no more than there are.
ReadsWindow ==
  \A n \in 0..MaxLen :
    HeadRead(ring, n) = [k \in 1 .. MinOf(n, Available(ring)) |-> Window[k - 1]]

Promise == INSTANCE ByteWindow WITH
             Capacity <- Mask, window <- Window, avail <- Available(ring)

\* Every byte stays at the position it was written to, counted from the next
\* byte to read, across wraps of the cells and of the counters: no write touches
\* an unread byte, and what was written ahead is there when the tail gets to it.
ImplementsWindow == Promise!Spec
=============================================================================

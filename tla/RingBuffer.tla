------------------------------ MODULE RingBuffer ------------------------------
(***************************************************************************)
(* The operations of framework/src/state/ring_buffer.rs as functions on a  *)
(* ring, a record of head, tail and vec.  head and tail are usize counters *)
(* that wrap at Word; a byte lives in the cell its counter is masked to.   *)
(***************************************************************************)
EXTENDS Integers, Sequences

CONSTANTS
  Size,   \* size of the buffer, a power of 2
  Word    \* number of values of a usize

ASSUME SizeAssumption == Size \in Nat \ {0}
ASSUME WordAssumption == Word \in Nat /\ Word % Size = 0 /\ 2 * Size < Word

Mask == Size - 1
Counters == 0 .. Word - 1
Cells == 0 .. Size - 1
wrapping_add(a, b) == (a + b) % Word
wrapping_sub(a, b) == (a - b) % Word
MinOf(a, b) == IF a <= b THEN a ELSE b

\* The cell k places after cell offset.
CellAfter(offset, k) == (offset + k) % Size

\* Faulty variant: the second half of a wrapped read starts one cell late.
WrappedReadLate(vec, offset, n) ==
  [k \in 1 .. n |-> vec[IF offset + k - 1 < Size THEN offset + k - 1 ELSE CellAfter(offset, k)]]

wrapped_read(vec, offset, n) == [k \in 1 .. n |-> vec[CellAfter(offset, k - 1)]]

wrapped_write(vec, offset, data) ==
  [c \in Cells |-> LET k == (c - offset) % Size IN
                   IF k < Len(data) THEN data[k + 1] ELSE vec[c]]

\* Data available to be read.
Available(r) == wrapping_sub(r.tail, r.head)

\* One cell stays empty, so that a full buffer differs from an empty one.
Space(r) == wrapping_sub(wrapping_add(Mask, r.head), r.tail)

seek_tail(r, n) == [r EXCEPT !.tail = wrapping_add(@, n)]
seek_head(r, n) == [r EXCEPT !.head = wrapping_add(@, n)]
clear(r) == [r EXCEPT !.head = 0, !.tail = 0]

\* How much of n bytes write_at_tail takes, and the ring after it.
TailWrite(r, n) == MinOf(n, Space(r))
\* Faulty variant: the offset is computed after the tail was moved.
WriteAfterSeek(r, data) ==
  LET n == TailWrite(r, Len(data))
      moved == seek_tail(r, n)
  IN [moved EXCEPT !.vec = wrapped_write(@, moved.tail % Size, SubSeq(data, 1, n))]

write_at_tail(r, data) ==
  LET n == TailWrite(r, Len(data)) IN
  [seek_tail(r, n) EXCEPT !.vec = wrapped_write(@, r.tail % Size, SubSeq(data, 1, n))]

\* How much of n bytes write_at_offset_from_tail takes, and the ring after it.
OffsetWrite(r, offset, n) ==
  IF Space(r) < offset THEN 0
  ELSE MinOf(n, wrapping_sub(wrapping_add(Mask, r.head), wrapping_add(r.tail, offset)))
write_at_offset_from_tail(r, offset, data) ==
  [r EXCEPT !.vec = wrapped_write(@, wrapping_add(r.tail, offset) % Size,
                                  SubSeq(data, 1, OffsetWrite(r, offset, Len(data))))]

\* What read_from_head returns for a slice of n bytes, and the ring after it
\* when head moves by at most increment.
HeadRead(r, n) == wrapped_read(r.vec, r.head % Size, MinOf(Available(r), n))
read_from_head_with_increment(r, n, increment) ==
  seek_head(r, MinOf(increment, MinOf(Available(r), n)))
read_from_head(r, n) == read_from_head_with_increment(r, n, n)

\* new: the cells are zeroed.
NewRing(zero) == [head |-> 0, tail |-> 0, vec |-> [c \in Cells |-> zero]]
=============================================================================

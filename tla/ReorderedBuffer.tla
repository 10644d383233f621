---------------------------- MODULE ReorderedBuffer ----------------------------
(***************************************************************************)
(* ReorderedBuffer of                                                      *)
(* framework/src/state/reordered_buffer/reordered_buffer.rs over its       *)
(* RingBuffer and SegmentList, and a client (a TCP reassembly function)    *)
(* that inserts segments of one byte stream.  The byte at a position of    *)
(* the stream is modelled by its sequence number, so what the ring holds   *)
(* tells where it came from.  What a call answers (InsertionResult) is     *)
(* left out.                                                               *)
(***************************************************************************)
EXTENDS SegmentList

CONSTANTS
  BufferSize, BufferWord,  \* of its RingBuffer
  Segments,    \* number of nodes new_with_segments allocates
  Clients      \* what may arrive, a set of records

LOCAL INSTANCE RingBuffer WITH Size <- BufferSize, Word <- BufferWord

Orders == {"in_order", "overlap", "no_repeats", "any"}

\* A client's connection starts with one of bases, the segments of inputs, as
\* <<offset, length>> of the stream, arrive in its order, and reads are the lengths
\* of the slices it hands to read_data.
ASSUME ClientsAssumption ==
  /\ BufferWord % SeqWord = 0
  /\ \A c \in Clients :
       /\ c.order \in Orders
       /\ c.bases \subseteq Nat
       /\ c.inputs \subseteq Nat \X Nat
       /\ c.reads \subseteq Nat

VARIABLES
  data,        \* the RingBuffer
  segment_list,
  state,
  head_seq, tail_seq,
  base,        \* where the connection started
  client       \* the one that uses this buffer

bufferVars == <<data, segment_list, state, head_seq, tail_seq, base, client>>

NoByte == -1
Seqs == 0 .. SeqWord - 1
Stream(seq, len) == [k \in 1 .. len |-> EndOf(seq, k - 1)]

BufferInit ==
  /\ data = NewRing(NoByte)
  /\ segment_list = NewList(Segments)
  /\ state = "Closed"
  /\ head_seq = 0 /\ tail_seq = 0 /\ base = 0
  /\ client \in Clients

\* A call that hung or panicked was the last one.
Usable == segment_list.fault = "none"

\* wrapped_read and wrapped_write assert that a slice fits the buffer.
Asserted(l, n) == IF n > BufferSize THEN Fail(l, "panic") ELSE l

\* Faulty variant: tail_seq moves by the length of the slice, not by what was written.
FastPathCountsAll(tail, slice) ==
  LET written == TailWrite(data, Len(slice)) IN
  /\ data' = write_at_tail(data, slice)
  /\ tail_seq' = EndOf(tail, Len(slice))
  /\ segment_list' = Asserted(segment_list, written)

\* fast_path_insert, at sequence number tail, of the slice that starts there.
fast_path_insert(tail, slice) ==
  LET written == TailWrite(data, Len(slice)) IN
  /\ data' = write_at_tail(data, slice)
  /\ tail_seq' = EndOf(tail, written)
  /\ segment_list' = Asserted(segment_list, written)

seq(s, len) ==
  /\ Usable /\ state = "Closed"
  /\ state' = "Connected"
  /\ base' = s /\ head_seq' = s
  /\ fast_path_insert(s, Stream(s, len))
  /\ UNCHANGED client

\* add_head_to_seg_list: the unread bytes in pieces of at most u16::MAX.
RECURSIVE AddHead(_, _, _)
AddHead(l, s, to_insert) ==
  IF to_insert = 0 \/ l.fault # "none" THEN l
  ELSE LET insert == MinOf(MaxLength, to_insert) IN
       AddHead(insert_segment(l, s, insert).list, EndOf(s, insert), to_insert - insert)

\* The branches of out_of_order_insert, on the segment list they are handed.
\* Data at the tail: the slice starts at tail_seq.
InsertAtTail(list, slice) ==
  LET written == TailWrite(data, Len(slice))
      tail == EndOf(tail_seq, written)
      inserted == insert_segment(Asserted(list, written), tail_seq, written % LenWord)
      seg == inserted.list.storage[inserted.segment]
      seg_end == EndOf(seg.seq, seg.length)
      incr == (seg_end - tail) % SeqWord
      one == one_segment(inserted.list)
  IN IF inserted.list.fault # "none"
     THEN segment_list' = inserted.list /\ UNCHANGED <<data, tail_seq, state>>
     ELSE IF inserted.list.head # inserted.segment
     THEN segment_list' = Fail(inserted.list, "assert") /\ UNCHANGED <<data, tail_seq, state>>
     ELSE /\ data' = seek_tail(write_at_tail(data, slice), incr)
          /\ tail_seq' = seg_end
          /\ segment_list' = IF one THEN ClearList(inserted.list) ELSE inserted.list
          /\ state' = IF one THEN "Connected" ELSE "ConnectedOutOfOrder"

\* Data beyond the tail.
InsertAhead(list, s, len) ==
  LET offset == s - tail_seq
      written == OffsetWrite(data, offset, len)
      inserted == insert_segment(Asserted(list, written), s, written % LenWord)
  IN /\ data' = write_at_offset_from_tail(data, offset, Stream(s, len))
     /\ segment_list' = inserted.list
     /\ state' = "ConnectedOutOfOrder"
     /\ UNCHANGED tail_seq

out_of_order_insert(list, s, len) ==
  IF list.fault # "none"
  THEN segment_list' = list /\ UNCHANGED <<data, tail_seq, state>>
  ELSE IF s < tail_seq /\ len <= tail_seq - s
  THEN /\ segment_list' = list
       /\ state' = "ConnectedOutOfOrder"
       /\ UNCHANGED <<data, tail_seq>>
  ELSE IF s <= tail_seq
  THEN InsertAtTail(list, Stream(tail_seq, len - (tail_seq - s)))
  ELSE InsertAhead(list, s, len)

\* Faulty variant: overlapping data is written from its beginning.
SlowPathFromStart(s, len) ==
  LET end == EndOf(s, len) IN
  IF tail_seq > s /\ end > tail_seq
  THEN /\ fast_path_insert(tail_seq, Stream(s, len))
       /\ UNCHANGED state
  ELSE UNCHANGED <<data, segment_list, state, tail_seq>>

slow_path_insert(s, len) ==
  LET end == EndOf(s, len) IN
  IF tail_seq > s /\ end > tail_seq
  THEN /\ fast_path_insert(tail_seq, Stream(tail_seq, len - (tail_seq - s)))
       /\ UNCHANGED state
  ELSE IF end < tail_seq
  THEN UNCHANGED <<data, segment_list, state, tail_seq>>
  ELSE out_of_order_insert(AddHead(segment_list, head_seq, Available(data)), s, len)

\* What the client sends next, relative to what arrived in order so far.
Arrives(s, len) ==
  LET behind == ((tail_seq - base) % SeqWord) - ((s - base) % SeqWord) IN
  CASE client.order = "in_order" -> behind = 0
    [] client.order = "overlap" -> behind >= 0 /\ (behind > 0 => len # behind)
    [] client.order = "no_repeats" -> behind <= 0
    [] client.order = "any" -> TRUE

add_data(s, len) ==
  /\ Usable /\ Arrives(s, len)
  /\ \/ /\ state = "Connected" /\ s = tail_seq
        /\ fast_path_insert(s, Stream(s, len))
        /\ UNCHANGED state
     \/ /\ state = "Connected" /\ s # tail_seq
        /\ slow_path_insert(s, len)
     \/ /\ state = "ConnectedOutOfOrder"
        /\ out_of_order_insert(segment_list, s, len)
  /\ UNCHANGED <<head_seq, base, client>>

read_data(n) ==
  LET read == MinOf(Available(data), n) IN
  /\ Usable /\ state # "Closed"
  /\ data' = read_from_head(data, n)
  /\ head_seq' = EndOf(head_seq, read)
  /\ segment_list' = IF state = "Connected" \/ read > BufferSize THEN Asserted(segment_list, read)
                     ELSE consume_head_data(segment_list, head_seq, read % LenWord)
  /\ UNCHANGED <<state, tail_seq, base, client>>

reset ==
  /\ Usable
  /\ state' = "Closed"
  /\ segment_list' = ClearList(segment_list)
  /\ data' = clear(data)
  /\ UNCHANGED <<head_seq, tail_seq, base, client>>

BufferNext ==
  \/ \E s \in client.bases, i \in client.inputs : i[1] = 0 /\ seq(s, i[2])
  \/ \E i \in client.inputs : add_data(EndOf(base, i[1]), i[2])
  \/ \E n \in client.reads : read_data(n)
  \/ reset

BufferSpec == BufferInit /\ [][BufferNext]_bufferVars

-----------------------------------------------------------------------------
\* Counters, sequence numbers and cells keep their types.
BufferTypeOK ==
  /\ data \in [head : Counters, tail : Counters, vec : [Cells -> Seqs \cup {NoByte}]]
  /\ state \in {"Closed", "Connected", "ConnectedOutOfOrder"}
  /\ head_seq \in Seqs /\ tail_seq \in Seqs /\ base \in Seqs
  /\ segment_list.fault \in {"none", "hang", "panic", "assert"}
  /\ segment_list.head \in {None} \cup DOMAIN segment_list.storage

\* The sequence numbers and the ring move together: head_seq and tail_seq are as
\* far apart as the ring has bytes to read, whatever path an insertion took, and the
\* ring never has more of them than it can hold.
CountersAgree ==
  /\ Usable /\ state # "Closed" => (tail_seq - head_seq) % SeqWord = Available(data) % SeqWord
  /\ Available(data) <= BufferSize

\* The bytes read_data may return next are the bytes of the stream at head_seq
\* and after it: nothing is skipped, repeated or made up.
ReadableInOrder ==
  Usable /\ state # "Closed" =>
    \A k \in 0 .. MinOf(Available(data), BufferSize) - 1 :
      data.vec[(data.head + k) % BufferSize] = EndOf(head_seq, k)

\* Every call returns: the merge loop of an insertion ends, the inserted segment is
\* the head of the list where out_of_order_insert asserts it, and no read or insertion
\* indexes a segment that does not exist.  The buffer keeps this promise to the clients
\* of SupportedClients and breaks it for data in any order (AnyOrder).
NoFault == segment_list.fault = "none"
=============================================================================

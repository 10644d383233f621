------------------------------ MODULE SegmentList ------------------------------
(***************************************************************************)
(* SegmentList of framework/src/state/reordered_buffer/reordered_buffer.rs *)
(* as functions on a list: nodes linked by index through storage, a stack  *)
(* of available nodes, head and tail.  None is -1.                         *)
(*                                                                         *)
(* fault records what a call did not return from: "hang" for a loop that   *)
(* makes no progress, "panic" for an index out of range.                   *)
(* Sequence numbers are u32 (SeqWord values) and lengths u16 (LenWord      *)
(* values); subtractions wrap, as they do in the release profile.          *)
(***************************************************************************)
EXTENDS Integers, Sequences, FiniteSets

CONSTANTS SeqWord, LenWord

ASSUME WordsAssumption ==
  SeqWord \in Nat \ {0} /\ LenWord \in Nat \ {0} /\ SeqWord % LenWord = 0

None == -1
Lost == -2   \* a walk over links that form a cycle
MaxLength == LenWord - 1
EndOf(seq, len) == (seq + len) % SeqWord
MaxOf(a, b) == IF a >= b THEN a ELSE b

Node(prev, seq, length, next) == [prev |-> prev, seq |-> seq, length |-> length, next |-> next]

NewList(length) ==
  [storage |-> [i \in 0 .. length - 1 |-> Node(None, 0, 0, None)],
   available |-> [i \in 1 .. length |-> i - 1],
   head |-> None, tail |-> None, fault |-> "none"]

Fail(l, what) == [l EXCEPT !.fault = what]

remove_node(l, node) ==
  [l EXCEPT !.storage[node].length = 0, !.available = Append(@, node)]

\* find_available_node: the node it returns, and the list without it.
FreeNode(l) ==
  IF l.available = <<>> THEN Cardinality(DOMAIN l.storage) ELSE l.available[Len(l.available)]
TakeNode(l) ==
  IF l.available = <<>>
  THEN [l EXCEPT !.storage = [i \in 0 .. FreeNode(l) |->
                                IF i \in DOMAIN @ THEN @[i] ELSE Node(None, 0, 0, None)]]
  ELSE [l EXCEPT !.available = SubSeq(@, 1, Len(@) - 1)]

\* The inserting operations; the new node is FreeNode(l).
insert_before_node(l, next, seq, len) ==
  LET idx == FreeNode(l)
      prev == IF next = None THEN None ELSE l.storage[next].prev
      placed == [TakeNode(l) EXCEPT !.storage[idx] = Node(prev, seq, len, next)]
  IN IF next = None THEN placed
     ELSE IF prev = None THEN [placed EXCEPT !.storage[next].prev = idx, !.head = idx]
     ELSE [placed EXCEPT !.storage[next].prev = idx, !.storage[prev].next = idx]

insert_after_node(l, prev, seq, len) ==
  LET idx == FreeNode(l)
      next == l.storage[prev].next
  IN [TakeNode(l) EXCEPT !.storage[idx] = Node(prev, seq, len, next),
                         !.storage[prev].next = idx,
                         !.tail = IF next = None THEN idx ELSE @]

insert_at_tail(l, seq, len) ==
  LET idx == FreeNode(l) IN
  [TakeNode(l) EXCEPT !.storage[idx] = Node(l.tail, seq, len, None),
                      !.storage[l.tail].next = idx,
                      !.tail = idx]

\* Faulty variant: segments that only touch are not merged.
MergeTouchingHangs(l, idx) ==
  LET a == l.storage[idx] IN
  IF a.next # None /\ l.storage[a.next].seq = EndOf(a.seq, a.length) THEN Fail(l, "hang") ELSE l

\* The loop of merge_at_idx.  A following segment that does not touch idx leaves
\* every variable of the loop as it was, so the loop never ends; nor does it when
\* the links form a cycle, which steps bounds.
RECURSIVE MergeFrom(_, _, _, _)
MergeFrom(l, idx, next, steps) ==
  IF next = None THEN l
  ELSE LET a == l.storage[idx]
           b == l.storage[next]
           end == EndOf(a.seq, a.length)
           new_len == a.length + b.length - (end - b.seq)
           room == MaxLength - a.length
           joined == [l EXCEPT !.storage[idx].length = new_len, !.storage[idx].next = b.next]
           linked == IF b.next = None THEN joined
                     ELSE [joined EXCEPT !.storage[b.next].prev = idx]
       IN IF end < b.seq \/ steps = 0 THEN Fail(l, "hang")
          ELSE IF new_len \in 0 .. MaxLength
          THEN MergeFrom(remove_node(linked, next), idx, b.next, steps - 1)
          ELSE [l EXCEPT !.storage[idx].length = MaxLength,
                         !.storage[next].length = (b.length - room) % LenWord,
                         !.storage[next].seq = EndOf(b.seq, room)]

Steps(l) == 2 * Cardinality(DOMAIN l.storage)
merge_at_idx(l, idx) == MergeFrom(l, idx, l.storage[idx].next, Steps(l))

\* Where the walk of insert_segment stops: a segment that ends at seq, lies
\* behind the data or starts at or before it.
RECURSIVE FindSegment(_, _, _, _, _)
FindSegment(l, idx, seq, end, steps) ==
  IF idx = None THEN None
  ELSE IF steps = 0 THEN Lost
  ELSE LET s == l.storage[idx] IN
       IF EndOf(s.seq, s.length) = seq \/ s.seq >= end \/ s.seq <= seq THEN idx
       ELSE FindSegment(l, s.next, seq, end, steps - 1)

\* insert_segment: the list, and the segment that now holds the data.
insert_segment(l, seq, len) ==
  LET end == EndOf(seq, len)
      idx == FindSegment(l, l.head, seq, end, Steps(l))
      s == l.storage[idx]
      seg_end == EndOf(s.seq, s.length)
      room == MaxLength - s.length
  IN CASE l.head = None ->
            [list |-> [insert_before_node(l, None, seq, len)
                         EXCEPT !.head = FreeNode(l), !.tail = FreeNode(l)],
             segment |-> FreeNode(l)]
       [] l.head # None /\ idx = None ->
            [list |-> insert_at_tail(l, seq, len), segment |-> FreeNode(l)]
       [] l.head # None /\ idx = Lost -> [list |-> Fail(l, "hang"), segment |-> Lost]
       [] l.head # None /\ idx \notin {None, Lost} ->
            IF seg_end = seq /\ len <= room THEN
              [list |-> merge_at_idx([l EXCEPT !.storage[idx].length = @ + len], idx),
               segment |-> idx]
            ELSE IF seg_end = seq THEN
              [list |-> merge_at_idx(
                          insert_after_node([l EXCEPT !.storage[idx].length = MaxLength],
                                            idx, EndOf(seq, room), len - room), idx),
               segment |-> idx]
            ELSE IF s.seq >= end THEN
              [list |-> merge_at_idx(insert_before_node(l, idx, seq, len), FreeNode(l)),
               segment |-> FreeNode(l)]
            ELSE
              [list |-> merge_at_idx([l EXCEPT !.storage[idx].length =
                                        ((MaxOf(seg_end, end) - s.seq) % SeqWord) % LenWord], idx),
               segment |-> idx]

remove_head(l) == remove_node([l EXCEPT !.head = l.storage[l.head].next], l.head)

consume_head_data(l, seq, consumed) ==
  IF l.head = None THEN Fail(l, "panic")
  ELSE LET s == l.storage[l.head]
           consume == IF consumed <= s.length THEN consumed ELSE s.length
           rest == [l EXCEPT !.storage[l.head].seq = EndOf(@, consume),
                             !.storage[l.head].length = @ - consume]
       IN IF s.seq # seq THEN l
          ELSE IF consume = s.length THEN remove_head(rest)
          ELSE merge_at_idx(rest, l.head)

RECURSIVE ClearFrom(_, _, _)
ClearFrom(l, idx, steps) ==
  IF idx = None THEN [l EXCEPT !.head = None, !.tail = None]
  ELSE IF steps = 0 THEN Fail(l, "hang")
  ELSE ClearFrom(remove_node(l, idx), l.storage[idx].next, steps - 1)

ClearList(l) == ClearFrom(l, l.head, Steps(l))

one_segment(l) == l.head = None \/ l.storage[l.head].next = None
=============================================================================

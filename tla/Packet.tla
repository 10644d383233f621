-------------------------------- MODULE Packet --------------------------------
(***************************************************************************)
(* One mbuf and the Packets made from it (framework/src/interface/         *)
(* packet.rs), from its allocation or reception until it is freed.  The    *)
(* code has only the buffer, a pointer to the current header and its       *)
(* offset; bytes is what the packet should hold after the calls so far.    *)
(***************************************************************************)
EXTENDS MBuf, Sequences, SequencesExt

CONSTANTS
  Headroom,     \* data_off of a fresh mbuf
  USize,        \* usize has the numbers below this one
  Headers,      \* headers to push or write: a length field and a tag
  Arrivals,     \* what a port may receive
  Bodies,       \* payloads that are copied from another packet
  Values,       \* metadata of add_metadata, and bytes of a payload
  MaxHeaders,   \* bound: headers of a packet
  MaxChange,    \* bound: bytes a call adds or removes
  MaxChanges    \* bound: calls that change the bytes of a packet

ASSUME SizesAssumption ==
  /\ BufLen \in Nat /\ Headroom \in 0 .. BufLen /\ MaxHeaders \in Nat
  /\ MaxChange \in Nat /\ MaxChanges \in Nat
  /\ USize \in Nat /\ USize > 2 * BufLen
\* A header has no more bytes than its length field says; the rest are options.
ASSUME HeadersAssumption == \A h \in Headers : Len(h) = 2 /\ h[1] \in Nat /\ h[1] >= Len(h)

VARIABLES
  mbuf, header, offset,
  level,         \* the header type T: how many headers are parsed or pushed
  phase,         \* "free"; "held" by a packet; "stray": the header pointer is not at a
                 \* header; "spoiled": a call moved or wrote more than it may; "panicked"
  bytes,
  saved,         \* level when the header was saved, NotSaved, or Outdated
  metadata,      \* what add_metadata wrote, or Junk
  changes        \* calls that changed the bytes, for the bound

vars == <<mbuf, header, offset, level, phase, bytes, saved, metadata, changes>>

Junk == 0
NotSaved == -1
Outdated == -2   \* what lies before the saved header has changed since
size == 2        \* T::size() of a header
HEADER_SLOT == 0
OFFSET_SLOT == 1
STACK_DEPTH_SLOT == 2
STACK_OFFSET_SLOT == 3
STACK_SIZE == 0
FREEFORM_METADATA_SLOT == STACK_OFFSET_SLOT + STACK_SIZE
Slots == 0 .. 3

Fresh == [data_off |-> Headroom, data_len |-> 0, cells |-> [a \in Addresses |-> Junk],
          slots |-> [s \in Slots |-> Junk]]

Init ==
  /\ mbuf = Fresh /\ header = Headroom /\ offset = 0 /\ level = 0 /\ phase = "free"
  /\ bytes = <<>> /\ saved = NotSaved /\ metadata = Junk /\ changes = 0

-----------------------------------------------------------------------------
\* The length field of the header; NullHeader has none.
payload_offset == IF level = 0 THEN 0 ELSE mbuf.cells[header]
payload == header + payload_offset
payload_size == (mbuf.data_len - offset - payload_offset) % USize

\* Where the payload begins in the data, and whether it does: no call checks the
\* length field of a header.
PayloadAt == offset + payload_offset
HeaderFits == level = 0 \/ payload_offset \in size .. mbuf.data_len - offset

\* The packet that create_packet makes.
Create(hdr, off, l) == header' = hdr /\ offset' = off /\ level' = l

Before(k) == SubSeq(bytes, 1, IF k < Len(bytes) THEN k ELSE Len(bytes))
After(k) == SubSeq(bytes, k + 1, Len(bytes))
CellsAt(a, n) == [i \in 1 .. n |-> mbuf.cells[a + i - 1]]
DataEnd == data_address(mbuf, mbuf.data_len)

\* A call that wrote what it should, or one after which only the first k bytes are
\* known to be right.  The packet is followed no further then.
Kept(b) == phase' = "held" /\ bytes' = b
Spoiled(k) == phase' = "spoiled" /\ bytes' = Before(k)

\* Headers behind the payload's start may have changed: a saved one is not found again.
PayloadChanged == saved' = IF saved > level THEN Outdated ELSE saved

new_packet ==
  /\ phase = "free"
  /\ mbuf' = Fresh /\ Create(Headroom, 0, 0) /\ Kept(<<>>)
  /\ UNCHANGED <<saved, metadata>>

\* A packet that a port received is handed out by PacketBatch::next_payload.
packet_from_mbuf(data) ==
  /\ phase = "free"
  /\ mbuf' = [Fresh EXCEPT !.data_len = Len(data), !.cells = Stored(@, Headroom, data)]
  /\ Create(Headroom, 0, 0) /\ Kept(data)
  /\ UNCHANGED <<saved, metadata>>

\* No packet refers to the mbuf any more.
Gone ==
  /\ mbuf' = Fresh /\ Create(Headroom, 0, 0) /\ phase' = "free"
  /\ bytes' = <<>> /\ saved' = NotSaved /\ metadata' = Junk

free_packet == phase \in {"held", "stray", "spoiled"} /\ Gone

Panic == phase' = "panicked" /\ UNCHANGED <<mbuf, header, offset, level, bytes, saved, metadata>>

\* Faulty variant: the rest of the data is moved only up to its new end.
PushHeaderShort(h) ==
  LET end == add_data_end(mbuf, h[1])
      to_move == mbuf.data_len - PayloadAt
  IN
  /\ phase = "held" /\ level < MaxHeaders /\ HeaderFits /\ to_move <= h[1] /\ end.done >= h[1]
  /\ \E cells \in copy_nonoverlapping(mbuf.cells, payload, payload + h[1], to_move - 1) :
       mbuf' = [end.mbuf EXCEPT !.cells = Stored(cells, payload, h)]
  /\ Create(payload, PayloadAt, level + 1)
  /\ Kept(Before(PayloadAt) \o h \o CellsAt(payload + size, h[1] - size) \o After(PayloadAt))
  /\ PayloadChanged
  /\ UNCHANGED metadata

\* Without room the packet is gone, and its mbuf with it.  The rest of the data is
\* copied as if it did not overlap its new place, which it does when it is longer than
\* the header; past a header that is longer than the data its length wraps, and the
\* copy runs out of the memory.
push_header(h) ==
  LET end == add_data_end(mbuf, h[1])
      to_move == mbuf.data_len - PayloadAt
      pushed == h \o CellsAt(payload + size, h[1] - size)
  IN
  /\ phase = "held" /\ level < MaxHeaders
  /\ \/ end.done < h[1] /\ Gone
     \/ end.done >= h[1] /\ to_move < 0 /\ Panic
     \/ /\ end.done >= h[1] /\ to_move >= 0
        /\ \E cells \in copy_nonoverlapping(mbuf.cells, payload, payload + h[1], to_move) :
             mbuf' = [end.mbuf EXCEPT !.cells = Stored(cells, payload, h)]
        /\ Create(payload, PayloadAt, level + 1)
        /\ IF ~HeaderFits THEN Spoiled(offset)
           ELSE IF to_move <= h[1] THEN Kept(Before(PayloadAt) \o pushed \o After(PayloadAt))
           ELSE phase' = "spoiled" /\ bytes' = Before(PayloadAt) \o pushed
        /\ PayloadChanged
        /\ UNCHANGED metadata

-----------------------------------------------------------------------------
(* Headers *)

\* Faulty variant: the offset is not advanced with the header.
ParseKeepsOffset ==
  /\ phase = "held" /\ level < MaxHeaders /\ payload_size > size
  /\ Create(payload, offset, level + 1)
  /\ UNCHANGED <<mbuf, phase, bytes, saved, metadata>>

\* The assertion is about a size that wraps after a header longer than the data, and
\* that includes part of a header shorter than its type: then there is no header where
\* the next one is looked for.
parse_header ==
  /\ phase = "held" /\ level < MaxHeaders
  /\ IF payload_size > size
     THEN /\ Create(payload, PayloadAt, level + 1)
          /\ phase' = IF HeaderFits THEN "held" ELSE "stray"
          /\ UNCHANGED <<mbuf, bytes, saved, metadata>>
     ELSE Panic

\* Also what every operator starts from, since batches keep mbufs and not packets.
reset ==
  /\ phase \in {"held", "stray"}
  /\ Create(data_address(mbuf, 0), 0, 0)
  /\ phase' = "held"
  /\ UNCHANGED <<mbuf, bytes, saved, metadata>>

\* Offset of the l-th header when each begins where the one before ends.
Start[l \in 0 .. MaxHeaders + 1] ==
  IF l <= 1 THEN 0 ELSE Start[l - 1] + mbuf.cells[data_address(mbuf, Start[l - 1])]

\* The caller passes the length of the header before the current one.
deparse_header(o) ==
  /\ phase = "held" /\ level > 0
  /\ Create(header - o, offset - o, level - 1)
  /\ phase' = IF o = Start[level] - Start[level - 1] THEN "held" ELSE "stray"
  /\ UNCHANGED <<mbuf, bytes, saved, metadata>>

\* The stack of offsets has STACK_SIZE = 0 slots, since its first slot is that of
\* the metadata: push_offset finds no room and unwrap panics.
push_offset(m, o) ==
  LET depth == m.slots[STACK_DEPTH_SLOT] IN
  IF depth < STACK_SIZE
    THEN {write_metadata_slot(write_metadata_slot(m, STACK_DEPTH_SLOT, depth + 1),
                              STACK_OFFSET_SLOT + depth, o)}
    ELSE {}
parse_header_and_record ==
  /\ phase = "held" /\ level < MaxHeaders
  /\ IF payload_size > size /\ push_offset(mbuf, payload_offset) # {}
     THEN /\ mbuf' \in push_offset(mbuf, payload_offset)
          /\ Create(payload, PayloadAt, level + 1)
          /\ phase' = IF HeaderFits THEN "held" ELSE "stray"
          /\ UNCHANGED <<bytes, saved, metadata>>
     ELSE Panic

\* The popped offset and the mbuf without it, or nothing.
pop_offset(m) ==
  LET depth == m.slots[STACK_DEPTH_SLOT] IN
  IF depth > 0
    THEN {[offset |-> m.slots[STACK_OFFSET_SLOT + depth - 1],
           mbuf |-> write_metadata_slot(m, STACK_DEPTH_SLOT, depth - 1)]}
    ELSE {}

\* With an empty stack there is no packet any more, and its mbuf is gone with it.
deparse_header_stack ==
  /\ phase = "held" /\ level > 0
  /\ IF pop_offset(mbuf) # {}
     THEN \E o \in pop_offset(mbuf) :
            /\ mbuf' = o.mbuf /\ Create(header - o.offset, offset - o.offset, level - 1)
            /\ UNCHANGED <<phase, bytes, saved, metadata>>
     ELSE Gone

reset_stack_offset ==
  /\ phase = "held"
  /\ mbuf' = write_metadata_slot(mbuf, STACK_DEPTH_SLOT, 0)
  /\ UNCHANGED <<header, offset, level, phase, bytes, saved, metadata>>

save_header_and_offset ==
  /\ phase = "held"
  /\ mbuf' = write_metadata_slot(write_metadata_slot(mbuf, HEADER_SLOT, header), OFFSET_SLOT, offset)
  /\ saved' = level
  /\ UNCHANGED <<header, offset, level, phase, bytes, metadata>>

\* The slots are not cleared: before the first save they hold null, and the packet is
\* gone, or what an earlier packet of the mbuf saved.
restore_saved_header ==
  /\ phase = "held"
  /\ \/ saved = NotSaved /\ Gone
     \/ /\ Create(mbuf.slots[HEADER_SLOT], mbuf.slots[OFFSET_SLOT], IF saved < 0 THEN level ELSE saved)
        /\ phase' = IF saved < 0 THEN "stray" ELSE "held"
        /\ UNCHANGED <<mbuf, bytes, saved, metadata>>

write_metadata(v) ==
  /\ phase = "held"
  /\ mbuf' = write_metadata_slot(mbuf, FREEFORM_METADATA_SLOT, v)
  /\ metadata' = v
  /\ UNCHANGED <<header, offset, level, phase, bytes, saved>>

\* The bytes with s from position k on, as far as there are any.
Overwritten(k, s) == [i \in DOMAIN bytes |-> IF i - k \in DOMAIN s THEN s[i - k] ELSE bytes[i]]

\* Another length field moves the payload.
replace_header(h) ==
  /\ phase = "held" /\ level > 0
  /\ mbuf' = [mbuf EXCEPT !.cells = Stored(@, header, h)]
  /\ Kept(Overwritten(offset, h))
  /\ PayloadChanged
  /\ UNCHANGED <<header, offset, level, metadata>>
-----------------------------------------------------------------------------
(* Payload *)

\* add_to_payload_tail and increase_payload_size: the new bytes hold what was there.
add_to_payload_tail(n) ==
  LET end == add_data_end(mbuf, n) IN
  /\ phase = "held"
  /\ mbuf' = end.mbuf
  /\ Kept(bytes \o CellsAt(DataEnd, end.done))
  /\ UNCHANGED <<header, offset, level, saved, metadata>>

\* remove_from_payload_tail and trim_payload_size: headers too, when there is no more payload.
remove_from_payload_tail(n) ==
  LET end == remove_data_end(mbuf, n) IN
  /\ phase = "held"
  /\ mbuf' = end.mbuf
  /\ Kept(Before(Len(bytes) - end.done))
  /\ UNCHANGED <<header, offset, level, saved, metadata>>

\* s is written o bytes into the payload, with no regard to where that ends.
WritePayload(m, o, s, b) ==
  /\ mbuf' = [m EXCEPT !.cells = Stored(@, payload + o, s)]
  /\ IF ~HeaderFits THEN Spoiled(offset)
     ELSE IF payload + o + Len(s) <= BufLen THEN Kept(b)
     ELSE Spoiled(PayloadAt + o)
  /\ PayloadChanged

\* A client writes the first byte of the slice that get_mut_payload returns.
get_mut_payload(v) ==
  /\ phase = "held" /\ payload_size > 0
  /\ WritePayload(mbuf, 0, <<v>>, Overwritten(PayloadAt, <<v>>))
  /\ UNCHANGED <<header, offset, level, metadata>>

\* Only the start of the header is checked.
write_header(h, o) ==
  /\ phase = "held"
  /\ IF o > payload_size THEN UNCHANGED <<mbuf, phase, bytes, saved>>
     ELSE WritePayload(mbuf, o, h, Overwritten(PayloadAt + o, h))
  /\ UNCHANGED <<header, offset, level, metadata>>

\* The payload b of another packet is copied; without room for all of it, as much
\* as the payload of this one holds.
copy_payload(b) ==
  LET end == IF payload_size < Len(b) THEN add_data_end(mbuf, Len(b) - payload_size)
             ELSE [done |-> 0, mbuf |-> mbuf]
      should_copy == IF payload_size < Len(b) THEN payload_size + end.done ELSE Len(b)
      copied == SubSeq(b, 1, should_copy)
  IN
  /\ phase = "held"
  /\ WritePayload(end.mbuf, 0, copied,
                  Before(PayloadAt) \o copied \o After(PayloadAt + should_copy))
  /\ UNCHANGED <<header, offset, level, metadata>>

\* n bytes of the payload are moved, whatever its size: those after them are lost when
\* there are more, and the move may run over the end of the buffer when there are fewer.
add_to_payload_head(n) ==
  LET end == add_data_end(mbuf, n) IN
  /\ phase = "held"
  /\ IF end.done >= n
     THEN /\ \E cells \in copy_nonoverlapping(mbuf.cells, payload, payload + n, n) :
               mbuf' = [end.mbuf EXCEPT !.cells = cells]
          /\ IF ~HeaderFits THEN Spoiled(offset)
             ELSE IF payload_size <= n /\ payload + 2 * n <= BufLen
                  THEN Kept(Before(PayloadAt) \o CellsAt(payload, n) \o After(PayloadAt))
             ELSE Spoiled(PayloadAt + n)
          /\ PayloadChanged
     ELSE UNCHANGED <<mbuf, phase, bytes, saved>>
  /\ UNCHANGED <<header, offset, level, metadata>>

\* The first n bytes of the data are moved over the next n, and the data begins there:
\* only when the headers have n bytes are they what is kept, and the payload what is
\* removed.  The header pointer is not moved, and a saved one neither.
remove_from_payload_head(n) ==
  LET base == data_address(mbuf, 0)
      rest == remove_data_beginning(mbuf, n)
  IN
  /\ phase = "held"
  /\ \E cells \in copy_nonoverlapping(mbuf.cells, base, base + n, n) :
       mbuf' = [rest.mbuf EXCEPT !.cells = cells]
  /\ IF base + 2 * n > BufLen \/ rest.done < n THEN Spoiled(rest.mbuf.data_len)
     ELSE IF HeaderFits /\ n = PayloadAt /\ n <= payload_size
          THEN phase' = "stray" /\ bytes' = Before(n) \o After(2 * n)
     ELSE Spoiled(IF 2 * n <= mbuf.data_len THEN n ELSE rest.mbuf.data_len)
  /\ saved' = IF saved = NotSaved THEN NotSaved ELSE Outdated
  /\ UNCHANGED <<header, offset, level, metadata>>

-----------------------------------------------------------------------------
Change ==
  \/ \E v \in Values : get_mut_payload(v)
  \/ \E h \in Headers : push_header(h) \/ replace_header(h)
  \/ \E h \in Headers, o \in 0 .. MaxChange : write_header(h, o)
  \/ \E b \in Bodies : copy_payload(b)
  \/ \E n \in 1 .. MaxChange : add_to_payload_tail(n) \/ remove_from_payload_tail(n)
  \/ \E n \in 1 .. BufLen : add_to_payload_head(n) \/ remove_from_payload_head(n)

Next ==
  \/ /\ changes' = 0
     /\ new_packet \/ free_packet \/ \E data \in Arrivals : packet_from_mbuf(data)
  \/ /\ UNCHANGED changes
     /\ \/ parse_header \/ reset \/ \E n \in 0 .. BufLen : deparse_header(n)
        \/ parse_header_and_record \/ deparse_header_stack \/ reset_stack_offset
        \/ save_header_and_offset \/ restore_saved_header
        \/ \E v \in Values : write_metadata(v)
  \/ changes < MaxChanges /\ changes' = changes + 1 /\ Change

Spec == Init /\ [][Next]_vars

-----------------------------------------------------------------------------
(* Properties *)

\* The data of the mbuf is what the calls made it: a push, a write, a copy, growth and a
\* trim each change their own part of it and move the rest unharmed.  Where the code's
\* unchecked copies cannot do that, the damage is bounded: a push before more bytes than
\* the header has keeps what lies before it and the header, add_to_payload_head for
\* fewer bytes than the payload has keeps the headers and those bytes, a write behind
\* the buffer's end keeps what lies before it, remove_from_payload_head for a size other
\* than that of the headers keeps as many bytes from the front, and a call on a header
\* with a wrong length field keeps what lies before that header.
LayoutKept ==
  /\ phase \in {"held", "stray"} => mbuf.data_len = Len(bytes)
  /\ phase \in {"held", "stray", "spoiled"} => CellsAt(data_address(mbuf, 0), Len(bytes)) = bytes

\* Through parsing, pushing, deparsing, saving, restoring and writes in between, the
\* header pointer and the offset, which the code keeps separately, both stay those of
\* the header of the packet's type, each header where the length field of the one before
\* says; the payload size does not wrap unless the header's own length field is wrong;
\* and metadata written to the mbuf is not mixed up with a saved header.
PointersAgree ==
  phase = "held" =>
    /\ offset = Start[level]
    /\ header = data_address(mbuf, offset)
    /\ HeaderFits => payload_size = Len(bytes) - Start[level + 1]
    /\ metadata # Junk => mbuf.slots[FREEFORM_METADATA_SLOT] = metadata
=============================================================================

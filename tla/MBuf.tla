--------------------------------- MODULE MBuf ---------------------------------
(***************************************************************************)
(* The data area of an mbuf as framework/src/native/zcsi/mbuf.rs handles   *)
(* it: data_len cells of a buffer from data_off on.  slots is the metadata *)
(* behind the mbuf.                                                        *)
(***************************************************************************)
EXTENDS Integers

CONSTANT BufLen   \* buf_len

Addresses == 0 .. BufLen - 1

data_address(m, offset) == m.data_off + offset

pkt_tailroom(m) == BufLen - m.data_off - m.data_len

\* Each returns the number of bytes added or removed, 0 when there is no room.
add_data_end(m, len) ==
  IF len > pkt_tailroom(m) THEN [done |-> 0, mbuf |-> m]
  ELSE [done |-> len, mbuf |-> [m EXCEPT !.data_len = @ + len]]

remove_data_beginning(m, len) ==
  IF len > m.data_len THEN [done |-> 0, mbuf |-> m]
  ELSE [done |-> len, mbuf |-> [m EXCEPT !.data_off = @ + len, !.data_len = @ - len]]

remove_data_end(m, len) ==
  IF len > m.data_len THEN [done |-> 0, mbuf |-> m]
  ELSE [done |-> len, mbuf |-> [m EXCEPT !.data_len = @ - len]]

write_metadata_slot(m, slot, value) == [m EXCEPT !.slots[slot] = value]

\* The cells after n of them were copied from src to dst; what lies outside the
\* buffer is left out.
Copied(cells, src, dst, n) ==
  [a \in Addresses |-> IF a >= dst /\ a < dst + n /\ src + a - dst \in Addresses
                       THEN cells[src + a - dst] ELSE cells[a]]

\* What a copy that starts at the front does when the ranges overlap and dst > src.
CopiedForward(cells, src, dst, n) ==
  [a \in Addresses |-> IF a >= dst /\ a < dst + n
                       THEN cells[src + ((a - dst) % (dst - src))] ELSE cells[a]]

\* copy_nonoverlapping for dst > src: with ranges that overlap it may do either.
copy_nonoverlapping(cells, src, dst, n) ==
  IF src + n <= dst THEN {Copied(cells, src, dst, n)}
  ELSE {Copied(cells, src, dst, n), CopiedForward(cells, src, dst, n)}

Stored(cells, dst, s) ==
  [a \in Addresses |-> IF a - dst + 1 \in DOMAIN s THEN s[a - dst + 1] ELSE cells[a]]
=============================================================================

--------------------------- MODULE MCReorderedBuffer ---------------------------
(* Clients of a ReorderedBuffer for TLC. *)
EXTENDS ReorderedBuffer

\* Any segment, up to four bytes long, of a stream of n bytes.
Pieces(n) == {i \in (0..n) \X (1..4) : i[1] + i[2] <= n}

\* A stream of n bytes cut into packets of two bytes.
Packets(n) == {i \in (0..n) \X {2} : i[1] % 2 = 0 /\ i[1] + 2 <= n}

Client(order, bases, inputs, reads) ==
  [order |-> order, bases |-> bases, inputs |-> inputs, reads |-> reads]

\* A stream longer than the buffer whose sequence numbers wrap; one with
\* retransmissions that overlap what was received; and three packets of which the
\* later ones arrive in any order, each once.
SupportedClients ==
  {Client("in_order", {28, 31}, Pieces(10), {1, 3}),
   Client("overlap", {0, 3}, Pieces(10), {1, 3}),
   Client("no_repeats", {0, 28}, Packets(6), {1, 2, 8})}

\* Four packets in any order.
AnyOrder == {Client("any", {0}, Packets(8), {2, 8})}
=============================================================================

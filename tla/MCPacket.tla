------------------------------- MODULE MCPacket -------------------------------
(***************************************************************************)
(* Packet and HeaderFields for TLC: the bytes of one mbuf.  A packet places *)
(* whole headers, HeaderFields has the bits of one header: the initial      *)
(* state says which is looked at.                                           *)
(***************************************************************************)
EXTENDS Packet, HeaderFields

VARIABLE subject

allVars == <<subject, vars, fieldVars>>

\* One header, and one with an option.
SomeHeaders == {<<2, 1>>, <<3, 1>>}
\* Two headers and a payload, a header longer than the data, one shorter than its type.
SomeArrivals == {<<2, 1, 3, 1, 5>>, <<2, 1, 7, 1, 5>>, <<1, 1, 2, 5>>}
SomeBodies == {<<>>, <<5, 4, 5>>}

\* No bit, all bits, every second bit.
SomeBytes == {{}, Frame, {i \in Frame : i % 2 = 0}}
\* Zero, all ones, and 6: the protocol of TCP, and an ihl with one option word.
SomeArguments == {{}, Ones(48), {1, 2}}
SomeFlows ==
  [src_ip : {{}, Ones(32), {1, 2}}, dst_ip : {{0}}, src_port : {{1}, Ones(16)}, dst_port : {{2}},
   proto : {{1, 2}}]

AllInit ==
  /\ subject \in {"packet", "header"}
  /\ Init /\ FieldsInit
  /\ subject = "packet" => kind = "udp" /\ bits = {}

AllNext ==
  /\ UNCHANGED subject
  /\ \/ subject = "packet" /\ Next /\ UNCHANGED fieldVars
     \/ subject = "header" /\ FieldsNext /\ UNCHANGED vars

AllSpec == AllInit /\ [][AllNext]_allVars
=============================================================================

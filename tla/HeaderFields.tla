----------------------------- MODULE HeaderFields -----------------------------
(***************************************************************************)
(* The header structs of framework/src/headers (MacHeader, IpHeader,       *)
(* TcpHeader, UdpHeader) and the flows of framework/src/utils/flow.rs,     *)
(* which read and write the bytes of one packet in place through packed    *)
(* words, masks and shifts on a little-endian machine.                     *)
(*                                                                         *)
(* A number is the set of its one bits (bit 0 the least significant), and  *)
(* a header the set of its one bits in the order they have on the wire, so *)
(* a mask is an intersection, an or is a union, and a setter that blanks   *)
(* the wrong bits or lets through too many of its argument disturbs the    *)
(* neighbouring field here as it does in the code.                         *)
(***************************************************************************)
EXTENDS Integers, FiniteSetsExt

CONSTANTS
  MaxCalls,   \* a bound on the calls made on one header
  Received,   \* the bytes that may have been received
  Samples,    \* arguments of setters, before they are cut to the argument's width
  NewFlows,   \* flows that are stamped on a packet
  Checksums,  \* what ipv4_cksum may answer
  Performance \* built with the feature "performance"

VARIABLES
  kind,    \* "mac", "ip", "tcp" or "udp"
  bits,    \* the one bits of the header and of what follows it
  fields,  \* the value each field should have: what the last calls asked for
  calls    \* how many calls were made

fieldVars == <<kind, bits, fields, calls>>

-----------------------------------------------------------------------------
(* Where the fields are *)

Number(v) == MapThenSumSet(LAMBDA i : 2^i, v)
Ones(n) == 0 .. n - 1
Swapped(v) == {(i + 8) % 16 : i \in v}

\* A field of width bits whose first bit on the wire is at; its setter keeps so
\* many bits of an argument of arg bits.
Field(at, width, keeps, arg) == [at |-> at, width |-> width, keeps |-> keeps, arg |-> arg]
Whole(at, width) == Field(at, width, width, width)

\* copy_address and set_etype.
MacFields ==
  [dst |-> Whole(0, 48), src |-> Whole(48, 48), etype |-> Whole(96, 16)]

\* set_fragment_offset alone ors its argument in without a mask: the upper three
\* bits of a u16 land in the flags, which are before the field.
FragmentOffset == Field(51, 13, 16, 16)
\* Faulty variant: the mask is 0x00f00000.
FlagsOverlap == Field(48, 4, 3, 8)
Flags == Field(48, 3, 3, 8)

IpFields ==
  [version |-> Field(0, 4, 4, 8), ihl |-> Field(4, 4, 4, 8),
   dscp |-> Field(8, 6, 6, 8), ecn |-> Field(14, 2, 2, 8),
   length |-> Whole(16, 16), id |-> Whole(32, 16),
   flags |-> Flags, fragment_offset |-> FragmentOffset,
   ttl |-> Whole(64, 8), protocol |-> Whole(72, 8), csum |-> Whole(80, 16),
   src |-> Whole(96, 32), dst |-> Whole(128, 32)]

TcpWords ==
  [src_port |-> Whole(0, 16), dst_port |-> Whole(16, 16),
   seq |-> Whole(32, 32), ack |-> Whole(64, 32), data_offset |-> Field(96, 4, 4, 8)]
\* A flag is set by an or with its mask and unset by an and with the complement.
TcpFlags ==
  [ns |-> Whole(103, 1), cwr |-> Whole(104, 1), ece |-> Whole(105, 1),
   urg |-> Whole(106, 1), ack_flag |-> Whole(107, 1), psh |-> Whole(108, 1),
   rst |-> Whole(109, 1), syn |-> Whole(110, 1), fin |-> Whole(111, 1)]
TcpLast ==
  [window |-> Whole(112, 16), csum |-> Whole(128, 16), urgent |-> Whole(144, 16)]

UdpFields ==
  [src_port |-> Whole(0, 16), dst_port |-> Whole(16, 16),
   len |-> Whole(32, 16), csum |-> Whole(48, 16)]

TcpFields ==
  [n \in DOMAIN TcpWords \cup DOMAIN TcpFlags \cup DOMAIN TcpLast |->
     IF n \in DOMAIN TcpWords THEN TcpWords[n]
     ELSE IF n \in DOMAIN TcpFlags THEN TcpFlags[n] ELSE TcpLast[n]]

FieldsOf == [mac |-> MacFields, ip |-> IpFields, tcp |-> TcpFields, udp |-> UdpFields]

Place(f, v) == {f.at + f.width - 1 - i : i \in v}
Set(h, f, v) == (h \ Place(f, Ones(f.width))) \cup Place(f, v \cap Ones(f.keeps))
Get(h, f) == {i \in Ones(f.width) : f.at + f.width - 1 - i \in h}

\* Two getters of IpHeader do not undo their setters: csum has no from_be, and
\* fragment_offset takes the half of the word that holds the identification.
csum(h) == Swapped(Get(h, IpFields.csum))
fragment_offset(h) ==
  LET half == Swapped(Get(h, IpFields.id)) \ {1, 2, 3}
  IN  Swapped({b - 3 : b \in half \ {0}})

-----------------------------------------------------------------------------
(* Flows *)

\* The length of the IP header in bytes: flow.rs takes the ihl's word for it, and
\* IpHeader::offset only in a build without "performance".
port_start(h) == 4 * Number(Get(h, IpFields.ihl))
IpOffset(h) == IF Performance THEN 20 ELSE port_start(h)

\* The n-th port of the header that begins after that many bytes.
PortAt(start, n) == Whole(8 * start + 16 * n, 16)
FlowPort(h, n) == PortAt(port_start(h), n)

Flow(src_ip, dst_ip, src_port, dst_port, proto) ==
  [src_ip |-> src_ip, dst_ip |-> dst_ip, src_port |-> src_port, dst_port |-> dst_port,
   proto |-> proto]

ipv4_extract_flow(h) ==
  Flow(Get(h, IpFields.src), Get(h, IpFields.dst),
       Get(h, FlowPort(h, 0)), Get(h, FlowPort(h, 1)), Get(h, IpFields.protocol))

\* IpHeader::flow, which names the first port the destination.  payload_size is
\* an unsigned difference: a length below the offset wraps to a large one.
\* The set has the flow, or is empty for None.
flow(h) ==
  LET length == Number(Get(h, IpFields.length))
      protocol == Get(h, IpFields.protocol)
  IN  IF Number(protocol) \in {6, 17} /\ length - IpOffset(h) \notin 0 .. 3
        THEN {Flow(Get(h, IpFields.src), Get(h, IpFields.dst),
                   Get(h, PortAt(IpOffset(h), 1)), Get(h, PortAt(IpOffset(h), 0)), protocol)}
        ELSE {}

\* Faulty variant: the ports stay.
ReverseAddresses(fl) == Flow(fl.dst_ip, fl.src_ip, fl.src_port, fl.dst_port, fl.proto)
reverse_flow(fl) == Flow(fl.dst_ip, fl.src_ip, fl.dst_port, fl.src_port, fl.proto)

\* ipv4_stamp_flow: port_start is read before the first write.  The checksum,
\* computed over the header with a zero in its place, is DPDK's.
ipv4_stamp_flow(fl, h, sum) ==
  LET addresses == Set(Set(h, IpFields.src, fl.src_ip), IpFields.dst, fl.dst_ip)
      ports == Set(Set(addresses, FlowPort(h, 0), fl.src_port), FlowPort(h, 1), fl.dst_port)
  IN  Set(ports, IpFields.csum, sum)

-----------------------------------------------------------------------------
(* Calls on a header *)

\* 64 bytes hold the longest IP header and the ports behind it.
Frame == 0 .. 511

ASSUME ReceivedAssumption == \A h \in Received : h \subseteq Frame
ASSUME NewFlowsAssumption ==
  \A fl \in NewFlows :
    /\ DOMAIN fl = {"src_ip", "dst_ip", "src_port", "dst_port", "proto"}
    /\ fl.src_ip \subseteq Ones(32) /\ fl.dst_ip \subseteq Ones(32)
    /\ fl.src_port \subseteq Ones(16) /\ fl.dst_port \subseteq Ones(16)
ASSUME ChecksumsAssumption == \A sum \in Checksums : sum \subseteq Ones(16)
ASSUME PerformanceAssumption == Performance \in BOOLEAN

\* A header of at least five words, as every well-formed one is: a smaller ihl
\* puts the ports on top of the header.
WellFormed(h) == Number(Get(h, IpFields.ihl)) \in 5 .. 15

\* The fields and, behind a well-formed IP header, the two ports of its flow.
FieldNames(k, h) ==
  DOMAIN FieldsOf[k] \cup IF k = "ip" /\ WellFormed(h) THEN {"port0", "port1"} ELSE {}
FieldAt(k, h, n) ==
  CASE n = "port0" -> FlowPort(h, 0) [] n = "port1" -> FlowPort(h, 1) [] OTHER -> FieldsOf[k][n]
FieldValues(k, h) == [n \in FieldNames(k, h) |-> Get(h, FieldAt(k, h, n))]

FieldsInit ==
  /\ kind \in {"mac", "ip", "tcp", "udp"}
  /\ bits \in Received
  /\ fields = FieldValues(kind, bits)
  /\ calls = 0

Arguments(f) == {v \cap Ones(f.arg) : v \in Samples}

\* The bits that set_fragment_offset turns on in the flags.
Spilled(v) == {i - 13 : i \in v \cap 13 .. 15}

\* set_<n>(v).  Changing ihl moves the ports, which then are what is there.
SetField(n, v) ==
  /\ bits' = Set(bits, FieldsOf[kind][n], v)
  /\ fields' = IF kind = "ip" /\ n = "ihl"
                 THEN [FieldValues(kind, bits') EXCEPT !.ihl = v \cap Ones(4)]
               ELSE IF kind = "ip" /\ n = "fragment_offset"
                 THEN [fields EXCEPT !.fragment_offset = v \cap Ones(13),
                                     !.flags = @ \cup Spilled(v)]
                 ELSE [fields EXCEPT ![n] = v \cap Ones(FieldsOf[kind][n].width)]
  /\ UNCHANGED kind

\* swap_addresses: three copies through a temporary.
swap_addresses ==
  /\ kind = "mac"
  /\ bits' = LET src == Get(bits, MacFields.src)
                 once == Set(bits, MacFields.src, Get(bits, MacFields.dst))
             IN  Set(once, MacFields.dst, src)
  /\ fields' = [fields EXCEPT !.src = fields.dst, !.dst = fields.src]
  /\ UNCHANGED kind

\* The packet gets another flow, as a NAT or a load balancer gives it.
Stamp(fl, sum) ==
  /\ kind = "ip"
  /\ bits' = ipv4_stamp_flow(fl, bits, sum)
  /\ fields' = IF WellFormed(bits)
                 THEN [fields EXCEPT !.src = fl.src_ip, !.dst = fl.dst_ip,
                                     !.port0 = fl.src_port, !.port1 = fl.dst_port, !.csum = sum]
                 ELSE FieldValues(kind, bits')
  /\ UNCHANGED kind

FieldsNext ==
  /\ calls < MaxCalls
  /\ calls' = calls + 1
  /\ \/ \E n \in DOMAIN FieldsOf[kind] :
          \E v \in Arguments(FieldsOf[kind][n]) : SetField(n, v)
     \/ swap_addresses
     \/ \E fl \in NewFlows \cup {reverse_flow(ipv4_extract_flow(bits))} :
          \E sum \in Checksums : Stamp(fl, sum)

FieldsSpec == FieldsInit /\ [][FieldsNext]_fieldVars

-----------------------------------------------------------------------------
(* Properties *)

\* Every field holds what was last written to it, whatever was written to its
\* neighbours in the same byte or word since, by setters, swap_addresses or
\* ipv4_stamp_flow, and a setter's argument that is too large is cut to the field,
\* with one exception: set_fragment_offset turns on the flags that bits 13 to 15 of
\* its argument stand for, and turns off none.  csum() answers the checksum with its
\* bytes exchanged, and fragment_offset() 0 for an identification of 0, whatever the
\* fragment offset.
FieldsKept ==
  /\ FieldValues(kind, bits) = fields
  /\ kind = "ip" =>
       /\ csum(bits) = Swapped(fields.csum)
       /\ fields.id = {} => fragment_offset(bits) = {}

\* A packet sent back and forth keeps its bytes: stamping the reverse of its flow
\* twice changes nothing but the checksum, options between header and ports
\* included; after the first stamp the packet carries the reverse flow.  And
\* IpHeader::flow, where it answers, has the same addresses and ports as
\* ipv4_extract_flow, the ports exchanged; a build with "performance" looks for them
\* where they are only behind a header without options.
FlowsRoundTrip ==
  kind = "ip" /\ WellFormed(bits) =>
    LET there == reverse_flow(ipv4_extract_flow(bits))
        sum == Get(bits, IpFields.csum)
        once == ipv4_stamp_flow(there, bits, sum)
    IN  /\ ipv4_extract_flow(once) = there
        /\ ipv4_stamp_flow(reverse_flow(there), once, sum) = bits
        /\ IpOffset(bits) = port_start(bits) =>
             \A fl \in flow(bits) :
               Flow(fl.dst_ip, fl.src_ip, fl.src_port, fl.dst_port, fl.proto) = there
=============================================================================

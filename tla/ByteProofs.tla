------------------------------- MODULE ByteProofs -------------------------------
(***************************************************************************)
(* Proofs about what is kept in bytes.  The header fields of HeaderFields: *)
(* getters, setters and flows on headers of any content, with any          *)
(* arguments; what a setter writes is described bit by bit, and that the   *)
(* fields of a header do not overlap gives the rest.  The ring buffer of   *)
(* RingBuffer keeps the promise of ByteWindow, for any size and any word   *)
(* that it divides: its counters and cells may wrap at any time.           *)
(***************************************************************************)
EXTENDS HeaderFields, RingStream, TLAPS

\* Time limit of the SMT backend for the leaves that name no other backend.
USE SMTT(60)

-----------------------------------------------------------------------------
(* One field *)

IsField(f) == f.at \in Nat /\ f.width \in Nat /\ f.keeps \in Nat

\* The place of bit i of the value, and the places of all its bits.
Bit(f, i) == f.at + f.width - 1 - i
Span(f) == f.at .. f.at + f.width - 1

\* What the setter keeps of v fits into the field.
Fits(f, v) == v \cap Ones(f.keeps) \subseteq Ones(f.width)

Apart(f, g) == Span(f) \cap Span(g) = {}

\* The places of a value are in the span of its field.
LEMMA BitInSpan ==
  ASSUME NEW f, IsField(f), NEW i \in Ones(f.width)
  PROVE  Bit(f, i) \in Span(f)
BY DEF IsField, Bit, Span, Ones

\* Every place of the span is that of one bit of the value.
LEMMA SpanIsBits ==
  ASSUME NEW f, IsField(f), NEW x \in Span(f)
  PROVE  \E i \in Ones(f.width) : x = Bit(f, i)
<1>1. f.at + f.width - 1 - x \in Ones(f.width)
  BY DEF IsField, Span, Ones
<1>2. x = Bit(f, f.at + f.width - 1 - x)
  BY DEF IsField, Span, Bit
<1> QED
  BY <1>1, <1>2, Zenon

\* Different bits have different places.
LEMMA BitInjective ==
  ASSUME NEW f, IsField(f), NEW i \in Int, NEW j \in Int, Bit(f, i) = Bit(f, j)
  PROVE  i = j
BY DEF IsField, Bit

\* A setter leaves everything outside its field alone.
LEMMA SetOutside ==
  ASSUME NEW f, IsField(f), NEW h, NEW v, Fits(f, v), NEW x, x \notin Span(f)
  PROVE  x \in Set(h, f, v) <=> x \in h
<1>1. x \notin Place(f, Ones(f.width))
  BY BitInSpan, Zenon DEF Place, Bit
<1>2. x \notin Place(f, v \cap Ones(f.keeps))
  BY BitInSpan, Zenon DEF Place, Bit, Fits
<1> QED
  BY <1>1, <1>2, Zenon DEF Set

\* Inside its field a setter writes the bits of its argument.
LEMMA SetInside ==
  ASSUME NEW f, IsField(f), NEW h, NEW v, NEW i \in Ones(f.width)
  PROVE  Bit(f, i) \in Set(h, f, v) <=> i \in v \cap Ones(f.keeps)
<1>1. i \in Int /\ \A j \in Ones(f.keeps) : j \in Int
  BY DEF Ones, IsField
<1>2. Bit(f, i) \in Place(f, Ones(f.width))
  BY Zenon DEF Place, Bit
<1>3. Bit(f, i) \in Place(f, v \cap Ones(f.keeps)) <=> i \in v \cap Ones(f.keeps)
  <2>1. ASSUME Bit(f, i) \in Place(f, v \cap Ones(f.keeps)) PROVE i \in v \cap Ones(f.keeps)
    <3>1. PICK j \in v \cap Ones(f.keeps) : Bit(f, i) = Bit(f, j)
      BY <2>1, Zenon DEF Place, Bit
    <3>2. i = j
      BY <1>1, <3>1, BitInjective, Zenon
    <3> QED
      BY <3>2
  <2>2. ASSUME i \in v \cap Ones(f.keeps) PROVE Bit(f, i) \in Place(f, v \cap Ones(f.keeps))
    BY <2>2, Zenon DEF Place, Bit
  <2> QED
    BY <2>1, <2>2, Zenon
<1> QED
  BY <1>2, <1>3, Zenon DEF Set

\* A getter answers bit by bit.
LEMMA GetBits ==
  ASSUME NEW f, NEW h, NEW i
  PROVE  i \in Get(h, f) <=> i \in Ones(f.width) /\ Bit(f, i) \in h
BY Zenon DEF Get, Bit

\* A getter answers what its setter kept of its argument.
LEMMA GetSame ==
  ASSUME NEW f, IsField(f), NEW h, NEW v, Fits(f, v)
  PROVE  Get(Set(h, f, v), f) = v \cap Ones(f.keeps)
<1>1. \A i : i \in Get(Set(h, f, v), f) <=> i \in Ones(f.width) /\ Bit(f, i) \in Set(h, f, v)
  BY GetBits, Zenon
<1>2. \A i \in Ones(f.width) : Bit(f, i) \in Set(h, f, v) <=> i \in v \cap Ones(f.keeps)
  BY SetInside, Zenon
<1>3. \A i : i \in Get(Set(h, f, v), f) <=> i \in v \cap Ones(f.keeps)
  BY <1>1, <1>2, Zenon DEF Fits
<1> QED
  BY <1>3, Zenon

\* A getter of another field answers what it did before.
LEMMA GetOther ==
  ASSUME NEW f, IsField(f), NEW g, IsField(g), Apart(f, g), NEW h, NEW v, Fits(f, v)
  PROVE  Get(Set(h, f, v), g) = Get(h, g)
<1>1. ASSUME NEW i \in Ones(g.width) PROVE Bit(g, i) \in Set(h, f, v) <=> Bit(g, i) \in h
  <2>1. Bit(g, i) \notin Span(f)
    BY BitInSpan, Zenon DEF Apart
  <2> QED
    BY <2>1, SetOutside, Zenon
<1>2. \A i : i \in Get(Set(h, f, v), g) <=> i \in Get(h, g)
  BY <1>1, GetBits, Zenon
<1> QED
  BY <1>2, Zenon

\* Headers with the same value of a field agree on its places.
LEMMA SameValueSameBits ==
  ASSUME NEW f, IsField(f), NEW g, NEW h, Get(g, f) = Get(h, f), NEW x \in Span(f)
  PROVE  x \in g <=> x \in h
<1>1. PICK i \in Ones(f.width) : x = Bit(f, i)
  BY SpanIsBits, Zenon
<1>2. (i \in Get(g, f) <=> Bit(f, i) \in g) /\ (i \in Get(h, f) <=> Bit(f, i) \in h)
  BY GetBits, Zenon
<1> QED
  BY <1>1, <1>2, Zenon

-----------------------------------------------------------------------------
(* The fields of a header do not overlap *)

Kinds == {"mac", "ip", "tcp", "udp"}

\* A field with a setter that cuts its argument to the field.
Cuts(f) == f.keeps = f.width

\* f ends where g begins, or before.
Before(f, g) == f.at + f.width <= g.at

LEMMA BeforeApart ==
  ASSUME NEW f, IsField(f), NEW g, IsField(g), Before(f, g) \/ Before(g, f)
  PROVE  Apart(f, g)
BY DEF Apart, Span, Before, IsField

\* The fields of MacHeader.
LEMMA MacGeometry ==
  ASSUME NEW n \in DOMAIN MacFields
  PROVE  /\ IsField(MacFields[n]) /\ Cuts(MacFields[n])
         /\ \A m \in DOMAIN MacFields :
              m # n => Before(MacFields[n], MacFields[m]) \/ Before(MacFields[m], MacFields[n])
BY DEF MacFields, Whole, Field, IsField, Cuts, Before

\* The fields of UdpHeader.
LEMMA UdpGeometry ==
  ASSUME NEW n \in DOMAIN UdpFields
  PROVE  /\ IsField(UdpFields[n]) /\ Cuts(UdpFields[n])
         /\ \A m \in DOMAIN UdpFields :
              m # n => Before(UdpFields[n], UdpFields[m]) \/ Before(UdpFields[m], UdpFields[n])
BY DEF UdpFields, Whole, Field, IsField, Cuts, Before

\* The fields of IpHeader, all within its first five words.
LEMMA IpGeometry ==
  ASSUME NEW n \in DOMAIN IpFields
  PROVE  /\ IsField(IpFields[n]) /\ (n = "fragment_offset" \/ Cuts(IpFields[n]))
         /\ IpFields[n].at + IpFields[n].width <= 160
         /\ \A m \in DOMAIN IpFields :
              m # n => Before(IpFields[n], IpFields[m]) \/ Before(IpFields[m], IpFields[n])
BY DEF IpFields, Flags, FragmentOffset, Whole, Field, IsField, Cuts, Before

\* The words up to the data offset of TcpHeader.
LEMMA TcpWordsGeometry ==
  ASSUME NEW n \in DOMAIN TcpWords
  PROVE  /\ IsField(TcpWords[n]) /\ Cuts(TcpWords[n])
         /\ TcpWords[n].at >= 0 /\ TcpWords[n].at + TcpWords[n].width <= 100
         /\ \A m \in DOMAIN TcpWords :
              m # n => Before(TcpWords[n], TcpWords[m]) \/ Before(TcpWords[m], TcpWords[n])
BY DEF TcpWords, Whole, Field, IsField, Cuts, Before

\* The flags of TcpHeader.
LEMMA TcpFlagsGeometry ==
  ASSUME NEW n \in DOMAIN TcpFlags
  PROVE  /\ IsField(TcpFlags[n]) /\ Cuts(TcpFlags[n])
         /\ TcpFlags[n].at >= 103 /\ TcpFlags[n].at + TcpFlags[n].width <= 112
         /\ \A m \in DOMAIN TcpFlags :
              m # n => Before(TcpFlags[n], TcpFlags[m]) \/ Before(TcpFlags[m], TcpFlags[n])
BY DEF TcpFlags, Whole, Field, IsField, Cuts, Before

\* The last words of TcpHeader.
LEMMA TcpLastGeometry ==
  ASSUME NEW n \in DOMAIN TcpLast
  PROVE  /\ IsField(TcpLast[n]) /\ Cuts(TcpLast[n])
         /\ TcpLast[n].at >= 112 /\ TcpLast[n].at + TcpLast[n].width <= 160
         /\ \A m \in DOMAIN TcpLast :
              m # n => Before(TcpLast[n], TcpLast[m]) \/ Before(TcpLast[m], TcpLast[n])
BY DEF TcpLast, Whole, Field, IsField, Cuts, Before

\* Where TcpFields has its fields from.
LEMMA TcpParts ==
  /\ DOMAIN TcpFields = DOMAIN TcpWords \cup DOMAIN TcpFlags \cup DOMAIN TcpLast
  /\ \A n \in DOMAIN TcpWords : TcpFields[n] = TcpWords[n]
  /\ \A n \in DOMAIN TcpFlags : TcpFields[n] = TcpFlags[n]
  /\ \A n \in DOMAIN TcpLast : TcpFields[n] = TcpLast[n]
<1>1. /\ DOMAIN TcpWords \cap DOMAIN TcpFlags = {}
      /\ DOMAIN TcpWords \cap DOMAIN TcpLast = {}
      /\ DOMAIN TcpFlags \cap DOMAIN TcpLast = {}
  BY DEF TcpWords, TcpFlags, TcpLast
<1> QED
  BY <1>1, Zenon DEF TcpFields

\* The fields of TcpHeader.
LEMMA TcpGeometry ==
  ASSUME NEW n \in DOMAIN TcpFields
  PROVE  /\ IsField(TcpFields[n]) /\ Cuts(TcpFields[n])
         /\ \A m \in DOMAIN TcpFields :
              m # n => Before(TcpFields[n], TcpFields[m]) \/ Before(TcpFields[m], TcpFields[n])
<1>1. ASSUME NEW f, IsField(f), NEW g, IsField(g), NEW e \in Nat,
             f.at + f.width <= e, g.at >= e
      PROVE  Before(f, g)
  BY <1>1 DEF Before, IsField
<1>2. \A m \in DOMAIN TcpWords : IsField(TcpWords[m]) /\ TcpWords[m].at + TcpWords[m].width <= 103
  BY TcpWordsGeometry DEF IsField
<1>3. \A m \in DOMAIN TcpWords : IsField(TcpWords[m]) /\ TcpWords[m].at + TcpWords[m].width <= 112
  BY TcpWordsGeometry DEF IsField
<1>4. \A m \in DOMAIN TcpFlags : /\ IsField(TcpFlags[m]) /\ TcpFlags[m].at >= 103
                                 /\ TcpFlags[m].at + TcpFlags[m].width <= 112
  BY TcpFlagsGeometry, Zenon
<1>5. \A m \in DOMAIN TcpLast : IsField(TcpLast[m]) /\ TcpLast[m].at >= 112
  BY TcpLastGeometry, Zenon
<1>6. 103 \in Nat /\ 112 \in Nat
  OBVIOUS
<1>7. \A m \in DOMAIN TcpWords, l \in DOMAIN TcpFlags : Before(TcpWords[m], TcpFlags[l])
  BY <1>1, <1>2, <1>4, <1>6, ZenonT(60)
<1>8. \A m \in DOMAIN TcpWords, l \in DOMAIN TcpLast : Before(TcpWords[m], TcpLast[l])
  BY <1>1, <1>3, <1>5, <1>6, Zenon
<1>9. \A m \in DOMAIN TcpFlags, l \in DOMAIN TcpLast : Before(TcpFlags[m], TcpLast[l])
  BY <1>1, <1>4, <1>5, <1>6, Zenon
<1>10. CASE n \in DOMAIN TcpWords
  BY <1>7, <1>8, <1>10, TcpWordsGeometry, TcpParts, Zenon
<1>11. CASE n \in DOMAIN TcpFlags
  BY <1>7, <1>9, <1>11, TcpFlagsGeometry, TcpParts, ZenonT(60)
<1>12. CASE n \in DOMAIN TcpLast
  BY <1>8, <1>9, <1>12, TcpLastGeometry, TcpParts, ZenonT(60)
<1> QED
  BY <1>10, <1>11, <1>12, TcpParts, Zenon

\* The names of the fields, and that none is called as a port is.
LEMMA KindNames ==
  ASSUME NEW k \in Kinds
  PROVE  /\ "port0" \notin DOMAIN FieldsOf[k] /\ "port1" \notin DOMAIN FieldsOf[k]
         /\ FieldsOf["mac"] = MacFields /\ FieldsOf["ip"] = IpFields
         /\ FieldsOf["tcp"] = TcpFields /\ FieldsOf["udp"] = UdpFields
<1>1. /\ FieldsOf["mac"] = MacFields /\ FieldsOf["ip"] = IpFields
      /\ FieldsOf["tcp"] = TcpFields /\ FieldsOf["udp"] = UdpFields
  BY DEF FieldsOf
<1>2. \A x \in {"port0", "port1"} : x \notin DOMAIN MacFields /\ x \notin DOMAIN UdpFields
  BY DEF MacFields, UdpFields
<1>3. \A x \in {"port0", "port1"} : x \notin DOMAIN IpFields
  BY DEF IpFields
<1>4. \A x \in {"port0", "port1"} : /\ x \notin DOMAIN TcpWords /\ x \notin DOMAIN TcpFlags
                                    /\ x \notin DOMAIN TcpLast
  BY DEF TcpWords, TcpFlags, TcpLast
<1> QED
  BY <1>1, <1>2, <1>3, <1>4, TcpParts, Zenon DEF Kinds

\* The fields of a header of any kind.
LEMMA KindGeometry ==
  ASSUME NEW k \in Kinds, NEW n \in DOMAIN FieldsOf[k]
  PROVE  /\ IsField(FieldsOf[k][n])
         /\ (k = "ip" /\ n = "fragment_offset") \/ Cuts(FieldsOf[k][n])
         /\ \A m \in DOMAIN FieldsOf[k] :
              m # n => Before(FieldsOf[k][n], FieldsOf[k][m]) \/ Before(FieldsOf[k][m], FieldsOf[k][n])
<1>1. CASE k = "mac"
  BY <1>1, KindNames, MacGeometry, Zenon
<1>2. CASE k = "ip"
  BY <1>2, KindNames, IpGeometry, ZenonT(60)
<1>3. CASE k = "tcp"
  BY <1>3, KindNames, TcpGeometry, Zenon
<1>4. CASE k = "udp"
  BY <1>4, KindNames, UdpGeometry, Zenon
<1> QED
  BY <1>1, <1>2, <1>3, <1>4, Zenon DEF Kinds

\* The ports of a well-formed IP header are fields behind those of the header.
LEMMA PortGeometry ==
  ASSUME NEW h, WellFormed(h)
  PROVE  /\ IsField(FlowPort(h, 0)) /\ IsField(FlowPort(h, 1))
         /\ FlowPort(h, 0).width = 16 /\ FlowPort(h, 0).keeps = 16
         /\ FlowPort(h, 1).width = 16 /\ FlowPort(h, 1).keeps = 16
         /\ Before(FlowPort(h, 0), FlowPort(h, 1))
         /\ \A n \in DOMAIN IpFields : /\ Before(IpFields[n], FlowPort(h, 0))
                                       /\ Before(IpFields[n], FlowPort(h, 1))
<1> DEFINE N == Number(Get(h, IpFields.ihl))
<1>1. N \in 5 .. 15
  BY Zenon DEF WellFormed
<1>2. port_start(h) = 4 * N
  BY Zenon DEF port_start
<1> HIDE DEF N
<1>3. port_start(h) \in Nat /\ port_start(h) >= 20
  BY <1>1, <1>2
<1>4. /\ FlowPort(h, 0).at \in Nat /\ FlowPort(h, 0).at >= 160
      /\ FlowPort(h, 1).at = FlowPort(h, 0).at + 16
      /\ FlowPort(h, 0).width = 16 /\ FlowPort(h, 0).keeps = 16
      /\ FlowPort(h, 1).width = 16 /\ FlowPort(h, 1).keeps = 16
  BY <1>3 DEF FlowPort, PortAt, Whole, Field
<1>5. ASSUME NEW n \in DOMAIN IpFields
      PROVE  IsField(IpFields[n]) /\ IpFields[n].at + IpFields[n].width <= 160
  BY IpGeometry, Zenon
<1> QED
  BY <1>4, <1>5 DEF IsField, Before

\* The fields of a header, with the ports behind it, do not overlap.
LEMMA Geometry ==
  ASSUME NEW k \in Kinds, NEW h, NEW n \in FieldNames(k, h)
  PROVE  /\ IsField(FieldAt(k, h, n))
         /\ \A m \in FieldNames(k, h) : m # n => Apart(FieldAt(k, h, n), FieldAt(k, h, m))
<1>1. \A m \in DOMAIN FieldsOf[k] : FieldAt(k, h, m) = FieldsOf[k][m]
  BY KindNames, Zenon DEF FieldAt
<1>2. FieldAt(k, h, "port0") = FlowPort(h, 0) /\ FieldAt(k, h, "port1") = FlowPort(h, 1)
  BY DEF FieldAt
<1>3. "port0" # "port1"
  OBVIOUS
<1>4. \A m \in FieldNames(k, h) :
        m \in DOMAIN FieldsOf[k] \/ (k = "ip" /\ WellFormed(h) /\ m \in {"port0", "port1"})
  BY Zenon DEF FieldNames
<1>5. \A m \in FieldNames(k, h) : IsField(FieldAt(k, h, m))
  BY <1>1, <1>2, <1>4, KindGeometry, PortGeometry, ZenonT(60)
<1>6. ASSUME NEW l \in DOMAIN FieldsOf[k],
             NEW m \in FieldNames(k, h), m \notin DOMAIN FieldsOf[k]
      PROVE  Before(FieldAt(k, h, l), FieldAt(k, h, m))
  <2>1. k = "ip" /\ WellFormed(h) /\ m \in {"port0", "port1"}
    BY <1>4, <1>6, Zenon
  <2>2. FieldsOf[k] = IpFields
    BY <2>1, KindNames, Zenon
  <2>3. Before(IpFields[l], FlowPort(h, 0)) /\ Before(IpFields[l], FlowPort(h, 1))
    BY <1>6, <2>1, <2>2, PortGeometry, Zenon
  <2>4. FieldAt(k, h, l) = IpFields[l]
    BY <1>1, <2>2, Zenon
  <2> QED
    BY <1>2, <2>1, <2>3, <2>4, Zenon
<1>7. ASSUME NEW m \in FieldNames(k, h), m # n
      PROVE  \/ Before(FieldAt(k, h, n), FieldAt(k, h, m))
             \/ Before(FieldAt(k, h, m), FieldAt(k, h, n))
  <2>1. CASE m \in DOMAIN FieldsOf[k] /\ n \in DOMAIN FieldsOf[k]
    BY <1>1, <1>7, <2>1, KindGeometry, Zenon
  <2>2. CASE m \in DOMAIN FieldsOf[k] /\ n \notin DOMAIN FieldsOf[k]
    BY <1>6, <2>2, Zenon
  <2>3. CASE m \notin DOMAIN FieldsOf[k] /\ n \in DOMAIN FieldsOf[k]
    BY <1>6, <2>3, Zenon
  <2>4. CASE m \notin DOMAIN FieldsOf[k] /\ n \notin DOMAIN FieldsOf[k]
    BY <1>2, <1>4, <1>7, <2>4, PortGeometry, Zenon
  <2> QED
    BY <2>1, <2>2, <2>3, <2>4, Zenon
<1> QED
  BY <1>5, <1>7, BeforeApart, Zenon

-----------------------------------------------------------------------------
(* One write *)

\* The ihl alone says where the ports are.
LEMMA SameIhl ==
  ASSUME NEW k \in Kinds, NEW g, NEW h,
         k = "ip" => Get(g, IpFields.ihl) = Get(h, IpFields.ihl)
  PROVE  /\ FieldNames(k, g) = FieldNames(k, h)
         /\ \A n \in FieldNames(k, h) : FieldAt(k, g, n) = FieldAt(k, h, n)
         /\ k = "ip" => /\ WellFormed(g) <=> WellFormed(h)
                        /\ FlowPort(g, 0) = FlowPort(h, 0) /\ FlowPort(g, 1) = FlowPort(h, 1)
<1>1. CASE k = "ip"
  <2>1. Get(g, IpFields.ihl) = Get(h, IpFields.ihl)
    BY <1>1
  <2>2. (WellFormed(g) <=> WellFormed(h)) /\ port_start(g) = port_start(h)
    BY <2>1, Zenon DEF WellFormed, port_start
  <2>3. FlowPort(g, 0) = FlowPort(h, 0) /\ FlowPort(g, 1) = FlowPort(h, 1)
    BY <2>2, Zenon DEF FlowPort
  <2>4. FieldNames(k, g) = FieldNames(k, h)
    BY <2>2, Zenon DEF FieldNames
  <2>5. \A n : FieldAt(k, g, n) = FieldAt(k, h, n)
    BY <2>3, Zenon DEF FieldAt
  <2> QED
    BY <2>2, <2>3, <2>4, <2>5, Zenon
<1>2. CASE k # "ip"
  <2>1. FieldNames(k, g) = DOMAIN FieldsOf[k] /\ FieldNames(k, h) = DOMAIN FieldsOf[k]
    BY <1>2, Zenon DEF FieldNames
  <2>2. \A n \in DOMAIN FieldsOf[k] : FieldAt(k, g, n) = FieldAt(k, h, n)
    BY KindNames, Zenon DEF FieldAt
  <2> QED
    BY <1>2, <2>1, <2>2, Zenon
<1> QED
  BY <1>1, <1>2, Zenon

\* ihl is a field of the IP header, and where it is.
LEMMA IhlField ==
  ASSUME NEW h
  PROVE  "ihl" \in FieldNames("ip", h) /\ FieldAt("ip", h, "ihl") = IpFields.ihl
<1>1. "ihl" \in DOMAIN IpFields
  BY DEF IpFields
<1>2. "ip" \in Kinds
  BY Zenon DEF Kinds
<1>3. "ihl" \in DOMAIN FieldsOf["ip"] /\ FieldsOf["ip"] = IpFields
  BY <1>1, <1>2, KindNames, Zenon
<1> QED
  BY <1>2, <1>3, KindNames, Zenon DEF FieldNames, FieldAt

\* The fields of g are those of h, but for w in field n.
Changed(k, g, h, n, w) ==
  /\ FieldValues(k, g) = [FieldValues(k, h) EXCEPT ![n] = w]
  /\ k = "ip" => Get(g, IpFields.ihl) = Get(h, IpFields.ihl)

\* A write to a field other than the ihl changes the value of that field alone,
\* and moves none.
LEMMA WriteOne ==
  ASSUME NEW k \in Kinds, NEW h, NEW n \in FieldNames(k, h), k # "ip" \/ n # "ihl",
         NEW v, Fits(FieldAt(k, h, n), v)
  PROVE  Changed(k, Set(h, FieldAt(k, h, n), v), h, n, v \cap Ones(FieldAt(k, h, n).keeps))
<1> DEFINE f == FieldAt(k, h, n)
           g == Set(h, f, v)
<1>1. IsField(f) /\ Fits(f, v)
  BY Geometry, Zenon
<1>2. \A m \in FieldNames(k, h) :
        m # n => IsField(FieldAt(k, h, m)) /\ Apart(f, FieldAt(k, h, m))
  BY Geometry, Zenon
<1> HIDE DEF f
<1>3. \A m \in FieldNames(k, h) : m # n => Get(g, FieldAt(k, h, m)) = Get(h, FieldAt(k, h, m))
  BY <1>1, <1>2, GetOther, ZenonT(60)
<1>4. k = "ip" => Get(g, IpFields.ihl) = Get(h, IpFields.ihl)
  BY <1>3, IhlField, Zenon
<1>5. /\ FieldNames(k, g) = FieldNames(k, h)
      /\ \A m \in FieldNames(k, h) : FieldAt(k, g, m) = FieldAt(k, h, m)
  BY <1>4, SameIhl, Zenon
<1>6. Get(g, f) = v \cap Ones(f.keeps)
  BY <1>1, GetSame, Zenon
<1>7. FieldAt(k, h, n) = f
  BY Zenon DEF f
<1> HIDE DEF g
<1>8. FieldValues(k, g) = [m \in FieldNames(k, h) |->
                             IF m = n THEN v \cap Ones(f.keeps) ELSE Get(h, FieldAt(k, h, m))]
  BY <1>3, <1>5, <1>6, <1>7, Zenon DEF FieldValues
<1>9. [FieldValues(k, h) EXCEPT ![n] = v \cap Ones(f.keeps)] =
        [m \in FieldNames(k, h) |->
           IF m = n THEN v \cap Ones(f.keeps) ELSE Get(h, FieldAt(k, h, m))]
  BY Zenon DEF FieldValues
<1> QED
  BY <1>4, <1>7, <1>8, <1>9, Zenon DEF f, g, Changed

-----------------------------------------------------------------------------
(* Stamping a flow *)

FlowFits(fl) ==
  /\ fl.src_ip \subseteq Ones(32) /\ fl.dst_ip \subseteq Ones(32)
  /\ fl.src_port \subseteq Ones(16) /\ fl.dst_port \subseteq Ones(16)

\* The fields a stamp writes.
Stamped == {"src", "dst", "csum", "port0", "port1"}
WidthOf(n) == IF n \in {"src", "dst"} THEN 32 ELSE 16

\* Where the fields are that a stamp writes.
LEMMA StampedFields ==
  ASSUME NEW h, WellFormed(h)
  PROVE  /\ Stamped \subseteq FieldNames("ip", h)
         /\ FieldAt("ip", h, "src") = IpFields.src /\ FieldAt("ip", h, "dst") = IpFields.dst
         /\ FieldAt("ip", h, "csum") = IpFields.csum
         /\ FieldAt("ip", h, "port0") = FlowPort(h, 0)
         /\ FieldAt("ip", h, "port1") = FlowPort(h, 1)
         /\ \A n \in Stamped : /\ FieldAt("ip", h, n).width = WidthOf(n)
                               /\ FieldAt("ip", h, n).keeps = WidthOf(n)
<1>1. "ip" \in Kinds
  BY Zenon DEF Kinds
<1>2. FieldsOf["ip"] = IpFields
  BY <1>1, KindNames, Zenon
<1>3. /\ "src" \in DOMAIN IpFields /\ "dst" \in DOMAIN IpFields /\ "csum" \in DOMAIN IpFields
      /\ IpFields.src.width = 32 /\ IpFields.src.keeps = 32
      /\ IpFields.dst.width = 32 /\ IpFields.dst.keeps = 32
      /\ IpFields.csum.width = 16 /\ IpFields.csum.keeps = 16
  BY DEF IpFields, Whole, Field
<1>4. /\ FieldAt("ip", h, "src") = IpFields.src /\ FieldAt("ip", h, "dst") = IpFields.dst
      /\ FieldAt("ip", h, "csum") = IpFields.csum
  BY <1>2 DEF FieldAt
<1>5. FieldAt("ip", h, "port0") = FlowPort(h, 0) /\ FieldAt("ip", h, "port1") = FlowPort(h, 1)
  BY DEF FieldAt
<1>6. Stamped \subseteq FieldNames("ip", h)
  BY <1>2, <1>3, Zenon DEF Stamped, FieldNames
<1>7. /\ WidthOf("src") = 32 /\ WidthOf("dst") = 32 /\ WidthOf("csum") = 16
      /\ WidthOf("port0") = 16 /\ WidthOf("port1") = 16
  BY DEF WidthOf
<1>8. \A n \in Stamped : /\ FieldAt("ip", h, n).width = WidthOf(n)
                         /\ FieldAt("ip", h, n).keeps = WidthOf(n)
  <2>1. /\ FieldAt("ip", h, "port0").width = 16 /\ FieldAt("ip", h, "port0").keeps = 16
        /\ FieldAt("ip", h, "port1").width = 16 /\ FieldAt("ip", h, "port1").keeps = 16
    BY <1>5, PortGeometry, Zenon
  <2>2. /\ FieldAt("ip", h, "src").width = 32 /\ FieldAt("ip", h, "src").keeps = 32
        /\ FieldAt("ip", h, "dst").width = 32 /\ FieldAt("ip", h, "dst").keeps = 32
        /\ FieldAt("ip", h, "csum").width = 16 /\ FieldAt("ip", h, "csum").keeps = 16
    BY <1>3, <1>4, Zenon
  <2>3. ASSUME NEW n \in Stamped
        PROVE  FieldAt("ip", h, n).width = WidthOf(n) /\ FieldAt("ip", h, n).keeps = WidthOf(n)
    <3>1. CASE n = "src"
      BY <1>7, <2>2, <3>1, Zenon
    <3>2. CASE n = "dst"
      BY <1>7, <2>2, <3>2, Zenon
    <3>3. CASE n = "csum"
      BY <1>7, <2>2, <3>3, Zenon
    <3>4. CASE n = "port0"
      BY <1>7, <2>1, <3>4, Zenon
    <3>5. CASE n = "port1"
      BY <1>7, <2>1, <3>5, Zenon
    <3> QED
      BY <3>1, <3>2, <3>3, <3>4, <3>5, Zenon DEF Stamped
  <2> QED
    BY <2>3, Zenon
<1> QED
  BY <1>4, <1>5, <1>6, <1>8, Zenon

\* g is h with v written to field n.
Wrote(g, h, n, v) ==
  /\ FieldValues("ip", g) = [FieldValues("ip", h) EXCEPT ![n] = v]
  /\ \A x : x \notin Span(FieldAt("ip", h, n)) => (x \in g <=> x \in h)
  /\ WellFormed(g) /\ FieldNames("ip", g) = FieldNames("ip", h)
  /\ \A m \in FieldNames("ip", h) : FieldAt("ip", g, m) = FieldAt("ip", h, m)

\* One of the writes of a stamp.
LEMMA StampedWrite ==
  ASSUME NEW h, WellFormed(h), NEW n \in Stamped, NEW v, v \subseteq Ones(WidthOf(n))
  PROVE  Wrote(Set(h, FieldAt("ip", h, n), v), h, n, v)
<1> DEFINE f == FieldAt("ip", h, n)
           g == Set(h, f, v)
<1>1. "ip" \in Kinds /\ n \in FieldNames("ip", h) /\ f.width = WidthOf(n) /\ f.keeps = WidthOf(n)
  BY StampedFields, Zenon DEF Kinds
<1>2. n # "ihl"
  BY DEF Stamped
<1>3. Fits(f, v) /\ v \cap Ones(f.keeps) = v /\ IsField(f)
  <2>1. IsField(f)
    BY <1>1, Geometry, Zenon
  <2> QED
    BY <1>1, <2>1, Zenon DEF Fits
<1>4. /\ FieldValues("ip", g) = [FieldValues("ip", h) EXCEPT ![n] = v \cap Ones(f.keeps)]
      /\ Get(g, IpFields.ihl) = Get(h, IpFields.ihl)
  <2>1. Changed("ip", g, h, n, v \cap Ones(f.keeps))
    BY <1>1, <1>2, <1>3, WriteOne, Zenon
  <2> QED
    BY <2>1, Zenon DEF Changed
<1>5. FieldValues("ip", g) = [FieldValues("ip", h) EXCEPT ![n] = v]
  BY <1>3, <1>4, Zenon
<1>6. /\ FieldNames("ip", g) = FieldNames("ip", h) /\ WellFormed(g)
      /\ \A m \in FieldNames("ip", h) : FieldAt("ip", g, m) = FieldAt("ip", h, m)
  BY <1>1, <1>4, SameIhl, Zenon
<1>7. \A x : x \notin Span(f) => (x \in g <=> x \in h)
  BY <1>3, SetOutside, Zenon
<1> QED
  BY <1>5, <1>6, <1>7, Zenon DEF Wrote

\* g is h with a flow and a checksum stamped on it.
HasStamp(g, h, fl, sum) ==
  /\ FieldValues("ip", g) =
       [FieldValues("ip", h) EXCEPT !.src = fl.src_ip, !.dst = fl.dst_ip,
                                    !.port0 = fl.src_port, !.port1 = fl.dst_port, !.csum = sum]
  /\ \A x : (\A n \in Stamped : x \notin Span(FieldAt("ip", h, n))) => (x \in g <=> x \in h)
  /\ WellFormed(g) /\ FieldNames("ip", g) = FieldNames("ip", h)
  /\ \A m \in FieldNames("ip", h) : FieldAt("ip", g, m) = FieldAt("ip", h, m)

\* The five writes of a stamp, in the order of the code, as one.
LEMMA StampIsStamp ==
  ASSUME NEW h, WellFormed(h), NEW fl, FlowFits(fl), NEW sum, sum \subseteq Ones(16)
  PROVE  HasStamp(ipv4_stamp_flow(fl, h, sum), h, fl, sum)
<1> DEFINE a == Set(h, IpFields.src, fl.src_ip)
           b == Set(a, IpFields.dst, fl.dst_ip)
           c == Set(b, FlowPort(h, 0), fl.src_port)
           d == Set(c, FlowPort(h, 1), fl.dst_port)
           e == Set(d, IpFields.csum, sum)
<1>1. e = ipv4_stamp_flow(fl, h, sum)
  BY Zenon DEF ipv4_stamp_flow
<1>2. /\ "src" \in Stamped /\ "dst" \in Stamped /\ "csum" \in Stamped
      /\ "port0" \in Stamped /\ "port1" \in Stamped
      /\ WidthOf("src") = 32 /\ WidthOf("dst") = 32 /\ WidthOf("csum") = 16
      /\ WidthOf("port0") = 16 /\ WidthOf("port1") = 16
  BY DEF Stamped, WidthOf
<1>3. Stamped \subseteq FieldNames("ip", h)
  BY StampedFields, Zenon
<1>4. Wrote(a, h, "src", fl.src_ip)
  BY <1>2, StampedFields, StampedWrite, Zenon DEF FlowFits
<1>5. Wrote(b, a, "dst", fl.dst_ip)
  <2>1. WellFormed(a)
    BY <1>4, Zenon DEF Wrote
  <2> HIDE DEF a
  <2> QED
    BY <1>2, <2>1, StampedFields, StampedWrite, Zenon DEF FlowFits
<1>6. Wrote(c, b, "port0", fl.src_port)
  <2>1. WellFormed(b) /\ FieldAt("ip", b, "port0") = FlowPort(h, 0)
    BY <1>2, <1>3, <1>4, <1>5, StampedFields, Zenon DEF Wrote
  <2> HIDE DEF b
  <2> QED
    BY <1>2, <2>1, StampedWrite, Zenon DEF FlowFits
<1>7. Wrote(d, c, "port1", fl.dst_port)
  <2>1. WellFormed(c) /\ FieldAt("ip", c, "port1") = FlowPort(h, 1)
    BY <1>2, <1>3, <1>4, <1>5, <1>6, StampedFields, Zenon DEF Wrote
  <2> HIDE DEF c
  <2> QED
    BY <1>2, <2>1, StampedWrite, Zenon DEF FlowFits
<1>8. Wrote(e, d, "csum", sum)
  <2>1. WellFormed(d)
    BY <1>7, Zenon DEF Wrote
  <2> HIDE DEF d
  <2> QED
    BY <1>2, <2>1, StampedFields, StampedWrite, Zenon
<1> HIDE DEF a, b, c, d, e
<1>9. /\ WellFormed(e) /\ FieldNames("ip", e) = FieldNames("ip", h)
      /\ \A m \in FieldNames("ip", h) : FieldAt("ip", e, m) = FieldAt("ip", h, m)
  BY <1>4, <1>5, <1>6, <1>7, <1>8, Zenon DEF Wrote
<1>10. ASSUME NEW x, \A n \in Stamped : x \notin Span(FieldAt("ip", h, n))
       PROVE  x \in e <=> x \in h
  <2>1. \A n \in Stamped : /\ FieldAt("ip", a, n) = FieldAt("ip", h, n)
                           /\ FieldAt("ip", b, n) = FieldAt("ip", h, n)
                           /\ FieldAt("ip", c, n) = FieldAt("ip", h, n)
                           /\ FieldAt("ip", d, n) = FieldAt("ip", h, n)
    BY <1>3, <1>4, <1>5, <1>6, <1>7, Zenon DEF Wrote
  <2>2. (x \in a <=> x \in h) /\ (x \in b <=> x \in a)
    BY <1>2, <1>4, <1>5, <1>10, <2>1, Zenon DEF Wrote
  <2>3. (x \in c <=> x \in b) /\ (x \in d <=> x \in c) /\ (x \in e <=> x \in d)
    BY <1>2, <1>6, <1>7, <1>8, <1>10, <2>1, Zenon DEF Wrote
  <2> QED
    BY <2>2, <2>3, Zenon
<1>11. FieldValues("ip", e) =
         [[[[[FieldValues("ip", h) EXCEPT !["src"] = fl.src_ip] EXCEPT !["dst"] = fl.dst_ip]
               EXCEPT !["port0"] = fl.src_port] EXCEPT !["port1"] = fl.dst_port]
               EXCEPT !["csum"] = sum]
  BY <1>4, <1>5, <1>6, <1>7, <1>8, ZenonT(60) DEF Wrote
<1>12. ASSUME NEW F
       PROVE  [[[[[F EXCEPT !["src"] = fl.src_ip] EXCEPT !["dst"] = fl.dst_ip]
               EXCEPT !["port0"] = fl.src_port] EXCEPT !["port1"] = fl.dst_port]
               EXCEPT !["csum"] = sum] =
              [F EXCEPT !.src = fl.src_ip, !.dst = fl.dst_ip,
                        !.port0 = fl.src_port, !.port1 = fl.dst_port, !.csum = sum]
  BY Zenon
<1> QED
  BY <1>1, <1>9, <1>10, <1>11, <1>12, Zenon DEF HasStamp

-----------------------------------------------------------------------------
(* Flows *)

\* The flow of a packet and its reverse have values that fit into their fields.
LEMMA ExtractedFits ==
  ASSUME NEW h
  PROVE  FlowFits(ipv4_extract_flow(h)) /\ FlowFits(reverse_flow(ipv4_extract_flow(h)))
<1> DEFINE a == Get(h, IpFields.src)
           b == Get(h, IpFields.dst)
           c == Get(h, FlowPort(h, 0))
           d == Get(h, FlowPort(h, 1))
           q == Get(h, IpFields.protocol)
<1>1. /\ IpFields.src.width = 32 /\ IpFields.dst.width = 32
  BY DEF IpFields, Whole, Field
<1>2. FlowPort(h, 0).width = 16 /\ FlowPort(h, 1).width = 16
  BY DEF FlowPort, PortAt, Whole, Field
<1>3. /\ a \subseteq Ones(32) /\ b \subseteq Ones(32) /\ c \subseteq Ones(16) /\ d \subseteq Ones(16)
  BY <1>1, <1>2, Zenon DEF Get
<1>4. ipv4_extract_flow(h) = Flow(a, b, c, d, q)
  BY Zenon DEF ipv4_extract_flow
<1> HIDE DEF a, b, c, d, q
<1>5. reverse_flow(Flow(a, b, c, d, q)) = Flow(b, a, d, c, q)
  BY Zenon DEF Flow, reverse_flow
<1>6. FlowFits(Flow(a, b, c, d, q)) /\ FlowFits(Flow(b, a, d, c, q))
  BY <1>3, Zenon DEF FlowFits, Flow
<1> QED
  BY <1>4, <1>5, <1>6, Zenon

\* What ipv4_extract_flow reads from a well-formed header, by field names.
LEMMA ExtractValues ==
  ASSUME NEW h, WellFormed(h)
  PROVE  LET F == FieldValues("ip", h)
         IN  ipv4_extract_flow(h) =
               Flow(F["src"], F["dst"], F["port0"], F["port1"], F["protocol"])
<1>1. "ip" \in Kinds /\ Stamped \subseteq FieldNames("ip", h)
  BY StampedFields, Zenon DEF Kinds
<1>2. "protocol" \in FieldNames("ip", h) /\ FieldAt("ip", h, "protocol") = IpFields.protocol
  <2>1. "protocol" \in DOMAIN IpFields
    BY DEF IpFields
  <2>2. FieldsOf["ip"] = IpFields
    BY <1>1, KindNames, Zenon
  <2> QED
    BY <1>1, <2>1, <2>2, KindNames, Zenon DEF FieldNames, FieldAt
<1>3. \A n \in FieldNames("ip", h) : FieldValues("ip", h)[n] = Get(h, FieldAt("ip", h, n))
  BY Zenon DEF FieldValues
<1>4. /\ FieldValues("ip", h)["src"] = Get(h, IpFields.src)
      /\ FieldValues("ip", h)["dst"] = Get(h, IpFields.dst)
      /\ FieldValues("ip", h)["port0"] = Get(h, FlowPort(h, 0))
      /\ FieldValues("ip", h)["port1"] = Get(h, FlowPort(h, 1))
      /\ FieldValues("ip", h)["protocol"] = Get(h, IpFields.protocol)
  BY <1>1, <1>2, <1>3, StampedFields, Zenon DEF Stamped
<1> QED
  BY <1>4, Zenon DEF ipv4_extract_flow

\* The values of the fields after a stamp.
LEMMA StampedValues ==
  ASSUME NEW g, NEW h, NEW fl, NEW sum, WellFormed(h), HasStamp(g, h, fl, sum)
  PROVE  LET F == FieldValues("ip", g)
         IN  /\ F["src"] = fl.src_ip /\ F["dst"] = fl.dst_ip /\ F["csum"] = sum
             /\ F["port0"] = fl.src_port /\ F["port1"] = fl.dst_port
             /\ F["protocol"] = FieldValues("ip", h)["protocol"]
<1> DEFINE H == FieldValues("ip", h)
<1>1. Stamped \subseteq DOMAIN H
  BY StampedFields, Zenon DEF FieldValues
<1>2. FieldValues("ip", g) =
        [H EXCEPT !.src = fl.src_ip, !.dst = fl.dst_ip,
                  !.port0 = fl.src_port, !.port1 = fl.dst_port, !.csum = sum]
  BY Zenon DEF HasStamp
<1>3. "protocol" \in DOMAIN H
  <2>1. "ip" \in Kinds
    BY Zenon DEF Kinds
  <2>2. "protocol" \in DOMAIN FieldsOf["ip"]
    <3>1. "protocol" \in DOMAIN IpFields
      BY DEF IpFields
    <3> QED
      BY <2>1, <3>1, KindNames, Zenon
  <2> QED
    BY <2>2, Zenon DEF FieldNames, FieldValues
<1> HIDE DEF H
<1>4. /\ "src" \in DOMAIN H /\ "dst" \in DOMAIN H /\ "csum" \in DOMAIN H
      /\ "port0" \in DOMAIN H /\ "port1" \in DOMAIN H
  BY <1>1, Zenon DEF Stamped
<1>5. LET F == [H EXCEPT !.src = fl.src_ip, !.dst = fl.dst_ip,
                         !.port0 = fl.src_port, !.port1 = fl.dst_port, !.csum = sum]
      IN  /\ F["src"] = fl.src_ip /\ F["dst"] = fl.dst_ip /\ F["csum"] = sum
          /\ F["port0"] = fl.src_port /\ F["port1"] = fl.dst_port
          /\ F["protocol"] = H["protocol"]
  BY <1>3, <1>4
<1> QED
  BY <1>2, <1>5, Zenon DEF H

\* Stamping the reverse of a packet's flow gives it that flow, and stamping its
\* own flow again gives the packet back.
LEMMA RoundTrip ==
  ASSUME NEW h, WellFormed(h)
  PROVE  LET there == reverse_flow(ipv4_extract_flow(h))
             sum == Get(h, IpFields.csum)
             once == ipv4_stamp_flow(there, h, sum)
         IN  /\ ipv4_extract_flow(once) = there
             /\ ipv4_stamp_flow(reverse_flow(there), once, sum) = h
<1> DEFINE here == ipv4_extract_flow(h)
           there == reverse_flow(here)
           sum == Get(h, IpFields.csum)
           once == ipv4_stamp_flow(there, h, sum)
           twice == ipv4_stamp_flow(reverse_flow(there), once, sum)
           H == FieldValues("ip", h)
           G == FieldValues("ip", once)
           T == FieldValues("ip", twice)
<1>1. FlowFits(here) /\ FlowFits(there)
  BY ExtractedFits, Zenon
<1>2. here = Flow(H["src"], H["dst"], H["port0"], H["port1"], H["protocol"])
  BY ExtractValues, Zenon
<1>3. sum \subseteq Ones(16) /\ H["csum"] = sum
  <2>1. IpFields.csum.width = 16
    BY DEF IpFields, Whole, Field
  <2>2. H["csum"] = Get(h, IpFields.csum)
    BY StampedFields, Zenon DEF FieldValues, Stamped
  <2> QED
    BY <2>1, <2>2, Zenon DEF Get
<1>4. there = Flow(H["dst"], H["src"], H["port1"], H["port0"], H["protocol"])
  <2> HIDE DEF here, H
  <2> QED
    BY <1>2, Zenon DEF Flow, reverse_flow
<1>5. reverse_flow(there) = here
  <2> HIDE DEF here, there, H
  <2> QED
    BY <1>2, <1>4, Zenon DEF Flow, reverse_flow
<1>6. HasStamp(once, h, there, sum) /\ WellFormed(once)
  <2>1. HasStamp(once, h, there, sum)
    BY <1>1, <1>3, StampIsStamp, Zenon
  <2> QED
    BY <2>1, Zenon DEF HasStamp
<1>7. HasStamp(twice, once, here, sum) /\ WellFormed(twice)
  <2>1. twice = ipv4_stamp_flow(here, once, sum)
    BY <1>5, Zenon
  <2> HIDE DEF here, once, sum, twice
  <2>2. HasStamp(twice, once, here, sum)
    BY <1>1, <1>3, <1>6, <2>1, StampIsStamp, Zenon
  <2> QED
    BY <2>2, Zenon DEF HasStamp
<1> HIDE DEF here, there, sum, once, twice
<1>8. /\ G["src"] = there.src_ip /\ G["dst"] = there.dst_ip
      /\ G["port0"] = there.src_port /\ G["port1"] = there.dst_port
      /\ G["protocol"] = H["protocol"]
  BY <1>6, StampedValues, ZenonT(60)
<1>9. ipv4_extract_flow(once) = Flow(G["src"], G["dst"], G["port0"], G["port1"], G["protocol"])
  BY <1>6, ExtractValues, Zenon
<1>10. ipv4_extract_flow(once) = there
  <2> HIDE DEF G, H
  <2> QED
    BY <1>4, <1>8, <1>9, Zenon DEF Flow
<1>11. \A n \in Stamped : T[n] = H[n]
  <2>1. /\ T["src"] = here.src_ip /\ T["dst"] = here.dst_ip /\ T["csum"] = sum
        /\ T["port0"] = here.src_port /\ T["port1"] = here.dst_port
    <3>1. WellFormed(once) /\ HasStamp(twice, once, here, sum)
      BY <1>6, <1>7, Zenon
    <3> QED
      BY <3>1, StampedValues, ZenonT(60)
  <2> HIDE DEF T, H
  <2>2. /\ here.src_ip = H["src"] /\ here.dst_ip = H["dst"]
        /\ here.src_port = H["port0"] /\ here.dst_port = H["port1"]
    BY <1>2, Zenon DEF Flow
  <2> QED
    BY <1>3, <2>1, <2>2, Zenon DEF Stamped
<1>12. \A n \in Stamped : /\ n \in FieldNames("ip", h) /\ n \in FieldNames("ip", twice)
                          /\ FieldAt("ip", once, n) = FieldAt("ip", h, n)
                          /\ FieldAt("ip", twice, n) = FieldAt("ip", h, n)
  BY <1>6, <1>7, StampedFields, Zenon DEF HasStamp
<1>13. \A n \in Stamped : /\ IsField(FieldAt("ip", h, n))
                          /\ Get(twice, FieldAt("ip", h, n)) = Get(h, FieldAt("ip", h, n))
  <2>1. "ip" \in Kinds
    BY Zenon DEF Kinds
  <2>2. \A n \in Stamped : IsField(FieldAt("ip", h, n))
    BY <1>12, <2>1, Geometry, Zenon
  <2>3. \A n \in Stamped : /\ T[n] = Get(twice, FieldAt("ip", h, n))
                           /\ H[n] = Get(h, FieldAt("ip", h, n))
    BY <1>12, Zenon DEF FieldValues
  <2> HIDE DEF T, H
  <2> QED
    BY <1>11, <2>2, <2>3, Zenon
<1>14. ASSUME NEW x PROVE x \in twice <=> x \in h
  <2>1. CASE \E n \in Stamped : x \in Span(FieldAt("ip", h, n))
    BY <1>13, <2>1, SameValueSameBits, Zenon
  <2>2. CASE \A n \in Stamped : x \notin Span(FieldAt("ip", h, n))
    <3>1. x \in once <=> x \in h
      BY <1>6, <2>2, Zenon DEF HasStamp
    <3>2. x \in twice <=> x \in once
      BY <1>7, <1>12, <2>2, Zenon DEF HasStamp
    <3> QED
      BY <3>1, <3>2, Zenon
  <2> QED
    BY <2>1, <2>2, Zenon
<1>15. twice = h
  BY <1>14, Zenon
<1> QED
  BY <1>10, <1>15, Zenon DEF here, there, sum, once, twice

-----------------------------------------------------------------------------
(* The calls *)

\* What the fields should hold is what they hold.
FieldsIInv == kind \in Kinds /\ fields = FieldValues(kind, bits)

\* The field of a setter, and that it cuts its argument.
LEMMA Setter ==
  ASSUME NEW k \in Kinds, NEW h, NEW n \in DOMAIN FieldsOf[k], NEW v
  PROVE  LET f == FieldsOf[k][n]
         IN  /\ n \in FieldNames(k, h) /\ FieldAt(k, h, n) = f /\ IsField(f)
             /\ ~(k = "ip" /\ n = "fragment_offset") =>
                  Fits(f, v) /\ v \cap Ones(f.keeps) = v \cap Ones(f.width)
<1> DEFINE f == FieldsOf[k][n]
<1>1. n \in FieldNames(k, h)
  BY Zenon DEF FieldNames
<1>2. FieldAt(k, h, n) = f
  BY KindNames, Zenon DEF FieldAt
<1>3. IsField(f) /\ ((k = "ip" /\ n = "fragment_offset") \/ Cuts(f))
  BY KindGeometry, Zenon
<1> HIDE DEF f
<1>4. ASSUME f.keeps = f.width
      PROVE  Fits(f, v) /\ v \cap Ones(f.keeps) = v \cap Ones(f.width)
  BY <1>4, Zenon DEF Fits
<1> QED
  BY <1>1, <1>2, <1>3, <1>4, Zenon DEF f, Cuts

\* The places of the bits of a value, by subtraction.
LEMMA PlaceBits ==
  ASSUME NEW f, NEW c \in Int, f.at + f.width - 1 = c, f.at \in Int, f.width \in Int,
         NEW v \in SUBSET Int
  PROVE  \A x : x \in Place(f, v) <=> x \in Int /\ c - x \in v
<1>1. Place(f, v) = {c - i : i \in v}
  BY DEF Place
<1> QED
  BY <1>1

\* set_fragment_offset writes the low bits of its argument to the fragment offset
\* and ors the others into the flags.
LEMMA FragmentOffsetSpills ==
  ASSUME NEW h, NEW v \in SUBSET Int
  PROVE  LET once == Set(h, FragmentOffset, v \cap Ones(13))
         IN  Set(h, FragmentOffset, v) = Set(once, Flags, Get(once, Flags) \cup Spilled(v))
<1> DEFINE fo == FragmentOffset
           once == Set(h, fo, v \cap Ones(13))
           w == Get(once, Flags) \cup Spilled(v)
<1>1. /\ fo.at = 51 /\ fo.width = 13 /\ fo.keeps = 16
      /\ Flags.at = 48 /\ Flags.width = 3 /\ Flags.keeps = 3
  BY DEF FragmentOffset, Flags, Field
<1>2. ASSUME NEW u \in SUBSET Int
      PROVE  /\ \A x : x \in Place(fo, u) <=> x \in Int /\ 63 - x \in u
             /\ \A x : x \in Place(Flags, u) <=> x \in Int /\ 50 - x \in u
  BY <1>1, PlaceBits
<1>3. \A i : i \in Get(once, Flags) <=> i \in 0 .. 2 /\ 50 - i \in once
  BY <1>1 DEF Get, Ones
<1> HIDE DEF fo
<1>4. \A x : x \in once <=> \/ x \in h /\ ~(x \in Int /\ 63 - x \in 0 .. 12)
                            \/ x \in Int /\ 63 - x \in v \cap 0 .. 12
  <2>1. \A x : x \in Place(fo, Ones(13)) <=> x \in Int /\ 63 - x \in 0 .. 12
    BY <1>2 DEF Ones
  <2>2. \A x : x \in Place(fo, (v \cap Ones(13)) \cap Ones(16)) <=>
                 x \in Int /\ 63 - x \in v \cap 0 .. 12
    BY <1>2 DEF Ones
  <2> QED
    BY <1>1, <2>1, <2>2, Zenon DEF Set
<1> HIDE DEF once
<1>5. \A x : x \in Set(h, fo, v) <=> \/ x \in h /\ ~(x \in Int /\ 63 - x \in 0 .. 12)
                                     \/ x \in Int /\ 63 - x \in v \cap 0 .. 15
  <2>1. \A x : x \in Place(fo, Ones(13)) <=> x \in Int /\ 63 - x \in 0 .. 12
    BY <1>2 DEF Ones
  <2>2. \A x : x \in Place(fo, v \cap Ones(16)) <=> x \in Int /\ 63 - x \in v \cap 0 .. 15
    BY <1>2 DEF Ones
  <2> QED
    BY <1>1, <2>1, <2>2, Zenon DEF Set
<1>6. \A i : i \in Spilled(v) <=> i \in 0 .. 2 /\ i + 13 \in v
  BY DEF Spilled
<1> HIDE DEF w
<1>7. \A i : i \in w <=> i \in 0 .. 2 /\ (50 - i \in once \/ i + 13 \in v)
  BY <1>3, <1>6, Zenon DEF w
<1>8. \A x : x \in Set(once, Flags, w) <=> \/ x \in once /\ ~(x \in Int /\ 50 - x \in 0 .. 2)
                                           \/ x \in Int /\ 50 - x \in w
  <2>1. \A x : x \in Place(Flags, Ones(3)) <=> x \in Int /\ 50 - x \in 0 .. 2
    BY <1>2 DEF Ones
  <2>2. w \in SUBSET Int /\ w \cap Ones(3) = w
    BY <1>7 DEF Ones
  <2>3. \A x : x \in Place(Flags, w) <=> x \in Int /\ 50 - x \in w
    BY <1>2, <2>2
  <2> QED
    BY <1>1, <2>1, <2>2, <2>3, Zenon DEF Set
<1>9. \A x : x \in Set(h, fo, v) <=> x \in Set(once, Flags, w)
  <2> SUFFICES ASSUME NEW x PROVE x \in Set(h, fo, v) <=> x \in Set(once, Flags, w)
    OBVIOUS
  <2>1. CASE x \notin Int
    BY <1>4, <1>5, <1>8, <2>1, Zenon
  <2>2. CASE x \in 48 .. 50
    <3>1. /\ x \in Int /\ 50 - x \in 0 .. 2 /\ 50 - (50 - x) = x /\ (50 - x) + 13 = 63 - x
          /\ 63 - x \notin 0 .. 12 /\ 63 - x \in 0 .. 15
      BY <2>2
    <3>2. 50 - x \in w <=> x \in once \/ 63 - x \in v
      BY <1>7, <3>1
    <3> QED
      BY <1>4, <1>5, <1>8, <3>1, <3>2, Zenon
  <2>3. CASE x \in Int /\ x \notin 48 .. 50
    <3>1. 50 - x \notin 0 .. 2 /\ (63 - x \in 0 .. 15 <=> 63 - x \in 0 .. 12)
      BY <2>3
    <3> QED
      BY <1>4, <1>5, <1>7, <1>8, <2>3, <3>1, Zenon
  <2> QED
    BY <2>1, <2>2, <2>3
<1>10. Set(h, fo, v) = Set(once, Flags, w)
  BY <1>9, Zenon
<1> QED
  BY <1>10, Zenon DEF fo, once, w

\* What set_fragment_offset leaves in the fields.
LEMMA FragmentOffsetValues ==
  ASSUME NEW h, NEW v \in SUBSET Int
  PROVE  FieldValues("ip", Set(h, FragmentOffset, v)) =
           [[FieldValues("ip", h) EXCEPT !["fragment_offset"] = v \cap Ones(13)]
              EXCEPT !["flags"] = FieldValues("ip", h)["flags"] \cup Spilled(v)]
<1> DEFINE F == FieldValues("ip", h)
           low == v \cap Ones(13)
           once == Set(h, FragmentOffset, low)
           w == Get(once, Flags) \cup Spilled(v)
           twice == Set(once, Flags, w)
<1>1. "ip" \in Kinds /\ FieldsOf["ip"] = IpFields
  BY KindNames, Zenon DEF Kinds
<1>2. /\ "fragment_offset" \in DOMAIN IpFields /\ IpFields.fragment_offset = FragmentOffset
      /\ "flags" \in DOMAIN IpFields /\ IpFields.flags = Flags
      /\ "fragment_offset" # "flags" /\ "fragment_offset" # "ihl" /\ "flags" # "ihl"
  BY DEF IpFields
<1>3. ASSUME NEW g
      PROVE  /\ "fragment_offset" \in FieldNames("ip", g)
             /\ FieldAt("ip", g, "fragment_offset") = FragmentOffset
             /\ "flags" \in FieldNames("ip", g) /\ FieldAt("ip", g, "flags") = Flags
  BY <1>1, <1>2, KindNames, Zenon DEF FieldNames, FieldAt
<1>4. /\ FragmentOffset.width = 13 /\ FragmentOffset.keeps = 16
      /\ Flags.width = 3 /\ Flags.keeps = 3
  BY DEF FragmentOffset, Flags, Field
<1>5. low \cap Ones(16) = low
  BY DEF Ones
<1>6. Spilled(v) \subseteq Ones(3)
  BY DEF Spilled, Ones
<1>7. w \cap Ones(3) = w
  BY <1>4, <1>6, Zenon DEF Get
<1>8. Fits(FragmentOffset, low) /\ Fits(Flags, w)
  BY <1>4, <1>5, <1>7, Zenon DEF Fits
<1>9. Get(once, Flags) = FieldValues("ip", once)["flags"]
  BY <1>3, Zenon DEF FieldValues
<1>10. Set(h, FragmentOffset, v) = twice
  BY FragmentOffsetSpills, Zenon
<1>11. F = [n \in FieldNames("ip", h) |-> F[n]] /\ "flags" \in FieldNames("ip", h)
  BY <1>3, Zenon DEF FieldValues
<1> HIDE DEF low, w
<1>12. FieldValues("ip", once) = [F EXCEPT !["fragment_offset"] = low]
  <2>1. Changed("ip", Set(h, FieldAt("ip", h, "fragment_offset"), low), h, "fragment_offset",
                low \cap Ones(FieldAt("ip", h, "fragment_offset").keeps))
    BY <1>1, <1>2, <1>3, <1>8, WriteOne, Zenon
  <2> QED
    BY <1>3, <1>4, <1>5, <2>1, Zenon DEF Changed
<1> HIDE DEF once
<1>13. FieldValues("ip", twice) = [FieldValues("ip", once) EXCEPT !["flags"] = w]
  <2>1. Changed("ip", Set(once, FieldAt("ip", once, "flags"), w), once, "flags",
                w \cap Ones(FieldAt("ip", once, "flags").keeps))
    BY <1>1, <1>2, <1>3, <1>8, WriteOne, Zenon
  <2> QED
    BY <1>3, <1>4, <1>7, <2>1, Zenon DEF Changed
<1> HIDE DEF twice, F
<1>14. FieldValues("ip", once)["flags"] = F["flags"]
  BY <1>2, <1>12, <1>11, Zenon
<1>15. w = F["flags"] \cup Spilled(v)
  BY <1>9, <1>14, Zenon DEF w
<1>16. FieldValues("ip", twice) = [[F EXCEPT !["fragment_offset"] = low] EXCEPT !["flags"] = w]
  BY <1>12, <1>13, Zenon
<1> QED
  BY <1>10, <1>15, <1>16, Zenon DEF F, low

\* A setter changes its field alone; that of the ihl moves the ports, and that of
\* the fragment offset turns on flags.
LEMMA SetFieldStep ==
  ASSUME FieldsIInv, NEW n \in DOMAIN FieldsOf[kind], NEW v \in Arguments(FieldsOf[kind][n]),
         SetField(n, v)
  PROVE  FieldsIInv'
<1> DEFINE f == FieldsOf[kind][n]
<1>1. kind \in Kinds /\ fields = FieldValues(kind, bits) /\ kind' = kind
  BY Zenon DEF FieldsIInv, SetField
<1>2. /\ n \in FieldNames(kind, bits) /\ FieldAt(kind, bits, n) = f /\ IsField(f)
      /\ ~(kind = "ip" /\ n = "fragment_offset") =>
           Fits(f, v) /\ v \cap Ones(f.keeps) = v \cap Ones(f.width)
  BY <1>1, Setter, ZenonT(60)
<1>3. bits' = Set(bits, f, v)
  BY Zenon DEF SetField
<1>4. CASE kind = "ip" /\ n = "ihl"
  <2> DEFINE F == FieldValues(kind, bits')
  <2>1. fields' = [F EXCEPT !.ihl = v \cap Ones(4)]
    BY <1>4, Zenon DEF SetField
  <2>2. f = IpFields.ihl
    BY <1>1, <1>4, KindNames, Zenon
  <2>3. IpFields.ihl.width = 4 /\ n # "fragment_offset"
    BY <1>4 DEF IpFields, Field
  <2>4. Get(bits', IpFields.ihl) = v \cap Ones(4)
    <3>1. IsField(f) /\ Fits(f, v) /\ v \cap Ones(f.keeps) = v \cap Ones(f.width)
      BY <1>2, <2>3, Zenon
    <3>2. Get(Set(bits, f, v), f) = v \cap Ones(f.keeps)
      BY <3>1, GetSame, Zenon
    <3> HIDE DEF f
    <3> QED
      BY <1>3, <2>2, <2>3, <3>1, <3>2, Zenon
  <2>5. "ihl" \in FieldNames("ip", bits') /\ FieldAt("ip", bits', "ihl") = IpFields.ihl
    BY IhlField, Zenon
  <2>6. F = [m \in FieldNames(kind, bits') |-> F[m]] /\ F["ihl"] = v \cap Ones(4)
    BY <1>4, <2>4, <2>5, Zenon DEF FieldValues
  <2> HIDE DEF F
  <2>7. fields' = F
    BY <2>1, <2>6, Zenon
  <2> QED
    BY <1>1, <2>7, Zenon DEF F, FieldsIInv
<1>5. CASE kind = "ip" /\ n = "fragment_offset"
  <2>1. n # "ihl"
    BY <1>5
  <2>2. fields' = [fields EXCEPT !["fragment_offset"] = v \cap Ones(13),
                                 !["flags"] = @ \cup Spilled(v)]
    BY <1>5, <2>1, Zenon DEF SetField
  <2>3. f = FragmentOffset
    <3>1. IpFields["fragment_offset"] = FragmentOffset
      BY DEF IpFields
    <3> QED
      BY <1>1, <1>5, <3>1, KindNames, Zenon
  <2>4. v \in SUBSET Int
    BY DEF Arguments, Ones
  <2> HIDE DEF f
  <2>5. fields' = [[fields EXCEPT !["fragment_offset"] = v \cap Ones(13)]
                     EXCEPT !["flags"] = fields["flags"] \cup Spilled(v)]
    BY <2>2
  <2>6. FieldValues("ip", Set(bits, FragmentOffset, v)) =
          [[FieldValues("ip", bits) EXCEPT !["fragment_offset"] = v \cap Ones(13)]
             EXCEPT !["flags"] = FieldValues("ip", bits)["flags"] \cup Spilled(v)]
    BY <2>4, FragmentOffsetValues, Zenon
  <2> QED
    BY <1>1, <1>3, <1>5, <2>3, <2>5, <2>6, Zenon DEF FieldsIInv
<1>6. CASE ~(kind = "ip" /\ n = "ihl") /\ ~(kind = "ip" /\ n = "fragment_offset")
  <2>1. fields' = [fields EXCEPT ![n] = v \cap Ones(f.width)]
    BY <1>6, Zenon DEF SetField
  <2>2. Changed(kind, Set(bits, FieldAt(kind, bits, n), v), bits, n,
                v \cap Ones(FieldAt(kind, bits, n).keeps))
    BY <1>1, <1>2, <1>6, WriteOne, Zenon
  <2>3. FieldValues(kind, bits') = [FieldValues(kind, bits) EXCEPT ![n] = v \cap Ones(f.width)]
    BY <1>2, <1>3, <1>6, <2>2, Zenon DEF Changed
  <2> QED
    BY <1>1, <2>1, <2>3, Zenon DEF FieldsIInv
<1> QED
  BY <1>4, <1>5, <1>6, Zenon

\* swap_addresses exchanges the two addresses.
LEMMA SwapStep ==
  ASSUME FieldsIInv, swap_addresses
  PROVE  FieldsIInv'
<1> DEFINE s == Get(bits, MacFields.src)
           d == Get(bits, MacFields.dst)
           once == Set(bits, MacFields.src, d)
           F == FieldValues("mac", bits)
<1>1. /\ kind = "mac" /\ kind' = "mac" /\ fields = F
      /\ bits' = Set(once, MacFields.dst, s)
      /\ fields' = [fields EXCEPT !.src = fields.dst, !.dst = fields.src]
  BY Zenon DEF FieldsIInv, swap_addresses
<1>2. "mac" \in Kinds /\ FieldsOf["mac"] = MacFields
  BY KindNames, Zenon DEF Kinds
<1>3. /\ "src" \in DOMAIN MacFields /\ "dst" \in DOMAIN MacFields
      /\ MacFields.src.width = 48 /\ MacFields.src.keeps = 48
      /\ MacFields.dst.width = 48 /\ MacFields.dst.keeps = 48
  BY DEF MacFields, Whole, Field
<1>4. ASSUME NEW h
      PROVE  /\ "src" \in FieldNames("mac", h) /\ FieldAt("mac", h, "src") = MacFields.src
             /\ "dst" \in FieldNames("mac", h) /\ FieldAt("mac", h, "dst") = MacFields.dst
  BY <1>2, <1>3, KindNames, Zenon DEF FieldNames, FieldAt
<1>5. s \subseteq Ones(48) /\ d \subseteq Ones(48)
  BY <1>3, Zenon DEF Get
<1>6. Fits(MacFields.src, d) /\ Fits(MacFields.dst, s) /\ d \cap Ones(48) = d /\ s \cap Ones(48) = s
  BY <1>3, <1>5, Zenon DEF Fits
<1>7. F["src"] = s /\ F["dst"] = d
  BY <1>4, Zenon DEF FieldValues
<1>8. "mac" # "ip"
  OBVIOUS
<1> HIDE DEF s, d
<1>9. Changed("mac", once, bits, "src", d)
  <2>1. Changed("mac", Set(bits, FieldAt("mac", bits, "src"), d), bits, "src",
                d \cap Ones(FieldAt("mac", bits, "src").keeps))
    BY <1>2, <1>4, <1>6, <1>8, WriteOne, Zenon
  <2> QED
    BY <1>3, <1>4, <1>6, <2>1, Zenon
<1> HIDE DEF once
<1>10. Changed("mac", bits', once, "dst", s)
  <2>1. Changed("mac", Set(once, FieldAt("mac", once, "dst"), s), once, "dst",
                s \cap Ones(FieldAt("mac", once, "dst").keeps))
    BY <1>2, <1>4, <1>6, <1>8, WriteOne, Zenon
  <2> QED
    BY <1>1, <1>3, <1>4, <1>6, <2>1, Zenon
<1>11. FieldValues("mac", bits') = [[F EXCEPT !["src"] = d] EXCEPT !["dst"] = s]
  BY <1>9, <1>10, Zenon DEF Changed
<1> HIDE DEF F
<1>12. fields' = [[F EXCEPT !["src"] = d] EXCEPT !["dst"] = s]
  BY <1>1, <1>7, Zenon
<1> QED
  BY <1>1, <1>2, <1>11, <1>12, Zenon DEF FieldsIInv

\* A stamp writes the flow and the checksum, and nothing else.
LEMMA StampStep ==
  ASSUME FieldsIInv, NEW fl \in NewFlows \cup {reverse_flow(ipv4_extract_flow(bits))},
         NEW sum \in Checksums, Stamp(fl, sum)
  PROVE  FieldsIInv'
<1>1. /\ kind = "ip" /\ kind' = "ip" /\ fields = FieldValues("ip", bits)
      /\ bits' = ipv4_stamp_flow(fl, bits, sum)
  BY Zenon DEF FieldsIInv, Stamp
<1>2. "ip" \in Kinds
  BY Zenon DEF Kinds
<1>3. CASE WellFormed(bits)
  <2>1. fields' = [fields EXCEPT !.src = fl.src_ip, !.dst = fl.dst_ip, !.port0 = fl.src_port,
                                 !.port1 = fl.dst_port, !.csum = sum]
    BY <1>3, Zenon DEF Stamp
  <2>2. FlowFits(fl)
    <3>1. CASE fl \in NewFlows
      BY <3>1, NewFlowsAssumption, Zenon DEF FlowFits
    <3>2. CASE fl = reverse_flow(ipv4_extract_flow(bits))
      BY <3>2, ExtractedFits, Zenon
    <3> QED
      BY <3>1, <3>2, Zenon
  <2>3. sum \subseteq Ones(16)
    BY ChecksumsAssumption, Zenon
  <2>4. HasStamp(bits', bits, fl, sum)
    BY <1>1, <1>3, <2>2, <2>3, StampIsStamp, Zenon
  <2> QED
    BY <1>1, <1>2, <2>1, <2>4, Zenon DEF HasStamp, FieldsIInv
<1>4. CASE ~WellFormed(bits)
  <2>1. fields' = FieldValues("ip", bits')
    BY <1>1, <1>4, Zenon DEF Stamp
  <2> QED
    BY <1>1, <1>2, <2>1, Zenon DEF FieldsIInv
<1> QED
  BY <1>3, <1>4, Zenon

\* The fields hold what was last written to them, through any calls on a header
\* of any content.
THEOREM FieldsInvariant == FieldsSpec => []FieldsIInv
<1>1. FieldsInit => FieldsIInv
  BY Zenon DEF FieldsInit, FieldsIInv, Kinds
<1>2. FieldsIInv /\ [FieldsNext]_fieldVars => FieldsIInv'
  <2> SUFFICES ASSUME FieldsIInv, [FieldsNext]_fieldVars PROVE FieldsIInv'
    OBVIOUS
  <2>1. CASE UNCHANGED fieldVars
    BY <2>1, Zenon DEF fieldVars, FieldsIInv
  <2>2. ASSUME NEW n \in DOMAIN FieldsOf[kind], NEW v \in Arguments(FieldsOf[kind][n]),
               SetField(n, v)
        PROVE  FieldsIInv'
    BY <2>2, SetFieldStep, Zenon
  <2>3. CASE swap_addresses
    BY <2>3, SwapStep, Zenon
  <2>4. ASSUME NEW fl \in NewFlows \cup {reverse_flow(ipv4_extract_flow(bits))},
               NEW sum \in Checksums, Stamp(fl, sum)
        PROVE  FieldsIInv'
    BY <2>4, StampStep, Zenon
  <2> QED
    BY <2>1, <2>2, <2>3, <2>4, Zenon DEF FieldsNext
<1> QED
  BY <1>1, <1>2, PTL DEF FieldsSpec

\* The getters of the code: every field that of the last write, csum() with its
\* bytes exchanged, and fragment_offset() empty with the identification.
THEOREM FieldsAlwaysKept == FieldsSpec => []FieldsKept
<1>1. FieldsIInv => FieldsKept
  <2> SUFFICES ASSUME FieldsIInv PROVE FieldsKept
    OBVIOUS
  <2>1. kind \in Kinds /\ fields = FieldValues(kind, bits)
    BY Zenon DEF FieldsIInv
  <2>2. ASSUME kind = "ip"
        PROVE  fields.csum = Get(bits, IpFields.csum) /\ fields.id = Get(bits, IpFields.id)
    <3>1. "csum" \in DOMAIN IpFields /\ "id" \in DOMAIN IpFields
      BY DEF IpFields
    <3>2. FieldsOf["ip"] = IpFields
      BY <2>1, KindNames, Zenon
    <3>3. /\ FieldAt("ip", bits, "csum") = IpFields.csum /\ FieldAt("ip", bits, "id") = IpFields.id
      BY <3>2 DEF FieldAt
    <3>4. "csum" \in FieldNames("ip", bits) /\ "id" \in FieldNames("ip", bits)
      BY <3>1, <3>2, Zenon DEF FieldNames
    <3> QED
      BY <2>1, <2>2, <3>3, <3>4, Zenon DEF FieldValues
  <2>3. ASSUME kind = "ip" PROVE csum(bits) = Swapped(fields.csum)
    BY <2>2, <2>3, Zenon DEF csum
  <2>4. ASSUME kind = "ip", fields.id = {} PROVE fragment_offset(bits) = {}
    <3>1. Get(bits, IpFields.id) = {}
      BY <2>2, <2>4, Zenon
    <3>2. Swapped({}) = {}
      BY Zenon DEF Swapped
    <3>3. {b - 3 : b \in ({} \ {1, 2, 3}) \ {0}} = {}
      BY Zenon
    <3> QED
      BY <3>1, <3>2, <3>3, Zenon DEF fragment_offset
  <2> QED
    BY <2>1, <2>3, <2>4, Zenon DEF FieldsKept
<1> QED
  BY <1>1, FieldsInvariant, PTL

\* A flow reversed and stamped twice leaves the packet as it was, and flow() and
\* ipv4_extract_flow agree but for the ports where they agree on the length of the
\* header: always, but for a build with "performance" and a header with options.
THEOREM FlowsAlwaysRoundTrip == FieldsSpec => []FlowsRoundTrip
<1>1. FlowsRoundTrip
  <2> SUFFICES ASSUME kind = "ip", WellFormed(bits) PROVE FlowsRoundTrip
    BY Zenon DEF FlowsRoundTrip
  <2> DEFINE here == ipv4_extract_flow(bits)
             there == reverse_flow(here)
  <2>1. ASSUME IpOffset(bits) = port_start(bits), NEW fl \in flow(bits)
        PROVE  Flow(fl.dst_ip, fl.src_ip, fl.src_port, fl.dst_port, fl.proto) = there
    <3> DEFINE a == Get(bits, IpFields.src)
               b == Get(bits, IpFields.dst)
               c == Get(bits, FlowPort(bits, 0))
               d == Get(bits, FlowPort(bits, 1))
               q == Get(bits, IpFields.protocol)
    <3>1. fl = Flow(a, b, d, c, q)
      BY <2>1, Zenon DEF flow, FlowPort
    <3>2. here = Flow(a, b, c, d, q)
      BY Zenon DEF ipv4_extract_flow
    <3> HIDE DEF a, b, c, d, q, here
    <3> QED
      BY <3>1, <3>2, Zenon DEF Flow, reverse_flow
  <2>2. LET sum == Get(bits, IpFields.csum)
            once == ipv4_stamp_flow(there, bits, sum)
        IN  /\ ipv4_extract_flow(once) = there
            /\ ipv4_stamp_flow(reverse_flow(there), once, sum) = bits
    BY RoundTrip, Zenon
  <2> QED
    BY <2>1, <2>2, Zenon DEF FlowsRoundTrip
<1> QED
  BY <1>1, PTL

-----------------------------------------------------------------------------
(* Remainders *)

\* A multiple of s strictly between -s and s is zero.
LEMMA NoSmallMultiple ==
  ASSUME NEW s \in Nat \ {0}, NEW z \in Int, s * z < s, -s < s * z
  PROVE  z = 0
<1>1. CASE z >= 1
  <2>1. s * z >= s
    BY <1>1
  <2> QED
    BY <2>1
<1>2. CASE z <= -1
  <2>1. s * z <= -s
    BY <1>2
  <2> QED
    BY <2>1
<1> QED
  BY <1>1, <1>2

\* Division with remainder.
LEMMA Division ==
  ASSUME NEW s \in Nat \ {0}, NEW a \in Int
  PROVE  \E q \in Int, r \in 0 .. s - 1 : a = s * q + r /\ a % s = r
<1>1. a = s * (a \div s) + (a % s) /\ a % s \in 0 .. s - 1
  OBVIOUS
<1>2. a \div s \in Int
  OBVIOUS
<1> QED
  BY <1>1, <1>2, Zenon

\* A remainder is below the divisor.
LEMMA RemainderRange ==
  ASSUME NEW s \in Nat \ {0}, NEW a \in Int
  PROVE  a % s \in 0 .. s - 1 /\ a % s \in Int
OBVIOUS

\* The remainder is the only number below s that differs from a by a multiple of s.
LEMMA RemainderUnique ==
  ASSUME NEW s \in Nat \ {0}, NEW a \in Int, NEW q \in Int, NEW r \in 0 .. s - 1,
         a = s * q + r
  PROVE  a % s = r
<1>1. PICK p \in Int, m \in 0 .. s - 1 : a = s * p + m /\ a % s = m
  BY Division, Zenon
<1>2. s * p + m = s * q + r
  BY <1>1, Zenon
<1>3. s * (p - q) = r - m
  BY <1>2
<1>4. s * (p - q) < s /\ -s < s * (p - q) /\ p - q \in Int
  BY <1>3
<1>5. p - q = 0
  BY <1>4, NoSmallMultiple, Zenon
<1>6. r - m = 0
  BY <1>3, <1>5
<1>7. r = m
  BY <1>6
<1> QED
  BY <1>1, <1>7, Zenon

\* Numbers that differ by a multiple of s have the same remainder.
LEMMA SameRemainder ==
  ASSUME NEW s \in Nat \ {0}, NEW a \in Int, NEW b \in Int, NEW q \in Int, a = b + s * q
  PROVE  a % s = b % s
<1>1. PICK p \in Int, m \in 0 .. s - 1 : b = s * p + m /\ b % s = m
  BY Division, Zenon
<1>2. a = (s * p + m) + s * q
  BY <1>1, Zenon
<1>3. a = s * (p + q) + m /\ p + q \in Int
  BY <1>2
<1>4. a % s = m
  BY <1>3, RemainderUnique, Zenon
<1> QED
  BY <1>1, <1>4, Zenon

\* A remainder taken before an addition or subtraction changes nothing.
LEMMA RemainderOfSum ==
  ASSUME NEW s \in Nat \ {0}, NEW a \in Int, NEW b \in Int
  PROVE  /\ ((a % s) + b) % s = (a + b) % s
         /\ (b - (a % s)) % s = (b - a) % s
<1>1. PICK p \in Int, m \in 0 .. s - 1 : a = s * p + m /\ a % s = m
  BY Division, Zenon
<1>2. (s * p + m) + b = (m + b) + s * p /\ b - m = (b - (s * p + m)) + s * p
  OBVIOUS
<1>3. a + b = (m + b) + s * p /\ b - m = (b - a) + s * p
  BY <1>1, <1>2, Zenon
<1>4. a + b \in Int /\ m + b \in Int /\ b - m \in Int /\ b - a \in Int
  OBVIOUS
<1>5. (a + b) % s = (m + b) % s
  BY <1>3, <1>4, SameRemainder, Zenon
<1>6. (b - m) % s = (b - a) % s
  BY <1>3, <1>4, SameRemainder, Zenon
<1>7. a % s = m
  BY <1>1, Zenon
<1>8. ((a % s) + b) % s = (m + b) % s /\ (b - (a % s)) % s = (b - m) % s
  BY <1>7, Zenon
<1> QED
  BY <1>5, <1>6, <1>8, Zenon

\* A remainder by a multiple of s does not change the remainder by s.
LEMMA NestedRemainder ==
  ASSUME NEW s \in Nat \ {0}, NEW w \in Nat \ {0}, w % s = 0, NEW a \in Int
  PROVE  (a % w) % s = a % s
<1>1. PICK p \in Int, m \in 0 .. w - 1 : a = w * p + m /\ a % w = m
  BY Division, Zenon
<1>2. PICK k \in Int, z \in 0 .. s - 1 : w = s * k + z /\ w % s = z
  <2>1. w \in Int
    OBVIOUS
  <2> QED
    BY <2>1, Division, Zenon
<1>3. z = 0
  BY <1>2, Zenon
<1>4. w = s * k
  BY <1>2, <1>3
<1>5. PICK x \in Int : (s * k) * p = s * x
  <2>1. (s * k) * p = s * (k * p) /\ k * p \in Int
    OBVIOUS
  <2> QED
    BY <2>1, Zenon
<1>6. a = s * x + m
  BY <1>1, <1>4, <1>5, Zenon
<1>7. a = m + s * x /\ m \in Int
  BY <1>6
<1>8. a % s = m % s
  BY <1>7, SameRemainder, Zenon
<1> QED
  BY <1>1, <1>8, Zenon

\* A number below s is its own remainder.
LEMMA SmallRemainder ==
  ASSUME NEW s \in Nat \ {0}, NEW a \in 0 .. s - 1
  PROVE  a % s = a
<1>1. a = s * 0 + a /\ a \in Int
  OBVIOUS
<1> QED
  BY <1>1, RemainderUnique

\* Both operands of a sum or a difference can be replaced by their remainders.
LEMMA RemaindersOfSum ==
  ASSUME NEW s \in Nat \ {0}, NEW a \in Int, NEW b \in Int
  PROVE  ((a % s) - (b % s)) % s = (a - b) % s
<1>1. a % s \in Int
  <2>1. PICK q \in Int, r \in 0 .. s - 1 : a % s = r
    BY Division, Zenon
  <2> QED
    BY <2>1
<1>2. ((a % s) - (b % s)) % s = ((a % s) - b) % s
  BY <1>1, RemainderOfSum, Zenon
<1>3. (a % s) - b = (a % s) + (-b) /\ a - b = a + (-b) /\ -b \in Int
  BY <1>1
<1>4. ((a % s) + (-b)) % s = (a + (-b)) % s
  BY <1>3, RemainderOfSum, Zenon
<1> QED
  BY <1>2, <1>3, <1>4, Zenon

-----------------------------------------------------------------------------
(* The counters of the ring *)

\* The constants of the ring, as the arithmetic below uses them.
LEMMA RingNumbers ==
  /\ Size \in Nat \ {0} /\ Word \in Nat \ {0}
  /\ Mask \in Nat /\ Mask = Size - 1 /\ Mask < Word
BY SizeAssumption, WordAssumption DEF Mask

\* tail is head plus the bytes available.
LEMMA TailOfAvailable ==
  ASSUME NEW h \in 0 .. Word - 1, NEW t \in 0 .. Word - 1, NEW a, a = (t - h) % Word
  PROVE  a \in 0 .. Word - 1 /\ t = (h + a) % Word
<1>1. Word \in Nat \ {0} /\ h \in Int /\ t - h \in Int
  BY RingNumbers
<1>2. a \in 0 .. Word - 1
  <2>1. PICK q \in Int, r \in 0 .. Word - 1 : (t - h) % Word = r
    BY <1>1, Division, Zenon
  <2> QED
    BY <2>1
<1>3. (a + h) % Word = ((t - h) + h) % Word
  BY <1>1, RemainderOfSum, Zenon
<1>4. a + h = h + a /\ (t - h) + h = t
  BY <1>1, <1>2
<1>5. t % Word = t
  BY <1>1, SmallRemainder
<1> QED
  BY <1>2, <1>3, <1>4, <1>5, Zenon

\* tail moves on: more is available.
LEMMA TailMoves ==
  ASSUME NEW h \in 0 .. Word - 1, NEW t \in 0 .. Word - 1, NEW a, a = (t - h) % Word,
         NEW n \in Nat, a + n < Word
  PROVE  (((t + n) % Word) - h) % Word = a + n
<1>1. Word \in Nat \ {0} /\ h \in Int /\ t - h \in Int /\ t + n \in Int /\ -h \in Int /\ n \in Int
  BY RingNumbers
<1>2. a \in 0 .. Word - 1
  BY TailOfAvailable
<1>3. (((t + n) % Word) + (-h)) % Word = ((t + n) + (-h)) % Word
  BY <1>1, RemainderOfSum, Zenon
<1>4. (a + n) % Word = ((t - h) + n) % Word
  BY <1>1, RemainderOfSum, Zenon
<1>5. (t + n) + (-h) = (t - h) + n
  BY <1>1
<1>6. (a + n) % Word = a + n
  <2>1. a + n \in 0 .. Word - 1
    BY <1>1, <1>2
  <2> QED
    BY <1>1, <2>1, SmallRemainder, Zenon
<1>7. (t + n) % Word \in Int
  BY <1>1, Division
<1>8. ((t + n) % Word) + (-h) = ((t + n) % Word) - h
  BY <1>1, <1>7
<1> QED
  BY <1>3, <1>4, <1>5, <1>6, <1>8, Zenon

\* head moves on over bytes that are available: less is available.
LEMMA HeadMoves ==
  ASSUME NEW h \in 0 .. Word - 1, NEW t \in 0 .. Word - 1, NEW a, a = (t - h) % Word,
         NEW n \in Nat, n <= a
  PROVE  (t - ((h + n) % Word)) % Word = a - n
<1>1. Word \in Nat \ {0} /\ t \in Int /\ t - h \in Int /\ h + n \in Int /\ -n \in Int
  BY RingNumbers
<1>2. a \in 0 .. Word - 1
  BY TailOfAvailable
<1>3. (t - ((h + n) % Word)) % Word = (t - (h + n)) % Word
  BY <1>1, RemainderOfSum, Zenon
<1>4. (a + (-n)) % Word = ((t - h) + (-n)) % Word
  BY <1>1, RemainderOfSum, Zenon
<1>5. t - (h + n) = (t - h) + (-n) /\ a + (-n) = a - n
  BY <1>1, <1>2
<1>6. (a - n) % Word = a - n
  <2>1. a - n \in 0 .. Word - 1
    BY <1>1, <1>2
  <2> QED
    BY <1>1, <2>1, SmallRemainder, Zenon
<1> QED
  BY <1>3, <1>4, <1>5, <1>6, Zenon

\* The space from position o after tail on.
LEMMA SpaceFrom ==
  ASSUME NEW h \in 0 .. Word - 1, NEW t \in 0 .. Word - 1, NEW a, a = (t - h) % Word,
         NEW o \in Nat, a + o <= Mask
  PROVE  (((Mask + h) % Word) - ((t + o) % Word)) % Word = Mask - a - o
<1> DEFINE M == Mask
<1>1. Word \in Nat \ {0} /\ M \in Nat /\ M < Word
  BY RingNumbers
<1>2. a \in 0 .. Word - 1
  BY TailOfAvailable
<1> HIDE DEF M
<1>3. M + h \in Int /\ t + o \in Int /\ M - o \in Int /\ t - h \in Int
  BY <1>1
<1>4. (((M + h) % Word) - ((t + o) % Word)) % Word = ((M + h) - (t + o)) % Word
  BY <1>1, <1>3, RemaindersOfSum, Zenon
<1>5. ((M - o) - a) % Word = ((M - o) - (t - h)) % Word
  BY <1>1, <1>3, RemainderOfSum, Zenon
<1>6. (M + h) - (t + o) = (M - o) - (t - h) /\ (M - o) - a = M - a - o
  BY <1>1, <1>2, <1>3
<1>7. (M - a - o) % Word = M - a - o
  <2>1. M - a - o \in 0 .. Word - 1
    BY <1>1, <1>2 DEF M
  <2> QED
    BY <1>1, <2>1, SmallRemainder, Zenon
<1> QED
  BY <1>4, <1>5, <1>6, <1>7, Zenon DEF M

-----------------------------------------------------------------------------
(* The cells of the ring *)

\* Every counter has a cell, and the counter's wrap does not show in the cell.
LEMMA CellOfCounter ==
  ASSUME NEW c \in Int
  PROVE  c % Size \in Cells /\ (c % Word) % Size = c % Size
<1>1. Size \in Nat \ {0} /\ Word \in Nat \ {0} /\ Word % Size = 0
  BY RingNumbers, WordAssumption
<1>2. (c % Word) % Size = c % Size
  BY <1>1, NestedRemainder, Zenon
<1>3. PICK q \in Int, r \in 0 .. Size - 1 : c % Size = r
  BY <1>1, Division, Zenon
<1> QED
  BY <1>2, <1>3 DEF Cells

\* How far the cell of position k is after the cell of position j, around the ring.
LEMMA CellDistance ==
  ASSUME NEW h \in Int, NEW j \in 0 .. Size - 1, NEW k \in 0 .. Size - 1
  PROVE  (((h + k) % Size) - ((h + j) % Size)) % Size = IF k >= j THEN k - j ELSE k - j + Size
<1>1. Size \in Nat \ {0} /\ h + k \in Int /\ h + j \in Int /\ k - j \in Int
  BY RingNumbers
<1>2. (((h + k) % Size) - ((h + j) % Size)) % Size = ((h + k) - (h + j)) % Size
  BY <1>1, RemaindersOfSum, Zenon
<1>3. (h + k) - (h + j) = k - j
  BY <1>1
<1>4. CASE k >= j
  <2>1. k - j \in 0 .. Size - 1
    BY <1>1, <1>4
  <2>2. (k - j) % Size = k - j
    BY <1>1, <2>1, SmallRemainder, Zenon
  <2> QED
    BY <1>2, <1>3, <1>4, <2>2, Zenon
<1>5. CASE ~(k >= j)
  <2>1. k - j + Size \in 0 .. Size - 1 /\ k - j = Size * (-1) + (k - j + Size) /\ -1 \in Int
    BY <1>1, <1>5
  <2>2. (k - j) % Size = k - j + Size
    BY <1>1, <2>1, RemainderUnique, Zenon
  <2> QED
    BY <1>2, <1>3, <1>5, <2>2, Zenon
<1> QED
  BY <1>4, <1>5

\* What position k holds when data was written from position j on.
IsWritten(h, j, k, vec, data) ==
  wrapped_write(vec, (h + j) % Size, data)[(h + k) % Size] =
    IF k >= j /\ k < j + Len(data) THEN data[k - j + 1] ELSE vec[(h + k) % Size]

\* wrapped_write at position j changes the positions it is given data for, and no other.
LEMMA WrittenCells ==
  ASSUME NEW h \in Int, NEW j \in 0 .. Size - 1, NEW k \in 0 .. Size - 1, NEW vec, NEW data,
         Len(data) \in Nat, j + Len(data) <= Size
  PROVE  IsWritten(h, j, k, vec, data)
<1> DEFINE c == (h + k) % Size
           d == (c - ((h + j) % Size)) % Size
           n == Len(data)
<1>1. c \in Cells /\ h + k \in Int
  <2>1. h + k \in Int
    BY RingNumbers
  <2> QED
    BY <2>1, CellOfCounter, Zenon
<1>2. d = IF k >= j THEN k - j ELSE k - j + Size
  BY CellDistance, Zenon
<1>3. wrapped_write(vec, (h + j) % Size, data)[c] = IF d < n THEN data[d + 1] ELSE vec[c]
  BY <1>1, Zenon DEF wrapped_write
<1> HIDE DEF c, d, n
<1>4. n \in Nat /\ j + n <= Size /\ Size \in Nat
  BY RingNumbers DEF n
<1>5. CASE k >= j
  <2>1. d = k - j /\ d + 1 = k - j + 1 /\ (d < n <=> k < j + n)
    BY <1>2, <1>4, <1>5
  <2> QED
    BY <1>3, <1>5, <2>1, Zenon DEF IsWritten, c, n
<1>6. CASE ~(k >= j)
  <2>1. ~(d < n)
    BY <1>2, <1>4, <1>6
  <2> QED
    BY <1>3, <1>6, <2>1, Zenon DEF IsWritten, c, n
<1> QED
  BY <1>5, <1>6

\* wrapped_write of nothing changes nothing.
LEMMA NothingWritten ==
  ASSUME NEW vec \in [Cells -> Bytes], NEW offset \in Int, NEW data, Len(data) = 0
  PROVE  wrapped_write(vec, offset, data) = vec
<1>1. \A c \in Cells : ~((c - offset) % Size < 0)
  <2> SUFFICES ASSUME NEW c \in Cells PROVE ~((c - offset) % Size < 0)
    OBVIOUS
  <2>1. Size \in Nat \ {0} /\ c - offset \in Int
    BY RingNumbers DEF Cells
  <2>2. PICK q \in Int, r \in 0 .. Size - 1 : (c - offset) % Size = r
    BY <2>1, Division, Zenon
  <2> QED
    BY <2>2
<1>2. wrapped_write(vec, offset, data) = [c \in Cells |-> vec[c]]
  BY <1>1, Zenon DEF wrapped_write
<1> QED
  BY <1>2

\* wrapped_write keeps every cell a byte.
LEMMA WrittenTyped ==
  ASSUME NEW vec \in [Cells -> Bytes], NEW offset \in Int, NEW data \in Seq(Bytes)
  PROVE  wrapped_write(vec, offset, data) \in [Cells -> Bytes]
<1>1. Len(data) \in Nat /\ \A i \in 1 .. Len(data) : data[i] \in Bytes
  OBVIOUS
<1>2. ASSUME NEW c \in Cells
      PROVE  (IF (c - offset) % Size < Len(data) THEN data[((c - offset) % Size) + 1] ELSE vec[c]) \in Bytes
  <2>1. Size \in Nat \ {0} /\ c - offset \in Int
    BY RingNumbers DEF Cells
  <2>2. PICK q \in Int, r \in 0 .. Size - 1 : (c - offset) % Size = r
    BY <2>1, Division, Zenon
  <2>3. r < Len(data) => data[r + 1] \in Bytes
    BY <1>1, <2>1
  <2>4. vec[c] \in Bytes
    OBVIOUS
  <2> QED
    BY <2>2, <2>3, <2>4, Zenon
<1> QED
  BY <1>2, Zenon DEF wrapped_write

-----------------------------------------------------------------------------
(* The ring implements the window *)

\* The counters are words, the cells hold bytes, and one cell stays empty.
RingInv == RingTypeOK /\ Available(ring) <= Mask

\* The parts of a ring that satisfies the invariant.
LEMMA RingParts ==
  ASSUME RingInv
  PROVE  /\ ring.head \in 0 .. Word - 1 /\ ring.tail \in 0 .. Word - 1
         /\ ring.vec \in [Cells -> Bytes]
         /\ ring = [head |-> ring.head, tail |-> ring.tail, vec |-> ring.vec]
         /\ Available(ring) = (ring.tail - ring.head) % Word
         /\ Available(ring) \in 0 .. Mask
         /\ Space(ring) = Mask - Available(ring)
<1> DEFINE h == ring.head
           t == ring.tail
           a == Available(ring)
<1>1. h \in 0 .. Word - 1 /\ t \in 0 .. Word - 1 /\ ring.vec \in [Cells -> Bytes]
  BY DEF RingInv, RingTypeOK, Counters
<1>2. ring = [head |-> ring.head, tail |-> ring.tail, vec |-> ring.vec]
  BY DEF RingInv, RingTypeOK
<1>3. a = (t - h) % Word
  BY Zenon DEF Available, wrapping_sub
<1>4. a \in 0 .. Word - 1 /\ a <= Mask
  BY <1>1, <1>3, TailOfAvailable, Zenon DEF RingInv
<1>5. a \in 0 .. Mask
  BY <1>4, RingNumbers
<1>6. Space(ring) = Mask - a
  <2> HIDE DEF h, t, a
  <2>1. a + 0 <= Mask /\ 0 \in Nat /\ t + 0 = t /\ Mask - a - 0 = Mask - a
    BY <1>1, <1>5, RingNumbers
  <2>2. (((Mask + h) % Word) - ((t + 0) % Word)) % Word = Mask - a - 0
    BY <1>1, <1>3, <2>1, SpaceFrom
  <2>3. t % Word = t
    BY <1>1, RingNumbers, SmallRemainder
  <2>4. Space(ring) = (((Mask + h) % Word) - t) % Word
    BY Zenon DEF Space, wrapping_sub, wrapping_add, h, t
  <2> QED
    BY <2>1, <2>2, <2>3, <2>4, Zenon
<1> QED
  BY <1>1, <1>2, <1>3, <1>5, <1>6, Zenon

\* The cell o places after tail is the cell of position Available + o of the window.
LEMMA TailCell ==
  ASSUME RingInv, NEW o \in Nat
  PROVE  (ring.tail + o) % Size = (ring.head + (Available(ring) + o)) % Size
<1> DEFINE h == ring.head
           t == ring.tail
           a == Available(ring)
<1>1. h \in 0 .. Word - 1 /\ t \in 0 .. Word - 1 /\ a = (t - h) % Word /\ a \in 0 .. Mask
  BY RingParts, Zenon
<1> HIDE DEF h, t, a
<1>2. t = (h + a) % Word
  BY <1>1, TailOfAvailable
<1>3. Size \in Nat \ {0} /\ h + a \in Int /\ t \in Int /\ o \in Int
  BY <1>1, RingNumbers
<1>4. t % Size = (h + a) % Size
  BY <1>2, <1>3, CellOfCounter, Zenon
<1>5. ((t % Size) + o) % Size = (t + o) % Size
  BY <1>3, RemainderOfSum, Zenon
<1>6. (((h + a) % Size) + o) % Size = ((h + a) + o) % Size
  BY <1>3, RemainderOfSum, Zenon
<1>7. (h + a) + o = h + (a + o)
  BY <1>1, <1>3, RingNumbers
<1> QED
  BY <1>4, <1>5, <1>6, <1>7, Zenon DEF h, t, a

\* A slice is a sequence of bytes.
LEMMA SliceIsSeq ==
  ASSUME NEW data \in Slices
  PROVE  data \in Seq(Bytes) /\ Len(data) \in Nat
<1>1. PICK n \in 0 .. MaxLen : data \in [1..n -> Bytes]
  BY DEF Slices
<1>2. n \in Nat
  BY LengthAssumption
<1> QED
  BY <1>1, <1>2

\* What a prefix of a slice holds.
LEMMA TakenOfSlice ==
  ASSUME NEW data \in Seq(Bytes), NEW n \in Nat, n <= Len(data)
  PROVE  /\ SubSeq(data, 1, n) \in Seq(Bytes) /\ Len(SubSeq(data, 1, n)) = n
         /\ \A i \in 1 .. n : SubSeq(data, 1, n)[i] = data[i]
OBVIOUS

\* The first n bytes of data, written o places after tail, are at positions
\* Available + o on of the window; every other position is as it was.
LEMMA PutWindow ==
  ASSUME RingInv, NEW o \in Nat, NEW data \in Seq(Bytes), NEW n \in Nat, n <= Len(data),
         Available(ring) + o + n <= Mask, ring'.head = ring.head,
         ring'.vec = wrapped_write(ring.vec, (ring.tail + o) % Size, SubSeq(data, 1, n))
  PROVE  Promise!Put(o, data, n)
<1> DEFINE a == Available(ring)
           h == ring.head
           d == SubSeq(data, 1, n)
           M == Mask
<1>1. a \in 0 .. M /\ h \in Int /\ M \in Nat /\ M = Size - 1 /\ a + o + n <= M
  BY RingParts, RingNumbers
<1>2. Len(d) = n /\ \A i \in 1 .. n : d[i] = data[i]
  BY TakenOfSlice, Zenon
<1>3. ring'.vec = wrapped_write(ring.vec, (h + (a + o)) % Size, d)
  BY TailCell, Zenon
<1>4. ASSUME NEW k \in 0 .. M - 1
      PROVE  ring'.vec[(h + k) % Size] =
               IF k >= a + o /\ k < a + o + n THEN data[k - a - o + 1] ELSE ring.vec[(h + k) % Size]
  <2> HIDE DEF a, h, d, M
  <2>1. a + o \in 0 .. Size - 1 /\ k \in 0 .. Size - 1 /\ (a + o) + n <= Size
    BY <1>1, RingNumbers
  <2>2. /\ Len(d) \in Nat /\ (a + o) + Len(d) <= Size /\ h \in Int
    BY <1>1, <1>2, <2>1, Zenon
  <2>4. wrapped_write(ring.vec, (h + (a + o)) % Size, d)[(h + k) % Size] =
          IF k >= a + o /\ k < (a + o) + Len(d) THEN d[k - (a + o) + 1] ELSE ring.vec[(h + k) % Size]
    <3>1. IsWritten(h, a + o, k, ring.vec, d)
      BY <2>1, <2>2, WrittenCells, Zenon
    <3> QED
      BY <3>1, Zenon DEF IsWritten
  <2>5. ring'.vec[(h + k) % Size] =
          IF k >= a + o /\ k < (a + o) + n THEN d[k - (a + o) + 1] ELSE ring.vec[(h + k) % Size]
    BY <1>2, <1>3, <2>4, Zenon
  <2>3. k >= a + o /\ k < a + o + n => k - (a + o) + 1 \in 1 .. n /\ k - (a + o) + 1 = k - a - o + 1
    BY <1>1
  <2> QED
    <3>1. k >= a + o /\ k < a + o + n => d[k - (a + o) + 1] = data[k - a - o + 1]
      BY <1>2, <2>3, Zenon
    <3> QED
      BY <2>5, <3>1, Zenon
<1>5. ring'.head = h
  OBVIOUS
<1> HIDE DEF a, h, d, M
<1>6. Window' = [k \in 0 .. M - 1 |-> ring'.vec[(h + k) % Size]]
  BY <1>5, Zenon DEF Window, M
<1>7. Window = [k \in 0 .. M - 1 |-> ring.vec[(h + k) % Size]]
  BY Zenon DEF Window, M, h
<1>8. Window' = [k \in 0 .. M - 1 |-> IF k >= a + o /\ k < a + o + n THEN data[k - a - o + 1]
                                          ELSE Window[k]]
  BY <1>4, <1>6, <1>7, Zenon
<1> QED
  BY <1>8, Zenon DEF Promise!Put, Promise!Positions, a, M

\* A ring with new counters and cells.
RingOf(h, t, v) == [head |-> h, tail |-> t, vec |-> v]

\* The parts of such a ring, and the assignments to its fields.
LEMMA RingOfParts ==
  ASSUME NEW h, NEW t, NEW v, NEW x
  PROVE  /\ RingOf(h, t, v).head = h /\ RingOf(h, t, v).tail = t /\ RingOf(h, t, v).vec = v
         /\ [RingOf(h, t, v) EXCEPT !.head = x] = RingOf(x, t, v)
         /\ [RingOf(h, t, v) EXCEPT !.tail = x] = RingOf(h, x, v)
         /\ [RingOf(h, t, v) EXCEPT !.vec = x] = RingOf(h, t, x)
BY DEF RingOf

\* A ring of words and bytes with at most Mask bytes available keeps the invariant.
LEMMA RingOfInv ==
  ASSUME NEW h \in 0 .. Word - 1, NEW t \in 0 .. Word - 1, NEW v \in [Cells -> Bytes],
         ring' = RingOf(h, t, v), (t - h) % Word <= Mask
  PROVE  RingInv' /\ Available(ring)' = (t - h) % Word
<1>1. ring'.head = h /\ ring'.tail = t /\ ring'.vec = v
  BY DEF RingOf
<1>2. Available(ring)' = (t - h) % Word
  BY <1>1, Zenon DEF Available, wrapping_sub
<1>3. RingTypeOK'
  BY DEF RingOf, RingTypeOK, Counters
<1>4. Mask' = Mask
  BY Zenon DEF Mask
<1> QED
  BY <1>2, <1>3, <1>4, Zenon DEF RingInv

\* write_at_tail appends to the window what there is room for.
LEMMA WriteStep ==
  ASSUME RingInv, NEW data \in Slices, WriteAtTail(data)
  PROVE  RingInv' /\ Promise!AppendData(data)
<1> DEFINE a == Available(ring)
           h == ring.head
           t == ring.tail
           M == Mask
           n == TailWrite(ring, Len(data))
           v == wrapped_write(ring.vec, t % Size, SubSeq(data, 1, n))
<1>1. /\ h \in 0 .. Word - 1 /\ t \in 0 .. Word - 1 /\ ring.vec \in [Cells -> Bytes]
      /\ ring = RingOf(h, t, ring.vec)
      /\ a = (t - h) % Word /\ a \in 0 .. M /\ Space(ring) = M - a
  BY RingParts, Zenon DEF RingOf
<1>2. data \in Seq(Bytes) /\ Len(data) \in Nat
  BY SliceIsSeq, Zenon
<1>3. n = IF Len(data) <= M - a THEN Len(data) ELSE M - a
  BY <1>1, Zenon DEF TailWrite, MinOf
<1>4. ring' = RingOf(h, (t + n) % Word, v)
  <2>1. ring' = [seek_tail(ring, n) EXCEPT
                   !.vec = wrapped_write(seek_tail(ring, n).vec, t % Size, SubSeq(data, 1, n))]
    BY Zenon DEF WriteAtTail, write_at_tail
  <2>2. seek_tail(ring, n) = [ring EXCEPT !.tail = (t + n) % Word]
    BY Zenon DEF seek_tail, wrapping_add
  <2> HIDE DEF h, t, n
  <2>3. seek_tail(ring, n) = RingOf(h, (t + n) % Word, ring.vec)
    BY <1>1, <2>2, RingOfParts
  <2> QED
    BY <2>1, <2>3, RingOfParts DEF v
<1> HIDE DEF a, h, t, n, v, M
<1>5. /\ n \in Nat /\ n <= Len(data) /\ a + n <= M /\ M < Word /\ t + n \in Int
      /\ t \in Int /\ a \in Nat /\ M \in Nat
  BY <1>1, <1>2, <1>3, RingNumbers DEF M
<1>6. (t + n) % Word \in 0 .. Word - 1
  BY <1>5, RingNumbers, RemainderRange, Zenon
<1>7. (((t + n) % Word) - h) % Word = a + n
  <2>1. a + n < Word
    BY <1>5, RingNumbers
  <2> QED
    BY <1>1, <1>5, <2>1, TailMoves
<1>8. v \in [Cells -> Bytes]
  <2>1. t % Size \in Int
    <3>1. t \in Int
      BY <1>1, RingNumbers
    <3> QED
      BY <3>1, RingNumbers, RemainderRange, Zenon
  <2>2. SubSeq(data, 1, n) \in Seq(Bytes)
    BY <1>2, <1>5, TakenOfSlice, Zenon
  <2> QED
    BY <1>1, <2>1, <2>2, WrittenTyped, Zenon DEF v
<1>9. RingInv' /\ Available(ring)' = a + n
  <2>1. (((t + n) % Word) - h) % Word <= Mask
    BY <1>5, <1>7, Zenon DEF M
  <2> QED
    BY <1>1, <1>4, <1>6, <1>7, <1>8, <2>1, RingOfInv, Zenon
<1>10. Promise!Put(0, data, n)
  <2>1. ring'.head = ring.head /\ ring'.vec = v
    BY <1>4, Zenon DEF RingOf, h
  <2>2. t + 0 = t /\ 0 \in Nat /\ a + 0 + n <= M
    BY <1>5
  <2>3. ring'.vec = wrapped_write(ring.vec, (ring.tail + 0) % Size, SubSeq(data, 1, n))
    BY <2>1, <2>2, Zenon DEF v, t
  <2> QED
    BY <1>2, <1>5, <2>1, <2>2, <2>3, PutWindow, Zenon DEF a, M
<1>11. n = Promise!Lesser(Len(data), Mask - Available(ring))
  BY <1>3, Zenon DEF Promise!Lesser, a, M
<1> QED
  BY <1>9, <1>10, <1>11, Zenon DEF Promise!AppendData, a

\* write_at_offset_from_tail puts its data ahead of tail, as far as there is room.
LEMMA WriteAheadStep ==
  ASSUME RingInv, NEW data \in Slices, NEW o \in 0 .. MaxLen, WriteAhead(o, data)
  PROVE  RingInv' /\ Promise!WriteAhead(o, data)
<1> DEFINE a == Available(ring)
           h == ring.head
           t == ring.tail
           M == Mask
           n == OffsetWrite(ring, o, Len(data))
           v == wrapped_write(ring.vec, (t + o) % Size, SubSeq(data, 1, n))
<1>1. /\ h \in 0 .. Word - 1 /\ t \in 0 .. Word - 1 /\ ring.vec \in [Cells -> Bytes]
      /\ ring = RingOf(h, t, ring.vec)
      /\ a = (t - h) % Word /\ a \in 0 .. M /\ Space(ring) = M - a
  BY RingParts, Zenon DEF RingOf
<1>2. data \in Seq(Bytes) /\ Len(data) \in Nat
  BY SliceIsSeq, Zenon
<1>3. o \in Nat /\ t \in Int /\ t + o \in Int /\ a \in Nat /\ M \in Nat
  BY <1>1, RingNumbers, LengthAssumption
<1>4. n = IF M - a < o THEN 0 ELSE IF Len(data) <= M - a - o THEN Len(data) ELSE M - a - o
  <2>1. n = IF M - a < o THEN 0
            ELSE LET s == (((M + h) % Word) - ((t + o) % Word)) % Word IN
                 IF Len(data) <= s THEN Len(data) ELSE s
    BY <1>1, Zenon DEF OffsetWrite, MinOf, wrapping_sub, wrapping_add
  <2> HIDE DEF a, h, t, n, M
  <2>2. ~(M - a < o) => a + o <= M
    BY <1>3
  <2>3. a + o <= M => (((M + h) % Word) - ((t + o) % Word)) % Word = M - a - o
    BY <1>1, <1>3, SpaceFrom DEF M
  <2> QED
    BY <2>1, <2>2, <2>3, Zenon
<1>5. ring' = RingOf(h, t, v)
  <2>1. ((t + o) % Word) % Size = (t + o) % Size
    BY <1>3, CellOfCounter, Zenon
  <2>2. ring' = [ring EXCEPT !.vec = wrapped_write(ring.vec, ((t + o) % Word) % Size, SubSeq(data, 1, n))]
    BY Zenon DEF WriteAhead, write_at_offset_from_tail, wrapping_add
  <2>3. ring' = [ring EXCEPT !.vec = v]
    BY <2>1, <2>2, Zenon
  <2> HIDE DEF h, t, v
  <2> QED
    BY <1>1, <2>3, RingOfParts
<1> HIDE DEF a, h, t, n, v, M
<1>6. n \in Nat /\ n <= Len(data) /\ (n = 0 \/ a + o + n <= M)
  <2>1. CASE M - a < o
    BY <1>2, <1>4, <2>1
  <2>2. CASE ~(M - a < o) /\ Len(data) <= M - a - o
    BY <1>2, <1>3, <1>4, <2>2
  <2>3. CASE ~(M - a < o) /\ ~(Len(data) <= M - a - o)
    BY <1>2, <1>3, <1>4, <2>3
  <2> QED
    BY <2>1, <2>2, <2>3
<1>7. (t + o) % Size \in Int
  BY <1>3, RingNumbers, RemainderRange, Zenon
<1>8. v \in [Cells -> Bytes]
  <2>1. SubSeq(data, 1, n) \in Seq(Bytes)
    BY <1>2, <1>6, TakenOfSlice, Zenon
  <2> QED
    BY <1>1, <1>7, <2>1, WrittenTyped, Zenon DEF v
<1>9. RingInv' /\ Available(ring)' = a
  <2>1. (t - h) % Word <= Mask
    <3>1. a <= M
      BY <1>1, <1>3
    <3> QED
      BY <1>1, <3>1, Zenon DEF M
  <2> QED
    BY <1>1, <1>5, <1>8, <2>1, RingOfInv, Zenon
<1>10. ring'.head = ring.head /\ ring'.vec = v
  BY <1>5, Zenon DEF RingOf, h
<1>11. Promise!Put(o, data, n)
  <2>1. CASE a + o + n <= M
    BY <1>2, <1>3, <1>6, <1>10, <2>1, PutWindow, Zenon DEF a, M, v, t
  <2>2. CASE n = 0
    <3>1. Len(SubSeq(data, 1, n)) = 0
      BY <1>2, <1>6, <2>2, TakenOfSlice, Zenon
    <3>2. v = ring.vec
      BY <1>1, <1>7, <3>1, NothingWritten, Zenon DEF v
    <3>3. Window' = [k \in 0 .. M - 1 |-> ring.vec[(ring.head + k) % Size]]
      BY <1>10, <3>2, Zenon DEF Window, M
    <3>4. Window = [k \in 0 .. M - 1 |-> ring.vec[(ring.head + k) % Size]]
      BY Zenon DEF Window, M
    <3>5. \A k \in 0 .. M - 1 : ~(k >= a + o /\ k < a + o + n)
      BY <1>3, <2>2
    <3>6. Window' = [k \in 0 .. M - 1 |->
                            IF k >= a + o /\ k < a + o + n THEN data[k - a - o + 1] ELSE Window[k]]
      BY <3>3, <3>4, <3>5, Zenon
    <3> QED
      BY <3>6, Zenon DEF Promise!Put, Promise!Positions, a, M
  <2> QED
    BY <1>6, <2>1, <2>2
<1>12. n = IF o > M - a THEN 0 ELSE Promise!Lesser(Len(data), M - a - o)
  <2>1. M - a < o <=> o > M - a
    BY <1>3
  <2> QED
    BY <1>4, <2>1, Zenon DEF Promise!Lesser
<1> QED
  BY <1>9, <1>11, <1>12, Zenon DEF Promise!WriteAhead, a, M

\* Every position of the window holds a byte.
LEMMA WindowTyped ==
  ASSUME NEW h \in 0 .. Word - 1, NEW v \in [Cells -> Bytes]
  PROVE  [k \in 0 .. Mask - 1 |-> v[(h + k) % Size]] \in [0 .. Mask - 1 -> Bytes]
<1>1. ASSUME NEW k \in 0 .. Mask - 1 PROVE v[(h + k) % Size] \in Bytes
  <2>1. h + k \in Int
    BY RingNumbers
  <2>2. (h + k) % Size \in Cells
    BY <2>1, CellOfCounter, Zenon
  <2> QED
    BY <2>2, Zenon
<1> QED
  BY <1>1, Zenon

\* seek_tail makes readable what was written ahead.
LEMMA SeekTailStep ==
  ASSUME RingInv, NEW n \in 1 .. MaxLen, SeekTail(n)
  PROVE  RingInv' /\ Promise!Advance(n) /\ n - 1 \in 0 .. Mask - 1
<1> DEFINE a == Available(ring)
           h == ring.head
           t == ring.tail
<1>1. /\ h \in 0 .. Word - 1 /\ t \in 0 .. Word - 1 /\ ring.vec \in [Cells -> Bytes]
      /\ ring = RingOf(h, t, ring.vec)
      /\ a = (t - h) % Word /\ a \in 0 .. Mask /\ Space(ring) = Mask - a
  BY RingParts, Zenon DEF RingOf
<1>2. n <= Mask - a
  BY <1>1, Zenon DEF SeekTail
<1>3. ring' = RingOf(h, (t + n) % Word, ring.vec)
  <2>1. ring' = [ring EXCEPT !.tail = (t + n) % Word]
    BY Zenon DEF SeekTail, seek_tail, wrapping_add
  <2> HIDE DEF h, t
  <2> QED
    BY <1>1, <2>1, RingOfParts
<1> HIDE DEF a, h, t
<1>4. /\ n \in Nat /\ a + n <= Mask /\ a + n < Word /\ t + n \in Int
      /\ n - 1 \in 0 .. Mask - 1
  BY <1>1, <1>2, RingNumbers, LengthAssumption
<1>5. (t + n) % Word \in 0 .. Word - 1
  BY <1>4, RingNumbers, RemainderRange, Zenon
<1>6. (((t + n) % Word) - h) % Word = a + n
  BY <1>1, <1>4, TailMoves
<1>7. (((t + n) % Word) - h) % Word <= Mask
  BY <1>4, <1>6, Zenon
<1>8. RingInv' /\ Available(ring)' = a + n
  BY <1>1, <1>3, <1>5, <1>6, <1>7, RingOfInv, Zenon
<1>9. Window' = Window
  <2>1. ring'.head = ring.head /\ ring'.vec = ring.vec
    BY <1>3, Zenon DEF RingOf, h
  <2> QED
    BY <2>1, Zenon DEF Window
<1> QED
  BY <1>2, <1>4, <1>8, <1>9, Zenon DEF Promise!Advance, a

\* Moving head over n bytes that are available slides the window.
LEMMA ConsumeStep ==
  ASSUME RingInv, NEW n \in Nat, n <= Available(ring), ring' = seek_head(ring, n)
  PROVE  RingInv' /\ Promise!Consume(n) /\ n \in 0 .. Mask
<1> DEFINE a == Available(ring)
           h == ring.head
           t == ring.tail
           g == (h + n) % Word
<1>1. /\ h \in 0 .. Word - 1 /\ t \in 0 .. Word - 1 /\ ring.vec \in [Cells -> Bytes]
      /\ ring = RingOf(h, t, ring.vec)
      /\ a = (t - h) % Word /\ a \in 0 .. Mask
  BY RingParts, Zenon DEF RingOf
<1>2. ring' = RingOf(g, t, ring.vec)
  <2>1. ring' = [ring EXCEPT !.head = g]
    BY Zenon DEF seek_head, wrapping_add
  <2> HIDE DEF h, t, g
  <2> QED
    BY <1>1, <2>1, RingOfParts
<1>3. n <= a
  OBVIOUS
<1> HIDE DEF a, h, t
<1>4. h + n \in Int /\ a - n <= Mask /\ n \in 0 .. Mask /\ Mask \in Nat /\ h \in Int
  BY <1>1, <1>3, RingNumbers
<1>5. g \in 0 .. Word - 1
  BY <1>4, RingNumbers, RemainderRange, Zenon
<1>6. (t - g) % Word = a - n
  BY <1>1, <1>3, HeadMoves
<1>7. (t - g) % Word <= Mask
  BY <1>4, <1>6, Zenon
<1>8. RingInv' /\ Available(ring)' = a - n
  BY <1>1, <1>2, <1>5, <1>6, <1>7, RingOfInv, Zenon
<1>9. ring'.head = g /\ ring'.vec = ring.vec
  BY <1>2, RingOfParts
<1>10. Window' = [k \in 0 .. Mask - 1 |-> ring.vec[(g + k) % Size]]
  BY <1>9, Zenon DEF Window, Mask
<1>11. Window' \in [0 .. Mask - 1 -> Bytes]
  BY <1>1, <1>5, <1>10, WindowTyped, Zenon
<1>12. ASSUME NEW k \in 0 .. Mask - 1, k + n < Mask PROVE Window'[k] = Window[k + n]
  <2>1. /\ k \in Int /\ g \in Int /\ k + n \in 0 .. Mask - 1 /\ (h + n) + k = h + (k + n)
        /\ Size \in Nat \ {0}
    BY <1>4, <1>5, <1>12, RingNumbers
  <2> DEFINE x == h + n
  <2>2. x \in Int
    BY <1>4
  <2> HIDE DEF x
  <2>3. (x % Word) % Size = x % Size
    BY <2>2, CellOfCounter, Zenon
  <2>4. (((x % Word) % Size) + k) % Size = ((x % Word) + k) % Size
    BY <2>1, RemainderOfSum, Zenon DEF x
  <2>5. ((x % Size) + k) % Size = (x + k) % Size
    BY <2>1, <2>2, RemainderOfSum, Zenon
  <2>6. (g + k) % Size = (h + (k + n)) % Size
    BY <2>1, <2>3, <2>4, <2>5, Zenon DEF x
  <2>7. Window[k + n] = ring.vec[(h + (k + n)) % Size]
    BY <2>1, Zenon DEF Window, h
  <2> QED
    BY <1>10, <2>6, <2>7, Zenon
<1> QED
  BY <1>3, <1>4, <1>8, <1>11, <1>12, Zenon DEF Promise!Consume, Promise!Positions, a

\* The reads move head by no more than what is available.
LEMMA ReadStep ==
  ASSUME RingInv, NEW n \in 0 .. MaxLen, NEW increment \in 0 .. MaxLen,
         Read(n, increment)
  PROVE  RingInv' /\ \E c \in 0 .. Mask : Promise!Consume(c)
<1> DEFINE m == MinOf(increment, MinOf(Available(ring), n))
<1>1. Available(ring) \in 0 .. Mask /\ Mask \in Nat
  BY RingParts, RingNumbers, Zenon
<1>2. m \in Nat /\ m <= Available(ring)
  BY <1>1, LengthAssumption DEF MinOf
<1>3. ring' = seek_head(ring, m)
  BY Zenon DEF Read, read_from_head_with_increment
<1> HIDE DEF m
<1> QED
  BY <1>2, <1>3, ConsumeStep, Zenon

\* So does seek_head, which checks its argument first.
LEMMA SeekHeadStep ==
  ASSUME RingInv, NEW n \in 1 .. MaxLen, SeekHead(n)
  PROVE  RingInv' /\ \E c \in 0 .. Mask : Promise!Consume(c)
<1>1. Available(ring) \in 0 .. Mask /\ Mask \in Nat
  BY RingParts, RingNumbers, Zenon
<1>2. n \in Nat /\ n <= Available(ring)
  BY <1>1, LengthAssumption DEF SeekHead
<1>3. ring' = seek_head(ring, n)
  BY Zenon DEF SeekHead
<1> QED
  BY <1>2, <1>3, ConsumeStep, Zenon

\* clear empties the window.
LEMMA ClearStep ==
  ASSUME RingInv, Clear
  PROVE  RingInv' /\ Promise!Clear
<1>1. ring.vec \in [Cells -> Bytes] /\ ring = RingOf(ring.head, ring.tail, ring.vec)
  BY RingParts, Zenon DEF RingOf
<1>2. ring' = RingOf(0, 0, ring.vec)
  <2>1. ring' = [[ring EXCEPT !.head = 0] EXCEPT !.tail = 0]
    BY Zenon DEF Clear, clear
  <2>2. [ring EXCEPT !.head = 0] = RingOf(0, ring.tail, ring.vec)
    BY <1>1, RingOfParts
  <2>3. [RingOf(0, ring.tail, ring.vec) EXCEPT !.tail = 0] = RingOf(0, 0, ring.vec)
    BY RingOfParts
  <2> QED
    BY <2>1, <2>2, <2>3, Zenon
<1>3. 0 \in 0 .. Word - 1 /\ 0 - 0 = 0 /\ 0 <= Mask
  BY RingNumbers
<1>4. 0 % Word = 0
  BY <1>3, RingNumbers, SmallRemainder, Zenon
<1>5. RingInv' /\ Available(ring)' = 0
  BY <1>1, <1>2, <1>3, <1>4, RingOfInv, Zenon
<1>6. ring'.head = 0 /\ ring'.vec = ring.vec
  BY <1>2, Zenon DEF RingOf
<1>7. Window' = [k \in 0 .. Mask - 1 |-> ring.vec[(0 + k) % Size]]
  BY <1>6, Zenon DEF Window, Mask
<1>8. Window' \in [0 .. Mask - 1 -> Bytes]
  BY <1>1, <1>3, <1>7, WindowTyped, Zenon
<1> QED
  BY <1>5, <1>8, Zenon DEF Promise!Clear, Promise!Positions

\* A new ring is an empty window.
LEMMA NewRingWindow ==
  ASSUME RingInit
  PROVE  RingInv /\ Promise!Init
<1> DEFINE v == [c \in Cells |-> NilByte]
<1>1. ring = RingOf(0, 0, v)
  BY Zenon DEF RingInit, NewRing, RingOf
<1>2. v \in [Cells -> Bytes]
  BY Zenon, BytesAssumption
<1> HIDE DEF v
<1>3. ring.head = 0 /\ ring.tail = 0 /\ ring.vec = v
  BY <1>1, Zenon DEF RingOf
<1>4. 0 \in 0 .. Word - 1 /\ 0 - 0 = 0 /\ 0 <= Mask
  BY RingNumbers
<1>5. 0 % Word = 0
  BY <1>4, RingNumbers, SmallRemainder, Zenon
<1>6. Available(ring) = 0
  BY <1>3, <1>4, <1>5, Zenon DEF Available, wrapping_sub
<1>7. RingTypeOK
  BY <1>1, <1>2, <1>4 DEF RingTypeOK, Counters, RingOf
<1>8. Window = [k \in 0 .. Mask - 1 |-> v[(0 + k) % Size]]
  BY <1>3, Zenon DEF Window, Mask
<1>9. Window \in [0 .. Mask - 1 -> Bytes]
  BY <1>2, <1>4, <1>8, WindowTyped, Zenon
<1> QED
  BY <1>4, <1>6, <1>7, <1>9, Zenon DEF RingInv, Promise!Init, Promise!Positions

\* Every call keeps the invariant and is a step of the window.
LEMMA NextWindow ==
  ASSUME RingInv, [RingNext]_ring
  PROVE  RingInv' /\ [Promise!Next]_(Promise!vars)
<1>1. CASE UNCHANGED ring
  <2>1. RingInv'
    BY <1>1, Zenon DEF RingInv, RingTypeOK, Available, wrapping_sub, Mask
  <2>2. Window' = Window /\ Available(ring)' = Available(ring)
    BY <1>1, Zenon DEF Window, Available, wrapping_sub
  <2> QED
    BY <2>1, <2>2, Zenon DEF Promise!vars
<1>2. CASE RingNext
  <2>1. ASSUME NEW data \in Slices, WriteAtTail(data) PROVE RingInv' /\ Promise!Next
    <3>1. data \in Promise!Slices
      BY Zenon DEF Slices, Promise!Slices
    <3> QED
      BY <2>1, <3>1, WriteStep, Zenon DEF Promise!Next
  <2>2. ASSUME NEW data \in Slices, NEW o \in 0 .. MaxLen, WriteAhead(o, data)
        PROVE  RingInv' /\ Promise!Next
    <3>1. data \in Promise!Slices
      BY Zenon DEF Slices, Promise!Slices
    <3> QED
      BY <2>2, <3>1, WriteAheadStep, Zenon DEF Promise!Next
  <2>3. ASSUME NEW n \in 1 .. MaxLen, SeekTail(n) PROVE RingInv' /\ Promise!Next
    <3>1. RingInv' /\ Promise!Advance(n) /\ n - 1 \in Promise!Positions
      BY <2>3, SeekTailStep, Zenon DEF Promise!Positions
    <3>2. (n - 1) + 1 = n
      BY LengthAssumption
    <3>3. Promise!Advance((n - 1) + 1)
      BY <3>1, <3>2, Zenon
    <3> QED
      BY <3>1, <3>3, Zenon DEF Promise!Next
  <2>4. ASSUME NEW n \in 0 .. MaxLen, NEW increment \in 0 .. MaxLen, Read(n, increment)
        PROVE  RingInv' /\ Promise!Next
    BY <2>4, ReadStep, Zenon DEF Promise!Next
  <2>5. ASSUME NEW n \in 1 .. MaxLen, SeekHead(n) PROVE RingInv' /\ Promise!Next
    BY <2>5, SeekHeadStep, Zenon DEF Promise!Next
  <2>6. ASSUME Clear PROVE RingInv' /\ Promise!Next
    BY <2>6, ClearStep, Zenon DEF Promise!Next
  <2> QED
    BY <1>2, <2>1, <2>2, <2>3, <2>4, <2>5, <2>6, Zenon DEF RingNext
<1> QED
  BY <1>1, <1>2

\* In every state the counters are words, the cells hold bytes, and no more than
\* Mask bytes are available: write_at_tail never fills the last cell.
THEOREM RingInvariant == RingSpec => []RingInv
<1>1. RingInit => RingInv
  BY NewRingWindow
<1>2. RingInv /\ [RingNext]_ring => RingInv'
  BY NextWindow
<1> QED
  BY <1>1, <1>2, PTL DEF RingSpec

\* read_from_head returns the oldest unread bytes in order, and no more than there
\* are, however often the counters and the cells have wrapped.
THEOREM ReadsInOrder == RingSpec => []ReadsWindow
<1>1. ASSUME RingInv PROVE ReadsWindow
  <2> SUFFICES ASSUME NEW n \in 0 .. MaxLen
               PROVE  HeadRead(ring, n) = [k \in 1 .. MinOf(n, Available(ring)) |-> Window[k - 1]]
    BY DEF ReadsWindow
  <2> DEFINE a == Available(ring)
             h == ring.head
             m == MinOf(a, n)
  <2>1. a \in 0 .. Mask /\ Mask \in Nat /\ h \in Int /\ Size \in Nat \ {0}
    BY <1>1, RingParts, RingNumbers
  <2>2. m \in Nat /\ m <= Mask /\ MinOf(n, a) = m
    BY <2>1, LengthAssumption DEF MinOf
  <2>3. HeadRead(ring, n) = [k \in 1 .. m |-> ring.vec[((h % Size) + (k - 1)) % Size]]
    BY Zenon DEF HeadRead, wrapped_read, CellAfter
  <2> HIDE DEF a, h, m
  <2>4. ASSUME NEW k \in 1 .. m
        PROVE  ring.vec[((h % Size) + (k - 1)) % Size] = Window[k - 1]
    <3>1. k - 1 \in 0 .. Mask - 1 /\ k - 1 \in Int
      BY <2>1, <2>2
    <3>2. ((h % Size) + (k - 1)) % Size = (h + (k - 1)) % Size
      BY <2>1, <3>1, RemainderOfSum, Zenon
    <3>3. Window[k - 1] = ring.vec[(h + (k - 1)) % Size]
      BY <3>1, Zenon DEF Window, h
    <3> QED
      BY <3>2, <3>3, Zenon
  <2>5. HeadRead(ring, n) = [k \in 1 .. m |-> Window[k - 1]]
    BY <2>3, <2>4, Zenon
  <2> QED
    BY <2>2, <2>5, Zenon DEF a
<1> QED
  BY <1>1, RingInvariant, PTL

\* RingBuffer implements a window over a byte stream: no write touches an unread
\* byte, and what was written ahead is there when the tail gets to it.
THEOREM RingImplementsWindow == RingSpec => ImplementsWindow
<1>1. RingInit => RingInv /\ Promise!Init
  BY NewRingWindow
<1>2. RingInv /\ [RingNext]_ring => RingInv' /\ [Promise!Next]_(Promise!vars)
  BY NextWindow
<1> QED
  BY <1>1, <1>2, PTL DEF RingSpec, ImplementsWindow, Promise!Spec
=============================================================================

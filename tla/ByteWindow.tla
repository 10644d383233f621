------------------------------ MODULE ByteWindow ------------------------------
(***************************************************************************)
(* What RingBuffer promises, without counters or masks: a window of        *)
(* Capacity byte positions starting at the next byte to read.  The first   *)
(* avail positions are readable; positions after them may be written ahead *)
(* of time and become readable when the tail is moved over them.           *)
(***************************************************************************)
EXTENDS Integers, Sequences

CONSTANTS Bytes, Capacity, MaxLen

VARIABLES window, avail

vars == <<window, avail>>

Positions == 0 .. Capacity - 1
Slices == UNION {[1..n -> Bytes] : n \in 0..MaxLen}
Lesser(a, b) == IF a <= b THEN a ELSE b

Init ==
  /\ avail = 0
  /\ window \in [Positions -> Bytes]

\* The first n bytes of data go to the n positions from avail + offset on.
Put(offset, data, n) ==
  window' = [k \in Positions |->
               IF k >= avail + offset /\ k < avail + offset + n
               THEN data[k - avail - offset + 1] ELSE window[k]]

AppendData(data) ==
  LET n == Lesser(Len(data), Capacity - avail) IN
  Put(0, data, n) /\ avail' = avail + n

WriteAhead(offset, data) ==
  LET n == IF offset > Capacity - avail THEN 0
           ELSE Lesser(Len(data), Capacity - avail - offset) IN
  Put(offset, data, n) /\ UNCHANGED avail

Advance(n) ==
  /\ n <= Capacity - avail
  /\ avail' = avail + n
  /\ UNCHANGED window

\* The window slides over n bytes that were read.
Consume(n) ==
  /\ n <= avail
  /\ avail' = avail - n
  /\ window' \in [Positions -> Bytes]
  /\ \A k \in Positions : k + n < Capacity => window'[k] = window[k + n]

Clear ==
  /\ avail' = 0
  /\ window' \in [Positions -> Bytes]

Next ==
  \/ \E n \in 0..Capacity : Consume(n)
  \/ \E data \in Slices : AppendData(data)
  \/ \E data \in Slices, offset \in 0..MaxLen : WriteAhead(offset, data)
  \/ \E n \in Positions : Advance(n + 1)
  \/ Clear

Spec == Init /\ [][Next]_vars
=============================================================================

-------------------------------- MODULE MCState --------------------------------
(***************************************************************************)
(* The data structures of framework/src/state for TLC: the stores of       *)
(* per-flow state, the ring buffer and the reordered buffer.  They do not  *)
(* interact: the initial state says which of them is used.                 *)
(***************************************************************************)
EXTENDS MergeableStore, CpMergeable, DpMergeable, RingStream, MCReorderedBuffer

CONSTANTS h1, h2, m1, m2

VARIABLE subject

allVars == <<subject, vars, ring, cpStore, dpStore, bufferVars>>

\* Two data paths with a map each, or two clones with one map.
TwoMaps == <<m1, m2>>
OwnOrShared == {[h \in Handles |-> IF h = h1 THEN m1 ELSE m2], [h \in Handles |-> m1]}

StateInit ==
  /\ subject \in {"ring", "store", "cp_store", "dp_store", "buffer"}
  /\ RingInit /\ Init /\ CpInit /\ DpInit /\ BufferInit
  /\ subject # "store" => map_of = [h \in Handles |-> m1]
  /\ subject # "buffer" => client.order = "in_order"

StateNext ==
  /\ UNCHANGED subject
  /\ \/ subject = "ring" /\ RingNext /\ UNCHANGED <<vars, cpStore, dpStore, bufferVars>>
     \/ subject = "store" /\ Next /\ UNCHANGED <<ring, cpStore, dpStore, bufferVars>>
     \/ subject = "cp_store" /\ CpNext /\ UNCHANGED <<vars, ring, dpStore, bufferVars>>
     \/ subject = "dp_store" /\ DpNext /\ UNCHANGED <<vars, ring, cpStore, bufferVars>>
     \/ subject = "buffer" /\ BufferNext /\ UNCHANGED <<vars, ring, cpStore, dpStore>>

StateSpec == StateInit /\ [][StateNext]_allVars
=============================================================================

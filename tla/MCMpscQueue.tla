----------------------------- MODULE MCMpscQueue -----------------------------
(* Finite instances of MpscQueue.  Mbufs are interchangeable, and so are    *)
(* the producer handles other than the first.                               *)
EXTENDS MpscQueue, TLC

Symmetry == Permutations(Mbufs) \cup Permutations(Producers \ {FirstProducer})
=============================================================================

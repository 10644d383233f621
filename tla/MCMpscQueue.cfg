CONSTANTS
  Producers = {p1, p2}
  FirstProducer = p1
  Mbufs = {m1, m2, m3, m4}
  NoMbuf = NoMbuf
  Slots = 4
  Word = 8
  MaxBatch = 1
SPECIFICATION Spec
SYMMETRY Symmetry
INVARIANTS SlotsExclusive OneOwner
PROPERTY ImplementsFifo

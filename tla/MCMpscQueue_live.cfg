CONSTANTS
  Producers = {p1, p2}
  FirstProducer = p1
  Mbufs = {m1, m2}
  NoMbuf = NoMbuf
  Slots = 4
  Word = 8
  MaxBatch = 2
SPECIFICATION FairSpec
INVARIANT IInv
PROPERTIES ReservationsCommit CommittedAreDequeued

CONSTANTS
  Producers = {p1}
  FirstProducer = p1
  Mbufs = {m1, m2, m3}
  NoMbuf = NoMbuf
  Slots = 2
  Word = 8
  MaxBatch = 2
SPECIFICATION Spec
INVARIANT NoMbufLost

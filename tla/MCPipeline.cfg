CONSTANTS
  Mbufs = {m1, m2, m3}
  NGroups = 2
  BatchSize = 3
  QueueSize = 2
  Ports = {"physical", "virtual"}
  Programs <- SomePrograms
  Buffers = {b1, b2}
  Capacity = 2
  GroupSize = 1
  Sizes = {1, 2}
  Depths <- SomeDepths
SPECIFICATION AllSpec
INVARIANTS OneOwner InOrder SentAsSpecified SeesItsHeader CalledAsProgrammed NothingLeftBehind
PROPERTIES LostOnlyWhenFull PacketsLeave ExecReturns

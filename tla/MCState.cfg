CONSTANTS
  h1 = h1
  h2 = h2
  m1 = m1
  m2 = m2
  Handles = {h1, h2}
  Maps <- TwoMaps
  Sharings <- OwnOrShared
  Flows = {f1}
  Incs = {1, 2}
  Absent = Absent
  CacheSize = 1
  MaxCacheSize = 2
  MaxCached = 2
  Size = 4
  Word = 12
  Bytes = {0, 1}
  NilByte = 0
  MaxLen = 4
  Paths = {d1, d2}
  FirstPath = d1
  Delay = 2
  ChannelSize = 2
  MaxUpdates = 4
  CpFlows = {f1, f2}
  DpFlows = {f1, f2}
  DpIncs = {1, 2}
  DpCacheSize = 3
  BufferSize = 8
  BufferWord = 64
  SeqWord = 32
  LenWord = 16
  Segments = 2
  Clients <- SupportedClients
SPECIFICATION StateSpec
INVARIANTS FlowsKept ReadsWindow CountedAtMostOnce OnlyUpdatedStored
  CountersAgree ReadableInOrder NoFault
PROPERTIES SyncShowsUnlocked ImplementsWindow LostOnlyWhenChannelFull

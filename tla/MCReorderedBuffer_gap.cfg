CONSTANTS
  BufferSize = 8
  BufferWord = 64
  SeqWord = 32
  LenWord = 16
  Segments = 2
  Clients <- AnyOrder
SPECIFICATION BufferSpec
INVARIANT ReadableInOrder

CHECK_DEADLOCK FALSE

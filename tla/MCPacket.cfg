CONSTANTS
  BufLen = 8
  Headroom = 1
  USize = 64
  Headers <- SomeHeaders
  Arrivals <- SomeArrivals
  Bodies <- SomeBodies
  Values = {5}
  MaxHeaders = 2
  MaxChange = 2
  MaxChanges = 4
  MaxCalls = 3
  Received <- SomeBytes
  Samples <- SomeArguments
  NewFlows <- SomeFlows
  Checksums = {{}, {0, 15}}
  Performance = FALSE
SPECIFICATION AllSpec
INVARIANTS LayoutKept PointersAgree FieldsKept FlowsRoundTrip
CHECK_DEADLOCK FALSE

CONSTANTS
  Cores = {1, 2}
  NotInteger = 0
  Backend <- SomeBackends
  MaxQueues = {1, 2, 3}
  MaxConnections = 3
  MaxEvents = 4
SPECIFICATION AllSpec
INVARIANTS QueuesServed DevicesClosed EventsMatch
PROPERTY EventsServed
CHECK_DEADLOCK FALSE

CONSTANTS
  Cores = {c1, c2}
  NoCore = NoCore
  MaxTasks = 2
  MaxDepth = 2
  SpuriousWakeups = TRUE
SPECIFICATION FairSpec
CHECK_DEADLOCK FALSE
PROPERTIES CallsReturn RoundRobin
INVARIANTS IInv

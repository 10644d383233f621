CONSTANTS
  Cores = {c1, c2, c3}
  NoCore = NoCore
  MaxTasks = 2
  MaxDepth = 2
  SpuriousWakeups = FALSE
SPECIFICATION Spec
SYMMETRY Symmetry
CHECK_DEADLOCK FALSE
INVARIANTS BarrierPauses TokenIsForThisBarrier PanicsOnlyAfterStop

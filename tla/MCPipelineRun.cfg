\* Small plans, with and without the loop, over two subdomains; every small graph and the
\* stock plans in one pass.
SPECIFICATION MCRunSpec
CONSTANTS
  s1 = s1
  s2 = s2
  NotANumber = NotANumber
  Module <- MCModule
  Entity <- MCEntity
  Index <- MCIndex
  Plans <- MCPlans
  RunOnce <- MCRunOnce
  Discoverers <- MCDiscoverers
  Sub <- MCSub
  LoopConfigs <- SmallLoops
INVARIANTS
  TypeOK
  TopologicalOrder
  RejectsOnlyCycles
  StableOrder
  LedgerIsComplete
  LastRunsRespectOrder
PROPERTIES
  ImplementsSort
  ConvergedMeansCovered
  RunEnds
\* A run stops when it is done, or when its plan is rejected.
CHECK_DEADLOCK FALSE

\* The stock pentest pipeline under the discovery loop.
SPECIFICATION RunSpec
CONSTANTS
  s1 = s1
  s2 = s2
  NotANumber = NotANumber
  Module <- MCModule
  Entity <- MCEntity
  Index <- MCIndex
  Plans <- StockLoopPlans
  RunOnce <- MCRunOnce
  Discoverers <- StockDiscoverers
  Sub <- OneSub
  LoopConfigs <- StockLoops
INVARIANTS
  DirFuzzHitsFetched
CHECK_DEADLOCK FALSE

\* Two rounds of two actions, three requests in all, two AI calls per process.
SPECIFICATION Spec
CONSTANTS
  word = word
  MaxRequests = 3
  MaxIterations = 2
  PerIteration = 2
  MaxAiCalls = 2
  TwoStage = TRUE
  Seed <- MCSeed
  MaxFaults = 2
INVARIANTS
  BudgetBounded
  NoDuplicateFindings
  EvidenceIsReported
PROPERTIES
  CheckpointNeverRegresses
  NoProbesAfterLoop
  AnalysisFinishes

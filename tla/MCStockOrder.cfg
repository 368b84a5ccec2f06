\* The stock plans only, against the place the triage stage claims for itself.
SPECIFICATION Spec
CONSTANTS
  Module <- StageNames
  Entity <- StageEntities
  Index <- RegistrationIndex
  Plans <- StockPlans
INVARIANTS
  TriageBeforeAI
CHECK_DEADLOCK FALSE

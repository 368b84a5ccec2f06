\* Three levels of recursion, two threads; one invocation for all names of a level, or two
\* passes for each name.
SPECIFICATION Spec
CONSTANTS
  Item <- MCItem
  Inputs <- MCInputs
  Seeds = TRUE
  None = "none"
  GroupOf <- MCGroupOf
  Server <- MCServer
  Batches = {TRUE, FALSE}
  Passes = 2
  Finds <- MCFinds
  InScope <- MCInScope
  Workers = 2
  Depth = 3
INVARIANTS
  HostsAreSerial
  LedgerIsOrdered
  SuccessIsAccounted
  AllOrNothing
  NoRescan
PROPERTIES
  StageReturns
\* The stage stops when it is done or has failed.
CHECK_DEADLOCK FALSE

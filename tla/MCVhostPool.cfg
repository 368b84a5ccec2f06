\* The pool over the inputs of vhost discovery.
SPECIFICATION Spec
CONSTANTS
  Item <- VhostItem
  Inputs <- VhostInputs
  Seeds = TRUE
  None = "none"
  GroupOf <- VhostGroupOf
  Server <- VhostServer
  Batches = {FALSE}
  Passes = 1
  Finds <- VhostFinds
  InScope <- VhostItem
  Workers = 2
  Depth = 1
INVARIANTS
  ServersAreSerial
CHECK_DEADLOCK FALSE

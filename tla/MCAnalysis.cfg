SPECIFICATION QueriesSpec
CONSTANTS
  Weight <- MCWeight
  ParamClasses <- MCParamClasses
  Threshold = 2
  TopN = 3
  ContextScope = "per_host"
  HostRoots = TRUE
  PerHost = 2
  ContextTopN = 2
  MaxNodes = 4
  Hosts <- MCHosts
  Shapes <- MCShapes
  Around <- MCAround
  HostEdges <- MCHostEdges
  FirstKey = 100
  Edges <- MCEdges
  Ids <- MCIds
  MaxStored = 4
  MaxFindings = 1
  MaxEdges = 3
  Depth = 3
INVARIANTS
  SignalIsNeverDemoted
  LeadsComeFirst
  HostsShareContext
  QueriesAreExact
\* The inputs stop growing at their bounds.
CHECK_DEADLOCK FALSE

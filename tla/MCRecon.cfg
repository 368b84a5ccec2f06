\* Three rounds of the stock stages seen from outside, with a resolver and a body fetch that lose answers.
SPECIFICATION Spec
CONSTANTS
  scope <- MCScope
  Ip <- MCIp
  Private <- MCPrivate
  Dns <- MCDns
  Wildcard <- MCWildcard
  Serving <- MCServing
  Passive <- MCPassive
  Leaked <- MCLeaked
  Words <- MCWords
  AiWords <- MCAiWords
  Permutations <- MCPermutations
  Certificate <- MCCertificate
  VirtualHosts <- MCVirtualHosts
  NamedVirtualHosts <- MCNamedVirtualHosts
  Prefer = "public"
  Enumerate = "auto"
  SkipOnWildcard = TRUE
  WildcardFilter = TRUE
  MaxIps = 2
  MaxCandidates = 4
  UseAi = TRUE
  Unreliable <- MCUnreliable
  Site <- MCSite
  Crawlable <- MCCrawlable
  Archived <- MCArchived
  ApiSpec <- MCApiSpec
  DirWords <- MCDirWords
  AiDirs <- MCAiDirs
  ParamWords <- MCParamWords
  AiParamWords <- MCAiParamWords
  RiskyParams <- MCRisky
  Vulnerable <- MCVulnerable
  Uniform <- MCUniform
  MaxHosts = 9
  MaxTargets = 9
  MaxUrls = 9
  MaxBodies = 9
  MaxEndpoints = 9
  MinEndpoints = 2
  Name <- MCName
  Order <- MCOrder
  RunOnce <- MCRunOnce
  Rounds = 3
  Failing <- MCFailing
INVARIANTS
  InScopeOnly
  GuessesAreReal
  ConvergedMeansProbed
  UrlsBelong
  SecretsAreLeads
\* A scan stops when it is done.
CHECK_DEADLOCK FALSE

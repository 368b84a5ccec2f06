SPECIFICATION Spec
CONSTANTS
  upper = upper
  lower = lower
  other = other
  entity = entity
  another = another
  v1 = v1
  v2 = v2
  t1 = t1
  t2 = t2
  nuclei = nuclei
  recon = recon
  pentest = pentest
  Null = Null
  Spelling = {upper, lower, other}
  Key = {entity, another}
  CanonicalKey <- Canonical
  Attr = {status}
  status = status
  Value = {v1, v2}
  Tool = {t1, t2}
  Target = {target}
  target = target
  Finding <- Findings
  Batch <- Batches
  ScanStages <- Scanned
  ToolStages = {nuclei}
  AiStages <- Ais
  Mode <- Modes
  AiStagesOf <- StagesOf
  MaxProcesses = 3
  MaxWrites = 3
INVARIANTS
  StoredIsMerged
  NoDanglingRows
  NoPileUp
PROPERTIES
  OutcomeIsHonest
  ScanIsKept
  ImplementsAtomicStore
CHECK_DEADLOCK FALSE

\* Smart reload, with a Min of zero or above it: created twice, edited once, with one fault or foreground deletion.
SPECIFICATION FairSpec
CONSTANTS
  nsA = nsA
  web = web
  p1 = p1
  r1 = r1
  r2 = r2
  i1 = i1
  i2 = i2
  Namespace = {nsA}
  Name = {web}
  Port = {p1}
  Rule = {r1, r2}
  SuffixOf <- Alone
  Microservice <- One
  Image = {i1, i2}
  NoRule = NoRule
  Wishes <- Both
  None = None
  SmartReload = TRUE
  MaxUid = 2
  MaxEdits = 1
  MaxFaults = 1
INVARIANTS RestIsDone
PROPERTIES SuccessMeansDeployed DeletionCompletes Quiesces DeploymentConverges
CHECK_DEADLOCK FALSE

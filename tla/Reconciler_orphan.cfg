\* A microservice loses its routing, and is deleted.
SPECIFICATION Spec
CONSTANTS
  nsA = nsA
  web = web
  p1 = p1
  r1 = r1
  r2 = r2
  i1 = i1
  i2 = i2
  Namespace = {nsA}
  Name = {web}
  Port = {p1}
  Rule = {r1, r2}
  SuffixOf <- Alone
  Microservice <- One
  Image = {i1, i2}
  NoRule = NoRule
  Wishes <- Full
  None = None
  SmartReload = FALSE
  MaxUid = 1
  MaxEdits = 1
  MaxFaults = 0
PROPERTIES NoOrphanRoutes
CHECK_DEADLOCK FALSE

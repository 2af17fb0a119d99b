\* As shipped by the Helm chart, SMART_RELOAD=false: one microservice, created twice, edited once, with one fault or foreground deletion.
SPECIFICATION Spec
CONSTANTS
  nsA = nsA
  web = web
  p1 = p1
  r1 = r1
  r2 = r2
  i1 = i1
  i2 = i2
  Namespace = {nsA}
  Name = {web}
  Port = {p1}
  Rule = {r1, r2}
  SuffixOf <- Alone
  Microservice <- One
  Image = {i1, i2}
  NoRule = NoRule
  Wishes <- Full
  None = None
  SmartReload = FALSE
  MaxUid = 2
  MaxEdits = 1
  MaxFaults = 1
INVARIANTS TypeOK
PROPERTIES ImplementsLifecycle FinalizerFirst RouteAfterService FinalizedRoutesGone
CHECK_DEADLOCK FALSE

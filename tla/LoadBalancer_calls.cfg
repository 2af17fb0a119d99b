\* Two callers, two microservices of one name in namespaces one of which ends
\* in the other, two rules.
SPECIFICATION FairSpec
CONSTANTS
  nsA = nsA
  nsB = nsB
  Namespace = {nsA, nsB}
  Name = {web}
  Port = {p1}
  Rule = {r1, r2}
  SuffixOf <- Nested
  Worker = {w1, w2}
  NoWorker = NoWorker
  NoCall = NoCall
  MaxVersion = 3
INVARIANTS TypeOK StoreWellFormed
PROPERTIES FreshCallIsAtomic FreshCallSparesOthers CommitDoesWhatWasAsked ImplementsRouteStore CallReturns

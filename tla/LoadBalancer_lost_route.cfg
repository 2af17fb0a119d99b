\* One caller, two unrelated namespaces: a stale load loses a route.
SPECIFICATION Spec
CONSTANTS
  nsA = nsA
  nsB = nsB
  Namespace = {nsA, nsB}
  Name = {web}
  Port = {p1}
  Rule = {r1}
  SuffixOf <- Unrelated
  Worker = {w1}
  NoWorker = NoWorker
  NoCall = NoCall
  MaxVersion = 3
PROPERTIES OtherRoutesKept

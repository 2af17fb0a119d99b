\* One caller, a namespace that ends in the name of the other.
SPECIFICATION Spec
CONSTANTS
  nsA = nsA
  nsB = nsB
  Namespace = {nsA, nsB}
  Name = {web}
  Port = {p1}
  Rule = {r1}
  SuffixOf <- Nested
  Worker = {w1}
  NoWorker = NoWorker
  NoCall = NoCall
  MaxVersion = 3
PROPERTIES RemovesOnlyItsOwn

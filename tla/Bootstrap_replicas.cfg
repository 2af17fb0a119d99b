\* An upgrade that asks for another number of replicas.
SPECIFICATION Spec
CONSTANTS
  a = a
  b = b
  Route = {a}
  Setting <- Settings
  Unset = Unset
  Limit = 3
  None = None
  MaxRev = 1
  MaxFaults = 1
INVARIANTS ReplicaCountApplied

\* A microservice with a range of two to three replicas is reconciled again.
SPECIFICATION Spec
CONSTANTS
  Wishes <- Plain
  MaxReplicas = 3
  None = None
  SmartReload = FALSE
  UserScaler = FALSE
  MaxEdits = 1
  MaxFaults = 0
PROPERTIES UpdateKeepsMin
CHECK_DEADLOCK FALSE

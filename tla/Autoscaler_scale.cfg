\* Odd sections, hasty edits, a user's own autoscaler, two failed requests; under
\* smart reload, which may leave the Deployment alone.
SPECIFICATION FairSpec
CONSTANTS
  Wishes <- Odd
  MaxReplicas = 3
  None = None
  SmartReload = TRUE
  UserScaler = TRUE
  MaxEdits = 3
  MaxFaults = 2
INVARIANTS TypeOK NeverScaledToZero RestAgrees
PROPERTIES ScalerConverges
CHECK_DEADLOCK FALSE

\* Two routes, five replica counts; up to two failed requests, crashes or upgrades.
SPECIFICATION FairSpec
CONSTANTS
  a = a
  b = b
  Route = {a, b}
  Setting <- Settings
  Unset = Unset
  Limit = 3
  None = None
  MaxRev = 3
  MaxFaults = 2
INVARIANTS TypeOK NoNilConfigOnceStored
PROPERTIES StartKeepsRoutes ComesUp

\* The watchdog: a timer of five units outlasts an interval of three, but not
\* with a probe of two that hangs. Five files put on the server, two failures. Two requests for the tiles
\* of one place.
CONSTANTS
  Interval = 3
  ProbeTimeout = 2
  Timeout = 5
  Backlog = 2
  MaxStops = 2
  Versions <- MCVersions
  MaxPublish = 5
  MaxFaults = 2
  Requests = {r1, r2}
  Places = {here}
  NoOne = NoOne
  Grid = 2
SPECIFICATION MCSpec
INVARIANTS
  SlotVerified
  TilesInOrder
PROPERTIES
  
  FrozenDaemonIsReset
  NeverDowngrade
  UpdateArrives
CHECK_DEADLOCK FALSE

SPECIFICATION Spec
CONSTANTS
  Procs = {"bot", "aggregator"}
  Calls = {tool1, tool2, "drain", "probe"}
  tool1 = tool1
  tool2 = tool2
  ProcOf <- Homes
  Recallers = {tool1}
  Drainer = "drain"
  Prober = "probe"
  Items = {x1, x2}
  x1 = x1
  x2 = x2
  NoItem = NoItem
  Window = 0
  Threshold = 1
  InitialOpen = 1
  MaxOpen = 1
  AuthOpen = 3
  Retries <- Attempts
  QueueCap = 1
  MaxAge = 0
  DrainBatch = 2
  AlertPause = 0
  CrashPause = 0
  MaxNow = 1
  MaxFaults = 2
  MaxDeaths = 1
INVARIANTS
  BreakerInv
PROPERTIES
  AlertsArePaced
  OpeningLasts
  LeavesQueueSettled
  QueuedIsQueued
SYMMETRY Perms
CHECK_DEADLOCK FALSE

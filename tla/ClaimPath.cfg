SPECIFICATION PathSpec
CONSTANTS
  r1 = r1
  Runtimes = {r1, r2}
  Tasks = {t1, t2}
  Slots = {s1}
  None = None
  MaxFaults = 1
  MaxMerges = 1
  Watched = {r1, r2}
  Jobs = {j1}
  RuntimeOf <- MCRuntimeOf
  MaxConcurrentTasks = 2
  MaxTrouble = 2
  Providers = {p1, p2}
  SyncLoop = SyncLoop
  MaxDeletions = 2
  MaxMishaps = 1
INVARIANTS
  PathTypeOK
  NeverHidden
  BarrierHolds
  NoTaskDropped
  RuntimesRestored
PROPERTIES
  EventuallyTaken
  CancelledStops
CHECK_DEADLOCK FALSE

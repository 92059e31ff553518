SPECIFICATION Spec
CONSTANTS
  Agents = {a1}
  Runtimes = {r1, r2}
  Issues = {i1}
  Sessions = {}
  QuickCreates = {}
  AutopilotRuns = {}
  Nil = Nil
  Tasks = {1, 2, 3}
  MaxAttempts = 2
  MaxConcurrent = 2
  MaxEnqueues = 2
  MaxMoves = 1
  MaxArchives = 0
  MaxFaults = 1
SYMMETRY RuntimeSymmetry
INVARIANTS
  TypeOK
  IssueSerialised
  RetryOnce
PROPERTIES
  RefinesSerialWork
CHECK_DEADLOCK FALSE

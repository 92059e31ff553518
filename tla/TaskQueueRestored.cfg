SPECIFICATION Spec
CONSTANTS
  Agents = {a1}
  Runtimes = {r1}
  Issues = {i1}
  Sessions = {}
  QuickCreates = {}
  AutopilotRuns = {}
  Nil = Nil
  Tasks = {1}
  MaxAttempts = 1
  MaxConcurrent = 1
  MaxEnqueues = 1
  MaxMoves = 0
  MaxArchives = 1
  MaxFaults = 0
INVARIANTS
  NoStuckWorking
CHECK_DEADLOCK FALSE

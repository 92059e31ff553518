SPECIFICATION FairSpec
CONSTANTS
  Agents = {a1}
  Runtimes = {r1}
  Issues = {i1}
  Sessions = {}
  QuickCreates = {}
  AutopilotRuns = {ar}
  Nil = Nil
  Tasks = {1, 2, 3, 4}
  MaxAttempts = 2
  MaxConcurrent = 1
  MaxEnqueues = 2
  MaxMoves = 0
  MaxArchives = 0
  MaxFaults = 0
INVARIANTS
  
  FailedWorkSuperseded

  
CHECK_DEADLOCK FALSE

SPECIFICATION Spec
CONSTANTS
  Agents = {a1}
  Runtimes = {r1}
  Issues = {}
  Sessions = {s1}
  QuickCreates = {qc}
  AutopilotRuns = {ar}
  Nil = Nil
  Tasks = {1, 2, 3}
  MaxAttempts = 2
  MaxConcurrent = 2
  MaxEnqueues = 2
  MaxMoves = 0
  MaxArchives = 1
  MaxFaults = 0
INVARIANTS
  ChatSerialised
  
  RetryOnce
CHECK_DEADLOCK FALSE

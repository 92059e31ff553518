SPECIFICATION Spec
CONSTANTS
  Agents = {a1}
  Runtimes = {r1, r2}
  Issues = {}
  Sessions = {s1}
  QuickCreates = {}
  AutopilotRuns = {}
  Nil = Nil
  Tasks = {1, 2}
  MaxAttempts = 1
  MaxConcurrent = 2
  MaxEnqueues = 2
  MaxMoves = 1
  MaxArchives = 0
  MaxFaults = 0
SYMMETRY RuntimeSymmetry
INVARIANTS
  ChatSerialised
CHECK_DEADLOCK FALSE

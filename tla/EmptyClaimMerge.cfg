SPECIFICATION Spec
CONSTANTS
  Runtimes = {r1, r2}
  Tasks = {t1}
  Slots = {s1}
  None = None
  MaxFaults = 0
  MaxMerges = 1
INVARIANTS
  NeverStalled
CHECK_DEADLOCK FALSE

SPECIFICATION Spec
CONSTANTS
  Plans = {1}
  Tasks = {1, 2}
  MaxSteps = 1
  MaxFaults = 0
INVARIANTS
  BlockingStepsEnd
CHECK_DEADLOCK FALSE

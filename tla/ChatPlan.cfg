SPECIFICATION Spec
CONSTANTS
  Plans = {1, 2}
  Tasks = {1, 2, 3}
  MaxSteps = 3
  MaxFaults = 1
INVARIANTS
  TypeOK
  SerialSteps
  InOrder
  EndedPlansQuiet
  HooksCurrent
CHECK_DEADLOCK FALSE

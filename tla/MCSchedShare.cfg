\* Three tasks, with the quanta each has received counted.
CONSTANTS
  TASK_SLOTS = 3
  VtimeMod = 16
  MaxSteps = 0
  BootPriorities <- MCBootPriorities
SPECIFICATION ShareSpec
CONSTRAINT ShortRun
INVARIANTS
  FairShare
  VtimeIsLag

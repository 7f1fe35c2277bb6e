\* Four slots, five boot tasks; timer and keyboard; one user step of each task told apart.
CONSTANTS
  TASK_SLOTS = 4
  VtimeMod = 32
  MaxSteps = 1
  BootPriorities <- MCBootPriorities
  Lines = {0, 1}
SPECIFICATION PicFairSpec
INVARIANTS
  TypeOK
  VtimeBounded
  CurrentOwnsCpu
  NoLostWork
  TimerDeliverable
PROPERTY
  NoStarvation

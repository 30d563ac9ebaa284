\* A cycle that begins while the scheduler is blocked.
CONSTANTS
  s0 = s0  s1 = s1
  Setup <- FullSetup
  Slots <- MCSlots
  Tasks <- FullTasks
  None = None
  FirstTask = 0
  Schedule <- FullSchedule
  QueueSize = 6
  Words <- RightWords
SPECIFICATION Spec
INVARIANT CalledEveryCycle
CHECK_DEADLOCK FALSE

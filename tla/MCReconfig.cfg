\* Two slots, three tasks and one; a hardware thread may request a wrong number.
CONSTANTS
  s0 = s0  s1 = s1
  Setup <- MCSetup
  Slots <- MCSlots
  Tasks <- MCTasks
  None = None
  FirstTask = 0
  Schedule <- MCSchedule
  QueueSize = 2
  Words <- AnyWords
SPECIFICATION FairSpec
INVARIANTS
  TypeOK
  LoadsAlone
  OneRunningPerSlot
PROPERTIES
  InTurn
  EveryTaskRuns
\* A timer or scheduler that could not be started leaves the system at rest.
CHECK_DEADLOCK FALSE

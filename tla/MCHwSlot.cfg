\* Any legal owner and any hardware thread.
CONSTANTS
  CmdSets <- MCCmdSets
  Calls <- MCCalls
  FifoSize = 2
  InSize = 1
  OutSize = 1
  SemMax = 1
  MaxSlips = 1
SPECIFICATION FairSpec
INVARIANTS
  TypeOK
  FreeSlotIsQuiet
  NoNullThread
  ExitMatchesRun
PROPERTIES
  ResetOnlyAfterExit
  NoCallWhilePaused
  SlotOfTables
  SuspendReturns
\* The hardware thread need not issue a call, and a join waits for its exit.
CHECK_DEADLOCK FALSE

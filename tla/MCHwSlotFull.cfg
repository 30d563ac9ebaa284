\* A late signal reaches the delegate in a put on a full mailbox.
CONSTANTS
  CmdSets <- MCGetPut
  Calls <- MCCalls
  FifoSize = 2
  InSize = 1
  OutSize = 1
  SemMax = 0
  MaxSlips = 1
SPECIFICATION Spec
INVARIANT NeverOverfull
CHECK_DEADLOCK FALSE

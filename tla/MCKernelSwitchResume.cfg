\* A kernel that was resumed while its calls are still paused.
CONSTANTS
  CmdSets <- KernelCmds
  Calls <- ServerCalls
  Kernels <- MCKernels
  FifoSize = 2
  InSize = 1
  Buffers <- MCBuffers
  OutSize = 2
  SemMax = 0
  MaxSlips = 1
SPECIFICATION FairSwitchSpec
PROPERTY CallsAnswered
CHECK_DEADLOCK FALSE

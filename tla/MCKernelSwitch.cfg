\* Kernel switches under any interleaving of server, delegate, kernel and camera.
CONSTANTS
  CmdSets <- KernelCmds
  Calls <- ServerCalls
  Kernels <- MCKernels
  FifoSize = 2
  InSize = 2
  Buffers <- MCBuffers
  OutSize = 2
  SemMax = 0
  MaxSlips = 1
SPECIFICATION FairSwitchSpec
INVARIANTS
  OverwrittenAtMost
  ProgrammedWhenQuiet
  OneHandshake
PROPERTIES
  NoCallInterrupted
  SwitchFinishes
\* A resumed kernel whose calls stay paused stops the whole system.
CHECK_DEADLOCK FALSE

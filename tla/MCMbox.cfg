\* A software thread and two delegates on a ring of two words, one signal that
\* ends a plain call: safety, refinement and liveness.
CONSTANTS
  t1 = t1  t2 = t2  t3 = t3
  m1 = m1  m2 = m2
  Threads <- MCThreads
  Msg <- MCMsg
  NoThread = NoThread
  NoMsg = NoMsg
  Size = 2
  Ops <- MCOps
  Signalled <- MCSignalled
  MaxSlips = 1
SPECIFICATION FairSpec
INVARIANTS
  TypeOK
  TokensConserved
  NoOverwrite
  TryNeverWaits
PROPERTIES
  Implements
  WaiterServed
\* Every thread may be waiting in a get on an empty ring (or a put on a full one).
CHECK_DEADLOCK FALSE

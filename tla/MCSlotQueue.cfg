\* Two enqueuers (one also calls queue_isempty) and two dequeuers.
CONSTANTS
  e1 = e1  e2 = e2  d1 = d1  d2 = d2
  m1 = m1  m2 = m2
  Enqueuers <- MCEnqueuers
  Dequeuers <- MCDequeuers
  Inspectors <- MCInspectors
  Msg <- MCMsg
  NoThread = NoThread
  NoMsg = NoMsg
  Size = 2
SPECIFICATION FairSpec
INVARIANTS
  PlacesConserved
  NoCollision
PROPERTIES
  Implements
  DequeueServed
\* Every thread may be waiting on its semaphore.
CHECK_DEADLOCK FALSE

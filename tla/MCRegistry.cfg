SPECIFICATION Spec
CONSTANTS
  Functions <- MCFunctions
  NumHwts = 10
  MaxThreads = 3
INVARIANTS
  SlotsAgree
  SlotServesOne
  PanicOnlyOnReuse
\* the process may have ended
CHECK_DEADLOCK FALSE

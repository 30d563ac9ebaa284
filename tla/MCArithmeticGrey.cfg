\* The lines of the hardware grey kernel.
CONSTANTS
  Bits <- MCBits
  IntBits = 6
  Pow <- MCPow
  Fractions = {}
  Clocks = {}
  Height = 9
SPECIFICATION Spec
INVARIANT GreyRowsRight
CHECK_DEADLOCK FALSE

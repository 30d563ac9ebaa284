\* All inputs of the pure computations.
CONSTANTS
  Bits <- MCBits
  IntBits = 6
  Pow <- MCPow
  Fractions <- MCFractions
  Clocks <- MCClocks
  Height = 9
SPECIFICATION Spec
INVARIANTS
  RoundTrip
  ClockTrue
  RowsRight
\* A computation ends.
CHECK_DEADLOCK FALSE

---------------------------- MODULE MCArithmetic ----------------------------
(* The instance of Arithmetic for TLC: the 14-bit numbers with 6 bits before *)
(* the point that rt_control.c and rt_inverse.c exchange, and inputs beyond  *)
(* their range; a frequency for each divider around the range of the         *)
(* register; and a frame of nine lines.                                      *)
EXTENDS Arithmetic

MCBits == 14
MCPow == [n \in 0 .. MCBits |-> 2^n]
MCFractions == -17000 .. 17000
MCClocks == {(100000 * 8) \div d : d \in 1 .. 130} \cup {300000, 500000, 7000, 800001}
=============================================================================

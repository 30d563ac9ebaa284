----------------------------- MODULE Arithmetic -----------------------------
(***************************************************************************)
(* Three computations that run from their inputs to their result without   *)
(* talking to anyone: the fixed-point numbers in the words the stages of   *)
(* the control pipeline exchange (recobop.h), the divider of a clock       *)
(* (reconos_clock_set), and the line buffer of the video kernels.          *)
(* The coding takes one step per binary place, the clock one step, and a   *)
(* kernel one step per output line.                                        *)
(***************************************************************************)
EXTENDS Integers

CONSTANTS
  Bits, IntBits,   (* width of a fixed-point number, and of its integer part  *)
  Pow,             (* the powers of two, up to that of the width              *)
  Fractions,       (* the inputs of fltofi, in halves of the last binary place *)
  Clocks,          (* the requested frequencies, in kHz                       *)
  Height           (* lines of a frame                                        *)

ASSUME ArithmeticAssumption ==
  /\ Bits \in Nat /\ IntBits \in 1 .. Bits - 1
  /\ Fractions \subseteq Int /\ Clocks \subseteq Nat \ {0}
  /\ Height \in Nat /\ Height > 3

\* The powers of two, as pow and << give them.
ASSUME PowAssumption ==
  /\ Pow \in [0 .. Bits -> Nat \ {0}] /\ Pow[1] = 2
  /\ \A m, n \in 0 .. Bits : m + n <= Bits => Pow[m + n] = Pow[m] * Pow[n]

VARIABLES
  asked,           (* what is computed, and for which input                  *)
  result,          (* the word, number or frequency that came out            *)
  place, left, wf, (* fltofi: the binary place it is at, what is left of the  *)
                   (* fraction, and the value of the places it has set        *)
  reg,             (* the register of the clock: its two counters            *)
  row, buf, used   (* a kernel: line it writes next, input line in each part *)
                   (* of its buffer, and the lines the last one came from    *)

coding == <<place, left, wf>>
kernel == <<row, buf, used>>
vars == <<asked, result, coding, reg, kernel>>

Nothing == [what |-> "none", of |-> 0]
Init ==
  /\ asked = Nothing /\ result = 0 /\ reg = <<0, 0>>
  /\ place = 0 /\ left = 0 /\ wf = 0
  /\ row = 0 /\ buf = [p \in 0 .. 3 |-> -1] /\ used = {}

Ask(w, x) == asked = Nothing /\ asked' = [what |-> w, of |-> x]

-----------------------------------------------------------------------------
(* fltofi and fitofl.  A float is an integer number of 2^-(WordBits+1). *)

WordBits == Bits - IntBits
One == Pow[WordBits + 1]

WholeTrunc(f) == IF f >= 0 THEN f \div One ELSE -((-f) \div One) \* mutant: cut towards zero
Whole(f) == f \div One

StartFltofi(f) ==
  /\ Ask("fltofi", f)
  /\ place' = 1 /\ left' = f - Whole(f) * One /\ wf' = 0
  /\ UNCHANGED <<result, reg, kernel>>

\* A place is set when what is left is at least its value.
Place ==
  /\ asked.what = "fltofi" /\ place <= WordBits
  /\ \/ /\ left >= Pow[WordBits + 1 - place]
        /\ left' = left - Pow[WordBits + 1 - place]
        /\ wf' = wf + Pow[WordBits - place]
     \/ /\ left < Pow[WordBits + 1 - place]
        /\ UNCHANGED <<left, wf>>
  /\ place' = place + 1
  /\ UNCHANGED <<asked, result, reg, kernel>>

\* The integer part is shifted as a signed int, then all is cut to Bits.
Word(f) == (Whole(f) * Pow[WordBits] + wf) % Pow[Bits]

Fitofl(word) ==
  LET d == word \div Pow[WordBits]
      signed == IF word >= Pow[Bits - 1] THEN d - Pow[IntBits] ELSE d
  IN signed * One + 2 * (word % Pow[WordBits])

ReadBack ==
  /\ asked.what = "fltofi" /\ place > WordBits
  /\ asked' = [what |-> "fitofl", of |-> asked.of] /\ result' = Fitofl(Word(asked.of))
  /\ UNCHANGED <<coding, reg, kernel>>

-----------------------------------------------------------------------------
(* reconos_clock_system_set: a divider of 8 * 100 MHz, if it fits *)

Divider(f) == (100000 * 8) \div f

\* The counters of the register, 6 bits each: how long the clock is high and low.
RegisterEven(d) == \* mutant: an odd divider loses its extra period
  IF d = 1 THEN <<0, 1>> ELSE <<(d \div 2) % 64, (d \div 2) % 64>>
Register(d) ==
  IF d = 1 THEN <<0, 1>> ELSE <<(d \div 2) % 64, (d - d \div 2) % 64>>

\* A divider out of range is not written, but the frequency is returned as if it
\* had been; dividing by a divider of 0 ends the program.
SetClock(f) ==
  /\ Ask("clock", f) /\ Divider(f) # 0
  /\ reg' = (IF Divider(f) \in 1 .. 126 THEN Register(Divider(f)) ELSE reg)
  /\ result' = (100000 * 8) \div Divider(f)
  /\ UNCHANGED <<coding, kernel>>
ClockFails(f) ==
  /\ Ask("clock", f) /\ Divider(f) = 0 /\ result' = -1
  /\ UNCHANGED <<coding, reg, kernel>>

-----------------------------------------------------------------------------
(* The line buffer: two lines are read ahead, then before each output line one *)
(* more, into the part after that of the output line.                          *)

SobelHw == [what |-> "sobel.cpp", of |-> 1]
SobelSw == [what |-> "sobel.c", of |-> 1]
GraySw == [what |-> "color2bw.c", of |-> 1]
GrayHw == [what |-> "color2bw.cpp", of |-> 0]
Kernels == {SobelHw, SobelSw, GraySw, GrayHw}
LastRow(k) == IF k = GrayHw THEN Height - 1 ELSE Height - 2
\* The input lines an output line should be computed from.
Around(k, i) == IF k \in {SobelHw, SobelSw} THEN {i - 1, i, i + 1} ELSE {i}

StartFrame(k) ==
  /\ asked = Nothing /\ asked' = k
  /\ buf' = [buf EXCEPT ![0] = 0, ![1] = 1] /\ row' = k.of
  /\ UNCHANGED <<result, coding, reg, used>>

\* The address runs on from line 2, whatever the first output line is.
NextLine(k, i) == 2 + (i - k.of)
PartSame(i) == i % 4 \* mutant: the line is read into the part of the output line
Part(i) == (i + 1) % 4

Line(k) ==
  /\ asked = k /\ row <= LastRow(k)
  /\ buf' = [buf EXCEPT ![Part(row)] = NextLine(k, row)]
  /\ used' = {buf'[i % 4] : i \in Around(k, row)}
  /\ row' = row + 1
  /\ UNCHANGED <<asked, result, coding, reg>>

Next ==
  \/ asked = Nothing /\ \E f \in Fractions : StartFltofi(f)
  \/ Place \/ ReadBack
  \/ asked = Nothing /\ \E f \in Clocks : SetClock(f) \/ ClockFails(f)
  \/ \E k \in Kernels : StartFrame(k) \/ Line(k)

Spec == Init /\ [][Next]_vars

-----------------------------------------------------------------------------

\* A number that goes through fltofi, a word of a mailbox and fitofl comes back
\* rounded down to the last binary place if it is within the range of the word, also
\* when it is negative; outside the range it comes back as another number.
RoundTrip ==
  asked.what = "fitofl" =>
    LET f == asked.of
        InRange == -Pow[IntBits - 1] * One <= f /\ f < Pow[IntBits - 1] * One
    IN /\ InRange => result <= f /\ f < result + 2 /\ result % 2 = 0
       /\ ~InRange => result # f

\* The frequency reconos_clock_set returns is the one the register makes, whenever
\* the divider can be written, for even and odd dividers and for the bypass.
ClockTrue ==
  asked.what = "clock" /\ reg # <<0, 0>> =>
    /\ result = (100000 * 8) \div (reg[1] + reg[2])
    /\ result >= asked.of /\ reg[2] - reg[1] \in {0, 1}

Shows(k) == asked = k /\ row > k.of => used = Around(k, row - 1)

\* Both versions of the Sobel kernel and the software version of the grey kernel
\* compute a line of the output from that line of the input and, for Sobel, its
\* neighbours, although a line is overwritten every fourth time and the reading is
\* one line ahead.
RowsRight == \A k \in {SobelHw, SobelSw, GraySw} : Shows(k)

\* rt_color2bw.cpp: "transforms a color image to a black white"; each line of the
\* output shows that line of the input.
GreyRowsRight == Shows(GrayHw)
=============================================================================

-------------------------- MODULE ArithmeticProofs --------------------------
(***************************************************************************)
(* The number codec, the clock and the line buffers of the kernels, for    *)
(* any width of the numbers, any inputs and any height of a frame.         *)
(***************************************************************************)
EXTENDS Arithmetic, TLAPS

-----------------------------------------------------------------------------
(* Division *)

LEMMA Division ==
  ASSUME NEW a \in Int, NEW b \in Nat \ {0}
  PROVE  /\ a \div b \in Int /\ a % b \in 0 .. b - 1
         /\ a = b * (a \div b) + (a % b)
  OBVIOUS

(* Whole multiples of a number are ordered as their factors. *)
LEMMA Multiples ==
  ASSUME NEW b \in Nat \ {0}, NEW p \in Int, NEW q \in Int
  PROVE  /\ p < q => b * p + b <= b * q
         /\ p <= q => b * p <= b * q
  OBVIOUS

(* The quotient and the rest are the only ones. *)
LEMMA Quotient ==
  ASSUME NEW b \in Nat \ {0}, NEW q \in Int, NEW r \in 0 .. b - 1
  PROVE  (b * q + r) \div b = q /\ (b * q + r) % b = r
<1> DEFINE a == b * q + r
           p == a \div b
<1>1. a \in Int /\ p \in Int /\ a % b \in 0 .. b - 1 /\ a = b * p + (a % b)
  BY Division
<1>2. ~(p < q) /\ ~(q < p)
  BY <1>1, Multiples
<1> QED BY <1>1, <1>2

LEMMA Wrapped ==
  ASSUME NEW b \in Nat \ {0}, NEW r \in 0 .. b - 1
  PROVE  r % b = r /\ (r - b) % b = r
<1>1. (b * 0 + r) % b = r /\ (b * (-1) + r) % b = r
  BY Quotient, -1 \in Int
<1> QED BY <1>1

-----------------------------------------------------------------------------
(* Powers of two *)

LEMMA Powers ==
  /\ Pow[0] = 1 /\ One = 2 * Pow[WordBits]
  /\ Pow[Bits] = Pow[WordBits] * Pow[IntBits]
  /\ Pow[Bits - 1] = Pow[WordBits] * Pow[IntBits - 1]
  /\ Pow[IntBits] = 2 * Pow[IntBits - 1]
  /\ \A n \in 0 .. Bits : Pow[n] \in Nat \ {0}
  /\ \A n \in 0 .. Bits - 1 : Pow[n + 1] = 2 * Pow[n]
<1> USE ArithmeticAssumption DEF WordBits, One
<1>1. \A n \in 0 .. Bits : Pow[n] \in Nat \ {0}
  BY PowAssumption
<1>2. \A m, n \in 0 .. Bits : m + n <= Bits => Pow[m + n] = Pow[m] * Pow[n]
  BY PowAssumption
<1>3. \A n \in 0 .. Bits - 1 : Pow[n + 1] = 2 * Pow[n]
  <2> SUFFICES ASSUME NEW n \in 0 .. Bits - 1 PROVE Pow[n + 1] = 2 * Pow[n]
    OBVIOUS
  <2>1. Pow[n + 1] = Pow[n] * Pow[1]
    BY <1>2
  <2> QED BY <1>1, <2>1, PowAssumption
<1>4. Pow[0] = 1
  <2>1. Pow[0 + 1] = 2 * Pow[0] /\ 0 + 1 = 1 /\ Pow[0] \in Nat
    BY <1>1, <1>3
  <2> QED BY <2>1, PowAssumption
<1>5. One = 2 * Pow[WordBits]
  BY <1>3
<1>6. Pow[Bits] = Pow[WordBits] * Pow[IntBits]
  <2>1. WordBits \in 0 .. Bits /\ IntBits \in 0 .. Bits /\ WordBits + IntBits = Bits
    OBVIOUS
  <2> QED BY <1>2, <2>1
<1>7. Pow[Bits - 1] = Pow[WordBits] * Pow[IntBits - 1]
  <2>1. WordBits \in 0 .. Bits /\ IntBits - 1 \in 0 .. Bits /\ WordBits + (IntBits - 1) = Bits - 1
    OBVIOUS
  <2> HIDE DEF WordBits
  <2> QED BY <1>2, <2>1
<1>8. Pow[IntBits] = 2 * Pow[IntBits - 1]
  BY <1>3
<1> QED BY <1>1, <1>3, <1>4, <1>5, <1>6, <1>7, <1>8

-----------------------------------------------------------------------------
(* The number codec *)

(* What is left of the fraction and what has been set make up the fraction, *)
(* and what is left is worth less than the place last looked at.            *)
CodingInv ==
  asked.what = "fltofi" =>
    /\ asked.of \in Int /\ place \in 1 .. WordBits + 1
    /\ wf \in Nat /\ left \in Nat
    /\ asked.of = One * Whole(asked.of) + 2 * wf + left
    /\ left < Pow[WordBits + 2 - place]

(* How a word splits into the two parts of the format.                      *)
LEMMA Parts ==
  ASSUME NEW q \in Int, NEW r \in 0 .. Pow[WordBits] - 1, NEW word,
         word = Pow[WordBits] * q + r, word \in 0 .. Pow[Bits] - 1
  PROVE  /\ q \in 0 .. Pow[IntBits] - 1
         /\ Fitofl(word) = (IF q >= Pow[IntBits - 1] THEN q - Pow[IntBits] ELSE q) * One + 2 * r
<1> DEFINE B == Pow[WordBits]
           A == Pow[IntBits]
           H == Pow[IntBits - 1]
<1>1. B \in Nat \ {0} /\ A \in Nat \ {0} /\ H \in Nat \ {0}
  BY Powers, ArithmeticAssumption DEF WordBits
<1>2. Pow[Bits] = B * A /\ Pow[Bits - 1] = B * H
  BY Powers
<1>3. word \div B = q /\ word % B = r
  BY <1>1, Quotient
<1>4. q >= 0
  BY <1>1, <1>2, Multiples, B * 0 = 0
<1>5. q < A
  BY <1>1, <1>2, Multiples
<1>6. q >= H <=> word >= B * H
  BY <1>1, Multiples
<1>7. Fitofl(word) = (IF word >= Pow[Bits - 1] THEN q - A ELSE q) * One + 2 * r
  BY <1>3 DEF Fitofl
<1> QED BY <1>1, <1>2, <1>4, <1>5, <1>6, <1>7

(* A word of Bits bits is read as a number in the range of the format.      *)
LEMMA FitoflRange ==
  ASSUME NEW word \in 0 .. Pow[Bits] - 1
  PROVE  /\ Fitofl(word) \in Int
         /\ -Pow[IntBits - 1] * One <= Fitofl(word) /\ Fitofl(word) < Pow[IntBits - 1] * One
<1> DEFINE B == Pow[WordBits]
           H == Pow[IntBits - 1]
           q == word \div B
           r == word % B
           signed == IF q >= H THEN q - Pow[IntBits] ELSE q
<1>1. B \in Nat \ {0} /\ H \in Nat \ {0} /\ One = 2 * B /\ Pow[IntBits] = 2 * H /\ Pow[Bits] \in Nat
  BY Powers, ArithmeticAssumption DEF WordBits
<1>2. q \in Int /\ r \in 0 .. B - 1 /\ word = B * q + r
  <2>1. word \in Int
    BY <1>1
  <2> HIDE DEF B
  <2> QED BY <1>1, <2>1, Division
<1>3. q \in 0 .. 2 * H - 1 /\ Fitofl(word) = signed * One + 2 * r
  BY <1>1, <1>2, Parts
<1>4. signed \in Int /\ -H <= signed /\ signed < H
  BY <1>1, <1>3
<1> HIDE DEF signed, q, r
<1>5. B * (-H) <= B * signed /\ B * signed + B <= B * H
  <2>1. -H \in Int /\ H \in Int
    BY <1>1
  <2> HIDE DEF B, H
  <2> QED BY <1>1, <1>4, <2>1, Multiples
<1>6. signed * One = 2 * (B * signed) /\ H * One = 2 * (B * H) /\ -H * One = 2 * (B * (-H))
  BY <1>1, <1>4
<1> QED BY <1>1, <1>2, <1>3, <1>4, <1>5, <1>6

(* A word made of a signed integer part within the range and of a fraction. *)
LEMMA FitoflWord ==
  ASSUME NEW d \in -Pow[IntBits - 1] .. Pow[IntBits - 1] - 1,
         NEW w \in 0 .. Pow[WordBits] - 1
  PROVE  Fitofl((d * Pow[WordBits] + w) % Pow[Bits]) = One * d + 2 * w
<1> DEFINE B == Pow[WordBits]
           A == Pow[IntBits]
           H == Pow[IntBits - 1]
           e == IF d < 0 THEN d + A ELSE d
           word == B * e + w
<1>1. /\ B \in Nat \ {0} /\ A \in Nat \ {0} /\ H \in Nat \ {0} /\ One = 2 * B /\ A = 2 * H
      /\ Pow[Bits] = B * A /\ Pow[Bits] \in Nat \ {0} /\ d \in Int
  BY Powers, ArithmeticAssumption DEF WordBits
<1>2. e \in Int /\ 0 <= e /\ e < A
  BY <1>1
<1>3. e >= H <=> d < 0
  BY <1>1
<1>4. word \in 0 .. Pow[Bits] - 1
  <2>1. B * 0 <= B * e /\ B * e + B <= B * A
    BY <1>1, <1>2, Multiples
  <2> HIDE DEF e
  <2> QED BY <1>1, <1>2, <2>1
<1>5. (d * B + w) % Pow[Bits] = word
  <2>1. word % Pow[Bits] = word /\ (word - Pow[Bits]) % Pow[Bits] = word
    BY <1>1, <1>4, Wrapped
  <2>2. d * B = B * d
    BY <1>1
  <2>3. CASE d < 0
    <3>1. e = d + A /\ B * e = B * d + B * A
      BY <1>1, <2>3
    <3>2. d * B + w = word - Pow[Bits]
      BY <1>1, <2>2, <3>1
    <3> QED BY <2>1, <3>2
  <2>4. CASE ~(d < 0)
    BY <2>1, <2>2, <2>4
  <2> QED BY <2>3, <2>4
<1>6. Fitofl(word) = (IF e >= H THEN e - A ELSE e) * One + 2 * w
  BY <1>1, <1>2, <1>4, Parts
<1>7. (IF e >= H THEN e - A ELSE e) = d
  BY <1>1, <1>3
<1> HIDE DEF e, word
<1>8. d * One = One * d
  BY <1>1
<1> QED BY <1>5, <1>6, <1>7, <1>8

LEMMA Whats ==
  /\ Nothing.what = "none" /\ \A k \in Kernels : k.what \notin {"none", "fltofi", "fitofl", "clock"}
  /\ \A w, x : [what |-> w, of |-> x].what = w /\ [what |-> w, of |-> x].of = x
  BY DEF Nothing, Kernels, SobelHw, SobelSw, GraySw, GrayHw

LEMMA WholePart ==
  ASSUME NEW f \in Int
  PROVE  /\ One \in Nat \ {0} /\ Whole(f) \in Int
         /\ f - Whole(f) * One \in 0 .. One - 1
<1>1. One \in Nat \ {0}
  BY Powers, ArithmeticAssumption DEF WordBits
<1>2. /\ Whole(f) \in Int /\ f % One \in 0 .. One - 1
      /\ f = One * Whole(f) + (f % One)
  BY <1>1, Division DEF Whole
<1>3. One * Whole(f) = Whole(f) * One
  BY <1>1, <1>2
<1> QED BY <1>1, <1>2, <1>3

LEMMA InitCoding == Init => CodingInv
  BY DEF Init, CodingInv, Nothing

(* One binary place keeps the sum and halves the bound of what is left.     *)
LEMMA PlaceCoding == CodingInv /\ Place => CodingInv'
<1> SUFFICES ASSUME CodingInv, Place PROVE CodingInv'
  OBVIOUS
<1> DEFINE v == Pow[WordBits - place]
<1>1. /\ asked' = asked /\ asked.of \in Int /\ place \in 1 .. WordBits /\ place' = place + 1
      /\ wf \in Nat /\ left \in Nat /\ Whole(asked.of) \in Int /\ One \in Nat
      /\ asked.of = One * Whole(asked.of) + 2 * wf + left
      /\ left < Pow[WordBits + 2 - place]
  BY WholePart DEF CodingInv, Place, WordBits
<1>2. /\ v \in Nat /\ Pow[WordBits + 1 - place] = 2 * v
      /\ Pow[WordBits + 2 - place] = 2 * Pow[WordBits + 1 - place]
  <2>1. /\ WordBits - place \in 0 .. Bits - 1 /\ WordBits + 1 - place \in 0 .. Bits - 1
        /\ (WordBits - place) + 1 = WordBits + 1 - place
        /\ (WordBits + 1 - place) + 1 = WordBits + 2 - place
    BY <1>1, ArithmeticAssumption DEF WordBits
  <2> DEFINE n == WordBits - place
             m == WordBits + 1 - place
  <2>2. Pow[n + 1] = 2 * Pow[n] /\ Pow[m + 1] = 2 * Pow[m] /\ Pow[n] \in Nat
    <3> HIDE DEF n, m
    <3> QED BY <2>1, Powers, ArithmeticAssumption DEF n, m
  <2> QED BY <2>1, <2>2
<1>3. WordBits + 2 - place' = WordBits + 1 - place /\ place' \in 1 .. WordBits + 1
  BY <1>1, ArithmeticAssumption DEF WordBits
<1>4. CASE left >= 2 * v
  <2>1. left' = left - 2 * v /\ wf' = wf + v
    BY <1>1, <1>2, <1>4 DEF Place
  <2> QED BY <1>1, <1>2, <1>3, <1>4, <2>1 DEF CodingInv
<1>5. CASE left < 2 * v
  <2>1. left' = left /\ wf' = wf
    BY <1>1, <1>2, <1>5 DEF Place
  <2> QED BY <1>1, <1>2, <1>3, <1>5, <2>1 DEF CodingInv
<1> QED BY <1>1, <1>2, <1>4, <1>5

LEMMA NextCoding == CodingInv /\ [Next]_vars => CodingInv'
<1> SUFFICES ASSUME CodingInv, [Next]_vars PROVE CodingInv'
  OBVIOUS
<1>1. ASSUME NEW f \in Fractions, StartFltofi(f) PROVE CodingInv'
  <2>1. f \in Int /\ asked'.of = f /\ place' = 1 /\ wf' = 0 /\ left' = f - Whole(f) * One
    BY <1>1, ArithmeticAssumption DEF StartFltofi, Ask
  <2>2. One \in Nat /\ Whole(f) \in Int /\ left' \in 0 .. One - 1 /\ One * Whole(f) = Whole(f) * One
    BY <2>1, WholePart
  <2>3. WordBits + 2 - 1 = WordBits + 1 /\ 1 \in 1 .. WordBits + 1
    BY ArithmeticAssumption DEF WordBits
  <2> QED BY <2>1, <2>2, <2>3 DEF CodingInv, One
<1>2. CASE Place
  BY <1>2, PlaceCoding
<1>3. CASE ReadBack
  BY <1>3 DEF ReadBack, CodingInv
<1>4. ASSUME NEW f \in Clocks, SetClock(f) \/ ClockFails(f) PROVE CodingInv'
  BY <1>4 DEF SetClock, ClockFails, Ask, CodingInv
<1>5. ASSUME NEW k \in Kernels, StartFrame(k) \/ Line(k) PROVE CodingInv'
  BY <1>5, Whats DEF StartFrame, Line, CodingInv
<1>6. CASE UNCHANGED vars
  BY <1>6 DEF vars, coding, CodingInv, Whole
<1> QED BY <1>1, <1>2, <1>3, <1>4, <1>5, <1>6 DEF Next

(* The last place leaves less than a place: what is set is the fraction.    *)
LEMMA ReadBackRounds == CodingInv /\ ReadBack => RoundTrip'
<1> SUFFICES ASSUME CodingInv, ReadBack PROVE RoundTrip'
  OBVIOUS
<1> DEFINE f == asked.of
           d == Whole(f)
           B == Pow[WordBits]
           H == Pow[IntBits - 1]
           word == (d * B + wf) % Pow[Bits]
<1>1. /\ f \in Int /\ wf \in Nat /\ left \in Nat /\ place = WordBits + 1
      /\ f = One * d + 2 * wf + left /\ left < Pow[WordBits + 2 - place]
  BY ArithmeticAssumption DEF CodingInv, ReadBack, WordBits
<1>2. /\ B \in Nat \ {0} /\ H \in Nat \ {0} /\ One = 2 * B /\ d \in Int
      /\ Pow[Bits] \in Nat \ {0} /\ f - d * One \in 0 .. One - 1
  <2>1. WordBits \in 0 .. Bits /\ IntBits - 1 \in 0 .. Bits /\ Bits \in 0 .. Bits
    BY ArithmeticAssumption DEF WordBits
  <2>2. B \in Nat \ {0} /\ H \in Nat \ {0} /\ Pow[Bits] \in Nat \ {0} /\ One = 2 * B
    BY <2>1, Powers
  <2>3. d \in Int /\ f - d * One \in 0 .. One - 1
    BY <1>1, WholePart
  <2> QED BY <2>2, <2>3
<1>3. left < 2
  BY <1>1, PowAssumption, ArithmeticAssumption DEF WordBits
<1>4. asked'.of = f /\ result' = Fitofl(word)
  BY DEF ReadBack, Word
<1> HIDE DEF f, d, B, H
<1>5. One * d = d * One /\ 2 * wf + left < One /\ wf \in 0 .. B - 1
  BY <1>1, <1>2
<1>6. One * (-H) = (-H) * One /\ (-H) * One = -H * One /\ One * H = H * One
  BY <1>2
<1>7. (-H * One <= f /\ f < H * One) <=> d \in -H .. H - 1
  <2>1. /\ d < -H => One * d + One <= One * (-H)
        /\ -H <= d => One * (-H) <= One * d
        /\ d < H => One * d + One <= One * H
        /\ H <= d => One * H <= One * d
    <3>1. One \in Nat \ {0} /\ -H \in Int /\ H \in Int
      BY <1>2
    <3> QED BY <1>2, <3>1, Multiples
  <2> QED BY <1>1, <1>2, <1>5, <1>6, <2>1
<1>8. CASE d \in -H .. H - 1
  <2>1. result' = One * d + 2 * wf
    BY <1>2, <1>4, <1>5, <1>8, FitoflWord DEF B, H
  <2>2. One * d = 2 * (B * d) /\ B * d \in Int
    BY <1>2
  <2>3. result' <= f /\ f < result' + 2 /\ result' % 2 = 0
    BY <1>1, <1>3, <2>1, <2>2
  <2> QED BY <1>4, <1>7, <1>8, <2>3 DEF RoundTrip, H
<1>9. CASE d \notin -H .. H - 1
  <2>1. word \in 0 .. Pow[Bits] - 1
    <3>1. d * B + wf \in Int
      BY <1>1, <1>2
    <3> QED BY <1>2, <3>1, Division
  <2> HIDE DEF word
  <2>2. -H * One <= result' /\ result' < H * One
    BY <1>4, <2>1, FitoflRange DEF H
  <2>3. result' # f
    BY <1>7, <1>9, <2>2
  <2> QED BY <1>4, <1>7, <1>9, <2>3 DEF RoundTrip, H
<1> QED BY <1>8, <1>9

(* Numbers survive the words of the mailboxes: in any format of fltofi and  *)
(* fitofl (recobop.h), whatever its width, a number within the range comes  *)
(* back rounded down to the last binary place, also a negative one, and a   *)
(* number outside the range comes back as another one.                      *)
THEOREM NumbersSurvive == Spec => []RoundTrip
<1>1. Init => RoundTrip
  BY DEF Init, RoundTrip, Nothing
<1>2. CodingInv /\ RoundTrip /\ [Next]_vars => RoundTrip'
  <2> SUFFICES ASSUME CodingInv, RoundTrip, [Next]_vars PROVE RoundTrip'
    OBVIOUS
  <2>1. ASSUME NEW f \in Fractions, StartFltofi(f) PROVE RoundTrip'
    BY <2>1 DEF StartFltofi, Ask, RoundTrip
  <2>2. CASE Place
    BY <2>2 DEF Place, RoundTrip
  <2>3. CASE ReadBack
    BY <2>3, ReadBackRounds
  <2>4. ASSUME NEW f \in Clocks, SetClock(f) \/ ClockFails(f) PROVE RoundTrip'
    BY <2>4 DEF SetClock, ClockFails, Ask, RoundTrip
  <2>5. ASSUME NEW k \in Kernels, StartFrame(k) \/ Line(k) PROVE RoundTrip'
    BY <2>5, Whats DEF StartFrame, Line, RoundTrip
  <2>6. CASE UNCHANGED vars
    BY <2>6 DEF vars, RoundTrip
  <2> QED BY <2>1, <2>2, <2>3, <2>4, <2>5, <2>6 DEF Next
<1> QED BY <1>1, <1>2, InitCoding, NextCoding, PTL DEF Spec

-----------------------------------------------------------------------------
(* The clock *)

(* The register keeps any divider it is given: its two counters make it up. *)
LEMMA RegisterMakes ==
  ASSUME NEW d \in 1 .. 126
  PROVE  /\ Register(d) \in (0 .. 63) \X (0 .. 63)
         /\ Register(d)[1] + Register(d)[2] = d
         /\ Register(d)[2] - Register(d)[1] \in {0, 1}
<1> DEFINE h == d \div 2
<1>1. h \in 0 .. 63 /\ d - h \in 0 .. 63 /\ (d - h) - h \in {0, 1}
  OBVIOUS
<1>2. h % 64 = h /\ (d - h) % 64 = d - h
  BY <1>1
<1>3. Register(d) = (IF d = 1 THEN <<0, 1>> ELSE <<h, d - h>>)
  BY <1>2 DEF Register
<1> HIDE DEF h
<1> QED BY <1>1, <1>3

(* What a divider makes is not below what it was computed from.             *)
LEMMA DivideBack ==
  ASSUME NEW x \in Nat, NEW f \in Nat, NEW d \in Nat \ {0}, NEW g \in Int,
         f * d <= x, x < d * g + d
  PROVE  g >= f
<1>1. g < f => d * g + d <= d * f
  BY Multiples
<1>2. d * f = f * d /\ d * f \in Int /\ d * g \in Int
  OBVIOUS
<1> QED BY <1>1, <1>2

LEMMA DivideTwice ==
  ASSUME NEW x \in Nat, NEW f \in Nat \ {0}, x \div f # 0
  PROVE  x \div f \in Nat \ {0} /\ x \div (x \div f) >= f
<1>1. PICK d \in Int : d = x \div f
  BY Division
<1>2. x % f \in 0 .. f - 1 /\ x = f * d + (x % f)
  BY <1>1, Division
<1>3. d \in Nat \ {0} /\ f * d <= x
  <2>1. d < 0 => f * d + f <= f * 0
    BY Multiples
  <2> QED BY <1>1, <1>2, <2>1
<1>4. PICK g \in Int : g = x \div d
  BY <1>3, Division
<1>5. x % d \in 0 .. d - 1 /\ x = d * g + (x % d)
  BY <1>3, <1>4, Division
<1>6. g >= f
  BY <1>3, <1>5, DivideBack
<1> QED BY <1>1, <1>3, <1>4, <1>6

(* The register says what the clock makes, and is untouched before.         *)
ClockInv == ClockTrue /\ (asked.what # "clock" => reg = <<0, 0>>)

LEMMA SetClockTrue ==
  ASSUME ClockInv, NEW f \in Clocks, SetClock(f)
  PROVE  ClockInv'
<1> DEFINE d == Divider(f)
<1>1. /\ f \in Nat \ {0} /\ d # 0 /\ reg = <<0, 0>> /\ asked'.what = "clock" /\ asked'.of = f
      /\ result' = (100000 * 8) \div d
  BY ArithmeticAssumption, Whats DEF SetClock, Ask, ClockInv
<1>2. result' >= f
  <2>1. 100000 * 8 \in Nat
    OBVIOUS
  <2> QED BY <1>1, <2>1, DivideTwice DEF Divider
<1>3. CASE d \in 1 .. 126
  <2>1. reg' = Register(d)
    BY <1>3 DEF SetClock
  <2>2. reg'[1] + reg'[2] = d /\ reg'[2] - reg'[1] \in {0, 1}
    BY <1>3, <2>1, RegisterMakes
  <2> HIDE DEF d
  <2> QED BY <1>1, <1>2, <2>2 DEF ClockInv, ClockTrue
<1>4. CASE d \notin 1 .. 126
  BY <1>1, <1>4 DEF SetClock, ClockInv, ClockTrue
<1> QED BY <1>3, <1>4

(* reconos_clock_set (reconos.c, arch_linux.c) tells the truth: for every   *)
(* frequency whose divider can be written the two 6-bit counters make up    *)
(* the frequency that is returned, and it is not below the requested one.   *)
THEOREM ClockTellsTruth == Spec => []ClockTrue
<1>1. Init => ClockInv
  BY DEF Init, ClockInv, ClockTrue, Nothing
<1>2. ClockInv /\ [Next]_vars => ClockInv'
  <2> SUFFICES ASSUME ClockInv, [Next]_vars PROVE ClockInv'
    OBVIOUS
  <2>1. ASSUME NEW f \in Fractions, StartFltofi(f) PROVE ClockInv'
    BY <2>1, Whats DEF StartFltofi, Ask, ClockInv, ClockTrue
  <2>2. CASE Place
    BY <2>2 DEF Place, ClockInv, ClockTrue
  <2>3. CASE ReadBack
    BY <2>3 DEF ReadBack, ClockInv, ClockTrue
  <2>4. ASSUME NEW f \in Clocks, SetClock(f) PROVE ClockInv'
    BY <2>4, SetClockTrue
  <2>5. ASSUME NEW f \in Clocks, ClockFails(f) PROVE ClockInv'
    BY <2>5, Whats DEF ClockFails, Ask, ClockInv, ClockTrue
  <2>6. ASSUME NEW k \in Kernels, StartFrame(k) \/ Line(k) PROVE ClockInv'
    BY <2>6, Whats DEF StartFrame, Line, ClockInv, ClockTrue
  <2>7. CASE UNCHANGED vars
    BY <2>7 DEF vars, ClockInv, ClockTrue
  <2> QED BY <2>1, <2>2, <2>3, <2>4, <2>5, <2>6, <2>7 DEF Next
<1>3. ClockInv => ClockTrue
  BY DEF ClockInv
<1> QED BY <1>1, <1>2, <1>3, PTL DEF Spec

-----------------------------------------------------------------------------
(* The line buffers *)

Reader == {SobelHw, SobelSw, GraySw}

(* Before it computes a line the buffer of a kernel holds that line and the *)
(* one above it, each in its own part; the part of the next one is free.    *)
BufferInv ==
  /\ buf \in [0 .. 3 -> Int] /\ row \in Nat
  /\ asked \in Reader =>
       row # 0 /\ buf[(row - 1) % 4] = row - 1 /\ buf[row % 4] = row

RowInv == BufferInv /\ RowsRight

LEMMA ReaderKinds ==
  /\ Reader \subseteq Kernels /\ Nothing \notin Kernels
  /\ \A k \in Reader : k.of = 1
  /\ \A k \in Kernels : k.of \in {0, 1}
  /\ \A x : \A w \in {"fltofi", "fitofl", "clock"} : [what |-> w, of |-> x] \notin Kernels
  /\ SobelHw # SobelSw /\ SobelHw # GraySw /\ SobelSw # GraySw
  BY Whats DEF Reader, Kernels, SobelHw, SobelSw, GraySw, GrayHw

LEMMA InitRows == Init => RowInv
<1> SUFFICES ASSUME Init PROVE RowInv
  OBVIOUS
<1>1. asked \notin Kernels /\ buf \in [0 .. 3 -> Int] /\ row \in Nat
  BY ReaderKinds DEF Init
<1> QED BY <1>1, ReaderKinds DEF RowInv, BufferInv, RowsRight, Shows, Reader

LEMMA StartRows ==
  ASSUME RowInv, NEW k \in Kernels, StartFrame(k)
  PROVE  RowInv'
<1>1. /\ asked' = k /\ row' = k.of /\ used' = used
      /\ buf' \in [0 .. 3 -> Int] /\ buf'[0] = 0 /\ buf'[1] = 1
  BY DEF RowInv, BufferInv, StartFrame
<1>2. row' \in Nat /\ (asked' \in Reader => row' = 1 /\ (1 - 1) % 4 = 0 /\ 1 % 4 = 1)
  BY <1>1, ReaderKinds
<1>3. BufferInv'
  BY <1>1, <1>2 DEF BufferInv
<1>4. RowsRight'
  <2>1. asked' \in Reader => row' = 1 /\ k.of = 1
    BY <1>1, ReaderKinds
  <2> QED BY <1>1, <2>1 DEF RowsRight, Shows, Reader
<1> QED BY <1>3, <1>4 DEF RowInv

(* The parts of four lines in a row differ.                                 *)
LEMMA FourParts ==
  ASSUME NEW i \in Nat \ {0}
  PROVE  /\ (i - 1) % 4 \in 0 .. 3 /\ i % 4 \in 0 .. 3 /\ (i + 1) % 4 \in 0 .. 3
         /\ (i + 1) % 4 # i % 4 /\ (i + 1) % 4 # (i - 1) % 4
  OBVIOUS

LEMMA LineRows ==
  ASSUME RowInv, NEW k \in Kernels, Line(k)
  PROVE  RowInv'
<1>1. asked = k /\ asked' = k /\ buf' = [buf EXCEPT ![Part(row)] = NextLine(k, row)] /\ row' = row + 1
  BY DEF Line
<1>2. CASE k \in Reader
  <2>1. row \in Nat \ {0} /\ buf[(row - 1) % 4] = row - 1 /\ buf[row % 4] = row /\ buf \in [0 .. 3 -> Int]
    BY <1>1, <1>2 DEF RowInv, BufferInv
  <2>2. NextLine(k, row) = row + 1 /\ Part(row) = (row + 1) % 4
    BY <1>2, <2>1, ReaderKinds DEF NextLine, Part
  <2>3. /\ buf' \in [0 .. 3 -> Int] /\ buf'[(row + 1) % 4] = row + 1
        /\ buf'[row % 4] = row /\ buf'[(row - 1) % 4] = row - 1
    BY <1>1, <2>1, <2>2, FourParts
  <2>4. BufferInv'
    BY <1>1, <2>1, <2>3 DEF BufferInv
  <2>5. \A i \in {row - 1, row, row + 1} : buf'[i % 4] = i
    BY <2>3
  <2>6. Around(k, row) \subseteq {row - 1, row, row + 1}
    BY DEF Around
  <2>7. used' = Around(k, row)
    <3>1. used' = {buf'[i % 4] : i \in Around(k, row)}
      BY DEF Line
    <3> QED BY <2>5, <2>6, <3>1
  <2>8. row' - 1 = row
    BY <1>1, <2>1
  <2> QED BY <1>1, <2>4, <2>7, <2>8 DEF RowInv, RowsRight, Shows
<1>3. CASE k \notin Reader
  <2>1. k = GrayHw /\ GrayHw.of = 0
    BY <1>3 DEF Kernels, Reader, GrayHw
  <2>2. BufferInv'
    <3>1. row \in Nat /\ buf \in [0 .. 3 -> Int] /\ GrayHw \notin Reader
      BY <1>3, <2>1 DEF RowInv, BufferInv
    <3>2. NextLine(k, row) \in Int
      BY <2>1, <3>1 DEF NextLine
    <3>3. buf' \in [0 .. 3 -> Int] /\ row' \in Nat
      <4> DEFINE p == Part(row)
                 v == NextLine(k, row)
      <4>1. v \in Int /\ buf' = [buf EXCEPT ![p] = v]
        BY <1>1, <3>2
      <4> HIDE DEF p, v
      <4>2. buf' \in [0 .. 3 -> Int]
        BY <3>1, <4>1
      <4>3. row' \in Nat
        BY <1>1, <3>1
      <4> QED BY <4>2, <4>3
    <3>4. asked' \notin Reader
      BY <1>1, <2>1, <3>1
    <3> QED BY <3>3, <3>4 DEF BufferInv
  <2>3. RowsRight'
    BY <1>1, <1>3 DEF RowsRight, Shows, Reader
  <2> QED BY <2>2, <2>3 DEF RowInv
<1> QED BY <1>2, <1>3

(* The kernels compute the right lines (rt_sobel.cpp, rt_sobel.c and        *)
(* rt_color2bw.c): in a frame of any height each line of the output comes   *)
(* from that line of the input and, for Sobel, its neighbours, although     *)
(* the buffer has four parts and reading is one line ahead.                 *)
THEOREM RowsAreRight == Spec => []RowsRight
<1>1. RowInv /\ [Next]_vars => RowInv'
  <2> SUFFICES ASSUME RowInv, [Next]_vars PROVE RowInv'
    OBVIOUS
  <2>1. ASSUME NEW f \in Fractions, StartFltofi(f) PROVE RowInv'
    <3>1. asked' \notin Kernels /\ buf' = buf /\ row' = row
      BY <2>1, ReaderKinds DEF StartFltofi, Ask, kernel
    <3> QED BY <3>1, ReaderKinds DEF RowInv, BufferInv, RowsRight, Shows, Reader
  <2>2. CASE Place
    BY <2>2 DEF Place, kernel, RowInv, BufferInv, RowsRight, Shows
  <2>3. CASE ReadBack
    <3>1. asked' \notin Kernels /\ buf' = buf /\ row' = row
      BY <2>3, ReaderKinds DEF ReadBack, kernel
    <3> QED BY <3>1, ReaderKinds DEF RowInv, BufferInv, RowsRight, Shows, Reader
  <2>4. ASSUME NEW f \in Clocks, SetClock(f) \/ ClockFails(f) PROVE RowInv'
    <3>1. asked' \notin Kernels /\ buf' = buf /\ row' = row
      <4>1. asked' = [what |-> "clock", of |-> f]
        BY <2>4 DEF SetClock, ClockFails, Ask
      <4>2. buf' = buf /\ row' = row
        BY <2>4 DEF SetClock, ClockFails, kernel
      <4> QED BY <4>1, <4>2, ReaderKinds
    <3> QED BY <3>1, ReaderKinds DEF RowInv, BufferInv, RowsRight, Shows, Reader
  <2>5. ASSUME NEW k \in Kernels, StartFrame(k) PROVE RowInv'
    BY <2>5, StartRows
  <2>6. ASSUME NEW k \in Kernels, Line(k) PROVE RowInv'
    BY <2>6, LineRows
  <2>7. CASE UNCHANGED vars
    BY <2>7 DEF vars, kernel, RowInv, BufferInv, RowsRight, Shows
  <2> QED BY <2>1, <2>2, <2>3, <2>4, <2>5, <2>6, <2>7 DEF Next
<1>2. RowInv => RowsRight
  BY DEF RowInv
<1> QED BY <1>1, <1>2, InitRows, PTL DEF Spec
=============================================================================

-------------------------- MODULE MCCounterDouble --------------------------
(* CounterType<double> with a toy floating point: two significant bits,     *)
(* round to nearest with ties to even, infinities and a NaN, which compares *)
(* false with everything and absorbs every sum.                             *)
EXTENDS Counter, Integers

CONSTANTS t1, t2

MCThreads == {t1, t2}

Inf      == 100
NegInf   == -100
NaN      == 1000
Finite   == {-6, -4, -3, -2, -1, 0, 1, 2, 3, 4, 6}
MCNumbers  == Finite \cup {Inf, NegInf, NaN}
MCOperands == {-2, 0, 1, 3, NaN}

Abs(n) == IF n < 0 THEN -n ELSE n
EvenMantissa == {-4, -2, 0, 2, 4}

\* The representable neighbour of an exact sum; beyond 6 the next step up
\* would be 8, and half way there is rounded away to infinity.
Round(n) ==
  IF n >= 7 THEN Inf
  ELSE IF n <= -7 THEN NegInf
  ELSE CHOOSE f \in Finite :
         \A g \in Finite : \/ Abs(f - n) < Abs(g - n)
                           \/ Abs(f - n) = Abs(g - n) /\ (f = g \/ f \in EvenMantissa)

FloatPlus(x, y) ==
  IF x = NaN \/ y = NaN \/ {x, y} = {Inf, NegInf} THEN NaN
  ELSE IF Inf \in {x, y} THEN Inf
  ELSE IF NegInf \in {x, y} THEN NegInf
  ELSE Round(x + y)

FloatTimes(x, y) ==
  IF x = NaN \/ y = NaN THEN NaN
  ELSE IF {x, y} \subseteq Finite THEN Round(x * y)
  ELSE IF 0 \in {x, y} THEN NaN
  ELSE IF x * y > 0 THEN Inf ELSE NegInf

FloatLess(x, y) == x # NaN /\ y # NaN /\ x < y

MCZero     == 0
MCOne      == 1
MCMinusOne == -1
=============================================================================

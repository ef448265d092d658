---------------------------- MODULE MCHistogram ----------------------------
(* Small histograms: integers and a NaN for the doubles, counts in halves.  *)
EXTENDS Histogram

CONSTANTS t1, t2

MCThreads == {t1, t2}

NaN == 1000
DoublePlus(x, y) == IF NaN \in {x, y} THEN NaN ELSE x + y
DoubleLess(x, y) == NaN \notin {x, y} /\ x < y
DoubleGreaterEqual(x, y) == NaN \notin {x, y} /\ x >= y
MCZero == 0

\* The usual list, no boundary at all, and one the constructor refuses.
MCBoundaryLists == {<<1, 2>>, << >>, <<2, 1>>}

\* A negative value, both boundaries, one beyond, and a NaN.
MCValues == {-1, 1, 2, 3, NaN}

\* Good, negative and fractional increments, and too few of them.
MCBatches ==
  {[increments |-> <<2, 0, 4>>, sum |-> 7], [increments |-> <<-2, 2, 0>>, sum |-> 1],
   [increments |-> <<1, 1, 3>>, sum |-> 4], [increments |-> <<2>>, sum |-> 1]}
=============================================================================

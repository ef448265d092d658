------------------------------ MODULE MCGauge ------------------------------
(* GaugeType<int64_t> at a width of Width bits. A signed overflow is        *)
(* undefined behaviour; the addition, which only feeds the compare-         *)
(* exchange, is compiled to a machine add, which wraps.                     *)
EXTENDS Gauge, Integers

CONSTANTS t1, t2, Width

MCThreads == {t1, t2}
Half      == 2 ^ (Width - 1)
MCNumbers == -Half .. Half - 1
Wrap(n)   == ((n + Half) % (2 * Half)) - Half

IntPlus(x, y)  == Wrap(x + y)
IntTimes(x, y) == Wrap(x * y)
IntLess(x, y)  == x < y
MCZero     == 0
MCOne      == 1
MCMinusOne == -1
=============================================================================

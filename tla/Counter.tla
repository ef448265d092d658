------------------------------ MODULE Counter ------------------------------
(***************************************************************************)
(* promcore::CounterType<TYPE> (core/src/counter.cc): a gauge that starts  *)
(* at 0 and is reached through Increment, which ignores negative amounts,  *)
(* and Reset.                                                              *)
(***************************************************************************)
EXTENDS Gauge

CounterInit == Init /\ value_ = Zero

\* Not the code: negative amounts are added.
CounterIncrementAny(t) == \E v \in Operands \cup {One} : Invoke(t, "load", v)

\* if (val < TYPE{0}) return; gauge_.Increment(val)
CounterIncrement(t) ==
  \E v \in Operands \cup {One} : ~Less(v, Zero) /\ Invoke(t, "load", v)

\* gauge_.Set(0)
Reset(t) == Invoke(t, "store", Zero)

CounterNext == \E t \in Threads :
  CounterIncrement(t) \/ Reset(t) \/ Read(t) \/ Run(t)

CounterSpec == CounterInit /\ [][CounterNext]_vars /\ Fairness

-----------------------------------------------------------------------------
\* A counter never goes down except by Reset, in whatever order increments,
\* resets and reads interleave (counter.h:16, "The value of the counter can
\* only increase").
OnlyResetLowers ==
  [][Less(value_', value_) => \E t \in Threads : Store(t)]_vars

\* A counter is never negative.
NeverNegative == ~Less(value_, Zero)
=============================================================================

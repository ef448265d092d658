---------------------------- MODULE Gauge_proofs ----------------------------
(* Proofs about modules Gauge and Counter, for every number type and every *)
(* set of threads.                                                         *)
EXTENDS Counter, TLAPS

USE NumbersAssumption

-----------------------------------------------------------------------------
(* Type correctness                                                        *)

LEMMA InitTypeOK == Init => TypeOK
BY DEF Init, TypeOK, Labels

\* What a thread may be asked to do.
LEMMA CallTypeOK ==
  ASSUME TypeOK, NEW t \in Threads, NEW l \in Labels, NEW v \in Numbers, Invoke(t, l, v)
  PROVE  TypeOK'
BY DEF TypeOK, Invoke, Goto

LEMMA RunTypeOK ==
  ASSUME TypeOK, NEW t \in Threads, Run(t)
  PROVE  TypeOK'
<1> USE DEF TypeOK, Goto, Labels
<1>1. CASE Load(t)
  BY <1>1 DEF Load
<1>2. CASE Exchange(t)
  BY <1>2 DEF Exchange
<1>3. CASE Retry(t)
  BY <1>3 DEF Retry
<1>4. CASE Store(t)
  BY <1>4 DEF Store
<1>5. CASE LoadValue(t)
  BY <1>5 DEF LoadValue
<1>6. CASE Return(t)
  BY <1>6 DEF Return
<1> QED BY <1>1, <1>2, <1>3, <1>4, <1>5, <1>6 DEF Run

\* Every call is an Invoke with a number of the type.
LEMMA Calls ==
  ASSUME NEW t \in Threads,
         Increment(t) \/ Decrement(t) \/ Set(t) \/ Read(t)
  PROVE  \E l \in {"load", "store", "read"}, v \in Numbers : Invoke(t, l, v)
BY DEF Increment, Decrement, Set, Read

LEMMA NextTypeOK == TypeOK /\ [Next]_vars => TypeOK'
<1> SUFFICES ASSUME TypeOK, [Next]_vars PROVE TypeOK'
  OBVIOUS
<1>1. CASE UNCHANGED vars
  BY <1>1 DEF TypeOK, vars
<1>2. ASSUME NEW t \in Threads, Increment(t) \/ Decrement(t) \/ Set(t) \/ Read(t)
      PROVE  TypeOK'
  BY <1>2, Calls, CallTypeOK DEF Labels
<1> QED BY <1>1, <1>2, RunTypeOK DEF Next

\* Every variable of the gauge keeps its type.
THEOREM TypeCorrect == Spec => []TypeOK
BY InitTypeOK, NextTypeOK, PTL DEF Spec

-----------------------------------------------------------------------------
(* Atomicity                                                               *)

LEMMA InitRefines == Init => Cell!Init
BY DEF Init, Cell!Init, Cell!Nothing, Pending, Kind

\* How the pending operations change when one thread moves.
LEMMA PendingMoves ==
  ASSUME TypeOK, NEW t \in Threads, NEW l \in Labels,
         pc' = [pc EXCEPT ![t] = l],
         \A u \in Threads \ {t} : operand'[u] = operand[u]
  PROVE  Pending' = [Pending EXCEPT ![t] = Pending'[t]]
BY DEF TypeOK, Pending, Kind

\* Every step of the gauge is a step of the atomic cell or leaves it alone:
\* the exchange is the addition, the store the assignment, the load the read.
LEMMA NextRefines == TypeOK /\ [Next]_vars => [Cell!Next]_Cell!vars
<1> SUFFICES ASSUME TypeOK, [Next]_vars
             PROVE  [Cell!Next]_Cell!vars
  OBVIOUS
<1> USE DEF Cell!vars
<1>1. CASE UNCHANGED vars
  BY <1>1 DEF vars, Pending, Kind
<1>2. ASSUME NEW t \in Threads, NEW l \in {"load", "store", "read"}, NEW v \in Numbers,
             Invoke(t, l, v)
      PROVE  Cell!Call(t)
  <2>1. /\ pc[t] = "idle" /\ pc' = [pc EXCEPT ![t] = l] /\ l \in Labels
        /\ operand' = [operand EXCEPT ![t] = v]
        /\ UNCHANGED <<value_, reply>>
    BY <1>2 DEF Invoke, Goto, Labels
  <2>2. Pending' = [Pending EXCEPT ![t] = Pending'[t]]
    BY <2>1, PendingMoves DEF TypeOK
  <2>3. Pending[t] = Cell!Nothing
    BY <2>1 DEF Pending, Kind, Cell!Nothing
  <2>4. \E op \in {"add", "set", "get"} : Pending'[t] = [op |-> op, operand |-> v]
    BY <2>1 DEF Pending, Kind, TypeOK
  <2> QED BY <2>1, <2>2, <2>3, <2>4 DEF Cell!Call
<1>3. ASSUME NEW t \in Threads, Exchange(t) \/ Store(t) \/ LoadValue(t)
      PROVE  Cell!Add(t) \/ Cell!Assign(t) \/ Cell!Get(t)
  <2>1. pc' = [pc EXCEPT ![t] = "return"] /\ "return" \in Labels /\ operand' = operand
    BY <1>3 DEF Exchange, Store, LoadValue, Goto, Labels
  <2>2. Pending'[t] = Cell!Nothing
    BY <2>1 DEF Pending, Kind, TypeOK, Cell!Nothing
  <2>3. Pending' = [Pending EXCEPT ![t] = Cell!Nothing]
    BY <2>1, <2>2, PendingMoves
  <2>4. CASE Exchange(t)
    <3>1. Pending[t].op = "add" /\ Pending[t].operand = operand[t]
      BY <2>4 DEF Exchange, Pending, Kind
    <3> QED BY <2>3, <2>4, <3>1 DEF Exchange, Cell!Add, Cell!Do
  <2>5. CASE Store(t)
    <3>1. Pending[t].op = "set" /\ Pending[t].operand = operand[t]
      BY <2>5 DEF Store, Pending, Kind
    <3> QED BY <2>3, <2>5, <3>1 DEF Store, Cell!Assign, Cell!Do
  <2>6. CASE LoadValue(t)
    <3>1. Pending[t].op = "get"
      BY <2>6 DEF LoadValue, Pending, Kind
    <3> QED BY <2>3, <2>6, <3>1 DEF LoadValue, Cell!Get, Cell!Do
  <2> QED BY <1>3, <2>4, <2>5, <2>6
<1>4. ASSUME NEW t \in Threads, Load(t) \/ Retry(t)
      PROVE  UNCHANGED Cell!vars
  <2>1. \A u \in Threads : Kind(u)' = Kind(u)
    BY <1>4 DEF Load, Retry, Kind, Goto, TypeOK
  <2> QED BY <1>4, <2>1 DEF Load, Retry, Pending
<1>5. ASSUME NEW t \in Threads, Return(t)
      PROVE  Cell!Forget(t)
  <2>1. /\ pc[t] = "return" /\ pc' = [pc EXCEPT ![t] = "idle"] /\ "idle" \in Labels
        /\ operand' = [operand EXCEPT ![t] = Zero]
        /\ reply' = [reply EXCEPT ![t] = Zero]
        /\ UNCHANGED value_
    BY <1>5 DEF Return, Goto, Labels
  <2>2. Pending' = [Pending EXCEPT ![t] = Pending'[t]]
    BY <2>1, PendingMoves DEF TypeOK
  <2>3. Pending'[t] = Pending[t]
    BY <2>1 DEF Pending, Kind, TypeOK
  <2>4. Pending' = Pending
    BY <2>2, <2>3 DEF Pending
  <2> QED BY <2>1, <2>4 DEF Cell!Forget
<1>6. ASSUME NEW t \in Threads, Increment(t) \/ Decrement(t) \/ Set(t) \/ Read(t)
      PROVE  Cell!Call(t)
  BY <1>2, <1>6, Calls
<1> QED BY <1>1, <1>3, <1>4, <1>5, <1>6 DEF Next, Run, Cell!Next

\* For any number of threads and any number type, the loop of Change loses no
\* update and applies none twice: the gauge is an atomic cell (gauge.cc:26-50).
THEOREM Atomic == Spec => Linearizable
<1>1. Spec => []TypeOK
  BY TypeCorrect
<1> QED BY <1>1, InitRefines, NextRefines, PTL DEF Spec, Linearizable, Cell!Spec

-----------------------------------------------------------------------------
(* Counters                                                                *)

\* The operands of a counter's increments are not negative.
CounterInv ==
  /\ TypeOK
  /\ \A t \in Threads : pc[t] \in {"load", "cas"} => ~Less(operand[t], Zero)
  /\ \A t \in Threads : pc[t] = "store" => operand[t] = Zero

LEMMA CounterInvariance ==
  ASSUME ~Less(One, Zero)
  PROVE  CounterSpec => []CounterInv
<1>1. CounterInit => CounterInv
  BY InitTypeOK DEF CounterInit, CounterInv, Init
<1>2. CounterInv /\ [CounterNext]_vars => CounterInv'
  <2> SUFFICES ASSUME CounterInv, [CounterNext]_vars PROVE CounterInv'
    OBVIOUS
  <2> USE DEF CounterInv
  <2>1. CASE UNCHANGED vars
    BY <2>1 DEF TypeOK, vars
  <2>2. ASSUME NEW t \in Threads, CounterIncrement(t) \/ Reset(t) \/ Read(t)
        PROVE  CounterInv'
    <3>1. PICK l \in {"load", "store", "read"}, v \in Numbers :
            /\ Invoke(t, l, v)
            /\ l = "load" => ~Less(v, Zero)
            /\ l = "store" => v = Zero
      BY <2>2 DEF CounterIncrement, Reset, Read
    <3>2. TypeOK'
      BY <3>1, CallTypeOK DEF Labels
    <3> QED BY <3>1, <3>2 DEF Invoke, Goto, TypeOK
  <2>3. ASSUME NEW t \in Threads, Run(t)
        PROVE  CounterInv'
    <3>1. TypeOK'
      BY <2>3, RunTypeOK
    <3>2. \A u \in Threads :
            /\ pc'[u] \in {"load", "cas"} => pc[u] \in {"load", "cas"} /\ operand'[u] = operand[u]
            /\ pc'[u] = "store" => pc[u] = "store" /\ operand'[u] = operand[u]
      BY <2>3 DEF Run, Load, Exchange, Retry, Store, LoadValue, Return, Goto, TypeOK
    <3> QED BY <3>1, <3>2
  <2> QED BY <2>1, <2>2, <2>3 DEF CounterNext
<1> QED BY <1>1, <1>2, PTL DEF CounterSpec

\* As long as adding something that is not negative never makes a number
\* smaller, which floating point guarantees and a sum that overflows does not,
\* only Reset lowers a counter, whatever the threads do (counter.cc:8-20).
THEOREM CounterMonotone ==
  ASSUME ~Less(One, Zero),
         \A x \in Numbers : ~Less(x, x),
         \A x, v \in Numbers : ~Less(v, Zero) => ~Less(Plus(x, v), x)
  PROVE  CounterSpec => OnlyResetLowers
<1>1. CounterInv /\ [CounterNext]_vars =>
        [Less(value_', value_) => \E t \in Threads : Store(t)]_vars
  <2> SUFFICES ASSUME CounterInv, CounterNext, Less(value_', value_)
               PROVE  \E t \in Threads : Store(t)
    OBVIOUS
  <2>1. value_ \in Numbers
    BY DEF CounterInv, TypeOK
  <2>2. value_' # value_
    BY <2>1
  <2>3. PICK t \in Threads : Exchange(t) \/ Store(t)
    BY <2>2 DEF CounterNext, CounterIncrement, Reset, Read, Invoke, Run, Load, Retry, LoadValue,
                Return
  <2>4. ~Exchange(t)
    BY <2>1 DEF Exchange, CounterInv, TypeOK
  <2> QED BY <2>3, <2>4
<1> QED BY <1>1, CounterInvariance, PTL DEF CounterSpec, OnlyResetLowers

\* A counter is never negative, if sums of numbers that are not negative are
\* not: increments with negative amounts change nothing (counter.cc:10).
THEOREM CounterNeverNegative ==
  ASSUME ~Less(One, Zero), ~Less(Zero, Zero),
         \A x, v \in Numbers : ~Less(x, Zero) /\ ~Less(v, Zero) => ~Less(Plus(x, v), Zero)
  PROVE  CounterSpec => []NeverNegative
<1>1. CounterInit => NeverNegative
  BY DEF CounterInit, NeverNegative
<1>2. CounterInv /\ NeverNegative /\ [CounterNext]_vars => NeverNegative'
  <2> SUFFICES ASSUME CounterInv, NeverNegative, [CounterNext]_vars, value_' # value_
               PROVE  NeverNegative'
    BY DEF NeverNegative
  <2>1. PICK t \in Threads : Exchange(t) \/ Store(t)
    BY DEF vars, CounterNext, CounterIncrement, Reset, Read, Invoke, Run, Load, Retry, LoadValue,
           Return
  <2>2. CASE Exchange(t)
    BY <2>2 DEF Exchange, CounterInv, TypeOK, NeverNegative
  <2>3. CASE Store(t)
    BY <2>3 DEF Store, CounterInv, NeverNegative
  <2> QED BY <2>1, <2>2, <2>3
<1> QED BY <1>1, <1>2, CounterInvariance, PTL DEF CounterSpec
=============================================================================

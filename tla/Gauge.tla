------------------------------- MODULE Gauge -------------------------------
(***************************************************************************)
(* promcore::GaugeType<TYPE> (core/src/gauge.cc): one std::atomic<TYPE>,   *)
(* updated by Set with a store and by Increment and Decrement through      *)
(* Change, which as built (C++17, no __cpp_lib_atomic_float) is a          *)
(* compare-exchange loop for double and for int64_t alike.                 *)
(*                                                                         *)
(* TYPE is a parameter: a set of numbers with the arithmetic the loop      *)
(* uses, so that two's complement and floating point are instances. All    *)
(* accesses are sequentially consistent, so one step is one access.        *)
(***************************************************************************)
CONSTANTS
  Threads,      \* the threads that use the gauge
  Numbers,      \* the values of TYPE
  Operands,     \* the arguments the program passes, and clock readings
  Zero,         \* TYPE{0}
  One,          \* TYPE{1}
  MinusOne,     \* TYPE{-1}
  Plus(_, _),   \* + of TYPE
  Times(_, _),  \* * of TYPE
  Less(_, _)    \* < of TYPE

ASSUME NumbersAssumption ==
  /\ Operands \subseteq Numbers
  /\ Zero \in Numbers /\ One \in Numbers /\ MinusOne \in Numbers
  /\ \A x, y \in Numbers : Plus(x, y) \in Numbers /\ Times(x, y) \in Numbers

VARIABLES
  value_,   \* the atomic
  pc,       \* where each thread is
  operand,  \* the argument of Change or Set
  current,  \* the local variable of Change
  reply     \* the value a Value or Collect is about to return

vars == <<value_, pc, operand, current, reply>>

Labels == {"idle", "load", "cas", "store", "read", "return"}

Init ==
  /\ value_ \in Operands \cup {Zero}
  /\ pc = [t \in Threads |-> "idle"]
  /\ operand = [t \in Threads |-> Zero]
  /\ current = [t \in Threads |-> Zero]
  /\ reply = [t \in Threads |-> Zero]

Goto(t, label) == pc' = [pc EXCEPT ![t] = label]

-----------------------------------------------------------------------------
Invoke(t, entry, v) ==
  /\ pc[t] = "idle"
  /\ operand' = [operand EXCEPT ![t] = v]
  /\ Goto(t, entry)
  /\ UNCHANGED <<value_, current, reply>>

\* Increment() is Increment(TYPE{1})
Increment(t) == \E v \in Operands \cup {One} : Invoke(t, "load", v)

\* Decrement(value) is Change(TYPE{-1} * value)
Decrement(t) ==
  \E v \in Operands \cup {One} : Invoke(t, "load", Times(MinusOne, v))

\* Set, and SetToCurrentTime, whose clock reading is an operand like any other.
Set(t) == \E v \in Operands : Invoke(t, "store", v)

\* Value and Collect read the atomic once.
Read(t) == Invoke(t, "read", Zero)

-----------------------------------------------------------------------------
\* Not the code: current is not initialised; the thread stands for any value.
LoadNothing(t) ==
  /\ pc[t] = "load"
  /\ current' = [current EXCEPT ![t] = t]
  /\ Goto(t, "cas")
  /\ UNCHANGED <<value_, operand, reply>>

\* auto current = value_.load()
Load(t) ==
  /\ pc[t] = "load"
  /\ current' = [current EXCEPT ![t] = value_]
  /\ Goto(t, "cas")
  /\ UNCHANGED <<value_, operand, reply>>

\* Not the code: a store without the comparison.
Overwrite(t) ==
  /\ pc[t] = "cas"
  /\ value_' = Plus(current[t], operand[t])
  /\ Goto(t, "return")
  /\ UNCHANGED <<operand, current, reply>>

\* compare_exchange_weak(current, current + value) that succeeds
Exchange(t) ==
  /\ pc[t] = "cas"
  /\ value_ = current[t]
  /\ value_' = Plus(current[t], operand[t])
  /\ Goto(t, "return")
  /\ UNCHANGED <<operand, current, reply>>

\* Not the code: the loop goes on with the old value.
RetryStale(t) ==
  /\ pc[t] = "cas"
  /\ value_ # current[t]
  /\ UNCHANGED vars

\* ... and that fails: current is reloaded and the loop goes on. A spurious
\* failure reloads the value current already has, so it is a stuttering step.
Retry(t) ==
  /\ pc[t] = "cas"
  /\ value_ # current[t]
  /\ current' = [current EXCEPT ![t] = value_]
  /\ UNCHANGED <<value_, pc, operand, reply>>

\* value_.store(value)
Store(t) ==
  /\ pc[t] = "store"
  /\ value_' = operand[t]
  /\ Goto(t, "return")
  /\ UNCHANGED <<operand, current, reply>>

LoadValue(t) ==
  /\ pc[t] = "read"
  /\ reply' = [reply EXCEPT ![t] = value_]
  /\ Goto(t, "return")
  /\ UNCHANGED <<value_, operand, current>>

Return(t) ==
  /\ pc[t] = "return"
  /\ Goto(t, "idle")
  /\ operand' = [operand EXCEPT ![t] = Zero]
  /\ current' = [current EXCEPT ![t] = Zero]
  /\ reply' = [reply EXCEPT ![t] = Zero]
  /\ UNCHANGED value_

Run(t) == Load(t) \/ Exchange(t) \/ Retry(t) \/ Store(t) \/ LoadValue(t) \/ Return(t)

Next == \E t \in Threads :
  Increment(t) \/ Decrement(t) \/ Set(t) \/ Read(t) \/ Run(t)

\* A thread inside an operation keeps running.
Fairness == \A t \in Threads : WF_vars(Run(t))

Spec == Init /\ [][Next]_vars /\ Fairness

-----------------------------------------------------------------------------
TypeOK ==
  /\ value_ \in Numbers
  /\ pc \in [Threads -> Labels]
  /\ operand \in [Threads -> Numbers]
  /\ current \in [Threads -> Numbers]
  /\ reply \in [Threads -> Numbers]

\* The loop is lock-free: while a thread is in it, operations keep completing,
\* although any one thread may be overtaken for ever (gauge.cc:36-39).
LockFree ==
  (\E t \in Threads : pc[t] = "cas") ~> (\E t \in Threads : pc[t] = "return")

-----------------------------------------------------------------------------
(* The gauge implements a cell whose operations are atomic: no update is    *)
(* lost or applied twice, whatever happens between the load and the         *)
(* exchange.                                                                *)

Kind(t) == CASE pc[t] \in {"load", "cas"} -> "add"
             [] pc[t] = "store" -> "set"
             [] pc[t] = "read" -> "get"
             [] OTHER -> "none"

Pending == [t \in Threads |->
              [op |-> Kind(t),
               operand |-> IF Kind(t) = "none" THEN Zero ELSE operand[t]]]

Cell == INSTANCE AtomicCell WITH value <- value_, pending <- Pending, got <- reply

Linearizable == Cell!Spec
=============================================================================

----------------------------- MODULE AtomicCell -----------------------------
(***************************************************************************)
(* What a promcore gauge or counter promises: a number, and additions,     *)
(* assignments and reads that each happen at one instant.                  *)
(***************************************************************************)
CONSTANTS Threads, Numbers, Zero, Plus(_, _)

VARIABLES
  value,    \* the number
  pending,  \* the operation each thread has called and that is not done yet
  got       \* what the last read of a thread returned, Zero before and after

vars == <<value, pending, got>>

Nothing == [op |-> "none", operand |-> Zero]

Init ==
  /\ value \in Numbers
  /\ pending = [t \in Threads |-> Nothing]
  /\ got = [t \in Threads |-> Zero]

Call(t) ==
  /\ pending[t] = Nothing
  /\ \E op \in {"add", "set", "get"}, v \in Numbers :
       pending' = [pending EXCEPT ![t] = [op |-> op, operand |-> v]]
  /\ UNCHANGED <<value, got>>

Do(t, op) == pending[t].op = op /\ pending' = [pending EXCEPT ![t] = Nothing]

Add(t) == Do(t, "add") /\ value' = Plus(value, pending[t].operand) /\ UNCHANGED got

Assign(t) == Do(t, "set") /\ value' = pending[t].operand /\ UNCHANGED got

Get(t) == Do(t, "get") /\ got' = [got EXCEPT ![t] = value] /\ UNCHANGED value

\* The reader has its answer.
Forget(t) == got' = [got EXCEPT ![t] = Zero] /\ UNCHANGED <<value, pending>>

Next == \E t \in Threads : Call(t) \/ Add(t) \/ Assign(t) \/ Get(t) \/ Forget(t)

Spec == Init /\ [][Next]_vars
=============================================================================

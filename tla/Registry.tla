------------------------------ MODULE Registry ------------------------------
(***************************************************************************)
(* promcore::Registry (core/src/registry.cc, core/include/promcore/        *)
(* registry.h): one vector of owned families per metric type, one mutex,   *)
(* and the three operations Add (called by Builder::Register), Remove and  *)
(* Collect, executed by any number of threads.                             *)
(*                                                                         *)
(* Every call is split at the points where another thread could matter:    *)
(* taking the mutex, the search in the other types, the search in the own  *)
(* type, the construction and push_back, the search and the erase of       *)
(* Remove, each Family::Collect of a scrape, the release of the mutex, and *)
(* the delivery of the result to the caller.                               *)
(*                                                                         *)
(* A family is named by the ADDRESS of the heap object the vector owns,    *)
(* because Remove compares addresses, and an address freed by Remove can   *)
(* be handed out again by the allocator.                                   *)
(***************************************************************************)
EXTENDS Integers, Sequences, FiniteSets, Functions

CONSTANTS
  Threads,     \* the threads that call the registry
  TypeOrder,   \* the metric types, in the order in which Collect visits them
  Names,       \* family names
  LabelSets,   \* constant label sets
  Rejected,    \* families whose constructor throws (bad metric or label name)
  Addrs,       \* addresses the allocator can return for a family
  Foreign,     \* the address of a family that this registry never owned
  NoOne        \* the value of the mutex when it is free

Types == Range(TypeOrder)

\* What identifies a family; the help text and the metrics play no part here.
Family == [type : Types, name : Names, labels : LabelSets]

ASSUME TypeOrderAssumption ==
  /\ TypeOrder \in Seq(Types)
  /\ IsInjective(TypeOrder)

ASSUME NoOneAssumption == NoOne \notin Threads

ASSUME ForeignAssumption == Foreign \notin Addrs

ASSUME RejectedAssumption == Rejected \subseteq Family

Behaviors == {"Merge", "Throw"}

NoCall     == [op |-> "none"]
AddCall    == [op : {"Add"}, family : Family]
RemoveCall == [op : {"Remove"}, type : Types, addr : Addrs \cup {Foreign}]
Scrape     == [op |-> "Collect"]
Calls      == {NoCall, Scrape} \cup AddCall \cup RemoveCall

NoReply  == [status |-> "none"]
Thrown   == [status |-> "throw"]
Found    == [status |-> "true"]
NotFound == [status |-> "false"]
Scraped  == [status |-> "scrape"]
Ref(a)   == [status |-> "ref", addr |-> a]
Replies  == {NoReply, Thrown, Found, NotFound, Scraped} \cup {Ref(a) : a \in Addrs}

VARIABLES
  insert_behavior_,  \* const member, chosen by the constructor
  families,          \* countersDouble_ ... summaries_: type -> vector of addresses
  heap,              \* the live Family objects: address -> identity
  mutex_,            \* the thread that holds the mutex, or NoOne
  pc,                \* where each thread is
  call,              \* the call each thread is executing
  reply,             \* the result each thread is about to return
  cursor,            \* Collect: index of the type, index in its vector
  results,           \* Collect: the vector of results built so far
  refs,              \* references to families the program may still use
  stale              \* threads whose address in hand has been erased meanwhile

vars == <<insert_behavior_, families, heap, mutex_, pc, call, reply, cursor,
          results, refs, stale>>

\* State that only the caller's side of a call touches.
client == <<refs, stale>>

\* The state a scrape builds.
scrape == <<cursor, results>>

Labels == {"idle", "lock", "check_other_type", "find", "new", "remove_find",
           "remove_erase", "collect", "unlock", "return"}

Registered == UNION {Range(families[T]) : T \in Types}

-----------------------------------------------------------------------------
Init ==
  /\ insert_behavior_ \in Behaviors
  /\ families = [T \in Types |-> << >>]
  /\ heap = << >>
  /\ mutex_ = NoOne
  /\ pc = [t \in Threads |-> "idle"]
  /\ call = [t \in Threads |-> NoCall]
  /\ reply = [t \in Threads |-> NoReply]
  /\ cursor = [t \in Threads |-> <<1, 1>>]
  /\ results = [t \in Threads |-> << >>]
  /\ refs = {}
  /\ stale = {}

-----------------------------------------------------------------------------
(* Control                                                                 *)

Goto(t, label) == pc' = [pc EXCEPT ![t] = label]

\* A return or a throw: the result is fixed and the lock_guard is left.
Finish(t, r) ==
  /\ reply' = [reply EXCEPT ![t] = r]
  /\ Goto(t, "unlock")

\* A thread enters an operation of the registry with its arguments.
Invoke(t, c) ==
  /\ pc[t] = "idle"
  /\ call' = [call EXCEPT ![t] = c]
  /\ Goto(t, "lock")
  /\ UNCHANGED <<insert_behavior_, families, heap, mutex_, reply, scrape, client>>

\* Builder::Register
InvokeAdd(t) == \E f \in Family : Invoke(t, [op |-> "Add", family |-> f])

\* A reference may be passed to Remove as long as it has not been invalidated;
\* so may a family that belongs to another registry.
InvokeRemove(t) ==
  \/ \E a \in refs :
       Invoke(t, [op |-> "Remove", type |-> heap[a].type, addr |-> a])
  \/ \E T \in Types : Invoke(t, [op |-> "Remove", type |-> T, addr |-> Foreign])

InvokeCollect(t) == Invoke(t, Scrape)

\* std::lock_guard<std::mutex> lock{mutex_}
Entry(op) == CASE op = "Add"     -> "check_other_type"
               [] op = "Remove"  -> "remove_find"
               [] op = "Collect" -> "collect"

\* Not the code: the mutex is not waited for.
LockShared(t) ==
  /\ pc[t] = "lock"
  /\ mutex_' = t
  /\ Goto(t, Entry(call[t].op))
  /\ UNCHANGED <<insert_behavior_, families, heap, call, reply, scrape, client>>

Lock(t) ==
  /\ pc[t] = "lock"
  /\ mutex_ = NoOne
  /\ mutex_' = t
  /\ Goto(t, Entry(call[t].op))
  /\ UNCHANGED <<insert_behavior_, families, heap, call, reply, scrape, client>>

\* The destructor of the lock_guard, on return and on throw alike.
Unlock(t) ==
  /\ pc[t] = "unlock"
  /\ mutex_' = NoOne
  /\ Goto(t, "return")
  /\ UNCHANGED <<insert_behavior_, families, heap, call, reply, scrape, client>>

\* The caller receives the result. A reference that was erased between the
\* release of the mutex and this point never becomes usable.
Return(t) ==
  /\ pc[t] = "return"
  /\ refs' = IF reply[t].status = "ref" /\ t \notin stale
             THEN refs \cup {reply[t].addr} ELSE refs
  /\ stale' = stale \ {t}
  /\ call' = [call EXCEPT ![t] = NoCall]
  /\ reply' = [reply EXCEPT ![t] = NoReply]
  /\ cursor' = [cursor EXCEPT ![t] = <<1, 1>>]
  /\ results' = [results EXCEPT ![t] = << >>]
  /\ Goto(t, "idle")
  /\ UNCHANGED <<insert_behavior_, families, heap, mutex_>>

-----------------------------------------------------------------------------
(* Add                                                                     *)

NameExists(name, T) == \E a \in Range(families[T]) : heap[a].name = name

\* Not the code: one type is missing from the list of types.
NameExistsInSomeType(T, name) ==
  \E i \in DOMAIN TypeOrder \ {1} : TypeOrder[i] # T /\ NameExists(name, TypeOrder[i])

NameExistsInOtherType(T, name) == \E U \in Types \ {T} : NameExists(name, U)

AddCheckOtherType(t) ==
  LET f == call[t].family
  IN  /\ pc[t] = "check_other_type"
      /\ IF NameExistsInOtherType(f.type, f.name)
         THEN Finish(t, Thrown)
         ELSE Goto(t, "find") /\ UNCHANGED reply
      /\ UNCHANGED <<insert_behavior_, families, heap, mutex_, call, scrape, client>>

\* The positions find_if can stop at: the first with the wanted name.
FirstNamed(T, name) ==
  {i \in DOMAIN families[T] :
     /\ heap[families[T][i]].name = name
     /\ \A j \in 1..(i - 1) : heap[families[T][j]].name # name}

\* Not the code: the labels do not matter.
MergesAnyLabels(a, f) == insert_behavior_ = "Merge"

\* Not the code: the behaviour of the registry does not matter.
MergesAlways(a, f) == heap[a].labels = f.labels

\* The existing family is handed out.
Merges(a, f) == insert_behavior_ = "Merge" /\ heap[a].labels = f.labels

AddFind(t) ==
  LET f == call[t].family
      it == FirstNamed(f.type, f.name)
  IN  /\ pc[t] = "find"
      /\ \/ /\ ~NameExists(f.name, f.type)
            /\ Goto(t, "new")
            /\ UNCHANGED reply
         \/ \E i \in it :
              LET a == families[f.type][i]
              IN  IF Merges(a, f)
                  THEN Finish(t, Ref(a))
                  ELSE Finish(t, Thrown)
      /\ UNCHANGED <<insert_behavior_, families, heap, mutex_, call, scrape, client>>

\* make_unique<Family<T>> and push_back. The new object takes any address
\* that is not in use, one that Remove has freed included.
AddNew(t) ==
  LET f == call[t].family
  IN  /\ pc[t] = "new"
      /\ f \notin Rejected
      /\ \E a \in Addrs \ DOMAIN heap :
           /\ heap' = [b \in DOMAIN heap \cup {a} |-> IF b = a THEN f ELSE heap[b]]
           /\ families' = [families EXCEPT ![f.type] = Append(@, a)]
           /\ Finish(t, Ref(a))
      /\ UNCHANGED <<insert_behavior_, mutex_, call, scrape, client>>

\* Not the code: the exception leaves the mutex locked.
AddNewThrowsLocked(t) ==
  /\ pc[t] = "new"
  /\ call[t].family \in Rejected \/ DOMAIN heap = Addrs
  /\ reply' = [reply EXCEPT ![t] = Thrown]
  /\ Goto(t, "return")
  /\ UNCHANGED <<insert_behavior_, families, heap, mutex_, call, scrape, client>>

\* The Family constructor throws on a bad name, or memory runs out; nothing
\* has been pushed back yet.
AddNewThrows(t) ==
  /\ pc[t] = "new"
  /\ call[t].family \in Rejected \/ DOMAIN heap = Addrs
  /\ Finish(t, Thrown)
  /\ UNCHANGED <<insert_behavior_, families, heap, mutex_, call, scrape, client>>

-----------------------------------------------------------------------------
(* Remove                                                                  *)

RemoveFind(t) ==
  /\ pc[t] = "remove_find"
  /\ IF call[t].addr \in Range(families[call[t].type])
     THEN Goto(t, "remove_erase") /\ UNCHANGED reply
     ELSE Finish(t, NotFound)
  /\ UNCHANGED <<insert_behavior_, families, heap, mutex_, call, scrape, client>>

\* Threads, other than the eraser, that still carry the address: a Remove that
\* waits for the mutex, an Add whose result has not reached its caller.
Carries(t, a) ==
  \/ pc[t] = "lock" /\ call[t].op = "Remove" /\ call[t].addr = a
  \/ pc[t] = "return" /\ reply[t] = Ref(a)

\* Not the code: the range erased is one too long.
WithoutTwo(s, i) == SubSeq(s, 1, i - 1) \o SubSeq(s, i + 2, Len(s))

Without(s, i) == SubSeq(s, 1, i - 1) \o SubSeq(s, i + 1, Len(s))

\* families.erase(it): the unique_ptr frees the family, later ones move up.
RemoveErase(t) ==
  LET T == call[t].type
      a == call[t].addr
  IN  /\ pc[t] = "remove_erase"
      /\ \E i \in DOMAIN families[T] :
           /\ families[T][i] = a
           /\ families' = [families EXCEPT ![T] = Without(@, i)]
      /\ heap' = [b \in DOMAIN heap \ {a} |-> heap[b]]
      /\ refs' = refs \ {a}
      /\ stale' = stale \cup {u \in Threads : Carries(u, a)}
      /\ Finish(t, Found)
      /\ UNCHANGED <<insert_behavior_, mutex_, call, scrape>>

-----------------------------------------------------------------------------
(* Collect                                                                 *)

\* One iteration of CollectAll. What the family itself delivers (its metrics,
\* or nothing while it has none) is module Family's subject: here the scrape
\* records the identity of the family it asked.
CollectFamily(t) ==
  LET i == cursor[t][1]
      j == cursor[t][2]
  IN  /\ pc[t] = "collect"
      /\ i <= Len(TypeOrder)
      /\ j <= Len(families[TypeOrder[i]])
      /\ results' = [results EXCEPT ![t] = Append(@, heap[families[TypeOrder[i]][j]])]
      /\ cursor' = [cursor EXCEPT ![t] = <<i, j + 1>>]
      /\ UNCHANGED <<insert_behavior_, families, heap, mutex_, pc, call, reply, client>>

\* Not the code: the next vector is entered before its first element.
CollectFromZero(t) ==
  /\ pc[t] = "collect"
  /\ cursor[t][1] <= Len(TypeOrder)
  /\ cursor[t][2] > Len(families[TypeOrder[cursor[t][1]]])
  /\ cursor' = [cursor EXCEPT ![t] = <<cursor[t][1] + 1, 0>>]
  /\ UNCHANGED <<insert_behavior_, families, heap, mutex_, pc, call, reply,
                 results, client>>

\* The end of one CollectAll.
CollectNextType(t) ==
  LET i == cursor[t][1]
      j == cursor[t][2]
  IN  /\ pc[t] = "collect"
      /\ i <= Len(TypeOrder)
      /\ j > Len(families[TypeOrder[i]])
      /\ cursor' = [cursor EXCEPT ![t] = <<i + 1, 1>>]
      /\ UNCHANGED <<insert_behavior_, families, heap, mutex_, pc, call, reply,
                     results, client>>

CollectDone(t) ==
  /\ pc[t] = "collect"
  /\ cursor[t][1] > Len(TypeOrder)
  /\ Finish(t, Scraped)
  /\ UNCHANGED <<insert_behavior_, families, heap, mutex_, call, scrape, client>>

-----------------------------------------------------------------------------
Call(t) == InvokeAdd(t) \/ InvokeRemove(t) \/ InvokeCollect(t)

\* What a thread does between taking the mutex and handing back the result.
Run(t) ==
  \/ AddCheckOtherType(t) \/ AddFind(t) \/ AddNew(t) \/ AddNewThrows(t)
  \/ RemoveFind(t) \/ RemoveErase(t)
  \/ CollectFamily(t) \/ CollectNextType(t) \/ CollectDone(t)
  \/ Unlock(t) \/ Return(t)

Next == \E t \in Threads : Call(t) \/ Lock(t) \/ Run(t)

\* A thread inside the registry keeps running, and a free mutex that is wanted
\* is granted to somebody (std::mutex does not promise to whom). No thread has
\* to call.
Fairness ==
  /\ \A t \in Threads : WF_vars(Run(t))
  /\ WF_vars(\E t \in Threads : Lock(t))

Spec == Init /\ [][Next]_vars /\ Fairness

-----------------------------------------------------------------------------
(* Properties                                                              *)

TypeOK ==
  /\ insert_behavior_ \in Behaviors
  /\ families \in [Types -> Seq(Addrs)]
  /\ DOMAIN heap \subseteq Addrs
  /\ \A a \in DOMAIN heap : heap[a] \in Family
  /\ mutex_ \in Threads \cup {NoOne}
  /\ pc \in [Threads -> Labels]
  /\ call \in [Threads -> Calls]
  /\ reply \in [Threads -> Replies]
  /\ cursor \in [Threads -> (Nat \ {0}) \X (Nat \ {0})]
  /\ results \in [Threads -> Seq(Family)]
  /\ refs \subseteq Addrs
  /\ stale \subseteq Threads

\* A family name is registered at most once, over all metric types, however
\* the check of one Add and the push_back of another interleave
\* (registry.cc:136-162).
NamesUnique ==
  \A a, b \in Registered : heap[a].name = heap[b].name => a = b

\* The unique_ptrs own exactly the live families, each from one slot of the
\* vector of its type; every reference the program may use is one of them.
Ownership ==
  /\ Registered = DOMAIN heap
  /\ \A T, U \in Types : \A i \in DOMAIN families[T], j \in DOMAIN families[U] :
       families[T][i] = families[U][j] => T = U /\ i = j
  /\ \A T \in Types : \A a \in Range(families[T]) : heap[a].type = T
  /\ refs \subseteq DOMAIN heap

\* A family an Add hands out, new or merged, is registered and has the type,
\* name and constant labels asked for when the mutex is released.
AddReturnsItsFamily ==
  \A t \in Threads :
    pc[t] = "unlock" /\ reply[t].status = "ref" =>
      /\ reply[t].addr \in Range(families[call[t].family.type])
      /\ heap[reply[t].addr] = call[t].family

\* The vectors one after the other, in Collect's order, as a set of pairs
\* (position, family) so that it can be compared with a result.
Before(i) == LET n[k \in 0..Len(TypeOrder)] ==
                   IF k = 0 THEN 0 ELSE n[k - 1] + Len(families[TypeOrder[k]])
             IN  n[i - 1]

\* A finished scrape holds every family registered at that moment exactly
\* once, grouped by type and in registration order: no Add or Remove of
\* another thread shifts the vectors under the iteration (registry.cc:46-59).
ScrapeComplete ==
  \A t \in Threads :
    pc[t] = "unlock" /\ call[t] = Scrape =>
      /\ Len(results[t]) = Before(Len(TypeOrder) + 1)
      /\ \A i \in DOMAIN TypeOrder : \A j \in DOMAIN families[TypeOrder[i]] :
           results[t][Before(i) + j] = heap[families[TypeOrder[i]][j]]

\* As long as somebody waits for the mutex some call completes: every return
\* and every throw releases it, so no call stops the registry for good.
SomeCallReturns ==
  (\E t \in Threads : pc[t] = "lock") ~> (\E t \in Threads : pc[t] = "return")

\* A Remove that returns true has removed the family its caller passed, not
\* one that was registered later at the same address (registry.h:95, "True if
\* the family was found and removed").
RemoveErasesItsOwn ==
  \A t \in Threads : call[t].op = "Remove" /\ reply[t] = Found => t \notin stale

-----------------------------------------------------------------------------
(* The inductive invariant                                                 *)

AddLabels    == {"check_other_type", "find", "new"}
RemoveLabels == {"remove_find", "remove_erase"}
Critical     == AddLabels \cup RemoveLabels \cup {"collect", "unlock"}

\* Between Lock and Unlock a thread is the holder of the mutex.
Exclusive == \A t \in Threads : pc[t] \in Critical <=> mutex_ = t

\* A thread executes the body of the operation it called.
CallMatches ==
  \A t \in Threads :
    /\ pc[t] \in AddLabels => call[t] \in AddCall
    /\ pc[t] \in RemoveLabels => call[t] \in RemoveCall
    /\ pc[t] = "lock" => call[t] # NoCall
    /\ pc[t] = "unlock" /\ reply[t].status = "ref" => call[t] \in AddCall

\* What the checks of Add and Remove have established still holds when the
\* step that relies on it is taken.
ChecksHold ==
  \A t \in Threads :
    /\ pc[t] = "find" =>
         \A T \in Types \ {call[t].family.type} : ~NameExists(call[t].family.name, T)
    /\ pc[t] = "new" =>
         \A T \in Types : ~NameExists(call[t].family.name, T)
    /\ pc[t] = "remove_erase" =>
         call[t].addr \in Range(families[call[t].type])

\* A reference on its way to the caller is live unless it is marked stale.
RepliesLive ==
  \A t \in Threads :
    pc[t] = "return" /\ reply[t].status = "ref" /\ t \notin stale =>
      reply[t].addr \in DOMAIN heap

\* The mutex covers every check and the update that depends on it, so what a
\* call has checked is still true when it acts (registry.cc:134-163, 196-209);
\* this is what makes NamesUnique and Ownership survive every step.
IInv ==
  /\ TypeOK
  /\ Exclusive
  /\ CallMatches
  /\ ChecksHold
  /\ NamesUnique
  /\ Ownership
  /\ AddReturnsItsFamily
  /\ RepliesLive

\* A call has an answer from the step that decides it to its return, and a
\* thread that has not started a scrape holds no part of one.
Phases ==
  \A t \in Threads :
    /\ pc[t] = "idle" => call[t] = NoCall
    /\ pc[t] \in {"unlock", "return"} <=> reply[t] # NoReply
    /\ pc[t] \in {"idle", "lock"} => cursor[t] = <<1, 1>> /\ results[t] = << >>
    /\ pc[t] = "collect" => call[t] = Scrape

Scraping(t) == pc[t] = "collect" \/ (pc[t] = "unlock" /\ call[t] = Scrape)

\* The l-th family of the k-th type lies before the cursor of a scrape.
Visited(t, k, l) == k < cursor[t][1] \/ (k = cursor[t][1] /\ l < cursor[t][2])

\* A scrape holds the families its cursor has passed, each at its place, and
\* nothing else: the vectors do not move under the two nested loops.
GatheredBy(t) ==
  LET i == cursor[t][1]
      j == cursor[t][2]
  IN  /\ \/ i \in DOMAIN TypeOrder /\ j <= Len(families[TypeOrder[i]]) + 1
         \/ i = Len(TypeOrder) + 1 /\ j = 1
      /\ Len(results[t]) = Before(i) + j - 1
      /\ \A k \in DOMAIN TypeOrder : \A l \in DOMAIN families[TypeOrder[k]] :
           Visited(t, k, l) =>
             /\ Before(k) + l \in DOMAIN results[t]
             /\ results[t][Before(k) + l] = heap[families[TypeOrder[k]][l]]
      /\ Range(results[t]) \subseteq {heap[a] : a \in Registered}
      /\ pc[t] = "unlock" => i = Len(TypeOrder) + 1

Gathered == \A t \in Threads : Scraping(t) => GatheredBy(t)

\* With this each step can be matched with a step of the atomic table below,
\* and a finished scrape is complete.
RInv == IInv /\ Phases /\ Gathered

-----------------------------------------------------------------------------
(* The registry implements one atomic table from names to families.        *)

\* The families of the table: the name is the key, so the mapping is defined
\* only because names are unique.
Table == [n \in {heap[a].name : a \in Registered} |->
            LET a == CHOOSE a \in Registered : heap[a].name = n
            IN  [addr |-> a, family |-> heap[a]]]

Response == [t \in Threads |->
               IF reply[t] = Scraped
               THEN [status |-> "scrape", families |-> Range(results[t])]
               ELSE reply[t]]

Abstract == INSTANCE RegistrySpec
              WITH table <- Table, request <- call, response <- Response

Linearizable == Abstract!Spec
=============================================================================

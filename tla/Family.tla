------------------------------- MODULE Family -------------------------------
(***************************************************************************)
(* promcore::Family<T> (core/src/family.cc, core/include/promcore/         *)
(* family.h): the map from label sets to the metrics it owns, one mutex,   *)
(* and the operations Add, Remove, Has and Collect, executed by any number *)
(* of threads. T and the content of a metric play no part: a metric is the *)
(* address of its object, which is what Remove compares.                   *)
(***************************************************************************)
EXTENDS Functions, FiniteSets

CONSTANTS
  Threads,         \* the threads that use the family
  LabelSets,       \* label sets: functions from label names to label values
  LabelNames,      \* the label names CheckLabelName accepts for T
  ConstantNames,   \* the names in constant_labels_
  Addrs,           \* addresses the allocator can return for a metric
  Foreign,         \* a pointer that no Add of this family returned
  NoOne            \* nobody holds the mutex, no object is waiting

ASSUME NoOneAssumption == NoOne \notin Threads \cup Addrs

ASSUME ForeignAssumption == Foreign \notin Addrs

NoCall   == [op |-> "none"]
Gather   == [op |-> "Collect"]
Calls    == {NoCall, Gather}
              \cup [op : {"Add"}, labels : LabelSets]
              \cup [op : {"Remove"}, metric : Addrs \cup {Foreign}]
              \cup [op : {"Has"}, labels : LabelSets]

NoReply   == [status |-> "none"]
Done      == [status |-> "done"]
Thrown    == [status |-> "throw"]
Answer(b) == [status |-> IF b THEN "true" ELSE "false"]
Ref(a)    == [status |-> "ref", metric |-> a]
Replies   == {NoReply, Done, Thrown, Answer(TRUE), Answer(FALSE)}
               \cup {Ref(a) : a \in Addrs}

VARIABLES
  metrics_,  \* labels -> address of the metric the map owns
  spare,     \* the object an Add has made and not yet handed to the map
  mutex_,    \* the thread that holds the mutex, or NoOne
  pc,        \* where each thread is
  call,      \* the call each thread is executing
  reply,     \* the result each thread is about to return
  results,   \* Collect: the label sets of the samples gathered so far
  refs       \* pointers to metrics the program may still use

vars == <<metrics_, spare, mutex_, pc, call, reply, results, refs>>

Labels == {"idle", "lock", "insert", "check", "remove", "has", "collect",
           "unlock", "return"}

\* Objects that exist: owned by the map, or still in the hands of an Add.
Live == Range(metrics_) \cup (Range(spare) \cap Addrs)

\* A label set that a sample of this family may carry.
Valid(labels) == DOMAIN labels \subseteq LabelNames \ ConstantNames

-----------------------------------------------------------------------------
Init ==
  /\ metrics_ = << >>
  /\ spare = [t \in Threads |-> NoOne]
  /\ mutex_ = NoOne
  /\ pc = [t \in Threads |-> "idle"]
  /\ call = [t \in Threads |-> NoCall]
  /\ reply = [t \in Threads |-> NoReply]
  /\ results = [t \in Threads |-> {}]
  /\ refs = {}

Goto(t, label) == pc' = [pc EXCEPT ![t] = label]

Finish(t, r) == reply' = [reply EXCEPT ![t] = r] /\ Goto(t, "unlock")

Invoke(t, c) ==
  /\ pc[t] = "idle"
  /\ call' = [call EXCEPT ![t] = c]
  /\ Goto(t, "lock")
  /\ UNCHANGED <<metrics_, mutex_, reply, results, refs>>

\* The public Add constructs the metric before the mutex is taken.
InvokeAdd(t) ==
  \E l \in LabelSets, a \in Addrs \ Live :
    Invoke(t, [op |-> "Add", labels |-> l]) /\ spare' = [spare EXCEPT ![t] = a]

InvokeRemove(t) ==
  \E a \in refs \cup {Foreign} :
    Invoke(t, [op |-> "Remove", metric |-> a]) /\ UNCHANGED spare

InvokeHas(t) ==
  \E l \in LabelSets : Invoke(t, [op |-> "Has", labels |-> l]) /\ UNCHANGED spare

InvokeCollect(t) == Invoke(t, Gather) /\ UNCHANGED spare

Entry(op) == CASE op = "Add"     -> "insert"
               [] op = "Remove"  -> "remove"
               [] op = "Has"     -> "has"
               [] op = "Collect" -> "collect"

\* Not the code: the mutex is not waited for.
LockShared(t) ==
  /\ pc[t] = "lock"
  /\ mutex_' = t
  /\ Goto(t, Entry(call[t].op))
  /\ UNCHANGED <<metrics_, spare, call, reply, results, refs>>

Lock(t) ==
  /\ pc[t] = "lock"
  /\ mutex_ = NoOne
  /\ mutex_' = t
  /\ Goto(t, Entry(call[t].op))
  /\ UNCHANGED <<metrics_, spare, call, reply, results, refs>>

Unlock(t) ==
  /\ pc[t] = "unlock"
  /\ mutex_' = NoOne
  /\ Goto(t, "return")
  /\ UNCHANGED <<metrics_, spare, call, reply, results, refs>>

\* The map still owns the metric that Add returned.
StillOwned(t) ==
  /\ call[t].labels \in DOMAIN metrics_
  /\ metrics_[call[t].labels] = reply[t].metric

\* The caller gets the result; a metric that was removed after the mutex was
\* released is not usable.
Return(t) ==
  /\ pc[t] = "return"
  /\ refs' = IF reply[t].status = "ref" /\ StillOwned(t)
             THEN refs \cup {reply[t].metric} ELSE refs
  /\ call' = [call EXCEPT ![t] = NoCall]
  /\ reply' = [reply EXCEPT ![t] = NoReply]
  /\ results' = [results EXCEPT ![t] = {}]
  /\ Goto(t, "idle")
  /\ UNCHANGED <<metrics_, spare, mutex_>>

-----------------------------------------------------------------------------
(* Add: insert first, check the labels afterwards                          *)

\* Not the code: the new metric replaces one that is there.
AddAssign(t) ==
  LET l == call[t].labels
  IN  /\ pc[t] = "insert"
      /\ metrics_' = [k \in DOMAIN metrics_ \cup {l} |->
                        IF k = l THEN spare[t] ELSE metrics_[k]]
      /\ Goto(t, "check")
      /\ spare' = [spare EXCEPT ![t] = NoOne]
      /\ UNCHANGED <<mutex_, call, reply, results, refs>>

\* Not the code: what goes into the map has been moved out before.
AddMoved(t) ==
  LET l == call[t].labels
  IN  /\ pc[t] = "insert"
      /\ metrics_' = [k \in DOMAIN metrics_ \cup {l} |->
                        IF k \in DOMAIN metrics_ THEN metrics_[k] ELSE NoOne]
      /\ Goto(t, "check")
      /\ spare' = [spare EXCEPT ![t] = NoOne]
      /\ UNCHANGED <<mutex_, call, reply, results, refs>>

\* metrics_.insert(...): does nothing if the labels are there, and then the
\* object that was made for them dies with the call.
AddInsert(t) ==
  LET l == call[t].labels
  IN  /\ pc[t] = "insert"
      /\ IF l \in DOMAIN metrics_
         THEN Finish(t, Ref(metrics_[l])) /\ UNCHANGED metrics_
         ELSE /\ metrics_' = [k \in DOMAIN metrics_ \cup {l} |->
                                IF k = l THEN spare[t] ELSE metrics_[k]]
              /\ Goto(t, "check")
              /\ UNCHANGED reply
      /\ spare' = [spare EXCEPT ![t] = NoOne]
      /\ UNCHANGED <<mutex_, call, results, refs>>

\* Not the code: the constant labels are not compared.
Misnamed(name) == name \notin LabelNames

\* A label name Add refuses.
Refused(name) == name \notin LabelNames \/ name \in ConstantNames

\* Not the code: the metric stays in the map when the exception is thrown.
AddCheckKeeps(t) ==
  /\ pc[t] = "check"
  /\ IF \E name \in DOMAIN call[t].labels : Refused(name)
     THEN Finish(t, Thrown) ELSE Finish(t, Ref(metrics_[call[t].labels]))
  /\ UNCHANGED <<metrics_, spare, mutex_, call, results, refs>>

\* The loop over the labels. A bad one takes the metric out again and throws.
AddCheck(t) ==
  LET l == call[t].labels
  IN  /\ pc[t] = "check"
      /\ IF \E name \in DOMAIN l : Refused(name)
         THEN metrics_' = Restrict(metrics_, DOMAIN metrics_ \ {l}) /\ Finish(t, Thrown)
         ELSE Finish(t, Ref(metrics_[l])) /\ UNCHANGED metrics_
      /\ UNCHANGED <<spare, mutex_, call, results, refs>>

-----------------------------------------------------------------------------
\* The scan stops at the first entry that owns the metric; erase destroys it.
Remove(t) ==
  /\ pc[t] = "remove"
  /\ \/ /\ call[t].metric \notin Range(metrics_)
        /\ UNCHANGED <<metrics_, refs>>
     \/ \E l \in DOMAIN metrics_ :
          /\ metrics_[l] = call[t].metric
          /\ metrics_' = Restrict(metrics_, DOMAIN metrics_ \ {l})
          /\ refs' = refs \ {call[t].metric}
  /\ Finish(t, Done)
  /\ UNCHANGED <<spare, mutex_, call, results>>

Has(t) ==
  /\ pc[t] = "has"
  /\ Finish(t, Answer(call[t].labels \in DOMAIN metrics_))
  /\ UNCHANGED <<metrics_, spare, mutex_, call, results, refs>>

\* One iteration of Collect: the unordered_map comes in any order. CollectMetric
\* labels the sample with the constant labels and the labels of the entry.
CollectMetric(t) ==
  /\ pc[t] = "collect"
  /\ \E l \in DOMAIN metrics_ \ results[t] :
       results' = [results EXCEPT ![t] = @ \cup {l}]
  /\ UNCHANGED <<metrics_, spare, mutex_, pc, call, reply, refs>>

\* The end of the loop, reached at once when the map is empty.
CollectDone(t) ==
  /\ pc[t] = "collect"
  /\ DOMAIN metrics_ \subseteq results[t]
  /\ Finish(t, Done)
  /\ UNCHANGED <<metrics_, spare, mutex_, call, results, refs>>

-----------------------------------------------------------------------------
Call(t) == InvokeAdd(t) \/ InvokeRemove(t) \/ InvokeHas(t) \/ InvokeCollect(t)

Run(t) ==
  \/ AddInsert(t) \/ AddCheck(t) \/ Remove(t) \/ Has(t)
  \/ CollectMetric(t) \/ CollectDone(t) \/ Unlock(t) \/ Return(t)

Next == \E t \in Threads : Call(t) \/ Lock(t) \/ Run(t)

Spec == Init /\ [][Next]_vars

-----------------------------------------------------------------------------
(* Properties                                                              *)

TypeOK ==
  /\ DOMAIN metrics_ \subseteq LabelSets
  /\ \A l \in DOMAIN metrics_ : metrics_[l] \in Addrs
  /\ spare \in [Threads -> Addrs \cup {NoOne}]
  /\ mutex_ \in Threads \cup {NoOne}
  /\ pc \in [Threads -> Labels]
  /\ call \in [Threads -> Calls]
  /\ reply \in [Threads -> Replies]
  /\ results \in [Threads -> SUBSET LabelSets]
  /\ refs \subseteq Addrs

\* No object has two owners, so none is destroyed twice, and a pointer the
\* program may use points to a metric of the map, the retroactive erase of a
\* badly labelled one and a concurrent Add of the same labels included
\* (family.cc:37-57).
Ownership ==
  /\ IsInjective(metrics_)
  /\ \A t \in Threads : spare[t] # NoOne =>
       /\ spare[t] \notin Range(metrics_)
       /\ \A u \in Threads \ {t} : spare[u] # spare[t]
  /\ refs \subseteq Range(metrics_)

\* Add inserts before it checks the labels, yet nobody ever sees a metric with
\* an invalid or duplicate label name: no Has reports it, no scrape holds it
\* and no Add returns it (family.cc:37-53).
NeverSeenInvalid ==
  \A t \in Threads :
    /\ \A l \in results[t] : Valid(l)
    /\ reply[t] \in {Answer(TRUE)} \cup {Ref(a) : a \in Addrs} => Valid(call[t].labels)

\* A rejected or removed metric leaves nothing behind: while no Add is about
\* to check, the map holds valid label sets only (family.cc:44-51).
CleanWhenFree ==
  mutex_ = NoOne => \A l \in DOMAIN metrics_ : Valid(l)

-----------------------------------------------------------------------------
(* The inductive invariant: who holds the mutex, what belongs to each step  *)
(* of a call, and that a label set that is not valid is in the map only     *)
(* until its Add, which nobody else has a pointer from, has checked it.     *)

Locked == {"insert", "check", "remove", "has", "collect", "unlock"}

Holding == \A t \in Threads : pc[t] \in Locked <=> mutex_ = t

Place(t) ==
  /\ pc[t] = "idle" <=> call[t] = NoCall
  /\ pc[t] \in Locked \ {"check", "unlock"} => pc[t] = Entry(call[t].op)
  /\ pc[t] = "check" => call[t].op = "Add" /\ call[t].labels \in DOMAIN metrics_
  /\ spare[t] # NoOne <=> pc[t] \in {"lock", "insert"} /\ call[t].op = "Add"
  /\ reply[t] # NoReply <=> pc[t] \in {"unlock", "return"}
  /\ reply[t].status = "ref" => call[t].op = "Add"
  /\ results[t] # {} => pc[t] \in {"collect", "unlock", "return"}
  /\ pc[t] = "collect" => results[t] \subseteq DOMAIN metrics_

Places == \A t \in Threads : Place(t)

Checking(t, l) == pc[t] = "check" /\ call[t].labels = l

Clean == \A l \in DOMAIN metrics_ : Valid(l) \/ \E t \in Threads : Checking(t, l)

Private == \A t \in Threads :
  pc[t] = "check" /\ ~Valid(call[t].labels) => metrics_[call[t].labels] \notin refs

IInv == TypeOK /\ Holding /\ Places /\ Ownership /\ Clean /\ Private /\ NeverSeenInvalid

-----------------------------------------------------------------------------
(* The family implements one atomic map. A metric that Add has inserted but *)
(* not yet checked is not part of it.                                       *)

Unchecked == {call[t].labels : t \in {u \in Threads : pc[u] = "check"}}

Table == Restrict(metrics_, DOMAIN metrics_ \ Unchecked)

Response == [t \in Threads |->
               IF reply[t] = Done /\ call[t] = Gather
               THEN [status |-> "scrape", samples |-> results[t]]
               ELSE reply[t]]

Abstract == INSTANCE FamilySpec
              WITH table <- Table, request <- call, response <- Response

Linearizable == Abstract!Spec
=============================================================================

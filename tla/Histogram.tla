----------------------------- MODULE Histogram -----------------------------
(***************************************************************************)
(* promcore::Histogram (core/src/histogram.cc, core/include/promcore/      *)
(* histogram.h): a counter per bucket and a gauge for the sum, one mutex,  *)
(* and the operations Observe, ObserveMultiple, Reset and Collect, each of *)
(* which reads or writes the counters one after the other.                 *)
(*                                                                         *)
(* The counters and the gauge are private and touched only under the       *)
(* mutex, so their compare-exchange loops (module Gauge) are one step      *)
(* each. Values are numbers with the < and + of double; counts, which are  *)
(* doubles too, are integers in units of 1/Unit.                           *)
(***************************************************************************)
EXTENDS Integers, Sequences, FiniteSets, SequencesExt

CONSTANTS
  Threads,        \* the threads that use the histogram
  BoundaryLists,  \* arguments of the constructor
  Values,         \* what the program observes
  Batches,        \* arguments of ObserveMultiple: [increments, sum]
  Unit,           \* one observation
  Zero,           \* the number 0.0
  Plus(_, _),     \* + of double
  Less(_, _),     \* < of double
  GreaterEqual(_, _), \* >= of double, which is not ~Less for a NaN
  MaxUpdates,     \* bound: updates between two resets
  NoOne           \* the value of the mutex when it is free

ASSUME UnitAssumption == Unit \in Nat \ {0}

ASSUME NoOneAssumption == NoOne \notin Threads

ASSUME ArgumentsAssumption ==
  /\ \A b \in BoundaryLists : Len(b) \in Nat
  /\ \A b \in Batches : b.increments \in Seq(Int)

NoCall  == [op |-> "none"]
Clear   == [op |-> "Reset"]
Gather  == [op |-> "Collect"]
Updates == [op : {"Observe"}, value : Values]
             \cup [op : {"ObserveMultiple"}, batch : Batches]
Calls   == {NoCall, Clear, Gather} \cup Updates

NoReply    == [status |-> "none"]
Done       == [status |-> "done"]
Thrown     == [status |-> "throw"]
Metric(m)  == [status |-> "metric", metric |-> m]

VARIABLES
  bucket_boundaries_,  \* const after construction
  bucket_counts_,      \* one CounterDouble per bucket
  sum_,                \* GaugeDouble
  mutex_,              \* the thread that holds the mutex, or NoOne
  pc,                  \* where each thread is
  call,                \* the call each thread is executing
  index,               \* bucket_index of Observe, i + 1 of the loops
  metric,              \* the ClientMetric a Collect fills in
  reply,               \* the result each thread is about to return
  log                  \* history: the updates applied since the last Reset

vars == <<bucket_boundaries_, bucket_counts_, sum_, mutex_, pc, call, index,
          metric, reply, log>>

data == <<bucket_counts_, sum_>>

Labels == {"idle", "find_bucket", "check_size", "lock", "add_sum", "count",
           "count_all", "reset_counts", "reset_sum", "collect",
           "collect_sum", "unlock", "return"}

Buckets  == 1..(Len(bucket_boundaries_) + 1)
NoMetric == [bucket |-> << >>, sample_count |-> 0, sample_sum |-> Zero]

\* No two neighbours with >=; the constructor throws otherwise.
IsStrictSorted(b) == \A i \in 1..(Len(b) - 1) : ~GreaterEqual(b[i], b[i + 1])

Init ==
  /\ bucket_boundaries_ \in {b \in BoundaryLists : IsStrictSorted(b)}
  /\ bucket_counts_ = [i \in Buckets |-> 0]
  /\ sum_ = Zero
  /\ mutex_ = NoOne
  /\ pc = [t \in Threads |-> "idle"]
  /\ call = [t \in Threads |-> NoCall]
  /\ index = [t \in Threads |-> 1]
  /\ metric = [t \in Threads |-> NoMetric]
  /\ reply = [t \in Threads |-> NoReply]
  /\ log = << >>

-----------------------------------------------------------------------------
Goto(t, label) == pc' = [pc EXCEPT ![t] = label]

Finish(t, r) == reply' = [reply EXCEPT ![t] = r] /\ Goto(t, "unlock")

Invoke(t, c, entry) ==
  /\ pc[t] = "idle"
  /\ call' = [call EXCEPT ![t] = c]
  /\ Goto(t, entry)
  /\ UNCHANGED <<bucket_boundaries_, data, mutex_, index, metric, reply, log>>

\* Bound: updates applied or under way.
Room == Len(log) + Cardinality({u \in Threads : call[u] \in Updates}) < MaxUpdates

InvokeObserve(t) == Room /\ \E v \in Values :
  Invoke(t, [op |-> "Observe", value |-> v], "find_bucket")

InvokeObserveMultiple(t) == Room /\ \E b \in Batches :
  Invoke(t, [op |-> "ObserveMultiple", batch |-> b], "check_size")

InvokeReset(t) == Invoke(t, Clear, "lock")

InvokeCollect(t) == Invoke(t, Gather, "lock")

Entry(op) == CASE op \in {"Observe", "ObserveMultiple"} -> "add_sum"
               [] op = "Reset"   -> "reset_counts"
               [] op = "Collect" -> "collect"

\* Not the code: the mutex is not waited for.
LockShared(t) ==
  /\ pc[t] = "lock"
  /\ mutex_' = t
  /\ Goto(t, Entry(call[t].op))
  /\ UNCHANGED <<bucket_boundaries_, data, call, index, metric, reply, log>>

Lock(t) ==
  /\ pc[t] = "lock"
  /\ mutex_ = NoOne
  /\ mutex_' = t
  /\ Goto(t, Entry(call[t].op))
  /\ UNCHANGED <<bucket_boundaries_, data, call, index, metric, reply, log>>

Unlock(t) ==
  /\ pc[t] = "unlock"
  /\ mutex_' = NoOne
  /\ Goto(t, "return")
  /\ UNCHANGED <<bucket_boundaries_, data, call, index, metric, reply, log>>

Return(t) ==
  /\ pc[t] = "return"
  /\ Goto(t, "idle")
  /\ call' = [call EXCEPT ![t] = NoCall]
  /\ index' = [index EXCEPT ![t] = 1]
  /\ metric' = [metric EXCEPT ![t] = NoMetric]
  /\ reply' = [reply EXCEPT ![t] = NoReply]
  /\ UNCHANGED <<bucket_boundaries_, data, mutex_, log>>

-----------------------------------------------------------------------------
(* Observe and ObserveMultiple                                             *)

\* distance(begin, lower_bound(begin, end, value)), counted from 1. A binary
\* search ends between a boundary that is < value and one that is not; there is
\* one such place in a sorted list.
BucketIndices(v) ==
  LET b == bucket_boundaries_
  IN  {i \in Buckets : (i > 1 => Less(b[i - 1], v)) /\ (i <= Len(b) => ~Less(b[i], v))}

\* The bucket is looked up before the mutex is taken.
FindBucket(t) ==
  /\ pc[t] = "find_bucket"
  /\ \E i \in BucketIndices(call[t].value) : index' = [index EXCEPT ![t] = i]
  /\ Goto(t, "lock")
  /\ UNCHANGED <<bucket_boundaries_, data, mutex_, call, metric, reply, log>>

\* The length check comes before the mutex, too: the throw holds nothing.
CheckSize(t) ==
  /\ pc[t] = "check_size"
  /\ IF Len(call[t].batch.increments) # Len(bucket_counts_)
     THEN Goto(t, "return") /\ reply' = [reply EXCEPT ![t] = Thrown]
     ELSE Goto(t, "lock") /\ UNCHANGED reply
  /\ UNCHANGED <<bucket_boundaries_, data, mutex_, call, index, metric, log>>

\* sum_.Increment: a gauge takes negative amounts.
AddSum(t) ==
  /\ pc[t] = "add_sum"
  /\ IF call[t].op = "Observe"
     THEN sum_' = Plus(sum_, call[t].value) /\ Goto(t, "count")
     ELSE sum_' = Plus(sum_, call[t].batch.sum) /\ Goto(t, "count_all")
  /\ UNCHANGED <<bucket_boundaries_, bucket_counts_, mutex_, call, index, metric,
                 reply, log>>

\* bucket_counts_[bucket_index].Increment()
Count(t) ==
  /\ pc[t] = "count"
  /\ bucket_counts_' = [bucket_counts_ EXCEPT ![index[t]] = @ + Unit]
  /\ log' = Append(log, call[t])
  /\ Finish(t, Done)
  /\ UNCHANGED <<bucket_boundaries_, sum_, mutex_, call, index, metric>>

\* Not the code: a counter that takes negative amounts.
CountedSigned(amount) == amount

\* CounterDouble::Increment ignores a negative amount.
Counted(amount) == IF amount < 0 THEN 0 ELSE amount

\* One iteration of the loop of ObserveMultiple; the last one completes it.
CountAll(t) ==
  LET i == index[t]
  IN  /\ pc[t] = "count_all"
      /\ bucket_counts_' =
           [bucket_counts_ EXCEPT ![i] = @ + Counted(call[t].batch.increments[i])]
      /\ IF i < Len(bucket_counts_)
         THEN index' = [index EXCEPT ![t] = i + 1] /\ UNCHANGED <<pc, reply, log>>
         ELSE log' = Append(log, call[t]) /\ Finish(t, Done) /\ UNCHANGED index
      /\ UNCHANGED <<bucket_boundaries_, sum_, mutex_, call, metric>>

-----------------------------------------------------------------------------
(* Reset                                                                   *)

ResetCounts(t) ==
  LET i == index[t]
  IN  /\ pc[t] = "reset_counts"
      /\ bucket_counts_' = [bucket_counts_ EXCEPT ![i] = 0]
      /\ IF i < Len(bucket_counts_)
         THEN index' = [index EXCEPT ![t] = i + 1] /\ UNCHANGED pc
         ELSE Goto(t, "reset_sum") /\ UNCHANGED index
      /\ UNCHANGED <<bucket_boundaries_, sum_, mutex_, call, metric, reply, log>>

ResetSum(t) ==
  /\ pc[t] = "reset_sum"
  /\ sum_' = Zero
  /\ log' = << >>
  /\ Finish(t, Done)
  /\ UNCHANGED <<bucket_boundaries_, bucket_counts_, mutex_, call, index, metric>>

-----------------------------------------------------------------------------
(* Collect                                                                 *)

\* unsigned long long += double: the sum, cut off to whole observations.
Whole(n) == n - (n % Unit)

\* One bucket. Its upper bound is fixed by its position.
CollectBucket(t) ==
  LET i     == index[t]
      total == Whole(metric[t].sample_count + bucket_counts_[i])
  IN  /\ pc[t] = "collect"
      /\ metric' = [metric EXCEPT ![t] = [bucket |-> Append(@.bucket, total),
                                          sample_count |-> total,
                                          sample_sum |-> @.sample_sum]]
      /\ IF i < Len(bucket_counts_)
         THEN index' = [index EXCEPT ![t] = i + 1] /\ UNCHANGED pc
         ELSE Goto(t, "collect_sum") /\ UNCHANGED index
      /\ UNCHANGED <<bucket_boundaries_, data, mutex_, call, reply, log>>

CollectSum(t) ==
  LET m == [metric[t] EXCEPT !.sample_sum = sum_]
  IN  /\ pc[t] = "collect_sum"
      /\ metric' = [metric EXCEPT ![t] = m]
      /\ Finish(t, Metric(m))
      /\ UNCHANGED <<bucket_boundaries_, data, mutex_, call, index, log>>

-----------------------------------------------------------------------------
Call(t) ==
  InvokeObserve(t) \/ InvokeObserveMultiple(t) \/ InvokeReset(t) \/ InvokeCollect(t)

Run(t) ==
  \/ FindBucket(t) \/ CheckSize(t) \/ AddSum(t) \/ Count(t) \/ CountAll(t)
  \/ ResetCounts(t) \/ ResetSum(t) \/ CollectBucket(t) \/ CollectSum(t)
  \/ Unlock(t) \/ Return(t)

Next == \E t \in Threads : Call(t) \/ Lock(t) \/ Run(t)

Spec == Init /\ [][Next]_vars

-----------------------------------------------------------------------------
(* Properties                                                              *)

\* No index leaves the buckets, nor the increments of a batch.
TypeOK ==
  /\ bucket_boundaries_ \in BoundaryLists
  /\ bucket_counts_ \in [Buckets -> Nat]
  /\ mutex_ \in Threads \cup {NoOne}
  /\ pc \in [Threads -> Labels]
  /\ call \in [Threads -> Calls]
  /\ index \in [Threads -> Buckets]
  /\ metric = [t \in Threads |-> [bucket |-> metric[t].bucket,
                                 sample_count |-> metric[t].sample_count,
                                 sample_sum |-> metric[t].sample_sum]]
  /\ \A t \in Threads :
       /\ metric[t].bucket \in Seq(Nat)
       /\ metric[t].sample_count \in Nat
       /\ pc[t] = "count_all" => index[t] \in DOMAIN call[t].batch.increments
  /\ DOMAIN reply = Threads
  /\ log \in Seq(Updates)

\* Every series of a histogram is a counter: between two resets neither a
\* bucket nor, as long as no negative value is observed, the sum ever goes
\* down (histogram.h:23-24), an ObserveMultiple with negative increments and
\* any interleaving of the other calls included.
OnlyResetLowers ==
  [][(\A t \in Threads : pc[t] \notin {"reset_counts", "reset_sum"}) =>
       /\ \A i \in Buckets : bucket_counts_[i] <= bucket_counts_'[i]
       /\ Less(sum_', sum_) => \E t \in Threads :
            \/ call[t].op = "Observe" /\ Less(call[t].value, Zero)
            \/ call[t].op = "ObserveMultiple" /\ Less(call[t].batch.sum, Zero)]_vars

-----------------------------------------------------------------------------
(* The inductive invariant: one thread is in the critical section, it runs  *)
(* the call it was asked for, and a batch that got there has one increment  *)
(* per bucket.                                                              *)

Critical == {"add_sum", "count", "count_all", "reset_counts", "reset_sum", "collect",
             "collect_sum", "unlock"}

Exclusive == \A t \in Threads : pc[t] \in Critical <=> mutex_ = t

Fits(t) == Len(call[t].batch.increments) = Len(bucket_counts_)

CallMatches == \A t \in Threads :
  /\ pc[t] = "idle" <=> call[t] = NoCall
  /\ pc[t] \in {"find_bucket", "count"} => call[t].op = "Observe"
  /\ pc[t] \in {"check_size", "count_all"} => call[t].op = "ObserveMultiple"
  /\ pc[t] = "add_sum" => call[t].op \in {"Observe", "ObserveMultiple"}
  /\ pc[t] \in {"lock", "add_sum", "count_all"} /\ call[t].op = "ObserveMultiple" => Fits(t)

IInv == TypeOK /\ Exclusive /\ CallMatches

-----------------------------------------------------------------------------
(* The histogram implements one whose operations are atomic.               *)

Abstract == INSTANCE HistogramSpec
              WITH boundaries <- bucket_boundaries_, observed <- log,
                   request <- call, response <- reply

Linearizable == Abstract!Spec

-----------------------------------------------------------------------------
(* What the refinement rests on: the counters, the sum and a scrape agree   *)
(* with the log, but for the part of its call that the holder of the mutex  *)
(* has done.                                                                *)

\* What the log says bucket i holds.
Stored(i) == Abstract!Exact(i) - (IF i = 1 THEN 0 ELSE Abstract!Exact(i - 1))

Amount(c) == IF c.op = "Observe" THEN c.value ELSE c.batch.sum

Sorted == \A i, j \in DOMAIN bucket_boundaries_ :
            i < j => Less(bucket_boundaries_[i], bucket_boundaries_[j])

LogFits == \A n \in DOMAIN log :
             log[n].op = "ObserveMultiple" =>
               Len(log[n].batch.increments) = Len(bucket_counts_)

\* A call is half done.
Halfway(t) == pc[t] \in {"count", "count_all", "reset_counts", "reset_sum"}

Agrees ==
  \/ \E t \in Threads : Halfway(t)
  \/ sum_ = Abstract!Sum /\ \A i \in Buckets : bucket_counts_[i] = Stored(i)

\* What a half done call has done.
Half(t) ==
  /\ pc[t] \in {"count", "count_all"} => sum_ = Plus(Abstract!Sum, Amount(call[t]))
  /\ pc[t] = "count" => \A i \in Buckets : bucket_counts_[i] = Stored(i)
  /\ pc[t] = "count_all" => \A i \in Buckets :
       bucket_counts_[i] = Stored(i) + (IF i < index[t]
                                        THEN Counted(call[t].batch.increments[i]) ELSE 0)
  /\ pc[t] = "reset_counts" => \A i \in Buckets : i < index[t] => bucket_counts_[i] = 0
  /\ pc[t] = "reset_sum" => \A i \in Buckets : bucket_counts_[i] = 0

\* A loop starts at the first bucket, an observation knows its bucket, and only
\* a finished call has an answer.
Placed(t) ==
  /\ pc[t] \in {"unlock", "return"} <=> reply[t] # NoReply
  /\ pc[t] \in {"idle", "find_bucket", "check_size"} => index[t] = 1
  /\ pc[t] \in {"lock", "add_sum"} /\ call[t].op # "Observe" => index[t] = 1
  /\ pc[t] \in {"lock", "add_sum", "count"} /\ call[t].op = "Observe" =>
       index[t] \in BucketIndices(call[t].value)
  /\ pc[t] \in {"idle", "find_bucket", "check_size", "lock"} => metric[t] = NoMetric
  /\ pc[t] \in {"reset_counts", "reset_sum"} => call[t].op = "Reset"
  /\ pc[t] \in {"collect", "collect_sum"} => call[t].op = "Collect"

\* The buckets a scrape has: whole, nondecreasing, and less than one
\* observation per bucket short of the exact count.
Collected(t) ==
  pc[t] \in {"collect", "collect_sum"} =>
    LET c == metric[t].bucket
        n == metric[t].sample_count
    IN  /\ Len(c) = IF pc[t] = "collect" THEN index[t] - 1 ELSE Len(bucket_counts_)
        /\ n = IF Len(c) = 0 THEN 0 ELSE c[Len(c)]
        /\ \A i \in 1..Len(c) :
             /\ \E k \in 0..c[i] : c[i] = Unit * k
             /\ c[i] <= Abstract!Exact(i) /\ Abstract!Exact(i) < c[i] + i * Unit
             /\ i > 1 => c[i - 1] <= c[i]
             /\ c[i] <= n
             /\ (\A j \in 1..i : Abstract!Exact(j) % Unit = 0) => c[i] = Abstract!Exact(i)

HInv ==
  /\ IInv /\ Sorted /\ LogFits /\ Agrees
  /\ \A t \in Threads : Half(t) /\ Placed(t) /\ Collected(t)
=============================================================================

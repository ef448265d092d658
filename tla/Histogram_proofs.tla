--------------------------- MODULE Histogram_proofs ---------------------------
(* Proofs about module Histogram, for any threads, boundaries and batches:   *)
(* its indices stay in bounds, its series are counters, and it implements    *)
(* a histogram whose operations are atomic.                                  *)
EXTENDS Histogram, WellFoundedInduction, TLAPS

-----------------------------------------------------------------------------
(* The inductive invariant                                                  *)

LEMMA Appends ==
  ASSUME NEW S, NEW s \in Seq(S), NEW e \in S
  PROVE  Append(s, e) \in Seq(S)
OBVIOUS

\* The counts are a list with one entry per bucket.
LEMMA Counts ==
  ASSUME TypeOK
  PROVE  /\ Len(bucket_boundaries_) \in Nat
         /\ Len(bucket_counts_) = Len(bucket_boundaries_) + 1
         /\ DOMAIN bucket_counts_ = Buckets /\ Buckets = 1..Len(bucket_counts_)
         /\ 1 \in Buckets
         /\ \A i \in Buckets : i < Len(bucket_counts_) => i + 1 \in Buckets
<1>1. Len(bucket_boundaries_) \in Nat /\ DOMAIN bucket_counts_ = Buckets
  BY ArgumentsAssumption DEF TypeOK
<1>2. Len(bucket_counts_) = Len(bucket_boundaries_) + 1
  BY <1>1 DEF Buckets
<1> QED BY <1>1, <1>2 DEF Buckets

\* What the calls look like.
LEMMA Shapes ==
  ASSUME NEW c \in Calls
  PROVE  /\ c.op \in {"none", "Observe", "ObserveMultiple", "Reset", "Collect"}
         /\ c = NoCall <=> c.op = "none"
         /\ c.op = "ObserveMultiple" => c \in Updates /\ c.batch.increments \in Seq(Int)
         /\ c.op = "Observe" => c \in Updates
BY ArgumentsAssumption DEF Calls, Updates, NoCall, Clear, Gather

LEMMA Initial == Init => IInv
<1> SUFFICES ASSUME Init PROVE IInv
  OBVIOUS
<1> USE DEF Init
<1>1. Len(bucket_boundaries_) \in Nat
  BY ArgumentsAssumption
<1>2. TypeOK
  <2>1. bucket_counts_ \in [Buckets -> Nat] /\ index \in [Threads -> Buckets]
    BY <1>1 DEF Buckets
  <2>2. \A t \in Threads : /\ metric[t].bucket \in Seq(Nat) /\ metric[t].sample_count \in Nat
                           /\ metric[t] = [bucket |-> metric[t].bucket,
                                            sample_count |-> metric[t].sample_count,
                                            sample_sum |-> metric[t].sample_sum]
    <3>1. << >> \in Seq(Nat)
      OBVIOUS
    <3> QED BY <3>1 DEF NoMetric
  <2>3. metric = [t \in Threads |-> [bucket |-> metric[t].bucket,
                                     sample_count |-> metric[t].sample_count,
                                     sample_sum |-> metric[t].sample_sum]]
    BY <2>2
  <2> QED BY <2>1, <2>2, <2>3 DEF TypeOK, Labels, Calls
<1>3. Exclusive
  BY NoOneAssumption DEF Exclusive, Critical
<1>4. CallMatches
  BY DEF CallMatches, NoCall
<1> QED BY <1>2, <1>3, <1>4 DEF IInv

MetricOK ==
  /\ metric = [t \in Threads |-> [bucket |-> metric[t].bucket,
                                 sample_count |-> metric[t].sample_count,
                                 sample_sum |-> metric[t].sample_sum]]
  /\ \A t \in Threads : metric[t].bucket \in Seq(Nat) /\ metric[t].sample_count \in Nat

\* What a thread does to the data in the middle of its call.
DataOK ==
  /\ bucket_counts_ \in [Buckets -> Nat]
  /\ index \in [Threads -> Buckets]
  /\ MetricOK
  /\ DOMAIN reply = Threads
  /\ log \in Seq(Updates)

LEMMA DataHolds == ASSUME IInv PROVE DataOK
BY DEF IInv, TypeOK, DataOK, MetricOK

\* A step that moves one thread on, within its call.
LEMMA MoveStep ==
  ASSUME IInv, NEW t \in Threads, NEW l \in Labels \ {"idle", "find_bucket", "check_size"},
         pc[t] # "idle", pc' = [pc EXCEPT ![t] = l],
         UNCHANGED <<bucket_boundaries_, call>>, DataOK',
         \A u \in Threads \ {t} : index'[u] = index[u],
         \/ (pc[t] \in Critical <=> l \in Critical) /\ mutex_' = mutex_
         \/ pc[t] \notin Critical /\ mutex_ = NoOne /\ l \in Critical /\ mutex_' = t
         \/ pc[t] \in Critical /\ l \notin Critical /\ mutex_' = NoOne,
         l = "count" => call[t].op = "Observe",
         l = "count_all" => call[t].op = "ObserveMultiple",
         l = "add_sum" => call[t].op \in {"Observe", "ObserveMultiple"},
         l \in {"lock", "add_sum", "count_all"} /\ call[t].op = "ObserveMultiple" => Fits(t)
  PROVE  IInv'
<1>1. pc'[t] = l /\ \A u \in Threads \ {t} : pc'[u] = pc[u]
  BY DEF IInv, TypeOK
<1>2. Buckets' = Buckets /\ Len(bucket_counts_') = Len(bucket_counts_)
  <2>1. Buckets' = Buckets /\ Len(bucket_boundaries_) \in Nat
    BY Counts DEF Buckets, IInv
  <2>2. Len(bucket_counts_') = Len(bucket_boundaries_) + 1
    BY <2>1 DEF Buckets, DataOK
  <2> QED BY <2>1, <2>2, Counts DEF IInv
<1>3. CallMatches'
  BY <1>1, <1>2 DEF IInv, CallMatches, Fits
<1>4. Exclusive'
  BY <1>1, NoOneAssumption DEF IInv, TypeOK, Exclusive, Critical
<1>5. TypeOK'
  <2>1. l = "count_all" => index'[t] \in DOMAIN call[t].batch.increments
    <3>1. ASSUME l = "count_all"
          PROVE  call[t].batch.increments \in Seq(Int)
                 /\ Len(call[t].batch.increments) = Len(bucket_counts_)
      BY <3>1, Shapes DEF IInv, TypeOK, Fits
    <3> QED BY <1>2, <3>1, Counts DEF IInv, DataOK
  <2>2. \A u \in Threads : pc'[u] = "count_all" => index'[u] \in DOMAIN call'[u].batch.increments
    BY <1>1, <2>1 DEF IInv, TypeOK
  <2>3. mutex_' \in Threads \cup {NoOne} /\ pc' \in [Threads -> Labels]
    BY DEF IInv, TypeOK
  <2> QED BY <1>2, <2>2, <2>3 DEF IInv, TypeOK, DataOK, MetricOK
<1> QED BY <1>3, <1>4, <1>5 DEF IInv

LEMMA InvokeStep ==
  ASSUME IInv, NEW t \in Threads, Call(t)
  PROVE  IInv'
<1>1. PICK c \in Calls, entry \in {"find_bucket", "check_size", "lock"} :
        /\ Invoke(t, c, entry) /\ c # NoCall
        /\ entry = "find_bucket" => c.op = "Observe"
        /\ entry = "check_size" => c.op = "ObserveMultiple"
        /\ entry = "lock" => c.op # "ObserveMultiple"
  <2>1. CASE InvokeObserve(t)
    <3>1. PICK v \in Values : Invoke(t, [op |-> "Observe", value |-> v], "find_bucket")
      BY <2>1 DEF InvokeObserve
    <3>2. [op |-> "Observe", value |-> v] \in Calls \ {NoCall}
      BY DEF Calls, Updates, NoCall
    <3> QED BY <3>1, <3>2
  <2>2. CASE InvokeObserveMultiple(t)
    <3>1. PICK b \in Batches : Invoke(t, [op |-> "ObserveMultiple", batch |-> b], "check_size")
      BY <2>2 DEF InvokeObserveMultiple
    <3>2. [op |-> "ObserveMultiple", batch |-> b] \in Calls \ {NoCall}
      BY DEF Calls, Updates, NoCall
    <3> QED BY <3>1, <3>2
  <2>3. CASE InvokeReset(t) \/ InvokeCollect(t)
    <3>1. /\ Clear \in Calls \ {NoCall} /\ Clear.op # "ObserveMultiple"
          /\ Gather \in Calls \ {NoCall} /\ Gather.op # "ObserveMultiple"
      BY DEF Calls, NoCall, Clear, Gather
    <3> QED BY <2>3, <3>1 DEF InvokeReset, InvokeCollect
  <2> QED BY <2>1, <2>2, <2>3 DEF Call
<1>2. /\ pc[t] = "idle" /\ pc' = [pc EXCEPT ![t] = entry] /\ call' = [call EXCEPT ![t] = c]
      /\ UNCHANGED <<bucket_boundaries_, bucket_counts_, mutex_, index, metric, reply, log>>
  BY <1>1 DEF Invoke, Goto, data
<1>3. Buckets' = Buckets
  BY <1>2 DEF Buckets
<1>4. TypeOK'
  <2>1. \A u \in Threads : pc'[u] = "count_all" => pc[u] = "count_all" /\ call'[u] = call[u]
    BY <1>1, <1>2 DEF IInv, TypeOK
  <2>2. pc' \in [Threads -> Labels] /\ call' \in [Threads -> Calls]
    BY <1>1, <1>2 DEF IInv, TypeOK, Labels
  <2> QED BY <1>2, <1>3, <2>1, <2>2 DEF IInv, TypeOK
<1>5. Exclusive'
  BY <1>2 DEF IInv, TypeOK, Exclusive, Critical
<1>6. CallMatches'
  BY <1>1, <1>2 DEF IInv, TypeOK, CallMatches, Fits
<1> QED BY <1>4, <1>5, <1>6 DEF IInv

LEMMA LockStep == ASSUME IInv, NEW t \in Threads, Lock(t) PROVE IInv'
<1> DEFINE l == Entry(call[t].op)
<1>1. /\ pc[t] = "lock" /\ mutex_ = NoOne /\ mutex_' = t /\ pc' = [pc EXCEPT ![t] = l]
      /\ UNCHANGED <<bucket_boundaries_, bucket_counts_, sum_, call, index, metric, reply, log>>
  BY DEF Lock, Goto, data
<1>2. call[t].op \in {"Observe", "ObserveMultiple", "Reset", "Collect"}
  <2>1. call[t] \in Calls /\ call[t] # NoCall
    BY <1>1 DEF IInv, TypeOK, CallMatches
  <2> QED BY <2>1, Shapes
<1>3. /\ l \in {"add_sum", "reset_counts", "collect"}
      /\ l = "add_sum" <=> call[t].op \in {"Observe", "ObserveMultiple"}
      /\ call[t].op = "ObserveMultiple" => Fits(t)
  BY <1>1, <1>2 DEF Entry, IInv, CallMatches
<1>4. DataOK'
  BY <1>1, DataHolds DEF DataOK, MetricOK, Buckets
<1> HIDE DEF l
<1> QED BY <1>1, <1>3, <1>4, MoveStep DEF Labels, Critical

LEMMA UnlockStep == ASSUME IInv, NEW t \in Threads, Unlock(t) PROVE IInv'
<1>1. /\ pc[t] = "unlock" /\ mutex_' = NoOne /\ pc' = [pc EXCEPT ![t] = "return"]
      /\ UNCHANGED <<bucket_boundaries_, bucket_counts_, sum_, call, index, metric, reply, log>>
  BY DEF Unlock, Goto, data
<1>2. DataOK'
  BY <1>1, DataHolds DEF DataOK, MetricOK, Buckets
<1> QED BY <1>1, <1>2, MoveStep DEF Labels, Critical

LEMMA FindBucketStep == ASSUME IInv, NEW t \in Threads, FindBucket(t) PROVE IInv'
<1>1. PICK i \in BucketIndices(call[t].value) : index' = [index EXCEPT ![t] = i]
  BY DEF FindBucket
<1>2. /\ pc[t] = "find_bucket" /\ pc' = [pc EXCEPT ![t] = "lock"] /\ i \in Buckets
      /\ UNCHANGED <<bucket_boundaries_, bucket_counts_, sum_, mutex_, call, metric, reply, log>>
      /\ call[t].op = "Observe"
  BY <1>1 DEF FindBucket, Goto, data, BucketIndices, IInv, CallMatches
<1>3. DataOK' /\ \A u \in Threads \ {t} : index'[u] = index[u]
  BY <1>1, <1>2, DataHolds DEF DataOK, MetricOK, Buckets
<1> QED BY <1>2, <1>3, MoveStep DEF Labels, Critical

LEMMA CheckSizeStep == ASSUME IInv, NEW t \in Threads, CheckSize(t) PROVE IInv'
<1> DEFINE l == IF Len(call[t].batch.increments) # Len(bucket_counts_) THEN "return" ELSE "lock"
<1>1. /\ pc[t] = "check_size" /\ pc' = [pc EXCEPT ![t] = l]
      /\ reply' = [reply EXCEPT ![t] = Thrown] \/ reply' = reply
      /\ UNCHANGED <<bucket_boundaries_, bucket_counts_, sum_, mutex_, call, index, metric, log>>
  BY DEF CheckSize, Goto, data
<1>2. DataOK'
  BY <1>1, DataHolds DEF DataOK, MetricOK, Buckets
<1>3. l \in {"lock", "return"} /\ (l = "lock" => Fits(t))
  BY DEF Fits
<1> HIDE DEF l
<1> QED BY <1>1, <1>2, <1>3, MoveStep DEF Labels, Critical

LEMMA AddSumStep == ASSUME IInv, NEW t \in Threads, AddSum(t) PROVE IInv'
<1> DEFINE l == IF call[t].op = "Observe" THEN "count" ELSE "count_all"
<1>1. /\ pc[t] = "add_sum" /\ pc' = [pc EXCEPT ![t] = l]
      /\ UNCHANGED <<bucket_boundaries_, bucket_counts_, mutex_, call, index, metric, reply, log>>
  BY DEF AddSum, Goto
<1>2. DataOK'
  BY <1>1, DataHolds DEF DataOK, MetricOK, Buckets
<1>3. /\ l \in {"count", "count_all"}
      /\ l = "count" => call[t].op = "Observe"
      /\ l = "count_all" => call[t].op = "ObserveMultiple"
      /\ call[t].op = "ObserveMultiple" => Fits(t)
  BY <1>1 DEF IInv, CallMatches
<1> HIDE DEF l
<1> QED BY <1>1, <1>2, <1>3, MoveStep DEF Labels, Critical

\* An update that took part in the log is one of those that can be made.
LEMMA Logged ==
  ASSUME IInv, NEW t \in Threads, pc[t] \in {"count", "count_all"}
  PROVE  call[t] \in Updates /\ Append(log, call[t]) \in Seq(Updates)
<1>1. call[t] \in Updates
  BY Shapes DEF IInv, TypeOK, CallMatches
<1> QED BY <1>1, Appends DEF IInv, TypeOK

\* Counts and indices after a step at one bucket.
LEMMA OneBucket ==
  ASSUME IInv, NEW t \in Threads, NEW n \in Nat, UNCHANGED bucket_boundaries_,
         bucket_counts_' = [bucket_counts_ EXCEPT ![index[t]] = n]
  PROVE  bucket_counts_' \in [Buckets -> Nat] /\ Buckets' = Buckets
BY DEF IInv, TypeOK, Buckets

LEMMA NextIndex ==
  ASSUME IInv, NEW t \in Threads,
         \/ index' = index
         \/ index[t] < Len(bucket_counts_) /\ index' = [index EXCEPT ![t] = index[t] + 1]
  PROVE  index' \in [Threads -> Buckets] /\ \A u \in Threads \ {t} : index'[u] = index[u]
BY Counts DEF IInv, TypeOK

LEMMA CountStep == ASSUME IInv, NEW t \in Threads, Count(t) PROVE IInv'
<1>1. /\ pc[t] = "count" /\ pc' = [pc EXCEPT ![t] = "unlock"]
      /\ bucket_counts_' = [bucket_counts_ EXCEPT ![index[t]] = @ + Unit]
      /\ log' = Append(log, call[t]) /\ reply' = [reply EXCEPT ![t] = Done]
      /\ UNCHANGED <<bucket_boundaries_, mutex_, call, index, metric>>
  BY DEF Count, Finish, Goto
<1>2. bucket_counts_[index[t]] + Unit \in Nat
  BY UnitAssumption DEF IInv, TypeOK
<1>3. /\ bucket_counts_' = [bucket_counts_ EXCEPT ![index[t]] = bucket_counts_[index[t]] + Unit]
      /\ bucket_counts_' \in [Buckets -> Nat] /\ Buckets' = Buckets
  BY <1>1, <1>2, OneBucket
<1>4. DataOK'
  BY <1>1, <1>3, Logged, DataHolds DEF DataOK, MetricOK
<1> QED BY <1>1, <1>4, MoveStep DEF Labels, Critical

LEMMA CountAllStep == ASSUME IInv, NEW t \in Threads, CountAll(t) PROVE IInv'
<1> DEFINE n == bucket_counts_[index[t]] + Counted(call[t].batch.increments[index[t]])
           l == IF index[t] < Len(bucket_counts_) THEN "count_all" ELSE "unlock"
<1>1. /\ pc[t] = "count_all" /\ pc' = [pc EXCEPT ![t] = l]
      /\ bucket_counts_' = [bucket_counts_ EXCEPT ![index[t]] = n]
      /\ \/ index[t] < Len(bucket_counts_) /\ index' = [index EXCEPT ![t] = index[t] + 1]
         \/ index' = index
      /\ log' \in {log, Append(log, call[t])}
      /\ reply' = reply \/ reply' = [reply EXCEPT ![t] = Done]
      /\ UNCHANGED <<bucket_boundaries_, mutex_, call, metric>>
  BY DEF CountAll, Finish, Goto, IInv, TypeOK
<1>2. n \in Nat
  <2>1. index[t] \in Buckets /\ index[t] \in DOMAIN call[t].batch.increments
    BY <1>1 DEF IInv, TypeOK
  <2>2. call[t].batch.increments \in Seq(Int)
    BY <1>1, Shapes DEF IInv, TypeOK, CallMatches
  <2>3. call[t].batch.increments[index[t]] \in Int
    BY <2>1, <2>2
  <2>4. Counted(call[t].batch.increments[index[t]]) \in Nat
    BY <2>3 DEF Counted
  <2> QED BY <2>1, <2>4 DEF IInv, TypeOK
<1> HIDE DEF n
<1>3. bucket_counts_' \in [Buckets -> Nat] /\ Buckets' = Buckets
  BY <1>1, <1>2, OneBucket
<1>4. index' \in [Threads -> Buckets] /\ \A u \in Threads \ {t} : index'[u] = index[u]
  BY <1>1, NextIndex
<1>5. log' \in Seq(Updates)
  BY <1>1, Logged DEF IInv, TypeOK
<1>6. DataOK'
  BY <1>1, <1>3, <1>4, <1>5, DataHolds DEF DataOK, MetricOK
<1>7. l \in {"count_all", "unlock"} /\ call[t].op = "ObserveMultiple" /\ Fits(t)
  BY <1>1 DEF IInv, CallMatches
<1> HIDE DEF l
<1> QED BY <1>1, <1>4, <1>6, <1>7, MoveStep DEF Labels, Critical

LEMMA ResetCountsStep == ASSUME IInv, NEW t \in Threads, ResetCounts(t) PROVE IInv'
<1> DEFINE l == IF index[t] < Len(bucket_counts_) THEN "reset_counts" ELSE "reset_sum"
<1>1. /\ pc[t] = "reset_counts" /\ pc' = [pc EXCEPT ![t] = l]
      /\ bucket_counts_' = [bucket_counts_ EXCEPT ![index[t]] = 0]
      /\ \/ index[t] < Len(bucket_counts_) /\ index' = [index EXCEPT ![t] = index[t] + 1]
         \/ index' = index
      /\ UNCHANGED <<bucket_boundaries_, mutex_, call, metric, reply, log>>
  BY DEF ResetCounts, Goto, IInv, TypeOK
<1>2. bucket_counts_' \in [Buckets -> Nat] /\ Buckets' = Buckets
  BY <1>1, OneBucket
<1>3. index' \in [Threads -> Buckets] /\ \A u \in Threads \ {t} : index'[u] = index[u]
  BY <1>1, NextIndex
<1>4. DataOK'
  BY <1>1, <1>2, <1>3, DataHolds DEF DataOK, MetricOK
<1>5. l \in {"reset_counts", "reset_sum"}
  OBVIOUS
<1> HIDE DEF l
<1> QED BY <1>1, <1>3, <1>4, <1>5, MoveStep DEF Labels, Critical

LEMMA ResetSumStep == ASSUME IInv, NEW t \in Threads, ResetSum(t) PROVE IInv'
<1>1. /\ pc[t] = "reset_sum" /\ pc' = [pc EXCEPT ![t] = "unlock"]
      /\ log' = << >> /\ reply' = [reply EXCEPT ![t] = Done]
      /\ UNCHANGED <<bucket_boundaries_, bucket_counts_, mutex_, call, index, metric>>
  BY DEF ResetSum, Finish, Goto
<1>2. DataOK'
  BY <1>1, DataHolds DEF DataOK, MetricOK, Buckets
<1> QED BY <1>1, <1>2, MoveStep DEF Labels, Critical

\* A scrape changes the metric of its thread only.
LEMMA MetricStays ==
  ASSUME IInv, NEW t \in Threads, NEW b \in Seq(Nat), NEW n \in Nat, NEW s,
         metric' = [metric EXCEPT ![t] = [bucket |-> b, sample_count |-> n, sample_sum |-> s]]
  PROVE  MetricOK'
<1>1. /\ DOMAIN metric' = Threads
      /\ metric'[t] = [bucket |-> b, sample_count |-> n, sample_sum |-> s]
      /\ \A u \in Threads \ {t} : metric'[u] = metric[u]
  BY DEF IInv, TypeOK
<1>2. \A u \in Threads : /\ metric'[u].bucket \in Seq(Nat) /\ metric'[u].sample_count \in Nat
                         /\ metric'[u] = [bucket |-> metric'[u].bucket,
                                           sample_count |-> metric'[u].sample_count,
                                           sample_sum |-> metric'[u].sample_sum]
  BY <1>1 DEF IInv, TypeOK
<1>3. metric' = [u \in Threads |-> metric'[u]]
  BY <1>1 DEF IInv, TypeOK
<1> QED BY <1>2, <1>3 DEF MetricOK

\* Cutting off a fraction leaves a count.
LEMMA WholeCounts == ASSUME NEW n \in Nat PROVE Whole(n) \in Nat /\ Whole(n) <= n
<1>1. n % Unit \in 0..n
  BY UnitAssumption
<1> QED BY <1>1 DEF Whole

LEMMA CollectBucketStep == ASSUME IInv, NEW t \in Threads, CollectBucket(t) PROVE IInv'
<1> DEFINE total == Whole(metric[t].sample_count + bucket_counts_[index[t]])
           b == Append(metric[t].bucket, total)
           l == IF index[t] < Len(bucket_counts_) THEN "collect" ELSE "collect_sum"
<1>1. /\ pc[t] = "collect" /\ pc' = [pc EXCEPT ![t] = l]
      /\ metric' = [metric EXCEPT ![t] = [bucket |-> b, sample_count |-> total,
                                         sample_sum |-> metric[t].sample_sum]]
      /\ \/ index[t] < Len(bucket_counts_) /\ index' = [index EXCEPT ![t] = index[t] + 1]
         \/ index' = index
      /\ UNCHANGED <<bucket_boundaries_, bucket_counts_, mutex_, call, reply, log>>
  BY DEF CollectBucket, Goto, data, IInv, TypeOK
<1>2. total \in Nat /\ b \in Seq(Nat)
  <2>1. metric[t].sample_count \in Nat /\ bucket_counts_[index[t]] \in Nat
        /\ metric[t].bucket \in Seq(Nat)
    BY DEF IInv, TypeOK
  <2>2. total \in Nat
    <3>1. metric[t].sample_count + bucket_counts_[index[t]] \in Nat
      BY <2>1
    <3> QED BY <3>1, WholeCounts
  <2> HIDE DEF total
  <2> QED BY <2>1, <2>2, Appends
<1>3. MetricOK'
  <2> HIDE DEF total, b
  <2> QED BY <1>1, <1>2, MetricStays
<1>4. index' \in [Threads -> Buckets] /\ \A u \in Threads \ {t} : index'[u] = index[u]
  BY <1>1, NextIndex
<1>5. DataOK'
  BY <1>1, <1>3, <1>4, DataHolds DEF DataOK, Buckets
<1>6. l \in {"collect", "collect_sum"}
  OBVIOUS
<1> HIDE DEF l, total, b
<1> QED BY <1>1, <1>4, <1>5, <1>6, MoveStep DEF Labels, Critical

LEMMA CollectSumStep == ASSUME IInv, NEW t \in Threads, CollectSum(t) PROVE IInv'
<1>1. /\ pc[t] = "collect_sum" /\ pc' = [pc EXCEPT ![t] = "unlock"]
      /\ metric' = [metric EXCEPT ![t] = [metric[t] EXCEPT !.sample_sum = sum_]]
      /\ DOMAIN reply' = Threads
      /\ UNCHANGED <<bucket_boundaries_, bucket_counts_, mutex_, call, index, log>>
  BY DEF CollectSum, Finish, Goto, data, IInv, TypeOK
<1>2. /\ metric[t].bucket \in Seq(Nat) /\ metric[t].sample_count \in Nat
      /\ metric[t] = [bucket |-> metric[t].bucket, sample_count |-> metric[t].sample_count,
                     sample_sum |-> metric[t].sample_sum]
  BY DEF IInv, TypeOK
<1>3. [metric[t] EXCEPT !.sample_sum = sum_] =
        [bucket |-> metric[t].bucket, sample_count |-> metric[t].sample_count, sample_sum |-> sum_]
  BY <1>2
<1>4. MetricOK'
  <2>1. metric' = [metric EXCEPT ![t] = [bucket |-> metric[t].bucket,
                                         sample_count |-> metric[t].sample_count,
                                         sample_sum |-> sum_]]
    BY <1>1, <1>3
  <2> QED BY <1>2, <2>1, MetricStays
<1>5. DataOK'
  BY <1>1, <1>4, DataHolds DEF DataOK, Buckets
<1> QED BY <1>1, <1>5, MoveStep DEF Labels, Critical

LEMMA ReturnStep == ASSUME IInv, NEW t \in Threads, Return(t) PROVE IInv'
<1>1. /\ pc[t] = "return" /\ pc' = [pc EXCEPT ![t] = "idle"]
      /\ call' = [call EXCEPT ![t] = NoCall] /\ index' = [index EXCEPT ![t] = 1]
      /\ metric' = [metric EXCEPT ![t] = NoMetric] /\ reply' = [reply EXCEPT ![t] = NoReply]
      /\ UNCHANGED <<bucket_boundaries_, bucket_counts_, mutex_, log>>
  BY DEF Return, Goto, data
<1>2. MetricOK'
  <2>1. << >> \in Seq(Nat)
    OBVIOUS
  <2> QED BY <1>1, <2>1, MetricStays DEF NoMetric
<1>3. Buckets' = Buckets /\ index' \in [Threads -> Buckets]
  BY <1>1, Counts DEF IInv, TypeOK, Buckets
<1>4. /\ pc' \in [Threads -> Labels] /\ call' \in [Threads -> Calls]
      /\ \A u \in Threads \ {t} : pc'[u] = pc[u] /\ index'[u] = index[u] /\ call'[u] = call[u]
      /\ pc'[t] = "idle" /\ call'[t] = NoCall
  BY <1>1 DEF IInv, TypeOK, Labels, Calls
<1>5. TypeOK'
  <2>1. \A u \in Threads : pc'[u] = "count_all" => index'[u] \in DOMAIN call'[u].batch.increments
    BY <1>4 DEF IInv, TypeOK
  <2>2. DOMAIN reply' = Threads
    BY <1>1 DEF IInv, TypeOK
  <2> QED BY <1>1, <1>2, <1>3, <1>4, <2>1, <2>2 DEF IInv, TypeOK, MetricOK
<1>6. Exclusive'
  BY <1>1, <1>4 DEF IInv, Exclusive, Critical
<1>7. CallMatches'
  BY <1>1, <1>4 DEF IInv, CallMatches, Fits, NoCall
<1> QED BY <1>5, <1>6, <1>7 DEF IInv

LEMMA Inductive == IInv /\ [Next]_vars => IInv'
<1> SUFFICES ASSUME IInv, [Next]_vars PROVE IInv'
  OBVIOUS
<1>1. CASE UNCHANGED vars
  BY <1>1 DEF vars, IInv, TypeOK, Buckets, Exclusive, CallMatches, Fits
<1>2. ASSUME NEW t \in Threads, Run(t) PROVE IInv'
  BY <1>2, FindBucketStep, CheckSizeStep, AddSumStep, CountStep, CountAllStep, ResetCountsStep,
     ResetSumStep, CollectBucketStep, CollectSumStep, UnlockStep, ReturnStep DEF Run
<1> QED BY <1>1, <1>2, InvokeStep, LockStep DEF Next

\* The invariant of the histogram, for any threads, boundaries and batches.
THEOREM Invariance == Spec => []IInv
BY Initial, Inductive, PTL DEF Spec

\* No index ever leaves the buckets or the increments of a batch
\* (histogram.cc:43-67).
THEOREM TypeCorrect == Spec => []TypeOK
<1>1. IInv => TypeOK
  BY DEF IInv
<1> QED BY <1>1, Invariance, PTL

-----------------------------------------------------------------------------
(* Every series is a counter                                                *)

\* Numbers that addition does not leave, and that adding what is not negative
\* does not lower: doubles do, and so does a NaN, which is neither.
Summable(Numbers) ==
  /\ Zero \in Numbers /\ Values \subseteq Numbers
  /\ \A b \in Batches : b.sum \in Numbers
  /\ \A x, v \in Numbers :
       /\ Plus(x, v) \in Numbers /\ ~Less(x, x)
       /\ ~Less(v, Zero) => ~Less(Plus(x, v), x)

\* The next value of the sum.
LEMMA NextSum ==
  ASSUME NEW Numbers, Summable(Numbers), IInv, sum_ \in Numbers, [Next]_vars
  PROVE  \/ sum_' = sum_
         \/ sum_' = Zero /\ \E t \in Threads : pc[t] = "reset_sum"
         \/ \E t \in Threads, v \in Numbers :
              /\ sum_' = Plus(sum_, v)
              /\ \/ call[t].op = "Observe" /\ v = call[t].value
                 \/ call[t].op = "ObserveMultiple" /\ v = call[t].batch.sum
<1>1. CASE UNCHANGED sum_
  BY <1>1
<1>2. ASSUME NEW t \in Threads, ResetSum(t)
      PROVE  sum_' = Zero /\ pc[t] = "reset_sum"
  BY <1>2 DEF ResetSum
<1>3. ASSUME NEW t \in Threads, AddSum(t)
      PROVE  \E v \in Numbers :
              /\ sum_' = Plus(sum_, v)
              /\ \/ call[t].op = "Observe" /\ v = call[t].value
                 \/ call[t].op = "ObserveMultiple" /\ v = call[t].batch.sum
  <2>1. call[t] \in Updates /\ call[t].op \in {"Observe", "ObserveMultiple"}
    BY <1>3, Shapes DEF AddSum, IInv, TypeOK, CallMatches
  <2>2. CASE call[t].op = "Observe"
    <3>1. sum_' = Plus(sum_, call[t].value) /\ call[t].value \in Values
      BY <1>3, <2>1, <2>2 DEF AddSum, Updates
    <3> QED BY <2>2, <3>1 DEF Summable
  <2>3. CASE call[t].op = "ObserveMultiple"
    <3>1. sum_' = Plus(sum_, call[t].batch.sum) /\ call[t].batch \in Batches
      BY <1>3, <2>1, <2>3 DEF AddSum, Updates
    <3> QED BY <2>3, <3>1 DEF Summable
  <2> QED BY <2>1, <2>2, <2>3
<1>4. \A t \in Threads : Call(t) \/ Lock(t) \/ Run(t) =>
        ResetSum(t) \/ AddSum(t) \/ UNCHANGED sum_
  BY DEF Call, InvokeObserve, InvokeObserveMultiple, InvokeReset, InvokeCollect, Invoke, Lock, Run,
         FindBucket, CheckSize, Count, CountAll, ResetCounts, CollectBucket, CollectSum, Unlock,
         Return, data
<1>5. CASE UNCHANGED vars
  BY <1>5 DEF vars
<1>6. CASE Next
  <2>1. PICK t \in Threads : Call(t) \/ Lock(t) \/ Run(t)
    BY <1>6 DEF Next
  <2> QED BY <1>1, <1>2, <1>3, <1>4, <2>1
<1> QED BY <1>5, <1>6

\* While nobody resets, no bucket counts down.
LEMMA CountsGrow ==
  ASSUME IInv, [Next]_vars, \A t \in Threads : pc[t] # "reset_counts"
  PROVE  \A i \in Buckets : bucket_counts_[i] <= bucket_counts_'[i]
<1>0. bucket_counts_ \in [Buckets -> Nat]
  BY DEF IInv, TypeOK
<1>1. CASE UNCHANGED bucket_counts_
  BY <1>0, <1>1
<1>2. ASSUME NEW t \in Threads, Count(t)
      PROVE  \A i \in Buckets : bucket_counts_[i] <= bucket_counts_'[i]
  <2>1. bucket_counts_' = [bucket_counts_ EXCEPT ![index[t]] = bucket_counts_[index[t]] + Unit]
    BY <1>2 DEF Count
  <2> QED BY <1>0, <2>1, UnitAssumption
<1>3. ASSUME NEW t \in Threads, CountAll(t)
      PROVE  \A i \in Buckets : bucket_counts_[i] <= bucket_counts_'[i]
  <2> DEFINE n == Counted(call[t].batch.increments[index[t]])
  <2>1. bucket_counts_' = [bucket_counts_ EXCEPT ![index[t]] = bucket_counts_[index[t]] + n]
    BY <1>3 DEF CountAll
  <2>2. n \in Nat
    <3>1. call[t].batch.increments \in Seq(Int) /\ index[t] \in DOMAIN call[t].batch.increments
      BY <1>3, Shapes DEF CountAll, IInv, TypeOK, CallMatches
    <3>2. call[t].batch.increments[index[t]] \in Int
      BY <3>1
    <3> QED BY <3>2 DEF Counted
  <2> HIDE DEF n
  <2> QED BY <1>0, <2>1, <2>2
<1>4. \A t \in Threads : Call(t) \/ Lock(t) \/ Run(t) =>
        Count(t) \/ CountAll(t) \/ UNCHANGED bucket_counts_
  BY DEF Call, InvokeObserve, InvokeObserveMultiple, InvokeReset, InvokeCollect, Invoke, Lock, Run,
         FindBucket, CheckSize, AddSum, ResetCounts, ResetSum, CollectBucket, CollectSum, Unlock,
         Return, data
<1>5. CASE UNCHANGED vars
  BY <1>1, <1>5 DEF vars
<1>6. CASE Next
  <2>1. PICK t \in Threads : Call(t) \/ Lock(t) \/ Run(t)
    BY <1>6 DEF Next
  <2> QED BY <1>1, <1>2, <1>3, <1>4, <2>1
<1> QED BY <1>5, <1>6

\* Between two resets no bucket goes down, nor does the sum while nothing
\* negative is observed, with negative increments and in any interleaving
\* (histogram.h:23-24).
THEOREM SeriesAreCounters ==
  ASSUME NEW CONSTANT Numbers, Summable(Numbers)
  PROVE  Spec => OnlyResetLowers
<1>1. Init => sum_ \in Numbers
  BY DEF Init, Summable
<1>2. IInv /\ sum_ \in Numbers /\ [Next]_vars => (sum_ \in Numbers)'
  BY NextSum DEF Summable
<1> DEFINE Lowers == \E t \in Threads :
             \/ call[t].op = "Observe" /\ Less(call[t].value, Zero)
             \/ call[t].op = "ObserveMultiple" /\ Less(call[t].batch.sum, Zero)
<1>3. IInv /\ sum_ \in Numbers /\ [Next]_vars =>
        [(\A t \in Threads : pc[t] \notin {"reset_counts", "reset_sum"}) =>
           /\ \A i \in Buckets : bucket_counts_[i] <= bucket_counts_'[i]
           /\ Less(sum_', sum_) => Lowers]_vars
  <2> SUFFICES ASSUME IInv, sum_ \in Numbers, [Next]_vars, Less(sum_', sum_),
                      \A t \in Threads : pc[t] \notin {"reset_counts", "reset_sum"}
               PROVE  Lowers
    BY CountsGrow
  <2>1. sum_' # sum_
    BY DEF Summable
  <2>2. PICK t \in Threads, v \in Numbers :
          /\ sum_' = Plus(sum_, v)
          /\ \/ call[t].op = "Observe" /\ v = call[t].value
             \/ call[t].op = "ObserveMultiple" /\ v = call[t].batch.sum
    BY <2>1, NextSum
  <2>3. Less(v, Zero)
    BY <2>2 DEF Summable
  <2> QED BY <2>2, <2>3
<1> QED BY <1>1, <1>2, <1>3, Invariance, PTL DEF Spec, OnlyResetLowers
-----------------------------------------------------------------------------
(* Folds over sequences                                                     *)

\* Induction over the natural numbers: a set of numbers that is not all of
\* them would leave out a smallest one.
LEMMA Induction ==
  ASSUME NEW S, 0 \in S, \A n \in Nat : n \in S => n + 1 \in S
  PROVE  Nat \subseteq S
<1> DEFINE T == Nat \ S
           R == {ss \in Nat \X Nat : ss[1] < ss[2]}
<1>1. SUFFICES ASSUME T # {} PROVE FALSE
  OBVIOUS
<1>2. IsWellFoundedOn(R, Nat)
  BY NatLessThanWellFounded DEF OpToRel
<1>3. \E x \in T : \A y \in T : <<y, x>> \notin R
  <2> HIDE DEF T, R
  <2>1. T \subseteq Nat
    BY DEF T
  <2> QED BY ONLY <1>1, <1>2, <2>1, WFMin
<1>4. \E x \in T : \A y \in T : ~(y < x)
  BY <1>3
<1> QED BY <1>4

\* The largest number of an interval, and of a set that ends with it.
LEMMA Largest ==
  ASSUME NEW n \in Nat, NEW S \in SUBSET (1..n), n \in S
  PROVE  Max(S) = n
<1>1. \A y \in S : n >= y
  OBVIOUS
<1>2. \A x \in S : (\A y \in S : x >= y) => x = n
  OBVIOUS
<1> QED BY <1>1, <1>2 DEF Max

\* A set of numbers below a bound has a largest one.
LEMMA HasLargest ==
  ASSUME NEW n \in Nat, NEW S \in SUBSET (1..n), S # {}
  PROVE  Max(S) \in S
<1> DEFINE T == {k \in Nat : \A R \in SUBSET (1..k) : R # {} => \E x \in R : \A y \in R : x >= y}
<1>1. 0 \in T
  <2>1. 1..0 = {}
    OBVIOUS
  <2> QED BY <2>1
<1>2. ASSUME NEW k \in Nat, k \in T
      PROVE  k + 1 \in T
  <2> SUFFICES ASSUME NEW R \in SUBSET (1..(k + 1)), R # {}
               PROVE  \E x \in R : \A y \in R : x >= y
    OBVIOUS
  <2>1. CASE k + 1 \in R
    BY <2>1
  <2>2. CASE k + 1 \notin R
    <3>1. R \in SUBSET (1..k)
      <4>1. \A x \in 1..(k + 1) : x # k + 1 => x \in 1..k
        OBVIOUS
      <4> QED BY <2>2, <4>1
    <3> QED BY <1>2, <3>1
  <2> QED BY <2>1, <2>2
<1>3. n \in T
  <2> HIDE DEF T
  <2> QED BY <1>1, <1>2, Induction
<1> QED BY <1>3 DEF Max

\* g folds op over the elements of seq at the places of any set.
Folds(g, N, base, op, seq) == \A s \in SUBSET (1..N) :
  g[s] = IF s = {} THEN base ELSE op[g[s \ {Max(s)}]][seq[Max(s)]]

LEMMA FoldExists ==
  ASSUME NEW N \in Nat, NEW A, NEW B, NEW base \in A, NEW op \in [A -> [B -> A]],
         NEW seq \in [1..N -> B]
  PROVE  \E g \in [SUBSET (1..N) -> A] : Folds(g, N, base, op, seq)
<1> DEFINE Fold(k, g) == \A s \in SUBSET (1..k) :
             g[s] = IF s = {} THEN base ELSE op[g[s \ {Max(s)}]][seq[Max(s)]]
           Done0(k) == \E g \in [SUBSET (1..k) -> A] : Fold(k, g)
           S == {k \in Nat : k <= N => Done0(k)}
<1>1. Done0(0)
  <2>1. SUBSET (1..0) = {{}}
    OBVIOUS
  <2> DEFINE g == [s \in SUBSET (1..0) |-> base]
  <2>2. g \in [SUBSET (1..0) -> A] /\ Fold(0, g)
    BY <2>1
  <2> QED BY <2>2
<1>2. ASSUME NEW k \in Nat, k + 1 <= N, Done0(k)
      PROVE  Done0(k + 1)
  <2>1. PICK g \in [SUBSET (1..k) -> A] : Fold(k, g)
    BY <1>2
  <2> DEFINE h == [s \in SUBSET (1..(k + 1)) |->
                     IF k + 1 \in s THEN op[g[s \ {k + 1}]][seq[k + 1]] ELSE g[s]]
  <2>2. \A s \in SUBSET (1..(k + 1)) :
          /\ s \ {k + 1} \in SUBSET (1..k)
          /\ k + 1 \notin s => s \in SUBSET (1..k)
    <3>1. \A x \in 1..(k + 1) : x # k + 1 => x \in 1..k
      OBVIOUS
    <3> QED BY <3>1
  <2>3. \A s \in SUBSET (1..k) : s \in SUBSET (1..(k + 1)) /\ k + 1 \notin s
    OBVIOUS
  <2>4. h \in [SUBSET (1..(k + 1)) -> A]
    <3>1. k + 1 \in 1..N
      <4>1. k \in Nat /\ k + 1 <= N /\ N \in Nat
        BY <1>2
      <4> QED BY ONLY <4>1
    <3>2. \A s \in SUBSET (1..(k + 1)) : k + 1 \in s => op[g[s \ {k + 1}]][seq[k + 1]] \in A
      <4>1. \A s \in SUBSET (1..(k + 1)) : g[s \ {k + 1}] \in A
        BY <2>2
      <4>2. seq[k + 1] \in B
        BY <3>1
      <4>3. \A x \in A : op[x][seq[k + 1]] \in A
        BY <4>2
      <4> QED BY <4>1, <4>3
    <3>3. \A s \in SUBSET (1..(k + 1)) : k + 1 \notin s => g[s] \in A
      BY <2>2
    <3> QED BY <3>2, <3>3
  <2>5. \A s \in SUBSET (1..k) : h[s] = g[s]
    BY <2>3
  <2>6. ASSUME NEW s \in SUBSET (1..(k + 1)), k + 1 \in s
        PROVE  h[s] = IF s = {} THEN base ELSE op[h[s \ {Max(s)}]][seq[Max(s)]]
    <3>1. Max(s) = k + 1
      BY <2>6, Largest
    <3>2. h[s \ {k + 1}] = g[s \ {k + 1}]
      BY <2>2, <2>5
    <3>3. h[s] = op[g[s \ {k + 1}]][seq[k + 1]]
      BY <2>6
    <3> HIDE DEF h
    <3> QED BY <2>6, <3>1, <3>2, <3>3
  <2>7. ASSUME NEW s \in SUBSET (1..(k + 1)), k + 1 \notin s
        PROVE  h[s] = IF s = {} THEN base ELSE op[h[s \ {Max(s)}]][seq[Max(s)]]
    <3>1. s \in SUBSET (1..k) /\ s \ {Max(s)} \in SUBSET (1..k)
      BY <2>2, <2>7
    <3>2. h[s] = g[s] /\ h[s \ {Max(s)}] = g[s \ {Max(s)}]
      BY <2>5, <3>1
    <3> HIDE DEF h
    <3> QED BY <2>1, <3>1, <3>2
  <2> HIDE DEF h
  <2>8. Fold(k + 1, h)
    BY <2>6, <2>7
  <2> QED BY <2>4, <2>8
<1>3. N \in S
  <2>1. 0 \in S
    BY <1>1
  <2>2. \A k \in Nat : k \in S => k + 1 \in S
    <3> HIDE DEF Done0
    <3> QED BY <1>2
  <2> HIDE DEF S
  <2> QED BY <2>1, <2>2, Induction
<1> QED
  <2>1. Done0(N)
    <3> HIDE DEF Done0
    <3> QED BY <1>3
  <2> QED BY <2>1 DEF Folds

\* The last number of an interval, and the rest.
LEMMA LastOf ==
  ASSUME NEW N \in Nat, NEW m \in 1..N
  PROVE  m \in Nat /\ 1..m \in SUBSET (1..N) /\ m \in 1..m /\ (1..m) \ {m} = 1..(m - 1)
<1>1. m \in Nat /\ m >= 1 /\ m <= N /\ N \in Nat
  OBVIOUS
<1>2. \A x \in Int : x \in 1..(m - 1) <=> x \in 1..m /\ x # m
  BY ONLY <1>1
<1>3. 1..m \subseteq Int /\ 1..(m - 1) \subseteq Int
  BY ONLY <1>1
<1>4. (1..m) \ {m} = 1..(m - 1)
  BY ONLY <1>2, <1>3
<1>5. 1..m \subseteq 1..N /\ m \in 1..m
  BY ONLY <1>1
<1> QED BY ONLY <1>1, <1>4, <1>5

\* G is the results of a fold so far, from left to right.
Runs(G, N, base, op, seq) == G[0] = base /\ \A m \in 1..N : G[m] = op[G[m - 1]][seq[m]]

\* A fold over a sequence goes from left to right.
LEMMA RunningExists ==
  ASSUME NEW N \in Nat, NEW A, NEW B, NEW base \in A, NEW op \in [A -> [B -> A]],
         NEW seq \in [1..N -> B]
  PROVE  \E G \in [0..N -> A] : Runs(G, N, base, op, seq)
<1>1. PICK g \in [SUBSET (1..N) -> A] : Folds(g, N, base, op, seq)
  BY FoldExists
<1> DEFINE G == [m \in 0..N |-> g[1..m]]
<1>2. G \in [0..N -> A]
  <2>1. \A m \in 0..N : 1..m \in SUBSET (1..N)
    OBVIOUS
  <2> QED BY <2>1
<1>3. g[1..0] = base
  <2>1. 1..0 = {} /\ {} \in SUBSET (1..N)
    OBVIOUS
  <2> QED BY <1>1, <2>1 DEF Folds
<1>4. ASSUME NEW m \in 1..N
      PROVE  g[1..m] = op[g[1..(m - 1)]][seq[m]]
  <2>1. m \in Nat /\ 1..m \in SUBSET (1..N) /\ m \in 1..m /\ (1..m) \ {m} = 1..(m - 1)
    BY LastOf
  <2>2. Max(1..m) = m
    BY ONLY <2>1, Largest
  <2> QED BY ONLY <2>1, <2>2, <1>1 DEF Folds
<1>5. Runs(G, N, base, op, seq)
  <2>1. 0 \in 0..N /\ \A m \in 1..N : m \in 0..N /\ m - 1 \in 0..N
    OBVIOUS
  <2> QED BY <1>3, <1>4, <2>1 DEF Runs
<1> HIDE DEF G
<1> QED BY <1>2, <1>5

\* Two results that start alike and go on alike are the same.
Alike(G, H, N) == G[0] = H[0] /\ \A m \in 1..N : G[m - 1] = H[m - 1] => G[m] = H[m]

LEMMA SameResult ==
  ASSUME NEW N \in Nat, NEW G, NEW H, Alike(G, H, N)
  PROVE  G[N] = H[N]
<1> DEFINE S == {k \in Nat : k <= N => G[k] = H[k]}
<1>1. 0 \in S
  BY DEF Alike
<1>2. ASSUME NEW k \in Nat, k \in S
      PROVE  k + 1 \in S
  <2>1. CASE k + 1 <= N
    <3>1. k + 1 \in 1..N /\ (k + 1) - 1 = k /\ k <= N
      BY <2>1
    <3>2. G[(k + 1) - 1] = H[(k + 1) - 1]
      BY <1>2, <3>1
    <3>3. G[k + 1] = H[k + 1]
      BY <3>1, <3>2 DEF Alike
    <3> QED BY <3>3
  <2> QED BY <2>1
<1> HIDE DEF S
<1>3. Nat \subseteq S
  BY <1>1, <1>2, Induction
<1> QED BY <1>3 DEF S

-----------------------------------------------------------------------------
(* Sums of counts                                                           *)

\* + of counts, one argument at a time.
Adding(A) == [x \in A |-> [y \in A |-> x + y]]

\* The sum of a sequence of numbers has the running sums of the sequence.
LEMMA TotalFolds ==
  ASSUME NEW s \in Seq(Int), NEW G \in [0..Len(s) -> Int], G[0] = 0,
         \A m \in 1..Len(s) : G[m] = G[m - 1] + s[m]
  PROVE  Abstract!Total(s) = G[Len(s)]
<1> DEFINE N == Len(s)
           iter == CHOOSE f : f = [S \in SUBSET DOMAIN s |->
                     IF S = {} THEN 0 ELSE f[S \ {Max(S)}] + s[Max(S)]]
<1>1. Abstract!Total(s) = iter[DOMAIN s]
  BY DEF Abstract!Total, Abstract!FoldLeft, Abstract!MapThenFoldSet, Abstract!Max, Max
<1>2. N \in Nat /\ DOMAIN s = 1..N /\ s \in [1..N -> Int]
  OBVIOUS
<1> HIDE DEF N
<1> DEFINE op == Adding(Int)
           base == 0
           Numbers == Int
<1>3. op \in [Numbers -> [Numbers -> Numbers]] /\ \A x, y \in Int : op[x][y] = x + y
  BY DEF Adding
<1>4. base \in Numbers /\ s \in [1..N -> Numbers]
  BY ONLY <1>2
<1> HIDE DEF op
<1>5. PICK g \in [SUBSET (1..N) -> Numbers] : Folds(g, N, base, op, s)
  <2> HIDE DEF base, Numbers
  <2> QED BY ONLY <1>2, <1>3, <1>4, FoldExists
<1>6. \A S \in SUBSET (1..N) : g[S] = IF S = {} THEN 0 ELSE g[S \ {Max(S)}] + s[Max(S)]
  <2> TAKE S \in SUBSET (1..N)
  <2>1. CASE S # {}
    <3>1. Max(S) \in 1..N
      BY <1>2, <2>1, HasLargest
    <3>2. g[S \ {Max(S)}] \in Int /\ s[Max(S)] \in Int
      BY <1>2, <3>1
    <3> QED BY <1>3, <1>5, <2>1, <3>2 DEF Folds
  <2> QED BY <1>5, <2>1 DEF Folds
<1>7. \E f : f = [S \in SUBSET DOMAIN s |-> IF S = {} THEN 0 ELSE f[S \ {Max(S)}] + s[Max(S)]]
  BY <1>2, <1>6
<1>8. iter = [S \in SUBSET DOMAIN s |-> IF S = {} THEN 0 ELSE iter[S \ {Max(S)}] + s[Max(S)]]
  BY <1>7
<1> HIDE DEF iter
<1>9. iter[1..0] = 0
  <2>1. 1..0 = {} /\ {} \in SUBSET DOMAIN s
    OBVIOUS
  <2> QED BY <1>8, <2>1
<1>10. \A m \in 1..N : iter[1..m] = iter[1..(m - 1)] + s[m]
  <2> TAKE m \in 1..N
  <2>1. 1..m \in SUBSET DOMAIN s /\ m \in 1..m /\ (1..m) \ {m} = 1..(m - 1)
    BY <1>2, LastOf
  <2>2. Max(1..m) = m
    BY <1>2, <2>1, Largest
  <2> QED BY ONLY <1>8, <2>1, <2>2
<1>11. iter[1..N] = G[N]
  <2> DEFINE H == [m \in 0..N |-> iter[1..m]]
  <2>1. Alike(H, G, N)
    BY <1>2, <1>9, <1>10 DEF N, Alike
  <2>2. N \in 0..N /\ H[N] = iter[1..N]
    BY <1>2
  <2> HIDE DEF H
  <2>3. H[N] = G[N]
    BY <1>2, <2>1, SameResult
  <2> QED BY <2>2, <2>3
<1> QED BY <1>1, <1>2, <1>11 DEF N

\* The running sums of counts.
LEMMA Sums ==
  ASSUME NEW A \in {Nat, Int}, NEW s \in Seq(A)
  PROVE  \E G \in [0..Len(s) -> A] :
           /\ G[0] = 0 /\ \A m \in 1..Len(s) : G[m] = G[m - 1] + s[m]
           /\ Abstract!Total(s) = G[Len(s)]
<1> DEFINE N == Len(s)
           op == Adding(A)
           base == 0
<1>1. N \in Nat /\ s \in [1..N -> A] /\ base \in A /\ \A x \in A : x \in Int
  OBVIOUS
<1>2. op \in [A -> [A -> A]] /\ \A x, y \in A : op[x][y] = x + y
  BY DEF Adding
<1> HIDE DEF op, base, N
<1>3. PICK G \in [0..N -> A] : Runs(G, N, base, op, s)
  BY ONLY <1>1, <1>2, RunningExists
<1>4. G[0] = 0 /\ \A m \in 1..N : G[m] = G[m - 1] + s[m]
  <2>1. \A m \in 1..N : G[m - 1] \in A /\ s[m] \in A
    BY <1>1
  <2> QED BY <1>2, <1>3, <2>1 DEF Runs, base
<1>5. s \in Seq(Int) /\ G \in [0..N -> Int]
  BY <1>1 DEF N
<1>6. Abstract!Total(s) = G[N]
  BY <1>4, <1>5, TotalFolds DEF N
<1> QED BY <1>4, <1>6 DEF N

LEMMA TotalEmpty == Abstract!Total(<< >>) = 0
<1>1. << >> \in Seq(Int) /\ Len(<< >>) = 0
  OBVIOUS
<1>2. PICK G \in [0..0 -> Int] : G[0] = 0 /\ Abstract!Total(<< >>) = G[0]
  BY <1>1, Sums
<1> QED BY <1>2

LEMMA TotalCounts ==
  ASSUME NEW s \in Seq(Nat)
  PROVE  Abstract!Total(s) \in Nat
<1>1. PICK G \in [0..Len(s) -> Nat] : Abstract!Total(s) = G[Len(s)]
  BY Sums
<1>2. Len(s) \in 0..Len(s)
  OBVIOUS
<1> QED BY <1>1, <1>2

\* One number more.
LEMMA TotalGrows ==
  ASSUME NEW s \in Seq(Int), NEW e \in Int
  PROVE  Abstract!Total(s) \in Int /\ Abstract!Total(Append(s, e)) = Abstract!Total(s) + e
<1> DEFINE N == Len(s)
           r == Append(s, e)
<1>1. PICK G \in [0..N -> Int] :
        /\ G[0] = 0 /\ \A m \in 1..N : G[m] = G[m - 1] + s[m]
        /\ Abstract!Total(s) = G[N]
  BY Sums
<1>2. /\ N \in Nat /\ r \in Seq(Int) /\ Len(r) = N + 1 /\ r[N + 1] = e
      /\ \A m \in 1..N : r[m] = s[m]
  OBVIOUS
<1> HIDE DEF N, r
<1> DEFINE H == [m \in 0..(N + 1) |-> IF m = N + 1 THEN G[N] + e ELSE G[m]]
<1>3. /\ H \in [0..(N + 1) -> Int] /\ H[0] = 0 /\ H[N + 1] = G[N] + e /\ G[N] \in Int
  BY <1>1, <1>2
<1>4. \A m \in 1..(N + 1) : H[m] = H[m - 1] + r[m]
  <2> TAKE m \in 1..(N + 1)
  <2>1. CASE m = N + 1
    BY <1>2, <2>1
  <2>2. CASE m \in 1..N
    <3>1. H[m] = G[m] /\ H[m - 1] = G[m - 1]
      BY <1>2, <2>2
    <3> QED BY <1>1, <1>2, <2>2, <3>1
  <2> QED BY <1>2, <2>1, <2>2
<1> HIDE DEF H
<1>5. Abstract!Total(r) = H[N + 1]
  BY <1>2, <1>3, <1>4, TotalFolds
<1> QED BY <1>1, <1>3, <1>5 DEF r

-----------------------------------------------------------------------------
(* The sum of the log                                                       *)

\* Numbers that addition does not leave and that < orders, as doubles do. No
\* boundary is a NaN: where one is not >= the next, it is less. What is
\* observed may be a NaN.
Arithmetic(Numbers) ==
  /\ Zero \in Numbers /\ Values \subseteq Numbers /\ BoundaryLists \subseteq Seq(Numbers)
  /\ \A b \in Batches : b.sum \in Numbers
  /\ \A x, y \in Numbers : Plus(x, y) \in Numbers
  /\ \A x, y, z \in Numbers : Less(x, y) /\ Less(y, z) => Less(x, z)
  /\ \A b \in BoundaryLists : \A i \in 1..(Len(b) - 1) :
       ~GreaterEqual(b[i], b[i + 1]) => Less(b[i], b[i + 1])

SumOf(s) == FoldLeft(LAMBDA x, u : Plus(x, Amount(u)), Zero, s)

LEMMA SumIsSumOf == Abstract!Sum = SumOf(log) /\ Abstract!Sum' = SumOf(log')
BY DEF Abstract!Sum, SumOf, Amount, FoldLeft, MapThenFoldSet, Max,
       Abstract!FoldLeft, Abstract!MapThenFoldSet, Abstract!Max

LEMMA Amounts ==
  ASSUME NEW Numbers, Arithmetic(Numbers), NEW u \in Updates
  PROVE  Amount(u) \in Numbers
BY DEF Amount, Updates, Arithmetic

LEMMA SumFolds ==
  ASSUME NEW Numbers, Arithmetic(Numbers), NEW s \in Seq(Updates),
         NEW G \in [0..Len(s) -> Numbers], G[0] = Zero,
         \A m \in 1..Len(s) : G[m] = Plus(G[m - 1], Amount(s[m]))
  PROVE  SumOf(s) = G[Len(s)]
<1> DEFINE N == Len(s)
           iter == CHOOSE f : f = [S \in SUBSET DOMAIN s |->
                     IF S = {} THEN Zero ELSE Plus(f[S \ {Max(S)}], Amount(s[Max(S)]))]
<1>1. SumOf(s) = iter[DOMAIN s]
  BY DEF SumOf, FoldLeft, MapThenFoldSet, Max
<1>2. N \in Nat /\ DOMAIN s = 1..N /\ s \in [1..N -> Updates]
  OBVIOUS
<1> HIDE DEF N
<1> DEFINE op == [x \in Numbers |-> [u \in Updates |-> Plus(x, Amount(u))]]
<1>3. /\ op \in [Numbers -> [Updates -> Numbers]] /\ Zero \in Numbers
      /\ \A x \in Numbers, u \in Updates : op[x][u] = Plus(x, Amount(u))
  <2>1. \A x \in Numbers, u \in Updates : Plus(x, Amount(u)) \in Numbers
    BY Amounts DEF Arithmetic
  <2> QED BY <2>1 DEF Arithmetic
<1> HIDE DEF op
<1>4. PICK g \in [SUBSET (1..N) -> Numbers] : Folds(g, N, Zero, op, s)
  BY ONLY <1>2, <1>3, FoldExists
<1>5. \A S \in SUBSET (1..N) :
        g[S] = IF S = {} THEN Zero ELSE Plus(g[S \ {Max(S)}], Amount(s[Max(S)]))
  <2> TAKE S \in SUBSET (1..N)
  <2>1. CASE S # {}
    <3>1. Max(S) \in 1..N
      BY <1>2, <2>1, HasLargest
    <3>2. g[S \ {Max(S)}] \in Numbers /\ s[Max(S)] \in Updates
      BY <1>2, <3>1
    <3> QED BY <1>3, <1>4, <2>1, <3>2 DEF Folds
  <2> QED BY <1>4, <2>1 DEF Folds
<1>6. \E f : f = [S \in SUBSET DOMAIN s |->
               IF S = {} THEN Zero ELSE Plus(f[S \ {Max(S)}], Amount(s[Max(S)]))]
  BY <1>2, <1>5
<1>7. iter = [S \in SUBSET DOMAIN s |->
               IF S = {} THEN Zero ELSE Plus(iter[S \ {Max(S)}], Amount(s[Max(S)]))]
  BY <1>6
<1> HIDE DEF iter
<1>8. iter[1..0] = Zero
  <2>1. 1..0 = {} /\ {} \in SUBSET DOMAIN s
    OBVIOUS
  <2> QED BY <1>7, <2>1
<1>9. \A m \in 1..N : iter[1..m] = Plus(iter[1..(m - 1)], Amount(s[m]))
  <2> TAKE m \in 1..N
  <2>1. 1..m \in SUBSET DOMAIN s /\ m \in 1..m /\ (1..m) \ {m} = 1..(m - 1)
    BY <1>2, LastOf
  <2>2. Max(1..m) = m
    BY <1>2, <2>1, Largest
  <2> QED BY ONLY <1>7, <2>1, <2>2
<1>10. iter[1..N] = G[N]
  <2> DEFINE H == [m \in 0..N |-> iter[1..m]]
  <2>1. Alike(H, G, N)
    BY <1>2, <1>8, <1>9 DEF N, Alike
  <2>2. N \in 0..N /\ H[N] = iter[1..N]
    BY <1>2
  <2> HIDE DEF H
  <2>3. H[N] = G[N]
    BY <1>2, <2>1, SameResult
  <2> QED BY <2>2, <2>3
<1> QED BY <1>1, <1>2, <1>10 DEF N

\* An update more.
LEMMA SumGrows ==
  ASSUME NEW Numbers, Arithmetic(Numbers), NEW s \in Seq(Updates), NEW e \in Updates
  PROVE  SumOf(Append(s, e)) = Plus(SumOf(s), Amount(e))
<1> DEFINE N == Len(s)
           r == Append(s, e)
           op == [x \in Numbers |-> [u \in Updates |-> Plus(x, Amount(u))]]
<1>1. /\ op \in [Numbers -> [Updates -> Numbers]] /\ Zero \in Numbers
      /\ \A x \in Numbers, u \in Updates : op[x][u] = Plus(x, Amount(u))
      /\ \A x \in Numbers, u \in Updates : Plus(x, Amount(u)) \in Numbers
  <2>1. \A x \in Numbers, u \in Updates : Plus(x, Amount(u)) \in Numbers
    BY Amounts DEF Arithmetic
  <2> QED BY <2>1 DEF Arithmetic
<1> HIDE DEF op
<1>2. /\ N \in Nat /\ s \in [1..N -> Updates] /\ Len(r) = N + 1 /\ r[N + 1] = e
      /\ r \in Seq(Updates) /\ \A m \in 1..N : r[m] = s[m]
  OBVIOUS
<1>3. PICK G \in [0..N -> Numbers] : Runs(G, N, Zero, op, s)
  <2> HIDE DEF N
  <2> QED BY ONLY <1>1, <1>2, RunningExists
<1>4. G[0] = Zero /\ \A m \in 1..N : G[m] = Plus(G[m - 1], Amount(s[m]))
  <2>1. \A m \in 1..N : G[m - 1] \in Numbers /\ s[m] \in Updates
    BY <1>2
  <2> QED BY <1>1, <1>3, <2>1 DEF Runs
<1>5. SumOf(s) = G[N]
  BY <1>4, SumFolds
<1> HIDE DEF N, r
<1> DEFINE H == [m \in 0..(N + 1) |-> IF m = N + 1 THEN Plus(G[N], Amount(e)) ELSE G[m]]
<1>6. H \in [0..(N + 1) -> Numbers] /\ H[0] = Zero /\ H[N + 1] = Plus(G[N], Amount(e))
  BY <1>1, <1>2, <1>4
<1>7. \A m \in 1..(N + 1) : H[m] = Plus(H[m - 1], Amount(r[m]))
  <2> TAKE m \in 1..(N + 1)
  <2>1. CASE m = N + 1
    BY <1>2, <2>1
  <2>2. CASE m \in 1..N
    <3>1. H[m] = G[m] /\ H[m - 1] = G[m - 1]
      BY <1>2, <2>2
    <3> QED BY <1>2, <1>4, <2>2, <3>1
  <2> QED BY <1>2, <2>1, <2>2
<1> HIDE DEF H
<1>8. SumOf(r) = H[N + 1]
  BY <1>2, <1>6, <1>7, SumFolds
<1> QED BY <1>5, <1>6, <1>8 DEF r

LEMMA SumEmpty ==
  ASSUME NEW Numbers, Arithmetic(Numbers)
  PROVE  SumOf(<< >>) = Zero
<1> DEFINE s == << >>
           G == [m \in 0..0 |-> Zero]
<1>1. s \in Seq(Updates) /\ Len(s) = 0 /\ G \in [0..0 -> Numbers] /\ G[0] = Zero
  BY DEF Arithmetic
<1> HIDE DEF G, s
<1>2. G \in [0..Len(s) -> Numbers] /\ \A m \in 1..Len(s) : G[m] = Plus(G[m - 1], Amount(s[m]))
  BY <1>1
<1>3. SumOf(s) = G[Len(s)]
  BY <1>1, <1>2, SumFolds
<1> QED BY <1>1, <1>3 DEF s

-----------------------------------------------------------------------------
(* What the log says the buckets hold                                       *)

\* A batch in the log has an increment per bucket.
FitsAll(s) == \A n \in DOMAIN s :
  s[n].op = "ObserveMultiple" => Len(s[n].batch.increments) = Len(bucket_boundaries_) + 1

\* What an update adds to the observations up to the i-th bound is a count.
LEMMA UpToCounts ==
  ASSUME TypeOK, NEW u \in Updates, NEW i \in Buckets,
         u.op = "ObserveMultiple" => Len(u.batch.increments) = Len(bucket_boundaries_) + 1
  PROVE  Abstract!UpTo(u, i) \in Nat
<1>1. CASE u.op = "Observe"
  BY <1>1, UnitAssumption DEF Abstract!UpTo
<1>2. CASE u.op # "Observe"
  <2> DEFINE s == [j \in 1..i |-> IF u.batch.increments[j] > 0 THEN u.batch.increments[j] ELSE 0]
  <2>1. u.batch.increments \in Seq(Int) /\ u.op = "ObserveMultiple"
    BY <1>2, ArgumentsAssumption DEF Updates
  <2>2. i \in Nat /\ \A j \in 1..i : j \in DOMAIN u.batch.increments
    BY <2>1, Counts DEF Buckets
  <2>3. s \in Seq(Nat)
    BY <2>1, <2>2
  <2>4. Abstract!UpTo(u, i) = Abstract!Total(s)
    BY <1>2 DEF Abstract!UpTo
  <2> HIDE DEF s
  <2> QED BY <2>3, <2>4, TotalCounts
<1> QED BY <1>1, <1>2

\* The observations up to the i-th bound that a list of updates makes.
UpToIn(s, i) == [n \in DOMAIN s |-> Abstract!UpTo(s[n], i)]

LEMMA UpToSeq ==
  ASSUME TypeOK, NEW s \in Seq(Updates), FitsAll(s), NEW i \in Buckets
  PROVE  UpToIn(s, i) \in Seq(Nat)
<1>1. \A n \in DOMAIN s : Abstract!UpTo(s[n], i) \in Nat
  <2> TAKE n \in DOMAIN s
  <2>1. s[n] \in Updates
    OBVIOUS
  <2> QED BY <2>1, UpToCounts DEF FitsAll
<1>2. DOMAIN s = 1..Len(s) /\ Len(s) \in Nat
  OBVIOUS
<1> QED BY <1>1, <1>2 DEF UpToIn

LEMMA ExactCounts ==
  ASSUME TypeOK, FitsAll(log), NEW i \in Buckets
  PROVE  Abstract!Exact(i) \in Nat
<1>1. UpToIn(log, i) \in Seq(Nat)
  BY UpToSeq DEF TypeOK
<1>2. Abstract!Exact(i) = Abstract!Total(UpToIn(log, i))
  BY DEF Abstract!Exact, UpToIn
<1> QED BY <1>1, <1>2, TotalCounts

LEMMA AppendIs ==
  ASSUME NEW S, NEW s \in Seq(S), NEW e \in S
  PROVE  Append(s, e) = [n \in 1..(Len(s) + 1) |-> IF n = Len(s) + 1 THEN e ELSE s[n]]
<1> DEFINE r == Append(s, e)
<1>1. r \in Seq(S) /\ Len(r) = Len(s) + 1
  OBVIOUS
<1>2. \A n \in 1..(Len(s) + 1) : r[n] = IF n = Len(s) + 1 THEN e ELSE s[n]
  OBVIOUS
<1> HIDE DEF r
<1>3. r = [n \in 1..(Len(s) + 1) |-> r[n]]
  BY <1>1
<1>4. r = [n \in 1..(Len(s) + 1) |-> IF n = Len(s) + 1 THEN e ELSE s[n]]
  BY ONLY <1>2, <1>3
<1> QED BY <1>4 DEF r

\* An update adds its observations to those of the log.
LEMMA ExactGrows ==
  ASSUME TypeOK, FitsAll(log), NEW u \in Updates, log' = Append(log, u),
         u.op = "ObserveMultiple" => Len(u.batch.increments) = Len(bucket_boundaries_) + 1,
         bucket_boundaries_' = bucket_boundaries_, NEW i \in Buckets
  PROVE  Abstract!Exact(i)' = Abstract!Exact(i) + Abstract!UpTo(u, i)
<1>1. UpToIn(log, i) \in Seq(Int) /\ Abstract!UpTo(u, i) \in Int
  <2>1. \A s : s \in Seq(Nat) => s \in Seq(Int)
    OBVIOUS
  <2> QED BY <2>1, UpToSeq, UpToCounts DEF TypeOK
<1>2. UpToIn(log', i) = Append(UpToIn(log, i), Abstract!UpTo(u, i))
  <2>1. /\ log \in Seq(Updates) /\ DOMAIN log' = 1..(Len(log) + 1)
        /\ log'[Len(log) + 1] = u /\ \A n \in DOMAIN log : log'[n] = log[n]
    BY DEF TypeOK
  <2>2. DOMAIN log = 1..Len(log) /\ Len(log) \in Nat
    BY <2>1
  <2> DEFINE s == UpToIn(log, i)
             r == UpToIn(log', i)
  <2>3. s = [n \in 1..Len(log) |-> Abstract!UpTo(log[n], i)]
    BY <2>2 DEF UpToIn
  <2>4. r = [n \in 1..(Len(log) + 1) |-> Abstract!UpTo(log'[n], i)]
    BY <2>1 DEF UpToIn
  <2>5. Len(s) = Len(log)
    BY <2>2, <2>3
  <2>6. Append(s, Abstract!UpTo(u, i)) =
          [n \in 1..(Len(s) + 1) |-> IF n = Len(s) + 1 THEN Abstract!UpTo(u, i) ELSE s[n]]
    BY <1>1, AppendIs
  <2>7. \A n \in 1..(Len(log) + 1) :
          Abstract!UpTo(log'[n], i) =
            IF n = Len(log) + 1 THEN Abstract!UpTo(u, i) ELSE s[n]
    <3> TAKE n \in 1..(Len(log) + 1)
    <3>1. CASE n = Len(log) + 1
      BY <2>1, <3>1
    <3>2. CASE n # Len(log) + 1
      <4>1. n \in 1..Len(log)
        BY <2>2, <3>2
      <4>2. log'[n] = log[n] /\ s[n] = Abstract!UpTo(log[n], i)
        BY <2>1, <2>2, <2>3, <4>1
      <4> QED BY <3>2, <4>2
    <3> QED BY <3>1, <3>2
  <2> HIDE DEF s, r
  <2>8. r = Append(s, Abstract!UpTo(u, i))
    BY <2>4, <2>5, <2>6, <2>7
  <2> QED BY <2>8 DEF s, r
<1>3. Abstract!Exact(i) = Abstract!Total(UpToIn(log, i))
  BY DEF Abstract!Exact, UpToIn
<1>4. Abstract!Exact(i)' = Abstract!Total(UpToIn(log', i))
  BY DEF Abstract!Exact, UpToIn, Abstract!UpTo
<1> QED BY <1>1, <1>2, <1>3, <1>4, TotalGrows

\* What an update adds to bucket i.
Share(u, i) == Abstract!UpTo(u, i) - (IF i = 1 THEN 0 ELSE Abstract!UpTo(u, i - 1))

LEMMA StoredGrows ==
  ASSUME TypeOK, FitsAll(log), NEW u \in Updates, log' = Append(log, u),
         u.op = "ObserveMultiple" => Len(u.batch.increments) = Len(bucket_boundaries_) + 1,
         bucket_boundaries_' = bucket_boundaries_, NEW i \in Buckets
  PROVE  Stored(i)' = Stored(i) + Share(u, i)
<1>1. i \in Nat /\ (i # 1 => i - 1 \in Buckets)
  BY Counts DEF Buckets
<1>2. \A j \in Buckets : /\ Abstract!Exact(j) \in Nat /\ Abstract!UpTo(u, j) \in Nat
                         /\ Abstract!Exact(j)' = Abstract!Exact(j) + Abstract!UpTo(u, j)
  BY ExactCounts, ExactGrows, UpToCounts
<1>3. CASE i = 1
  BY <1>2, <1>3 DEF Stored, Share
<1>4. CASE i # 1
  <2>1. /\ Abstract!Exact(i)' = Abstract!Exact(i) + Abstract!UpTo(u, i)
        /\ Abstract!Exact(i - 1)' = Abstract!Exact(i - 1) + Abstract!UpTo(u, i - 1)
        /\ Abstract!Exact(i) \in Nat /\ Abstract!UpTo(u, i) \in Nat
        /\ Abstract!Exact(i - 1) \in Nat /\ Abstract!UpTo(u, i - 1) \in Nat
    BY <1>1, <1>2, <1>4
  <2>2. /\ Stored(i)' = Abstract!Exact(i)' - Abstract!Exact(i - 1)'
        /\ Stored(i) = Abstract!Exact(i) - Abstract!Exact(i - 1)
        /\ Share(u, i) = Abstract!UpTo(u, i) - Abstract!UpTo(u, i - 1)
    BY <1>4 DEF Stored, Share
  <2> QED BY <2>1, <2>2
<1> QED BY <1>3, <1>4

\* The neighbours in a list the constructor accepts are in order, and so is
\* the list.
LEMMA BoundariesSorted ==
  ASSUME NEW Numbers, Arithmetic(Numbers), Init
  PROVE  Sorted
<1> DEFINE b == bucket_boundaries_
<1>1. b \in Seq(Numbers) /\ Len(b) \in Nat /\ DOMAIN b = 1..Len(b)
  BY DEF Init, Arithmetic
<1>2. \A i \in 1..(Len(b) - 1) : Less(b[i], b[i + 1])
  BY DEF Init, Arithmetic, IsStrictSorted
<1>3. \A x, y, z \in Numbers : Less(x, y) /\ Less(y, z) => Less(x, z)
  BY DEF Arithmetic
<1> HIDE DEF b
<1> DEFINE S == {k \in Nat : \A i \in 1..k : k + 1 <= Len(b) => Less(b[i], b[k + 1])}
<1>4. 0 \in S
  OBVIOUS
<1>5. ASSUME NEW k \in Nat, k \in S
      PROVE  k + 1 \in S
  <2> SUFFICES ASSUME NEW i \in 1..(k + 1), (k + 1) + 1 <= Len(b)
               PROVE  Less(b[i], b[(k + 1) + 1])
    OBVIOUS
  <2>1. Less(b[k + 1], b[(k + 1) + 1])
    BY <1>1, <1>2
  <2>2. CASE i = k + 1
    BY <2>1, <2>2
  <2>3. CASE i \in 1..k
    <3>1. Less(b[i], b[k + 1])
      BY <1>1, <1>5, <2>3
    <3>2. b[i] \in Numbers /\ b[k + 1] \in Numbers /\ b[(k + 1) + 1] \in Numbers
      BY <1>1, <2>3
    <3> QED BY <1>3, <2>1, <3>1, <3>2
  <2> QED BY <2>2, <2>3
<1>6. Nat \subseteq S
  <2> HIDE DEF S
  <2> QED BY <1>4, <1>5, Induction
<1>7. ASSUME NEW i \in DOMAIN b, NEW j \in DOMAIN b, i < j
      PROVE  Less(b[i], b[j])
  <2>1. j - 1 \in Nat /\ i \in 1..(j - 1) /\ (j - 1) + 1 = j /\ j <= Len(b)
    BY <1>1, <1>7
  <2>2. j - 1 \in S
    BY <1>6, <2>1
  <2> QED BY <2>1, <2>2
<1> QED BY <1>7 DEF b, Sorted

\* An observation adds one to the bucket that was looked up, and to no other.
LEMMA ShareOfObserve ==
  ASSUME NEW Numbers, Arithmetic(Numbers), TypeOK, Sorted, NEW u \in Updates, u.op = "Observe",
         NEW k \in BucketIndices(u.value), NEW i \in Buckets
  PROVE  Share(u, i) = IF i = k THEN Unit ELSE 0
<1> DEFINE b == bucket_boundaries_
           v == u.value
<1>1. /\ b \in Seq(Numbers) /\ Len(b) \in Nat /\ v \in Numbers
      /\ \A x, y, z \in Numbers : Less(x, y) /\ Less(y, z) => Less(x, z)
      /\ \A m, n \in 1..Len(b) : m < n => Less(b[m], b[n])
  <2>1. b \in Seq(Numbers) /\ v \in Numbers
    BY DEF TypeOK, Arithmetic, Updates
  <2> QED BY <2>1, Counts DEF Arithmetic, Sorted
<1>2. /\ k \in 1..(Len(b) + 1) /\ (k > 1 => Less(b[k - 1], v))
      /\ (k <= Len(b) => ~Less(b[k], v))
  BY DEF BucketIndices, Buckets
<1>3. \A n \in 1..(Len(b) + 1) :
        Abstract!UpTo(u, n) = IF n <= Len(b) /\ Less(b[n], v) THEN 0 ELSE Unit
  BY DEF Abstract!UpTo
<1>4. i \in 1..(Len(b) + 1)
  BY DEF Buckets
<1> HIDE DEF b, v
<1>5. \A n \in 1..(Len(b) + 1) : Abstract!UpTo(u, n) = IF n < k THEN 0 ELSE Unit
  <2> TAKE n \in 1..(Len(b) + 1)
  <2>1. CASE n < k
    <3>1. n \in 1..Len(b) /\ k - 1 \in 1..Len(b) /\ Less(b[k - 1], v)
      BY <1>1, <1>2, <2>1
    <3>2. b[n] \in Numbers /\ b[k - 1] \in Numbers
      BY <1>1, <3>1
    <3>3. n = k - 1 \/ Less(b[n], b[k - 1])
      BY <1>1, <1>2, <2>1, <3>1
    <3>4. Less(b[n], v)
      BY <1>1, <3>1, <3>2, <3>3
    <3> QED BY <1>3, <2>1, <3>1, <3>4
  <2>2. CASE ~(n < k) /\ n <= Len(b)
    <3>1. k \in 1..Len(b) /\ n \in 1..Len(b) /\ ~Less(b[k], v)
      BY <1>1, <1>2, <2>2
    <3>2. b[n] \in Numbers /\ b[k] \in Numbers
      BY <1>1, <3>1
    <3>3. n = k \/ Less(b[k], b[n])
      BY <1>1, <2>2, <3>1
    <3>4. ~Less(b[n], v)
      BY <1>1, <3>1, <3>2, <3>3
    <3> QED BY <1>3, <2>2, <3>4
  <2>3. CASE n > Len(b)
    BY <1>1, <1>2, <1>3, <2>3
  <2> QED BY <1>1, <1>2, <2>1, <2>2, <2>3
<1>6. CASE i = 1
  <2>1. Abstract!UpTo(u, i) = IF i < k THEN 0 ELSE Unit
    BY <1>4, <1>5
  <2>2. Share(u, i) = Abstract!UpTo(u, i) - 0
    BY <1>6 DEF Share
  <2> QED BY <1>2, <1>6, <2>1, <2>2, UnitAssumption
<1>7. CASE i # 1
  <2>1. i - 1 \in 1..(Len(b) + 1) /\ i \in Int /\ k \in Int
    BY <1>1, <1>2, <1>4, <1>7
  <2>2. Share(u, i) = Abstract!UpTo(u, i) - Abstract!UpTo(u, i - 1)
    BY <1>7 DEF Share
  <2>3. /\ Abstract!UpTo(u, i) = IF i < k THEN 0 ELSE Unit
        /\ Abstract!UpTo(u, i - 1) = IF i - 1 < k THEN 0 ELSE Unit
    BY <1>4, <1>5, <2>1
  <2> QED BY <2>1, <2>2, <2>3, UnitAssumption
<1> QED BY <1>6, <1>7

\* A batch adds to each bucket its increment, if it is not negative.
LEMMA ShareOfBatch ==
  ASSUME TypeOK, NEW u \in Updates, u.op = "ObserveMultiple",
         Len(u.batch.increments) = Len(bucket_boundaries_) + 1, NEW i \in Buckets
  PROVE  Share(u, i) = Counted(u.batch.increments[i])
<1> DEFINE x(j) == IF u.batch.increments[j] > 0 THEN u.batch.increments[j] ELSE 0
           s(m) == [j \in 1..m |-> x(j)]
<1>1. /\ u.batch.increments \in Seq(Int) /\ i \in Nat /\ i >= 1
      /\ \A j \in 1..i : u.batch.increments[j] \in Int
  <2>1. u.batch.increments \in Seq(Int)
    BY ArgumentsAssumption DEF Updates
  <2>2. i \in Nat /\ i >= 1 /\ \A j \in 1..i : j \in DOMAIN u.batch.increments
    BY <2>1, Counts DEF Buckets
  <2> QED BY <2>1, <2>2
<1>2. /\ Abstract!UpTo(u, i) = Abstract!Total(s(i))
      /\ Abstract!UpTo(u, i - 1) = Abstract!Total(s(i - 1))
  BY DEF Abstract!UpTo
<1>3. x(i) = Counted(u.batch.increments[i]) /\ x(i) \in Int /\ \A j \in 1..i : x(j) \in Int
  BY <1>1 DEF Counted
<1>4. s(i) = Append(s(i - 1), x(i)) /\ s(i - 1) \in Seq(Int) /\ Len(s(i - 1)) = i - 1
  <2> HIDE DEF x
  <2>1. s(i - 1) \in Seq(Int) /\ Len(s(i - 1)) = i - 1
    BY <1>1, <1>3
  <2>2. Append(s(i - 1), x(i)) =
          [j \in 1..((i - 1) + 1) |-> IF j = (i - 1) + 1 THEN x(i) ELSE s(i - 1)[j]]
    <3> HIDE DEF s
    <3> QED BY <1>3, <2>1, AppendIs
  <2>3. (i - 1) + 1 = i /\ \A j \in 1..i : (IF j = i THEN x(i) ELSE s(i - 1)[j]) = x(j)
    BY <1>1
  <2> QED BY <2>1, <2>2, <2>3
<1> HIDE DEF s, x
<1>5. /\ Abstract!Total(s(i - 1)) \in Int
      /\ Abstract!Total(s(i)) = Abstract!Total(s(i - 1)) + x(i)
  BY <1>3, <1>4, TotalGrows
<1>6. i = 1 => Abstract!Total(s(i - 1)) = 0
  <2>1. i = 1 => s(i - 1) = << >>
    BY <1>4
  <2> QED BY <2>1, TotalEmpty
<1> QED BY <1>2, <1>3, <1>5, <1>6 DEF Share

-----------------------------------------------------------------------------
(* The counters agree with the log                                          *)

Local(u) == <<pc[u], call[u], index[u], metric[u], reply[u]>>

\* The place of a thread in its call.
At(t) == Half(t) /\ Placed(t) /\ Collected(t)

LEMMA LogFit == ASSUME HInv PROVE TypeOK /\ FitsAll(log)
BY Counts DEF HInv, IInv, LogFits, FitsAll

\* Nothing that is computed from the log changes unless the log does.
LEMMA LogStays ==
  ASSUME UNCHANGED <<bucket_boundaries_, log>>
  PROVE  /\ Abstract!Sum' = Abstract!Sum
         /\ \A i : Abstract!Exact(i)' = Abstract!Exact(i) /\ Stored(i)' = Stored(i)
<1>1. Abstract!Sum' = Abstract!Sum
  BY SumIsSumOf
<1>2. \A i : Abstract!Exact(i)' = Abstract!Exact(i)
  BY DEF Abstract!Exact, Abstract!UpTo
<1> QED BY <1>1, <1>2 DEF Stored

\* An empty log counts nothing.
LEMMA LogEmpty ==
  ASSUME NEW Numbers, Arithmetic(Numbers), log = << >>
  PROVE  Abstract!Sum = Zero /\ \A i : Abstract!Exact(i) = 0 /\ Stored(i) = 0
<1>1. Abstract!Sum = Zero
  BY SumIsSumOf, SumEmpty
<1>2. \A i : Abstract!Exact(i) = 0
  <2> TAKE i
  <2>1. [n \in DOMAIN log |-> Abstract!UpTo(log[n], i)] = << >>
    OBVIOUS
  <2> QED BY <2>1, TotalEmpty DEF Abstract!Exact
<1> QED BY <1>1, <1>2 DEF Stored

LEMMA LogEmptied ==
  ASSUME NEW Numbers, Arithmetic(Numbers), log' = << >>
  PROVE  Abstract!Sum' = Zero /\ \A i : Abstract!Exact(i)' = 0 /\ Stored(i)' = 0
<1>1. Abstract!Sum' = Zero
  BY SumIsSumOf, SumEmpty
<1>2. \A i : Abstract!Exact(i)' = 0
  <2> TAKE i
  <2>1. \A f : [n \in DOMAIN log' |-> f[n]] = << >>
    OBVIOUS
  <2>2. Abstract!Exact(i)' = Abstract!Total(<< >>)
    BY DEF Abstract!Exact
  <2> QED BY <2>2, TotalEmpty
<1> QED BY <1>1, <1>2 DEF Stored

\* A thread that does not move stays in its place: whoever changes the counters,
\* the sum or the log holds the mutex.
LEMMA OthersStay ==
  ASSUME HInv, NEW t \in Threads, NEW u \in Threads \ {t}, Local(u)' = Local(u),
         bucket_boundaries_' = bucket_boundaries_, Len(bucket_counts_') = Len(bucket_counts_),
         \/ UNCHANGED <<bucket_counts_, sum_, log>>
         \/ pc[t] \in Critical
  PROVE  At(u)'
<1>1. UNCHANGED <<pc[u], call[u], index[u], metric[u], reply[u]>>
  BY DEF Local
<1>2. At(u)
  BY DEF HInv, At
<1>3. Placed(u)'
  BY <1>1, <1>2 DEF At, Placed, BucketIndices, Buckets
<1>4. CASE pc[t] \in Critical
  <2>1. pc[u] \notin Critical /\ pc'[u] = pc[u]
    BY <1>1, <1>4, NoOneAssumption DEF HInv, IInv, Exclusive
  <2>2. Half(u)'
    BY <2>1 DEF Half, Critical
  <2>3. Collected(u)'
    BY <2>1 DEF Collected, Critical
  <2> QED BY <1>3, <2>2, <2>3 DEF At
<1>5. CASE UNCHANGED <<bucket_counts_, sum_, log>>
  <2>1. Abstract!Sum' = Abstract!Sum
        /\ \A i : Abstract!Exact(i)' = Abstract!Exact(i) /\ Stored(i)' = Stored(i)
    BY <1>5, LogStays
  <2>2. Half(u)'
    BY <1>1, <1>2, <1>5, <2>1 DEF At, Half, Buckets
  <2>3. Collected(u)'
    BY <1>1, <1>2, <1>5, <2>1 DEF At, Collected
  <2> QED BY <1>3, <2>2, <2>3 DEF At
<1> QED BY <1>4, <1>5

\* Cutting off a fraction leaves whole observations, less than one short, and
\* none of what was whole already.
LEMMA WholeNearby ==
  ASSUME NEW x \in Nat, NEW k \in Nat, Unit * k <= x
  PROVE  /\ Whole(x) \in Nat /\ \E m \in 0..Whole(x) : Whole(x) = Unit * m
         /\ Unit * k <= Whole(x) /\ Whole(x) <= x /\ x < Whole(x) + Unit
         /\ x % Unit = 0 => Whole(x) = x
<1> DEFINE m == x \div Unit
           r == x % Unit
<1>1. Unit \in Nat /\ Unit > 0
  BY UnitAssumption
<1>2. m \in Nat /\ r \in 0..(Unit - 1) /\ x = Unit * m + r
  BY <1>1
<1> HIDE DEF m
<1>3. Whole(x) = Unit * m
  <2>1. Unit * m \in Int
    BY <1>1, <1>2
  <2> QED BY <1>2, <2>1 DEF Whole
<1>4. m <= Unit * m
  BY <1>1, <1>2
<1>5. k <= m
  <2>1. SUFFICES ASSUME m + 1 <= k PROVE FALSE
    BY <1>2
  <2>2. Unit * (m + 1) <= Unit * k
    BY <1>1, <1>2, <2>1
  <2>3. Unit * (m + 1) = Unit * m + Unit
    BY <1>1, <1>2
  <2> QED BY <1>1, <1>2, <2>2, <2>3
<1>6. Unit * k <= Unit * m
  BY <1>1, <1>2, <1>5
<1> QED
  <2>1. Unit * m \in Nat /\ Unit * k \in Nat
    BY <1>1, <1>2
  <2>2. m \in 0..Whole(x)
    BY <1>2, <1>3, <1>4, <2>1
  <2>3. Whole(x) <= x /\ x < Whole(x) + Unit /\ (r = 0 => Whole(x) = x)
    BY <1>1, <1>2, <1>3, <2>1
  <2> QED BY <1>3, <1>6, <2>1, <2>2, <2>3

-----------------------------------------------------------------------------
(* Each step keeps the agreement                                            *)

LEMMA SameLength ==
  ASSUME IInv, IInv', bucket_boundaries_' = bucket_boundaries_
  PROVE  Len(bucket_counts_') = Len(bucket_counts_) /\ Buckets' = Buckets
<1>1. Buckets' = Buckets
  BY DEF Buckets
<1>2. Len(bucket_boundaries_) \in Nat /\ Len(bucket_counts_) = Len(bucket_boundaries_) + 1
  BY Counts DEF IInv
<1>3. DOMAIN bucket_counts_' = 1..(Len(bucket_boundaries_) + 1)
  BY <1>1 DEF IInv, TypeOK, Buckets
<1> QED BY <1>1, <1>2, <1>3

\* A step that leaves the counters, the sum and the log alone.
LEMMA QuietStep ==
  ASSUME HInv, IInv', NEW t \in Threads, \A u \in Threads \ {t} : Local(u)' = Local(u),
         UNCHANGED <<bucket_boundaries_, bucket_counts_, sum_, log>>, ~Halfway(t), At(t)'
  PROVE  HInv'
<1>1. Len(bucket_counts_') = Len(bucket_counts_) /\ Buckets' = Buckets
  BY SameLength DEF HInv
<1>2. \A u \in Threads \ {t} : At(u)'
  BY <1>1, OthersStay
<1>3. Sorted' /\ LogFits'
  BY <1>1 DEF HInv, Sorted, LogFits
<1>4. Agrees'
  <2>1. CASE \E u \in Threads : Halfway(u)
    <3>1. PICK u \in Threads : Halfway(u)
      BY <2>1
    <3>2. u # t
      BY <3>1
    <3>3. pc'[u] = pc[u]
      BY <3>2 DEF Local
    <3> QED BY <3>1, <3>3 DEF Agrees, Halfway
  <2>2. CASE sum_ = Abstract!Sum /\ \A i \in Buckets : bucket_counts_[i] = Stored(i)
    BY <1>1, <2>2, LogStays DEF Agrees
  <2> QED BY <2>1, <2>2 DEF HInv, Agrees
<1> QED BY <1>2, <1>3, <1>4 DEF HInv, At

\* A step of the thread that holds the mutex.
LEMMA BusyStep ==
  ASSUME HInv, IInv', NEW t \in Threads, \A u \in Threads \ {t} : Local(u)' = Local(u),
         bucket_boundaries_' = bucket_boundaries_, pc[t] \in Critical, LogFits', At(t)', Agrees'
  PROVE  HInv'
<1>1. Len(bucket_counts_') = Len(bucket_counts_) /\ Buckets' = Buckets
  BY SameLength DEF HInv
<1>2. \A u \in Threads \ {t} : At(u)'
  BY <1>1, OthersStay
<1>3. Sorted'
  BY DEF HInv, Sorted
<1> QED BY <1>2, <1>3 DEF HInv, At

\* Nobody else is half way when a thread holds the mutex.
LEMMA Agreement ==
  ASSUME HInv, NEW t \in Threads, pc[t] \in Critical, ~Halfway(t)
  PROVE  /\ sum_ = Abstract!Sum
         /\ \A i \in Buckets : bucket_counts_[i] = Stored(i) /\ Stored(i) \in Nat
<1>1. \A u \in Threads : ~Halfway(u)
  <2>1. \A u \in Threads : pc[u] \in Critical => u = t
    BY DEF HInv, IInv, Exclusive
  <2> QED BY <2>1 DEF Halfway, Critical
<1>2. bucket_counts_ \in [Buckets -> Nat]
  BY DEF HInv, IInv, TypeOK
<1> QED BY <1>1, <1>2 DEF HInv, Agrees

LEMMA InitialAgrees ==
  ASSUME NEW Numbers, Arithmetic(Numbers), Init
  PROVE  HInv
<1>1. IInv /\ Sorted
  BY Initial, BoundariesSorted
<1>2. LogFits /\ log = << >>
  BY DEF Init, LogFits
<1>3. Agrees
  BY <1>2, LogEmpty DEF Init, Agrees
<1>4. \A t \in Threads : Half(t) /\ Placed(t) /\ Collected(t)
  BY DEF Init, Half, Placed, Collected
<1> QED BY <1>1, <1>2, <1>3, <1>4 DEF HInv

\* A step that moves t, and t only.
LEMMA Others ==
  ASSUME TypeOK, NEW t \in Threads,
         \/ pc' = pc \/ \E l : pc' = [pc EXCEPT ![t] = l],
         \/ call' = call \/ \E c : call' = [call EXCEPT ![t] = c],
         \/ index' = index \/ \E i : index' = [index EXCEPT ![t] = i],
         \/ metric' = metric \/ \E m : metric' = [metric EXCEPT ![t] = m],
         \/ reply' = reply \/ \E r : reply' = [reply EXCEPT ![t] = r]
  PROVE  \A u \in Threads \ {t} : Local(u)' = Local(u)
<1> TAKE u \in Threads \ {t}
<1>1. pc'[u] = pc[u] /\ call'[u] = call[u] /\ index'[u] = index[u] /\ metric'[u] = metric[u]
      /\ reply'[u] = reply[u]
  BY DEF TypeOK
<1> QED BY <1>1 DEF Local

LEMMA Typed == ASSUME HInv PROVE IInv /\ TypeOK /\ \A t \in Threads : At(t)
BY DEF HInv, IInv, At

LEMMA CallAgrees == ASSUME HInv, NEW t \in Threads, Call(t) PROVE HInv'
<1>1. PICK c \in Calls, entry \in {"find_bucket", "check_size", "lock"} :
        Invoke(t, c, entry) /\ (entry = "lock" => c.op # "Observe")
  <2>1. CASE InvokeObserve(t)
    <3>1. PICK v \in Values : Invoke(t, [op |-> "Observe", value |-> v], "find_bucket")
      BY <2>1 DEF InvokeObserve
    <3>2. [op |-> "Observe", value |-> v] \in Calls
      BY DEF Calls, Updates
    <3> QED BY <3>1, <3>2
  <2>2. CASE InvokeObserveMultiple(t)
    <3>1. PICK b \in Batches : Invoke(t, [op |-> "ObserveMultiple", batch |-> b], "check_size")
      BY <2>2 DEF InvokeObserveMultiple
    <3>2. [op |-> "ObserveMultiple", batch |-> b] \in Calls
      BY DEF Calls, Updates
    <3> QED BY <3>1, <3>2
  <2>3. CASE InvokeReset(t) \/ InvokeCollect(t)
    <3>1. Clear \in Calls /\ Clear.op # "Observe" /\ Gather \in Calls /\ Gather.op # "Observe"
      BY DEF Calls, Clear, Gather
    <3> QED BY <2>3, <3>1 DEF InvokeReset, InvokeCollect
  <2> QED BY <2>1, <2>2, <2>3 DEF Call
<1>2. /\ pc[t] = "idle" /\ pc' = [pc EXCEPT ![t] = entry] /\ call' = [call EXCEPT ![t] = c]
      /\ UNCHANGED <<bucket_boundaries_, bucket_counts_, sum_, log, index, metric, reply>>
  BY <1>1 DEF Invoke, Goto, data
<1>3. pc'[t] = entry /\ call'[t] = c
  BY <1>2, Typed DEF TypeOK
<1>4. At(t)
  BY Typed
<1>5. At(t)'
  <2>1. Placed(t)'
    BY <1>1, <1>2, <1>3, <1>4 DEF At, Placed
  <2> QED BY <1>3, <2>1 DEF At, Half, Collected
<1>6. \A u \in Threads \ {t} : Local(u)' = Local(u)
  BY <1>2, Others, Typed
<1>7. ~Halfway(t)
  BY <1>2 DEF Halfway
<1> QED BY <1>2, <1>5, <1>6, <1>7, QuietStep, InvokeStep, Typed

LEMMA LockAgrees == ASSUME HInv, NEW t \in Threads, Lock(t) PROVE HInv'
<1> DEFINE l == Entry(call[t].op)
<1>1. /\ pc[t] = "lock" /\ pc' = [pc EXCEPT ![t] = l]
      /\ UNCHANGED <<bucket_boundaries_, bucket_counts_, sum_, log, call, index, metric, reply>>
  BY DEF Lock, Goto, data
<1>2. call[t].op \in {"Observe", "ObserveMultiple", "Reset", "Collect"}
  <2>1. call[t] \in Calls /\ call[t] # NoCall
    BY <1>1, Typed DEF IInv, TypeOK, CallMatches
  <2> QED BY <2>1, Shapes
<1>3. /\ l \in {"add_sum", "reset_counts", "collect"}
      /\ l = "add_sum" <=> call[t].op \in {"Observe", "ObserveMultiple"}
      /\ l = "reset_counts" <=> call[t].op = "Reset"
      /\ l = "collect" <=> call[t].op = "Collect"
  BY <1>2 DEF Entry
<1> HIDE DEF l
<1>4. pc'[t] = l
  BY <1>1, Typed DEF TypeOK
<1>5. At(t)
  BY Typed
<1>6. At(t)'
  <2>1. l # "add_sum" => index[t] = 1
    BY <1>1, <1>3, <1>5 DEF At, Placed
  <2>2. metric[t] = NoMetric /\ reply[t] = NoReply
    BY <1>1, <1>5 DEF At, Placed
  <2>3. Placed(t)'
    BY <1>1, <1>3, <1>4, <1>5, <2>2 DEF At, Placed, BucketIndices, Buckets
  <2>4. Half(t)'
    <3>1. index \in [Threads -> Buckets] /\ Buckets' = Buckets
      BY <1>1, Typed DEF TypeOK, Buckets
    <3>2. l = "reset_counts" => \A i \in Buckets' : ~(i < index'[t])
      BY <1>1, <2>1, <3>1 DEF Buckets
    <3> QED BY <1>3, <1>4, <3>2 DEF Half
  <2>5. Collected(t)'
    <3>1. metric'[t].bucket = << >> /\ metric'[t].sample_count = 0
      BY <1>1, <2>2 DEF NoMetric
    <3>2. Len(metric'[t].bucket) = 0 /\ 1..0 = {}
      BY <3>1
    <3>3. l = "collect" => index'[t] = 1
      BY <1>1, <2>1
    <3>4. l # "collect_sum"
      BY <1>3
    <3> QED BY <1>4, <3>1, <3>2, <3>3, <3>4 DEF Collected
  <2> QED BY <2>3, <2>4, <2>5 DEF At
<1>7. \A u \in Threads \ {t} : Local(u)' = Local(u)
  BY <1>1, Others, Typed
<1>8. ~Halfway(t)
  BY <1>1 DEF Halfway
<1> QED BY <1>1, <1>6, <1>7, <1>8, QuietStep, LockStep, Typed

LEMMA UnlockAgrees == ASSUME HInv, NEW t \in Threads, Unlock(t) PROVE HInv'
<1>1. /\ pc[t] = "unlock" /\ pc' = [pc EXCEPT ![t] = "return"]
      /\ UNCHANGED <<bucket_boundaries_, bucket_counts_, sum_, log, call, index, metric, reply>>
  BY DEF Unlock, Goto, data
<1>2. pc'[t] = "return" /\ At(t)
  BY <1>1, Typed DEF TypeOK
<1>3. At(t)'
  BY <1>1, <1>2 DEF At, Placed, Half, Collected
<1>4. \A u \in Threads \ {t} : Local(u)' = Local(u)
  BY <1>1, Others, Typed
<1>5. ~Halfway(t)
  BY <1>1 DEF Halfway
<1> QED BY <1>1, <1>3, <1>4, <1>5, QuietStep, UnlockStep, Typed

LEMMA ReturnAgrees == ASSUME HInv, NEW t \in Threads, Return(t) PROVE HInv'
<1>1. /\ pc[t] = "return" /\ pc' = [pc EXCEPT ![t] = "idle"]
      /\ call' = [call EXCEPT ![t] = NoCall] /\ index' = [index EXCEPT ![t] = 1]
      /\ metric' = [metric EXCEPT ![t] = NoMetric] /\ reply' = [reply EXCEPT ![t] = NoReply]
      /\ UNCHANGED <<bucket_boundaries_, bucket_counts_, sum_, log>>
  BY DEF Return, Goto, data
<1>2. /\ pc'[t] = "idle" /\ index'[t] = 1 /\ metric'[t] = NoMetric /\ reply'[t] = NoReply
  BY <1>1, Typed DEF TypeOK
<1>3. At(t)'
  <2>1. Placed(t)'
    <3>1. NoMetric' = NoMetric
      BY DEF NoMetric
    <3> QED BY <1>2, <3>1 DEF Placed
  <2> QED BY <1>2, <2>1 DEF At, Half, Collected
<1>4. \A u \in Threads \ {t} : Local(u)' = Local(u)
  BY <1>1, Others, Typed
<1>5. ~Halfway(t)
  BY <1>1 DEF Halfway
<1> QED BY <1>1, <1>3, <1>4, <1>5, QuietStep, ReturnStep, Typed

LEMMA FindBucketAgrees == ASSUME HInv, NEW t \in Threads, FindBucket(t) PROVE HInv'
<1>1. PICK i \in BucketIndices(call[t].value) : index' = [index EXCEPT ![t] = i]
  BY DEF FindBucket
<1>2. /\ pc[t] = "find_bucket" /\ pc' = [pc EXCEPT ![t] = "lock"]
      /\ UNCHANGED <<bucket_boundaries_, bucket_counts_, sum_, log, call, metric, reply>>
      /\ call[t].op = "Observe"
  BY Typed DEF FindBucket, Goto, data, IInv, CallMatches
<1>3. pc'[t] = "lock" /\ index'[t] = i /\ At(t)
  BY <1>1, <1>2, Typed DEF TypeOK
<1>4. At(t)'
  <2>1. Placed(t)'
    BY <1>2, <1>3 DEF At, Placed, BucketIndices, Buckets
  <2> QED BY <1>3, <2>1 DEF At, Half, Collected
<1>5. \A u \in Threads \ {t} : Local(u)' = Local(u)
  BY <1>1, <1>2, Others, Typed
<1>6. ~Halfway(t)
  BY <1>2 DEF Halfway
<1> QED BY <1>2, <1>4, <1>5, <1>6, QuietStep, FindBucketStep, Typed

LEMMA CheckSizeAgrees == ASSUME HInv, NEW t \in Threads, CheckSize(t) PROVE HInv'
<1>1. /\ pc[t] = "check_size"
      /\ \/ pc' = [pc EXCEPT ![t] = "return"] /\ reply' = [reply EXCEPT ![t] = Thrown]
         \/ pc' = [pc EXCEPT ![t] = "lock"] /\ reply' = reply
      /\ UNCHANGED <<bucket_boundaries_, bucket_counts_, sum_, log, call, index, metric>>
      /\ call[t].op = "ObserveMultiple"
  BY Typed DEF CheckSize, Goto, data, IInv, CallMatches
<1>2. /\ (pc'[t] = "return" /\ reply'[t] = Thrown) \/ (pc'[t] = "lock" /\ reply' = reply)
      /\ At(t)
  <2>1. pc \in [Threads -> Labels] /\ DOMAIN reply = Threads
    BY Typed DEF TypeOK
  <2> QED BY <1>1, <2>1, Typed
<1>3. At(t)'
  <2>1. Placed(t)'
    BY <1>1, <1>2 DEF At, Placed, Thrown, NoReply
  <2> QED BY <1>2, <2>1 DEF At, Half, Collected
<1>4. \A u \in Threads \ {t} : Local(u)' = Local(u)
  BY <1>1, Others, Typed
<1>5. ~Halfway(t)
  BY <1>1 DEF Halfway
<1> QED BY <1>1, <1>3, <1>4, <1>5, QuietStep, CheckSizeStep, Typed

LEMMA AddSumAgrees == ASSUME HInv, NEW t \in Threads, AddSum(t) PROVE HInv'
<1>1. /\ pc[t] = "add_sum" /\ sum_' = Plus(sum_, Amount(call[t]))
      /\ \/ pc' = [pc EXCEPT ![t] = "count"] /\ call[t].op = "Observe"
         \/ pc' = [pc EXCEPT ![t] = "count_all"] /\ call[t].op # "Observe"
      /\ UNCHANGED <<bucket_boundaries_, bucket_counts_, log, call, index, metric, reply>>
  BY DEF AddSum, Goto, Amount
<1>2. /\ \/ pc'[t] = "count" /\ call[t].op = "Observe"
         \/ pc'[t] = "count_all" /\ call[t].op # "Observe"
      /\ At(t)
  <2>1. pc \in [Threads -> Labels]
    BY Typed DEF TypeOK
  <2> QED BY <1>1, <2>1, Typed
<1>3. /\ sum_ = Abstract!Sum
      /\ \A i \in Buckets : bucket_counts_[i] = Stored(i) /\ Stored(i) \in Nat
  BY <1>1, Agreement DEF Critical, Halfway
<1>4. /\ Abstract!Sum' = Abstract!Sum /\ Buckets' = Buckets
      /\ \A i : Stored(i)' = Stored(i)
  BY <1>1, LogStays DEF Buckets
<1>5. At(t)'
  <2>1. Placed(t)'
    BY <1>1, <1>2 DEF At, Placed, BucketIndices, Buckets
  <2>2. call[t].op # "Observe" => \A i \in Buckets : ~(i < index[t])
    BY <1>1, <1>2 DEF At, Placed, Buckets
  <2>3. Half(t)'
    <3>1. sum_' = Plus(Abstract!Sum', Amount(call'[t]))
      BY <1>1, <1>3, <1>4
    <3>2. \A i \in Buckets' : bucket_counts_'[i] = Stored(i)'
      BY <1>1, <1>3, <1>4
    <3>3. call[t].op # "Observe" => \A i \in Buckets' :
            bucket_counts_'[i] = Stored(i)' + (IF i < index'[t]
                                  THEN Counted(call'[t].batch.increments[i]) ELSE 0)
      BY <1>1, <1>3, <1>4, <2>2
    <3> QED BY <1>2, <3>1, <3>2, <3>3 DEF Half
  <2> QED BY <1>2, <2>1, <2>3 DEF At, Collected
<1>6. \A u \in Threads \ {t} : Local(u)' = Local(u)
  BY <1>1, Others, Typed
<1>7. Agrees' /\ LogFits'
  <2>1. Agrees'
    BY <1>2 DEF Agrees, Halfway
  <2> QED BY <1>1, <2>1 DEF HInv, LogFits
<1> QED BY <1>1, <1>5, <1>6, <1>7, BusyStep, AddSumStep, Typed DEF Critical

\* The call that is logged keeps the log fit.
LEMMA FitsLogged ==
  ASSUME HInv, NEW t \in Threads, log' = Append(log, call[t]), call[t] \in Updates,
         Len(bucket_counts_') = Len(bucket_counts_),
         call[t].op = "ObserveMultiple" => Fits(t)
  PROVE  LogFits'
<1>1. /\ DOMAIN log = 1..Len(log) /\ DOMAIN log' = 1..(Len(log) + 1) /\ Len(log) \in Nat
      /\ log'[Len(log) + 1] = call[t] /\ \A n \in 1..Len(log) : log'[n] = log[n]
  <2>1. log \in Seq(Updates)
    BY Typed DEF TypeOK
  <2> QED BY <2>1
<1>2. \A n \in 1..(Len(log) + 1) : n = Len(log) + 1 \/ n \in 1..Len(log)
  BY <1>1
<1>3. \A n \in DOMAIN log' : log'[n].op = "ObserveMultiple" =>
        Len(log'[n].batch.increments) = Len(bucket_counts_)
  <2> TAKE n \in DOMAIN log'
  <2>1. CASE n = Len(log) + 1
    BY <1>1, <2>1 DEF Fits
  <2>2. CASE n \in 1..Len(log)
    BY <1>1, <2>2 DEF HInv, LogFits
  <2> QED BY <1>1, <1>2, <2>1, <2>2
<1> QED BY <1>3 DEF LogFits

\* When an update is logged, the sum is the one of the log, and each bucket has
\* grown by the share of the update.
LEMMA UpdateAgrees ==
  ASSUME NEW Numbers, Arithmetic(Numbers), HInv, NEW t \in Threads, call[t] \in Updates,
         log' = Append(log, call[t]), bucket_boundaries_' = bucket_boundaries_, sum_' = sum_,
         call[t].op = "ObserveMultiple" => Fits(t),
         pc[t] \in {"count", "count_all"}, Buckets' = Buckets,
         \A i \in Buckets : bucket_counts_'[i] = Stored(i) + Share(call[t], i)
  PROVE  Agrees'
<1>1. sum_' = Abstract!Sum'
  <2>1. sum_ = Plus(Abstract!Sum, Amount(call[t]))
    BY Typed DEF At, Half
  <2>2. log \in Seq(Updates)
    BY Typed DEF TypeOK
  <2> QED BY <2>1, <2>2, SumIsSumOf, SumGrows
<1>2. \A i \in Buckets : Stored(i)' = Stored(i) + Share(call[t], i)
  <2>1. call[t].op = "ObserveMultiple" =>
          Len(call[t].batch.increments) = Len(bucket_boundaries_) + 1
    BY Counts, Typed DEF Fits
  <2> QED BY <2>1, LogFit, StoredGrows
<1> QED BY <1>1, <1>2 DEF Agrees

LEMMA CountAgrees ==
  ASSUME NEW Numbers, Arithmetic(Numbers), HInv, NEW t \in Threads, Count(t)
  PROVE  HInv'
<1> DEFINE k == index[t]
<1>1. /\ pc[t] = "count" /\ pc' = [pc EXCEPT ![t] = "unlock"]
      /\ bucket_counts_' = [bucket_counts_ EXCEPT ![k] = bucket_counts_[k] + Unit]
      /\ log' = Append(log, call[t]) /\ reply' = [reply EXCEPT ![t] = Done]
      /\ UNCHANGED <<bucket_boundaries_, sum_, call, index, metric>>
  BY DEF Count, Finish, Goto
<1>2. /\ pc'[t] = "unlock" /\ reply'[t] = Done /\ At(t)
      /\ bucket_counts_ \in [Buckets -> Nat]
  BY <1>1, Typed DEF TypeOK
<1>3. call[t].op = "Observe" /\ call[t] \in Updates
  BY <1>1, Shapes, Typed DEF IInv, TypeOK, CallMatches
<1>4. IInv' /\ Len(bucket_counts_') = Len(bucket_counts_) /\ Buckets' = Buckets
  <2>1. IInv'
    BY CountStep, Typed
  <2> QED BY <1>1, <2>1, SameLength, Typed
<1>5. k \in BucketIndices(call[t].value)
  BY <1>1, <1>2, <1>3 DEF At, Placed
<1>6. \A i \in Buckets : bucket_counts_'[i] = Stored(i) + Share(call[t], i)
  <2> TAKE i \in Buckets
  <2>1. Share(call[t], i) = IF i = k THEN Unit ELSE 0
    <3> HIDE DEF k
    <3> QED BY <1>3, <1>5, ShareOfObserve, Typed DEF HInv
  <2>2. bucket_counts_[i] = Stored(i) /\ bucket_counts_[i] \in Nat
    BY <1>1, <1>2 DEF At, Half
  <2>3. bucket_counts_'[i] = IF i = k THEN bucket_counts_[i] + Unit ELSE bucket_counts_[i]
    BY <1>1, <1>2
  <2> QED BY <2>1, <2>2, <2>3, UnitAssumption
<1>7. LogFits' /\ Agrees'
  BY <1>1, <1>3, <1>4, <1>6, FitsLogged, UpdateAgrees
<1>8. At(t)'
  <2>1. Placed(t)'
    BY <1>2 DEF Placed, Done, NoReply
  <2> QED BY <1>2, <2>1 DEF At, Half, Collected
<1>9. \A u \in Threads \ {t} : Local(u)' = Local(u)
  BY <1>1, Others, Typed
<1> QED BY <1>1, <1>4, <1>7, <1>8, <1>9, BusyStep DEF Critical

LEMMA CountAllAgrees ==
  ASSUME NEW Numbers, Arithmetic(Numbers), HInv, NEW t \in Threads, CountAll(t)
  PROVE  HInv'
<1> DEFINE k == index[t]
           add(i) == Counted(call[t].batch.increments[i])
           last == ~(k < Len(bucket_counts_))
<1>1. /\ pc[t] = "count_all"
      /\ bucket_counts_' = [bucket_counts_ EXCEPT ![k] = bucket_counts_[k] + add(k)]
      /\ \/ /\ ~last /\ index' = [index EXCEPT ![t] = k + 1]
            /\ UNCHANGED <<pc, reply, log>>
         \/ /\ last /\ pc' = [pc EXCEPT ![t] = "unlock"] /\ reply' = [reply EXCEPT ![t] = Done]
            /\ log' = Append(log, call[t]) /\ index' = index
      /\ UNCHANGED <<bucket_boundaries_, sum_, call, metric>>
  BY DEF CountAll, Finish, Goto
<1>2. /\ At(t) /\ bucket_counts_ \in [Buckets -> Nat] /\ pc \in [Threads -> Labels]
      /\ DOMAIN reply = Threads /\ index \in [Threads -> Buckets]
  BY Typed DEF TypeOK
<1>3. call[t].op = "ObserveMultiple" /\ call[t] \in Updates /\ Fits(t)
  BY <1>1, Shapes, Typed DEF IInv, TypeOK, CallMatches
<1>4. IInv' /\ Len(bucket_counts_') = Len(bucket_counts_) /\ Buckets' = Buckets
  <2>1. IInv'
    BY CountAllStep, Typed
  <2> QED BY <1>1, <2>1, SameLength, Typed
<1>5. \A i \in Buckets : add(i) \in Nat /\ Stored(i) \in Int
  <2> TAKE i \in Buckets
  <2>1. call[t].batch.increments \in Seq(Int)
    BY <1>3, ArgumentsAssumption DEF Updates
  <2>2. i \in DOMAIN call[t].batch.increments
    BY <1>3, <2>1, Counts, Typed DEF Fits
  <2>3. call[t].batch.increments[i] \in Int
    BY <2>1, <2>2
  <2>4. \A j \in Buckets : Abstract!Exact(j) \in Int
    BY LogFit, ExactCounts
  <2>5. i # 1 => i - 1 \in Buckets
    BY Counts, Typed DEF Buckets
  <2> QED BY <2>3, <2>4, <2>5 DEF Counted, Stored
<1> HIDE DEF add, k
<1>6. \A i \in Buckets : bucket_counts_'[i] = Stored(i) + (IF i < k + 1 THEN add(i) ELSE 0)
  <2> TAKE i \in Buckets
  <2>1. bucket_counts_[i] = Stored(i) + (IF i < k THEN add(i) ELSE 0)
    BY <1>1, <1>2 DEF At, Half, add, k
  <2>2. bucket_counts_'[i] = IF i = k THEN bucket_counts_[i] + add(i) ELSE bucket_counts_[i]
    BY <1>1, <1>2
  <2>3. i \in Nat /\ k \in Nat
    BY <1>2, Counts, Typed DEF Buckets, k
  <2> QED BY <1>5, <2>1, <2>2, <2>3
<1>7. \A u \in Threads \ {t} : Local(u)' = Local(u)
  BY <1>1, Others, Typed
<1>8. CASE ~last
  <2>1. /\ pc'[t] = "count_all" /\ index'[t] = k + 1
        /\ UNCHANGED <<pc, reply, log, call, bucket_boundaries_, sum_, metric>>
    BY <1>1, <1>2, <1>8
  <2>2. Abstract!Sum' = Abstract!Sum /\ \A i : Stored(i)' = Stored(i)
    BY <2>1, LogStays
  <2>3. At(t)'
    <3>1. Placed(t)'
      BY <1>1, <1>2, <2>1 DEF At, Placed
    <3>2. sum_' = Plus(Abstract!Sum', Amount(call'[t]))
      BY <1>1, <1>2, <2>1, <2>2 DEF At, Half
    <3>3. \A i \in Buckets' : bucket_counts_'[i] =
            Stored(i)' + (IF i < index'[t] THEN Counted(call'[t].batch.increments[i]) ELSE 0)
      BY <1>4, <1>6, <2>1, <2>2 DEF add
    <3>4. Half(t)'
      BY <2>1, <3>2, <3>3 DEF Half
    <3> QED BY <2>1, <3>1, <3>4 DEF At, Collected
  <2>4. LogFits' /\ Agrees'
    <3>1. LogFits'
      BY <1>4, <2>1 DEF HInv, LogFits
    <3> QED BY <2>1, <3>1 DEF Agrees, Halfway
  <2> QED BY <1>1, <1>4, <1>7, <2>3, <2>4, BusyStep DEF Critical
<1>9. CASE last
  <2>1. /\ pc'[t] = "unlock" /\ reply'[t] = Done /\ log' = Append(log, call[t])
        /\ UNCHANGED <<bucket_boundaries_, sum_>>
    BY <1>1, <1>2, <1>9
  <2>2. \A i \in Buckets : i < k + 1
    BY <1>2, <1>9, Counts, Typed DEF k, Buckets
  <2>3. \A i \in Buckets : bucket_counts_'[i] = Stored(i) + Share(call[t], i)
    <3> TAKE i \in Buckets
    <3>1. Len(call[t].batch.increments) = Len(bucket_boundaries_) + 1
      BY <1>3, Counts, Typed DEF Fits
    <3>2. Share(call[t], i) = add(i)
      BY <1>3, <3>1, ShareOfBatch, Typed DEF add
    <3> QED BY <1>6, <2>2, <3>2
  <2>4. LogFits' /\ Agrees'
    BY <1>1, <1>3, <1>4, <2>1, <2>3, FitsLogged, UpdateAgrees
  <2>5. At(t)'
    <3>1. Placed(t)'
      BY <2>1 DEF Placed, Done, NoReply
    <3> QED BY <2>1, <3>1 DEF At, Half, Collected
  <2> QED BY <1>1, <1>4, <1>7, <2>4, <2>5, BusyStep DEF Critical
<1> QED BY <1>8, <1>9

LEMMA ResetCountsAgrees == ASSUME HInv, NEW t \in Threads, ResetCounts(t) PROVE HInv'
<1> DEFINE k == index[t]
           last == ~(k < Len(bucket_counts_))
<1>1. /\ pc[t] = "reset_counts"
      /\ bucket_counts_' = [bucket_counts_ EXCEPT ![k] = 0]
      /\ \/ ~last /\ index' = [index EXCEPT ![t] = k + 1] /\ pc' = pc
         \/ last /\ pc' = [pc EXCEPT ![t] = "reset_sum"] /\ index' = index
      /\ UNCHANGED <<bucket_boundaries_, sum_, call, metric, reply, log>>
  BY DEF ResetCounts, Goto
<1>2. /\ At(t) /\ bucket_counts_ \in [Buckets -> Nat] /\ pc \in [Threads -> Labels]
      /\ index \in [Threads -> Buckets]
  BY Typed DEF TypeOK
<1>3. IInv' /\ Len(bucket_counts_') = Len(bucket_counts_) /\ Buckets' = Buckets
  <2>1. IInv'
    BY ResetCountsStep, Typed
  <2> QED BY <1>1, <2>1, SameLength, Typed
<1>4. \A i \in Buckets : i < k + 1 => bucket_counts_'[i] = 0
  <2> TAKE i \in Buckets
  <2>1. i < k => bucket_counts_[i] = 0
    BY <1>1, <1>2 DEF At, Half
  <2>2. bucket_counts_'[i] = IF i = k THEN 0 ELSE bucket_counts_[i]
    BY <1>1, <1>2
  <2>3. i \in Nat /\ k \in Nat
    BY <1>2, Counts, Typed DEF Buckets
  <2> QED BY <2>1, <2>2, <2>3
<1>5. \/ pc'[t] = "reset_counts" /\ index'[t] = k + 1
      \/ pc'[t] = "reset_sum" /\ \A i \in Buckets : i < k + 1
  <2>1. CASE ~last
    BY <1>1, <1>2, <2>1
  <2>2. CASE last
    <3>1. \A i \in Buckets : i < k + 1
      BY <1>2, <2>2, Counts, Typed DEF Buckets
    <3> QED BY <1>1, <1>2, <2>2, <3>1
  <2> QED BY <2>1, <2>2
<1> HIDE DEF k, last
<1>6. At(t)'
  <2>1. Placed(t)'
    BY <1>1, <1>2, <1>5 DEF At, Placed
  <2>2. Half(t)'
    BY <1>3, <1>4, <1>5 DEF Half
  <2> QED BY <1>5, <2>1, <2>2 DEF At, Collected
<1>7. LogFits' /\ Agrees'
  <2>1. LogFits'
    BY <1>1, <1>3 DEF HInv, LogFits
  <2> QED BY <1>5, <2>1 DEF Agrees, Halfway
<1>8. \A u \in Threads \ {t} : Local(u)' = Local(u)
  BY <1>1, Others, Typed
<1> QED BY <1>1, <1>3, <1>6, <1>7, <1>8, BusyStep DEF Critical

LEMMA ResetSumAgrees ==
  ASSUME NEW Numbers, Arithmetic(Numbers), HInv, NEW t \in Threads, ResetSum(t)
  PROVE  HInv'
<1>1. /\ pc[t] = "reset_sum" /\ pc' = [pc EXCEPT ![t] = "unlock"] /\ sum_' = Zero
      /\ log' = << >> /\ reply' = [reply EXCEPT ![t] = Done]
      /\ UNCHANGED <<bucket_boundaries_, bucket_counts_, call, index, metric>>
  BY DEF ResetSum, Finish, Goto
<1>2. pc'[t] = "unlock" /\ reply'[t] = Done /\ At(t)
  BY <1>1, Typed DEF TypeOK
<1>3. At(t)'
  <2>1. Placed(t)'
    BY <1>2 DEF Placed, Done, NoReply
  <2> QED BY <1>2, <2>1 DEF At, Half, Collected
<1>4. LogFits'
  BY <1>1 DEF LogFits
<1>5. Agrees'
  <2>1. \A i \in Buckets' : bucket_counts_'[i] = 0
    BY <1>1, <1>2 DEF At, Half, Buckets
  <2> QED BY <1>1, <2>1, LogEmptied DEF Agrees
<1>6. \A u \in Threads \ {t} : Local(u)' = Local(u)
  BY <1>1, Others, Typed
<1> QED BY <1>1, <1>3, <1>4, <1>5, <1>6, BusyStep, ResetSumStep, Typed DEF Critical

LEMMA Times ==
  ASSUME NEW a \in Nat, NEW b \in Nat
  PROVE  a * b \in Nat /\ (a + 1) * b = a * b + b
OBVIOUS

LEMMA Quotient ==
  ASSUME NEW x \in Nat, NEW k \in Nat, Unit * k <= x
  PROVE  k \in 0..(x \div Unit)
<1> DEFINE m == x \div Unit
           r == x % Unit
<1>1. Unit \in Nat /\ Unit > 0
  BY UnitAssumption
<1>2. m \in Nat /\ r \in 0..(Unit - 1) /\ x = Unit * m + r
  BY <1>1
<1> HIDE DEF m, r
<1>3. SUFFICES ASSUME m + 1 <= k PROVE FALSE
  BY <1>2 DEF m
<1>4. Unit * (m + 1) <= Unit * k
  BY <1>1, <1>2, <1>3
<1>5. Unit * (m + 1) = Unit * m + Unit
  BY <1>1, <1>2
<1> QED BY <1>1, <1>2, <1>4, <1>5

\* The next bucket of a scrape: the total is whole, not below the one before,
\* and one observation further from the exact count at most.
LEMMA NextTotal ==
  ASSUME HInv, NEW t \in Threads, pc[t] = "collect",
         NEW i, i = index[t], NEW n, n = metric[t].sample_count,
         NEW total, total = Whole(n + bucket_counts_[i])
  PROVE  /\ total \in Nat /\ \E k \in 0..total : total = Unit * k
         /\ n <= total /\ total <= Abstract!Exact(i) /\ Abstract!Exact(i) < total + i * Unit
         /\ (\A j \in 1..i : Abstract!Exact(j) % Unit = 0) => total = Abstract!Exact(i)
<1> DEFINE c == metric[t].bucket
           E(j) == Abstract!Exact(j)
<1>1. /\ i \in Buckets /\ i \in Nat /\ i >= 1 /\ c \in Seq(Nat) /\ n \in Nat
      /\ bucket_counts_[i] \in Nat /\ Unit \in Nat /\ Unit > 0
  BY Counts, Typed, UnitAssumption DEF TypeOK, Buckets
<1>2. /\ Len(c) = i - 1 /\ n = IF Len(c) = 0 THEN 0 ELSE c[Len(c)]
      /\ \A j \in 1..Len(c) :
           /\ \E k \in 0..c[j] : c[j] = Unit * k
           /\ c[j] <= E(j) /\ E(j) < c[j] + j * Unit
           /\ (\A m \in 1..j : E(m) % Unit = 0) => c[j] = E(j)
  BY Typed DEF At, Collected
<1>3. /\ bucket_counts_[i] = Stored(i)
      /\ \A j \in Buckets : E(j) \in Nat
  BY <1>1, Agreement, LogFit, ExactCounts DEF Critical, Halfway
<1>4. i # 1 => i - 1 \in Buckets
  BY <1>1, Counts, Typed DEF Buckets
<1>5. Stored(i) = E(i) - (IF i = 1 THEN 0 ELSE E(i - 1))
  BY DEF Stored
<1> HIDE DEF c, E
<1>0. (i - 1) * Unit \in Nat /\ i * Unit = (i - 1) * Unit + Unit
  <2>1. i - 1 \in Nat /\ (i - 1) + 1 = i
    BY <1>1
  <2> QED BY <1>1, <2>1, Times
<1> DEFINE before == IF i = 1 THEN 0 ELSE E(i - 1)
           x == n + bucket_counts_[i]
<1>6. /\ before \in Nat /\ n <= before /\ before < n + (i - 1) * Unit + (IF i = 1 THEN 1 ELSE 0)
      /\ \E k \in Nat : n = Unit * k
      /\ (\A j \in 1..i : E(j) % Unit = 0) => n = before
  <2>1. CASE i = 1
    <3>1. n = 0 /\ before = 0
      BY <1>2, <2>1
    <3>2. 0 = Unit * 0 /\ (i - 1) * Unit = 0
      BY <1>1, <2>1
    <3> QED BY <1>1, <2>1, <3>1, <3>2
  <2>2. CASE i # 1
    <3>1. /\ Len(c) = i - 1 /\ i - 1 \in 1..Len(c) /\ n = c[i - 1] /\ before = E(i - 1)
          /\ E(i - 1) \in Nat
      <4>1. Len(c) = i - 1 /\ i - 1 \in 1..Len(c) /\ Len(c) # 0
        BY ONLY <1>1, <1>2, <2>2
      <4> QED BY <1>2, <1>3, <1>4, <2>2, <4>1
    <3>2. /\ \E k \in 0..c[i - 1] : c[i - 1] = Unit * k
          /\ c[i - 1] <= E(i - 1) /\ E(i - 1) < c[i - 1] + (i - 1) * Unit
          /\ (\A m \in 1..(i - 1) : E(m) % Unit = 0) => c[i - 1] = E(i - 1)
      BY <1>2, <3>1
    <3>3. \A m \in 1..(i - 1) : m \in 1..i
      BY <1>1
    <3>4. (i - 1) * Unit \in Nat
      BY <1>0
    <3>5. \E k \in Nat : n = Unit * k
      <4>1. \A k \in 0..c[i - 1] : k \in Nat
        OBVIOUS
      <4> QED BY ONLY <3>1, <3>2, <4>1
    <3>6. (\A j \in 1..i : E(j) % Unit = 0) => n = before
      BY <3>1, <3>2, <3>3
    <3>7. before \in Nat /\ n <= before /\ before < n + (i - 1) * Unit + 0
      BY <1>1, <3>1, <3>2, <3>4
    <3> QED BY <2>2, <3>5, <3>6, <3>7
  <2> QED BY <2>1, <2>2
<1>7. PICK k \in Nat : n = Unit * k
  BY <1>6
<1>8. x \in Nat /\ Unit * k <= x
  <2>1. n <= n + bucket_counts_[i] /\ n + bucket_counts_[i] \in Nat
    BY <1>1
  <2> QED BY <1>7, <2>1
<1>9. /\ total \in Nat /\ \E m \in 0..total : total = Unit * m
      /\ n <= total /\ total <= x /\ x < total + Unit
      /\ x % Unit = 0 => total = x
  <2> HIDE DEF x
  <2>1. total = Whole(x)
    BY DEF x
  <2> QED BY <1>7, <1>8, <2>1, WholeNearby
<1>10. /\ E(i) \in Nat /\ x = n + E(i) - before
  BY <1>1, <1>3, <1>5, <1>6
<1> HIDE DEF x, before
<1>11. (i - 1) * Unit \in Nat /\ i * Unit = (i - 1) * Unit + Unit
  BY <1>0
<1>12. total <= E(i)
  BY <1>1, <1>6, <1>8, <1>9, <1>10
<1>13. E(i) < total + i * Unit
  <2> DEFINE y == (i - 1) * Unit
             z == i * Unit
  <2>1. /\ y \in Nat /\ z = y + Unit /\ (i = 1 => y = 0)
        /\ before < n + y + (IF i = 1 THEN 1 ELSE 0)
    <3>1. i = 1 => 0 * Unit = 0 /\ i - 1 = 0
      BY <1>1
    <3> QED BY <1>6, <1>11, <3>1
  <2> HIDE DEF y, z
  <2>2. before <= n + y
    BY <1>1, <1>6, <2>1
  <2>3. E(i) = x + before - n
    BY <1>1, <1>6, <1>8, <1>10
  <2>4. /\ total \in Nat /\ x \in Nat /\ n \in Nat /\ before \in Nat /\ Unit \in Nat
        /\ x < total + Unit
    BY <1>1, <1>6, <1>8, <1>9
  <2>5. E(i) < total + z
    BY ONLY <2>1, <2>2, <2>3, <2>4
  <2> QED BY <2>5 DEF z
<1>14. ASSUME \A j \in 1..i : E(j) % Unit = 0
       PROVE  total = E(i)
  <2>1. n = before /\ E(i) % Unit = 0
    BY <1>1, <1>6, <1>14
  <2>2. x = E(i)
    BY <1>1, <1>6, <1>10, <2>1
  <2> QED BY <1>9, <2>1, <2>2
<1> QED BY <1>9, <1>12, <1>13, <1>14 DEF E

LEMMA CollectBucketAgrees == ASSUME HInv, NEW t \in Threads, CollectBucket(t) PROVE HInv'
<1> DEFINE i == index[t]
           c == metric[t].bucket
           n == metric[t].sample_count
           total == Whole(n + bucket_counts_[i])
           last == ~(i < Len(bucket_counts_))
<1>1. /\ pc[t] = "collect"
      /\ metric' = [metric EXCEPT ![t] = [bucket |-> Append(c, total), sample_count |-> total,
                                         sample_sum |-> metric[t].sample_sum]]
      /\ \/ ~last /\ index' = [index EXCEPT ![t] = i + 1] /\ pc' = pc
         \/ last /\ pc' = [pc EXCEPT ![t] = "collect_sum"] /\ index' = index
      /\ UNCHANGED <<bucket_boundaries_, bucket_counts_, sum_, call, reply, log>>
  BY Typed DEF CollectBucket, Goto, data, TypeOK
<1>2. /\ At(t) /\ pc \in [Threads -> Labels] /\ index \in [Threads -> Buckets]
      /\ DOMAIN metric = Threads /\ c \in Seq(Nat) /\ n \in Nat
  BY Typed DEF TypeOK
<1>3. /\ total \in Nat /\ \E k \in 0..total : total = Unit * k
      /\ n <= total /\ total <= Abstract!Exact(i) /\ Abstract!Exact(i) < total + i * Unit
      /\ (\A j \in 1..i : Abstract!Exact(j) % Unit = 0) => total = Abstract!Exact(i)
  BY <1>1, NextTotal
<1>4. /\ metric'[t].bucket = Append(c, total) /\ metric'[t].sample_count = total
      /\ i \in Nat /\ i >= 1
  BY <1>1, <1>2, Counts, Typed DEF Buckets
<1>5. \/ pc'[t] = "collect" /\ index'[t] = i + 1
      \/ pc'[t] = "collect_sum" /\ i = Len(bucket_counts_)
  <2>1. last => i = Len(bucket_counts_)
    BY <1>2, Counts, Typed DEF Buckets
  <2> HIDE DEF i, last
  <2> QED BY <1>1, <1>2, <2>1
<1>6. /\ Len(c) = i - 1
      /\ \A j \in 1..Len(c) :
           /\ \E k \in 0..c[j] : c[j] = Unit * k
           /\ c[j] <= Abstract!Exact(j) /\ Abstract!Exact(j) < c[j] + j * Unit
           /\ j > 1 => c[j - 1] <= c[j]
           /\ c[j] <= n
           /\ (\A m \in 1..j : Abstract!Exact(m) % Unit = 0) => c[j] = Abstract!Exact(j)
      /\ n = IF Len(c) = 0 THEN 0 ELSE c[Len(c)]
  BY <1>1, <1>2 DEF At, Collected
<1> HIDE DEF i, c, n, total, last
<1> DEFINE d == Append(c, total)
<1>7. /\ Len(d) = i /\ d[i] = total /\ d \in Seq(Nat)
      /\ \A j \in 1..(i - 1) : d[j] = c[j] /\ c[j] \in Nat
  BY <1>2, <1>3, <1>4, <1>6
<1> HIDE DEF d
<1>8. ASSUME NEW j \in 1..i
      PROVE  /\ \E k \in 0..d[j] : d[j] = Unit * k
             /\ d[j] <= Abstract!Exact(j) /\ Abstract!Exact(j) < d[j] + j * Unit
             /\ j > 1 => d[j - 1] <= d[j]
             /\ d[j] <= total
             /\ (\A m \in 1..j : Abstract!Exact(m) % Unit = 0) => d[j] = Abstract!Exact(j)
  <2>1. CASE j = i
    <3>1. d[j] = total /\ total <= total
      BY <1>3, <1>7, <2>1
    <3>2. j > 1 => d[j - 1] <= d[j]
      <4>1. j > 1 => d[j - 1] = c[j - 1] /\ c[j - 1] = n
        BY <1>4, <1>6, <1>7, <2>1
      <4> QED BY <1>3, <1>4, <3>1, <4>1
    <3> QED BY <1>3, <2>1, <3>1, <3>2
  <2>2. CASE j # i
    <3>1. /\ j \in 1..Len(c) /\ j \in 1..(i - 1) /\ d[j] = c[j] /\ c[j] \in Nat
      BY <1>4, <1>6, <1>7, <2>2
    <3>2. j > 1 => d[j - 1] = c[j - 1]
      BY <1>4, <1>7, <3>1
    <3>3. c[j] <= total
      BY <1>2, <1>3, <1>6, <3>1
    <3> QED BY <1>6, <3>1, <3>2, <3>3
  <2> QED BY <2>1, <2>2
<1>9. At(t)'
  <2>1. Placed(t)'
    BY <1>1, <1>2, <1>5 DEF At, Placed
  <2>2. Half(t)'
    BY <1>5 DEF Half
  <2>3. Collected(t)'
    <3>1. \A j : Abstract!Exact(j)' = Abstract!Exact(j)
      BY <1>1, LogStays
    <3>2. metric'[t].bucket = d /\ metric'[t].sample_count = total
      BY <1>4 DEF d
    <3>3. Len(d) = IF pc'[t] = "collect" THEN index'[t] - 1 ELSE Len(bucket_counts_')
      BY <1>1, <1>4, <1>5, <1>7
    <3>4. total = IF Len(d) = 0 THEN 0 ELSE d[Len(d)]
      BY <1>4, <1>7
    <3>5. \A j \in 1..Len(d) :
             /\ \E k \in 0..d[j] : d[j] = Unit * k
             /\ d[j] <= Abstract!Exact(j)' /\ Abstract!Exact(j)' < d[j] + j * Unit
             /\ j > 1 => d[j - 1] <= d[j]
             /\ d[j] <= total
             /\ (\A m \in 1..j : Abstract!Exact(m)' % Unit = 0) => d[j] = Abstract!Exact(j)'
      BY <1>7, <1>8, <3>1
    <3> QED BY <3>2, <3>3, <3>4, <3>5 DEF Collected
  <2> QED BY <2>1, <2>2, <2>3 DEF At
<1>10. \A u \in Threads \ {t} : Local(u)' = Local(u)
  BY <1>1, Others, Typed
<1>11. ~Halfway(t)
  BY <1>1 DEF Halfway
<1> QED BY <1>1, <1>9, <1>10, <1>11, QuietStep, CollectBucketStep, Typed

LEMMA CollectSumAgrees == ASSUME HInv, NEW t \in Threads, CollectSum(t) PROVE HInv'
<1>1. /\ pc[t] = "collect_sum" /\ pc' = [pc EXCEPT ![t] = "unlock"]
      /\ \E m : metric' = [metric EXCEPT ![t] = m] /\ reply' = [reply EXCEPT ![t] = Metric(m)]
      /\ UNCHANGED <<bucket_boundaries_, bucket_counts_, sum_, call, index, log>>
  BY DEF CollectSum, Finish, Goto, data
<1>2. pc'[t] = "unlock" /\ reply'[t] # NoReply /\ At(t)
  <2>1. \A m : Metric(m) # NoReply
    BY DEF Metric, NoReply
  <2> QED BY <1>1, <2>1, Typed DEF TypeOK
<1>3. At(t)'
  <2>1. Placed(t)'
    BY <1>2 DEF Placed, NoReply
  <2> QED BY <1>2, <2>1 DEF At, Half, Collected
<1>4. \A u \in Threads \ {t} : Local(u)' = Local(u)
  BY <1>1, Others, Typed
<1>5. ~Halfway(t)
  BY <1>1 DEF Halfway
<1> QED BY <1>1, <1>3, <1>4, <1>5, QuietStep, CollectSumStep, Typed

LEMMA NextAgrees ==
  ASSUME NEW Numbers, Arithmetic(Numbers), HInv, [Next]_vars
  PROVE  HInv'
<1>1. CASE UNCHANGED vars
  <2>1. IInv'
    BY Inductive, Typed, <1>1
  <2>2. /\ UNCHANGED <<bucket_boundaries_, bucket_counts_, sum_, log>>
        /\ Buckets' = Buckets
        /\ \A t \in Threads : UNCHANGED <<pc[t], call[t], index[t], metric[t], reply[t]>>
    BY <1>1 DEF vars, Buckets
  <2>3. Abstract!Sum' = Abstract!Sum
        /\ \A i : Abstract!Exact(i)' = Abstract!Exact(i) /\ Stored(i)' = Stored(i)
    BY <2>2, LogStays
  <2>4. Sorted' /\ LogFits'
    BY <2>2 DEF HInv, Sorted, LogFits
  <2>5. Agrees'
    BY <2>2, <2>3 DEF HInv, Agrees, Halfway
  <2>6. \A t \in Threads : Half(t)'
    BY <2>2, <2>3 DEF HInv, Half
  <2>7. \A t \in Threads : Placed(t)'
    BY <2>2 DEF HInv, Placed, BucketIndices
  <2>8. \A t \in Threads : Collected(t)'
    BY <2>2, <2>3 DEF HInv, Collected
  <2> QED BY <2>1, <2>4, <2>5, <2>6, <2>7, <2>8 DEF HInv
<1>2. ASSUME NEW t \in Threads, Run(t) PROVE HInv'
  BY <1>2, FindBucketAgrees, CheckSizeAgrees, AddSumAgrees, CountAgrees, CountAllAgrees,
     ResetCountsAgrees, ResetSumAgrees, CollectBucketAgrees, CollectSumAgrees, UnlockAgrees,
     ReturnAgrees DEF Run
<1> QED BY <1>1, <1>2, CallAgrees, LockAgrees DEF Next

\* The counters, the sum and a scrape that is under way agree with the list of
\* updates, for any threads, boundaries without a NaN, values and batches.
THEOREM Agreeing ==
  ASSUME NEW CONSTANT Numbers, Arithmetic(Numbers)
  PROVE  Spec => []HInv
<1>1. Init => HInv
  BY InitialAgrees
<1>2. HInv /\ [Next]_vars => HInv'
  BY NextAgrees
<1> QED BY <1>1, <1>2, PTL DEF Spec

-----------------------------------------------------------------------------
(* Each step is one of the atomic histogram, or none                        *)

LEMMA InitRefines ==
  ASSUME NEW Numbers, Arithmetic(Numbers), Init
  PROVE  Abstract!Init
<1>1. Sorted
  BY BoundariesSorted
<1> QED BY <1>1 DEF Init, Sorted, Abstract!Init, NoCall, NoReply, Abstract!NoCall, Abstract!NoReply

Silent == UNCHANGED <<bucket_boundaries_, log, call, reply>>

\* Most steps do not show.
LEMMA SilentSteps ==
  ASSUME NEW t \in Threads,
         Lock(t) \/ FindBucket(t) \/ AddSum(t) \/ ResetCounts(t) \/ CollectBucket(t) \/ Unlock(t)
  PROVE  Silent
BY DEF Silent, Lock, FindBucket, AddSum, ResetCounts, CollectBucket, Unlock, data

LEMMA CallRefines ==
  ASSUME HInv, NEW t \in Threads, Call(t)
  PROVE  Abstract!Invoke(t) /\ bucket_boundaries_' = bucket_boundaries_
<1>1. PICK c \in Abstract!Requests, entry \in {"find_bucket", "check_size", "lock"} :
        Invoke(t, c, entry)
  <2>1. CASE InvokeObserve(t)
    <3>1. PICK v \in Values : Invoke(t, [op |-> "Observe", value |-> v], "find_bucket")
      BY <2>1 DEF InvokeObserve
    <3>2. [op |-> "Observe", value |-> v] \in Abstract!Requests
      BY DEF Abstract!Requests
    <3> QED BY <3>1, <3>2
  <2>2. CASE InvokeObserveMultiple(t)
    <3>1. PICK b \in Batches : Invoke(t, [op |-> "ObserveMultiple", batch |-> b], "check_size")
      BY <2>2 DEF InvokeObserveMultiple
    <3>2. [op |-> "ObserveMultiple", batch |-> b] \in Abstract!Requests
      BY DEF Abstract!Requests
    <3> QED BY <3>1, <3>2
  <2>3. CASE InvokeReset(t) \/ InvokeCollect(t)
    <3>1. Clear \in Abstract!Requests /\ Gather \in Abstract!Requests
      BY DEF Abstract!Requests, Clear, Gather
    <3> QED BY <2>3, <3>1 DEF InvokeReset, InvokeCollect
  <2> QED BY <2>1, <2>2, <2>3 DEF Call
<1>2. pc[t] = "idle" /\ call' = [call EXCEPT ![t] = c] /\ UNCHANGED <<bucket_boundaries_, log, reply>>
  BY <1>1 DEF Invoke
<1>3. call[t] = NoCall
  BY <1>2, Typed DEF IInv, CallMatches
<1> QED BY <1>2, <1>3 DEF Abstract!Invoke, NoCall, Abstract!NoCall

\* A thread in the middle of a call has no answer yet.
LEMMA Unanswered ==
  ASSUME HInv, NEW t \in Threads, pc[t] \notin {"unlock", "return"}
  PROVE  reply[t] = Abstract!NoReply
BY Typed DEF At, Placed, NoReply, Abstract!NoReply

LEMMA ReturnRefines ==
  ASSUME HInv, NEW t \in Threads, Return(t)
  PROVE  Abstract!Finish(t) /\ bucket_boundaries_' = bucket_boundaries_
<1>1. reply[t] # NoReply
  BY Typed DEF Return, At, Placed
<1> QED BY <1>1 DEF Return, Abstract!Finish, NoReply, Abstract!NoReply, NoCall, Abstract!NoCall

LEMMA CheckSizeRefines ==
  ASSUME HInv, NEW t \in Threads, CheckSize(t)
  PROVE  \/ Silent
         \/ Abstract!Refuse(t) /\ bucket_boundaries_' = bucket_boundaries_
<1>1. /\ pc[t] = "check_size" /\ call[t].op = "ObserveMultiple"
      /\ UNCHANGED <<bucket_boundaries_, log, call>>
  BY Typed DEF CheckSize, IInv, CallMatches
<1>2. CASE Len(call[t].batch.increments) # Len(bucket_counts_)
  <2>1. reply' = [reply EXCEPT ![t] = Thrown]
    BY <1>2 DEF CheckSize
  <2>2. Len(call[t].batch.increments) # Len(bucket_boundaries_) + 1
    BY <1>2, Counts, Typed
  <2>3. Abstract!Pending(t, "ObserveMultiple")
    BY <1>1, Unanswered DEF Abstract!Pending
  <2> QED BY <1>1, <2>1, <2>2, <2>3 DEF Abstract!Refuse, Abstract!Respond, Thrown
<1>3. CASE Len(call[t].batch.increments) = Len(bucket_counts_)
  BY <1>1, <1>3 DEF CheckSize, Silent
<1> QED BY <1>2, <1>3

LEMMA CountRefines ==
  ASSUME HInv, NEW t \in Threads, Count(t)
  PROVE  Abstract!Update(t) /\ bucket_boundaries_' = bucket_boundaries_
<1>1. /\ pc[t] = "count" /\ call[t].op = "Observe" /\ log' = Append(log, call[t])
      /\ reply' = [reply EXCEPT ![t] = Done] /\ UNCHANGED <<bucket_boundaries_, call>>
  BY Typed DEF Count, Finish, IInv, CallMatches
<1>2. Abstract!Pending(t, "Observe")
  BY <1>1, Unanswered DEF Abstract!Pending
<1> QED BY <1>1, <1>2 DEF Abstract!Update, Abstract!Respond, Done

LEMMA CountAllRefines ==
  ASSUME HInv, NEW t \in Threads, CountAll(t)
  PROVE  \/ Silent
         \/ Abstract!Update(t) /\ bucket_boundaries_' = bucket_boundaries_
<1>1. /\ pc[t] = "count_all" /\ call[t].op = "ObserveMultiple" /\ Fits(t)
      /\ UNCHANGED <<bucket_boundaries_, call>>
      /\ \/ UNCHANGED <<reply, log>>
         \/ log' = Append(log, call[t]) /\ reply' = [reply EXCEPT ![t] = Done]
  BY Typed DEF CountAll, Finish, IInv, CallMatches
<1>2. CASE UNCHANGED <<reply, log>>
  BY <1>1, <1>2 DEF Silent
<1>3. CASE log' = Append(log, call[t]) /\ reply' = [reply EXCEPT ![t] = Done]
  <2>1. Abstract!Pending(t, "ObserveMultiple")
    BY <1>1, Unanswered DEF Abstract!Pending
  <2>2. Len(call[t].batch.increments) = Len(bucket_boundaries_) + 1
    BY <1>1, Counts, Typed DEF Fits
  <2> QED BY <1>1, <1>3, <2>1, <2>2 DEF Abstract!Update, Abstract!Respond, Done
<1> QED BY <1>1, <1>2, <1>3

LEMMA ResetSumRefines ==
  ASSUME HInv, NEW t \in Threads, ResetSum(t)
  PROVE  Abstract!Reset(t) /\ bucket_boundaries_' = bucket_boundaries_
<1>1. /\ pc[t] = "reset_sum" /\ log' = << >> /\ reply' = [reply EXCEPT ![t] = Done]
      /\ UNCHANGED <<bucket_boundaries_, call>>
  BY DEF ResetSum, Finish
<1>2. call[t].op = "Reset"
  BY <1>1, Typed DEF At, Placed
<1>3. Abstract!Pending(t, "Reset")
  BY <1>1, <1>2, Unanswered DEF Abstract!Pending
<1> QED BY <1>1, <1>3 DEF Abstract!Reset, Abstract!Respond, Done

\* The buckets of a finished scrape are a report of the log.
LEMMA Reported ==
  ASSUME HInv, NEW t \in Threads, pc[t] = "collect_sum"
  PROVE  metric[t].bucket \in Abstract!Reports
<1> DEFINE c == metric[t].bucket
           n == Len(bucket_boundaries_) + 1
           E(i) == Abstract!Exact(i)
<1>1. c \in Seq(Nat) /\ n \in Nat /\ n >= 1 /\ Len(bucket_counts_) = n /\ Buckets = 1..n
  BY Counts, Typed DEF TypeOK, Buckets
<1>2. /\ Len(c) = n
      /\ \A i \in 1..n :
           /\ \E k \in 0..c[i] : c[i] = Unit * k
           /\ c[i] <= E(i) /\ E(i) < c[i] + i * Unit
           /\ i > 1 => c[i - 1] <= c[i]
           /\ c[i] <= c[n]
           /\ (\A j \in 1..i : E(j) % Unit = 0) => c[i] = E(i)
  <2>1. Collected(t)
    BY Typed DEF At
  <2>2. Len(c) = n /\ Len(c) # 0
    BY <1>1, <2>1 DEF Collected
  <2>3. metric[t].sample_count = c[n]
    BY <2>1, <2>2 DEF Collected
  <2> QED BY <2>1, <2>2, <2>3 DEF Collected
<1>3. \A i \in 1..n : E(i) \in Nat
  BY <1>1, LogFit, ExactCounts
<1> HIDE DEF c, E, n
<1> DEFINE most == E(n) \div Unit
           Wholes == {Unit * k : k \in 0..most}
<1>4. \A i \in 1..n : c[i] \in Wholes
  <2> TAKE i \in 1..n
  <2>1. PICK k \in 0..c[i] : c[i] = Unit * k
    BY <1>2
  <2>2. /\ k \in Nat /\ n \in 1..n /\ c[i] \in Nat /\ c[n] \in Nat /\ E(n) \in Nat
        /\ Unit * k <= E(n)
    <3>1. n \in 1..n
      BY <1>1
    <3>2. c[i] <= c[n] /\ c[n] <= E(n) /\ E(n) \in Nat
      BY <1>2, <1>3, <3>1
    <3>3. c[i] \in Nat /\ c[n] \in Nat
      BY <1>1, <1>2, <3>1
    <3>4. c[i] <= E(n)
      BY <3>2, <3>3
    <3> QED BY <2>1, <3>1, <3>2, <3>3, <3>4
  <2>3. k \in 0..most
    BY <2>2, Quotient
  <2> QED BY <2>1, <2>3
<1> HIDE DEF Wholes
<1>5. c \in [1..n -> Wholes]
  BY <1>1, <1>2, <1>4
<1>6. (\A i \in 1..n : E(i) % Unit = 0) => \A i \in 1..n : c[i] = E(i)
  <2>1. \A i \in 1..n : \A j \in 1..i : j \in 1..n
    BY <1>1
  <2> QED BY <1>2, <2>1
<1> QED BY <1>2, <1>5, <1>6 DEF Abstract!Reports, c, n, E, Wholes

LEMMA CollectSumRefines ==
  ASSUME HInv, NEW t \in Threads, CollectSum(t)
  PROVE  Abstract!Collect(t) /\ bucket_boundaries_' = bucket_boundaries_
<1> DEFINE c == metric[t].bucket
           m == [bucket |-> c, sample_count |-> c[Len(c)], sample_sum |-> Abstract!Sum]
<1>1. /\ pc[t] = "collect_sum" /\ UNCHANGED <<bucket_boundaries_, log, call>>
      /\ reply' = [reply EXCEPT ![t] = Metric([metric[t] EXCEPT !.sample_sum = sum_])]
  BY DEF CollectSum, Finish
<1>2. /\ metric[t] = [bucket |-> c, sample_count |-> metric[t].sample_count,
                     sample_sum |-> metric[t].sample_sum]
      /\ sum_ = Abstract!Sum
  <2>1. sum_ = Abstract!Sum
    BY <1>1, Agreement DEF Critical, Halfway
  <2> QED BY <2>1, Typed DEF TypeOK
<1>3. metric[t].sample_count = c[Len(c)]
  <2>1. Len(bucket_counts_) # 0
    BY Counts, Typed
  <2> QED BY <1>1, <2>1, Typed DEF At, Collected
<1>4. [metric[t] EXCEPT !.sample_sum = sum_] = m
  <2>1. \A r, s : r = [bucket |-> c, sample_count |-> c[Len(c)], sample_sum |-> s] =>
          [r EXCEPT !.sample_sum = sum_] =
            [bucket |-> c, sample_count |-> c[Len(c)], sample_sum |-> sum_]
    OBVIOUS
  <2> QED BY <1>2, <1>3, <2>1
<1>5. Abstract!Pending(t, "Collect")
  <2>1. call[t].op = "Collect"
    BY <1>1, Typed DEF At, Placed
  <2> QED BY <1>1, <2>1, Unanswered DEF Abstract!Pending
<1>6. c \in Abstract!Reports
  BY <1>1, Reported
<1>7. Abstract!Respond(t, [status |-> "metric", metric |-> m])
  BY <1>1, <1>4 DEF Abstract!Respond, Metric
<1> HIDE DEF c
<1> QED BY <1>1, <1>5, <1>6, <1>7 DEF Abstract!Collect

LEMMA NextRefines ==
  ASSUME HInv, [Next]_vars
  PROVE  [Abstract!Next]_Abstract!vars
<1>1. Silent => UNCHANGED Abstract!vars
  BY DEF Silent, Abstract!vars
<1>2. CASE UNCHANGED vars
  BY <1>2 DEF vars, Abstract!vars
<1>3. ASSUME NEW t \in Threads, Call(t) \/ Lock(t) \/ Run(t)
      PROVE  \/ Silent
             \/ /\ bucket_boundaries_' = bucket_boundaries_
                /\ \/ Abstract!Invoke(t) \/ Abstract!Finish(t) \/ Abstract!Update(t)
                   \/ Abstract!Refuse(t) \/ Abstract!Reset(t) \/ Abstract!Collect(t)
  BY <1>3, SilentSteps, CallRefines, ReturnRefines, CheckSizeRefines, CountRefines,
     CountAllRefines, ResetSumRefines, CollectSumRefines DEF Run
<1>4. CASE Next
  <2>1. PICK t \in Threads : Call(t) \/ Lock(t) \/ Run(t)
    BY <1>4 DEF Next
  <2> QED BY <1>1, <1>3, <2>1 DEF Abstract!Next
<1> QED BY <1>2, <1>4

\* A histogram is a list of updates whose operations are atomic: each call takes
\* effect at one instant, and a scrape reports the list as it is at one instant
\* (histogram.cc:38-100).
THEOREM Atomic ==
  ASSUME NEW CONSTANT Numbers, Arithmetic(Numbers)
  PROVE  Spec => Linearizable
<1>1. Init => Abstract!Init
  BY InitRefines
<1>2. HInv /\ [Next]_vars => [Abstract!Next]_Abstract!vars
  BY NextRefines
<1> QED BY <1>1, <1>2, Agreeing, PTL DEF Spec, Linearizable, Abstract!Spec
=============================================================================

---------------------------- MODULE Summary_proofs ----------------------------
(* Proofs about module Summary, for any number of threads, quantiles and age *)
(* buckets, and any max_age: the sliding window, and that a scrape is of one *)
(* moment.                                                                   *)
EXTENDS Summary, WellFoundedInduction, TLAPS

-----------------------------------------------------------------------------
(* The arithmetic of the ring                                               *)

LEMMA Multiples ==
  ASSUME NEW i \in Nat, NEW k \in Int
  PROVE  i * (k + 1) = i * k + i /\ i * k \in Int /\ (k >= 0 => i * k >= 0)
OBVIOUS

\* The buckets together live for max_age at most.
LEMMA Interval ==
  /\ rotation_interval_ \in Nat \ {0}
  /\ AgeBuckets \in Nat \ {0}
  /\ rotation_interval_ * AgeBuckets <= MaxAge
  /\ MaxAge \in Nat
BY WindowAssumption DEF rotation_interval_

\* How far a bucket is ahead, and when it was emptied.
LEMMA Places ==
  ASSUME current_bucket_ \in Ring, last_rotation_ \in Nat, NEW b \in Ring
  PROVE  /\ Ahead(b) \in 0..(AgeBuckets - 1)
         /\ Ahead(b) = 0 <=> b = current_bucket_
         /\ Edge(b) \in Int /\ Edge(b) <= last_rotation_
<1>1. Ahead(b) \in 0..(AgeBuckets - 1) /\ (Ahead(b) = 0 <=> b = current_bucket_)
  BY Interval DEF Ahead, Ring
<1> DEFINE k == AgeBuckets - 1 - Ahead(b)
<1>2. k \in Int /\ k >= 0
  BY <1>1, Interval
<1>3. rotation_interval_ * k \in Int /\ rotation_interval_ * k >= 0
  BY <1>2, Interval, Multiples
<1> QED BY <1>1, <1>3 DEF Edge

\* A turn of the ring: the current bucket becomes the last one and is emptied
\* now, the others move up and were emptied when they were.
LEMMA Turn ==
  ASSUME current_bucket_ \in Ring, last_rotation_ \in Nat, NEW b \in Ring,
         current_bucket_' = NextBucket,
         last_rotation_' = last_rotation_ + rotation_interval_
  PROVE  /\ current_bucket_' \in Ring
         /\ Ahead(b)' = IF b = current_bucket_ THEN AgeBuckets - 1 ELSE Ahead(b) - 1
         /\ Edge(b)' = IF b = current_bucket_ THEN last_rotation_' ELSE Edge(b)
<1>1. /\ current_bucket_' \in Ring
      /\ Ahead(b)' = IF b = current_bucket_ THEN AgeBuckets - 1 ELSE Ahead(b) - 1
  BY Interval DEF Ahead, Ring, NextBucket
<1>2. Ahead(b) \in 0..(AgeBuckets - 1)
  BY Places
<1>3. CASE b = current_bucket_
  <2>1. AgeBuckets - 1 - Ahead(b)' = 0
    BY <1>1, <1>3, Interval
  <2>2. rotation_interval_ * 0 = 0
    BY Interval
  <2>3. Edge(b)' = last_rotation_' - rotation_interval_ * 0
    BY <2>1 DEF Edge, rotation_interval_
  <2> QED BY <1>1, <1>3, <2>2, <2>3, Interval
<1>4. CASE b # current_bucket_
  <2> DEFINE k == AgeBuckets - 1 - Ahead(b)
  <2>1. AgeBuckets - 1 - Ahead(b)' = k + 1 /\ k \in Int
    BY <1>1, <1>2, <1>4, Interval
  <2>2. rotation_interval_ * (k + 1) = rotation_interval_ * k + rotation_interval_
        /\ rotation_interval_ * k \in Int
    BY <2>1, Interval, Multiples
  <2>3. Edge(b)' = last_rotation_' - rotation_interval_ * (k + 1)
    BY <2>1 DEF Edge, rotation_interval_
  <2>4. Edge(b) = last_rotation_ - rotation_interval_ * k
    BY DEF Edge
  <2> HIDE DEF k
  <2> QED BY <1>1, <1>4, <2>2, <2>3, <2>4, Interval
<1> QED BY <1>1, <1>3, <1>4

-----------------------------------------------------------------------------
(* The inductive invariant                                                  *)

LEMMA Initial == Init => IInv
<1> SUFFICES ASSUME Init PROVE IInv
  OBVIOUS
<1> USE DEF Init
<1>1. TypeOK
  <2>1. NoMetric \in [quantile : Seq([from : SUBSET Nat, at : Nat]),
                      sample_count : Nat, sample_sum : Int]
    BY DEF NoMetric
  <2> QED BY <2>1, Interval DEF TypeOK, Labels, Ring
<1>2. Exclusive
  BY NoOneAssumption DEF Exclusive, Critical
<1>3. Punctual /\ Sorted /\ Nested
  BY DEF Punctual, Sorted, Nested, Rotating
<1>4. WindowBounds
  BY DEF WindowBounds, NoMetric
<1> QED BY <1>1, <1>2, <1>3, <1>4 DEF IInv

LEMMA Elements ==
  ASSUME NEW S, NEW s \in Seq(S)
  PROVE  /\ \A n \in DOMAIN s : s[n] \in S
         /\ \A e \in S : Append(s, e) \in Seq(S)
OBVIOUS

\* Who is in the critical section is alone there.
LEMMA Alone ==
  ASSUME IInv, NEW t \in Threads, pc[t] \in Critical
  PROVE  \A u \in Threads \ {t} : pc[u] \notin Critical /\ ~Rotating(u)
BY DEF IInv, Exclusive, Rotating, Critical

\* Steps that leave the ring alone.
LEMMA RingStays ==
  ASSUME IInv, UNCHANGED <<ring, log>>, now' \in Nat, now' >= now,
         \A t \in Threads : Rotating(t)' =>
           clock'[t] = now \/ (Rotating(t) /\ clock'[t] = clock[t])
  PROVE  Sorted' /\ Nested'
<1>1. /\ UNCHANGED <<ckms_quantiles_, current_bucket_, last_rotation_, log>>
      /\ now \in Nat /\ last_rotation_ \in Nat
  BY DEF ring, IInv, TypeOK
<1>2. \A b \in Ring : Ahead(b)' = Ahead(b) /\ Edge(b)' = Edge(b)
  BY <1>1 DEF Ahead, Edge, rotation_interval_
<1>3. Nested'
  BY <1>1, <1>2 DEF IInv, Nested
<1>4. Sorted'
  <2> SUFFICES ASSUME NEW b \in Ring
               PROVE  /\ \A n \in ckms_quantiles_[b] : log[n].at >= Edge(b)
                      /\ \A n \in DOMAIN log \ ckms_quantiles_[b] :
                           /\ log[n].at <= Edge(b)
                           /\ last_rotation_ < now'
                           /\ \A t \in Threads : Rotating(t)' => last_rotation_ < clock'[t]
    BY <1>1, <1>2 DEF Sorted
  <2> QED BY <1>1 DEF IInv, Sorted
<1> QED BY <1>3, <1>4

\* Answers stay right until the next observation.
LEMMA AnswersStay ==
  ASSUME IInv, log' = log,
         \A t \in Threads : metric'[t].quantile \in {metric[t].quantile, << >>}
  PROVE  WindowBounds'
BY DEF IInv, WindowBounds, rotation_interval_

\* Everything but the place of a thread in its call.
LEMMA PunctualStays ==
  ASSUME IInv, UNCHANGED <<last_rotation_, log>>, now' \in Nat, now' >= now,
         \A t \in Threads :
           /\ Rotating(t)' => clock'[t] <= now' /\ clock'[t] = last_rotation_ + delta'[t]
           /\ pc'[t] \in {"insert", "get"} => ~Due(t)'
  PROVE  Punctual'
BY DEF IInv, TypeOK, Punctual, rotation_interval_

LEMMA TickStep == ASSUME IInv, Tick PROVE IInv'
<1>1. /\ now' = now + 1 /\ now \in Nat
      /\ UNCHANGED <<totals, ring, mutex_, pc, local, clock, delta, metric, log>>
  BY DEF Tick, IInv, TypeOK
<1>2. TypeOK'
  <2>1. /\ now' \in Nat
        /\ UNCHANGED <<count_, sum_, ckms_quantiles_, current_bucket_, last_rotation_, mutex_, pc,
                      call, value, clock, delta, metric, log>>
    BY <1>1 DEF totals, ring, local
  <2> QED BY <2>1 DEF IInv, TypeOK
<1>3. Exclusive'
  BY <1>1 DEF IInv, Exclusive, local
<1>4. \A t \in Threads : Rotating(t)' => Rotating(t) /\ clock'[t] = clock[t] /\ clock[t] <= now
  BY <1>1 DEF Rotating, IInv, Punctual
<1>5. Punctual'
  <2>1. \A t \in Threads : Rotating(t)' => clock'[t] <= now' /\ clock'[t] = last_rotation_ + delta'[t]
    BY <1>1, <1>4 DEF IInv, TypeOK, Punctual
  <2>2. \A t \in Threads : pc'[t] \in {"insert", "get"} => ~Due(t)'
    BY <1>1 DEF IInv, Punctual, Due, rotation_interval_
  <2> QED BY <1>1, <2>1, <2>2, PunctualStays DEF ring
<1>6. Sorted' /\ Nested'
  BY <1>1, <1>4, RingStays
<1>7. WindowBounds'
  BY <1>1, AnswersStay
<1> QED BY <1>2, <1>3, <1>5, <1>6, <1>7 DEF IInv

\* Steps of a thread that are about neither the ring nor the clock.
LEMMA QuietStep ==
  ASSUME IInv, TypeOK', Exclusive', UNCHANGED <<now, ring, log>>, NEW t \in Threads,
         \A u \in Threads \ {t} : pc'[u] = pc[u] /\ clock'[u] = clock[u] /\ delta'[u] = delta[u],
         \A u \in Threads : metric'[u].quantile \in {metric[u].quantile, << >>},
         Rotating(t)' => Rotating(t) /\ clock'[t] = clock[t] /\ delta'[t] = delta[t],
         pc'[t] \in {"insert", "get"} => ~Due(t)
  PROVE  IInv'
<1>1. /\ now' \in Nat /\ now' >= now /\ UNCHANGED <<last_rotation_, log>>
      /\ \A u \in Threads : Rotating(u)' =>
           Rotating(u) /\ clock'[u] = clock[u] /\ delta'[u] = delta[u]
  <2>1. now \in Nat /\ now' = now /\ UNCHANGED <<last_rotation_, log>>
    BY DEF IInv, TypeOK, ring
  <2> QED BY <2>1 DEF Rotating
<1>2. \A u \in Threads : pc'[u] \in {"insert", "get"} => ~Due(u)'
  <2> SUFFICES ASSUME NEW u \in Threads, pc'[u] \in {"insert", "get"} PROVE ~Due(u)'
    OBVIOUS
  <2>1. ~Due(u)
    BY DEF IInv, Punctual
  <2>2. delta'[u] = delta[u]
    BY <1>1 DEF Rotating
  <2> QED BY <2>1, <2>2 DEF Due, rotation_interval_
<1>3. Punctual'
  <2>1. \A u \in Threads : Rotating(u)' => clock'[u] <= now' /\ clock'[u] = last_rotation_ + delta'[u]
    BY <1>1 DEF IInv, Punctual
  <2> QED BY <1>1, <1>2, <2>1, PunctualStays
<1>4. Sorted' /\ Nested'
  BY <1>1, RingStays
<1>5. WindowBounds'
  BY AnswersStay
<1> QED BY <1>3, <1>4, <1>5 DEF IInv

LEMMA InvokeStep ==
  ASSUME IInv, NEW t \in Threads, InvokeObserve(t) \/ InvokeCollect(t)
  PROVE  IInv'
<1>1. /\ pc[t] = "idle" /\ pc' = [pc EXCEPT ![t] = "lock"]
      /\ UNCHANGED <<now, totals, ring, mutex_, clock, delta, metric, log>>
  BY DEF InvokeObserve, InvokeCollect, Goto
<1>2. PICK c \in {"Observe", "Collect"} :
        /\ call' = [call EXCEPT ![t] = c]
        /\ \/ \E v \in Values : value' = [value EXCEPT ![t] = v]
           \/ c = "Collect" /\ value' = value
  BY DEF InvokeObserve, InvokeCollect
<1>3. TypeOK'
  <2>1. UNCHANGED <<count_, sum_, ckms_quantiles_, current_bucket_, last_rotation_>>
    BY <1>1 DEF totals, ring
  <2>2. /\ pc' \in [Threads -> Labels] /\ value' \in [Threads -> Values \cup {0}]
        /\ call' \in [Threads -> {"none", "Observe", "Collect"}]
    BY <1>1, <1>2 DEF IInv, TypeOK, Labels
  <2> QED BY <1>1, <2>1, <2>2, SMTT(20) DEF IInv, TypeOK
<1>4. Exclusive'
  BY <1>1, <1>2 DEF IInv, TypeOK, Exclusive, Critical
<1> QED BY <1>1, <1>3, <1>4, QuietStep DEF IInv, TypeOK, Rotating

LEMMA LockStep == ASSUME IInv, NEW t \in Threads, Lock(t) PROVE IInv'
<1> DEFINE entry == IF call[t] = "Observe" THEN "count" ELSE NextQuantile(NoMetric)
<1>1. /\ pc[t] = "lock" /\ mutex_ = NoOne /\ mutex_' = t /\ pc' = [pc EXCEPT ![t] = entry]
      /\ UNCHANGED <<now, totals, ring, local, clock, delta, metric, log>>
      /\ UNCHANGED <<count_, sum_, ckms_quantiles_, current_bucket_, last_rotation_, call, value>>
  BY DEF Lock, Goto, totals, ring, local
<1>2. /\ entry \in {"count", "read_clock", "totals"}
      /\ entry = "count" <=> call[t] = "Observe"
  BY DEF NextQuantile
<1> HIDE DEF entry
<1>3. TypeOK'
  BY <1>1, <1>2 DEF IInv, TypeOK, Labels
<1>4. Exclusive'
  BY <1>1, <1>2, NoOneAssumption DEF IInv, TypeOK, Exclusive, Critical
<1> QED BY <1>1, <1>2, <1>3, <1>4, QuietStep DEF IInv, TypeOK, Rotating

LEMMA CountStep == ASSUME IInv, NEW t \in Threads, Count(t) PROVE IInv'
<1>1. /\ pc[t] = "count" /\ count_' = count_ + 1 /\ pc' = [pc EXCEPT ![t] = "add"]
      /\ UNCHANGED <<now, ring, clock, delta, metric, log, mutex_>>
      /\ UNCHANGED <<sum_, ckms_quantiles_, current_bucket_, last_rotation_, call, value>>
  BY DEF Count, Goto, ring, local
<1>2. TypeOK'
  BY <1>1 DEF IInv, TypeOK, Labels
<1>3. Exclusive'
  BY <1>1 DEF IInv, TypeOK, Exclusive, Critical
<1> QED BY <1>1, <1>2, <1>3, QuietStep DEF IInv, TypeOK, Rotating

LEMMA AddStep == ASSUME IInv, NEW t \in Threads, Add(t) PROVE IInv'
<1>1. /\ pc[t] = "add" /\ sum_' = sum_ + value[t] /\ pc' = [pc EXCEPT ![t] = "read_clock"]
      /\ UNCHANGED <<now, ring, clock, delta, metric, log, mutex_>>
      /\ UNCHANGED <<count_, ckms_quantiles_, current_bucket_, last_rotation_, call, value>>
  BY DEF Add, Goto, ring, local
<1>2. TypeOK'
  <2>1. value[t] \in Int
    <3>1. value[t] \in Values \cup {0}
      BY DEF IInv, TypeOK
    <3>2. \A v \in Values : v \in Int
      BY ValuesAssumption
    <3> QED BY <3>1, <3>2
  <2>2. sum_' \in Int /\ pc' \in [Threads -> Labels]
    BY <1>1, <2>1 DEF IInv, TypeOK, Labels
  <2> QED BY <1>1, <2>2 DEF IInv, TypeOK
<1>3. Exclusive'
  BY <1>1 DEF IInv, TypeOK, Exclusive, Critical
<1> QED BY <1>1, <1>2, <1>3, QuietStep DEF IInv, TypeOK, Rotating

LEMMA RotateDoneStep == ASSUME IInv, NEW t \in Threads, RotateDone(t) PROVE IInv'
<1> DEFINE next == IF call[t] = "Observe" THEN "insert" ELSE "get"
<1>1. /\ pc[t] = "rotate" /\ ~Due(t) /\ pc' = [pc EXCEPT ![t] = next]
      /\ UNCHANGED <<now, ring, clock, delta, metric, log, mutex_>>
      /\ UNCHANGED <<count_, sum_, ckms_quantiles_, current_bucket_, last_rotation_, call, value>>
  BY DEF RotateDone, Goto, totals, ring, local
<1>2. TypeOK'
  BY <1>1 DEF IInv, TypeOK, Labels
<1>3. Exclusive'
  BY <1>1 DEF IInv, TypeOK, Exclusive, Critical
<1> QED BY <1>1, <1>2, <1>3, QuietStep DEF IInv, TypeOK, Rotating

LEMMA CollectTotalsStep == ASSUME IInv, NEW t \in Threads, CollectTotals(t) PROVE IInv'
<1>1. /\ pc[t] = "totals" /\ pc' = [pc EXCEPT ![t] = "unlock"]
      /\ metric' = [metric EXCEPT ![t] = [@ EXCEPT !.sample_count = count_, !.sample_sum = sum_]]
      /\ UNCHANGED <<now, ring, clock, delta, log, mutex_>>
      /\ UNCHANGED <<count_, sum_, ckms_quantiles_, current_bucket_, last_rotation_, call, value>>
  BY DEF CollectTotals, Goto, totals, ring, local, IInv, TypeOK
<1>2. TypeOK'
  BY <1>1 DEF IInv, TypeOK, Labels
<1>3. Exclusive'
  BY <1>1 DEF IInv, TypeOK, Exclusive, Critical
<1> QED BY <1>1, <1>2, <1>3, QuietStep DEF IInv, TypeOK, Rotating

LEMMA UnlockStep == ASSUME IInv, NEW t \in Threads, Unlock(t) PROVE IInv'
<1>1. /\ pc[t] = "unlock" /\ mutex_' = NoOne /\ pc' = [pc EXCEPT ![t] = "idle"]
      /\ metric' = [metric EXCEPT ![t] = NoMetric] /\ call' = [call EXCEPT ![t] = "none"]
      /\ value' = [value EXCEPT ![t] = 0] /\ clock' = [clock EXCEPT ![t] = 0]
      /\ delta' = [delta EXCEPT ![t] = 0] /\ UNCHANGED <<now, ring, log>>
      /\ UNCHANGED <<count_, sum_, ckms_quantiles_, current_bucket_, last_rotation_>>
  BY DEF Unlock, Goto, totals, ring
<1>2. TypeOK'
  <2>1. NoMetric \in [quantile : Seq([from : SUBSET Nat, at : Nat]),
                      sample_count : Nat, sample_sum : Int]
    BY DEF NoMetric
  <2> QED BY <1>1, <2>1 DEF IInv, TypeOK, Labels
<1>3. Exclusive'
  BY <1>1, NoOneAssumption DEF IInv, TypeOK, Exclusive, Critical
<1>4. NoMetric.quantile = << >>
  BY DEF NoMetric
<1> QED BY <1>1, <1>2, <1>3, <1>4, QuietStep DEF IInv, TypeOK, Rotating

LEMMA ReadClockStep == ASSUME IInv, NEW t \in Threads, ReadClock(t) PROVE IInv'
<1>1. /\ pc[t] = "read_clock" /\ pc' = [pc EXCEPT ![t] = "rotate"]
      /\ clock' = [clock EXCEPT ![t] = now]
      /\ delta' = [delta EXCEPT ![t] = now - last_rotation_]
      /\ UNCHANGED <<now, ring, metric, log, mutex_>>
      /\ UNCHANGED <<count_, sum_, ckms_quantiles_, current_bucket_, last_rotation_, call, value>>
  BY DEF ReadClock, Goto, totals, ring, local
<1>2. /\ now \in Nat /\ last_rotation_ \in Nat /\ now - last_rotation_ \in Nat
      /\ pc'[t] = "rotate" /\ clock'[t] = now /\ delta'[t] = now - last_rotation_
      /\ \A u \in Threads \ {t} : pc'[u] = pc[u] /\ clock'[u] = clock[u] /\ delta'[u] = delta[u]
  BY <1>1 DEF IInv, TypeOK, Punctual
<1>3. TypeOK'
  BY <1>1, <1>2 DEF IInv, TypeOK, Labels
<1>4. Exclusive'
  BY <1>1, <1>2 DEF IInv, TypeOK, Exclusive, Critical
<1>5. \A u \in Threads \ {t} : ~Rotating(u)'
  <2>1. \A u \in Threads \ {t} : ~Rotating(u)
    BY <1>1, Alone DEF Critical
  <2> QED BY <1>2, <2>1 DEF Rotating
<1>6. Punctual'
  <2>1. \A u \in Threads : Rotating(u)' => clock'[u] <= now' /\ clock'[u] = last_rotation_ + delta'[u]
    BY <1>1, <1>2, <1>5
  <2>2. \A u \in Threads : pc'[u] \notin {"insert", "get"}
    BY <1>2, <1>5 DEF Rotating
  <2> QED BY <1>1, <1>2, <2>1, <2>2, PunctualStays
<1>7. Sorted' /\ Nested'
  BY <1>1, <1>2, <1>5, RingStays
<1>8. WindowBounds'
  BY <1>1, AnswersStay
<1> QED BY <1>3, <1>4, <1>6, <1>7, <1>8 DEF IInv

\* One turn of the ring. Every observation was made before the new rotation
\* time, so the bucket that has been emptied lacks nothing younger.
LEMMA RotateStep == ASSUME IInv, NEW t \in Threads, Rotate(t) PROVE IInv'
<1>1. /\ pc[t] = "rotate" /\ delta[t] > rotation_interval_
      /\ ckms_quantiles_' = [ckms_quantiles_ EXCEPT ![current_bucket_] = {}]
      /\ current_bucket_' = NextBucket
      /\ delta' = [delta EXCEPT ![t] = @ - rotation_interval_]
      /\ last_rotation_' = last_rotation_ + rotation_interval_
      /\ UNCHANGED <<now, count_, sum_, mutex_, pc, call, value, clock, metric, log>>
  BY DEF Rotate, Due, totals, local
<1>2. /\ last_rotation_ \in Nat /\ last_rotation_' \in Nat /\ delta[t] \in Nat
      /\ delta[t] - rotation_interval_ \in Nat /\ now \in Nat /\ clock[t] \in Nat
      /\ current_bucket_ \in Ring /\ delta'[t] = delta[t] - rotation_interval_
      /\ clock[t] = last_rotation_' + delta'[t] /\ delta'[t] > 0 /\ clock[t] <= now
  <2>1. /\ last_rotation_ \in Nat /\ delta[t] \in Nat /\ now \in Nat /\ clock[t] \in Nat
        /\ current_bucket_ \in Ring /\ delta'[t] = delta[t] - rotation_interval_
    BY <1>1 DEF IInv, TypeOK
  <2>2. clock[t] = last_rotation_ + delta[t] /\ clock[t] <= now
    BY <1>1 DEF IInv, Punctual, Rotating
  <2> QED BY <1>1, <2>1, <2>2, Interval
<1>3. /\ current_bucket_' \in Ring
      /\ \A b \in Ring :
           /\ Ahead(b)' = IF b = current_bucket_ THEN AgeBuckets - 1 ELSE Ahead(b) - 1
           /\ Edge(b)' = IF b = current_bucket_ THEN last_rotation_' ELSE Edge(b)
  BY <1>1, <1>2, Turn
<1>4. \A b \in Ring : ckms_quantiles_'[b] = IF b = current_bucket_ THEN {} ELSE ckms_quantiles_[b]
  BY <1>1 DEF IInv, TypeOK
<1>5. TypeOK'
  BY <1>1, <1>2, <1>3 DEF IInv, TypeOK
<1>6. Exclusive'
  BY <1>1 DEF IInv, Exclusive
<1>7. \A u \in Threads : Rotating(u) => u = t
  BY <1>1, Alone DEF Critical
<1>8. \A n \in DOMAIN log : log[n].at \in Nat /\ log[n].at <= last_rotation_'
  <2>1. \A n \in DOMAIN log : log[n] \in [value : Values, at : Nat]
    BY Elements DEF IInv, TypeOK
  <2> QED BY <1>1, <2>1 DEF IInv, Punctual
<1>9. Punctual'
  <2>1. last_rotation_' <= now
    BY <1>2
  <2>2. \A u \in Threads : Rotating(u)' => u = t
    BY <1>1, <1>7 DEF Rotating
  <2>3. \A n \in DOMAIN log : log[n].at <= last_rotation_' + rotation_interval_
    BY <1>2, <1>8, Interval
  <2>4. \A u \in Threads : pc'[u] \notin {"insert", "get"}
    BY <1>1, <1>7 DEF Rotating
  <2> QED BY <1>1, <1>2, <2>1, <2>2, <2>3, <2>4 DEF Punctual, rotation_interval_
<1>10. Sorted'
  <2> SUFFICES ASSUME NEW b \in Ring
               PROVE  /\ \A n \in ckms_quantiles_'[b] : log[n].at >= Edge(b)'
                      /\ \A n \in DOMAIN log \ ckms_quantiles_'[b] :
                           /\ log[n].at <= Edge(b)'
                           /\ last_rotation_' < now
                           /\ \A u \in Threads : Rotating(u)' => last_rotation_' < clock[u]
    BY <1>1 DEF Sorted
  <2>1. last_rotation_' < now /\ \A u \in Threads : Rotating(u)' => last_rotation_' < clock[u]
    BY <1>1, <1>2, <1>7 DEF Rotating
  <2>2. CASE b = current_bucket_
    BY <1>3, <1>4, <1>8, <2>1, <2>2
  <2>3. CASE b # current_bucket_
    BY <1>3, <1>4, <2>1, <2>3 DEF IInv, Sorted
  <2> QED BY <2>2, <2>3
<1>11. Nested'
  <2> SUFFICES ASSUME NEW b \in Ring, NEW c \in Ring, Ahead(b)' <= Ahead(c)'
               PROVE  ckms_quantiles_'[c] \subseteq ckms_quantiles_'[b]
    BY DEF Nested
  <2>1. Ahead(b) \in 0..(AgeBuckets - 1) /\ Ahead(c) \in 0..(AgeBuckets - 1)
        /\ AgeBuckets \in Nat
        /\ (Ahead(b) = 0 <=> b = current_bucket_) /\ (Ahead(c) = 0 <=> c = current_bucket_)
    BY <1>2, Places, Interval
  <2>2. c = current_bucket_ \/ (b # current_bucket_ /\ Ahead(b) <= Ahead(c))
    BY <1>3, <2>1
  <2> QED BY <1>4, <2>2 DEF IInv, Nested
<1>12. WindowBounds'
  BY <1>1, AnswersStay
<1> QED BY <1>5, <1>6, <1>9, <1>10, <1>11, <1>12 DEF IInv

\* An observation goes into every bucket. It was made after the last rotation,
\* so it is younger than every edge.
LEMMA InsertStep == ASSUME IInv, NEW t \in Threads, Insert(t) PROVE IInv'
<1> DEFINE entry == [value |-> value[t], at |-> clock[t]]
           last  == Len(log) + 1
<1>1. /\ pc[t] = "insert" /\ pc' = [pc EXCEPT ![t] = "unlock"] /\ log' = Append(log, entry)
      /\ ckms_quantiles_' = [b \in Ring |-> ckms_quantiles_[b] \cup {last}]
      /\ UNCHANGED <<now, count_, sum_, mutex_, current_bucket_, last_rotation_, call, value,
                    clock, delta, metric>>
  BY DEF Insert, Goto, totals, local
<1>2. /\ log \in Seq([value : Values, at : Nat]) /\ value[t] \in Values /\ clock[t] \in Nat
      /\ last_rotation_ \in Nat /\ delta[t] \in Nat /\ current_bucket_ \in Ring
  BY <1>1 DEF IInv, TypeOK, Exclusive
<1>3. /\ clock[t] = last_rotation_ + delta[t] /\ delta[t] <= rotation_interval_
      /\ last_rotation_ <= clock[t] /\ clock[t] <= last_rotation_ + rotation_interval_
  <2>1. clock[t] = last_rotation_ + delta[t] /\ ~(delta[t] > rotation_interval_)
    BY <1>1 DEF IInv, Punctual, Rotating, Due
  <2> QED BY <1>2, <2>1, Interval
<1>4. /\ log' \in Seq([value : Values, at : Nat]) /\ last \notin DOMAIN log
      /\ DOMAIN log' = DOMAIN log \cup {last} /\ log'[last].at = clock[t]
      /\ \A n \in DOMAIN log : log'[n] = log[n]
  <2>1. entry \in [value : Values, at : Nat]
    BY <1>2
  <2> HIDE DEF entry
  <2>2. /\ log' \in Seq([value : Values, at : Nat]) /\ last \notin DOMAIN log
        /\ DOMAIN log' = DOMAIN log \cup {last} /\ log'[last] = entry
        /\ \A n \in DOMAIN log : log'[n] = log[n]
    BY <1>1, <1>2, <2>1
  <2> QED BY <2>2 DEF entry
<1>5. \A b \in Ring : /\ ckms_quantiles_'[b] = ckms_quantiles_[b] \cup {last}
                      /\ ckms_quantiles_[b] \subseteq DOMAIN log
                      /\ Ahead(b)' = Ahead(b) /\ Edge(b)' = Edge(b)
                      /\ Edge(b) \in Int /\ Edge(b) <= last_rotation_
  BY <1>1, <1>2, Places DEF IInv, TypeOK, Ahead, Edge, rotation_interval_
<1> HIDE DEF last
<1>6. TypeOK'
  BY <1>1, <1>4, <1>5 DEF IInv, TypeOK, Labels
<1>7. Exclusive'
  BY <1>1 DEF IInv, TypeOK, Exclusive, Critical
<1>8. \A u \in Threads : ~Rotating(u)'
  <2>1. \A u \in Threads \ {t} : ~Rotating(u)
    BY <1>1, Alone DEF Critical
  <2> QED BY <1>1, <2>1 DEF Rotating, IInv, TypeOK
<1>9. Punctual'
  <2>1. \A n \in DOMAIN log' : log'[n].at <= last_rotation_ + rotation_interval_
    BY <1>3, <1>4 DEF IInv, Punctual
  <2>2. \A u \in Threads : pc'[u] \notin {"insert", "get"}
    BY <1>8 DEF Rotating
  <2> QED BY <1>1, <1>8, <2>1, <2>2 DEF IInv, Punctual, rotation_interval_
<1>10. Sorted'
  <2> SUFFICES ASSUME NEW b \in Ring
               PROVE  /\ \A n \in ckms_quantiles_'[b] : log'[n].at >= Edge(b)'
                      /\ \A n \in DOMAIN log' \ ckms_quantiles_'[b] :
                           /\ log'[n].at <= Edge(b)'
                           /\ last_rotation_' < now'
                           /\ \A u \in Threads : Rotating(u)' => last_rotation_' < clock'[u]
    BY DEF Sorted
  <2>1. log'[last].at >= Edge(b)
    BY <1>2, <1>3, <1>4, <1>5
  <2>2. ckms_quantiles_[b] \subseteq DOMAIN log
    BY <1>5
  <2>3. \A n \in ckms_quantiles_'[b] : log'[n].at >= Edge(b)
    BY <1>4, <1>5, <2>1, <2>2 DEF IInv, Sorted
  <2>4. \A n \in DOMAIN log' \ ckms_quantiles_'[b] : n \in DOMAIN log \ ckms_quantiles_[b]
    BY <1>4, <1>5
  <2>5. \A n \in DOMAIN log \ ckms_quantiles_[b] : log[n].at <= Edge(b) /\ last_rotation_ < now
    BY DEF IInv, Sorted
  <2> QED BY <1>1, <1>4, <1>5, <1>8, <2>3, <2>4, <2>5
<1>11. Nested'
  BY <1>5 DEF IInv, Nested
<1>12. WindowBounds'
  <2>1. \A u \in Threads : metric'[u].quantile = << >>
    <3>1. \A u \in Threads \ {t} : metric[u] = NoMetric
      BY <1>1, Alone DEF IInv, TypeOK, Exclusive, Critical, Labels
    <3>2. metric[t] = NoMetric
      BY <1>1 DEF IInv, Exclusive
    <3> QED BY <1>1, <3>1, <3>2 DEF NoMetric
  <2> QED BY <2>1 DEF WindowBounds
<1> QED BY <1>6, <1>7, <1>9, <1>10, <1>11, <1>12 DEF IInv

\* An answer is taken from the current bucket. What it lacks is older than the
\* edge of that bucket, which is age_buckets - 1 intervals before the last
\* rotation; what it holds is younger.
LEMMA GetStep == ASSUME IInv, NEW t \in Threads, Get(t) PROVE IInv'
<1> DEFINE answer == [from |-> ckms_quantiles_[current_bucket_], at |-> clock[t]]
           m      == [metric[t] EXCEPT !.quantile = Append(@, answer)]
<1>1. /\ pc[t] = "get" /\ pc' = [pc EXCEPT ![t] = NextQuantile(m)]
      /\ metric' = [metric EXCEPT ![t] = m] /\ NextQuantile(m) \in {"read_clock", "totals"}
      /\ UNCHANGED <<now, ring, mutex_, clock, delta, log>>
      /\ UNCHANGED <<count_, sum_, ckms_quantiles_, current_bucket_, last_rotation_, call, value>>
  BY DEF Get, NextQuantile, Goto, totals, ring, local
<1>2. /\ current_bucket_ \in Ring /\ last_rotation_ \in Nat /\ clock[t] \in Nat
      /\ delta[t] \in Nat /\ clock[t] = last_rotation_ + delta[t]
      /\ ~(delta[t] > rotation_interval_)
  BY <1>1 DEF IInv, TypeOK, Punctual, Rotating, Due
<1>3. /\ ckms_quantiles_[current_bucket_] \subseteq DOMAIN log
      /\ \A n \in DOMAIN log : log[n].at \in Nat
  <2>1. \A n \in DOMAIN log : log[n] \in [value : Values, at : Nat]
    BY Elements DEF IInv, TypeOK
  <2> QED BY <1>2, <2>1 DEF IInv, TypeOK
<1>4. /\ metric[t].quantile \in Seq([from : SUBSET Nat, at : Nat])
      /\ answer \in [from : SUBSET Nat, at : Nat]
      /\ m \in [quantile : Seq([from : SUBSET Nat, at : Nat]), sample_count : Nat,
               sample_sum : Int]
      /\ m.quantile = Append(metric[t].quantile, answer)
  <2>1. DOMAIN log \subseteq Nat
    BY SMTT(20) DEF IInv, TypeOK
  <2>2. answer \in [from : SUBSET Nat, at : Nat]
    BY <1>2, <1>3, <2>1, SMTT(20)
  <2>3. metric[t] \in [quantile : Seq([from : SUBSET Nat, at : Nat]), sample_count : Nat,
                      sample_sum : Int]
    BY DEF IInv, TypeOK
  <2>4. metric[t].quantile \in Seq([from : SUBSET Nat, at : Nat])
    BY <2>3
  <2>5. Append(metric[t].quantile, answer) \in Seq([from : SUBSET Nat, at : Nat])
    BY <2>2, <2>4, Elements
  <2> HIDE DEF answer
  <2> QED BY <2>2, <2>3, <2>4, <2>5
<1>5. TypeOK'
  <2> HIDE DEF m
  <2> QED BY <1>1, <1>4 DEF IInv, TypeOK, Labels
<1>6. Exclusive'
  <2> HIDE DEF m
  <2> QED BY <1>1 DEF IInv, TypeOK, Exclusive, Critical
<1>7. \A u \in Threads : ~Rotating(u)'
  <2>1. \A u \in Threads \ {t} : ~Rotating(u)
    BY <1>1, Alone DEF Critical
  <2> HIDE DEF m
  <2> QED BY <1>1, <2>1 DEF Rotating, IInv, TypeOK
<1>8. Punctual'
  <2>1. \A u \in Threads : pc'[u] \notin {"insert", "get"}
    BY <1>7 DEF Rotating
  <2> QED BY <1>1, <1>7, <2>1 DEF IInv, Punctual, rotation_interval_
<1>9. Sorted' /\ Nested'
  <2>1. now' \in Nat /\ now' >= now
    BY <1>1 DEF IInv, TypeOK
  <2> QED BY <1>1, <1>7, <2>1, RingStays
<1> DEFINE Fits(q) ==
             /\ \A n \in q.from : q.at - log[n].at <= MaxAge
             /\ \A n \in DOMAIN log :
                  q.at - log[n].at <= rotation_interval_ * (AgeBuckets - 1) => n \in q.from
<1>10. Fits(answer)
  <2> DEFINE span == rotation_interval_ * (AgeBuckets - 1)
  <2>1. /\ Ahead(current_bucket_) = 0 /\ span \in Int
        /\ Edge(current_bucket_) = last_rotation_ - span
        /\ span + rotation_interval_ <= MaxAge
    <3>1. Ahead(current_bucket_) = 0
      BY <1>2, Places
    <3>2. AgeBuckets - 1 \in Int /\ AgeBuckets - 1 - 0 = AgeBuckets - 1
          /\ (AgeBuckets - 1) + 1 = AgeBuckets
      BY Interval
    <3>3. rotation_interval_ * AgeBuckets = span + rotation_interval_ /\ span \in Int
      BY <3>2, Interval, Multiples
    <3> QED BY <3>1, <3>2, <3>3, Interval DEF Edge
  <2> HIDE DEF span
  <2>2. \A n \in answer.from : answer.at - log[n].at <= MaxAge
    <3>1. \A n \in answer.from : n \in DOMAIN log /\ log[n].at >= last_rotation_ - span
      BY <1>2, <1>3, <2>1 DEF IInv, Sorted
    <3> QED BY <1>2, <1>3, <2>1, <3>1, Interval
  <2>3. \A n \in DOMAIN log \ answer.from : answer.at - log[n].at > span
    <3>1. \A n \in DOMAIN log \ answer.from :
            log[n].at <= last_rotation_ - span /\ last_rotation_ < clock[t]
      BY <1>1, <1>2, <2>1 DEF IInv, Sorted, Rotating
    <3> QED BY <1>2, <1>3, <2>1, <3>1
  <2>4. \A n \in DOMAIN log : answer.at - log[n].at <= span => n \in answer.from
    BY <1>2, <1>3, <2>1, <2>3
  <2> QED BY <2>2, <2>4 DEF span
<1>11. WindowBounds'
  <2>1. \A u \in Threads : \A i \in DOMAIN metric[u].quantile : Fits(metric[u].quantile[i])
    BY DEF IInv, WindowBounds
  <2> HIDE DEF Fits, answer
  <2>2. \A i \in DOMAIN m.quantile : m.quantile[i] = answer \/
          (i \in DOMAIN metric[t].quantile /\ m.quantile[i] = metric[t].quantile[i])
    BY <1>4, SMTT(20)
  <2> HIDE DEF m
  <2>3. \A u \in Threads : \A i \in DOMAIN metric'[u].quantile : Fits(metric'[u].quantile[i])
    BY <1>1, <1>10, <2>1, <2>2 DEF IInv, TypeOK
  <2> USE DEF Fits
  <2> QED BY <1>1, <2>3 DEF WindowBounds, rotation_interval_
<1> QED BY <1>5, <1>6, <1>8, <1>9, <1>11 DEF IInv

LEMMA Inductive == IInv /\ [Next]_vars => IInv'
<1> SUFFICES ASSUME IInv, [Next]_vars PROVE IInv'
  OBVIOUS
<1>1. CASE UNCHANGED vars
  <2>1. UNCHANGED <<now, count_, sum_, ckms_quantiles_, current_bucket_, last_rotation_,
                    mutex_, pc, call, value, clock, delta, metric, log>>
    BY <1>1 DEF vars, totals, ring, local
  <2>2. TypeOK' /\ Exclusive'
    BY <2>1 DEF IInv, TypeOK, Exclusive
  <2>3. Punctual' /\ Sorted' /\ Nested'
    BY <2>1 DEF IInv, Punctual, Sorted, Nested, Rotating, Due, Ahead, Edge, rotation_interval_
  <2>4. WindowBounds'
    BY <2>1, AnswersStay
  <2> QED BY <2>2, <2>3, <2>4 DEF IInv
<1>2. ASSUME NEW t \in Threads, Run(t) PROVE IInv'
  BY <1>2, CountStep, AddStep, ReadClockStep, RotateStep, RotateDoneStep, InsertStep, GetStep,
     CollectTotalsStep, UnlockStep DEF Run
<1> QED BY <1>1, <1>2, TickStep, InvokeStep, LockStep DEF Next

\* The invariant of the summary, for any constants that fit together.
THEOREM Invariance == Spec => []IInv
BY Initial, Inductive, PTL DEF Spec

\* Every variable keeps its type; no loop variable of rotate goes below zero.
THEOREM TypeCorrect == Spec => []TypeOK
<1>1. IInv => TypeOK
  BY DEF IInv
<1> QED BY <1>1, Invariance, PTL

\* Quantiles come from the last age_buckets - 1 intervals at least and from the
\* last max_age at most (summary.h:59-73), for any number of buckets and any max_age.
THEOREM Window == Spec => []WindowBounds
<1>1. IInv => WindowBounds
  BY DEF IInv
<1> QED BY <1>1, Invariance, PTL

\* The bucket a rotation makes current holds nothing the one before did not
\* (time_window_quantiles.cc:30-43).
THEOREM Forgotten == Spec => NothingComesBack
<1>1. IInv /\ [Next]_vars =>
        [ckms_quantiles_'[current_bucket_'] \ ckms_quantiles_[current_bucket_]
           \subseteq {Len(log')} \ {Len(log)}]_vars
  <2> SUFFICES ASSUME IInv, Next
               PROVE  ckms_quantiles_'[current_bucket_'] \ ckms_quantiles_[current_bucket_]
                        \subseteq {Len(log')} \ {Len(log)}
    OBVIOUS
  <2>1. CASE UNCHANGED <<ckms_quantiles_, current_bucket_>>
    BY <2>1
  <2>2. ASSUME NEW t \in Threads, Insert(t)
        PROVE  /\ ckms_quantiles_'[current_bucket_'] = ckms_quantiles_[current_bucket_] \cup {Len(log')}
               /\ Len(log') # Len(log)
    <3> DEFINE entry == [value |-> value[t], at |-> clock[t]]
    <3>1. /\ log' = Append(log, entry) /\ log \in Seq([value : Values, at : Nat])
          /\ current_bucket_' = current_bucket_ /\ current_bucket_ \in Ring
          /\ ckms_quantiles_' = [b \in Ring |-> ckms_quantiles_[b] \cup {Len(log) + 1}]
      BY <2>2 DEF Insert, IInv, TypeOK
    <3> HIDE DEF entry
    <3>2. Len(log') = Len(log) + 1 /\ Len(log) \in Nat
      BY <3>1
    <3> QED BY <3>1, <3>2
  <2>3. ASSUME NEW t \in Threads, Rotate(t)
        PROVE  ckms_quantiles_'[current_bucket_'] \subseteq ckms_quantiles_[current_bucket_]
    <3>1. /\ current_bucket_ \in Ring /\ last_rotation_ \in Nat
          /\ current_bucket_' = NextBucket
          /\ last_rotation_' = last_rotation_ + rotation_interval_
          /\ ckms_quantiles_' = [ckms_quantiles_ EXCEPT ![current_bucket_] = {}]
      BY <2>3 DEF Rotate, IInv, TypeOK
    <3>2. current_bucket_' \in Ring
      BY <3>1, Turn
    <3>3. ckms_quantiles_'[current_bucket_'] \subseteq ckms_quantiles_[current_bucket_']
      BY <3>1, <3>2 DEF IInv, TypeOK
    <3>4. Ahead(current_bucket_) <= Ahead(NextBucket)
      BY <3>1, <3>2, Places, Interval
    <3> QED BY <3>1, <3>2, <3>3, <3>4 DEF IInv, Nested
  <2>4. \A t \in Threads : Insert(t) \/ Rotate(t) \/ UNCHANGED <<ckms_quantiles_, current_bucket_>>
                          \/ ~(InvokeObserve(t) \/ InvokeCollect(t) \/ Lock(t) \/ Run(t))
    BY DEF InvokeObserve, InvokeCollect, Lock, Run, Count, Add, ReadClock, RotateDone, Get,
           CollectTotals, Unlock, ring
  <2>5. CASE Tick
    BY <2>1, <2>5 DEF Tick, ring
  <2> QED BY <2>1, <2>2, <2>3, <2>4, <2>5 DEF Next
<1> QED BY <1>1, Invariance, PTL DEF Spec, NothingComesBack
-----------------------------------------------------------------------------
(* Folds over sequences                                                     *)

\* Induction over the natural numbers: a set of numbers that is not all of
\* them would leave out a smallest one.
LEMMA Induction ==
  ASSUME NEW S, 0 \in S, \A n \in Nat : n \in S => n + 1 \in S
  PROVE  Nat \subseteq S
<1> DEFINE T == Nat \ S
           R == {ss \in Nat \X Nat : ss[1] < ss[2]}
<1>1. SUFFICES ASSUME T # {} PROVE FALSE
  OBVIOUS
<1>2. IsWellFoundedOn(R, Nat)
  BY NatLessThanWellFounded DEF OpToRel
<1>3. \E x \in T : \A y \in T : <<y, x>> \notin R
  <2> HIDE DEF T, R
  <2>1. T \subseteq Nat
    BY DEF T
  <2> QED BY ONLY <1>1, <1>2, <2>1, WFMin
<1>4. \E x \in T : \A y \in T : ~(y < x)
  BY <1>3
<1> QED BY <1>4

\* The largest number of an interval, and of a set that ends with it.
LEMMA Largest ==
  ASSUME NEW n \in Nat, NEW S \in SUBSET (1..n), n \in S
  PROVE  Max(S) = n
<1>1. \A y \in S : n >= y
  OBVIOUS
<1>2. \A x \in S : (\A y \in S : x >= y) => x = n
  OBVIOUS
<1> QED BY <1>1, <1>2 DEF Max

\* A set of numbers below a bound has a largest one.
LEMMA HasLargest ==
  ASSUME NEW n \in Nat, NEW S \in SUBSET (1..n), S # {}
  PROVE  Max(S) \in S
<1> DEFINE T == {k \in Nat : \A R \in SUBSET (1..k) : R # {} => \E x \in R : \A y \in R : x >= y}
<1>1. 0 \in T
  <2>1. 1..0 = {}
    OBVIOUS
  <2> QED BY <2>1
<1>2. ASSUME NEW k \in Nat, k \in T
      PROVE  k + 1 \in T
  <2> SUFFICES ASSUME NEW R \in SUBSET (1..(k + 1)), R # {}
               PROVE  \E x \in R : \A y \in R : x >= y
    OBVIOUS
  <2>1. CASE k + 1 \in R
    BY <2>1
  <2>2. CASE k + 1 \notin R
    <3>1. R \in SUBSET (1..k)
      <4>1. \A x \in 1..(k + 1) : x # k + 1 => x \in 1..k
        OBVIOUS
      <4> QED BY <2>2, <4>1
    <3> QED BY <1>2, <3>1
  <2> QED BY <2>1, <2>2
<1>3. n \in T
  <2> HIDE DEF T
  <2> QED BY <1>1, <1>2, Induction
<1> QED BY <1>3 DEF Max

\* g folds op over the elements of seq at the places of any set.
Folds(g, N, base, op, seq) == \A s \in SUBSET (1..N) :
  g[s] = IF s = {} THEN base ELSE op[g[s \ {Max(s)}]][seq[Max(s)]]

LEMMA FoldExists ==
  ASSUME NEW N \in Nat, NEW A, NEW B, NEW base \in A, NEW op \in [A -> [B -> A]],
         NEW seq \in [1..N -> B]
  PROVE  \E g \in [SUBSET (1..N) -> A] : Folds(g, N, base, op, seq)
<1> DEFINE Fold(k, g) == \A s \in SUBSET (1..k) :
             g[s] = IF s = {} THEN base ELSE op[g[s \ {Max(s)}]][seq[Max(s)]]
           Done0(k) == \E g \in [SUBSET (1..k) -> A] : Fold(k, g)
           S == {k \in Nat : k <= N => Done0(k)}
<1>1. Done0(0)
  <2>1. SUBSET (1..0) = {{}}
    OBVIOUS
  <2> DEFINE g == [s \in SUBSET (1..0) |-> base]
  <2>2. g \in [SUBSET (1..0) -> A] /\ Fold(0, g)
    BY <2>1
  <2> QED BY <2>2
<1>2. ASSUME NEW k \in Nat, k + 1 <= N, Done0(k)
      PROVE  Done0(k + 1)
  <2>1. PICK g \in [SUBSET (1..k) -> A] : Fold(k, g)
    BY <1>2
  <2> DEFINE h == [s \in SUBSET (1..(k + 1)) |->
                     IF k + 1 \in s THEN op[g[s \ {k + 1}]][seq[k + 1]] ELSE g[s]]
  <2>2. \A s \in SUBSET (1..(k + 1)) :
          /\ s \ {k + 1} \in SUBSET (1..k)
          /\ k + 1 \notin s => s \in SUBSET (1..k)
    <3>1. \A x \in 1..(k + 1) : x # k + 1 => x \in 1..k
      OBVIOUS
    <3> QED BY <3>1
  <2>3. \A s \in SUBSET (1..k) : s \in SUBSET (1..(k + 1)) /\ k + 1 \notin s
    OBVIOUS
  <2>4. h \in [SUBSET (1..(k + 1)) -> A]
    <3>1. k + 1 \in 1..N
      <4>1. k \in Nat /\ k + 1 <= N /\ N \in Nat
        BY <1>2
      <4> QED BY ONLY <4>1
    <3>2. \A s \in SUBSET (1..(k + 1)) : k + 1 \in s => op[g[s \ {k + 1}]][seq[k + 1]] \in A
      <4>1. \A s \in SUBSET (1..(k + 1)) : g[s \ {k + 1}] \in A
        BY <2>2
      <4>2. seq[k + 1] \in B
        BY <3>1
      <4>3. \A x \in A : op[x][seq[k + 1]] \in A
        BY <4>2
      <4> QED BY <4>1, <4>3
    <3>3. \A s \in SUBSET (1..(k + 1)) : k + 1 \notin s => g[s] \in A
      BY <2>2
    <3> QED BY <3>2, <3>3
  <2>5. \A s \in SUBSET (1..k) : h[s] = g[s]
    BY <2>3
  <2>6. ASSUME NEW s \in SUBSET (1..(k + 1)), k + 1 \in s
        PROVE  h[s] = IF s = {} THEN base ELSE op[h[s \ {Max(s)}]][seq[Max(s)]]
    <3>1. Max(s) = k + 1
      BY <2>6, Largest
    <3>2. h[s \ {k + 1}] = g[s \ {k + 1}]
      BY <2>2, <2>5
    <3>3. h[s] = op[g[s \ {k + 1}]][seq[k + 1]]
      BY <2>6
    <3> HIDE DEF h
    <3> QED BY <2>6, <3>1, <3>2, <3>3
  <2>7. ASSUME NEW s \in SUBSET (1..(k + 1)), k + 1 \notin s
        PROVE  h[s] = IF s = {} THEN base ELSE op[h[s \ {Max(s)}]][seq[Max(s)]]
    <3>1. s \in SUBSET (1..k) /\ s \ {Max(s)} \in SUBSET (1..k)
      BY <2>2, <2>7
    <3>2. h[s] = g[s] /\ h[s \ {Max(s)}] = g[s \ {Max(s)}]
      BY <2>5, <3>1
    <3> HIDE DEF h
    <3> QED BY <2>1, <3>1, <3>2
  <2> HIDE DEF h
  <2>8. Fold(k + 1, h)
    BY <2>6, <2>7
  <2> QED BY <2>4, <2>8
<1>3. N \in S
  <2>1. 0 \in S
    BY <1>1
  <2>2. \A k \in Nat : k \in S => k + 1 \in S
    <3> HIDE DEF Done0
    <3> QED BY <1>2
  <2> HIDE DEF S
  <2> QED BY <2>1, <2>2, Induction
<1> QED
  <2>1. Done0(N)
    <3> HIDE DEF Done0
    <3> QED BY <1>3
  <2> QED BY <2>1 DEF Folds

\* The last number of an interval, and the rest.
LEMMA LastOf ==
  ASSUME NEW N \in Nat, NEW m \in 1..N
  PROVE  m \in Nat /\ 1..m \in SUBSET (1..N) /\ m \in 1..m /\ (1..m) \ {m} = 1..(m - 1)
<1>1. m \in Nat /\ m >= 1 /\ m <= N /\ N \in Nat
  OBVIOUS
<1>2. \A x \in Int : x \in 1..(m - 1) <=> x \in 1..m /\ x # m
  BY ONLY <1>1
<1>3. 1..m \subseteq Int /\ 1..(m - 1) \subseteq Int
  BY ONLY <1>1
<1>4. (1..m) \ {m} = 1..(m - 1)
  BY ONLY <1>2, <1>3
<1>5. 1..m \subseteq 1..N /\ m \in 1..m
  BY ONLY <1>1
<1> QED BY ONLY <1>1, <1>4, <1>5

\* Two results that start alike and go on alike are the same.
Alike(G, H, N) == G[0] = H[0] /\ \A m \in 1..N : G[m - 1] = H[m - 1] => G[m] = H[m]

LEMMA SameResult ==
  ASSUME NEW N \in Nat, NEW G, NEW H, Alike(G, H, N)
  PROVE  G[N] = H[N]
<1> DEFINE S == {k \in Nat : k <= N => G[k] = H[k]}
<1>1. 0 \in S
  BY DEF Alike
<1>2. ASSUME NEW k \in Nat, k \in S
      PROVE  k + 1 \in S
  <2>1. CASE k + 1 <= N
    <3>1. k + 1 \in 1..N /\ (k + 1) - 1 = k /\ k <= N
      BY <2>1
    <3>2. G[(k + 1) - 1] = H[(k + 1) - 1]
      BY <1>2, <3>1
    <3>3. G[k + 1] = H[k + 1]
      BY <3>1, <3>2 DEF Alike
    <3> QED BY <3>3
  <2> QED BY <2>1
<1> HIDE DEF S
<1>3. Nat \subseteq S
  BY <1>1, <1>2, Induction
<1> QED BY <1>3 DEF S

-----------------------------------------------------------------------------
(* The total over the observations                                          *)

Observations == [value : Values, at : Nat]

\* A total is summed up from left to right.
LEMMA TotalRuns ==
  ASSUME NEW s \in Seq(Observations)
  PROVE  \E G : /\ G[0] = 0
                /\ \A m \in 1..Len(s) : G[m] = G[m - 1] + s[m].value
                /\ Total(s) = G[Len(s)]
<1> DEFINE N == Len(s)
           iter == CHOOSE f : f = [S \in SUBSET DOMAIN s |->
                     IF S = {} THEN 0 ELSE f[S \ {Max(S)}] + s[Max(S)].value]
<1>1. Total(s) = iter[DOMAIN s]
  BY DEF Total, FoldLeft, MapThenFoldSet, Max
<1>2. N \in Nat /\ DOMAIN s = 1..N /\ s \in [1..N -> Observations]
  OBVIOUS
<1> HIDE DEF N
<1> DEFINE op == [x \in Int |-> [o \in Observations |-> x + o.value]]
           base == 0
           Numbers == Int
<1>3. /\ op \in [Numbers -> [Observations -> Numbers]]
      /\ \A x \in Int, o \in Observations : op[x][o] = x + o.value
  <2>1. \A x \in Int, o \in Observations : x + o.value \in Int
    <3>1. \A o \in Observations : o.value \in Int
      BY ValuesAssumption DEF Observations
    <3> QED BY <3>1
  <2> QED BY <2>1
<1>4. base \in Numbers
  OBVIOUS
<1> HIDE DEF op
<1>5. PICK g \in [SUBSET (1..N) -> Numbers] : Folds(g, N, base, op, s)
  <2> HIDE DEF base, Numbers
  <2> QED BY ONLY <1>2, <1>3, <1>4, FoldExists
<1>6. \A S \in SUBSET (1..N) : g[S] = IF S = {} THEN 0 ELSE g[S \ {Max(S)}] + s[Max(S)].value
  <2> TAKE S \in SUBSET (1..N)
  <2>1. CASE S # {}
    <3>1. Max(S) \in 1..N
      BY <1>2, <2>1, HasLargest
    <3>2. g[S \ {Max(S)}] \in Int /\ s[Max(S)] \in Observations
      BY <1>2, <3>1
    <3> QED BY <1>3, <1>5, <2>1, <3>2 DEF Folds
  <2> QED BY <1>5, <2>1 DEF Folds
<1>7. \E f : f = [S \in SUBSET DOMAIN s |->
                    IF S = {} THEN 0 ELSE f[S \ {Max(S)}] + s[Max(S)].value]
  BY <1>2, <1>6
<1>8. iter = [S \in SUBSET DOMAIN s |->
                IF S = {} THEN 0 ELSE iter[S \ {Max(S)}] + s[Max(S)].value]
  BY <1>7
<1> HIDE DEF iter
<1> DEFINE G == [m \in 0..N |-> iter[1..m]]
<1>9. G[0] = 0
  <2>1. 1..0 = {} /\ {} \in SUBSET DOMAIN s
    OBVIOUS
  <2>2. iter[1..0] = 0
    BY <1>8, <2>1
  <2> QED BY <1>2, <2>2
<1>10. \A m \in 1..N : G[m] = G[m - 1] + s[m].value
  <2> SUFFICES ASSUME NEW m \in 1..N PROVE G[m] = G[m - 1] + s[m].value
    OBVIOUS
  <2>1. 1..m \in SUBSET DOMAIN s /\ m \in 1..m /\ (1..m) \ {m} = 1..(m - 1) /\ m \in Nat
    BY <1>2, LastOf
  <2>2. Max(1..m) = m
    BY <1>2, <2>1, Largest
  <2>3. iter[1..m] = iter[1..(m - 1)] + s[m].value
    BY ONLY <1>8, <2>1, <2>2
  <2>4. G[m] = iter[1..m] /\ G[m - 1] = iter[1..(m - 1)]
    BY <1>2
  <2> HIDE DEF G
  <2> QED BY <2>3, <2>4
<1>11. Total(s) = G[N]
  BY <1>1, <1>2
<1> HIDE DEF G
<1> QED BY <1>9, <1>10, <1>11 DEF N

LEMMA TotalEmpty == Total(<< >>) = 0
<1>1. << >> \in Seq(Observations) /\ Len(<< >>) = 0
  OBVIOUS
<1>2. PICK G : G[0] = 0 /\ Total(<< >>) = G[Len(<< >>)]
  BY <1>1, TotalRuns
<1> QED BY <1>1, <1>2

\* One observation more.
LEMMA TotalGrows ==
  ASSUME NEW s \in Seq(Observations), NEW o \in Observations
  PROVE  Total(Append(s, o)) = Total(s) + o.value
<1> DEFINE N == Len(s)
           r == Append(s, o)
<1>1. /\ N \in Nat /\ r \in Seq(Observations) /\ Len(r) = N + 1 /\ r[N + 1] = o
      /\ \A m \in 1..N : r[m] = s[m]
  OBVIOUS
<1>2. PICK G : G[0] = 0 /\ (\A m \in 1..N : G[m] = G[m - 1] + s[m].value) /\ Total(s) = G[N]
  BY TotalRuns
<1> HIDE DEF N, r
<1>3. PICK H : /\ H[0] = 0
               /\ \A m \in 1..(N + 1) : H[m] = H[m - 1] + r[m].value
               /\ Total(r) = H[N + 1]
  BY <1>1, TotalRuns
<1>4. /\ N + 1 \in 1..(N + 1) /\ (N + 1) - 1 = N
      /\ \A m \in 1..N : m \in 1..(N + 1)
  BY <1>1
<1>5. Alike(G, H, N)
  BY <1>1, <1>2, <1>3, <1>4 DEF Alike
<1>6. G[N] = H[N]
  BY <1>1, <1>5, SameResult
<1>7. H[N + 1] = H[N] + o.value
  BY <1>1, <1>3, <1>4
<1> QED BY <1>2, <1>3, <1>6, <1>7 DEF r

-----------------------------------------------------------------------------
(* A scrape is of one moment                                                *)

\* What TInv says of one thread.
Fills(t) ==
  /\ Counted(t) => count_ = Len(log) + 1
  /\ Added(t) => sum_ = Total(log) + value[t]
  /\ call[t] # "Observe" =>
       /\ pc[t] \in {"read_clock", "rotate", "get"} => Len(metric[t].quantile) < Quantiles
       /\ pc[t] = "totals" => Len(metric[t].quantile) = Quantiles
  /\ pc[t] = "unlock" /\ call[t] = "Collect" =>
       /\ metric[t].sample_count = Len(log)
       /\ metric[t].sample_sum = Total(log)
       /\ Len(metric[t].quantile) = Quantiles

LEMMA PerThread ==
  TInv <=> /\ IInv
           /\ \A t \in Threads : Fills(t)
           /\ (\A t \in Threads : ~Counted(t)) => count_ = Len(log)
           /\ (\A t \in Threads : ~Added(t)) => sum_ = Total(log)
BY DEF TInv, Balanced, Gathered, ScrapeConsistent, Fills

LEMMA InitialFills == Init => TInv
<1> SUFFICES ASSUME Init PROVE TInv
  OBVIOUS
<1>1. \A t \in Threads : Fills(t) /\ ~Counted(t)
  BY DEF Init, Fills, Counted, Added
<1>2. count_ = Len(log) /\ sum_ = Total(log)
  BY TotalEmpty DEF Init
<1> QED BY <1>1, <1>2, Initial, PerThread

\* The threads a step is not about.
LEMMA OthersStay ==
  ASSUME NEW u \in Threads, pc'[u] = pc[u], call'[u] = call[u], value'[u] = value[u],
         metric'[u] = metric[u]
  PROVE  /\ Counted(u)' <=> Counted(u)
         /\ Added(u)' <=> Added(u)
         /\ Fills(u) /\ UNCHANGED <<count_, sum_, log>> => Fills(u)'
BY DEF Fills, Counted, Added

\* Nobody else is in the middle of an observation, or has a result to deliver.
LEMMA OthersWait ==
  ASSUME IInv, NEW t \in Threads, pc[t] \in Critical
  PROVE  \A u \in Threads \ {t} : pc[u] \in {"idle", "lock"}
<1>1. \A u \in Threads : pc[u] \in Labels
  BY DEF IInv, TypeOK
<1> QED BY <1>1, Alone DEF Critical, Labels

\* Steps that neither count nor log.
LEMMA CountStays ==
  ASSUME TInv, IInv', UNCHANGED <<count_, sum_, log>>, NEW t \in Threads,
         \A u \in Threads \ {t} : /\ pc'[u] = pc[u] /\ call'[u] = call[u]
                                  /\ value'[u] = value[u] /\ metric'[u] = metric[u],
         Counted(t)' <=> Counted(t), Added(t)' <=> Added(t), Fills(t)'
  PROVE  TInv'
<1>1. \A u \in Threads : Fills(u)
  BY PerThread
<1>2. \A u \in Threads : Fills(u)' /\ (Counted(u)' <=> Counted(u)) /\ (Added(u)' <=> Added(u))
  BY <1>1, OthersStay
<1>3. (\A u \in Threads : ~Counted(u)') => count_' = Len(log')
  BY <1>2, PerThread
<1>4. (\A u \in Threads : ~Added(u)') => sum_' = Total(log')
  BY <1>2, PerThread
<1>5. TInv' <=> /\ IInv'
                /\ \A u \in Threads : Fills(u)'
                /\ (\A u \in Threads : ~Counted(u)') => count_' = Len(log')
                /\ (\A u \in Threads : ~Added(u)') => sum_' = Total(log')
  BY DEF TInv, Balanced, Gathered, ScrapeConsistent, Fills
<1> QED BY <1>2, <1>3, <1>4, <1>5

\* Steps of an observation: the thread is alone.
LEMMA Observing ==
  ASSUME TInv, IInv', NEW t \in Threads, pc[t] \in Critical, pc'[t] # "idle",
         \A u \in Threads \ {t} : /\ pc'[u] = pc[u] /\ call'[u] = call[u]
                                  /\ value'[u] = value[u] /\ metric'[u] = metric[u],
         Fills(t)',
         ~Counted(t)' => count_' = Len(log'),
         ~Added(t)' => sum_' = Total(log')
  PROVE  TInv'
<1>1. \A u \in Threads \ {t} : pc'[u] \in {"idle", "lock"}
  <2>1. IInv
    BY DEF TInv
  <2> QED BY <2>1, OthersWait
<1>2. \A u \in Threads : Fills(u)'
  BY <1>1 DEF Fills, Counted, Added
<1>3. TInv' <=> /\ IInv'
                /\ \A u \in Threads : Fills(u)'
                /\ (\A u \in Threads : ~Counted(u)') => count_' = Len(log')
                /\ (\A u \in Threads : ~Added(u)') => sum_' = Total(log')
  BY DEF TInv, Balanced, Gathered, ScrapeConsistent, Fills
<1> QED BY <1>2, <1>3

LEMMA Typed ==
  ASSUME TInv
  PROVE  /\ IInv /\ TypeOK /\ count_ \in Nat /\ log \in Seq(Observations) /\ Len(log) \in Nat
         /\ pc \in [Threads -> Labels] /\ call \in [Threads -> {"none", "Observe", "Collect"}]
         /\ metric \in [Threads -> [quantile : Seq([from : SUBSET Nat, at : Nat]),
                                    sample_count : Nat, sample_sum : Int]]
         /\ value \in [Threads -> Values \cup {0}]
         /\ \A t \in Threads : Fills(t)
<1>1. IInv /\ TypeOK /\ \A t \in Threads : Fills(t)
  BY PerThread DEF IInv
<1>2. log \in Seq(Observations)
  BY <1>1 DEF TypeOK, Observations
<1>3. Len(log) \in Nat
  BY <1>2
<1> QED BY <1>1, <1>2, <1>3 DEF TypeOK

LEMMA QuietSteps ==
  ASSUME TInv, IInv', NEW t \in Threads,
         InvokeObserve(t) \/ InvokeCollect(t) \/ Lock(t) \/ ReadClock(t) \/ Rotate(t) \/ RotateDone(t)
  PROVE  TInv'
<1>1. /\ UNCHANGED <<count_, sum_, log, metric>>
      /\ pc'[t] \in Labels /\ \A u \in Threads \ {t} : pc'[u] = pc[u]
  <2>1. UNCHANGED <<count_, sum_, log, metric>>
    BY DEF InvokeObserve, InvokeCollect, Lock, ReadClock, Rotate, RotateDone, totals
  <2>2. \/ Rotate(t) /\ pc' = pc
        \/ \E l \in Labels : pc' = [pc EXCEPT ![t] = l]
    BY DEF InvokeObserve, InvokeCollect, Lock, ReadClock, Rotate, RotateDone, Goto, Labels,
           NextQuantile
  <2> QED BY <2>1, <2>2, Typed
<1>2. \A u \in Threads \ {t} : call'[u] = call[u] /\ value'[u] = value[u]
  BY Typed DEF InvokeObserve, InvokeCollect, Lock, ReadClock, Rotate, RotateDone, local
<1>3. (Counted(t)' <=> Counted(t)) /\ (Added(t)' <=> Added(t)) /\ Fills(t)'
  <2>1. CASE InvokeObserve(t) \/ InvokeCollect(t)
    <3>1. pc[t] = "idle" /\ pc'[t] = "lock"
      BY <2>1, Typed DEF InvokeObserve, InvokeCollect, Goto
    <3> QED BY <3>1 DEF Counted, Added, Fills
  <2>2. CASE Lock(t)
    <3>1. /\ pc[t] = "lock" /\ call' = call /\ metric'[t] = NoMetric
          /\ pc'[t] = IF call[t] = "Observe" THEN "count" ELSE NextQuantile(NoMetric)
      BY <2>2, Typed DEF Lock, Goto, local, IInv, Exclusive
    <3>2. Len(NoMetric.quantile) = 0
      BY DEF NoMetric
    <3>3. call[t] # "Observe" =>
            IF 0 < Quantiles THEN pc'[t] = "read_clock" ELSE pc'[t] = "totals"
      BY <3>1, <3>2 DEF NextQuantile
    <3>4. call[t] = "Observe" => pc'[t] = "count"
      BY <3>1
    <3> QED BY <3>1, <3>2, <3>3, <3>4, QuantilesAssumption DEF Counted, Added, Fills
  <2>3. CASE ReadClock(t) \/ Rotate(t)
    <3>1. /\ pc[t] \in {"read_clock", "rotate"} /\ pc'[t] = "rotate"
          /\ UNCHANGED <<call, value>>
      BY <2>3, Typed DEF ReadClock, Rotate, Goto, local
    <3> QED BY <1>1, <3>1, Typed DEF Counted, Added, Fills
  <2>4. CASE RotateDone(t)
    <3>1. /\ pc[t] = "rotate" /\ UNCHANGED <<call, value>>
          /\ pc'[t] = IF call[t] = "Observe" THEN "insert" ELSE "get"
      BY <2>4, Typed DEF RotateDone, Goto, local
    <3> QED BY <1>1, <3>1, Typed DEF Counted, Added, Fills
  <2> QED BY <2>1, <2>2, <2>3, <2>4
<1> QED BY <1>1, <1>2, <1>3, CountStays

LEMMA TickCounts == ASSUME TInv, IInv', Tick PROVE TInv'
<1>1. UNCHANGED <<count_, sum_, log, metric, pc, call, value>>
  BY DEF Tick, totals, local
<1>2. Balanced'
  BY <1>1 DEF TInv, Balanced, Counted, Added
<1>3. Gathered' /\ ScrapeConsistent'
  BY <1>1 DEF TInv, Gathered, ScrapeConsistent
<1> QED BY <1>2, <1>3 DEF TInv

LEMMA UnlockCounts == ASSUME TInv, IInv', NEW t \in Threads, Unlock(t) PROVE TInv'
<1>1. /\ UNCHANGED <<count_, sum_, log>> /\ pc[t] = "unlock" /\ pc'[t] = "idle"
      /\ \A u \in Threads \ {t} : /\ pc'[u] = pc[u] /\ call'[u] = call[u]
                                  /\ value'[u] = value[u] /\ metric'[u] = metric[u]
  BY Typed DEF Unlock, Goto, totals
<1>2. (Counted(t)' <=> Counted(t)) /\ (Added(t)' <=> Added(t)) /\ Fills(t)'
  BY <1>1 DEF Counted, Added, Fills
<1> QED BY <1>1, <1>2, CountStays

LEMMA GetCounts == ASSUME TInv, IInv', NEW t \in Threads, Get(t) PROVE TInv'
<1> DEFINE answer == [from |-> ckms_quantiles_[current_bucket_], at |-> clock[t]]
           q == metric[t].quantile
           m == [metric[t] EXCEPT !.quantile = Append(@, answer)]
<1>1. /\ UNCHANGED <<count_, sum_, log, call, value>> /\ pc[t] = "get"
      /\ metric' = [metric EXCEPT ![t] = m] /\ pc' = [pc EXCEPT ![t] = NextQuantile(m)]
  BY DEF Get, Goto, totals, local
<1>2. Len(m.quantile) = Len(q) + 1 /\ Len(q) \in Nat
  <2>1. metric[t] \in [quantile : Seq([from : SUBSET Nat, at : Nat]),
                       sample_count : Nat, sample_sum : Int]
    BY Typed
  <2>2. q \in Seq([from : SUBSET Nat, at : Nat])
    BY <2>1
  <2>3. m.quantile = Append(q, answer)
    BY <2>1
  <2> HIDE DEF q, m, answer
  <2> QED BY <2>2, <2>3
<1>3. call[t] # "Observe" /\ Len(q) < Quantiles
  BY <1>1, Typed DEF Fills, IInv, Exclusive
<1> HIDE DEF m, q
<1>4. NextQuantile(m) = IF Len(q) + 1 < Quantiles THEN "read_clock" ELSE "totals"
  BY <1>2 DEF NextQuantile
<1>5. /\ pc'[t] = NextQuantile(m) /\ metric'[t] = m
      /\ \A u \in Threads \ {t} : /\ pc'[u] = pc[u] /\ call'[u] = call[u]
                                  /\ value'[u] = value[u] /\ metric'[u] = metric[u]
  BY <1>1, Typed
<1>6. (Counted(t)' <=> Counted(t)) /\ (Added(t)' <=> Added(t)) /\ Fills(t)'
  BY <1>1, <1>2, <1>3, <1>4, <1>5, QuantilesAssumption DEF Counted, Added, Fills
<1> QED BY <1>1, <1>5, <1>6, CountStays

\* The totals are copied while no observation is under way.
LEMMA CollectTotalsCounts ==
  ASSUME TInv, IInv', NEW t \in Threads, CollectTotals(t) PROVE TInv'
<1>1. /\ UNCHANGED <<count_, sum_, log, call, value>>
      /\ pc[t] = "totals" /\ pc' = [pc EXCEPT ![t] = "unlock"]
      /\ metric' = [metric EXCEPT ![t] = [@ EXCEPT !.sample_count = count_, !.sample_sum = sum_]]
  BY Typed DEF CollectTotals, Goto, totals, local
<1>2. /\ pc'[t] = "unlock" /\ metric'[t].sample_count = count_ /\ metric'[t].sample_sum = sum_
      /\ metric'[t].quantile = metric[t].quantile
      /\ \A u \in Threads \ {t} : /\ pc'[u] = pc[u] /\ call'[u] = call[u]
                                  /\ value'[u] = value[u] /\ metric'[u] = metric[u]
  BY <1>1, Typed
<1>3. \A u \in Threads : ~Counted(u) /\ ~Added(u)
  <2>1. \A u \in Threads \ {t} : pc[u] \in {"idle", "lock"}
    BY <1>1, OthersWait, Typed DEF Critical
  <2> QED BY <1>1, <2>1 DEF Counted, Added
<1>4. count_ = Len(log) /\ sum_ = Total(log)
  BY <1>3, PerThread
<1>5. call[t] # "Observe" /\ Len(metric[t].quantile) = Quantiles
  BY <1>1, Typed DEF Fills, IInv, Exclusive
<1>6. (Counted(t)' <=> Counted(t)) /\ (Added(t)' <=> Added(t)) /\ Fills(t)'
  BY <1>1, <1>2, <1>4, <1>5 DEF Counted, Added, Fills
<1> QED BY <1>1, <1>2, <1>6, CountStays

LEMMA CountCounts == ASSUME TInv, IInv', NEW t \in Threads, Count(t) PROVE TInv'
<1>1. /\ UNCHANGED <<sum_, log, call, value, metric>> /\ count_' = count_ + 1
      /\ pc[t] = "count" /\ pc' = [pc EXCEPT ![t] = "add"]
  BY DEF Count, Goto, local
<1>2. pc'[t] = "add" /\ call'[t] = "Observe" /\ \A u \in Threads \ {t} : pc'[u] = pc[u]
  BY <1>1, Typed DEF IInv, Exclusive
<1>3. \A u \in Threads : ~Counted(u) /\ ~Added(u)
  <2>1. \A u \in Threads \ {t} : pc[u] \in {"idle", "lock"}
    BY <1>1, OthersWait, Typed DEF Critical
  <2> QED BY <1>1, <2>1 DEF Counted, Added
<1>4. count_ = Len(log) /\ sum_ = Total(log)
  BY <1>3, PerThread
<1>5. Counted(t)' /\ ~Added(t)' /\ Fills(t)'
  BY <1>1, <1>2, <1>4 DEF Counted, Added, Fills
<1> QED BY <1>1, <1>2, <1>4, <1>5, Observing DEF Critical

LEMMA AddCounts == ASSUME TInv, IInv', NEW t \in Threads, Add(t) PROVE TInv'
<1>1. /\ UNCHANGED <<count_, log, call, value, metric>> /\ sum_' = sum_ + value[t]
      /\ pc[t] = "add" /\ pc' = [pc EXCEPT ![t] = "read_clock"]
  BY DEF Add, Goto, local
<1>2. pc'[t] = "read_clock" /\ call'[t] = "Observe" /\ \A u \in Threads \ {t} : pc'[u] = pc[u]
  BY <1>1, Typed DEF IInv, Exclusive
<1>3. \A u \in Threads : ~Added(u)
  <2>1. \A u \in Threads \ {t} : pc[u] \in {"idle", "lock"}
    BY <1>1, OthersWait, Typed DEF Critical
  <2> QED BY <1>1, <2>1 DEF Counted, Added
<1>4. sum_ = Total(log) /\ count_ = Len(log) + 1
  BY <1>1, <1>2, <1>3, PerThread DEF Fills, Counted
<1>5. Counted(t)' /\ Added(t)' /\ Fills(t)'
  BY <1>1, <1>2, <1>4 DEF Counted, Added, Fills
<1> QED BY <1>1, <1>2, <1>4, <1>5, Observing DEF Critical

LEMMA InsertCounts == ASSUME TInv, IInv', NEW t \in Threads, Insert(t) PROVE TInv'
<1> DEFINE o == [value |-> value[t], at |-> clock[t]]
<1>1. /\ UNCHANGED <<count_, sum_, call, value, metric>> /\ log' = Append(log, o)
      /\ pc[t] = "insert" /\ pc' = [pc EXCEPT ![t] = "unlock"]
  BY DEF Insert, Goto, totals, local
<1>2. pc'[t] = "unlock" /\ call[t] = "Observe" /\ \A u \in Threads \ {t} : pc'[u] = pc[u]
  BY <1>1, Typed DEF IInv, Exclusive
<1>3. o \in Observations /\ o.value = value[t]
  BY <1>1, <1>2, Typed DEF IInv, Exclusive, TypeOK, Observations
<1> HIDE DEF o
<1>4. Len(log') = Len(log) + 1 /\ Total(log') = Total(log) + value[t]
  BY <1>1, <1>3, TotalGrows, Typed
<1>5. Counted(t) /\ Added(t) /\ ~Counted(t)' /\ ~Added(t)' /\ Fills(t)'
  BY <1>1, <1>2 DEF Counted, Added, Fills
<1>6. count_' = Len(log') /\ sum_' = Total(log')
  BY <1>1, <1>4, <1>5, Typed DEF Fills
<1> QED BY <1>1, <1>2, <1>5, <1>6, Observing DEF Critical

LEMMA Counting == TInv /\ [Next]_vars => TInv'
<1> SUFFICES ASSUME TInv, [Next]_vars PROVE TInv'
  OBVIOUS
<1>1. IInv'
  BY Inductive DEF TInv
<1>2. CASE UNCHANGED vars
  <2>1. UNCHANGED <<count_, sum_, log, metric, pc, call, value>>
    BY <1>2 DEF vars, totals, local
  <2>2. Balanced'
    BY <2>1 DEF TInv, Balanced, Counted, Added
  <2>3. Gathered' /\ ScrapeConsistent'
    BY <2>1 DEF TInv, Gathered, ScrapeConsistent
  <2> QED BY <1>1, <2>2, <2>3 DEF TInv
<1>3. ASSUME NEW t \in Threads, Run(t) PROVE TInv'
  BY <1>1, <1>3, QuietSteps, CountCounts, AddCounts, InsertCounts, GetCounts,
     CollectTotalsCounts, UnlockCounts DEF Run
<1> QED BY <1>1, <1>2, <1>3, TickCounts, QuietSteps DEF Next

\* Count and sum of a scrape are the totals over the observations made before
\* it, and it has all its quantiles (summary.cc:17-41): for any threads, any
\* values and any number of quantiles.
THEOREM Consistent == Spec => []ScrapeConsistent
<1>1. TInv => ScrapeConsistent
  BY DEF TInv
<1> QED BY <1>1, InitialFills, Counting, PTL DEF Spec
=============================================================================

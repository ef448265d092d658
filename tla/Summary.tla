------------------------------- MODULE Summary -------------------------------
(***************************************************************************)
(* promcore::Summary (core/src/summary.cc) with its sliding window,        *)
(* detail::TimeWindowQuantiles (core/src/detail/time_window_quantiles.cc): *)
(* a count, a sum and a ring of age buckets, all of which receive every    *)
(* observation and which are reset in turn as the clock advances. Rotation *)
(* is lazy: it happens when somebody observes or asks for a quantile.      *)
(*                                                                         *)
(* A bucket is a CKMSQuantiles, module CKMSQuantiles' subject. Here it is  *)
(* the set of observations it was given since its last reset, and the      *)
(* answer to a quantile is the set it is computed from.                    *)
(***************************************************************************)
EXTENDS Integers, Sequences, FiniteSets, SequencesExt

CONSTANTS
  Threads,          \* the threads that use the summary
  Values,           \* what the program observes
  Quantiles,        \* how many quantiles the summary reports
  MaxAge,           \* max_age, in clock ticks
  AgeBuckets,       \* age_buckets
  MaxObservations,  \* bound: observations
  MaxTime,          \* bound: the clock
  NoOne             \* the value of the mutex when it is free

\* Less than one tick per bucket would make the loop of rotate() endless.
ASSUME WindowAssumption ==
  AgeBuckets \in Nat \ {0} /\ MaxAge \in Nat /\ MaxAge >= AgeBuckets

ASSUME NoOneAssumption == NoOne \notin Threads

ASSUME ValuesAssumption == Values \subseteq Int

ASSUME QuantilesAssumption == Quantiles \in Nat

\* Not the code: max_age in a unit ten times as coarse.
CoarseInterval == (MaxAge \div 10) \div AgeBuckets

rotation_interval_ == MaxAge \div AgeBuckets

Ring == 0..(AgeBuckets - 1)

VARIABLES
  now,              \* steady_clock
  count_, sum_,     \* totals of the summary
  ckms_quantiles_,  \* age bucket -> the observations in it
  current_bucket_,
  last_rotation_,
  mutex_,           \* the thread that holds the mutex, or NoOne
  pc,               \* where each thread is
  call,             \* "Observe", "Collect" or "none"
  value,            \* the argument of Observe
  clock,            \* the reading of Clock::now() in rotate()
  delta,            \* its local variable
  metric,           \* what a Collect has gathered
  log               \* history: all observations, [value, at]

ring    == <<ckms_quantiles_, current_bucket_, last_rotation_>>
totals  == <<count_, sum_>>
local   == <<call, value>>
vars    == <<now, totals, ring, mutex_, pc, local, clock, delta, metric, log>>

Labels == {"idle", "lock", "count", "add", "read_clock", "rotate", "insert",
           "get", "totals", "unlock"}

NoMetric == [quantile |-> << >>, sample_count |-> 0, sample_sum |-> 0]

Init ==
  /\ now = 0
  /\ count_ = 0 /\ sum_ = 0
  /\ ckms_quantiles_ = [b \in Ring |-> {}]
  /\ current_bucket_ = 0
  /\ last_rotation_ = now
  /\ mutex_ = NoOne
  /\ pc = [t \in Threads |-> "idle"]
  /\ call = [t \in Threads |-> "none"]
  /\ value = [t \in Threads |-> 0]
  /\ clock = [t \in Threads |-> 0]
  /\ delta = [t \in Threads |-> 0]
  /\ metric = [t \in Threads |-> NoMetric]
  /\ log = << >>

-----------------------------------------------------------------------------
\* The clock goes on at any point of any operation.
Tick ==
  /\ now < MaxTime
  /\ now' = now + 1
  /\ UNCHANGED <<totals, ring, mutex_, pc, local, clock, delta, metric, log>>

Goto(t, label) == pc' = [pc EXCEPT ![t] = label]

Observers == {t \in Threads : call[t] = "Observe" /\ pc[t] \in {"lock", "count"}}

InvokeObserve(t) ==
  /\ pc[t] = "idle"
  /\ count_ + Cardinality(Observers) < MaxObservations
  /\ \E v \in Values : value' = [value EXCEPT ![t] = v]
  /\ call' = [call EXCEPT ![t] = "Observe"]
  /\ Goto(t, "lock")
  /\ UNCHANGED <<now, totals, ring, mutex_, clock, delta, metric, log>>

InvokeCollect(t) ==
  /\ pc[t] = "idle"
  /\ call' = [call EXCEPT ![t] = "Collect"]
  /\ Goto(t, "lock")
  /\ UNCHANGED <<now, totals, ring, mutex_, value, clock, delta, metric, log>>

\* A Collect goes on with the next quantile, or with count and sum.
NextQuantile(m) == IF Len(m.quantile) < Quantiles THEN "read_clock" ELSE "totals"

\* Not the code: the mutex is not waited for.
LockShared(t) ==
  /\ pc[t] = "lock"
  /\ mutex_' = t
  /\ Goto(t, IF call[t] = "Observe" THEN "count" ELSE NextQuantile(NoMetric))
  /\ UNCHANGED <<now, totals, ring, local, clock, delta, metric, log>>

Lock(t) ==
  /\ pc[t] = "lock"
  /\ mutex_ = NoOne
  /\ mutex_' = t
  /\ Goto(t, IF call[t] = "Observe" THEN "count" ELSE NextQuantile(NoMetric))
  /\ UNCHANGED <<now, totals, ring, local, clock, delta, metric, log>>

\* The lock_guard is left and the result delivered.
Unlock(t) ==
  /\ pc[t] = "unlock"
  /\ mutex_' = NoOne
  /\ Goto(t, "idle")
  /\ call' = [call EXCEPT ![t] = "none"]
  /\ value' = [value EXCEPT ![t] = 0]
  /\ clock' = [clock EXCEPT ![t] = 0]
  /\ delta' = [delta EXCEPT ![t] = 0]
  /\ metric' = [metric EXCEPT ![t] = NoMetric]
  /\ UNCHANGED <<now, totals, ring, log>>

-----------------------------------------------------------------------------
(* Observe                                                                 *)

\* count_ += 1
Count(t) ==
  /\ pc[t] = "count"
  /\ count_' = count_ + 1
  /\ Goto(t, "add")
  /\ UNCHANGED <<now, sum_, ring, mutex_, local, clock, delta, metric, log>>

\* sum_ += value
Add(t) ==
  /\ pc[t] = "add"
  /\ sum_' = sum_ + value[t]
  /\ Goto(t, "read_clock")
  /\ UNCHANGED <<now, count_, ring, mutex_, local, clock, delta, metric, log>>

\* Not the code: the value goes into the buckets behind the current one.
InsertAhead(t) ==
  /\ pc[t] = "insert"
  /\ log' = Append(log, [value |-> value[t], at |-> clock[t]])
  /\ ckms_quantiles_' = [b \in Ring |-> IF b = current_bucket_ THEN ckms_quantiles_[b]
                                        ELSE ckms_quantiles_[b] \cup {Len(log) + 1}]
  /\ Goto(t, "unlock")
  /\ UNCHANGED <<now, totals, current_bucket_, last_rotation_, mutex_, local,
                 clock, delta, metric>>

\* The value goes into every bucket, not only into the current one.
Insert(t) ==
  /\ pc[t] = "insert"
  /\ log' = Append(log, [value |-> value[t], at |-> clock[t]])
  /\ ckms_quantiles_' = [b \in Ring |-> ckms_quantiles_[b] \cup {Len(log) + 1}]
  /\ Goto(t, "unlock")
  /\ UNCHANGED <<now, totals, current_bucket_, last_rotation_, mutex_, local,
                 clock, delta, metric>>

-----------------------------------------------------------------------------
(* TimeWindowQuantiles::rotate, called by insert and by every get          *)

\* auto delta = Clock::now() - last_rotation_
ReadClock(t) ==
  /\ pc[t] = "read_clock"
  /\ clock' = [clock EXCEPT ![t] = now]
  /\ delta' = [delta EXCEPT ![t] = now - last_rotation_]
  /\ Goto(t, "rotate")
  /\ UNCHANGED <<now, totals, ring, mutex_, local, metric, log>>

\* The condition of the loop.
Due(t) == delta[t] > rotation_interval_

\* ++current_bucket_, back to 0 behind the last one
NextBucket == IF current_bucket_ + 1 >= AgeBuckets THEN 0 ELSE current_bucket_ + 1

\* Not the code: an if in place of the while, one iteration at most.
RotateOnce(t) ==
  /\ pc[t] = "rotate"
  /\ Due(t)
  /\ ckms_quantiles_' = [ckms_quantiles_ EXCEPT ![current_bucket_] = {}]
  /\ current_bucket_' = NextBucket
  /\ delta' = [delta EXCEPT ![t] = 0]
  /\ last_rotation_' = last_rotation_ + rotation_interval_
  /\ UNCHANGED <<now, totals, mutex_, pc, local, clock, metric, log>>

\* One iteration: the current bucket is emptied and the next one takes over.
Rotate(t) ==
  /\ pc[t] = "rotate"
  /\ Due(t)
  /\ ckms_quantiles_' = [ckms_quantiles_ EXCEPT ![current_bucket_] = {}]
  /\ current_bucket_' = NextBucket
  /\ delta' = [delta EXCEPT ![t] = @ - rotation_interval_]
  /\ last_rotation_' = last_rotation_ + rotation_interval_
  /\ UNCHANGED <<now, totals, mutex_, pc, local, clock, metric, log>>

RotateDone(t) ==
  /\ pc[t] = "rotate"
  /\ ~Due(t)
  /\ Goto(t, IF call[t] = "Observe" THEN "insert" ELSE "get")
  /\ UNCHANGED <<now, totals, ring, mutex_, local, clock, delta, metric, log>>

-----------------------------------------------------------------------------
(* Collect                                                                 *)

\* One quantile, from the bucket that is current now.
Get(t) ==
  LET answer == [from |-> ckms_quantiles_[current_bucket_], at |-> clock[t]]
      m      == [metric[t] EXCEPT !.quantile = Append(@, answer)]
  IN  /\ pc[t] = "get"
      /\ metric' = [metric EXCEPT ![t] = m]
      /\ Goto(t, NextQuantile(m))
      /\ UNCHANGED <<now, totals, ring, mutex_, local, clock, delta, log>>

CollectTotals(t) ==
  /\ pc[t] = "totals"
  /\ metric' = [metric EXCEPT ![t].sample_count = count_, ![t].sample_sum = sum_]
  /\ Goto(t, "unlock")
  /\ UNCHANGED <<now, totals, ring, mutex_, local, clock, delta, log>>

-----------------------------------------------------------------------------
Run(t) ==
  \/ Count(t) \/ Add(t) \/ ReadClock(t) \/ Rotate(t) \/ RotateDone(t)
  \/ Insert(t) \/ Get(t) \/ CollectTotals(t) \/ Unlock(t)

Next ==
  \/ Tick
  \/ \E t \in Threads : InvokeObserve(t) \/ InvokeCollect(t) \/ Lock(t) \/ Run(t)

\* A thread that holds the mutex keeps running, and a free mutex that is wanted
\* is granted to somebody. Neither the clock nor a caller has to move.
Fairness ==
  /\ \A t \in Threads : WF_vars(Run(t))
  /\ WF_vars(\E t \in Threads : Lock(t))

Spec == Init /\ [][Next]_vars /\ Fairness

-----------------------------------------------------------------------------
(* Properties                                                              *)

TypeOK ==
  /\ now \in Nat /\ last_rotation_ \in Nat
  /\ count_ \in Nat /\ sum_ \in Int
  /\ ckms_quantiles_ \in [Ring -> SUBSET DOMAIN log]
  /\ current_bucket_ \in Ring
  /\ mutex_ \in Threads \cup {NoOne}
  /\ pc \in [Threads -> Labels]
  /\ call \in [Threads -> {"none", "Observe", "Collect"}]
  /\ value \in [Threads -> Values \cup {0}]
  /\ clock \in [Threads -> Nat]
  /\ delta \in [Threads -> Nat]
  /\ metric \in [Threads -> [quantile : Seq([from : SUBSET Nat, at : Nat]),
                             sample_count : Nat, sample_sum : Int]]
  /\ log \in Seq([value : Values, at : Nat])

\* The sliding window: a quantile is computed from all observations of the
\* last age_buckets - 1 intervals, and from none older than max_age, however
\* long nobody called before (summary.h:59-73). "Old" is by the clock readings
\* of the two rotations.
WindowBounds ==
  \A t \in Threads : \A i \in DOMAIN metric[t].quantile :
    LET q == metric[t].quantile[i]
        Age(n) == q.at - log[n].at
    IN  /\ \A n \in q.from : Age(n) <= MaxAge
        /\ \A n \in DOMAIN log :
             Age(n) <= rotation_interval_ * (AgeBuckets - 1) => n \in q.from

\* What has dropped out of the window does not come back when the ring turns:
\* the bucket that becomes current holds nothing that the one before did not
\* (time_window_quantiles.cc:30-43).
NothingComesBack ==
  [][ckms_quantiles_'[current_bucket_'] \ ckms_quantiles_[current_bucket_]
       \subseteq {Len(log')} \ {Len(log)}]_vars

Total(observations) == FoldLeft(LAMBDA s, o : s + o.value, 0, observations)

\* Count and sum of a scrape are the totals over all observations made before
\* it, of which no half-finished one is among them (summary.cc:17-41).
ScrapeConsistent ==
  \A t \in Threads :
    pc[t] = "unlock" /\ call[t] = "Collect" =>
      /\ metric[t].sample_count = Len(log)
      /\ metric[t].sample_sum = Total(log)
      /\ Len(metric[t].quantile) = Quantiles

\* A rotation that has to catch up ends, and with it the critical section.
RotationEnds ==
  \A t \in Threads : pc[t] = "rotate" ~> pc[t] = "unlock"

-----------------------------------------------------------------------------
(* The inductive invariant: one thread is in the critical section, its      *)
(* clock reading is behind the last rotation by delta, and each age bucket  *)
(* holds the observations since it was emptied.                             *)

Critical == {"count", "add", "read_clock", "rotate", "insert", "get", "totals", "unlock"}

Exclusive == \A t \in Threads :
  /\ pc[t] \in Critical <=> mutex_ = t
  /\ call[t] = "Observe" => value[t] \in Values /\ metric[t] = NoMetric
  /\ pc[t] \in {"count", "add", "insert"} => call[t] = "Observe"
  /\ pc[t] \in {"get", "totals"} => call[t] # "Observe"
  /\ pc[t] \in {"idle", "lock"} => metric[t] = NoMetric

\* A rotation is under way, or has just ended.
Rotating(t) == pc[t] \in {"rotate", "insert", "get"}

Punctual ==
  /\ last_rotation_ <= now
  /\ \A t \in Threads :
       /\ Rotating(t) => clock[t] <= now /\ clock[t] = last_rotation_ + delta[t]
       /\ pc[t] \in {"insert", "get"} => ~Due(t)
  /\ \A n \in DOMAIN log : log[n].at <= last_rotation_ + rotation_interval_

\* How many turns it takes until a bucket is the current one.
Ahead(b) == IF b >= current_bucket_ THEN b - current_bucket_
            ELSE b - current_bucket_ + AgeBuckets

\* When the bucket was emptied, or would have been.
Edge(b) == last_rotation_ - rotation_interval_ * (AgeBuckets - 1 - Ahead(b))

Sorted == \A b \in Ring :
  /\ \A n \in ckms_quantiles_[b] : log[n].at >= Edge(b)
  /\ \A n \in DOMAIN log \ ckms_quantiles_[b] :
       /\ log[n].at <= Edge(b)
       /\ last_rotation_ < now
       /\ \A t \in Threads : Rotating(t) => last_rotation_ < clock[t]

\* The sooner a bucket is current, the more it holds.
Nested == \A b, c \in Ring :
  Ahead(b) <= Ahead(c) => ckms_quantiles_[c] \subseteq ckms_quantiles_[b]

IInv == TypeOK /\ Exclusive /\ Punctual /\ Sorted /\ Nested /\ WindowBounds

-----------------------------------------------------------------------------
(* The inductive invariant of a scrape: count and sum are those of the log,  *)
(* up to the observation in progress.                                        *)

\* The observation a thread is making is in count_, or even in sum_, but not
\* in the log yet.
Counted(t) == call[t] = "Observe" /\ pc[t] \in {"add", "read_clock", "rotate", "insert"}

Added(t) == Counted(t) /\ pc[t] # "add"

Balanced ==
  /\ \A t \in Threads : Counted(t) => count_ = Len(log) + 1
  /\ (\A t \in Threads : ~Counted(t)) => count_ = Len(log)
  /\ \A t \in Threads : Added(t) => sum_ = Total(log) + value[t]
  /\ (\A t \in Threads : ~Added(t)) => sum_ = Total(log)

\* How many quantiles a Collect has gathered.
Gathered == \A t \in Threads : call[t] # "Observe" =>
  /\ pc[t] \in {"read_clock", "rotate", "get"} => Len(metric[t].quantile) < Quantiles
  /\ pc[t] = "totals" => Len(metric[t].quantile) = Quantiles

TInv == IInv /\ Balanced /\ Gathered /\ ScrapeConsistent
=============================================================================

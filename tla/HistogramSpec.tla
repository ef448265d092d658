--------------------------- MODULE HistogramSpec ---------------------------
(***************************************************************************)
(* What a promcore histogram promises: a list of what has been observed    *)
(* since the last reset, and scrapes that are computed from that list as   *)
(* it is at one instant.                                                   *)
(***************************************************************************)
EXTENDS Integers, Sequences, SequencesExt

CONSTANTS Threads, BoundaryLists, Values, Batches, Unit, Zero,
          Plus(_, _), Less(_, _)

VARIABLES
  boundaries,  \* the upper bounds of all buckets but the last
  observed,    \* the updates since the last reset
  request,     \* the call of each thread
  response     \* its result, once it has taken effect

vars == <<boundaries, observed, request, response>>

NoCall  == [op |-> "none"]
NoReply == [status |-> "none"]

Init ==
  /\ boundaries \in BoundaryLists
  /\ \A i, j \in DOMAIN boundaries : i < j => Less(boundaries[i], boundaries[j])
  /\ observed = << >>
  /\ request = [t \in Threads |-> NoCall]
  /\ response = [t \in Threads |-> NoReply]

Requests == [op : {"Observe"}, value : Values]
              \cup [op : {"ObserveMultiple"}, batch : Batches]
              \cup [op : {"Reset", "Collect"}]

Invoke(t) ==
  /\ request[t] = NoCall
  /\ \E r \in Requests : request' = [request EXCEPT ![t] = r]
  /\ UNCHANGED <<observed, response>>

Pending(t, op) == request[t].op = op /\ response[t] = NoReply

Respond(t, r) == response' = [response EXCEPT ![t] = r] /\ UNCHANGED request

Total(s) == FoldLeft(LAMBDA m, n : m + n, 0, s)

\* What an update adds to the number of observations <= the i-th bound. A
\* batch has counts for the single buckets, of which negative ones do not
\* count.
UpTo(u, i) ==
  IF u.op = "Observe"
  THEN IF i <= Len(boundaries) /\ Less(boundaries[i], u.value) THEN 0 ELSE Unit
  ELSE Total([j \in 1..i |-> IF u.batch.increments[j] > 0
                             THEN u.batch.increments[j] ELSE 0])

Exact(i) == Total([n \in DOMAIN observed |-> UpTo(observed[n], i)])

Sum == FoldLeft(LAMBDA s, u : Plus(s, IF u.op = "Observe" THEN u.value ELSE u.batch.sum),
                Zero, observed)

Update(t) ==
  /\ \/ Pending(t, "Observe")
     \/ /\ Pending(t, "ObserveMultiple")
        /\ Len(request[t].batch.increments) = Len(boundaries) + 1
  /\ observed' = Append(observed, request[t])
  /\ Respond(t, [status |-> "done"])

Refuse(t) ==
  /\ Pending(t, "ObserveMultiple")
  /\ Len(request[t].batch.increments) # Len(boundaries) + 1
  /\ Respond(t, [status |-> "throw"])
  /\ UNCHANGED observed

Reset(t) ==
  /\ Pending(t, "Reset")
  /\ observed' = << >>
  /\ Respond(t, [status |-> "done"])

\* What a scrape may report: whole, nondecreasing counts. They are exact while
\* the buckets hold whole numbers of observations; of fractions less than one
\* per bucket is lost.
Reports ==
  LET n == Len(boundaries) + 1
      Counts == {Unit * k : k \in 0..(Exact(n) \div Unit)}
  IN  {c \in [1..n -> Counts] :
         /\ \A i \in 1..n : /\ c[i] <= Exact(i) /\ Exact(i) < c[i] + i * Unit
                            /\ i > 1 => c[i - 1] <= c[i]
         /\ (\A i \in 1..n : Exact(i) % Unit = 0) => \A i \in 1..n : c[i] = Exact(i)}

Collect(t) ==
  /\ Pending(t, "Collect")
  /\ \E c \in Reports :
       Respond(t, [status |-> "metric",
                   metric |-> [bucket |-> c, sample_count |-> c[Len(c)],
                               sample_sum |-> Sum]])
  /\ UNCHANGED observed

Finish(t) ==
  /\ response[t] # NoReply
  /\ request' = [request EXCEPT ![t] = NoCall]
  /\ response' = [response EXCEPT ![t] = NoReply]
  /\ UNCHANGED observed

Next ==
  /\ UNCHANGED boundaries
  /\ \E t \in Threads :
       Invoke(t) \/ Finish(t) \/ Update(t) \/ Refuse(t) \/ Reset(t) \/ Collect(t)

Spec == Init /\ [][Next]_vars
=============================================================================

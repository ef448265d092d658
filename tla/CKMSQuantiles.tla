--------------------------- MODULE CKMSQuantiles ---------------------------
(***************************************************************************)
(* promcore::detail::CKMSQuantiles (core/src/detail/ckms_quantiles.cc): a  *)
(* sketch of the values it is given, from which get() answers quantiles    *)
(* with a tolerated error. It is used under the mutex of a Summary only,   *)
(* so an operation is one step.                                            *)
(*                                                                         *)
(* Quantiles and errors are percentages; all products with them are exact. *)
(***************************************************************************)
EXTENDS Integers, Sequences, FiniteSets, FiniteSetsExt, SequencesExt

CONSTANTS
  Targets,     \* quantiles_: a set of records [quantile, error], in percent
  Values,      \* the values the program observes, numbers
  BufferSize,  \* buffer_.size(), 500 in the code
  MaxInserts,  \* bound: insertions between two resets
  NaN          \* the answer when there is no sample

ASSUME TargetsAssumption == Targets \subseteq [quantile : 0..100, error : Nat]

ASSUME ValuesAssumption == Values \subseteq Int /\ IsFiniteSet(Values)

ASSUME BoundsAssumption == BufferSize \in Nat \ {0} /\ MaxInserts \in Nat

VARIABLES
  count_,    \* values that have gone into sample_
  sample_,   \* sorted items [value, g, delta]
  buffer_,   \* the first buffer_count_ entries of the array
  answer,    \* the result of a get, until the next insertion
  inserted   \* history: how often each value was inserted since the last reset

vars == <<count_, sample_, buffer_, answer, inserted>>

NoAnswer == [value |-> NaN, quantile |-> 0, error |-> 0]

Init ==
  /\ count_ = 0
  /\ sample_ = << >>
  /\ buffer_ = << >>
  /\ answer = NoAnswer
  /\ inserted = [v \in Values |-> 0]

-----------------------------------------------------------------------------
(* allowableError(rank), with sample_.size() = size: the least of these     *)
(* fractions <<n, d>>. A target whose u or v is infinite or NaN never is.   *)

AllowableErrors(rank, size) ==
  LET Near(q) == IF 100 * rank <= q.quantile * size
                 THEN <<2 * q.error * (size - rank), 100 - q.quantile>>
                 ELSE <<2 * q.error * rank, q.quantile>>
  IN  {<<size + 1, 1>>} \cup {e \in {Near(q) : q \in Targets} : e[2] # 0}

WithinError(n, rank, size) ==
  \A e \in AllowableErrors(rank, size) : n * e[2] <= e[1]

FloorError(rank, size) ==
  Min({e[1] \div e[2] : e \in AllowableErrors(rank, size)})

-----------------------------------------------------------------------------
(* insertBatch                                                             *)

\* Not the code: the search does not step back in front of a greater item.
PlaceBehind(at, v) ==
  LET s   == at[1]
      idx == Min({k \in at[2]..Len(s) : k = Len(s) \/ s[k].value >= v})
  IN  <<InsertAt(s, idx + 1, [value |-> v, g |-> 1, delta |-> 0]), idx + 1>>

\* One value v goes in behind the first idx items. The search goes on from
\* where the last one ended, at[2].
Place(at, v) ==
  LET s    == at[1]
      stop == Min({k \in at[2]..Len(s) : k = Len(s) \/ s[k].value >= v})
      idx  == IF s[stop].value > v THEN stop - 1 ELSE stop
      delta == IF idx = 1 \/ idx + 1 = Len(s) THEN 0
               ELSE FloorError(idx + 1, Len(s)) + 1
  IN  <<InsertAt(s, idx + 1, [value |-> v, g |-> 1, delta |-> delta]), idx + 1>>

\* std::sort: at position k is the least value that k entries do not exceed.
Sorted(batch) ==
  [k \in DOMAIN batch |->
     Min({v \in Range(batch) : Cardinality({i \in DOMAIN batch : batch[i] <= v}) >= k})]

InsertBatch(s, batch) ==
  LET sorted == Sorted(batch)
      first  == <<[value |-> sorted[1], g |-> 1, delta |-> 0]>>
  IN  IF batch = << >> THEN s
      ELSE IF s = << >> THEN FoldLeft(Place, <<first, 1>>, Tail(sorted))[1]
      ELSE FoldLeft(Place, <<s, 1>>, sorted)[1]

(* compress: item p goes into item p + 1 if the error allows. After that the *)
(* loop moves on to the item behind, as it does when it has not merged.      *)

\* Not the code: the rank of the item taken out is forgotten.
Dropped(s, p) == RemoveAt(s, p)

\* Not the code: the item behind is taken out.
MergedBack(s, p) == RemoveAt([s EXCEPT ![p].g = @ + s[p + 1].g], p + 1)

Merged(s, p) ==
  RemoveAt([s EXCEPT ![p + 1].g = @ + s[p].g], p)

Compress(s) ==
  LET c[p \in 1..Len(s)] ==
        IF p = 1 THEN s
        ELSE LET r == c[p - 1]
             IN  IF /\ p <= Len(r)
                    /\ WithinError(r[p - 1].g + r[p].g + r[p].delta, p - 1, Len(r))
                 THEN Merged(r, p - 1) ELSE r
  IN  IF Len(s) < 2 THEN s ELSE c[Len(s)]

-----------------------------------------------------------------------------
\* The sum of g over the first i items.
RankMin(s, i) == FoldLeft(LAMBDA n, x : n + x.g, 0, SubSeq(s, 1, i))

Flush(s, batch) == Compress(InsertBatch(s, batch))

\* Not the code: the buffer is flushed one value too late.
Overfull(b) == Len(b) > BufferSize

\* buffer_count_ == buffer_.size()
Full(b) == Len(b) = BufferSize

Insert(v) ==
  LET b == Append(buffer_, v)
  IN  /\ count_ + Len(buffer_) < MaxInserts
      /\ IF Full(b)
         THEN /\ sample_' = Flush(sample_, b)
              /\ count_' = count_ + Len(b)
              /\ buffer_' = << >>
         ELSE buffer_' = b /\ UNCHANGED <<sample_, count_>>
      /\ inserted' = [inserted EXCEPT ![v] = @ + 1]
      /\ answer' = NoAnswer

\* The item before the first one whose rank may be beyond the wanted one by
\* more than half the allowable error, or else the last item.
Quantile(s, n, q) ==
  LET desired   == (q.quantile * n) \div 100
      Beyond(i) == \E e \in AllowableErrors(desired, Len(s)) :
                     2 * (RankMin(s, i) + s[i].delta - desired) * e[2] > e[1]
      hits      == {i \in 2..Len(s) : Beyond(i)}
  IN  IF hits = {} THEN s[Len(s)].value ELSE s[Min(hits) - 1].value

\* Summary asks for the quantiles it targets. The answer flushes the buffer.
Get(q) ==
  LET s == Flush(sample_, buffer_)
      n == count_ + Len(buffer_)
  IN  /\ sample_' = s
      /\ count_' = n
      /\ buffer_' = << >>
      /\ answer' = [value    |-> IF s = << >> THEN NaN ELSE Quantile(s, n, q),
                    quantile |-> q.quantile, error |-> q.error]
      /\ UNCHANGED inserted

\* The bucket is rotated out.
Reset ==
  /\ count_' = 0
  /\ sample_' = << >>
  /\ buffer_' = << >>
  /\ inserted' = [v \in Values |-> 0]
  /\ answer' = NoAnswer

Next ==
  \/ \E v \in Values : Insert(v)
  \/ \E q \in Targets : Get(q)
  \/ Reset

Spec == Init /\ [][Next]_vars

-----------------------------------------------------------------------------
(* Properties                                                              *)

TypeOK ==
  /\ count_ \in 0..MaxInserts
  /\ sample_ \in Seq([value : Values, g : 1..MaxInserts, delta : Nat])
  /\ buffer_ \in Seq(Values) /\ Len(buffer_) < BufferSize
  /\ answer \in [value : Values \cup {NaN}, quantile : 0..100, error : Nat]
  /\ inserted \in [Values -> 0..MaxInserts]

Number(S) == MapThenSumSet(LAMBDA v : inserted[v], S)

\* The ranks a value has among all values inserted.
Ranks(v) == (Number({w \in Values : w < v}) + 1)..Number({w \in Values : w <= v})

\* Every value inserted is in the sketch or in the buffer, once, and the items
\* stay sorted although the search resumes where the last one ended and
\* compress skips items (ckms_quantiles.cc:88-150).
NothingLost ==
  /\ RankMin(sample_, Len(sample_)) = count_
  /\ count_ + Len(buffer_) = Number(Values)
  /\ \A i \in 1..(Len(sample_) - 1) : sample_[i].value <= sample_[i + 1].value

\* A merge keeps the greater value, so the maximum is never lost, and what
\* the sketch holds has been inserted since the last reset (ckms_quantiles.cc:
\* 63-67 and 140-148).
KeepsMaximum ==
  LET seen == {v \in Values : inserted[v] > 0}
      kept == {sample_[i].value : i \in DOMAIN sample_} \cup Range(buffer_)
  IN  /\ kept \subseteq seen
      /\ seen # {} => Max(seen) \in kept

\* The inductive invariant: the three above, below the bound.
IInv ==
  /\ TypeOK
  /\ NothingLost
  /\ KeepsMaximum
  /\ count_ + Len(buffer_) <= MaxInserts

\* One and the same sketch answers quantiles in order, whatever their tolerated
\* errors and however often buffers were flushed and items merged before
\* (ckms_quantiles.cc:41-60). A scrape asks for one after the other, and each
\* get compresses the sketch again: this is about the answers to one state.
QuantilesOrdered ==
  LET s == Flush(sample_, buffer_)
      n == count_ + Len(buffer_)
  IN  s # << >> => \A p, q \in Targets :
        p.quantile <= q.quantile => Quantile(s, n, p) <= Quantile(s, n, q)

\* A targeted quantile is answered with the tolerated error, give or take one
\* rank (summary.h:51-53).
Accurate ==
  answer.value # NaN => \E k \in Ranks(answer.value) :
    LET n   == Number(Values)
        off == 100 * k - answer.quantile * n
    IN  off <= answer.error * n + 100 /\ -off <= answer.error * n + 100
=============================================================================

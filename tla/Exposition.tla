----------------------------- MODULE Exposition -----------------------------
(***************************************************************************)
(* From registration to text, the composition of Builder, Registry,        *)
(* Family, the metrics, the name checks and the text format. Registry,     *)
(* Family and the metrics are shown elsewhere to implement objects whose   *)
(* operations are atomic (RegistrySpec, FamilySpec, HistogramSpec,         *)
(* AtomicCell); here they are such objects, with the contents those        *)
(* modules abstract from: names, labels, boundaries, values.               *)
(***************************************************************************)
EXTENDS CheckNames, TextFormat, FiniteSets

CONSTANTS
  TypeOrder,       \* the metric types a registry collects, in its order
  Names,           \* arguments of Builder::Name
  Helps,           \* arguments of Builder::Help: whether there is a text
  LabelSets,       \* arguments of Builder::Labels and Family::Add
  Arguments(_),    \* type -> constructor arguments: boundaries or quantiles
  Values,          \* what the program observes or sets, doubles
  Less(_, _),      \* < of double
  Estimate,        \* any answer of a quantile, the subject of Summary
  MaxFamilies,     \* bound: families at a time
  MaxMetrics,      \* bound: metrics of all families at a time
  MaxUpdates       \* bound: updates of a metric

Types == Range(TypeOrder)

\* Each type has a place of its own in a registry.
ASSUME TypesAssumption ==
  /\ IsSeq(TypeOrder) /\ IsInjective(TypeOrder)
  /\ Types \subseteq {"CounterDouble", "CounterInt", "GaugeDouble", "GaugeInt",
                      "Histogram", "Info", "Summary"}

\* Names are strings, labels maps, boundaries and quantiles vectors.
ASSUME ArgumentsAssumption ==
  /\ \A name \in Names : IsSeq(name)
  /\ \A l \in LabelSets : IsFiniteSet(DOMAIN l) /\ l = [n \in DOMAIN l |-> l[n]]
  /\ \A T \in Types \cap {"Histogram", "Summary"} : \A arg \in Arguments(T) : IsSeq(arg)

\* T::metric_type
MetricType(T) == CASE T \in {"CounterDouble", "CounterInt"} -> "Counter"
                   [] T \in {"GaugeDouble", "GaugeInt"}     -> "Gauge"
                   [] OTHER                                 -> T

VARIABLE families  \* metric type -> sequence of families

Init == families = [T \in Types |-> << >>]

All == UNION {{<<T, i>> : i \in DOMAIN families[T]} : T \in Types}

Owned == UNION {{<<i, l>> : l \in DOMAIN families[i[1]][i[2]].metrics} : i \in All}

-----------------------------------------------------------------------------
(* Builder and Registry                                                    *)

\* What the setters of a Builder can leave in it: each of them was called or
\* not; the last call counts.
Builders == [name : Names \cup {<< >>}, help : Helps, labels : LabelSets \cup {<< >>}]

\* Not the code: another type's family of the same name is not looked for.
OwnTypeOnly(T, name) == {i \in All : i[1] = T /\ families[T][i[2]].name = name}

\* The families that have the name, of whatever type.
SameName(T, name) == {i \in All : families[i[1]][i[2]].name = name}

\* What the constructor of Family accepts.
Constructible(T, b) ==
  /\ CheckMetricName(b.name)
  /\ \A n \in DOMAIN b.labels : CheckLabelName(n, MetricType(T))

\* Registry::Add. A family of that name ends the call with a reference to it or
\* with an exception, an invalid name with an exception: nothing has changed.
Register(T, b) ==
  /\ SameName(T, b.name) = {}
  /\ Constructible(T, b)
  /\ Cardinality(All) < MaxFamilies
  /\ families' = [families EXCEPT ![T] = Append(@,
       [name |-> b.name, help |-> b.help, constant_labels |-> b.labels, metrics |-> << >>])]

\* Registry::Remove of a family the program has a reference to
RemoveFamily(T) ==
  /\ \E i \in DOMAIN families[T] : families' = [families EXCEPT ![T] = RemoveAt(@, i)]

-----------------------------------------------------------------------------
(* Family                                                                  *)

\* A new metric: a number, the counts of a histogram, those of a summary.
New(T, arg) ==
  CASE T = "Histogram" -> [boundaries |-> arg, counts |-> [i \in 1..Len(arg) + 1 |-> 0], sum |-> 0]
    [] T = "Summary"   -> [quantiles |-> arg, count |-> 0, sum |-> 0]
    [] T = "Info"      -> << >>
    [] OTHER           -> [value |-> 0]

Accepted(T, f, labels) ==
  \A n \in DOMAIN labels :
    CheckLabelName(n, MetricType(T)) /\ n \notin DOMAIN f.constant_labels

SetMetric(T, i, labels, m) ==
  families' = [families EXCEPT ![T][i].metrics =
                 [l \in DOMAIN @ \cup {labels} |-> IF l = labels THEN m ELSE @[l]]]

\* The constructor of Histogram, for numbers.
IsStrictSorted(b) == \A k \in 1..(Len(b) - 1) : Less(b[k], b[k + 1])

\* Family::Add. The metric is made first: boundaries that are not sorted throw.
\* So do labels that are not accepted; labels that are there stay as they are.
AddMetric(T, i, labels, arg) ==
  LET f == families[T][i]
  IN  /\ T = "Histogram" => IsStrictSorted(arg)
      /\ labels \notin DOMAIN f.metrics
      /\ Accepted(T, f, labels)
      /\ Cardinality(Owned) < MaxMetrics
      /\ SetMetric(T, i, labels, New(T, arg))

RemoveMetric(T, i) ==
  /\ \E labels \in DOMAIN families[T][i].metrics :
       families' = [families EXCEPT ![T][i].metrics =
                      [l \in DOMAIN @ \ {labels} |-> @[l]]]

-----------------------------------------------------------------------------
(* Metrics                                                                 *)

Total(counts) == FoldLeft(+, 0, counts)

BucketIndex(m, v) == 1 + Cardinality({k \in DOMAIN m.boundaries : Less(m.boundaries[k], v)})

\* Observe, or Increment or Set of a number
Updated(T, m, v) ==
  CASE T = "Histogram" -> [m EXCEPT !.counts[BucketIndex(m, v)] = @ + 1, !.sum = @ + v]
    [] T = "Summary"   -> [m EXCEPT !.count = @ + 1, !.sum = @ + v]
    [] T \in {"GaugeDouble", "GaugeInt"} -> [value |-> v]
    [] OTHER           -> [value |-> m.value + 1]

Room(T, m) ==
  CASE T = "Histogram" -> Total(m.counts) < MaxUpdates
    [] T = "Summary"   -> m.count < MaxUpdates
    [] T \in {"CounterDouble", "CounterInt"} -> m.value < MaxUpdates
    [] OTHER           -> T # "Info"

Update(T, i) ==
  /\ \E labels \in DOMAIN families[T][i].metrics, v \in Values :
       LET m == families[T][i].metrics[labels]
       IN  Room(T, m) /\ SetMetric(T, i, labels, Updated(T, m, v))

-----------------------------------------------------------------------------
(* Collect                                                                 *)

Pairs(labels) ==
  LET names == SetToSeq(DOMAIN labels)
  IN  [k \in DOMAIN names |-> <<names[k], labels[names[k]]>>]

\* Not the code: every bucket has its own count.
BucketsApart(m) ==
  [k \in DOMAIN m.counts |->
     [cumulative_count |-> m.counts[k],
      upper_bound |-> IF k > Len(m.boundaries) THEN Inf ELSE m.boundaries[k]]]

Buckets(m) ==
  [k \in DOMAIN m.counts |->
     [cumulative_count |-> Total(SubSeq(m.counts, 1, k)),
      upper_bound |-> IF k > Len(m.boundaries) THEN Inf ELSE m.boundaries[k]]]

\* Collect of the metric type: of the members of a ClientMetric, its own.
ClientMetric(T, m, label) ==
  CASE T = "Histogram" ->
         [label |-> label, timestamp_ms |-> 0,
          histogram |-> [bucket |-> Buckets(m), sample_count |-> Total(m.counts),
                         sample_sum |-> m.sum]]
    [] T = "Summary" ->
         [label |-> label, timestamp_ms |-> 0,
          summary |-> [quantile |-> [k \in DOMAIN m.quantiles |->
                                       [quantile |-> m.quantiles[k], value |-> Estimate]],
                       sample_count |-> m.count, sample_sum |-> m.sum]]
    [] T = "Info" -> [label |-> label, timestamp_ms |-> 0, info |-> [value |-> 1]]
    [] OTHER ->
         [label |-> label, timestamp_ms |-> 0,
          number |-> [type  |-> IF T \in {"CounterInt", "GaugeInt"} THEN "INT" ELSE "DOUBLE",
                      value |-> m.value]]

CollectMetric(T, f, labels) ==
  ClientMetric(T, f.metrics[labels], Pairs(f.constant_labels) \o Pairs(labels))

\* A family without metrics collects to nothing.
CollectFamily(T, f) ==
  LET order == SetToSeq(DOMAIN f.metrics)
  IN  IF order = << >> THEN << >>
      ELSE <<[name |-> f.name, help |-> f.help, type |-> MetricType(T),
              metric |-> [k \in DOMAIN order |-> CollectMetric(T, f, order[k])]]>>

CollectAll(T) ==
  FlattenSeq([i \in DOMAIN families[T] |-> CollectFamily(T, families[T][i])])

Collect == FlattenSeq([k \in DOMAIN TypeOrder |-> CollectAll(TypeOrder[k])])

\* What a scrape would give now.
Text == Serialize(Collect)

-----------------------------------------------------------------------------
Next ==
  \/ \E T \in Types, b \in Builders : Register(T, b)
  \/ \E T \in Types : RemoveFamily(T)
  \/ \E T \in Types : \E i \in DOMAIN families[T] :
       \/ \E l \in LabelSets, arg \in Arguments(T) : AddMetric(T, i, l, arg)
       \/ RemoveMetric(T, i) \/ Update(T, i)

Spec == Init /\ [][Next]_families

-----------------------------------------------------------------------------
(* Properties                                                              *)

Families(T) == Range(families[T])

\* No sample has a label name twice: the labels of the family, those of the
\* metric and the one the serializer adds never meet (family.cc:25-29 and 42-51,
\* check_names.cc:76-79, text_serializer.cc:134 and 160).
LabelNamesUnique ==
  \A line \in Range(Text) : IsSample(line) =>
    IsInjective([k \in DOMAIN line.label |-> line.label[k][1]])

\* A text declares the type of a name once, although families of all types
\* share the names (registry.cc:136-158, family.cc:92-94).
Declares(line) == "of" \in DOMAIN line

TypeOnce ==
  LET text == Text
  IN  \A i, j \in DOMAIN text :
        Declares(text[i]) /\ Declares(text[j]) /\ text[i].of = text[j].of => i = j

\* What identifies a time series, and whether all in the text are different.
Series(line) == <<line.name, Range(line.label)>>

SeriesUnique ==
  LET text == Text
  IN  \A i, j \in DOMAIN text :
        IsSample(text[i]) /\ IsSample(text[j]) /\ Series(text[i]) = Series(text[j]) => i = j

\* No name is that of a series another family derives from its own name.
NamesApart ==
  \A i, j \in All : \A suffix \in {"count", "sum", "bucket", "info"} :
    families[i[1]][i[2]].name # families[j[1]][j[2]].name \o <<"_", suffix>>

\* The boundaries and quantiles of every metric read differently, and none as
\* the +Inf that a histogram adds itself.
BoundsApart ==
  \A T \in Types \cap {"Histogram", "Summary"} : \A f \in Families(T) :
    \A m \in Range(f.metrics) :
      LET b == IF T = "Histogram" THEN Append(m.boundaries, Inf) ELSE m.quantiles
      IN  IsInjective([k \in DOMAIN b |-> WriteValue(b[k])])

\* Every metric is uniquely identified by its name and its labels (family.h:66),
\* in the text, too, as long as no name ends like a derived one and no two
\* bounds of a metric are written alike.
SeriesUniqueIfApart == NamesApart /\ BoundsApart => SeriesUnique

\* What a query needs of a histogram: its buckets only grow from line to line,
\* and the last one is +Inf and holds as much as the count says, however the
\* observations fell (histogram.cc:80-91, text_serializer.cc:158-170).
HistogramsClosed ==
  \A f \in Range(Collect) : f.type = "Histogram" => \A k \in DOMAIN f.metric :
    LET lines == SerializeHistogram(f, f.metric[k])
    IN  /\ \A i \in 3..(Len(lines) - 1) : lines[i].value <= lines[i + 1].value
        /\ <<<<"le">>, Inf>> \in Range(Last(lines).label)
        /\ Last(lines).value = lines[1].value

-----------------------------------------------------------------------------
(* The inductive invariant: what families and metrics look like, that the   *)
(* names are different and the labels checked.                              *)

IsMetric(T, m) ==
  /\ T = "Histogram" =>
       /\ m = [boundaries |-> m.boundaries, counts |-> m.counts, sum |-> m.sum]
       /\ IsSeq(m.boundaries)
       /\ m.counts \in [1..(Len(m.boundaries) + 1) -> Nat]
  /\ T = "Summary" =>
       /\ m = [quantiles |-> m.quantiles, count |-> m.count, sum |-> m.sum]
       /\ IsSeq(m.quantiles)

IsFamily(T, f) ==
  /\ f = [name |-> f.name, help |-> f.help, constant_labels |-> f.constant_labels,
          metrics |-> f.metrics]
  /\ IsSeq(f.name)
  /\ f.constant_labels \in LabelSets \cup {<< >>}
  /\ f.metrics = [l \in DOMAIN f.metrics |-> f.metrics[l]]
  /\ IsFiniteSet(DOMAIN f.metrics) /\ DOMAIN f.metrics \subseteq LabelSets
  /\ \A l \in DOMAIN f.metrics : IsMetric(T, f.metrics[l])

LabelsChecked(T, f) ==
  /\ \A n \in DOMAIN f.constant_labels : CheckLabelName(n, MetricType(T))
  /\ \A l \in DOMAIN f.metrics : Accepted(T, f, l)

TypeOK ==
  /\ families = [T \in Types |-> families[T]]
  /\ \A T \in Types : IsSeq(families[T]) /\ \A f \in Families(T) : IsFamily(T, f)

NamesUnique ==
  \A i, j \in All : families[i[1]][i[2]].name = families[j[1]][j[2]].name => i = j

IInv ==
  /\ TypeOK
  /\ NamesUnique
  /\ \A T \in Types : \A f \in Families(T) : LabelsChecked(T, f)
=============================================================================

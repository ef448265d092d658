----------------------------- MODULE TextFormat -----------------------------
(***************************************************************************)
(* What promcore::TextSerializer makes of a scrape (core/src/              *)
(* text_serializer.cc): a sequence of lines. A scrape is a sequence of     *)
(* MetricFamily records, [name, help, type, metric], whose metrics are     *)
(* ClientMetric records: labels, a timestamp and, of the members for each  *)
(* metric type, the one that the type of the family makes the code read.   *)
(*                                                                         *)
(* A sample line is [name, label, value, timestamp]; label is a sequence   *)
(* of pairs. Escaping of label values is injective and left out.           *)
(***************************************************************************)
EXTENDS Naturals, Sequences, SequencesExt

CONSTANTS
  Inf,         \* the double +infinity
  Printed(_)   \* the number a finite double is read back as from its text

\* s is a vector.
IsSeq(s) == s \in Seq(Range(s))

\* WriteValue for double. +Inf and Nan have names of their own.
WriteValue(x) == IF x = Inf THEN Inf ELSE Printed(x)

\* One line: WriteHead, a value, WriteTail.
Line(family, metric, suffix, extra, value) ==
  [name |-> family.name \o suffix, label |-> metric.label \o extra,
   value |-> value, timestamp |-> metric.timestamp_ms]

Plain(family, metric, value) == Line(family, metric, << >>, << >>, value)

CountLine(family, metric, n) == Line(family, metric, <<"_", "count">>, << >>, n)

SumLine(family, metric, x) == Line(family, metric, <<"_", "sum">>, << >>, WriteValue(x))

\* Integer counters and gauges are written with all their digits.
SerializeNumber(family, metric) ==
  <<Plain(family, metric, IF metric.number.type = "INT" THEN metric.number.value
                          ELSE WriteValue(metric.number.value))>>

SerializeInfo(family, metric) ==
  <<Line(family, metric, <<"_", "info">>, << >>, WriteValue(metric.info.value))>>

SerializeSummary(family, metric) ==
  LET s == metric.summary
      Quantile(q) == Line(family, metric, << >>,
                          <<<< <<"quantile">>, WriteValue(q.quantile)>>>>, WriteValue(q.value))
  IN  <<CountLine(family, metric, s.sample_count), SumLine(family, metric, s.sample_sum)>>
        \o [i \in DOMAIN s.quantile |-> Quantile(s.quantile[i])]

BucketLine(family, metric, bound, n) ==
  Line(family, metric, <<"_", "bucket">>, <<<< <<"le">>, bound>>>>, n)

\* Not the code: the +Inf bucket is left to the metric.
SerializeClosedHistogram(family, metric) ==
  LET h == metric.histogram
      Bucket(b) == BucketLine(family, metric, WriteValue(b.upper_bound), b.cumulative_count)
  IN  <<CountLine(family, metric, h.sample_count), SumLine(family, metric, h.sample_sum)>>
        \o [i \in DOMAIN h.bucket |-> Bucket(h.bucket[i])]

\* The bucket +Inf is added unless the last bucket of the metric is one.
SerializeHistogram(family, metric) ==
  LET h == metric.histogram
      Bucket(b) == BucketLine(family, metric, WriteValue(b.upper_bound), b.cumulative_count)
      ends == h.bucket # << >> /\ Last(h.bucket).upper_bound = Inf
  IN  <<CountLine(family, metric, h.sample_count), SumLine(family, metric, h.sample_sum)>>
        \o [i \in DOMAIN h.bucket |-> Bucket(h.bucket[i])]
        \o (IF ends THEN << >> ELSE <<BucketLine(family, metric, Inf, h.sample_count)>>)

SerializeMetric(family, metric) ==
  CASE family.type \in {"Counter", "Gauge", "Untyped"} -> SerializeNumber(family, metric)
    [] family.type = "Info"      -> SerializeInfo(family, metric)
    [] family.type = "Summary"   -> SerializeSummary(family, metric)
    [] family.type = "Histogram" -> SerializeHistogram(family, metric)

\* The text format knows no Info.
TypeWord(type) == IF type = "Info" THEN "Gauge" ELSE type

SerializeFamily(family) ==
  (IF family.help THEN <<[help |-> family.name]>> ELSE << >>)
    \o <<[type |-> TypeWord(family.type), of |-> family.name]>>
    \o FlattenSeq([i \in DOMAIN family.metric |-> SerializeMetric(family, family.metric[i])])

Serialize(scrape) == FlattenSeq([i \in DOMAIN scrape |-> SerializeFamily(scrape[i])])

\* Whether a line of a text is a sample.
IsSample(line) == "label" \in DOMAIN line
=============================================================================

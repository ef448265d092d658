-------------------------- MODULE MCTextSerializer --------------------------
(* Histograms that the program itself would not make among the scrapes.     *)
EXTENDS TextSerializer

MCInf == 100000
MCPrinted(x) == x

\* upper bounds -> cumulative counts of 1, 2, ...
Histogram(bounds, label, n) ==
  [label |-> label, timestamp_ms |-> 0,
   histogram |-> [sample_count |-> n, sample_sum |-> 5,
                  bucket |-> [k \in DOMAIN bounds |->
                                [cumulative_count |-> k, upper_bound |-> bounds[k]]]]]

HistogramFamily(metric) ==
  [name |-> <<"h">>, help |-> TRUE, type |-> "Histogram", metric |-> metric]

Untyped == [name |-> <<"u">>, help |-> FALSE, type |-> "Untyped",
            metric |-> <<[label |-> << >>, timestamp_ms |-> 1,
                          number |-> [type |-> "DOUBLE", value |-> 3]]>>]

Job == << <<<<"job">>, "api">> >>

\* No buckets; a last bucket 1; a last bucket +Inf; two metrics of a family.
MCScrapes ==
  {<<HistogramFamily(<<Histogram(<< >>, << >>, 2)>>), Untyped>>,
   <<HistogramFamily(<<Histogram(<<1>>, << >>, 2)>>)>>,
   <<HistogramFamily(<<Histogram(<<1, MCInf>>, << >>, 2)>>)>>,
   <<Untyped, HistogramFamily(<<Histogram(<<1, MCInf>>, Job, 2), Histogram(<<1>>, << >>, 1)>>)>>,
   << >>}

\* What the theorem about closed histograms assumes holds of them.
ASSUME ScrapesAssumption == \A s \in MCScrapes : IsScrape(s) /\ OwnNames(s) /\ OwnBounds(s)
=============================================================================

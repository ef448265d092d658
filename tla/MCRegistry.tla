----------------------------- MODULE MCRegistry -----------------------------
(* Small registries for TLC. *)
EXTENDS Registry, TLC

CONSTANTS t1, t2, l1, l2, a1, a2

MCThreads   == {t1, t2}
MCTypeOrder == <<"CounterDouble", "Histogram">>
MCNames     == {"requests", "errors"}
MCAddrs     == {a1, a2}
MCLabelSets == {l1, l2}

\* l2 stands for a label set with the label "le", which only a histogram
\* refuses.
MCRejected == {f \in Family : f.type = "Histogram" /\ f.labels = l2}
=============================================================================

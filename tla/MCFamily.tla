------------------------------ MODULE MCFamily ------------------------------
(* A small histogram family with the constant label "job". *)
EXTENDS Family, TLC

CONSTANTS t1, t2, a1, a2, a3

MCThreads == {t1, t2}
MCAddrs   == {a1, a2, a3}

\* Two good label sets, a name the metric type reserves, a constant label.
MCLabelSets == {"code" :> "200", "code" :> "500", "le" :> "1", "job" :> "api"}
MCLabelNames    == {"code", "job"}
MCConstantNames == {"job"}
=============================================================================

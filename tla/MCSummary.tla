----------------------------- MODULE MCSummary -----------------------------
(* A summary with two quantiles and a window of a few clock ticks.          *)
EXTENDS Summary, TLC

CONSTANTS t1, t2

MCThreads == {t1, t2}
MCValues  == {-1, 5}
=============================================================================

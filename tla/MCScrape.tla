------------------------------ MODULE MCScrape ------------------------------
(* A family of counters and one of histograms.                              *)
EXTENDS Scrape

CONSTANTS t1, t2, counters, histograms, a

MCThreads   == {t1, t2}
MCFamilies  == {counters, histograms}
MCAtomic    == {counters}
MCLabelSets == {a}
=============================================================================

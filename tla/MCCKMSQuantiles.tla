-------------------------- MODULE MCCKMSQuantiles --------------------------
(* The sketch with the targets of a typical summary, and with looser ones   *)
(* that let it merge items at both ends after a handful of insertions.      *)
EXTENDS CKMSQuantiles, TLC

MCTargets == {[quantile |-> 50, error |-> 10], [quantile |-> 90, error |-> 5]}
MCLooseTargets ==
  {[quantile |-> 50, error |-> 10], [quantile |-> 90, error |-> 10]}
MCValues  == 1..4
=============================================================================

---------------------------- MODULE MCStatsCache ----------------------------
(* Instances of StatsCache for TLC; the cfg files choose the deployment.   *)
EXTENDS StatsCache, TLC
=============================================================================

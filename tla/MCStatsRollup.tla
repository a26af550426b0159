--------------------------- MODULE MCStatsRollup ---------------------------
(* Model-checking instances of StatsRollup. *)
EXTENDS StatsRollup
=============================================================================

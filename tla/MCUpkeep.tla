----------------------------- MODULE MCUpkeep -----------------------------
(* Upkeep with hours scaled down: a sweep every 4, 5 allowed, a report every *)
(* tick, so that grace, jitter and several missed sweeps all fit.            *)
EXTENDS Upkeep
===========================================================================

-------------------------- MODULE MC_PerfCollector --------------------------
(* PerfCollector for TLC: two metrics, unscaled and percent-scaled samples, *)
(* at most two retained samples per metric.                                 *)
EXTENDS PerfCollector

CONSTANTS cpu, ram

MC_Metrics == {cpu, ram}
MC_Samples == {5, 250}
MC_Scales == {1, 100}

\* Offsets into a flat array of at most two samples of each of two metrics.
MC_Offsets == 0..4
=============================================================================

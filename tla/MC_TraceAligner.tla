-------------------------- MODULE MC_TraceAligner --------------------------
(* Three plotted cores, two kernel timer ids, up to three events per RISC. *)
EXTENDS TraceAligner

CONSTANTS c1, c2, c3

MCPlotCores == <<c1, c2, c3>>
MCMarkers == {1, 2}
=============================================================================

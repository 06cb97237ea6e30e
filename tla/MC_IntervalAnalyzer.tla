------------------------ MODULE MC_IntervalAnalyzer ------------------------
(* Analyses of a RISC series (no metaData), of a core's TENSIX series      *)
(* (<<risc>>) and of the device's TENSIX series (<<risc, core>>).          *)
EXTENDS IntervalAnalyzer

CONSTANTS NoCoreValue, cA, cB

MCTimerIDs == {0, 1, 2}
MCRiscs == {"BRISC", "NCRISC"}
MCCoreIDs == {cA, cB}
Types == {"adjacent", "first_last"}

(* endpoints as plot_setup writes them: a timer id, a risc, and for core  *)
(* and device analyses a "core" that is usually "ANY"                      *)
RiscEndpoints == [timerID : {1, 2}, risc : {"BRISC"}]
CoreEndpoints == [timerID : {1, 2}, risc : {"BRISC", "ANY"}]
DeviceEndpoints ==
    [timerID : {1, 2}, risc : {"ANY"}, core : {"ANY", cA}]
      \cup [timerID : {1}, risc : {"BRISC"}]

RiscAnalyses == [type : Types, start : RiscEndpoints, end : RiscEndpoints]
CoreAnalyses == [type : Types, start : CoreEndpoints, end : CoreEndpoints]
(* span analyses whose start and end timers differ, such as "FW start" to  *)
(* "FW end": the backward scan can still meet an end before the start     *)
SpanAnalyses ==
    { an \in [type : {"first_last"}, start : RiscEndpoints, end : RiscEndpoints] :
        an.start.timerID # an.end.timerID }
DeviceAnalyses == [type : Types, start : DeviceEndpoints, end : DeviceEndpoints]
=============================================================================

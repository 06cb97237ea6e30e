---------------------------- MODULE TimerAnalysis ----------------------------
(***************************************************************************)
(* The marker matching of translate_metaData and determine_conditions      *)
(* (process_device_log.py lines 523-560), and timeseries_analysis (lines   *)
(* 563-594) as one function from a series and an analysis to the list of  *)
(* records it builds.  IntervalAnalyzer runs the same scan step by step   *)
(* and checks that it ends with Analyze's result; Pipeline calls Analyze  *)
(* on every series the dispatch of import_log_run_stats selects.          *)
(*                                                                         *)
(* An event is [id, ts, meta]; meta is the tuple of tags after the        *)
(* timestamp: none, <<risc>>, <<core>> or <<risc, core>>.                 *)
(***************************************************************************)
EXTENDS Integers, Sequences, FiniteSets, FiniteSetsExt

CONSTANTS
    Riscs,      \* RISC names
    CoreIDs,    \* core coordinates
    NoCore      \* None: an analysis endpoint without a "core" key

None == <<>>
NoMeta == "none"   \* metaRisc / metaCore = None

(***************************************************************************)
(* translate_metaData: a two-element metaData is <<risc, core>>, a single  *)
(* one is a risc (a string) or a core (a tuple).  A requested core or risc *)
(* that is not "ANY" is overwritten by the event's own; "ANY" is kept.     *)
(***************************************************************************)
MetaRisc(meta) ==
    IF Len(meta) = 2 \/ (Len(meta) = 1 /\ meta[1] \in Riscs) THEN meta[1]
    ELSE NoMeta
MetaCore(meta) ==
    IF Len(meta) = 2 THEN meta[2]
    ELSE IF Len(meta) = 1 /\ meta[1] \in CoreIDs THEN meta[1]
    ELSE NoMeta

TranslateMetaData(meta, core, risc) ==
    << IF core # "ANY" /\ MetaCore(meta) # NoMeta THEN MetaCore(meta) ELSE core,
       IF risc # "ANY" /\ MetaRisc(meta) # NoMeta THEN MetaRisc(meta) ELSE risc >>

(* analysis["start"]["core"] if "core" in analysis["start"] else None *)
CoreOf(ep) == IF "core" \in DOMAIN ep THEN ep.core ELSE NoCore

(* determine_conditions: currStart == desStart and currEnd == desEnd *)
Cond(ev, ep) ==
    <<ev.id>> \o TranslateMetaData(ev.meta, CoreOf(ep), ep.risc)
        = <<ep.timerID, CoreOf(ep), ep.risc>>
IsStart(ev, an) == Cond(ev, an.start)
IsEnd(ev, an) == Cond(ev, an.end)

(* dict(start=, end=, durationType=, diff=) for the events at indexes a   *)
(* and b; the indexes are kept so that properties can name the events.    *)
Rec(s, a, b) ==
    [start |-> s[a].ts, end |-> s[b].ts, durationType |-> <<s[a].id, s[b].id>>,
     diff |-> s[b].ts - s[a].ts, s |-> a, e |-> b]

(* The forward loop of lines 567-582 from index n, with the index of the  *)
(* open start (0 for None) and the records so far.                        *)
RECURSIVE PairedScan(_, _, _, _, _)
PairedScan(s, an, n, open, acc) ==
    IF n > Len(s) THEN acc
    ELSE IF open = 0
         THEN PairedScan(s, an, n + 1, IF IsStart(s[n], an) THEN n ELSE 0, acc)
    ELSE IF IsEnd(s[n], an)
         THEN PairedScan(s, an, n + 1, 0, Append(acc, Rec(s, open, n)))
    ELSE PairedScan(s, an, n + 1, IF IsStart(s[n], an) THEN n ELSE open, acc)

(* "first_last": the forward loop stops at the first start; the loop of    *)
(* lines 585-594 takes the last end among indexes Len..2.                  *)
SpanScan(s, an) ==
    LET starts == {n \in 1..Len(s) : IsStart(s[n], an)}
        ends   == {n \in 2..Len(s) : IsEnd(s[n], an)}
    IN  IF starts = {} \/ ends = {} THEN <<>>
        ELSE <<Rec(s, Min(starts), Max(ends))>>

Analyze(s, an) ==
    IF an.type = "first_last" THEN SpanScan(s, an) ELSE PairedScan(s, an, 1, 0, <<>>)

(* tmpDF.loc[:, "diff"]: the durations of the records *)
Diffs(recs) == [n \in DOMAIN recs |-> recs[n].diff]
=============================================================================

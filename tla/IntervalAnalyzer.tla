--------------------------- MODULE IntervalAnalyzer ---------------------------
(***************************************************************************)
(* One run of timeseries_analysis (process_device_log.py lines 563-616) on *)
(* one timeseries and one timerAnalysis entry, with the marker matching of *)
(* determine_conditions and translate_metaData (lines 523-560).            *)
(*                                                                         *)
(* An event is <<timerID, timestamp, *metaData>>; its metaData depends on  *)
(* the scope the series comes from: nothing for a RISC series, <<risc>>    *)
(* for a core's "TENSIX" series, <<risc, core>> for the device's "TENSIX"  *)
(* series.  The forward scan is one step per event; in "first_last" mode   *)
(* it breaks at the first start and the backward scan of lines 584-594    *)
(* runs one step per index.  The step Summarize is the DataFrame block     *)
(* of lines 596-616 that turns the records into the stats.                 *)
(***************************************************************************)
EXTENDS Integers, Sequences, SequencesExt, FiniteSets, Stats, TimerAnalysis

CONSTANTS
    TimerIDs,     \* timer ids in the series (0 is the global-min marker)
    Scope,        \* "risc", "core" or "device": where the series comes from
    Analyses,     \* the timerAnalysis entries to try
    MaxLen,       \* bound on the length of the series
    MaxTS         \* bound on the timestamps (relative to the global min)

ASSUME Scope \in {"risc", "core", "device"}
ASSUME MaxLen \in Nat \ {0} /\ MaxTS \in Nat

(* The metaData an event of the series carries in this scope. *)
Metas ==
    CASE Scope = "risc"   -> {<<>>}
      [] Scope = "core"   -> {<<r>> : r \in Riscs}
      [] Scope = "device" -> {<<r, c>> : r \in Riscs, c \in CoreIDs}

Events == [id : TimerIDs, ts : 0..MaxTS, meta : Metas]

(* A series as the builder leaves it: sorted by timestamp and starting     *)
(* with a marker-0 event at the global min (timestamp 0 here).             *)
Sorted(s) == \A i \in 1..Len(s) - 1 : s[i].ts <= s[i + 1].ts
SeriesSet ==
    { s \in { <<e0>> \o t : e0 \in {e \in Events : e.id = 0 /\ e.ts = 0},
                            t \in BoundedSeq(Events, MaxLen - 1) } :
        Sorted(s) }

VARIABLES
    series,      \* riscData["timeseries"]
    analysis,    \* the timerAnalysis entry
    i,           \* index of the forward scan
    j,           \* index of the backward scan
    startFound,  \* None or the start event, with its index
    tmpList,     \* the records found so far
    stats,       \* None or the "stats" dict of riscData["analysis"][name]
    phase        \* "fwd", "bwd", "stats" or "done"

vars == <<series, analysis, i, j, startFound, tmpList, stats, phase>>

FirstLast == analysis.type = "first_last"
Ev == series[i]
(* the record of the open start and the end at index e *)
Record(st, e) == Rec(series, st.idx, e)

Init ==
    /\ series \in SeriesSet
    /\ analysis \in Analyses
    /\ i = 1 /\ j = 0
    /\ startFound = None
    /\ tmpList = <<>>
    /\ stats = None
    /\ phase = "fwd"

FwdStep == phase = "fwd" /\ i <= Len(series)
Found == [id |-> Ev.id, ts |-> Ev.ts, idx |-> i]

(* mutant: the backward scan starts at range(len(timeseries), 0, -1) *)
FwdOpenOffByOne ==
    /\ FwdStep /\ startFound = None /\ IsStart(Ev, analysis)
    /\ startFound' = Found
    /\ IF FirstLast THEN phase' = "bwd" /\ j' = Len(series) + 1 /\ i' = i
                    ELSE i' = i + 1 /\ UNCHANGED <<phase, j>>
    /\ UNCHANGED <<series, analysis, tmpList, stats>>

(* mutant: "first_last" does not break at the first start *)
FwdOpenNoBreak ==
    /\ FwdStep /\ startFound = None /\ IsStart(Ev, analysis)
    /\ startFound' = Found
    /\ i' = i + 1
    /\ UNCHANGED <<phase, j, series, analysis, tmpList, stats>>

(* not startFound and currStart == desStart; "first_last" breaks here *)
FwdOpen ==
    /\ FwdStep /\ startFound = None /\ IsStart(Ev, analysis)
    /\ startFound' = Found
    /\ IF FirstLast THEN phase' = "bwd" /\ j' = Len(series) /\ i' = i
                    ELSE i' = i + 1 /\ UNCHANGED <<phase, j>>
    /\ UNCHANGED <<series, analysis, tmpList, stats>>

(* mutant: an event is passed over before testing it as a start *)
FwdSkipAnyEvent ==
    /\ FwdStep /\ startFound = None
    /\ i' = i + 1
    /\ UNCHANGED <<series, analysis, j, startFound, tmpList, stats, phase>>

FwdSkip ==
    /\ FwdStep /\ startFound = None /\ ~IsStart(Ev, analysis)
    /\ i' = i + 1
    /\ UNCHANGED <<series, analysis, j, startFound, tmpList, stats, phase>>

(* a start is open and currEnd == desEnd: record the pair *)
FwdClose ==
    /\ FwdStep /\ startFound # None /\ IsEnd(Ev, analysis)
    /\ tmpList' = Append(tmpList, Record(startFound, i))
    /\ startFound' = None
    /\ i' = i + 1
    /\ UNCHANGED <<series, analysis, j, stats, phase>>

(* mutant: a repeated start keeps the first one open *)
FwdReopenKeep ==
    /\ FwdStep /\ startFound # None
    /\ ~IsEnd(Ev, analysis) /\ IsStart(Ev, analysis)
    /\ i' = i + 1
    /\ UNCHANGED <<series, analysis, j, startFound, tmpList, stats, phase>>

(* a start is open and the event is a start again: the later one wins *)
FwdReopen ==
    /\ FwdStep /\ startFound # None
    /\ ~IsEnd(Ev, analysis) /\ IsStart(Ev, analysis)
    /\ startFound' = Found
    /\ i' = i + 1
    /\ UNCHANGED <<series, analysis, j, tmpList, stats, phase>>

FwdIgnore ==
    /\ FwdStep /\ startFound # None
    /\ ~IsEnd(Ev, analysis) /\ ~IsStart(Ev, analysis)
    /\ i' = i + 1
    /\ UNCHANGED <<series, analysis, j, startFound, tmpList, stats, phase>>

FwdEnd ==
    /\ phase = "fwd" /\ i > Len(series)
    /\ phase' = "stats"
    /\ UNCHANGED <<series, analysis, i, j, startFound, tmpList, stats>>

(* for i in range(len(timeseries) - 1, 0, -1): the first end from the     *)
(* back is recorded against the start and the scan breaks               *)
BwdStep ==
    /\ phase = "bwd" /\ j >= 2
    /\ IF IsEnd(series[j], analysis)
         THEN /\ tmpList' = Append(tmpList, Record(startFound, j))
              /\ startFound' = None
              /\ phase' = "stats"
              /\ UNCHANGED j
         ELSE /\ j' = j - 1
              /\ UNCHANGED <<tmpList, startFound, phase>>
    /\ UNCHANGED <<series, analysis, i, stats>>

BwdEnd ==
    /\ phase = "bwd" /\ j < 2
    /\ phase' = "stats"
    /\ UNCHANGED <<series, analysis, i, j, startFound, tmpList, stats>>

(* if not tmpDF.empty: riscData["analysis"][name] = {..., "stats": ...} *)
Summarize ==
    /\ phase = "stats"
    /\ stats' = IF tmpList = <<>> THEN None ELSE StatsOf(Diffs(tmpList))
    /\ phase' = "done"
    /\ UNCHANGED <<series, analysis, i, j, startFound, tmpList>>

Next ==
    \/ FwdOpen \/ FwdSkip \/ FwdClose \/ FwdReopen \/ FwdIgnore \/ FwdEnd
    \/ BwdStep \/ BwdEnd \/ Summarize

Spec == Init /\ [][Next]_vars /\ WF_vars(Next)

-----------------------------------------------------------------------------
TypeOK ==
    /\ Sorted(series) /\ analysis \in Analyses
    /\ i \in 1..Len(series) + 1 /\ j \in 0..Len(series)
    /\ startFound = None \/ startFound.idx \in 1..Len(series)
    /\ tmpList \in Seq([start : Int, end : Int, durationType : TimerIDs \X TimerIDs,
                        diff : Int, s : Nat, e : Nat])
    /\ phase \in {"fwd", "bwd", "stats", "done"}

Opens(n) == IsStart(series[n], analysis)
Closes(n) == IsEnd(series[n], analysis)
Ends == { r.e : r \in Range(tmpList) }

(* Paired mode (spec 4.3): every record pairs a start with the next end    *)
(* and no start or end lies strictly between them, so a repeated start    *)
(* replaces the open one (FwdReopen) and an end closes only the most      *)
(* recent start.                                                          *)
PairedTight ==
    ~FirstLast =>
        \A r \in Range(tmpList) :
            /\ r.s < r.e /\ Opens(r.s) /\ Closes(r.e)
            /\ \A m \in r.s + 1..r.e - 1 : ~Opens(m) /\ ~Closes(m)

(* Paired mode: once the scan is over, every end that follows an unused   *)
(* start with no recorded end in between has been recorded, so no pair   *)
(* of the series is lost.                                                  *)
PairedComplete ==
    (phase = "done" /\ ~FirstLast) =>
        \A e \in 1..Len(series) :
            (/\ Closes(e)
             /\ \E s \in 1..e - 1 :
                    /\ Opens(s) /\ s \notin Ends
                    /\ \A r \in Range(tmpList) : ~(s <= r.e /\ r.e < e))
            => e \in Ends

(* Span mode (spec 4.3): a "first_last" analysis yields at most one      *)
(* record, and it is opened by the FIRST start of the series.  This needs *)
(* the break of line 573 right after the first start, and the backward    *)
(* scan of lines 584-594 to stop at the first end it meets and to run     *)
(* only while that start is still open.                                   *)
SpanFromFirstStart ==
    FirstLast =>
        /\ Len(tmpList) <= 1
        /\ \A r \in Range(tmpList) :
               /\ Opens(r.s)
               /\ \A m \in 1..r.s - 1 : ~Opens(m)

(* Span mode (spec 4.3): the one record pairs the first start with the    *)
(* last end AFTER it, so its duration ("diff", end minus start) is never *)
(* negative; a trace with no end after its first start yields no record.  *)
(* The backward scan of lines 585-594 runs down to index 1 whatever the   *)
(* start's index.                                                          *)
SpanNotNegative ==
    FirstLast => \A r \in Range(tmpList) : r.diff >= 0

(* Matching (spec 3 and 4.3): an endpoint's location is optional, and an   *)
(* endpoint that declares none is matched on its timer id and RISC alone,  *)
(* whatever core the event carries in its metaData.                        *)
UndeclaredCoreMatchesAnyCore ==
    \A n \in 1..Len(series) : \A ep \in {analysis.start, analysis.end} :
        ("core" \notin DOMAIN ep /\ ep.risc # "ANY"
         /\ series[n].id = ep.timerID /\ MetaRisc(series[n].meta) = ep.risc)
            => Cond(series[n], ep)
=============================================================================

------------------------------- MODULE Timeline -------------------------------
(***************************************************************************)
(* generate_plots (process_device_log.py lines 708-717) after the builder:  *)
(* for every chip in dict order, timeseries_to_durations (lines 333-354)   *)
(* stores the "durations" of every series of the chip, the plotted rows   *)
(* are the chip's cores sorted by coreCompare (lines 21-26) in reverse    *)
(* with "DEVICE" removed, and plotData_to_timelineXVals (lines 357-424)   *)
(* aligns the durations of every plotted RISC and looks up each column's  *)
(* bar length per row.  timeline_plot and the HTML files only draw this.   *)
(*                                                                         *)
(* The builder is TimeseriesBuilder itself, its variables shared; the     *)
(* alignment loop is Alignment's Align, the function form of the loop    *)
(* TraceAligner runs step by step.  A series is named <<chip, core, risc>>,*)
(* with core "DEVICE" for the device view and risc "TENSIX" for a merged  *)
(* view.                                                                   *)
(***************************************************************************)
EXTENDS Integers, Sequences, SequencesExt, FiniteSets, Alignment

CONSTANTS
    Chips, CoreIDs, Riscs, TimerIDs, MaxTS, MaxRows,
    CoreXY,      \* the (x, y) coordinates of each core id
    PlotRiscs,   \* setup.riscsData.keys()
    NoKey        \* (1 << 64) - 1: above the key of every core

VARIABLES
    rows, n, data, globalMin, metadata, d, coreView, devView, pc,
    ci,          \* index of the chip the loop of generate_plots is at
    durations,   \* durations[<<chip, core, risc>>]: riscData["durations"]
    plots        \* plots[chip]: the yVals and xValsDict given to timeline_plot

B == INSTANCE TimeseriesBuilder

bvars == <<rows, n, data, globalMin, metadata, d, coreView, devView, pc>>
vars == <<bvars, ci, durations, plots>>

(* coreCompare: a coordinate core sorts by x + 100 y, "DEVICE" last *)
CoreCompare(c) == IF c = "DEVICE" THEN NoKey ELSE CoreXY[c][1] + CoreXY[c][2] * 100

(* mutant: "DEVICE" is left among the plotted rows *)
YValsWithDevice(ch) == B!CoreOrder(ch) \o <<"DEVICE">>

(* sorted(cores, key=coreCompare, reverse=True) is stable: ties keep the  *)
(* dict order; then yVals.remove("DEVICE")                                *)
YVals(ch) ==
    LET cs == B!CoreOrder(ch) \o <<"DEVICE">>
        idx == SortSeq([m \in 1..Len(cs) |-> m],
                       LAMBDA a, b : CoreCompare(cs[a]) > CoreCompare(cs[b])
                                     \/ (CoreCompare(cs[a]) = CoreCompare(cs[b]) /\ a < b))
    IN  SelectSeq([m \in 1..Len(cs) |-> cs[idx[m]]], LAMBDA c : c # "DEVICE")

(* the series of deviceData["cores"][core]["riscs"] of one chip *)
SeriesKeys(ch) ==
    { k \in DOMAIN data : k[1] = ch } \cup
    { <<ch, cc[2], "TENSIX">> : cc \in { cc \in DOMAIN coreView : cc[1] = ch } } \cup
    { <<ch, "DEVICE", cr[2]>> : cr \in { cr \in DOMAIN devView : cr[1] = ch } }
SeriesOf(key) ==
    IF key[2] = "DEVICE" THEN devView[<<key[1], key[3]>>] ELSE B!SeriesAt(key[1], key[2], key[3])

(* start = timerID, or (timerID, *meta) when the event has metadata *)
Labels(s) == [m \in DOMAIN s |-> <<s[m].id, s[m].meta>>]

(* durations["data"]: per duration type, its (startTime, endTime,        *)
(* endTime - startTime) in the order they occur (lines 347-350)           *)
DurationsData(s) ==
    LET dt == DurationTypes(Labels(s))
        Inst(t) == SelectSeq([i \in DOMAIN dt |-> i], LAMBDA i : dt[i] = t)
    IN  [t \in Range(dt) |->
           [m \in DOMAIN Inst(t) |->
              LET i == Inst(t)[m] IN <<s[i].ts, s[i + 1].ts, s[i + 1].ts - s[i].ts>>]]

TimeseriesToDurations(ch) ==
    [key \in SeriesKeys(ch) |->
        [data |-> DurationsData(SeriesOf(key)), order |-> OrderOf(Labels(SeriesOf(key)))]]

(* mutant: the bar is the end time of the instance, not its duration *)
XValEndTime(dur, trace) == dur.data[trace[1]][trace[2] + 1][2]

(* data[traceType[0]][traceType[1]][2]: the duration of that instance *)
XVal(dur, trace) == dur.data[trace[1]][trace[2] + 1][3]

(* xValsDict[risc]: plotData_to_timelineXVals for one RISC over the rows  *)
(* ys: the alignment of the rows' order lists, then per column the bar of *)
(* every row, 0 for a row that is not in the column (lines 413-424)        *)
XVals(dd, ch, ys, r) ==
    LET rc == { c \in Range(ys) : <<ch, c, r>> \in DOMAIN dd }
        o == [c \in Range(ys) |-> IF c \in rc THEN dd[<<ch, c, r>>].order ELSE <<>>]
        cols == Align(o, rc, ys)
    IN  [i \in DOMAIN cols |->
           <<cols[i].t,
             [j \in DOMAIN ys |-> IF ys[j] \in cols[i].cores
                                    THEN XVal(dd[<<ch, ys[j], r>>], cols[i].t) ELSE 0]>>]

Init ==
    /\ B!Init
    /\ ci = 1
    /\ durations = <<>>
    /\ plots = <<>>

(* import_log_run_stats: one step of the builder *)
Build ==
    /\ B!Next
    /\ UNCHANGED <<ci, durations, plots>>

(* one pass of the chip loop of generate_plots *)
GeneratePlots ==
    /\ pc = "done" /\ ci <= Len(B!ChipOrder)
    /\ LET ch == B!ChipOrder[ci]
           dd == durations @@ TimeseriesToDurations(ch)
           ys == YVals(ch)
       IN  /\ durations' = dd
           /\ plots' = plots @@ (ch :> [yVals |-> ys,
                                        xVals |-> [r \in PlotRiscs |-> XVals(dd, ch, ys, r)]])
    /\ ci' = ci + 1
    /\ UNCHANGED bvars

Next == Build \/ GeneratePlots

Spec == Init /\ [][Next]_vars /\ WF_vars(Next)

-----------------------------------------------------------------------------
TypeOK ==
    /\ ci \in 1..Len(B!ChipOrder) + 1
    /\ DOMAIN plots \subseteq Chips
    /\ \A ch \in DOMAIN plots : plots[ch].yVals \in Seq(CoreIDs)

(* the gaps between consecutive events of a series, and a row without     *)
(* its empty bars                                                          *)
Gaps(s) == [i \in 1..Len(s) - 1 |-> s[i + 1].ts - s[i].ts]
Bars(q) == SelectSeq(q, LAMBDA x : x # 0)

(* The timeline row of a core is its timeline (spec 4.5, step 3): for     *)
(* every plotted RISC the core has, the bars of its row, read across the  *)
(* columns in order, are the gaps between its consecutive events.  This   *)
(* needs the occurrence numbers of timeseries_to_durations, the column    *)
(* order of the alignment and the lookup of lines 419-422 to agree.       *)
RowsAreTimelines ==
    \A ch \in DOMAIN plots : \A r \in PlotRiscs :
        LET ys == plots[ch].yVals
            xv == plots[ch].xVals[r]
        IN  \A j \in DOMAIN ys :
                <<ch, ys[j], r>> \in DOMAIN durations =>
                    Bars([i \in DOMAIN xv |-> xv[i][2][j]])
                        = Bars(Gaps(SeriesOf(<<ch, ys[j], r>>)))

(* Same steps, same columns (spec 4.5 (b)): two plotted cores whose series *)
(* of a RISC have the same labels and the same gaps get identical rows,   *)
(* bar for bar, so the bars of cores that ran the same kernel line up.    *)
(* The alignment of lines 367-411 must put such cores in every column    *)
(* together, whichever of them picks or switches the candidate.          *)
SameStepsSameColumns ==
    \A ch \in DOMAIN plots : \A r \in PlotRiscs :
        LET ys == plots[ch].yVals
            xv == plots[ch].xVals[r]
            Row(j) == [i \in DOMAIN xv |-> xv[i][2][j]]
            Has(j) == <<ch, ys[j], r>> \in DOMAIN durations
            Steps(j) == LET s == SeriesOf(<<ch, ys[j], r>>) IN <<Labels(s), Gaps(s)>>
        IN  \A j1, j2 \in DOMAIN ys :
                Has(j1) /\ Has(j2) /\ Steps(j1) = Steps(j2) => Row(j1) = Row(j2)
=============================================================================

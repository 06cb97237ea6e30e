------------------------------- MODULE Pipeline -------------------------------
(***************************************************************************)
(* import_log_run_stats (process_device_log.py lines 691-705): the         *)
(* builder's three steps, then every timerAnalysis entry in sorted name    *)
(* order dispatched by its "across" to risc_analysis, core_analysis or     *)
(* device_analysis (lines 619-645), then generate_device_level_summary    *)
(* (lines 648-678) over everything the analyses stored.                   *)
(*                                                                         *)
(* The builder is TimeseriesBuilder itself, its variables shared; each     *)
(* call of timeseries_analysis is TimerAnalysis's Analyze, the function  *)
(* form of the scan IntervalAnalyzer runs step by step.  A series         *)
(* is named by <<chip, core, risc>>, with core "DEVICE" for the device    *)
(* view and risc "TENSIX" for a merged view.                              *)
(***************************************************************************)
EXTENDS Integers, Sequences, SequencesExt, FiniteSets, Stats, TimerAnalysis

CONSTANTS
    Chips, TimerIDs, MaxTS, MaxRows,
    TimerAnalyses,   \* setup.timerAnalysis: name -> analysis
    NameOrder        \* its names in sorted() order

VARIABLES
    rows, n, data, globalMin, metadata, d, coreView, devView, pc,
    stage,      \* "build", "analyze" or "end"
    ai,         \* index in NameOrder of the analysis being run
    results,    \* results[<<key, name>>]: riscData["analysis"][name]["stats"]
    devSummary  \* devSummary[<<chip, name>>]: the DEVICE core's ["analysis"][name]["stats"]

B == INSTANCE TimeseriesBuilder

bvars == <<rows, n, data, globalMin, metadata, d, coreView, devView, pc>>
vars == <<bvars, stage, ai, results, devSummary>>

(* deviceData["cores"] after the builder, in dict order: the chip's cores, *)
(* each with its RISCs and then "TENSIX", and last "DEVICE" with the RISC  *)
(* names in the order the merge of lines 315-325 first met them.          *)
PhysKeys(ch) ==
    FlattenSeq([ci \in DOMAIN B!CoreOrder(ch) |->
        LET c == B!CoreOrder(ch)[ci]
            rs == B!RiscOrder(ch, c) \o <<"TENSIX">>
        IN  [ri \in DOMAIN rs |-> <<ch, c, rs[ri]>>]])
DevKeys(ch) ==
    LET rs == B!Dedupe([m \in DOMAIN PhysKeys(ch) |-> PhysKeys(ch)[m][3]])
    IN  [ri \in DOMAIN rs |-> <<ch, "DEVICE", rs[ri]>>]
Keys(ch) == PhysKeys(ch) \o DevKeys(ch)

SeriesOf(key) ==
    IF key[2] = "DEVICE" THEN devView[<<key[1], key[3]>>]
    ELSE IF key[3] = "TENSIX" THEN coreView[<<key[1], key[2]>>]
    ELSE data[key]

Init ==
    /\ B!Init
    /\ stage = "build"
    /\ ai = 1
    /\ results = <<>>
    /\ devSummary = <<>>

(* lines 692-694: one step of the builder *)
Build ==
    /\ stage = "build" /\ B!Next
    /\ UNCHANGED <<stage, ai, results, devSummary>>

BuildDone ==
    /\ stage = "build" /\ pc = "done"
    /\ stage' = "analyze"
    /\ UNCHANGED <<bvars, ai, results, devSummary>>

Name == NameOrder[ai]
An == TimerAnalyses[Name]

(* the series the dispatch loops of lines 620-645 visit: every core of    *)
(* every chip, "DEVICE" included                                           *)
AllKeys == UNION { Range(Keys(ch)) : ch \in Range(B!ChipOrder) }

(* mutant: the "if tmpDict:" of line 612 is dropped, so a series with no *)
(* record gets an empty dict under the name                               *)
RunOnNoGuard(sel) ==
    /\ results' = results @@ [p \in {<<k, Name>> : k \in sel} |->
                                IF Analyze(SeriesOf(p[1]), An) = <<>> THEN <<>>
                                ELSE StatsOf(Diffs(Analyze(SeriesOf(p[1]), An)))]
    /\ ai' = ai + 1
    /\ UNCHANGED <<bvars, stage, devSummary>>

(* timeseries_analysis on every series in `sel`: a non-empty record list  *)
(* stores its stats under the name (lines 612-616)                        *)
RunOn(sel) ==
    LET hit == { k \in sel : Analyze(SeriesOf(k), An) # <<>> }
    IN  /\ results' = results @@ [p \in {<<k, Name>> : k \in hit} |->
                                    StatsOf(Diffs(Analyze(SeriesOf(p[1]), An)))]
        /\ ai' = ai + 1
        /\ UNCHANGED <<bvars, stage, devSummary>>

Dispatch == stage = "analyze" /\ ai <= Len(NameOrder)

(* risc_analysis: the series of every core but "DEVICE" whose RISC is the *)
(* start's                                                                *)
RiscAnalysis ==
    /\ Dispatch /\ An.across = "risc"
    /\ RunOn({k \in AllKeys : k[2] # "DEVICE" /\ k[3] = An.start.risc})

(* mutant: core_analysis without the core != "DEVICE" test *)
CoreAnalysisWithDevice ==
    /\ Dispatch /\ An.across = "core"
    /\ RunOn({k \in AllKeys : k[3] = "TENSIX"})

(* core_analysis: the "TENSIX" series of every core but "DEVICE" *)
CoreAnalysis ==
    /\ Dispatch /\ An.across = "core"
    /\ RunOn({k \in AllKeys : k[2] # "DEVICE" /\ k[3] = "TENSIX"})

(* device_analysis: the "TENSIX" series of the "DEVICE" core *)
DeviceAnalysis ==
    /\ Dispatch /\ An.across = "device"
    /\ RunOn({k \in AllKeys : k[2] = "DEVICE" /\ k[3] = "TENSIX"})

(* an "across" the if/elif chain of lines 697-702 does not know: skipped *)
UnknownScope ==
    /\ Dispatch /\ An.across \notin {"risc", "core", "device"}
    /\ ai' = ai + 1
    /\ UNCHANGED <<bvars, stage, results, devSummary>>

(* generate_device_level_summary: per chip, the stats of every series of  *)
(* every core, "DEVICE" included, gathered by name in dict order, and     *)
(* their roll-up stored for each name that has any                        *)
StatList(ch, nm) ==
    LET ks == SelectSeq(Keys(ch), LAMBDA k : <<k, nm>> \in DOMAIN results)
    IN  [m \in DOMAIN ks |-> results[<<ks[m], nm>>]]

(* mutant: the roll-up is stored under <<name, chip>> *)
SummarizeSwapped ==
    /\ stage = "analyze" /\ ai > Len(NameOrder)
    /\ devSummary' = [p \in { <<nm, ch>> \in Range(NameOrder) \X Range(B!ChipOrder) :
                                 StatList(ch, nm) # <<>> } |->
                        RollUp(StatList(p[2], p[1]))]
    /\ stage' = "end"
    /\ UNCHANGED <<bvars, ai, results>>

Summarize ==
    /\ stage = "analyze" /\ ai > Len(NameOrder)
    /\ devSummary' = [p \in { <<ch, nm>> \in Range(B!ChipOrder) \X Range(NameOrder) :
                                 StatList(ch, nm) # <<>> } |->
                        RollUp(StatList(p[1], p[2]))]
    /\ stage' = "end"
    /\ UNCHANGED <<bvars, ai, results>>

Next ==
    \/ Build \/ BuildDone
    \/ RiscAnalysis \/ CoreAnalysis \/ DeviceAnalysis \/ UnknownScope
    \/ Summarize

Spec == Init /\ [][Next]_vars /\ WF_vars(Next)

-----------------------------------------------------------------------------
TypeOK ==
    /\ stage \in {"build", "analyze", "end"}
    /\ ai \in 1..Len(NameOrder) + 1
    /\ \A p \in DOMAIN results :
           /\ p[2] \in Range(NameOrder)
           /\ DOMAIN results[p] = {"Count", "Sum", "Average", "Max", "Min",
                                   "Range", "Median2", "First"}
           /\ results[p].Count > 0
    /\ DOMAIN devSummary \subseteq Chips \X Range(NameOrder)

(* The series of a chip that an analysis is about, by its scope (spec     *)
(* 4.3): a unit's series at every physical location, every location's     *)
(* merged series, or the device's merged series.                          *)
ScopeSeries(ch, an) ==
    CASE an.across = "risc"   -> {k \in DOMAIN data : k[1] = ch /\ k[3] = an.start.risc}
      [] an.across = "core"   -> {<<ch, cc[2], "TENSIX">> : cc \in {cc \in DOMAIN coreView : cc[1] = ch}}
      [] an.across = "device" -> {<<ch, "DEVICE", "TENSIX">>}
      [] OTHER                -> {}

(* Roll-up over the scope (spec 4.4): the summary the DEVICE core gets    *)
(* for a name counts exactly the records timeseries_analysis finds on the *)
(* series of that analysis's scope, and averages their durations; it      *)
(* exists iff there is such a record.  The summary loop gathers the stats *)
(* of EVERY core, "DEVICE" included, so this holds only if the dispatch   *)
(* stored nothing outside the scope.                                      *)
SummaryCoversScope ==
    stage = "end" =>
        \A ch \in Range(B!ChipOrder) : \A nm \in Range(NameOrder) :
            LET an == TimerAnalyses[nm]
                counts == [k \in ScopeSeries(ch, an) |-> Len(Analyze(SeriesOf(k), an))]
                total == FoldFunction(+, 0, counts)
                sums == [k \in ScopeSeries(ch, an) |-> SeqSum(Diffs(Analyze(SeriesOf(k), an)))]
            IN  IF total = 0 THEN <<ch, nm>> \notin DOMAIN devSummary
                ELSE /\ <<ch, nm>> \in DOMAIN devSummary
                     /\ devSummary[<<ch, nm>>].Count = total
                     /\ devSummary[<<ch, nm>>].Average
                          = [num |-> FoldFunction(+, 0, sums), den |-> total]

(* RISC scope (spec 4.3): an analysis runs on the series of the unit it   *)
(* declares, and a unit declared "any" is taken from the event, so a      *)
(* RISC-scope analysis declared for "ANY" unit covers every unit.  Every  *)
(* RISC series of a core on which timeseries_analysis finds a record for *)
(* such an analysis must carry its stats; risc_analysis (line 624) only   *)
(* visits series whose RISC name equals the declared one.                *)
RiscScopeCoversEveryUnit ==
    stage = "end" =>
        \A nm \in Range(NameOrder) : \A k \in DOMAIN data :
            LET an == TimerAnalyses[nm]
            IN  /\ an.across = "risc"
                /\ an.start.risc \in {k[3], "ANY"}
                /\ Analyze(data[k], an) # <<>>
                => <<k, nm>> \in DOMAIN results
=============================================================================

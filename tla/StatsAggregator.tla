--------------------------- MODULE StatsAggregator ---------------------------
(***************************************************************************)
(* generate_device_level_summary (process_device_log.py lines 648-678) for *)
(* one analysis name of one chip: the loop over cores and RISCs collects   *)
(* the "stats" of every series that has the analysis (lines 651-658), and *)
(* the roll-up of lines 660-678 stores the device-level stats under the   *)
(* "DEVICE" core.  A series has the analysis only when timeseries_analysis *)
(* found at least one record (lines 598 and 612).                         *)
(***************************************************************************)
EXTENDS Integers, Sequences, SequencesExt, Stats

CONSTANTS
    Series,      \* the (core, risc) series of the chip, in iteration order
    DiffValues,  \* the durations one record may have
    MaxRecords   \* bound on the records of one series

VARIABLES
    diffs,       \* diffs[s]: the "diff" column timeseries_analysis built for s
    statList,    \* analysisLists[name]["statList"]
    k,           \* index of the series the collecting loop is at
    devStats,    \* deviceData["cores"]["DEVICE"]["analysis"][name]["stats"]
    pc

vars == <<diffs, statList, k, devStats, pc>>

None == <<>>

Init ==
    /\ diffs \in [ToSet(Series) -> BoundedSeq(DiffValues, MaxRecords)]
    /\ statList = <<>>
    /\ k = 1
    /\ devStats = None
    /\ pc = "collect"

(* "analysis" in riscData: append the series' stats to the statList *)
Collect ==
    /\ pc = "collect" /\ k <= Len(Series)
    /\ LET d == diffs[Series[k]]
       IN  statList' = IF d = <<>> THEN statList ELSE Append(statList, StatsOf(d))
    /\ k' = k + 1
    /\ UNCHANGED <<diffs, devStats, pc>>

(* for name, analysisList in analysisLists.items(): the roll-up *)
Summarize ==
    /\ pc = "collect" /\ k > Len(Series)
    /\ devStats' = IF statList = <<>> THEN None ELSE RollUp(statList)
    /\ pc' = "done"
    /\ UNCHANGED <<diffs, statList, k>>

Next == Collect \/ Summarize

Spec == Init /\ [][Next]_vars /\ WF_vars(Next)

-----------------------------------------------------------------------------
TypeOK ==
    /\ k \in 1..Len(Series) + 1
    /\ statList \in Seq([Count : Nat, Sum : Int, Average : [num : Int, den : Nat],
                         Max : Int, Min : Int, Range : Nat, Median2 : Int,
                         First : Int])
    /\ pc \in {"collect", "done"}

Pooled == FlattenSeq([m \in DOMAIN Series |-> diffs[Series[m]]])

(* Roll-up (spec 4.4): the device-level Count, Average, Max, Min and      *)
(* Range are those of all the chip's records pooled together; Average is *)
(* weighted by each series' count, not a mean of the per-series averages. *)
RollUpIsPooled ==
    pc = "done" =>
        IF Pooled = <<>> THEN devStats = None
        ELSE /\ devStats.Count = Len(Pooled)
             /\ devStats.Average.num * Len(Pooled)
                  = SeqSum(Pooled) * devStats.Average.den
             /\ devStats.Max = SeqMax(Pooled)
             /\ devStats.Min = SeqMin(Pooled)
             /\ devStats.Range = SeqMax(Pooled) - SeqMin(Pooled)
=============================================================================

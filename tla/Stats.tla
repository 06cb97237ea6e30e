-------------------------------- MODULE Stats --------------------------------
(***************************************************************************)
(* The statistics process_device_log.py computes with pandas: the per-    *)
(* series stats of timeseries_analysis (lines 596-611) over the "diff"     *)
(* column, and the roll-up of generate_device_level_summary (lines        *)
(* 660-674) over a list of such stats.  Average and Median are fractions, *)
(* kept exact: Average is [num, den], Median2 is twice the median        *)
(* (pandas averages the two middle values of an even count).              *)
(***************************************************************************)
EXTENDS Integers, Sequences, SequencesExt

SeqSum(s) == FoldSeq(+, 0, s)
SeqMax(s) == CHOOSE x \in Range(s) : \A y \in Range(s) : x >= y
SeqMin(s) == CHOOSE x \in Range(s) : \A y \in Range(s) : x <= y

(* Series.median: the middle value, or the mean of the two middle values; *)
(* returned doubled so that it stays an integer                           *)
Median2(s) ==
    LET t == SortSeq(s, <=)
        n == Len(s)
    IN  IF n % 2 = 1 THEN 2 * t[(n + 1) \div 2]
                     ELSE t[n \div 2] + t[n \div 2 + 1]

(* mutant: the range is taken as min - max *)
StatsOfRangeSwapped(d) ==
    [Count |-> Len(d), Sum |-> SeqSum(d),
     Average |-> [num |-> SeqSum(d), den |-> Len(d)],
     Max |-> SeqMax(d), Min |-> SeqMin(d),
     Range |-> SeqMin(d) - SeqMax(d),
     Median2 |-> Median2(d), First |-> d[1]]

(* the "stats" dict of one analysed series, over its non-empty diffs *)
StatsOf(d) ==
    [Count |-> Len(d), Sum |-> SeqSum(d),
     Average |-> [num |-> SeqSum(d), den |-> Len(d)],
     Max |-> SeqMax(d), Min |-> SeqMin(d),
     Range |-> SeqMax(d) - SeqMin(d),
     Median2 |-> Median2(d), First |-> d[1]]

(* mutant: the average divides the summed Sums by the number of series *)
RollUpAvgOverSeries(statList) ==
    LET col(f) == [m \in DOMAIN statList |-> statList[m][f]]
    IN  [Count |-> SeqSum(col("Count")),
         Average |-> [num |-> SeqSum(col("Sum")), den |-> Len(statList)],
         Max |-> SeqMax(col("Max")),
         Min |-> SeqMin(col("Min")),
         Range |-> SeqMax(col("Max")) - SeqMin(col("Min")),
         Median4 |-> Median2(col("Median2"))]

(* The device-level stats over a non-empty statList: counts and sums add *)
(* up, extrema combine, and the median is the median of the medians.     *)
(* Average is the summed Sums over the summed Counts (lines 667-668);   *)
(* the roll-up has no Sum and no First.                                   *)
RollUp(statList) ==
    LET col(f) == [m \in DOMAIN statList |-> statList[m][f]]
        medians == col("Median2")
    IN  [Count |-> SeqSum(col("Count")),
         Average |-> [num |-> SeqSum(col("Sum")), den |-> SeqSum(col("Count"))],
         Max |-> SeqMax(col("Max")),
         Min |-> SeqMin(col("Min")),
         Range |-> SeqMax(col("Max")) - SeqMin(col("Min")),
         Median4 |-> Median2(medians)]
=============================================================================

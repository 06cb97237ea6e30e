------------------------------ MODULE Alignment ------------------------------
(***************************************************************************)
(* The plot path of process_device_log.py as pure operators:               *)
(* timeseries_to_durations (lines 333-354), which turns a series into its  *)
(* "data" and "order" of durations, and the alignment loop of             *)
(* plotData_to_timelineXVals (lines 367-411) as one function from the     *)
(* cores' order lists to the emitted columns.  TraceAligner runs the same *)
(* loop step by step; Timeline calls Align on the series the builder     *)
(* produces.                                                              *)
(*                                                                         *)
(* A series is given here by its labels: the label of an event is its     *)
(* timerID, or (timerID, *meta) when it has metadata.                      *)
(***************************************************************************)
EXTENDS Integers, Sequences, FiniteSets

None == <<>>   \* traceToAdd = None

(***************************************************************************)
(* timeseries_to_durations: one duration per consecutive pair of events;   *)
(* the order entry of the i-th duration is its type and the number of      *)
(* earlier durations of the same type (len(data[durationType]) - 1).       *)
(***************************************************************************)
DurationTypes(ls) == [i \in 1..Len(ls) - 1 |-> <<ls[i], ls[i + 1]>>]

OrderOf(ls) ==
    LET dt == DurationTypes(ls)
    IN  [i \in DOMAIN dt |->
            <<dt[i], Cardinality({j \in 1..i - 1 : dt[j] = dt[i]})>>]

(***************************************************************************)
(* The loop, over the order lists o, the cores rc that have the RISC and   *)
(* the plotCores list pcs.  A loop state st holds coreOrderTrav (cur),     *)
(* traceToAdd (cand), discardedTraces (disc), traces[risc] (out) and the   *)
(* flags ordering and addTrace.                                            *)
(***************************************************************************)
Pending(o, rc, cur, c) == c \in rc /\ cur[c] < Len(o[c])
Ahead(o, cur, c, t) == \E i \in cur[c] + 2..Len(o[c]) : o[c][i] = t

RECURSIVE ForCores(_, _, _, _, _)

(* mutant: a core whose head is the candidate replaces the participants  *)
(* instead of joining them                                                *)
ForCoresReplace(o, rc, pcs, st, k) ==
    IF k > Len(pcs) THEN st
    ELSE LET c == pcs[k]
             h == o[c][st.cur[c] + 1]
             on == [st EXCEPT !.ordering = TRUE]
         IN  CASE ~Pending(o, rc, st.cur, c) ->
                    ForCores(o, rc, pcs, st, k + 1)
               [] st.cand = None ->
                    [on EXCEPT !.cand = [t |-> h, cores |-> {c}], !.addTrace = FALSE]
               [] c \in st.cand.cores ->
                    ForCores(o, rc, pcs, on, k + 1)
               [] st.cand.t = h ->
                    ForCores(o, rc, pcs, [on EXCEPT !.cand.cores = {c}], k + 1)
               [] Ahead(o, st.cur, c, st.cand.t) /\ st.cand.t \notin st.disc ->
                    [on EXCEPT !.disc = @ \cup {st.cand.t},
                               !.cand = [t |-> h, cores |-> {c}],
                               !.addTrace = FALSE]
               [] OTHER ->
                    ForCores(o, rc, pcs, on, k + 1)

(* the for loop from the k-th core; a break returns the state at once *)
ForCores(o, rc, pcs, st, k) ==
    IF k > Len(pcs) THEN st
    ELSE LET c == pcs[k]
             h == o[c][st.cur[c] + 1]
             on == [st EXCEPT !.ordering = TRUE]
         IN  CASE ~Pending(o, rc, st.cur, c) ->
                    ForCores(o, rc, pcs, st, k + 1)
               [] st.cand = None ->
                    [on EXCEPT !.cand = [t |-> h, cores |-> {c}], !.addTrace = FALSE]
               [] c \in st.cand.cores ->
                    ForCores(o, rc, pcs, on, k + 1)
               [] st.cand.t = h ->
                    ForCores(o, rc, pcs,
                             [on EXCEPT !.cand.cores = @ \cup {c}], k + 1)
               [] Ahead(o, st.cur, c, st.cand.t) /\ st.cand.t \notin st.disc ->
                    [on EXCEPT !.disc = @ \cup {st.cand.t},
                               !.cand = [t |-> h, cores |-> {c}],
                               !.addTrace = FALSE]
               [] OTHER ->
                    ForCores(o, rc, pcs, on, k + 1)

(* the "if addTrace and traceToAdd" block after the for loop *)
Emitted(rc, st) ==
    IF st.addTrace /\ st.cand # None
      THEN [st EXCEPT !.disc = @ \ {st.cand.t},
                      !.out = Append(@, st.cand),
                      !.cur = [c \in DOMAIN @ |->
                                 IF c \in st.cand.cores /\ c \in rc THEN @[c] + 1
                                                                    ELSE @[c]],
                      !.cand = None]
      ELSE st

RECURSIVE WhileOrdering(_, _, _, _)
WhileOrdering(o, rc, pcs, st) ==
    IF ~st.ordering THEN st
    ELSE WhileOrdering(o, rc, pcs,
           Emitted(rc, ForCores(o, rc, pcs,
                                [st EXCEPT !.ordering = FALSE, !.addTrace = TRUE], 1)))

(* traces[risc] when plotData_to_timelineXVals leaves the while loop *)
Align(o, rc, pcs) ==
    WhileOrdering(o, rc, pcs,
        [cur |-> [c \in DOMAIN o |-> 0], cand |-> None, disc |-> {},
         out |-> <<>>, ordering |-> TRUE, addTrace |-> TRUE]).out
=============================================================================

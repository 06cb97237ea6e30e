---------------------------- MODULE TraceAligner ----------------------------
(***************************************************************************)
(* The cross-core alignment of duration instances for one RISC, as done by *)
(* plotData_to_timelineXVals in process_device_log.py (lines 357-411),     *)
(* fed by the "order" lists of timeseries_to_durations (lines 333-354).    *)
(*                                                                         *)
(* Every core of PlotCores that has the RISC owns an order list of traces  *)
(* <<durationType, occurrenceIndex>>.  The while loop repeatedly walks the *)
(* cores in PlotCores order: the first core with a remaining trace picks   *)
(* the candidate, later cores whose head equals the candidate join it, and *)
(* a core whose head differs but which holds the candidate further on      *)
(* makes the loop switch to that core's head and discard the candidate for *)
(* the rest of the run.  When a walk finishes without a switch, the        *)
(* candidate is emitted as one column and its cores advance.               *)
(*                                                                         *)
(* The for loop over cores is modelled one core per step; a step is one   *)
(* pass of the loop body, and the "if addTrace and traceToAdd" block that  *)
(* follows the loop is the step EndRound.                                  *)
(***************************************************************************)
EXTENDS Integers, Sequences, SequencesExt, FiniteSets, Alignment

CONSTANTS
    PlotCores,    \* the plotCores list: a sequence of distinct core ids
    Markers,      \* timer ids a kernel may emit (0 is the global-min marker)
    MaxEvents     \* bound on the number of real events of one RISC series

ASSUME MaxEvents \in Nat \ {0}

N == Len(PlotCores)
Cores == ToSet(PlotCores)

(* A RISC series as import_device_profile_log leaves it: the global-min    *)
(* marker 0 first, then at least one event of the RISC.                    *)
RiscSeries == { <<0>> \o s : s \in BoundedSeq(Markers, MaxEvents) \ {<<>>} }

VARIABLES
    order,        \* order[c]: durations["order"] of the RISC at core c
    riscCores,    \* the cores whose "riscs" contain the RISC
    cursor,       \* coreOrderTrav[core][risc], 0-based
    traceToAdd,   \* None or [t |-> trace, cores |-> set of cores]
    discarded,    \* discardedTraces
    traces,       \* traces[risc]: the emitted columns
    ordering,     \* the while-loop flag
    addTrace,     \* the per-round flag
    k,            \* index of the core the for loop is at
    pc,           \* "while", "for" or "done"
    rounds        \* passes of the while loop so far (history, not in the code)

vars == <<order, riscCores, cursor, traceToAdd, discarded, traces,
          ordering, addTrace, k, pc, rounds>>

HasNext(c) == c \in riscCores /\ cursor[c] < Len(order[c])
HeadOf(c) == order[c][cursor[c] + 1]
(* some trace after the head of c equals t *)
InFuture(c, t) == \E i \in cursor[c] + 2..Len(order[c]) : order[c][i] = t

Init ==
    /\ riscCores \in SUBSET Cores
    /\ \E ts \in [Cores -> RiscSeries] :
           order = [c \in Cores |-> IF c \in riscCores THEN OrderOf(ts[c])
                                                      ELSE <<>>]
    /\ cursor = [c \in Cores |-> 0]
    /\ traceToAdd = None
    /\ discarded = {}
    /\ traces = <<>>
    /\ ordering = TRUE
    /\ addTrace = TRUE
    /\ k = 1
    /\ pc = "while"
    /\ rounds = 0

(* while ordering: ordering = False; addTrace = True; for core in ... *)
WhileTest ==
    /\ pc = "while"
    /\ ordering
    /\ ordering' = FALSE
    /\ addTrace' = TRUE
    /\ k' = 1
    /\ pc' = "for"
    /\ UNCHANGED <<order, riscCores, cursor, traceToAdd, discarded, traces>>

WhileExit ==
    /\ pc = "while"
    /\ ~ordering
    /\ pc' = "done"
    /\ UNCHANGED <<order, riscCores, cursor, traceToAdd, discarded, traces,
                   ordering, addTrace, k>>

ForGuard == pc = "for" /\ k <= N
Cur == PlotCores[k]
NextCore == k' = k + 1 /\ UNCHANGED <<pc, traceToAdd, discarded, addTrace>>
Fixed == UNCHANGED <<order, riscCores, cursor, traces>>

(* the core lacks the RISC or its order list is exhausted *)
SkipCore ==
    /\ ForGuard
    /\ ~HasNext(Cur)
    /\ NextCore /\ Fixed /\ UNCHANGED ordering

(* mutant: the "ordering = True" of the pick is lost *)
PickCandidateNoOrdering ==
    /\ ForGuard /\ HasNext(Cur)
    /\ traceToAdd = None
    /\ traceToAdd' = [t |-> HeadOf(Cur), cores |-> {Cur}]
    /\ addTrace' = FALSE /\ pc' = "while"
    /\ Fixed /\ UNCHANGED <<discarded, k, ordering>>

(* no candidate yet: this core's head becomes it, and the for loop breaks *)
PickCandidate ==
    /\ ForGuard /\ HasNext(Cur)
    /\ traceToAdd = None
    /\ traceToAdd' = [t |-> HeadOf(Cur), cores |-> {Cur}]
    /\ ordering' = TRUE /\ addTrace' = FALSE /\ pc' = "while"
    /\ Fixed /\ UNCHANGED <<discarded, k>>

(* the core is already a participant of the candidate *)
AlreadyIn ==
    /\ ForGuard /\ HasNext(Cur)
    /\ traceToAdd # None
    /\ Cur \in traceToAdd.cores
    /\ ordering' = TRUE /\ NextCore /\ Fixed

(* mutant: a core joins the column without comparing its head *)
CoalesceAnyHead ==
    /\ ForGuard /\ HasNext(Cur)
    /\ traceToAdd # None
    /\ Cur \notin traceToAdd.cores
    /\ traceToAdd' = [traceToAdd EXCEPT !.cores = @ \cup {Cur}]
    /\ ordering' = TRUE /\ k' = k + 1
    /\ Fixed /\ UNCHANGED <<pc, discarded, addTrace>>

(* the core's head is the candidate: it joins the column *)
Coalesce ==
    /\ ForGuard /\ HasNext(Cur)
    /\ traceToAdd # None
    /\ Cur \notin traceToAdd.cores
    /\ traceToAdd.t = HeadOf(Cur)
    /\ traceToAdd' = [traceToAdd EXCEPT !.cores = @ \cup {Cur}]
    /\ ordering' = TRUE /\ k' = k + 1
    /\ Fixed /\ UNCHANGED <<pc, discarded, addTrace>>

(* mutant: the switch ignores the discard set *)
SwitchCandidateNoDiscard ==
    /\ ForGuard /\ HasNext(Cur)
    /\ traceToAdd # None
    /\ Cur \notin traceToAdd.cores
    /\ traceToAdd.t # HeadOf(Cur)
    /\ InFuture(Cur, traceToAdd.t)
    /\ discarded' = discarded \cup {traceToAdd.t}
    /\ traceToAdd' = [t |-> HeadOf(Cur), cores |-> {Cur}]
    /\ ordering' = TRUE /\ addTrace' = FALSE /\ pc' = "while"
    /\ Fixed /\ UNCHANGED k

(* the candidate is later in this core's list and not discarded: discard  *)
(* it, make this core's head the candidate, and break the for loop        *)
SwitchCandidate ==
    /\ ForGuard /\ HasNext(Cur)
    /\ traceToAdd # None
    /\ Cur \notin traceToAdd.cores
    /\ traceToAdd.t # HeadOf(Cur)
    /\ InFuture(Cur, traceToAdd.t) /\ traceToAdd.t \notin discarded
    /\ discarded' = discarded \cup {traceToAdd.t}
    /\ traceToAdd' = [t |-> HeadOf(Cur), cores |-> {Cur}]
    /\ ordering' = TRUE /\ addTrace' = FALSE /\ pc' = "while"
    /\ Fixed /\ UNCHANGED k

(* mutant: the core is left out without comparing its head *)
DeferAnyHead ==
    /\ ForGuard /\ HasNext(Cur)
    /\ traceToAdd # None
    /\ Cur \notin traceToAdd.cores
    /\ ~(InFuture(Cur, traceToAdd.t) /\ traceToAdd.t \notin discarded)
    /\ ordering' = TRUE /\ NextCore /\ Fixed

(* the head differs and no switch is possible: the core is left out *)
Defer ==
    /\ ForGuard /\ HasNext(Cur)
    /\ traceToAdd # None
    /\ Cur \notin traceToAdd.cores
    /\ traceToAdd.t # HeadOf(Cur)
    /\ ~(InFuture(Cur, traceToAdd.t) /\ traceToAdd.t \notin discarded)
    /\ ordering' = TRUE /\ NextCore /\ Fixed

(* mutant: every core with the RISC advances, not only the participants *)
EndRoundAdvanceAll ==
    /\ pc = "for" /\ k > N
    /\ pc' = "while"
    /\ IF addTrace /\ traceToAdd # None
         THEN /\ discarded' = discarded \ {traceToAdd.t}
              /\ traces' = Append(traces, traceToAdd)
              /\ cursor' = [c \in Cores |->
                              IF c \in riscCores THEN cursor[c] + 1 ELSE cursor[c]]
              /\ traceToAdd' = None
         ELSE UNCHANGED <<discarded, traces, cursor, traceToAdd>>
    /\ UNCHANGED <<order, riscCores, ordering, addTrace, k>>

EndRound ==
    /\ pc = "for" /\ k > N
    /\ pc' = "while"
    /\ IF addTrace /\ traceToAdd # None
         THEN /\ discarded' = discarded \ {traceToAdd.t}
              /\ traces' = Append(traces, traceToAdd)
              /\ cursor' = [c \in Cores |->
                              IF c \in traceToAdd.cores /\ c \in riscCores
                                THEN cursor[c] + 1 ELSE cursor[c]]
              /\ traceToAdd' = None
         ELSE UNCHANGED <<discarded, traces, cursor, traceToAdd>>
    /\ UNCHANGED <<order, riscCores, ordering, addTrace, k>>

(* a cap on the history variable, above 3 passes per entry of every core *)
(* plus one, so that a loop that never ends still has finitely many states *)
RoundCap == 3 * N * MaxEvents + 2

(* every step of the loop; rounds counts the passes WhileTest starts *)
Next ==
    \/ WhileTest /\ rounds < RoundCap /\ rounds' = rounds + 1
    \/ /\ \/ WhileExit
          \/ SkipCore \/ PickCandidate \/ AlreadyIn \/ Coalesce
          \/ SwitchCandidate \/ Defer \/ EndRound
       /\ UNCHANGED rounds

Spec == Init /\ [][Next]_vars /\ WF_vars(Next)

-----------------------------------------------------------------------------
Traces == UNION { Range(order[c]) : c \in Cores }

TypeOK ==
    /\ riscCores \subseteq Cores
    /\ cursor \in [Cores -> Nat]
    /\ \A c \in Cores : cursor[c] <= Len(order[c])
    /\ traceToAdd = None \/ (traceToAdd.t \in Traces
                             /\ traceToAdd.cores \subseteq riscCores)
    /\ discarded \subseteq Traces
    /\ pc \in {"while", "for", "done"}
    /\ k \in 1..N + 1

(* The columns core c takes part in, in emission order, as traces. *)
ColumnsOf(c) == [i \in 1..Len(SelectSeq(traces, LAMBDA col : c \in col.cores))
                   |-> SelectSeq(traces, LAMBDA col : c \in col.cores)[i].t]

(* Order preservation (spec 4.5 (a)): the columns a core takes part in    *)
(* are exactly its order list up to its cursor, in the same order, so no  *)
(* core's durations are reordered, repeated or joined to a column of a    *)
(* different trace by the candidate switching of lines 378-402.          *)
OrderPreserved ==
    \A c \in Cores : ColumnsOf(c) = SubSeq(order[c], 1, cursor[c])

Abstract == INSTANCE AlignerSpec WITH done <- (pc = "done")

AlignerRefined == Abstract!Spec

(* the entries of all order lists of the RISC *)
TotalEntries == FoldFunction(LAMBDA l, acc : l + acc, 0,
                             [c \in riscCores |-> Len(order[c])])

(* Passes are linear in the entries (spec 4.5 (c)): the while loop never   *)
(* makes more than 3 passes per order-list entry, plus the last one that  *)
(* finds nothing.  A pass that picks a candidate and breaks (line 401)    *)
(* emits nothing, and a switch (line 395) emits nothing either, so this   *)
(* needs the discard set to stop a candidate from being switched away     *)
(* again and again.                                                        *)
PassesLinear == rounds <= 3 * TotalEntries + 1

(* Termination (spec 4.5 (c)): the discard set keeps the candidate        *)
(* switching of lines 389-395 from cycling, so the while loop ends.       *)
Terminates == <>(pc = "done")
=============================================================================

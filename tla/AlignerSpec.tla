----------------------------- MODULE AlignerSpec -----------------------------
(***************************************************************************)
(* What the alignment of plotData_to_timelineXVals promises (spec 4.5),    *)
(* stated without its while/for loops, candidates or discard set: the     *)
(* cores' order lists are merged column by column; a column is a trace    *)
(* that is the next one of some core, taken together with EVERY core     *)
(* whose next trace it is, and those cores move past it.  When no core    *)
(* has a trace left the alignment is done.  Which trace goes first is     *)
(* left open: the detailed loop fixes it, this specification does not.    *)
(***************************************************************************)
EXTENDS Integers, Sequences

CONSTANT Cores

VARIABLES
    order,    \* order[c]: the order list of core c (never changes)
    cursor,   \* cursor[c]: how many of c's traces are in columns
    traces,   \* the columns, as [t, cores] records
    done      \* the alignment has returned

avars == <<order, cursor, traces, done>>

Pending(c) == cursor[c] < Len(order[c])
Next(c) == order[c][cursor[c] + 1]
(* the cores whose next trace is t *)
Holders(t) == {c \in Cores : Pending(c) /\ Next(c) = t}

Init ==
    /\ cursor = [c \in Cores |-> 0]
    /\ traces = <<>>
    /\ ~done

Emit(t) ==
    /\ Holders(t) # {}
    /\ traces' = Append(traces, [t |-> t, cores |-> Holders(t)])
    /\ cursor' = [c \in Cores |-> IF c \in Holders(t) THEN cursor[c] + 1
                                                     ELSE cursor[c]]
    /\ UNCHANGED <<order, done>>

Finish ==
    /\ ~done
    /\ \A c \in Cores : ~Pending(c)
    /\ done' = TRUE
    /\ UNCHANGED <<order, cursor, traces>>

Step ==
    \/ \E c \in Cores : Pending(c) /\ Emit(Next(c))
    \/ Finish

Spec == Init /\ [][Step]_avars /\ WF_avars(Step)
=============================================================================

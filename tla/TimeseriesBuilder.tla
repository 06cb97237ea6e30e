-------------------------- MODULE TimeseriesBuilder --------------------------
(***************************************************************************)
(* How process_device_log.py turns the rows of the device log into         *)
(* timeseries: import_device_profile_log (lines 245-297) groups the rows   *)
(* by chip, core and RISC, sorts every RISC series, finds the global-min   *)
(* timestamp and prepends a marker-0 event carrying it;                    *)
(* risc_to_core_timeseries (lines 300-309) merges a core's RISC series     *)
(* into its "TENSIX" series; core_to_device_timeseries (lines 312-330)     *)
(* merges every core's series of one RISC name into the "DEVICE" core.     *)
(*                                                                         *)
(* An event is [id, ts, meta] for the tuple (timerID, timestamp, *meta).   *)
(* Dictionaries iterate in insertion order, so the order of chips, cores   *)
(* and RISCs is the order in which the rows first name them.               *)
(***************************************************************************)
EXTENDS Integers, Sequences, SequencesExt, FiniteSets

CONSTANTS
    Chips, CoreIDs, Riscs, TimerIDs,
    MaxTS,       \* timestamps are 0..MaxTS
    MaxRows      \* bound on the number of rows of the log

ASSUME "TENSIX" \notin Riscs

(* (1 << 64) - 1, the starting globalMinTS: above every timestamp *)
NoTS == MaxTS + 1
(* (0, 0), the starting globalMinCore *)
Origin == "origin"

Rows == [chip : Chips, core : CoreIDs, risc : Riscs, id : TimerIDs, ts : 0..MaxTS]

(* list order of first appearance *)
Dedupe(s) == FoldLeft(LAMBDA acc, x : IF x \in ToSet(acc) THEN acc
                                       ELSE Append(acc, x), <<>>, s)

(* mutant: ties of the sort come out in reverse order *)
SortByTsTiesReversed(s) ==
    LET idx == SortSeq([n \in 1..Len(s) |-> n],
                       LAMBDA a, b : s[a].ts < s[b].ts
                                     \/ (s[a].ts = s[b].ts /\ a > b))
    IN  [n \in 1..Len(s) |-> s[idx[n]]]

(* list.sort(key=lambda x: x[1]) is stable: ties keep their order *)
SortByTs(s) ==
    LET idx == SortSeq([n \in 1..Len(s) |-> n],
                       LAMBDA a, b : s[a].ts < s[b].ts
                                     \/ (s[a].ts = s[b].ts /\ a < b))
    IN  [n \in 1..Len(s) |-> s[idx[n]]]

VARIABLES
    rows,        \* the log rows after the two header lines
    n,           \* rows ingested so far
    data,        \* data[<<chip, core, risc>>]: the "timeseries" list
    globalMin,   \* [ts, risc, core]: globalMinTS, globalMinRisc, globalMinCore
    metadata,    \* metadata[chip]: deviceData["metadata"]["global_min"]
    d,           \* index of the chip the sort loop is at
    coreView,    \* coreView[<<chip, core>>]: riscs["TENSIX"]["timeseries"]
    devView,     \* devView[<<chip, risc>>]: cores["DEVICE"]["riscs"][risc]
    pc

vars == <<rows, n, data, globalMin, metadata, d, coreView, devView, pc>>

ChipOrder == Dedupe([m \in 1..Len(rows) |-> rows[m].chip])
CoreOrder(ch) ==
    Dedupe([m \in DOMAIN SelectSeq(rows, LAMBDA r : r.chip = ch)
              |-> SelectSeq(rows, LAMBDA r : r.chip = ch)[m].core])
RiscOrder(ch, c) ==
    LET sel == SelectSeq(rows, LAMBDA r : r.chip = ch /\ r.core = c)
    IN  Dedupe([m \in DOMAIN sel |-> sel[m].risc])
(* the (core, risc) pairs of a chip in the nested loop order *)
KeysOf(ch) ==
    FlattenSeq([ci \in DOMAIN CoreOrder(ch) |->
        LET c == CoreOrder(ch)[ci]
        IN  [ri \in DOMAIN RiscOrder(ch, c) |-> <<ch, c, RiscOrder(ch, c)[ri]>>]])

Init ==
    /\ rows \in BoundedSeq(Rows, MaxRows) \ {<<>>}
    /\ n = 0
    /\ data = <<>>
    /\ globalMin = [ts |-> NoTS, risc |-> "BRISC", core |-> Origin]
    /\ metadata = <<>>
    /\ d = 1
    /\ coreView = <<>>
    /\ devView = <<>>
    /\ pc = "ingest"

(* lines 250-274: append (timerID, timeData) to the row's series *)
Ingest ==
    /\ pc = "ingest" /\ n < Len(rows)
    /\ LET r == rows[n + 1]
           key == <<r.chip, r.core, r.risc>>
           ev == [id |-> r.id, ts |-> r.ts, meta |-> <<>>]
       IN  data' = IF key \in DOMAIN data
                     THEN [data EXCEPT ![key] = Append(@, ev)]
                     ELSE data @@ (key :> <<ev>>)
    /\ n' = n + 1
    /\ UNCHANGED <<rows, globalMin, metadata, d, coreView, devView, pc>>

IngestDone ==
    /\ pc = "ingest" /\ n = Len(rows)
    /\ pc' = "sort"
    /\ UNCHANGED <<rows, n, data, globalMin, metadata, d, coreView, devView>>

(* mutant: core and RISC swapped when the minimum is recorded *)
MinStepSwapped(gm, key) ==
    LET first == SortByTs(data[key])[1]
    IN  IF gm.ts > first.ts THEN [ts |-> first.ts, risc |-> key[2], core |-> key[3]]
                            ELSE gm

(* mutant: the last, not the first, timestamp of a sorted series is compared *)
MinStepLastEvent(gm, key) ==
    LET s == SortByTs(data[key])
    IN  IF gm.ts > s[Len(s)].ts THEN [ts |-> s[Len(s)].ts, risc |-> key[3], core |-> key[2]]
                                ELSE gm

(* lines 280-289 for one chip: sort each RISC series, compare its first   *)
(* timestamp with globalMinTS (set once before the chip loop, line 277), *)
(* then record the global min in the chip's metadata                     *)
MinStep(gm, key) ==
    LET first == SortByTs(data[key])[1]
    IN  IF gm.ts > first.ts THEN [ts |-> first.ts, risc |-> key[3], core |-> key[2]]
                            ELSE gm

SortChip ==
    /\ pc = "sort" /\ d <= Len(ChipOrder)
    /\ LET ch == ChipOrder[d]
           gm == FoldLeft(MinStep, globalMin, KeysOf(ch))
       IN  /\ data' = [key \in DOMAIN data |->
                         IF key[1] = ch THEN SortByTs(data[key]) ELSE data[key]]
           /\ globalMin' = gm
           /\ metadata' = metadata @@ (ch :> gm)
    /\ d' = d + 1
    /\ UNCHANGED <<rows, n, coreView, devView, pc>>

(* lines 292-295: insert (0, global_min ts) in front of every series *)
InsertAnchors ==
    /\ pc = "sort" /\ d > Len(ChipOrder)
    /\ data' = [key \in DOMAIN data |->
                  <<[id |-> 0, ts |-> metadata[key[1]].ts, meta |-> <<>>]>>
                      \o data[key]]
    /\ pc' = "core"
    /\ UNCHANGED <<rows, n, globalMin, metadata, d, coreView, devView>>

(* risc_to_core_timeseries: every event tagged with its RISC, stable sort *)
Tagged(s, tag) == [m \in DOMAIN s |-> [s[m] EXCEPT !.meta = @ \o <<tag>>]]

CoreSeries(ch, c) ==
    SortByTs(FlattenSeq([ri \in DOMAIN RiscOrder(ch, c) |->
        Tagged(data[<<ch, c, RiscOrder(ch, c)[ri]>>], RiscOrder(ch, c)[ri])]))

BuildCoreView ==
    /\ pc = "core"
    /\ coreView' = [cc \in {<<k[1], k[2]>> : k \in DOMAIN data} |->
                      CoreSeries(cc[1], cc[2])]
    /\ pc' = "device"
    /\ UNCHANGED <<rows, n, data, globalMin, metadata, d, devView>>

(* core_to_device_timeseries: the series of every core of the chip, the   *)
(* "TENSIX" one included, each event tagged with its core, except that a  *)
(* marker 0 gets the chip's global-min core; then a stable sort           *)
SeriesAt(ch, c, r) == IF r = "TENSIX" THEN coreView[<<ch, c>>] ELSE data[<<ch, c, r>>]
(* mutant: the "if timerID == 0" override of line 320 is lost *)
CoreTaggedOwnCore(ch, c, s) ==
    [m \in DOMAIN s |-> [s[m] EXCEPT !.meta = @ \o <<c>>]]
CoreTagged(ch, c, s) ==
    [m \in DOMAIN s |->
        [s[m] EXCEPT !.meta = @ \o <<IF s[m].id = 0 THEN metadata[ch].core
                                                   ELSE c>>]]
DevRiscs(ch) == { k[3] : k \in {kk \in DOMAIN data : kk[1] = ch} } \cup {"TENSIX"}
DeviceSeries(ch, r) ==
    SortByTs(FlattenSeq([ci \in DOMAIN CoreOrder(ch) |->
        LET c == CoreOrder(ch)[ci]
        IN  IF r = "TENSIX" \/ <<ch, c, r>> \in DOMAIN data
              THEN CoreTagged(ch, c, SeriesAt(ch, c, r)) ELSE <<>>]))

BuildDeviceView ==
    /\ pc = "device"
    /\ devView' = [cr \in UNION {{ch} \X DevRiscs(ch) : ch \in ToSet(ChipOrder)}
                     |-> DeviceSeries(cr[1], cr[2])]
    /\ pc' = "done"
    /\ UNCHANGED <<rows, n, data, globalMin, metadata, d, coreView>>

Next ==
    \/ Ingest \/ IngestDone \/ SortChip \/ InsertAnchors
    \/ BuildCoreView \/ BuildDeviceView

Spec == Init /\ [][Next]_vars /\ WF_vars(Next)

-----------------------------------------------------------------------------
Event == [id : TimerIDs \cup {0}, ts : 0..MaxTS, meta : Seq(Riscs \cup CoreIDs \cup {Origin})]

TypeOK ==
    /\ n \in 0..Len(rows)
    /\ \A key \in DOMAIN data : data[key] \in Seq(Event)
    /\ globalMin \in [ts : 0..NoTS, risc : Riscs, core : CoreIDs \cup {Origin}]
    /\ pc \in {"ingest", "sort", "core", "device", "done"}

Sorted(s) == \A m \in 1..Len(s) - 1 : s[m].ts <= s[m + 1].ts
AllSeries == { data[key] : key \in DOMAIN data } \cup
             { coreView[cc] : cc \in DOMAIN coreView } \cup
             { devView[cr] : cr \in DOMAIN devView }

(* Every timeseries the builder leaves, per RISC, per core and per device, *)
(* is in timestamp order and starts with a marker-0 event: the anchor     *)
(* inserted in front (line 295) is never later than the events behind it, *)
(* whichever chip's rows set the global min.                              *)
SeriesSortedFromAnchor ==
    pc \in {"core", "device", "done"} =>
        \A s \in AllSeries : Sorted(s) /\ s # <<>> /\ s[1].id = 0

Untag(s) == [m \in DOMAIN s |-> [s[m] EXCEPT !.meta = SubSeq(@, 1, Len(@) - 1)]]
LastTag(e) == e.meta[Len(e.meta)]

(* Round trip (spec 8): picking the events of one RISC out of a core's    *)
(* "TENSIX" series and dropping the tag gives back that RISC's series, so *)
(* the merge of lines 303-308 keeps each RISC's order, ties included.     *)
CoreRoundTrip ==
    pc \in {"device", "done"} =>
        \A key \in DOMAIN data :
            Untag(SelectSeq(coreView[<<key[1], key[2]>>],
                            LAMBDA e : LastTag(e) = key[3])) = data[key]

(* Device view (spec 4.2): every event of a device series other than a    *)
(* marker 0 carries the core it came from, and the events of one core,    *)
(* picked out by that tag, are that core's series in its own order; every *)
(* marker 0, whichever core's series it was inserted in, carries the      *)
(* chip's global-min core instead (line 321), so the anchors of all cores  *)
(* name one location.                                                      *)
DeviceRecoverable ==
    pc = "done" =>
        \A cr \in DOMAIN devView :
            /\ \A m \in DOMAIN devView[cr] :
                   devView[cr][m].id = 0 => LastTag(devView[cr][m]) = metadata[cr[1]].core
            /\ \A c \in CoreIDs :
                   LET ch == cr[1]  r == cr[2]
                       NonZero(e) == e.id # 0
                   IN  (\/ r = "TENSIX" /\ <<ch, c>> \in DOMAIN coreView
                        \/ <<ch, c, r>> \in DOMAIN data) =>
                         Untag(SelectSeq(devView[cr],
                                         LAMBDA e : e.id # 0 /\ LastTag(e) = c))
                           = SelectSeq(SeriesAt(ch, c, r), NonZero)

(* Anchor (spec 3 and 4.2): the marker-0 event of a chip carries that     *)
(* chip's global minimum, the least first timestamp of its RISC series,  *)
(* and names a core of that chip.                                         *)
AnchorIsChipMin ==
    pc = "done" =>
        \A ch \in DOMAIN metadata :
            LET own == { rows[m] : m \in {mm \in 1..Len(rows) : rows[mm].chip = ch} }
            IN  /\ \A r \in own : metadata[ch].ts <= r.ts
                /\ \E r \in own : metadata[ch].ts = r.ts /\ metadata[ch].core = r.core
=============================================================================

------------------------------ MODULE MC_Pipeline ------------------------------
(* Two chips, two cores, two RISCs, timers 1 and 2, and three analyses as  *)
(* plot_setup writes them: one per scope, core and RISC "ANY" at the core  *)
(* and device scopes, and one whose scope is none of these.               *)
EXTENDS Pipeline

CONSTANTS ch1, ch2, cA, cB, NoCoreValue

MCChips == {ch1, ch2}
MCCoreIDs == {cA, cB}
MCRiscs == {"BRISC", "NCRISC"}

AnyEnd(t) == [timerID |-> t, risc |-> "ANY", core |-> "ANY"]
MCTimerAnalyses ==
    ("a_risc" :> [across |-> "risc", type |-> "adjacent",
                  start |-> [timerID |-> 1, risc |-> "BRISC"],
                  end |-> [timerID |-> 2, risc |-> "BRISC"]])
 @@ ("b_core" :> [across |-> "core", type |-> "first_last",
                  start |-> AnyEnd(1), end |-> AnyEnd(2)])
 @@ ("c_device" :> [across |-> "device", type |-> "adjacent",
                    start |-> AnyEnd(1), end |-> AnyEnd(2)])
(* a misspelt scope: import_log_run_stats runs nothing for it *)
 @@ ("d_chip" :> [across |-> "chip", type |-> "adjacent",
                  start |-> AnyEnd(1), end |-> AnyEnd(2)])
MCNameOrder == <<"a_risc", "b_core", "c_device", "d_chip">>

(* one RISC-scope analysis declared for any unit, as spec 4.3 allows *)
MCAnyRiscAnalyses ==
    "a_risc" :> [across |-> "risc", type |-> "adjacent",
                 start |-> [timerID |-> 1, risc |-> "ANY"],
                 end |-> [timerID |-> 2, risc |-> "ANY"]]
MCAnyRiscNames == <<"a_risc">>
=============================================================================

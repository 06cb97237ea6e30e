------------------------------ MODULE MC_Timeline ------------------------------
(* One chip, two cores at (1, 0) and (0, 1), two RISCs, timers 1 and 2,   *)
(* and every RISC plotted together with the merged "TENSIX" series.      *)
EXTENDS Timeline

CONSTANTS ch1, cA, cB

MCChips == {ch1}
MCCoreIDs == {cA, cB}
MCRiscs == {"BRISC", "NCRISC"}
MCCoreXY == (cA :> <<1, 0>>) @@ (cB :> <<0, 1>>)
MCPlotRiscs == {"BRISC", "NCRISC", "TENSIX"}
=============================================================================

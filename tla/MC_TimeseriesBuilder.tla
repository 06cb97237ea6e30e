----------------------- MODULE MC_TimeseriesBuilder -----------------------
EXTENDS TimeseriesBuilder

CONSTANTS ch1, ch2, cA, cB

MCChips1 == {ch1}
MCChips2 == {ch1, ch2}
MCCoreIDs == {cA, cB}
MCRiscs == {"BRISC", "NCRISC"}
=============================================================================

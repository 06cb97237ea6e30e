CONSTANTS
    ch1 = ch1
    cA = cA
    cB = cB
    Chips <- MCChips
    CoreIDs <- MCCoreIDs
    Riscs <- MCRiscs
    CoreXY <- MCCoreXY
    PlotRiscs <- MCPlotRiscs
    TimerIDs = {1, 2}
    MaxTS = 3
    MaxRows = 3
    NoKey = 1000
SPECIFICATION Spec
INVARIANTS
    TypeOK
    RowsAreTimelines
    SameStepsSameColumns
CHECK_DEADLOCK FALSE

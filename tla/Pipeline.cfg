CONSTANTS
    ch1 = ch1
    ch2 = ch2
    cA = cA
    cB = cB
    NoCoreValue = NoCoreValue
    NoCore <- NoCoreValue
    Chips <- MCChips
    CoreIDs <- MCCoreIDs
    Riscs <- MCRiscs
    TimerIDs = {1, 2}
    MaxTS = 1
    MaxRows = 3
    TimerAnalyses <- MCTimerAnalyses
    NameOrder <- MCNameOrder
SPECIFICATION Spec
INVARIANTS
    TypeOK
    SummaryCoversScope
CHECK_DEADLOCK FALSE

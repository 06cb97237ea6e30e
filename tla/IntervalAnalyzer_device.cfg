CONSTANTS
    NoCoreValue = NoCoreValue
    cA = cA
    cB = cB
    NoCore <- NoCoreValue
    TimerIDs <- MCTimerIDs
    Riscs <- MCRiscs
    CoreIDs <- MCCoreIDs
    Scope = "device"
    Analyses <- DeviceAnalyses
    MaxLen = 4
    MaxTS = 1
SPECIFICATION Spec
INVARIANTS
    TypeOK
    PairedTight
    PairedComplete
    SpanFromFirstStart
CHECK_DEADLOCK FALSE

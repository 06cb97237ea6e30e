CONSTANTS
    NoCoreValue = NoCoreValue
    cA = cA
    cB = cB
    NoCore <- NoCoreValue
    TimerIDs <- MCTimerIDs
    Riscs <- MCRiscs
    CoreIDs <- MCCoreIDs
    Scope = "risc"
    Analyses <- RiscAnalyses
    MaxLen = 5
    MaxTS = 2
SPECIFICATION Spec
INVARIANTS
    TypeOK
    PairedTight
    PairedComplete
    SpanFromFirstStart
CHECK_DEADLOCK FALSE

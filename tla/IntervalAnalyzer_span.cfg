CONSTANTS
    NoCoreValue = NoCoreValue
    cA = cA
    cB = cB
    NoCore <- NoCoreValue
    TimerIDs <- MCTimerIDs
    Riscs <- MCRiscs
    CoreIDs <- MCCoreIDs
    Scope = "risc"
    Analyses <- SpanAnalyses
    MaxLen = 5
    MaxTS = 2
SPECIFICATION Spec
INVARIANTS
    SpanNotNegative
CHECK_DEADLOCK FALSE

CONSTANTS
    ch1 = ch1
    ch2 = ch2
    cA = cA
    cB = cB
    Chips <- MCChips2
    CoreIDs <- MCCoreIDs
    Riscs <- MCRiscs
    TimerIDs = {1, 2}
    MaxTS = 1
    MaxRows = 3
SPECIFICATION Spec
INVARIANTS
    TypeOK
    SeriesSortedFromAnchor
    CoreRoundTrip
    DeviceRecoverable
CHECK_DEADLOCK FALSE

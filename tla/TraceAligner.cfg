CONSTANTS
    c1 = c1
    c2 = c2
    c3 = c3
    PlotCores <- MCPlotCores
    Markers <- MCMarkers
    MaxEvents = 3
SPECIFICATION Spec
INVARIANTS
    TypeOK
    OrderPreserved
    
    PassesLinear
PROPERTIES
    AlignerRefined
    Terminates
CHECK_DEADLOCK FALSE

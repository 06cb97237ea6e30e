CONSTANTS
    s1 = s1
    s2 = s2
    s3 = s3
    Series <- MCSeries
    DiffValues = {0, 1, 3}
    MaxRecords = 2
SPECIFICATION Spec
INVARIANTS
    TypeOK
    RollUpIsPooled
CHECK_DEADLOCK FALSE

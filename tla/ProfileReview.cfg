CONSTANTS
    MaxFields = 2
    MaxDepartures = 5
    Owners = {a, b}
    a = a
    b = b
SPECIFICATION ReviewSpec
SYMMETRY OwnerSymmetry
INVARIANTS EvaluationIsValid StagedWriteIsReported LegacyNeverSofter  WideningNeverSoftens
CHECK_DEADLOCK FALSE

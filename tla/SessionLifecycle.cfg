SPECIFICATION LiveSpec
CONSTANTS
    Coupled = {c1}
    Issuers = {i1, i2}
    Operators = {o1, o2}
    ZombieGroup = {TRUE, FALSE}
INVARIANTS OneRun RunIsAccounted NoForeignSignal UnreadyIsDead StopIsQuiet
PROPERTY CancelledRunEnds
CHECK_DEADLOCK FALSE

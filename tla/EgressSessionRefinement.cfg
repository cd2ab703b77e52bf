SPECIFICATION FairSpec
CONSTANTS
    Grants = {ga, gb}
    MaxRevision = 2
CHECK_DEADLOCK FALSE
INVARIANTS RuntimeWithinDurable RecordReadable
PROPERTIES SuccessIsEnforced ErrorIsRolledBack BlockedIsFrozen ImplementsAuthority CommandEnds

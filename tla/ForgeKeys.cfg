CONSTANTS
    Repos = {r1, r2}
    r1 = r1
    r2 = r2
    Shared = r1
    Others = 2
    Spaced = {{}, {r2}}
    None = None
    MaxKeys = 4
    PageSize = 1
    MaxPages = 2
SPECIFICATION Spec
INVARIANTS GcIsThorough TeardownRevokes
PROPERTIES GcStaysInScope HorizonRevokes
CHECK_DEADLOCK FALSE

CONSTANTS
    Grants = {ga, gb}
    MaxRevision = 3
SPECIFICATION Spec
INVARIANT RuntimeWithinDurable
PROPERTY BlockedUntilProven

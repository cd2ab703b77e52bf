SPECIFICATION Spec
CONSTANTS
    Names = {dev, claude}
    Builtins = {claude}
    Rules = {g}
    Forge = Forge
    Commands = {c1, c2}
    Absent = Absent
    MaxRev = 1
    MaxEdits = 4
CHECK_DEADLOCK FALSE
SYMMETRY Symmetry
INVARIANTS OutcomeIsHonest
PROPERTIES PromotionIsExact

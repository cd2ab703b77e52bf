CONSTANTS
  Names = {dev}
  Builtins = {}
  Rules = {}
  Forge = Forge
  Commands = {c1}
  Absent = Absent
  MaxRev = 0
  MaxEdits = 3
  Torn = Torn
  Users = {u1, u2}
  MaxUses = 4
SPECIFICATION TrustSpec
INVARIANTS LaunchIsApproved
SYMMETRY UserSymmetry
CHECK_DEADLOCK FALSE

SPECIFICATION Spec
CONSTANTS
    Sessions = {s1}
    Runs = {r1, r2}
    Engines = {docker, podman}
    Verified = {docker}
    Denying = {r2}
    None = None
    MaxSwitches = 1
CHECK_DEADLOCK FALSE
PROPERTY SweepSparesSessions

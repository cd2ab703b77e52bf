SPECIFICATION FairSpec
CONSTANTS
    Clients = {c1, c2}
    None = None
    Sizes = {2}
    Cap = 3
    MaxOut = 2
    Buf = 1
INVARIANTS AttachedIsServed ExitIsTold
PROPERTIES StreamUnbroken SupervisorEnds
CHECK_DEADLOCK FALSE

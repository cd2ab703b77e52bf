SPECIFICATION Spec
CONSTANTS
    Partitions = 1
    HasAPI = TRUE
    Life = 3
    MaxTime = 2
INVARIANTS AgentKeepsTokens TeardownRevokes StopRevokesHeld
CHECK_DEADLOCK FALSE

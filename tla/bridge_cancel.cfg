SPECIFICATION BridgeSpec
CONSTANTS
    Groups = 2
    Cases = 1
    MaxServe = 2
    MaxMinutes = 2
    MaxUnwritten = 2
    MaxProcesses = 1
INVARIANTS
    TeardownIsTried
CHECK_DEADLOCK FALSE

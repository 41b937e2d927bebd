SPECIFICATION BridgeSpec
CONSTANTS
    Groups = 2
    Cases = 1
    MaxServe = 2
    MaxMinutes = 2
    MaxUnwritten = 2
    MaxProcesses = 2
INVARIANTS
    SubmittedOnce
    JobsAreCounted
    OvershootIsRecorded
    OnlyARedeployHides
    HostingIsAccounted
PROPERTIES
    VerdictIsFinal
CHECK_DEADLOCK FALSE

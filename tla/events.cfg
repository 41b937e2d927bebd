SPECIFICATION Spec
CONSTANTS
    Cases = 2
    Reports = 1
    Ticks = 1
    MaxProcesses = 2
INVARIANTS
    HolesAreReported
    NothingIsRefused
    StreamReadsAsOneRun
CHECK_DEADLOCK FALSE

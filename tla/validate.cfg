SPECIFICATION Spec
CONSTANTS
    Proc = {p1, p2}
    Portfolio = {f1, f2}
    RunId = {r1, r2}
    Case = {1}
    Trials = 1
    Workers = 1
    Caps = {1, 2}
    MaxStarts = 3
    None = None
SYMMETRY Symmetry
INVARIANTS
    OneLookUnlessRacing
    ValidationIsWhole
    UnpaidRowsAreFaults
    ResumeReadsTheRest
CHECK_DEADLOCK FALSE

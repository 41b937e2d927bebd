SPECIFICATION Spec
CONSTANTS
    Case = {c1, c2, c3}
    Worker = {w1, w2}
    Cap = 3
    MaxAttempts = 2
    Unpriceable = {c3}
    Model = {m1, m2}
    MaxProcesses = 2
    None = None
SYMMETRY MCSymmetry
INVARIANTS
    SpendConserved
    CapSurvivesRestart
    CompletedIsWhole
    MeasuredOnce
    GatedRunIsOneModel
PROPERTIES
    OnlyTheGateClosesCases
CHECK_DEADLOCK FALSE

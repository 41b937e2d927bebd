SPECIFICATION FairSpec
CONSTANTS
    Caller = {c1, c2, c3}
    None = None
    MaxCost = 4
    MaxCalls = 3
    HasConfirm = TRUE
    Threshold = 2
    MaxInt = 6
    Estimate <- MCEstimate
    Actual <- MCActual
    Total <- MCTotal
INVARIANTS
    TypeOK
    ReservedIsOpenSum
    CapHolds
    OvershootReported
    PromptsAreNeeded
PROPERTIES
    NothingAfterRefusal
    AuthorizeReturns
    ImplementsLedger
CHECK_DEADLOCK FALSE

SPECIFICATION FairSpec
CONSTANTS
    Worker = {w1, w2}
    Items = 4
    Completed <- MCCompleted
INVARIANTS
    EachResultReachesTheSink
    ResultTellsWhatIsMissing
    ExpiryIsCancellation
    AtMostOneLateHandoff
PROPERTIES
    RunReturns

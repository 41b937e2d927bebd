SPECIFICATION Spec
CONSTANTS
    Asset = {1, 2, 3, 4}
    None = None
    Sources <- MCSources
    Pools <- MCPools
    Overlap <- MCOverlap
    Budgets <- MCBudgets
INVARIANTS
    SelectionFits
    RoomWasTaken
CHECK_DEADLOCK FALSE

SPECIFICATION Spec
CONSTANTS
    a1 = a1
    a2 = a2
    refund = refund
    other = other
    Case <- MCCase
    Asset = {a1, a2}
    Tag = {refund, other}
    Pairable <- MCPairable
    Failed <- MCFailed
    caseTags <- MCCaseTags
    assetTags <- MCAssetTags
    Draw <- MCDraw
    Options <- MCOptions
    AssetOrder <- MCAssetOrder
    Workers = 2
    Caps = {3}
    MaxProcesses = 2
    None = None
INVARIANTS
    CompletedUnderItsPlan
CHECK_DEADLOCK FALSE

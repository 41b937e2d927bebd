SPECIFICATION Spec
CONSTANTS
    a1 = a1
    a2 = a2
    refund = refund
    other = other
    Case <- MCCase
    Asset = {a1, a2}
    Tag = {refund, other}
    Pairable <- MCPairable
    Failed <- MCFailed
    caseTags <- MCCaseTags
    assetTags <- MCAssetTags
    Draw <- MCDraw
    Options <- MCPlain
    AssetOrder <- MCAssetOrder
    Workers = 2
    Caps = {3}
    MaxProcesses = 2
    None = None
INVARIANTS
    SequenceContinues
CHECK_DEADLOCK FALSE

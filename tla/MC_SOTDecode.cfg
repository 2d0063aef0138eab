CONSTANTS
    GridWidth <- MCGridWidth
    GridHeight <- MCGridHeight
    TileIndexValues <- MCTileIndexValues
    PsotValues <- MCPsotValues
    TPValues <- MCTPValues
    TNValues <- MCTNValues
    HeaderSizes <- MCHeaderSizes
SPECIFICATION Spec
CONSTRAINT StateBound
INVARIANT CompleteMeansAllPartsSeen
PROPERTY DeclaredCountStable
PROPERTY NoPartAfterComplete
PROPERTY RefinesTilePartProtocol

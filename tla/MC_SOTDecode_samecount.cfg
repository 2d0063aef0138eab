CONSTANTS
    GridWidth <- MCGridWidth
    GridHeight <- MCGridHeight
    TileIndexValues <- MCTileIndexValues
    PsotValues <- MCPsotValues
    TPValues <- MCTPValues
    TNValues <- MCTNValues
    HeaderSizes <- MCHeaderSizes
SPECIFICATION Spec
CONSTRAINT StateBound
PROPERTY SameCountReported

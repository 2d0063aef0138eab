CONSTANTS
    TileIndex <- MCTileIndex
    NumTileParts <- MCNumTileParts
    Lengths <- MCLengths
    Deferred = {TRUE, FALSE}
    HoleBytes <- MCHoleBytes
    MaxParts <- MCMaxParts
    GridWidth <- MCGridWidth
    GridHeight <- MCGridHeight
SPECIFICATION Spec
INVARIANT RecordsRoundTrip
INVARIANT EncodedTileDecodes

---------------------------- MODULE MC_SOTDecode ----------------------------
(* Model-checking instance of SOTDecode: a 1x2 tile grid, Isot values that *)
(* include one tile index past the grid, and bounded codestream length.    *)
EXTENDS SOTDecode

\* Number of SOT records a checked codestream may carry.
MaxSOTs == 5

MCGridWidth == 2
MCGridHeight == 1
MCTileIndexValues == {0, 1, 2}
\* 0 (to end of codestream), 1 and 13 (illegal), 12 (SOT + empty SOD),
\* 14 (minimum legal length), 40 (a tile-part with data)
MCPsotValues == {0, 1, 12, 13, 14, 40}
MCTPValues == 0..3
MCTNValues == 0..3
MCHeaderSizes == {SotHeaderSize, SotHeaderSize + 2}

StateBound == sotsRead <= MaxSOTs
=============================================================================

---------------------------- MODULE MC_SOTCodec ----------------------------
\* Model values for SOTCodec: one tile (index 258, two significant bytes) of
\* three tile-parts, with lengths of one and two significant bytes, in a
\* 16x17 tile grid.  Hole bytes 0 and 127 keep an unpatched Psot within
\* TLC's integers.
EXTENDS SOTCodec

MCTileIndex == 258
MCNumTileParts == 3
MCLengths == {14, 20, 270}
MCHoleBytes == {0, 127}
MCMaxParts == 3
MCGridWidth == 16
MCGridHeight == 17

ASSUME MCMaxParts = MCNumTileParts /\ MCTileIndex < MCGridWidth * MCGridHeight
=============================================================================

------------------------------ MODULE SOTCodec ------------------------------
(***************************************************************************)
(* The two sides of the tile-part protocol together: the tile-parts that   *)
(* SOTMarker::write and write_psot put into the stream for one tile        *)
(* (SOTEncode) are read back by SOTMarker::read (SOTDecode) once the tile  *)
(* has been written.  Each record is decoded from the bytes actually in    *)
(* the stream, the header size handed to read() being the written Lsot     *)
(* less its own two bytes, as the marker reader passes it.  Faults of the  *)
(* decoder's library calls (allocateProcessor, the codeStreamInfo update)  *)
(* are left to SOTDecode: here the reader sees only what the writer wrote. *)
(***************************************************************************)
EXTENDS Integers, Sequences

CONSTANTS
    TileIndex, NumTileParts, Lengths, Deferred, HoleBytes, MaxParts,
    GridWidth, GridHeight

VARIABLES
    stream, pos, psotLocation, encTilePartCounter, writer, parts,   \* writer
    numTileParts, decTilePartCounter, complete, lastTilePart,        \* reader
    expectSOD, phase, sot, sotsRead

encVars == <<stream, pos, psotLocation, encTilePartCounter, writer, parts>>
decVars == <<numTileParts, decTilePartCounter, complete, lastTilePart,
             expectSOD, phase, sot, sotsRead>>
vars == <<encVars, decVars>>

E == INSTANCE SOTEncode WITH tilePartCounter <- encTilePartCounter

D == INSTANCE SOTDecode
       WITH tilePartCounter <- decTilePartCounter,
            TileIndexValues <- 0..65535, PsotValues <- Nat,
            TPValues <- 0..255, TNValues <- 0..255, HeaderSizes <- Nat

TypeOK == E!TypeOK /\ D!TypeOK

Init == E!Init /\ D!Init

\* The writer's steps; the reader has not started.
Write ==
    /\ sotsRead = 0
    /\ \/ \E len \in Lengths, d \in Deferred, h \in HoleBytes : E!WriteSOT(len, d, h)
       \/ E!WriteSOTFails
       \/ E!WriteTileData
       \/ E!WritePsot
    /\ UNCHANGED decVars

\* The tile has been written (MaxParts tile-parts, the last one patched).
Written == writer = "idle" /\ Len(parts) = MaxParts

\* The codestream reader meets the next SOT marker and hands read() the
\* segment after its length field: the fields decoded from the stream.  A
\* record the inner read() rejects (header size, TPsot >= TNsot) fails the
\* reader as in SOTDecode's ReadSOTRejected; so does a position that holds no SOT marker, where the reader
\* (not under src/) cannot find the tile-part.
ReadNext ==
    /\ Written
    /\ sotsRead < Len(parts)
    /\ LET r  == E!DecodeSOT(parts[sotsRead + 1].at)
           hs == r.lsot - 2
       IN  IF r.marker # E!J2K_SOT \/ D!InnerReadRejects(hs, r.tp, r.tn)
           THEN /\ phase = "awaitSOT"
                /\ phase' = "failed" /\ sotsRead' = sotsRead + 1
                /\ UNCHANGED <<numTileParts, decTilePartCounter, complete,
                               lastTilePart, expectSOD, sot>>
           ELSE D!ReadSOT(hs, r.isot, r.psot, r.tp, r.tn, TRUE)
    /\ UNCHANGED encVars

\* The reader skips the tile-part's data.
Consume == D!ConsumeTileData /\ UNCHANGED encVars

\* Writing failed, reading failed, or every tile-part has been read.
Stopped ==
    /\ \/ writer = "failed"
       \/ phase \in {"done", "failed"}
       \/ Written /\ sotsRead = Len(parts) /\ phase = "awaitSOT"
    /\ UNCHANGED vars

Next == Write \/ ReadNext \/ Consume \/ Stopped

Spec == Init /\ [][Next]_vars

-----------------------------------------------------------------------------
\* The SOT records of the writer, read back in order.
RecordsRoundTrip == E!RecordsRoundTrip

\* A tile Grok writes is a tile Grok reads: the reader accepts every
\* tile-part of the written codestream (TPsot from tilePartCounter_, TNsot
\* from numTileParts_, Psot written at once or patched by write_psot after
\* the data), and marks the tile complete exactly when it has read the last
\* of its NumTileParts parts.
EncodedTileDecodes ==
    /\ phase # "failed"
    /\ complete[TileIndex] <=> sotsRead = NumTileParts

=============================================================================

------------------------------ MODULE SOTDecode ------------------------------
(***************************************************************************)
(* Decoder side of the tile-part protocol: SOTMarker::read (both           *)
(* overloads, src/src/lib/core/codestream/markers/SOTMarker.cpp) applied   *)
(* to a codestream whose SOT records are arbitrary (a fuzzed stream), with *)
(* the per-tile state of TileCodingParams and the global decompressor      *)
(* state it mutates.  Header bytes are abstracted to the decoded fields    *)
(* (Isot, Psot, TPsot, TNsot) plus the header size handed in by the caller.*)
(* The tile-data phase after a successful SOT is modelled from the spec.   *)
(***************************************************************************)
EXTENDS Integers, FiniteSets

CONSTANTS
    GridWidth, GridHeight,   \* cp->t_grid_width, cp->t_grid_height
    TileIndexValues,         \* Isot values the stream may carry (valid or not)
    PsotValues,              \* Psot values the stream may carry
    TPValues, TNValues,      \* TPsot and TNsot values the stream may carry
    HeaderSizes              \* header sizes the marker reader may pass in

ASSUME /\ GridWidth \in Nat \ {0} /\ GridHeight \in Nat \ {0}
       /\ TileIndexValues \subseteq 0..65535
       /\ PsotValues \subseteq Nat   \* a uint32_t, kept below TLC's 2^31
       /\ TPValues \subseteq 0..255 /\ TNValues \subseteq 0..255

\* Codestream constants used by SOTMarker.cpp: an SOT segment without tile
\* data is 12 bytes, the smallest legal Psot adds the 2-byte SOD marker, and
\* the header handed to read() excludes the marker and its length field.
SotSegLenMinusTileDataLen == 12
SotSegMinLen == 14
MarkerPlusMarkerLengthBytes == 4
SotHeaderSize == SotSegLenMinusTileDataLen - MarkerPlusMarkerLengthBytes

Tiles == 0 .. (GridWidth * GridHeight - 1)

Phases == {"awaitSOT", "tileData", "done", "failed"}

NoSOT == [tile |-> 0, psot |-> 0, tp |-> 0, tn |-> 0]

VARIABLES
    numTileParts,     \* tcp->numTileParts_ per tile (0 = not yet known)
    tilePartCounter,  \* tcp->tilePartCounter_: tile-parts accepted so far
    complete,         \* decompressState->setComplete(tile)
    lastTilePart,     \* decompressState->lastTilePartInCodeStream
    expectSOD,        \* codeStream->setExpectSOD()
    phase,            \* where the codestream reader is
    sot,              \* out-parameters of the last successful inner read()
    sotsRead          \* SOT records handed to read() so far

vars == <<numTileParts, tilePartCounter, complete, lastTilePart, expectSOD,
          phase, sot, sotsRead>>

TypeOK ==
    /\ numTileParts \in [Tiles -> 0..255]
    /\ tilePartCounter \in [Tiles -> Nat]
    /\ complete \in [Tiles -> BOOLEAN]
    /\ lastTilePart \in BOOLEAN
    /\ expectSOD \in BOOLEAN
    /\ phase \in Phases
    /\ sot \in [tile : TileIndexValues \cup {0}, psot : PsotValues \cup {0},
                tp : TPValues \cup {0}, tn : TNValues \cup {0}]
    /\ sotsRead \in Nat

Init ==
    /\ numTileParts = [t \in Tiles |-> 0]
    /\ tilePartCounter = [t \in Tiles |-> 0]
    /\ complete = [t \in Tiles |-> FALSE]
    /\ lastTilePart = FALSE
    /\ expectSOD = FALSE
    /\ phase = "awaitSOT"
    /\ sot = NoSOT
    /\ sotsRead = 0

-----------------------------------------------------------------------------
(* Helpers                                                                 *)

\* Inner read(): the header size check and the TPsot < TNsot check made
\* while decoding the fields (the latter throws CorruptSOTMarkerException).
InnerReadRejects(hs, tp, tn) ==
    \/ hs # SotHeaderSize
    \/ tn # 0 /\ tp >= tn

\* TileCodingParams::advanceTilePartCounter (not under src/): tile-parts of a
\* tile are accepted in increasing order, each index exactly once.
AdvanceAccepts_Skips(t, tp) == tp >= tilePartCounter[t]
AdvanceAccepts(t, tp) == tp = tilePartCounter[t]

\* Psot must be 0, exactly the SOT segment length (SOT followed by an empty
\* SOD), or at least the minimum segment length.
IllegalPsot(psot) ==
    /\ psot # SotSegLenMinusTileDataLen
    /\ psot # 0
    /\ psot < SotSegMinLen

\* Line 167: a tile whose count is known refuses a TPsot at or beyond it.
\* (The identical test on line 183 is never reached with a different result.)
TilePartBeyondCount_OffByOne(t, tp) == numTileParts[t] # 0 /\ tp > numTileParts[t]
TilePartBeyondCount_Dropped(t, tp) == FALSE
TilePartBeyondCount(t, tp) == numTileParts[t] # 0 /\ tp >= numTileParts[t]

\* Line 191: a nonzero TNsot must equal a count signalled earlier.
CountDisagrees_Dropped(t, tn) == FALSE
CountDisagrees(t, tn) == tn # 0 /\ numTileParts[t] # 0 /\ tn # numTileParts[t]

\* The tile-part count this header leaves for the tile.
NewCount(t, tn) == IF tn # 0 THEN tn ELSE numTileParts[t]

Fail == phase' = "failed"

-----------------------------------------------------------------------------
(* SOTMarker::read(codeStream, headerData, header_size)                    *)

\* The inner read rejects the header: nothing but the phase changes.
ReadSOTRejected(hs, tp, tn) ==
    /\ phase = "awaitSOT"
    /\ InnerReadRejects(hs, tp, tn)
    /\ Fail
    /\ sotsRead' = sotsRead + 1
    /\ UNCHANGED <<numTileParts, tilePartCounter, complete, lastTilePart,
                   expectSOD, sot>>

\* codeStream->allocateProcessor(index) fails.
ReadSOTAllocFails(hs, tp, tn) ==
    /\ phase = "awaitSOT"
    /\ ~InnerReadRejects(hs, tp, tn)
    /\ Fail
    /\ sotsRead' = sotsRead + 1
    /\ UNCHANGED <<numTileParts, tilePartCounter, complete, lastTilePart,
                   expectSOD, sot>>

\* The outer read, from the returned fields on: every early return, the
\* state each one leaves behind, and the final codeStreamInfo update, which
\* may fail after the tile state has been changed (updateOK = FALSE).
ReadSOT(hs, idx, psot, tp, tn, updateOK) ==
    /\ phase = "awaitSOT"
    /\ ~InnerReadRejects(hs, tp, tn)
    /\ sot' = [tile |-> idx, psot |-> psot, tp |-> tp, tn |-> tn]
    /\ sotsRead' = sotsRead + 1
    /\ \/ /\ idx \notin Tiles                            \* invalid tile number
          /\ Fail
          /\ UNCHANGED <<numTileParts, tilePartCounter, complete,
                         lastTilePart, expectSOD>>
       \/ /\ idx \in Tiles
          /\ ~AdvanceAccepts(idx, tp)                   \* counter refuses
          /\ Fail
          /\ UNCHANGED <<numTileParts, tilePartCounter, complete,
                         lastTilePart, expectSOD>>
       \/ /\ idx \in Tiles
          /\ AdvanceAccepts(idx, tp)
          /\ tilePartCounter' = [tilePartCounter EXCEPT ![idx] = @ + 1]
          /\ expectSOD' = (expectSOD \/ psot = SotSegLenMinusTileDataLen)
          /\ \/ /\ IllegalPsot(psot)                     \* illegal Psot
                /\ Fail
                /\ UNCHANGED <<numTileParts, complete, lastTilePart>>
             \/ /\ ~IllegalPsot(psot)
                /\ TilePartBeyondCount(idx, tp)
                /\ lastTilePart' = TRUE
                /\ Fail
                /\ UNCHANGED <<numTileParts, complete>>
             \/ /\ ~IllegalPsot(psot)
                /\ ~TilePartBeyondCount(idx, tp)
                /\ CountDisagrees(idx, tn)
                /\ lastTilePart' = (lastTilePart \/ psot = 0)
                /\ Fail
                /\ UNCHANGED <<numTileParts, complete>>
             \/ /\ ~IllegalPsot(psot)
                /\ ~TilePartBeyondCount(idx, tp)
                /\ ~CountDisagrees(idx, tn)
                /\ lastTilePart' = (lastTilePart \/ psot = 0)
                /\ numTileParts' = [numTileParts EXCEPT ![idx] = NewCount(idx, tn)]
                /\ complete' = [complete EXCEPT ![idx] =
                                  @ \/ NewCount(idx, tn) = tp + 1]
                /\ phase' = IF updateOK THEN "tileData" ELSE "failed"

\* Spec 4.1: the tile-part's data is consumed, after which the reader waits
\* for the next SOT unless this was the last tile-part of the codestream.
ConsumeTileData ==
    /\ phase = "tileData"
    /\ phase' = IF lastTilePart THEN "done" ELSE "awaitSOT"
    /\ expectSOD' = FALSE
    /\ UNCHANGED <<numTileParts, tilePartCounter, complete, lastTilePart,
                   sot, sotsRead>>

\* Decoding of this codestream has ended, successfully or not.
Terminated ==
    /\ phase \in {"done", "failed"}
    /\ UNCHANGED vars

Next ==
    \/ \E hs \in HeaderSizes, tp \in TPValues, tn \in TNValues :
          \/ ReadSOTRejected(hs, tp, tn)
          \/ ReadSOTAllocFails(hs, tp, tn)
          \/ \E idx \in TileIndexValues, psot \in PsotValues, ok \in BOOLEAN :
                ReadSOT(hs, idx, psot, tp, tn, ok)
    \/ ConsumeTileData
    \/ Terminated

Spec == Init /\ [][Next]_vars

-----------------------------------------------------------------------------
(* Properties                                                              *)

\* A tile marked complete by SOTMarker::read has had exactly its declared
\* number of tile-parts accepted, while the codestream is still being read:
\* setComplete must not fire early (a skipped or repeated TPsot) nor stay
\* set while further parts of the tile are accepted.
CompleteMeansAllPartsSeen ==
    phase # "failed" =>
        \A t \in Tiles : complete[t] =>
            /\ numTileParts[t] # 0
            /\ tilePartCounter[t] = numTileParts[t]

\* Once a tile-part header has fixed a tile's number of tile-parts
\* (tcp->numTileParts_), no later SOT of the codestream changes it.
DeclaredCountStable ==
    [][\A t \in Tiles : numTileParts[t] # 0 =>
           numTileParts'[t] = numTileParts[t]]_vars

\* Spec 8: after a tile is complete, no further tile-part of that tile is
\* accepted by SOTMarker::read.
NoPartAfterComplete ==
    [][\A t \in Tiles :
         (complete[t] /\ phase' = "tileData") => sot'.tile # t]_vars

\* Spec 3: once a tile's count is known, every later tile-part of the tile
\* reports that same count in TNsot.
SameCountReported ==
    [][\A t \in Tiles :
         (phase' = "tileData" /\ sot'.tile = t /\ numTileParts[t] # 0)
             => sot'.tn = numTileParts[t]]_vars

\* SOTMarker::read implements the tile-part protocol of the spec: mapped to
\* the counter, the declared count, the complete flag and the end of the
\* codestream, every step of the reader is an allowed protocol step.  This
\* is what ties setComplete to the number of tile-parts actually accepted
\* rather than to the index a header claims.
TP == INSTANCE TilePartProtocol
        WITH Tiles <- Tiles, Counts <- TNValues,
             parts <- tilePartCounter, count <- numTileParts,
             done <- complete, ended <- phase \in {"done", "failed"}

RefinesTilePartProtocol == TP!Spec

=============================================================================

------------------------------ MODULE SOTEncode ------------------------------
(***************************************************************************)
(* Encoder side of the tile-part protocol: SOTMarker::write and            *)
(* SOTMarker::write_psot (src/src/lib/core/codestream/markers/             *)
(* SOTMarker.cpp) writing big-endian fields into a seekable byte stream.   *)
(* When the tile-part length is not known, write() reserves the 4-byte     *)
(* Psot field, remembers its position in psot_location_, and write_psot()  *)
(* later seeks back, writes the length and restores the position.  The     *)
(* tile processor driving the writer and the stream (BufferedStream) are   *)
(* not under src/ and are modelled from the spec (sections 4.1 and 6).     *)
(***************************************************************************)
EXTENDS Integers, Sequences, SequencesExt

CONSTANTS
    TileIndex,       \* proc->getIndex()
    NumTileParts,    \* tcps[index].numTileParts_, written as TNsot
    Lengths,         \* tile-part lengths (SOT segment included) to encode
    Deferred,        \* whether the writer may defer the length (spec 5)
    HoleBytes,       \* byte values a skipped, never-written position may hold
    MaxParts         \* tile-parts written in one checked behaviour

ASSUME /\ TileIndex \in 0..65535 /\ NumTileParts \in 0..255
       /\ Lengths \subseteq 14..65535 /\ Deferred \subseteq BOOLEAN
       /\ HoleBytes \subseteq 0..255 /\ MaxParts \in Nat

J2K_SOT == 65424  \* 0xFF90
Lsot == 10
SotSegLenMinusTileDataLen == 12

Byte == 0..255

\* Big-endian encoding of v in n bytes (BufferedStream::writeShort/writeInt)
\* and its decoding (grk_read).
BigEndian(v, n) == [i \in 1..n |-> (v \div 256^(n - i)) % 256]
FromBigEndian(bs) == FoldLeft(LAMBDA acc, b : acc * 256 + b, 0, bs)

\* Write bytes bs into stream s at offset p (0-based), extending it.
Put(s, p, bs) ==
    [i \in 1 .. (IF p + Len(bs) > Len(s) THEN p + Len(bs) ELSE Len(s)) |->
        IF i > p /\ i <= p + Len(bs) THEN bs[i - p] ELSE s[i]]

VARIABLES
    stream,          \* bytes written so far
    pos,             \* stream->tell()
    psotLocation,    \* SOTMarker::psot_location_
    tilePartCounter, \* proc->tilePartCounter_
    writer,          \* where the tile processor is: idle, data, patch, failed
    parts            \* each tile-part written: offset, length, deferred

vars == <<stream, pos, psotLocation, tilePartCounter, writer, parts>>

TypeOK ==
    /\ stream \in Seq(Byte)
    /\ pos \in Nat /\ psotLocation \in Nat
    /\ tilePartCounter \in 0..255
    /\ writer \in {"idle", "data", "patch", "failed"}
    /\ parts \in Seq([at : Nat, len : Lengths, deferred : BOOLEAN])

Init ==
    /\ stream = <<>>
    /\ pos = 0
    /\ psotLocation = 0
    /\ tilePartCounter = 0
    /\ writer = "idle"
    /\ parts = <<>>

-----------------------------------------------------------------------------
\* The stream position psot_location_ records: tell() after the marker,
\* Lsot and Isot fields.
PsotLocation_AfterSkip(at) == at + 10
PsotLocation(at) == at + 6

\* SOTMarker::write(proc, tileLength), lines 41-77: the SOT record as
\* written at offset at, the Psot field skipped (holding hole bytes h) when
\* tileLength is 0.
SOTRecord(tileLength, h) ==
    BigEndian(J2K_SOT, 2) \o BigEndian(Lsot, 2) \o BigEndian(TileIndex, 2)
    \o (IF tileLength # 0 THEN BigEndian(tileLength, 4) ELSE <<h, h, h, h>>)
    \o <<tilePartCounter, NumTileParts>>

\* The tile processor starts a tile-part and calls write(), with the length
\* or, deferring it, with 0.
WriteSOT(len, deferred, h) ==
    /\ writer = "idle"
    /\ Len(parts) < MaxParts
    /\ LET tileLength == IF deferred THEN 0 ELSE len IN
       /\ stream' = Put(stream, pos, SOTRecord(tileLength, h))
       /\ pos' = pos + Len(SOTRecord(tileLength, h))
       /\ psotLocation' = IF tileLength = 0 THEN PsotLocation(pos) ELSE psotLocation
    /\ parts' = Append(parts, [at |-> pos, len |-> len, deferred |-> deferred])
    /\ writer' = "data"
    /\ UNCHANGED tilePartCounter

\* A stream write of write() fails (BufferedStream error): the compression
\* of the tile is abandoned.
WriteSOTFails ==
    /\ writer = "idle"
    /\ Len(parts) < MaxParts
    /\ writer' = "failed"
    /\ UNCHANGED <<stream, pos, psotLocation, tilePartCounter, parts>>

\* The tile-part's SOD marker and data follow the SOT segment (filler
\* bytes stand for them).
WriteTileData ==
    /\ writer = "data"
    /\ LET n == Last(parts).len - SotSegLenMinusTileDataLen IN
       /\ stream' = Put(stream, pos, [i \in 1..n |-> 0])
       /\ pos' = pos + n
    /\ tilePartCounter' = (tilePartCounter + 1) % 256
    /\ writer' = IF Last(parts).deferred THEN "patch" ELSE "idle"
    /\ UNCHANGED <<psotLocation, parts>>

\* Line 35: the position write_psot() leaves the stream at.
PosAfterPatch_NoRestore(loc, cur) == loc + 4
PosAfterPatch(loc, cur) == cur

\* SOTMarker::write_psot(stream, tileLength), lines 27-39, called with the
\* now known length of the tile-part that deferred it.
WritePsot ==
    /\ writer = "patch"
    /\ IF psotLocation # 0
       THEN /\ stream' = Put(stream, psotLocation, BigEndian(Last(parts).len, 4))
            /\ pos' = PosAfterPatch(psotLocation, pos)
       ELSE UNCHANGED <<stream, pos>>
    /\ writer' = "idle"
    /\ UNCHANGED <<psotLocation, tilePartCounter, parts>>

\* The tile processor has written all its tile-parts, or gave up.
Finished ==
    /\ writer = "failed" \/ (writer = "idle" /\ Len(parts) = MaxParts)
    /\ UNCHANGED vars

Next ==
    \/ \E len \in Lengths, d \in Deferred, h \in HoleBytes : WriteSOT(len, d, h)
    \/ WriteSOTFails
    \/ WriteTileData
    \/ WritePsot
    \/ Finished

Spec == Init /\ [][Next]_vars

-----------------------------------------------------------------------------
\* The SOT record at offset at, decoded as SOTMarker::read decodes it.
DecodeSOT(at) ==
    LET f(o, n) == FromBigEndian(SubSeq(stream, at + o + 1, at + o + n)) IN
    [marker |-> f(0, 2), lsot |-> f(2, 2), isot |-> f(4, 2), psot |-> f(6, 4),
     tp |-> f(10, 1), tn |-> f(11, 1)]

\* Spec 8 (round trip): whenever the writer is between tile-parts, every
\* SOT record written so far, deferred or not, decodes to the tile-part's
\* index, its true length and its TPsot and TNsot; patching one record's
\* Psot never disturbs another record or the data after it.
RecordsRoundTrip ==
    writer = "idle" =>
        \A k \in 1..Len(parts) :
            DecodeSOT(parts[k].at) =
                [marker |-> J2K_SOT, lsot |-> Lsot, isot |-> TileIndex,
                 psot |-> parts[k].len, tp |-> (k - 1) % 256, tn |-> NumTileParts]

=============================================================================

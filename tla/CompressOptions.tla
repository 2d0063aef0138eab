---------------------------- MODULE CompressOptions ----------------------------
(***************************************************************************)
(* The coding options of GrkCompress::parseCommandLine                     *)
(* (src/src/lib/codec/jp2/GrkCompress.cpp) that fix the number of          *)
(* resolutions, the quality layers and the progression: -n, -P (POC), -p,  *)
(* -r and -q, in the order the function handles them, and the final check *)
(* of the POC progressions.  A POC argument is the sequence of records     *)
(* sscanf reads from it ("ok" = all seven fields matched); a layer list is *)
(* the sequence of numbers sscanf reads (integers stand for the doubles).  *)
(***************************************************************************)
EXTENDS Integers, Sequences

CONSTANTS
    DefaultNumResolutions,  \* numresolution before parsing (help text: 6)
    DefaultNumLayers,       \* numlayers before parsing (grk_compress_set_default_params)
    NumCommentsSupported,   \* GRK_NUM_COMMENTS_SUPPORTED, the size of the comment arrays
    MaxCommentLength        \* GRK_MAX_COMMENT_LENGTH

\* The progression orders getProgression recognises.
ProgOrders == {"LRCP", "RLCP", "RPCL", "PCRL", "CPRL"}

\* One "T<t>=res_s,comp_s,lay_e,res_e,comp_e,prog" part of a -P argument.
PocArg == [ok : BOOLEAN, resS : Nat, compS : Nat, layE : Nat, resE : Nat,
           compE : Nat, prog : STRING]

\* One "<dx>x<dy>" of the -F subsampling list (ok: sscanf matched it).
SubArg == [ok : BOOLEAN, dx : Nat, dy : Nat]

\* A -F argument: header = sscanf matched "w,h,ncomp,bitdepth,sign" with sign
\* s or u; subs is the list after '@' (<<>>: no '@').  Height, bit depth and
\* sign are stored unchecked and left out.
RawArg == [given : BOOLEAN, header : BOOLEAN, width : Int, ncomp : Int,
           subs : Seq(SubArg)]

\* One "[w,h]" of a -c argument as sscanf reads it: ok = both numbers
\* matched, sep = the character after ']' ("" at the end of the argument).
PrecArg == [ok : BOOLEAN, w : Nat, h : Nat, sep : STRING]

\* A -b argument: empty = sscanf returns EOF; a field it does not match
\* keeps its initial 0.
CblkArg == [given : BOOLEAN, empty : BOOLEAN, w : Int, h : Int]

\* A "-t w,h" argument: empty = sscanf returns EOF; a field it does not
\* match keeps its initial 0.
TilesArg == [given : BOOLEAN, empty : BOOLEAN, w : Int, h : Int]

\* A "-T x,y" or "-d x,y" argument: matched = sscanf read both numbers.
OffsetArg == [given : BOOLEAN, matched : BOOLEAN, x : Int, y : Int]

\* A "--broadcast" or "--imf" argument PROFILE[,key=N]...: keys are the
\* ",mainlevel=", ",sublevel=" and ",framerate=" parts present, each with a
\* number after it (a non-number fails its sscanf like a bad profile).
ProfileArg == [given : BOOLEAN, name : STRING,
               keys : SUBSET {"mainlevel", "sublevel", "framerate"},
               mainlevel : Int, sublevel : Int, framerate : Int]

\* A "-Z" argument: the Rsiz value itself is left out.
RsizArg == [given : BOOLEAN]

\* outFile is the extension of -o and outFmt the value of -O ("" when absent).

\* A "-C" argument is the sequence of the lengths of its '|'-separated parts.

\* A "-Q x,y" or "-D x,y" argument: matched = sscanf "%lf,%lf" read both
\* numbers (integers here, standing for the doubles).
ResArg == [given : BOOLEAN, matched : BOOLEAN, x : Int, y : Int]

\* A "--roi c=N,U=M" argument: matched = sscanf read both numbers.
RoiArg == [given : BOOLEAN, matched : BOOLEAN, compno : Nat, shift : Nat]

\* A "-m" file: readable = fopen, fseek, ftell and fread succeed; fields =
\* the text split at spaces, each field as atof/atoi read it (a field
\* "1,0,0" reads as 1, an empty one as 0; the empty file is one empty
\* field); mallocZeroNull = malloc(0) returns NULL, which the C library may
\* do or not; commas = the values are written as the usage text says,
\* comma-separated without spaces (which the code reads as one field).
MctArg == [given : BOOLEAN, readable : BOOLEAN, fields : Seq(Int),
           mallocZeroNull : BOOLEAN, commas : BOOLEAN]

\* The options (0, <<>>, "" or given = FALSE: not given; guardBits and mct
\* hold CLI11's defaults 2 and 0; the guard bits stored are left out).
Options == [resolutions : Nat, poc : Seq(PocArg), progression : STRING,
            rates : Seq(Nat), quality : Seq(Nat), raw : RawArg, mct : Nat,
            precincts : Seq(PrecArg), cblk : CblkArg, guardBits : Nat,
            tiles : TilesArg, tileOffset : OffsetArg, imageOffset : OffsetArg,
            tlm : BOOLEAN, broadcast : ProfileArg, imf : ProfileArg, rsiz : RsizArg,
            captureRes : ResArg, displayRes : ResArg, customMct : MctArg, roi : RoiArg,
            comment : Seq(Nat), outFile : STRING, outFmt : STRING]

\* What parseCommandLine leaves in the coding parameters; rc "fail" when it
\* returns GrkRCFail before the cinema profiles are validated (line 1889),
\* "failLate" when it returns it after them.  rsiz names the profile set
\* ("none", "cinema", a broadcast or IMF profile, "user" for -Z's value,
\* "htj2k" for the JPH flag on the default).
Coding == [rc : {"ok", "fail", "failLate"}, rsiz : STRING, writeTlm : BOOLEAN,
           captureRes : Seq(Int), displayRes : Seq(Int), roi : Seq(Nat),
           mctData : BOOLEAN, mctMatrix : Seq(Int), mctOffsets : Seq(Int),
           comments : Seq(Nat), codFormat : STRING, htOnly : BOOLEAN,
           numresolution : Nat, numlayers : Nat,
           pocs : Seq(PocArg), numpocs : Nat, progOrder : STRING,
           layers : Seq(Nat), rawWidth : Int, numcomps : Nat,
           comps : Seq([dx : Nat, dy : Nat]), mct : Nat,
           prc : Seq([w : Nat, h : Nat]), cblkw : Nat, cblkh : Nat,
           tiling : BOOLEAN, tw : Nat, th : Nat, tx0 : Nat, ty0 : Nat, x0 : Nat, y0 : Nat]

\* The coding parameters before parsing: the defaults the usage text lists
\* (lines 176-192: one layer, six resolutions, LRCP).
DefaultCoding ==
    [rc |-> "ok", rsiz |-> "none", writeTlm |-> FALSE,
     captureRes |-> <<>>, displayRes |-> <<>>, roi |-> <<>>,
     mctData |-> FALSE, mctMatrix |-> <<>>, mctOffsets |-> <<>>, comments |-> <<>>,
     codFormat |-> "unk", htOnly |-> FALSE,
     numresolution |-> DefaultNumResolutions, numlayers |-> DefaultNumLayers,
     pocs |-> <<>>, numpocs |-> 0, progOrder |-> "LRCP", layers |-> <<>>,
     rawWidth |-> 0, numcomps |-> 0, comps |-> <<>>, mct |-> 0,
     prc |-> <<>>, cblkw |-> 64, cblkh |-> 64,
     tiling |-> FALSE, tw |-> 0, th |-> 0, tx0 |-> 0, ty0 |-> 0, x0 |-> 0, y0 |-> 0]

\* getProgression, lines 654-668.
GetProgression(s) == IF s \in ProgOrders THEN s ELSE "unknown"

\* Lines 1139-1142: -n sets the number of resolutions (the cinema 4K
\* default is not modelled).
NumResolution(o) == IF o.resolutions # 0 THEN o.resolutions ELSE DefaultNumResolutions

\* Lines 1417-1440: one POC part as stored: the fields narrowed to the
\* widths of grk_progression, the end layer and end resolution truncated
\* to the current numlayers and numresolution.
StorePoc_NoResTruncate(e, nl, nr) ==
    LET layE == e.layE % 65536
    IN  [e EXCEPT !.resS = @ % 256, !.compS = @ % 65536, !.compE = @ % 65536,
                  !.resE = @ % 256, !.layE = IF layE > nl THEN nl ELSE layE,
                  !.prog = GetProgression(@)]
StorePoc(e, nl, nr) ==
    LET layE == e.layE % 65536
        resE == e.resE % 256
    IN  [e EXCEPT !.resS = @ % 256, !.compS = @ % 65536, !.compE = @ % 65536,
                  !.resE = IF resE > nr THEN nr ELSE resE,
                  !.layE = IF layE > nl THEN nl ELSE layE,
                  !.prog = GetProgression(@)]

\* Lines 1441-1450: a stored part must start below where it ends.
PocPartOk(p) == p.resS < p.resE /\ p.compS < p.compE

\* Lines 1414-1458: the sscanf loop.  It stops at the first part that does
\* not match (the rest of the argument is ignored) and fails at the first
\* stored part that is empty.  Result: the parts stored, and whether the
\* loop returned GrkRCFail.
RECURSIVE ParsePoc(_, _, _, _)
ParsePoc(args, nl, nr, stored) ==
    IF args = <<>> \/ ~Head(args).ok THEN [failed |-> FALSE, stored |-> stored]
    ELSE LET p == StorePoc(Head(args), nl, nr)
         IN  IF PocPartOk(p) THEN ParsePoc(Tail(args), nl, nr, Append(stored, p))
             ELSE [failed |-> TRUE, stored |-> stored]

\* Lines 1468-1481: -p must name a progression order (four characters).
ProgressionOk(s) == GetProgression(s) # "unknown"

\* Lines 1772-1788: compression ratios descend and are at least 1.
RatesOk(r) == \A i \in 1..Len(r) : r[i] >= 1 /\ (i > 1 => r[i] <= r[i - 1])

\* Lines 1790-1795: a ratio of 1 is stored as 0, the lossless layer.
StoredRates(r) == [i \in 1..Len(r) |-> IF r[i] = 1 THEN 0 ELSE r[i]]

\* Lines 1813-1829: PSNR values are non-negative and ascend, except that
\* the last may be 0 (lossless).  lastDistortion is the previous value.
QualityOk(q) ==
    \A i \in 1..Len(q) :
        /\ q[i] >= 0
        /\ (i > 1 /\ q[i] < q[i - 1]) => (i = Len(q) /\ q[i] = 0)

\* The factors of a component as stored: uint8_t (lines 1312-1313, 1327-1328,
\* 1339-1340).
Narrow8(f) == [dx |-> f.dx % 256, dy |-> f.dy % 256]

\* Lines 1321-1330, mutated: the last spec leaves lastdx, lastdy at 1.
RawLastSpec_Kept(s, last) == last

\* Lines 1321-1330: the spec with no ':' after it is the last of the list;
\* it becomes lastdx, lastdy, which the components after it take.
RawLastSpec(s, last) == [dx |-> s.dx, dy |-> s.dy]

\* Lines 1305-1345: the loop over the n components; rest is the list that
\* substr2 points to (<<>> once it is nullptr).  A spec followed by ':' is
\* used for one component (1334-1341).  Result: whether the loop set wrong,
\* and the factors stored.
RECURSIVE RawComps(_, _, _, _)
RawComps(n, rest, last, comps) ==
    IF n = 0 THEN [wrong |-> FALSE, comps |-> comps]
    ELSE IF rest = <<>>
         THEN RawComps(n - 1, rest, last, Append(comps, Narrow8(last)))
    ELSE IF ~Head(rest).ok THEN [wrong |-> TRUE, comps |-> comps]
    ELSE IF Len(rest) = 1
         THEN RawComps(n - 1, <<>>, RawLastSpec(Head(rest), last),
                       Append(comps, Narrow8(Head(rest))))
    ELSE RawComps(n - 1, Tail(rest), last, Append(comps, Narrow8(Head(rest))))

\* Lines 1253-1357: -F.  A header sscanf does not match, or a sign other
\* than s or u, sets wrong; otherwise the loop runs for ncomp components
\* (none when ncomp <= 0), starting from lastdx = lastdy = 1.
ParseRaw(r) ==
    IF ~r.header THEN [wrong |-> TRUE, comps |-> <<>>]
    ELSE RawComps(IF r.ncomp > 0 THEN r.ncomp ELSE 0, r.subs, [dx |-> 1, dy |-> 1], <<>>)

\* Lines 2167-2176: raw input needs a width.
RawWidthOk(fmt, width) == fmt \in {"raw", "rawl"} => width # 0

\* Lines 2194-2202: MCT is switched off for raw input whose second or third
\* component is subsampled (the stored, narrowed factors).  comps is short
\* only when the loop set wrong, and parsing has then already failed.
MctDisabled(fmt, numcomps, comps) ==
    LET Subsampled(i) == /\ numcomps > i - 1 /\ i <= Len(comps)
                         /\ comps[i].dx > 1 \/ comps[i].dy > 1
    IN  fmt \in {"raw", "rawl"} /\ (Subsampled(2) \/ Subsampled(3))

\* Lines 1368-1390: the -c loop.  A record must be followed by ',' (go on
\* past "],") or by the end of the argument (stop); anything else, or a
\* record sscanf does not match (an empty rest returns EOF), fails.
\* Result: whether it failed, and the dimensions stored (res_spec = Len).
RECURSIVE ParsePrecincts(_, _)
ParsePrecincts(args, stored) ==
    IF args = <<>> \/ ~Head(args).ok \/ Head(args).sep \notin {"", ","}
    THEN [failed |-> TRUE, stored |-> stored]
    ELSE LET st == Append(stored, [w |-> Head(args).w, h |-> Head(args).h])
         IN  IF Head(args).sep = "" THEN [failed |-> FALSE, stored |-> st]
             ELSE ParsePrecincts(Tail(args), st)

\* Lines 1391-1405: -b fails only on an empty argument or on the size rule.
CodeBlockOk(c) ==
    /\ ~c.empty
    /\ c.w * c.h <= 4096
    /\ 4 <= c.w /\ c.w <= 1024
    /\ 4 <= c.h /\ c.h <= 1024

\* Lines 1490-1497: at most 7 guard bits (the usage text, line 384).
GuardBitsOk(n) == n <= 7

\* Lines 1625-1643: -t needs two strictly positive dimensions.
TilesOk(t) == ~t.empty /\ t.w > 0 /\ t.h > 0

\* Lines 1644-1675: -T and -d need two numbers, neither negative.
OffsetOk(o) == o.matched /\ o.x >= 0 /\ o.y >= 0

\* Lines 1695-1696: the first tile's far corner, uint_adds saturating at
\* 2^32 - 1 (the model's offsets and sizes stay far below it).
TileEnd_OffByOne(t0, size) == t0 + size + 1
TileEnd(t0, size) == t0 + size

\* Lines 1677-1705: with -T but no -d the image offset is the tile offset;
\* otherwise the tile offset must lie above and left of the image offset
\* and, with -t, the first tile must reach past it.  Unset offsets are 0.
TileGrid(o) ==
    LET tx0 == IF o.tileOffset.given THEN o.tileOffset.x ELSE 0
        ty0 == IF o.tileOffset.given THEN o.tileOffset.y ELSE 0
        x0  == IF o.imageOffset.given THEN o.imageOffset.x ELSE tx0
        y0  == IF o.imageOffset.given THEN o.imageOffset.y ELSE ty0
        ok  == ~(o.tileOffset.given /\ ~o.imageOffset.given) =>
                   /\ tx0 <= x0 /\ ty0 <= y0
                   /\ o.tiles.given =>
                          /\ TileEnd(tx0, o.tiles.w) > x0
                          /\ TileEnd(ty0, o.tiles.h) > y0
    IN  [ok |-> ok, tx0 |-> tx0, ty0 |-> ty0, x0 |-> x0, y0 |-> y0]

\* Lines 2177-2185: the tile offset checked again against the image offset.
TileOffsetOk(g) == ~(g.tx0 > 0 /\ g.tx0 > g.x0) /\ ~(g.ty0 > 0 /\ g.ty0 > g.y0)

\* -Q, lines 1499-1508: "%lf,%lf" scanned from the -Q argument.
CaptureRes(o) ==
    [ok |-> o.captureRes.given => o.captureRes.matched,
     value |-> IF o.captureRes.given THEN <<o.captureRes.x, o.captureRes.y>> ELSE <<>>]

\* -D, lines 1509-1518: the same scan, of captureRes, the -Q string (empty
\* without -Q), not of -D's own argument.
DisplayRes(o) ==
    [ok |-> o.displayRes.given => o.captureRes.given /\ o.captureRes.matched,
     value |-> IF o.displayRes.given THEN <<o.captureRes.x, o.captureRes.y>> ELSE <<>>]

\* --roi, lines 1616-1623.
RoiOk(r) == r.given => r.matched

\* The integer square root, floor(sqrt(n)).
ISqrt(n) == CHOOSE r \in 0..n : r * r <= n /\ (r + 1) * (r + 1) > n

\* Line 1579: (int)(sqrt(4 * n + 1) / 2. - 0.5) for n fields; truncating the
\* non-negative (sqrt(4n+1) - 1) / 2 is (floor(sqrt(4n+1)) - 1) \div 2, as
\* floor(x / 2) = floor(floor(x) / 2) (sqrt is exact in double precision
\* at these sizes).
MctNbComp_NoHalf(n) == ISqrt(4 * n + 1) \div 2
MctNbComp(n) == (ISqrt(4 * n + 1) - 1) \div 2

\* Field i of a -m file; past the last field the loops would read beyond
\* the buffer, which the model reads as 0.
MctField(f, i) == IF i <= Len(f) THEN f[i] ELSE 0

\* -m, lines 1529-1615: a read failure goes to cleanup and fails; the text
\* is split at each space (1566-1575, whose comment says ','); k = MctNbComp
\* components; a k*k matrix (atof) and k offsets (atoi) are read from the
\* fields in order into one malloc'd array, whose malloc of zero bytes may
\* return NULL (1584-1588, a failure; other allocations are taken to
\* succeed); grk_set_MCT, outside the repository, installs the array and
\* sets MCT 2, as the usage text says (line 567).
CustomMct(m) ==
    LET k == MctNbComp(Len(m.fields))
    IN  [ok      |-> m.readable /\ ~(k = 0 /\ m.mallocZeroNull),
         matrix  |-> [i \in 1..(k * k) |-> MctField(m.fields, i)],
         offsets |-> [i \in 1..k |-> MctField(m.fields, k * k + i)]]

\* grk_get_file_format for an output name (outside the repository), and the
\* switch on its result (1235-1245, 2103-2115): J2K, named jph for HTJ2K
\* output, and JP2 are accepted; any other format is unknown, an error.
\* It sets isHT for the HTJ2K name and clears it otherwise.
OutFormat(ext) == IF ext \in {"j2k", "jph"} THEN "j2k" ELSE IF ext = "jp2" THEN "jp2" ELSE "unk"
HtExt(ext) == ext = "jph"

\* isHT from -o (line 1234), as every check up to line 2101 sees it.
HtAtParse(o) == o.outFile # "" /\ HtExt(o.outFile)

\* Lines 2100-2118: -O sets the output format and isHT again, at the end.
HtFinal(o) == IF o.outFmt # "" THEN HtExt(o.outFmt) ELSE HtAtParse(o)

\* setHT (975-984), called after -o (1246-1247) and after -O (2116-2117)
\* for HTJ2K output, makes the code-blocks HT only.
HtOnly(o) == HtAtParse(o) \/ (o.outFmt # "" /\ HtExt(o.outFmt))

\* Lines 2120-2166: --batch-src needs -O and no -o (--in-file is never
\* given with it here); a single image needs -o.
OutputOk(o, batch) ==
    IF batch THEN o.outFmt # "" /\ o.outFile = "" ELSE o.outFile # ""

\* The comment loop's test for a full comment array.
CommentsFull_Late(stored) == Len(stored) = NumCommentsSupported + 1
CommentsFull(stored) == Len(stored) = NumCommentsSupported

\* -C, lines 1708-1735: each '|'-separated part in turn; an empty part is
\* skipped, so is one longer than MaxCommentLength (with a warning); a full
\* comment array ends the loop (with a warning); any other part is copied
\* into the next comment slot.  stored holds the lengths copied so far.
RECURSIVE ParseComments(_, _)
ParseComments(parts, stored) ==
    IF parts = <<>> THEN stored
    ELSE LET len == Head(parts)
         IN  IF len = 0 \/ len > MaxCommentLength THEN ParseComments(Tail(parts), stored)
             ELSE IF CommentsFull(stored) THEN stored
             ELSE ParseComments(Tail(parts), Append(stored, len))

BroadcastProfiles == {"SINGLE", "MULTI", "MULTI_R"}
ImfProfiles == {"2K", "4K", "8K", "2K_R", "4K_R", "8K_R"}

\* A ",key=N" part's value, 0 when the part is absent.
KeyValue(a, k) == IF k \in a.keys THEN a[k] ELSE 0

\* Line 1918 scans ",mainlevel=" with the format "mainvalidateCinemalevel=%d",
\* which stops matching after "main": the scan succeeds only when the part
\* is absent, so mainlevel is always 0 when it does.
BroadcastLevelScanned(a) == "mainlevel" \notin a.keys

\* --broadcast, lines 1906-1980: the level and frame rate scans, the profile
\* name before the first comma, the level range (always 0 here); TLM is
\* written when a positive frame rate is given.
Broadcast(a) ==
    [ok  |-> BroadcastLevelScanned(a) /\ a.name \in BroadcastProfiles,
     tlm |-> KeyValue(a, "framerate") > 0]

\* --imf, lines 1981-2083: profile name, main level 0..11, sub-level 0..9;
\* TLM is always written.
Imf(a) ==
    [ok  |-> /\ a.name \in ImfProfiles
             /\ KeyValue(a, "mainlevel") \in 0..11
             /\ KeyValue(a, "sublevel") \in 0..9,
     tlm |-> TRUE]

\* Lines 2084-2093: -Z is ignored (with a warning) under a cinema or an IMF
\* profile, and otherwise replaces the Rsiz set so far.
RsizIgnored_NoCinema(o, cinema) == o.imf.given
RsizIgnored(o, cinema) == cinema \/ o.imf.given

\* The profile block, lines 1890-2099, after validateCinema: unless the
\* output is HTJ2K, a cinema profile (cinema = TRUE: validated and set) or
\* else --broadcast, then --imf, then -Z; for HTJ2K only the JPH flag is
\* set.  tlm is -X (line 1162), which the profiles may only switch on.
Profiles(o, cinema, ht) ==
    LET bUsed == ~cinema /\ o.broadcast.given
        b     == Broadcast(o.broadcast)
        i     == Imf(o.imf)
        r0    == IF cinema THEN "cinema" ELSE IF bUsed THEN o.broadcast.name ELSE "none"
        r1    == IF o.imf.given THEN o.imf.name ELSE r0
    IN  IF ht THEN [ok |-> TRUE, rsiz |-> "htj2k", tlm |-> o.tlm]
        ELSE [ok   |-> (bUsed => b.ok) /\ (o.imf.given => i.ok),
              rsiz |-> IF o.rsiz.given /\ ~RsizIgnored(o, cinema) THEN "user" ELSE r1,
              tlm  |-> \/ o.tlm
                       \/ cinema
                       \/ bUsed /\ b.tlm
                       \/ o.imf.given /\ i.tlm]

\* parseCommandLine on the options, in its order: resolutions (1139), -o
\* (1231-1252), raw format (1253-1357), precincts (1368), code-blocks
\* (1391), POC or else progression order (1409-1481), guard bits (1490), -Q
\* and -D (1499-1518), -Y (1519-1527), -m (1529-1615), --roi (1616-1623),
\* tiles and offsets (1625-1705), comments (1708-1735), layer rates or
\* quality (1751-1832, not for HTJ2K), then, after validateCinema, the
\* profiles (1890-2099), -O (2100-2118) and the checks at the end: the
\* output (2120-2166), raw width (2167), tile offset (2177), MCT off for
\* subsampled raw (2194), and a custom MCT (mct 2) without its matrix
\* (2203).  POC parts are checked against the layer count as it is when -P
\* is parsed.  The final loop over the POCs (2186-2193) only logs.  fmt is
\* decod_format; cinema is a cinema profile given and validated; batch is
\* --batch-src given.
ParseOptions(o, fmt, cinema, batch) ==
    LET ht   == HtAtParse(o)
        nr   == NumResolution(o)
        rates == IF ht THEN <<>> ELSE o.rates
        quality == IF ht THEN <<>> ELSE o.quality
        prof == Profiles(o, cinema, ht)
        cap  == CaptureRes(o)
        disp == DisplayRes(o)
        cm   == CustomMct(o.customMct)
        mctSet == IF o.customMct.given THEN 2 ELSE o.mct
        raw  == ParseRaw(o.raw)
        rawOk == o.raw.given /\ o.raw.header
        numcomps == IF rawOk THEN o.raw.ncomp % 65536 ELSE 0
        comps == IF rawOk THEN raw.comps ELSE <<>>
        width == IF rawOk THEN o.raw.width ELSE 0   \* (uint32_t): zero iff zero
        mct  == IF MctDisabled(fmt, numcomps, comps) THEN 0 ELSE mctSet
        prc  == ParsePrecincts(o.precincts, <<>>)
        poc  == ParsePoc(o.poc, DefaultNumLayers, nr, <<>>)
        grid == TileGrid(o)
        pocs == poc.stored
        early == \/ o.outFile # "" /\ OutFormat(o.outFile) = "unk"
                 \/ o.raw.given /\ raw.wrong
                 \/ o.precincts # <<>> /\ prc.failed
                 \/ o.cblk.given /\ ~CodeBlockOk(o.cblk)
                 \/ poc.failed
                 \/ o.poc # <<>> /\ Len(pocs) <= 1
                 \/ o.poc = <<>> /\ o.progression # "" /\ ~ProgressionOk(o.progression)
                 \/ ~GuardBitsOk(o.guardBits)
                 \/ ~cap.ok
                 \/ ~disp.ok
                 \/ o.mct > 2
                 \/ o.customMct.given /\ ~cm.ok
                 \/ ~RoiOk(o.roi)
                 \/ o.tiles.given /\ ~TilesOk(o.tiles)
                 \/ o.tileOffset.given /\ ~OffsetOk(o.tileOffset)
                 \/ o.imageOffset.given /\ ~OffsetOk(o.imageOffset)
                 \/ ~grid.ok
                 \/ rates # <<>> /\ quality # <<>>
                 \/ rates # <<>> /\ ~RatesOk(rates)
                 \/ rates = <<>> /\ quality # <<>> /\ ~QualityOk(quality)
        late == \/ ~prof.ok
                \/ o.outFmt # "" /\ OutFormat(o.outFmt) = "unk"
                \/ ~OutputOk(o, batch)
                \/ ~RawWidthOk(fmt, width)
                \/ ~TileOffsetOk(grid)
                \/ mct = 2 /\ ~o.customMct.given
    IN  [rc |-> IF early THEN "fail" ELSE IF late THEN "failLate" ELSE "ok",
         rsiz |-> prof.rsiz, writeTlm |-> prof.tlm, numresolution |-> nr,
         captureRes |-> cap.value, displayRes |-> disp.value,
         roi |-> IF o.roi.given THEN <<o.roi.compno, o.roi.shift>> ELSE <<>>,
         mctData |-> o.customMct.given, mctMatrix |-> cm.matrix, mctOffsets |-> cm.offsets,
         comments |-> ParseComments(o.comment, <<>>),
         codFormat |-> OutFormat(IF o.outFmt # "" THEN o.outFmt ELSE o.outFile),
         htOnly |-> HtOnly(o),
         numlayers |-> IF rates # <<>> THEN Len(rates)
                       ELSE DefaultNumLayers + Len(quality),
         pocs |-> pocs,
         numpocs |-> IF o.poc # <<>> THEN Len(pocs) - 1 ELSE 0,
         progOrder |-> IF o.poc = <<>> /\ o.progression # ""
                       THEN o.progression ELSE "LRCP",
         layers |-> IF rates # <<>> THEN StoredRates(rates) ELSE quality,
         rawWidth |-> width, numcomps |-> numcomps, comps |-> comps, mct |-> mct,
         prc |-> IF o.precincts # <<>> THEN prc.stored ELSE <<>>,
         cblkw |-> IF o.cblk.given THEN o.cblk.w ELSE 64,
         cblkh |-> IF o.cblk.given THEN o.cblk.h ELSE 64,
         tiling |-> o.tiles.given, tw |-> o.tiles.w, th |-> o.tiles.h,
         tx0 |-> grid.tx0, ty0 |-> grid.ty0, x0 |-> grid.x0, y0 |-> grid.y0]

====

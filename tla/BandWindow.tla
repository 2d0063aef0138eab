----------------------------- MODULE BandWindow -----------------------------
(***************************************************************************)
(* The padded band-window geometry of ResWindow (src/src/lib/core/canvas/  *)
(* ResWindow.h): ResWindow::getPaddedBandWindow and the band windows the   *)
(* ResWindow constructor derives from it for each orientation.  Rectangle  *)
(* operations act on each axis separately, so a window is one axis of a    *)
(* rectangle: an interval [lo, hi).  An orientation is the pair of its     *)
(* per-axis band bits (LL = 0/0, HL = 1/0, LH = 0/1, HH = 1/1); one axis   *)
(* sees the low (0) or high (1) bit.  The grk_rect32 operations and        *)
(* ResSimple::getBandWindow are not under src/ and come from the spec.     *)
(***************************************************************************)
EXTENDS Integers

Iv(lo, hi) == [lo |-> lo, hi |-> hi]

IsEmpty(a) == a.hi <= a.lo

\* a lies within b (an empty a lies anywhere)
Within(a, b) == IsEmpty(a) \/ (b.lo <= a.lo /\ a.hi <= b.hi)

CeilDiv(a, d) == -((-a) \div d)

\* grk_rect32::grow_IN_PLACE: widen by p on both sides, saturating at 0.
Grow(a, p) == Iv(IF a.lo > p THEN a.lo - p ELSE 0, a.hi + p)

\* grk_rect32::intersection and clip_IN_PLACE.
Clip(a, b) == Iv(IF a.lo > b.lo THEN a.lo ELSE b.lo, IF a.hi < b.hi THEN a.hi ELSE b.hi)

\* ResSimple::getBandWindow (spec 4.2, equation B-15 of the standard): the
\* window projected onto the band of bit ob after n decompositions; the
\* unsigned code yields 0 where the numerator would be negative, which is
\* what the ceiling of a value in (-1, 0] gives.
BandWindowOf(n, ob, a) ==
    IF n = 0 THEN a
    ELSE Iv(CeilDiv(a.lo - 2^(n - 1) * ob, 2^n), CeilDiv(a.hi - 2^(n - 1) * ob, 2^n))

\* Resolution window padded by the grown, clipped window one decomposition
\* below the band (lines 326-334), the out-parameter paddedResWindow.
PaddedResWindow_Unclipped(n, win, tile, padding) ==
    LET res == IF n > 1 THEN BandWindowOf(n - 1, 0, win) ELSE win
    IN  Grow(res, 2 * padding)
PaddedResWindow_Ungrown(n, win, tile, padding) ==
    LET res  == IF n > 1 THEN BandWindowOf(n - 1, 0, win) ELSE win
        less == IF n > 1 THEN BandWindowOf(n - 1, 0, tile) ELSE tile
    IN  Clip(res, less)
PaddedResWindow(n, win, tile, padding) ==
    LET res  == IF n > 1 THEN BandWindowOf(n - 1, 0, win) ELSE win
        less == IF n > 1 THEN BandWindowOf(n - 1, 0, tile) ELSE tile
    IN  Clip(Grow(res, 2 * padding), less)

\* ResWindow::getPaddedBandWindow, lines 315-337, for one axis.
GetPaddedBandWindow(n, ob, win, tile, padding) ==
    IF n = 0 THEN Clip(Grow(win, padding), tile)
    ELSE BandWindowOf(1, ob, PaddedResWindow(n, win, tile, padding))

\* Number of decompositions below resolution resno (lines 87-88).
NumDecomps(numres, resno) == IF resno = 0 THEN numres - 1 ELSE numres - resno

\* ResWindow constructor, lines 90-102, for one axis: the padded band window
\* of a band bit, and the band it is checked against (the coarser resolution
\* for LL, the tile band otherwise; both are the tile's band window).
CtorBandWindow(numres, resno, ob, win, tile, filterWidth) ==
    GetPaddedBandWindow(NumDecomps(numres, resno), ob, win, tile, 2 * filterWidth)
CtorBand(numres, resno, ob, tile) ==
    BandWindowOf(NumDecomps(numres, resno), ob, tile)

=============================================================================

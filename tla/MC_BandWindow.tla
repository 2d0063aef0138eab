--------------------------- MODULE MC_BandWindow ---------------------------
(* Checks the padded band-window geometry of ResWindow on every tile      *)
(* interval and window of interest within Coords, for every resolution of *)
(* up to MaxNumRes, both band bits and the windowed filter widths.  The    *)
(* inputs are chosen in the initial state and never change.               *)
EXTENDS BandWindow

\* Largest canvas coordinate, number of resolutions and filter width tried.
MaxCoord == 12
MaxNumRes == 4
FilterWidths == {1, 2}

Coords == 0 .. MaxCoord

VARIABLES numres, resno, ob, tile, win, fw

vars == <<numres, resno, ob, tile, win, fw>>

\* Any non-empty tile component, any non-empty window of interest inside it;
\* only resolutions above the lowest have a high band.
Init ==
    /\ numres \in 1 .. MaxNumRes
    /\ resno \in 0 .. (numres - 1)
    /\ ob \in IF resno = 0 THEN {0} ELSE {0, 1}
    /\ tile \in {Iv(a, b) : a \in Coords, b \in Coords}
    /\ ~IsEmpty(tile)
    /\ win \in {Iv(a, b) : a \in tile.lo .. tile.hi, b \in tile.lo .. tile.hi}
    /\ ~IsEmpty(win)
    /\ fw \in FilterWidths

Next == UNCHANGED vars

Spec == Init /\ [][Next]_vars

PaddedBand == CtorBandWindow(numres, resno, ob, win, tile, fw)
Band == CtorBand(numres, resno, ob, tile)

TypeOK ==
    /\ numres \in 1 .. MaxNumRes
    /\ resno \in 0 .. (numres - 1)
    /\ ob \in {0, 1}
    /\ tile \in [lo : Coords, hi : Coords]
    /\ win \in [lo : Coords, hi : Coords]
    /\ fw \in FilterWidths

\* The assertion of ResWindow.h line 100: the padded band window the
\* constructor computes lies within the band it belongs to, so no code
\* block outside the band's data is ever asked for.
PaddedWindowWithinBand == Within(PaddedBand, Band)

\* Spec 4.2: the padded band window holds every band sample within
\* FILTER_WIDTH of the window of interest's projection onto the band, the
\* context the inverse wavelet filter reads.
PaddingCoversFilter ==
    Within(Clip(Grow(BandWindowOf(NumDecomps(numres, resno), ob, win), fw), Band),
           PaddedBand)
=============================================================================

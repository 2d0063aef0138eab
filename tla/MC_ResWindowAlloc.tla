------------------------- MODULE MC_ResWindowAlloc -------------------------
(* Model-checking instances of ResWindowAlloc: tile components taller than *)
(* they are wide, with an odd y origin, so that the coarser widths and     *)
(* heights used as attach offsets differ and the high bands differ in size *)
(* from the low ones.  The whole-tile path is checked on five resolutions; *)
(* the windowed path, where every alloc2d of up to seven buffers may fail, *)
(* on three.                                                               *)
EXTENDS ResWindowAlloc

MCX0 == 0
MCY0 == 1

MCWholeNumRes == 5
MCWholeX1 == 17
MCWholeY1 == 33

MCWindowedNumRes == 3
MCWindowedX1 == 5
MCWindowedY1 == 9
\* FILTER_WIDTH of the windowed path (the 5/3 wavelet's filter width)
MCWindowedFilterWidth == 2
=============================================================================

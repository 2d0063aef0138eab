SPECIFICATION Spec
INVARIANT PaddedWindowWithinBand
INVARIANT PaddingCoversFilter

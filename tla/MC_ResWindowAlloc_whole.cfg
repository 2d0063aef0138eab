CONSTANTS
    NumRes <- MCWholeNumRes
    X0 <- MCX0
    X1 <- MCWholeX1
    Y0 <- MCY0
    Y1 <- MCWholeY1
    FilterWidth = 0
    UseHighest = TRUE
SPECIFICATION Spec
INVARIANT NoDanglingView
INVARIANT OkAllocMeansBacked
INVARIANT AliasWithinBacking

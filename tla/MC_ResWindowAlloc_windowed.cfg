CONSTANTS
    NumRes <- MCWindowedNumRes
    X0 <- MCX0
    X1 <- MCWindowedX1
    Y0 <- MCY0
    Y1 <- MCWindowedY1
    FilterWidth <- MCWindowedFilterWidth
    UseHighest = FALSE
SPECIFICATION Spec
INVARIANT OkAllocMeansCanvasBacked

CONSTANTS
    T1_SIGMA <- MCSigma
    T1_LUT_SIG <- MCLutSig
    T1_LUT_SGN <- MCLutSgn
    T1_CTXNO_ZC = 0
    T1_CTXNO_SC = 9
    T1_NMSEDEC_BITS <- MCNmsedecBits
    T1_NMSEDEC_FRACBITS <- MCNmsedecFracBits
SPECIFICATION Spec
INVARIANT ZcMatchesStandard
INVARIANT SignTablesMatchStandard
INVARIANT NmsedecMatchesDefinition

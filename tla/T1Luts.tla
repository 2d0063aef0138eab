------------------------------- MODULE T1Luts -------------------------------
(***************************************************************************)
(* The lookup tables the tier-1 entropy coder is compiled with, as          *)
(* computed by src/src/lib/core/t1/part1/impl/t1_generate_luts.cpp:         *)
(* t1_init_ctxno_zc (zero-coding context), t1_init_ctxno_sc (sign-coding    *)
(* context), t1_init_spb (sign prediction bit), the arrangement of the      *)
(* zero-coding table in main, and the four nmsedec distortion tables.      *)
(* The bit layout of the neighbourhood flags (t1_common.h, not in the      *)
(* repository) is a parameter.  The floating-point arithmetic of the       *)
(* nmsedec loop is exact here (every value is a small dyadic rational), so *)
(* it is computed with integers.                                           *)
(***************************************************************************)
EXTENDS Integers, Bitwise

CONSTANTS
    T1_SIGMA,            \* T1_SIGMA_0 .. T1_SIGMA_8: 3x3 neighbourhood masks
    T1_LUT_SIG,          \* T1_LUT_SIG_N/S/E/W masks, by direction
    T1_LUT_SGN,          \* T1_LUT_SGN_N/S/E/W masks, by direction
    T1_CTXNO_ZC,         \* first zero-coding context number
    T1_CTXNO_SC,         \* first sign-coding context number
    T1_NMSEDEC_BITS,
    T1_NMSEDEC_FRACBITS

Dirs == {"N", "S", "E", "W"}

ASSUME /\ T1_SIGMA \in [0..8 -> {2^k : k \in 0..8}]
       /\ T1_LUT_SIG \in [Dirs -> {2^k : k \in 0..7}]
       /\ T1_LUT_SGN \in [Dirs -> {2^k : k \in 0..7}]
       /\ T1_NMSEDEC_FRACBITS < T1_NMSEDEC_BITS

\* (f & m) != 0
Set(f, m) == (f & m) # 0

Bool2Int(b) == IF b THEN 1 ELSE 0

MinOf(a, b) == IF a < b THEN a ELSE b

MaxOf(a, b) == IF a > b THEN a ELSE b

-----------------------------------------------------------------------------
(* t1_init_ctxno_zc, lines 27-144                                           *)

\* Lines 44-91: orientations 0 and 1, and 2 after swapping h and v.
ZcCtxHV(h, v, d) ==
    CASE h = 0 /\ v = 0 -> IF d = 0 THEN 0 ELSE IF d = 1 THEN 1 ELSE 2
      [] h = 0          -> IF v = 1 THEN 3 ELSE 4
      [] h = 1          -> IF v # 0 THEN 7 ELSE IF d = 0 THEN 5 ELSE 6
      [] OTHER          -> 8

\* Lines 93-140: orientation 3, from hv = h + v and d.
ZcCtxHH(hv, d) ==
    CASE d = 0 -> IF hv = 0 THEN 0 ELSE IF hv = 1 THEN 1 ELSE 2
      [] d = 1 -> IF hv = 0 THEN 3 ELSE IF hv = 1 THEN 4 ELSE 5
      [] d = 2 -> IF hv = 0 THEN 6 ELSE 7
      [] OTHER -> 8

t1_init_ctxno_zc(f, orientation) ==
    LET h0 == Bool2Int(Set(f, T1_SIGMA[3])) + Bool2Int(Set(f, T1_SIGMA[5]))
        v0 == Bool2Int(Set(f, T1_SIGMA[1])) + Bool2Int(Set(f, T1_SIGMA[7]))
        d  == Bool2Int(Set(f, T1_SIGMA[0])) + Bool2Int(Set(f, T1_SIGMA[2]))
              + Bool2Int(Set(f, T1_SIGMA[8])) + Bool2Int(Set(f, T1_SIGMA[6]))
        \* case 2 swaps h and v and falls through to cases 0 and 1
        h  == IF orientation = 2 THEN v0 ELSE h0
        v  == IF orientation = 2 THEN h0 ELSE v0
    IN  T1_CTXNO_ZC + (IF orientation = 3 THEN ZcCtxHH(h + v, d)
                       ELSE ZcCtxHV(h, v, d))

\* main, lines 271-279: the table slot that receives the contexts computed
\* for orientation j (1 and 2 trade places).
ZcSlot_NoSwap(j) == j
ZcSlot(j) == IF j = 2 THEN 1 ELSE IF j = 1 THEN 2 ELSE j

\* main, lines 266-282: lut_ctxno_zc[(ZcSlot(j) << 9) | i] for j in 0..3
\* and i in 0..511.  ZcSlot is its own inverse, so slot o holds the
\* contexts computed for orientation ZcSlot(o).
lut_ctxno_zc == [k \in 0..2047 |-> t1_init_ctxno_zc(k % 512, ZcSlot(k \div 512))]

-----------------------------------------------------------------------------
(* t1_init_ctxno_sc and t1_init_spb, lines 146-232                          *)

\* Lines 151-163 (and 208-220): the net sign of a pair of opposite
\* neighbours, +1 if some are positive and none negative, -1 the reverse.
Contribution_NoMin(f, a, b) ==
    LET pos(x) == (f & (T1_LUT_SIG[x] + T1_LUT_SGN[x])) = T1_LUT_SIG[x]
        neg(x) == (f & (T1_LUT_SIG[x] + T1_LUT_SGN[x])) = T1_LUT_SIG[x] + T1_LUT_SGN[x]
    IN  (Bool2Int(pos(a)) + Bool2Int(pos(b))) - (Bool2Int(neg(a)) + Bool2Int(neg(b)))
Contribution(f, a, b) ==
    LET pos(x) == (f & (T1_LUT_SIG[x] + T1_LUT_SGN[x])) = T1_LUT_SIG[x]
        neg(x) == (f & (T1_LUT_SIG[x] + T1_LUT_SGN[x])) = T1_LUT_SIG[x] + T1_LUT_SGN[x]
    IN  MinOf(Bool2Int(pos(a)) + Bool2Int(pos(b)), 1)
        - MinOf(Bool2Int(neg(a)) + Bool2Int(neg(b)), 1)

\* Lines 146-202: hc and vc, negated together when hc < 0; a value of hc
\* other than 0 or 1 leaves n at 0.
t1_init_ctxno_sc(f) ==
    LET hc0 == Contribution(f, "E", "W")
        vc0 == Contribution(f, "N", "S")
        hc  == IF hc0 < 0 THEN -hc0 ELSE hc0
        vc  == IF hc0 < 0 THEN -vc0 ELSE vc0
        n   == CASE hc = 0 -> IF vc = 0 THEN 0 ELSE 1
                 [] hc = 1 -> IF vc = -1 THEN 2 ELSE IF vc = 0 THEN 3 ELSE 4
                 [] OTHER  -> 0
    IN  T1_CTXNO_SC + n

\* Line 228: the predicted sign is negative unless the horizontal
\* contribution is positive, or zero with a positive vertical one.
SpbNegative(hc, vc) == ~(hc > 0 \/ (hc = 0 /\ vc > 0))

\* Lines 204-232.
t1_init_spb(f) ==
    LET hc == Contribution(f, "E", "W")
        vc == Contribution(f, "N", "S")
    IN  IF hc = 0 /\ vc = 0 THEN 0 ELSE Bool2Int(SpbNegative(hc, vc))

\* main, lines 299-329: lut_ctxno_sc and lut_spb for f in 0..255.
lut_ctxno_sc == [f \in 0..255 |-> t1_init_ctxno_sc(f)]
lut_spb == [f \in 0..255 |-> t1_init_spb(f)]

-----------------------------------------------------------------------------
(* nmsedec tables, main lines 331-355                                      *)

\* t = i / 2^FRACBITS; a value x = num / 2^(2 * FRACBITS) of the squared
\* terms is stored as max(0, (int)(floor(x * 2^FRACBITS + 0.5) /
\* 2^FRACBITS * 8192.0)).
One == 2^T1_NMSEDEC_FRACBITS
Stored(num) ==
    LET rounded == (2 * num + One) \div (2 * One)   \* floor(num / One + 1/2)
    IN  MaxOf(0, (rounded * 8192) \div One)

\* Lines 343-350: the refinement reconstruction offset, 1.5 when the top bit
\* of i is set and 0.5 otherwise, in units of 1 / (2 * One).
RefOffset_WrongBit(i) == IF (i & 2^(T1_NMSEDEC_BITS - 2)) # 0 THEN 3 * One ELSE One
RefOffset(i) == IF (i & 2^(T1_NMSEDEC_BITS - 1)) # 0 THEN 3 * One ELSE One

\* Squares of u and v at (2 * One) times their value: the differences
\* below come out in units of 1 / (4 * One^2), so they are scaled by 4.
Sq(x) == x * x

lut_nmsedec_sig(i) == Stored((Sq(2 * i) - Sq(2 * i - 3 * One)) \div 4)
lut_nmsedec_sig0(i) == Stored(Sq(2 * i) \div 4)
lut_nmsedec_ref(i) == Stored((Sq(2 * i - 2 * One) - Sq(2 * i - RefOffset(i))) \div 4)
lut_nmsedec_ref0(i) == Stored(Sq(2 * i - 2 * One) \div 4)

=============================================================================

------------------------------ MODULE MC_T1Luts ------------------------------
(***************************************************************************)
(* Checks the generated tier-1 tables against the definitions of ITU-T     *)
(* T.800 Annex D, for every neighbourhood flag word f and every band       *)
(* orientation o: the initial state picks (f, o) and never changes.  The   *)
(* flag layout is the one of t1_common.h: T1_SIGMA_k is bit k of the 3x3   *)
(* neighbourhood numbered row by row from the north-west; the N, S, E and  *)
(* W significance and sign flags of the sign tables occupy bits 0..7.      *)
(***************************************************************************)
EXTENDS T1Luts

MCSigma == [k \in 0..8 |-> 2^k]
MCLutSig == [d \in Dirs |-> CASE d = "N" -> 2 [] d = "W" -> 8 [] d = "E" -> 32 [] d = "S" -> 128]
MCLutSgn == [d \in Dirs |-> CASE d = "W" -> 1 [] d = "E" -> 4 [] d = "N" -> 16 [] d = "S" -> 64]
MCNmsedecBits == 7
MCNmsedecFracBits == 6

\* BAND_ORIENT_LL, _HL, _LH, _HH as the decoder indexes lut_ctxno_zc.
BandLL == 0
BandHL == 1
BandLH == 2
BandHH == 3

VARIABLES f, o

vars == <<f, o>>

Init == f \in 0..511 /\ o \in {BandLL, BandHL, BandLH, BandHH}

Next == UNCHANGED vars

Spec == Init /\ [][Next]_vars

-----------------------------------------------------------------------------
(* Reference definitions (T.800 Annex D)                                   *)

\* Neighbour k of the 3x3 window (row by row from the north-west) is
\* significant in f.
Sig(k) == (f \div 2^k) % 2 = 1

\* Number of significant horizontal, vertical and diagonal neighbours.
SumH == Bool2Int(Sig(3)) + Bool2Int(Sig(5))
SumV == Bool2Int(Sig(1)) + Bool2Int(Sig(7))
SumD == Bool2Int(Sig(0)) + Bool2Int(Sig(2)) + Bool2Int(Sig(6)) + Bool2Int(Sig(8))

\* Table D.1, one row per line: the context of the first (and only) row
\* whose ranges contain the sums.
TableD1LL ==
    << [h |-> {2},    v |-> 0..2, d |-> 0..4, cx |-> 8],
       [h |-> {1},    v |-> 1..2, d |-> 0..4, cx |-> 7],
       [h |-> {1},    v |-> {0},  d |-> 1..4, cx |-> 6],
       [h |-> {1},    v |-> {0},  d |-> {0},  cx |-> 5],
       [h |-> {0},    v |-> {2},  d |-> 0..4, cx |-> 4],
       [h |-> {0},    v |-> {1},  d |-> 0..4, cx |-> 3],
       [h |-> {0},    v |-> {0},  d |-> 2..4, cx |-> 2],
       [h |-> {0},    v |-> {0},  d |-> {1},  cx |-> 1],
       [h |-> {0},    v |-> {0},  d |-> {0},  cx |-> 0] >>
TableD1HH ==
    << [hv |-> 0..4, d |-> 3..4, cx |-> 8],
       [hv |-> 1..4, d |-> {2},  cx |-> 7],
       [hv |-> {0},  d |-> {2},  cx |-> 6],
       [hv |-> 2..4, d |-> {1},  cx |-> 5],
       [hv |-> {1},  d |-> {1},  cx |-> 4],
       [hv |-> {0},  d |-> {1},  cx |-> 3],
       [hv |-> 2..4, d |-> {0},  cx |-> 2],
       [hv |-> {1},  d |-> {0},  cx |-> 1],
       [hv |-> {0},  d |-> {0},  cx |-> 0] >>

\* LL and LH use the table as written, HL with H and V exchanged.
StdZeroCodingContext ==
    LET h == IF o = BandHL THEN SumV ELSE SumH
        v == IF o = BandHL THEN SumH ELSE SumV
        rowsLL == {k \in DOMAIN TableD1LL :
                     h \in TableD1LL[k].h /\ v \in TableD1LL[k].v /\ SumD \in TableD1LL[k].d}
        rowsHH == {k \in DOMAIN TableD1HH :
                     SumH + SumV \in TableD1HH[k].hv /\ SumD \in TableD1HH[k].d}
    IN  IF o = BandHH THEN {TableD1HH[k].cx : k \in rowsHH}
        ELSE {TableD1LL[k].cx : k \in rowsLL}

\* Table D.2: state of a vertical or horizontal neighbour in the sign-table
\* index, and the contribution of a pair of them.
NbState(g, d) ==
    IF (g \div MCLutSig[d]) % 2 = 0 THEN "insignificant"
    ELSE IF (g \div MCLutSgn[d]) % 2 = 1 THEN "negative" ELSE "positive"
TableD2(a, b) ==
    CASE {a, b} \in {{"positive"}, {"positive", "insignificant"}} -> 1
      [] {a, b} \in {{"negative"}, {"negative", "insignificant"}} -> -1
      [] OTHER -> 0

\* Table D.3: sign-coding context label and XOR bit by contributions.
TableD3 ==
    [hv \in {-1, 0, 1} \X {-1, 0, 1} |->
        CASE hv = << 1,  1>> -> [cx |-> 13, xor |-> 0]
          [] hv = << 1,  0>> -> [cx |-> 12, xor |-> 0]
          [] hv = << 1, -1>> -> [cx |-> 11, xor |-> 0]
          [] hv = << 0,  1>> -> [cx |-> 10, xor |-> 0]
          [] hv = << 0,  0>> -> [cx |-> 9,  xor |-> 0]
          [] hv = << 0, -1>> -> [cx |-> 10, xor |-> 1]
          [] hv = <<-1,  1>> -> [cx |-> 11, xor |-> 1]
          [] hv = <<-1,  0>> -> [cx |-> 12, xor |-> 1]
          [] hv = <<-1, -1>> -> [cx |-> 13, xor |-> 1]]

StdSign(g) ==
    TableD3[<<TableD2(NbState(g, "E"), NbState(g, "W")),
              TableD2(NbState(g, "N"), NbState(g, "S"))>>]

\* Mean squared error decrease of coding a sample at t = i / 2^FRACBITS
\* (in [0, 2)), reconstructing at the midpoint of the interval the decoder
\* will know.  Lengths are counted in units of 1 / Q, so t, 0.5, 1 and 1.5
\* are whole numbers and their squares are in units of 1 / Q^2.
Q == 2 * 2^MCNmsedecFracBits
T(i) == 2 * i
OneHalf == Q \div 2
ThreeHalves == (3 * Q) \div 2
\* x / Q^2 rounded to the nearest multiple of 2^-FRACBITS, times 8192,
\* clamped at 0.
Scale(x) ==
    LET r == (2 * x * 2^MCNmsedecFracBits + Q * Q) \div (2 * Q * Q)
    IN  IF r < 0 THEN 0 ELSE (r * 8192) \div 2^MCNmsedecFracBits
\* Significance: from the interval midpoint 1.5 to t, or from 0 to t.
DefSig(i) == Scale(T(i) * T(i) - (T(i) - ThreeHalves) * (T(i) - ThreeHalves))
DefSig0(i) == Scale(T(i) * T(i))
\* Refinement: t in [1, 2) is reconstructed at 1.5, t in [0, 1) at 0.5.
DefRef(i) ==
    LET m == IF i >= 2^MCNmsedecFracBits THEN ThreeHalves ELSE OneHalf
    IN  Scale((T(i) - Q) * (T(i) - Q) - (T(i) - m) * (T(i) - m))
DefRef0(i) == Scale((T(i) - Q) * (T(i) - Q))

Int16 == -32768 .. 32767

-----------------------------------------------------------------------------
(* Properties                                                              *)

\* The zero-coding table main writes (t1_init_ctxno_zc with orientations 1
\* and 2 traded, lines 267-281) gives, for the band orientation the decoder
\* indexes it with, the context of Table D.1.
ZcMatchesStandard ==
    StdZeroCodingContext = {lut_ctxno_zc[o * 512 + f] - T1_CTXNO_ZC}

\* The sign-coding context table (t1_init_ctxno_sc) and the sign prediction
\* table (t1_init_spb) give Table D.3's context and XOR bit for every sign
\* and significance pattern of the four neighbours.
SignTablesMatchStandard ==
    f < 256 =>
        /\ lut_ctxno_sc[f] = StdSign(f).cx - 9 + T1_CTXNO_SC
        /\ lut_spb[f] = StdSign(f).xor

\* The four nmsedec tables hold the rounded, scaled distortion decrease of
\* their definition, and every value fits the int16_t array it is printed
\* into.
NmsedecMatchesDefinition ==
    f < 2^T1_NMSEDEC_BITS =>
        /\ lut_nmsedec_sig(f) = DefSig(f)
        /\ lut_nmsedec_sig0(f) = DefSig0(f)
        /\ lut_nmsedec_ref(f) = DefRef(f)
        /\ lut_nmsedec_ref0(f) = DefRef0(f)
        /\ {lut_nmsedec_sig(f), lut_nmsedec_sig0(f), lut_nmsedec_ref(f),
            lut_nmsedec_ref0(f)} \subseteq Int16
=============================================================================

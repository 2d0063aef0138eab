--------------------------- MODULE ResWindowAlloc ---------------------------
(***************************************************************************)
(* Buffer allocation and aliasing of the ResWindow records of one tile     *)
(* component (src/src/lib/core/canvas/ResWindow.h): which buffers each     *)
(* ResWindow constructor creates, and ResWindow::alloc, called lazily and  *)
(* in any order on the resolutions, allocating storage or attaching        *)
(* buffers as offset views into the highest-resolution buffer.  Every      *)
(* alloc2d may fail.  A buffer is abstracted to its extent and a pointer   *)
(* (owning buffer, x and y offset) into a live allocation.                 *)
(*                                                                         *)
(* The creating TileComponentWindow, grk_buf2d::alloc2d/attach and the     *)
(* ResSimple band geometry are not under src/ and are modelled from the    *)
(* spec (sections 3 and 4.2).                                              *)
(***************************************************************************)
EXTENDS Integers, FiniteSets, Sequences

CONSTANTS
    NumRes,          \* numresolutions of the tile component
    X0, X1, Y0, Y1,  \* tile component extent at full resolution
    FilterWidth,     \* FILTER_WIDTH: 0 for whole-tile decompression
    UseHighest       \* resolutions attach to the highest-resolution buffer

ASSUME /\ NumRes \in Nat \ {0}
       /\ {X0, X1, Y0, Y1} \subseteq Nat /\ X0 <= X1 /\ Y0 <= Y1
       /\ FilterWidth \in Nat /\ UseHighest \in BOOLEAN

Res == 0 .. (NumRes - 1)
Top == NumRes - 1

\* BAND_ORIENT_LL, _HL, _LH, _HH and SPLIT_L, SPLIT_H
LL == 0
HL == 1
LH == 2
HH == 3
Orients == {LL, HL, LH, HH}
Splits == {0, 1}

Buf(r, k, i) == [res |-> r, kind |-> k, idx |-> i]

Buffers ==
    {Buf(r, k, 0) : r \in Res, k \in {"resREL", "res"}}
    \cup {Buf(r, k, o) : r \in Res \ {0}, k \in {"bandREL", "band"}, o \in Orients}
    \cup {Buf(r, k, i) : r \in Res \ {0}, k \in {"splitREL", "split"}, i \in Splits}

BufsOf(r) == {b \in Buffers : b.res = r}

\* resWindowBufferHighestResREL_: the top level's REL buffer, which the top
\* level itself also points to through disableBandWindowAllocation().
Highest == Buf(Top, "resREL", 0)

NoOwner == [res |-> -1, kind |-> "none", idx |-> -1]
NullPtr == [owner |-> NoOwner, x |-> 0, y |-> 0]

-----------------------------------------------------------------------------
(* Geometry (ResSimple, modelled from the spec)                            *)

CeilDiv(a, d) == -((-a) \div d)

\* Tile component coordinate at resolution r.
ResC(c, r) == CeilDiv(c, 2^(NumRes - 1 - r))
W(r) == ResC(X1, r) - ResC(X0, r)
H(r) == ResC(Y1, r) - ResC(Y0, r)

\* Band coordinate for n decompositions and band offset ob (0 low, 1 high).
BandC(c, n, ob) == CeilDiv(c - 2^(n - 1) * ob, 2^n)
HighW(r) == BandC(X1, NumRes - r, 1) - BandC(X0, NumRes - r, 1)
HighH(r) == BandC(Y1, NumRes - r, 1) - BandC(Y0, NumRes - r, 1)

\* ResWindow constructor, whole-tile path, lines 144-153: split rows of the
\* resolution window, guarding y == 0 against unsigned underflow.
SplitC(y, i) == IF y = 0 THEN 0 ELSE CeilDiv(y - i, 2)
SplitH(r, i) == SplitC(ResC(Y1, r), i) - SplitC(ResC(Y0, r), i)

\* Whether the constructor created the buffer.  Band and split buffers exist
\* above the lowest resolution only (Buffers); the whole-tile path also asks
\* tileCompAtLowerRes_.valid() (line 132), which holds because a rectangle
\* derived by ceiling division of an ordered one is ordered (spec 3).
Present(b) == b \in Buffers

\* Extent of a buffer.  On the windowed path the window of interest is the
\* whole tile component, so each padded band window clipped to the tile
\* equals its band, and the LL window equals the coarser resolution; on the
\* whole-tile path LL is the zero-sized placeholder of line 134.
Dims(b) ==
    LET r == b.res IN
    CASE b.kind \in {"resREL", "res"} -> <<W(r), H(r)>>
      [] b.kind \in {"bandREL", "band"} /\ b.idx = LL ->
            IF FilterWidth # 0 THEN <<W(r - 1), H(r - 1)>> ELSE <<0, 0>>
      [] b.kind \in {"bandREL", "band"} ->
            <<IF b.idx \in {HL, HH} THEN HighW(r) ELSE W(r - 1),
              IF b.idx \in {LH, HH} THEN HighH(r) ELSE H(r - 1)>>
      [] b.kind \in {"splitREL", "split"} ->
            IF FilterWidth # 0
            THEN <<W(r), IF b.idx = 0 THEN H(r - 1) ELSE HighH(r)>>
            ELSE <<W(r), SplitH(r, b.idx)>>

Area(b) == Dims(b)[1] * Dims(b)[2]

-----------------------------------------------------------------------------
(* grk_buf2d storage operations on a heap [ptr, live] (from the spec)      *)

\* grk_buf::dealloc: free owned storage, drop the pointer.
Dealloc(h, b) == [ptr |-> [h.ptr EXCEPT ![b] = NullPtr], live |-> h.live \ {b}]

\* grk_buf2d::attach(rhs, x, y): this buffer becomes a view at (x, y) of
\* whatever rhs points to at the time of the call.
Attach(h, b, rhs, dx, dy) ==
    LET h1 == Dealloc(h, b)
        p  == h1.ptr[rhs]
    IN [h1 EXCEPT !.ptr[b] =
          IF p.owner = NoOwner THEN NullPtr
          ELSE [owner |-> p.owner, x |-> p.x + dx, y |-> p.y + dy]]

\* grk_buf2d::alloc2d: a no-op success if the buffer already has storage or
\* is empty, otherwise the allocation succeeds or fails (ok).
Alloc2d(h, b, ok) ==
    IF h.ptr[b] # NullPtr \/ Area(b) = 0 THEN [heap |-> h, ok |-> TRUE]
    ELSE IF ok
         THEN [heap |-> [ptr |-> [h.ptr EXCEPT ![b] = [owner |-> b, x |-> 0, y |-> 0]],
                         live |-> h.live \cup {b}],
               ok |-> TRUE]
         ELSE [heap |-> h, ok |-> FALSE]

-----------------------------------------------------------------------------
VARIABLES
    ptr,        \* per buffer: where its data points
    live,       \* buffers owning a live allocation
    allocated,  \* ResWindow::allocated_
    result      \* value returned by the last alloc() of each ResWindow

vars == <<ptr, live, allocated, result>>

Heap == [ptr |-> ptr, live |-> live]

TypeOK ==
    /\ ptr \in [Buffers -> [owner : Buffers \cup {NoOwner}, x : Nat, y : Nat]]
    /\ live \subseteq Buffers
    /\ allocated \in [Res -> BOOLEAN]
    /\ result \in [Res -> {"none", "ok", "fail"}]

Init ==
    /\ ptr = [b \in Buffers |-> NullPtr]
    /\ live = {}
    /\ allocated = [r \in Res |-> FALSE]
    /\ result = [r \in Res |-> "none"]

-----------------------------------------------------------------------------
(* ResWindow::alloc                                                        *)

ResREL(r) == Buf(r, "resREL", 0)

\* resWindowBufferHighestResREL_ is set for this ResWindow.
UsesHighest(r) == UseHighest

\* Line 216: a ResWindow other than the top one attaches its REL buffer to
\* the highest buffer; the top one's REL buffer is the highest buffer.
ResRelAttaches_Dropped(r) == TRUE
ResRelAttaches(r) == ResREL(r) # Highest

\* Lines 222-243: offsets of the HL, LH and HH REL buffers in the highest
\* buffer, from the width and height of the coarser resolution.
BandOffset_Swapped(r, o) ==
    <<IF o \in {HL, HH} THEN H(r - 1) ELSE 0,
      IF o \in {LH, HH} THEN W(r - 1) ELSE 0>>
BandOffset(r, o) ==
    <<IF o \in {HL, HH} THEN W(r - 1) ELSE 0,
      IF o \in {LH, HH} THEN H(r - 1) ELSE 0>>

\* Attach b only if the constructor created it.
AttachIfPresent(h, b, rhs, off) ==
    IF Present(b) THEN Attach(h, b, rhs, off[1], off[2]) ELSE h

\* Lines 216-247: the REL buffers become views into the highest buffer.
AttachToHighest(r, h) ==
    LET h1 == IF ResRelAttaches(r) THEN Attach(h, ResREL(r), Highest, 0, 0) ELSE h
        h2 == AttachIfPresent(h1, Buf(r, "bandREL", HL), Highest, BandOffset(r, HL))
        h3 == AttachIfPresent(h2, Buf(r, "bandREL", LH), Highest, BandOffset(r, LH))
        h4 == AttachIfPresent(h3, Buf(r, "bandREL", HH), Highest, BandOffset(r, HH))
        h5 == AttachIfPresent(h4, Buf(r, "split", 0), Highest, <<0, 0>>)
    IN  AttachIfPresent(h5, Buf(r, "split", 1), Highest, <<0, H(r - 1)>>)

\* Lines 250-259: canvas buffers become views of their REL twins (and the
\* REL splits of the canvas splits).
AttachTwins(r, h) ==
    LET h1 == AttachIfPresent(h, Buf(r, "band", LL), Buf(r, "bandREL", LL), <<0, 0>>)
        h2 == AttachIfPresent(h1, Buf(r, "band", HL), Buf(r, "bandREL", HL), <<0, 0>>)
        h3 == AttachIfPresent(h2, Buf(r, "band", LH), Buf(r, "bandREL", LH), <<0, 0>>)
        h4 == AttachIfPresent(h3, Buf(r, "band", HH), Buf(r, "bandREL", HH), <<0, 0>>)
        h5 == Attach(h4, Buf(r, "res", 0), ResREL(r), 0, 0)
        h6 == AttachIfPresent(h5, Buf(r, "splitREL", 0), Buf(r, "split", 0), <<0, 0>>)
    IN  AttachIfPresent(h6, Buf(r, "splitREL", 1), Buf(r, "split", 1), <<0, 0>>)

\* Lines 205-260, with ok the outcome of the highest buffer's alloc2d.  On
\* the windowed path alloc returns at line 213, before allocated_ is set.
AllocViaHighest(r, ok) ==
    LET a == Alloc2d(Heap, Highest, ok)
        h == AttachTwins(r, AttachToHighest(r, a.heap))
    IN  \/ /\ ~a.ok
           /\ result' = [result EXCEPT ![r] = "fail"]
           /\ UNCHANGED <<ptr, live, allocated>>
        \/ /\ a.ok
           /\ FilterWidth # 0
           /\ ptr' = a.heap.ptr
           /\ live' = a.heap.live
           /\ result' = [result EXCEPT ![r] = "ok"]
           /\ UNCHANGED allocated
        \/ /\ a.ok
           /\ FilterWidth = 0
           /\ ptr' = h.ptr
           /\ live' = h.live
           /\ allocated' = [allocated EXCEPT ![r] = TRUE]
           /\ result' = [result EXCEPT ![r] = "ok"]

\* Lines 271-275: allocate the padded band buffers in orientation order,
\* stopping at the first failure.
RECURSIVE AllocBands_IgnoreFail(_, _, _, _)
AllocBands_IgnoreFail(h, r, os, oks) ==
    IF os = <<>> THEN [heap |-> h, ok |-> TRUE]
    ELSE AllocBands_IgnoreFail(Alloc2d(h, Buf(r, "band", Head(os)),
                                       oks[Buf(r, "band", Head(os))]).heap,
                               r, Tail(os), oks)
RECURSIVE AllocBands(_, _, _, _)
AllocBands(h, r, os, oks) ==
    IF os = <<>> THEN [heap |-> h, ok |-> TRUE]
    ELSE LET b == Buf(r, "band", Head(os))
             a == Alloc2d(h, b, oks[b])
         IN IF a.ok THEN AllocBands(a.heap, r, Tail(os), oks) ELSE a

\* Buffers whose alloc2d the own-storage path calls.
OwnAllocTargets(r) ==
    {ResREL(r)} \cup {b \in BufsOf(r) : b.kind \in {"band", "split"} /\ Present(b)}

\* Lines 263-301: without a highest buffer every buffer gets its own
\* storage.  Line 279 attaches each REL band buffer to itself; the results
\* of the split allocations (lines 292-293) are ignored; the branch of line
\* 285 cannot be taken here.
AllocOwn(r, oks) ==
    LET a  == Alloc2d(Heap, ResREL(r), oks[ResREL(r)])
        h1 == Attach(a.heap, Buf(r, "res", 0), ResREL(r), 0, 0)
        bs == AllocBands(h1, r, IF r > 0 THEN <<LL, HL, LH, HH>> ELSE <<>>, oks)
        h2 == AttachIfPresent(bs.heap, Buf(r, "bandREL", LL), Buf(r, "bandREL", LL), <<0, 0>>)
        h3 == AttachIfPresent(h2, Buf(r, "bandREL", HL), Buf(r, "bandREL", HL), <<0, 0>>)
        h4 == AttachIfPresent(h3, Buf(r, "bandREL", LH), Buf(r, "bandREL", LH), <<0, 0>>)
        h5 == AttachIfPresent(h4, Buf(r, "bandREL", HH), Buf(r, "bandREL", HH), <<0, 0>>)
        s0 == Buf(r, "split", 0)
        s1 == Buf(r, "split", 1)
        h6 == IF r > 0 THEN Alloc2d(Alloc2d(h5, s0, oks[s0]).heap, s1, oks[s1]).heap
              ELSE h5
        h7 == AttachIfPresent(h6, Buf(r, "splitREL", 0), s0, <<0, 0>>)
        h  == AttachIfPresent(h7, Buf(r, "splitREL", 1), s1, <<0, 0>>)
    IN  \/ /\ ~a.ok
           /\ result' = [result EXCEPT ![r] = "fail"]
           /\ UNCHANGED <<ptr, live, allocated>>
        \/ /\ a.ok
           /\ ~bs.ok
           /\ ptr' = bs.heap.ptr
           /\ live' = bs.heap.live
           /\ result' = [result EXCEPT ![r] = "fail"]
           /\ UNCHANGED allocated
        \/ /\ a.ok
           /\ bs.ok
           /\ ptr' = h.ptr
           /\ live' = h.live
           /\ allocated' = [allocated EXCEPT ![r] = TRUE]
           /\ result' = [result EXCEPT ![r] = "ok"]

\* ResWindow::alloc on resolution r; once allocated_ is set the call returns
\* true at once and changes nothing.
Alloc(r) ==
    /\ ~allocated[r]
    /\ \/ /\ UsesHighest(r)
          /\ \E ok \in BOOLEAN : AllocViaHighest(r, ok)
       \/ /\ ~UsesHighest(r)
          /\ \E oks \in [OwnAllocTargets(r) -> BOOLEAN] : AllocOwn(r, oks)

\* Every ResWindow is allocated: the tile component is ready for decoding.
Finished ==
    /\ \A r \in Res : allocated[r]
    /\ UNCHANGED vars

Next == (\E r \in Res : Alloc(r)) \/ Finished

Spec == Init /\ [][Next]_vars

-----------------------------------------------------------------------------
(* Properties                                                              *)

Backed(b) == ptr[b].owner \in live

\* Buffers of kinds K, created and non-empty, of every ResWindow whose last
\* alloc() returned true, point into live storage.
OkAllocBacks(K) ==
    \A r \in Res : result[r] = "ok" =>
        \A b \in BufsOf(r) :
            (b.kind \in K /\ Present(b) /\ Area(b) > 0) => Backed(b)

AllKinds == {"resREL", "res", "bandREL", "band", "splitREL", "split"}

\* Spec 3 and 4.2: once alloc() has succeeded, every buffer the ResWindow
\* hands to the wavelet transform has storage, even after other
\* resolutions have been allocated since (attach frees the storage of the
\* buffer it is called on).
OkAllocMeansBacked == OkAllocBacks(AllKinds)

\* The canvas resolution and band buffers, and the resolution's REL buffer,
\* of a ResWindow whose alloc() returned true have storage.
OkAllocMeansCanvasBacked == OkAllocBacks({"resREL", "res", "band"})

\* The REL band buffers of a ResWindow whose alloc() returned true have
\* storage.
OkAllocMeansRelBandsBacked == OkAllocBacks({"bandREL"})

\* Spec 3: a view attached into another buffer's storage lies within that
\* storage's extent (offsets of lines 222-246 against the highest buffer).
AliasWithinBacking ==
    \A b \in Buffers : Backed(b) =>
        /\ ptr[b].x + Dims(b)[1] <= Dims(ptr[b].owner)[1]
        /\ ptr[b].y + Dims(b)[2] <= Dims(ptr[b].owner)[2]

\* No buffer is a view into freed storage: attach frees the storage of the
\* buffer it is called on (grk_buf2d::attach), so a ResWindow that attached
\* a buffer other views already point into would leave those views of the
\* resolutions allocated earlier dangling.
NoDanglingView ==
    \A b \in Buffers : ptr[b] = NullPtr \/ ptr[b].owner \in live

=============================================================================

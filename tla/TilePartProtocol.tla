--------------------------- MODULE TilePartProtocol ---------------------------
(***************************************************************************)
(* What the decoder promises about the tile-parts of a codestream (spec    *)
(* sections 3 and 4.1), without markers, fields or indices: each tile      *)
(* accepts tile-parts one at a time; a tile-part may declare the tile's    *)
(* number of parts, which then never changes; the tile is complete exactly *)
(* when the number of accepted parts reaches the declared number, and no   *)
(* part is accepted after that.  The codestream ends, normally or on an    *)
(* error; an error may come after the rejected part was counted.           *)
(***************************************************************************)
EXTENDS Naturals

CONSTANTS Tiles, Counts   \* Counts: the part counts a tile-part may declare

VARIABLES
    parts,   \* tile-parts of each tile counted so far
    count,   \* each tile's declared number of tile-parts (0: not declared)
    done,    \* each tile is complete
    ended    \* the codestream has ended

vars == <<parts, count, done, ended>>

Init ==
    /\ parts = [t \in Tiles |-> 0]
    /\ count = [t \in Tiles |-> 0]
    /\ done = [t \in Tiles |-> FALSE]
    /\ ended = FALSE

\* A declaration n (0: none) is consistent with what tile t has declared.
Consistent(t, n) == n = 0 \/ count[t] = 0 \/ n = count[t]

\* The count tile t has after a part declaring n.
Declared(t, n) == IF n # 0 THEN n ELSE count[t]

\* Tile t accepts a part declaring n; the codestream may end with it (the
\* part was taken into the tile before an error ended decoding).
Accept(t, n) ==
    /\ ~ended
    /\ ~done[t]
    /\ Consistent(t, n)
    /\ Declared(t, n) = 0 \/ parts[t] < Declared(t, n)
    /\ parts' = [parts EXCEPT ![t] = @ + 1]
    /\ count' = [count EXCEPT ![t] = Declared(t, n)]
    /\ done' = [done EXCEPT ![t] = Declared(t, n) = parts[t] + 1]
    /\ ended' \in BOOLEAN

\* The codestream ends; a rejected part of tile t may have been counted.
End(t) ==
    /\ ~ended
    /\ ended' = TRUE
    /\ parts' \in {parts, [parts EXCEPT ![t] = @ + 1]}
    /\ UNCHANGED <<count, done>>

Next ==
    \/ \E t \in Tiles, n \in Counts : Accept(t, n)
    \/ \E t \in Tiles : End(t)

Spec == Init /\ [][Next]_vars

====

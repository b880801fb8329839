------------------------------ MODULE MCCheckout ------------------------------
(* Every index of three blocks in a file of five bytes, every manifest of up  *)
(* to four ids, a file that may be absent or too short, and a buffer that is  *)
(* shorter than some ranges and longer than others.                           *)
EXTENDS Checkout

CONSTANTS b1, b2, b3, NONE, BinEnd

MCBlocks == {b1, b2, b3}
MCSize   == (b1 :> 1) @@ (b2 :> 2) @@ (b3 :> 2)

\* Two rows never share a byte; gaps, left by lost commits or not, may exist.
Apart(v) ==
    \A b, c \in MCBlocks : b # c /\ v[b] # NONE /\ v[c] # NONE =>
        v[b] + MCSize[b] <= v[c] \/ v[c] + MCSize[c] <= v[b]

MCIndexes == {v \in [MCBlocks -> 0..BinEnd \cup {NONE}] : Apart(v)}
MCBinLens == {0, 3, BinEnd + 2}
MCOld     == <<99>>
==============================================================================

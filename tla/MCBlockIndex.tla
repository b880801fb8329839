---------------------------- MODULE MCBlockIndex ----------------------------
(* A small instance of BlockIndex for TLC: blocks of one, two and three     *)
(* bytes, two handles that write and one opened "r".                        *)
EXTENDS BlockIndex, TLC

CONSTANTS b1, b2, b3, h1, h2, h3

MCBlocks   == {b1, b2, b3}
MCHandles  == {h1, h2, h3}
MCReadOnly == {h3}
MCSize     == (b1 :> 1) @@ (b2 :> 2) @@ (b3 :> 3)

WriterSymmetry == Permutations({h1, h2})

==============================================================================

--------------------------- MODULE MCContentChunking ---------------------------
(* Every input of up to eight bytes over two values, blocks of three to five  *)
(* bytes, a window of two, and the smallest buffer that is large enough.      *)
EXTENDS ContentChunking

MCBytes  == {0, 1}
MCBreaks == {<<1, 0>>}
MCInputs == UNION {[1..n -> MCBytes] : n \in 0..8}
==============================================================================

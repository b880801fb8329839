------------------------------ MODULE MCRevision ------------------------------
(* Up to three ids of two digits, in bundles of one and two: the text of      *)
(* three ids fills the buffer of four characters exactly four times.          *)
EXTENDS Revision

CONSTANTS i1, i2

MCIds     == {i1, i2}
MCBundles == UNION {[1..n -> MCIds] : n \in 1..2}

Lasting == {"lasting"}
==============================================================================

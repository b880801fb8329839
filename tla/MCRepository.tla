---------------------------- MODULE MCRepository ----------------------------
(* Small instances of Repository for TLC: two handles, two revisions, blocks  *)
(* of one and two bytes.  The revisions share blocks, so that the second      *)
(* commit finds some of them stored, and one of them needs two bundles.       *)
EXTENDS Repository

CONSTANTS b1, b2, b3, h1, h2, r1, r2, r3

MCBlocks  == {b1, b2, b3}
MCHandles == {h1, h2}
MCRevs    == {r1, r2}
MCRevs3   == {r1, r2, r3}
MCSize    == (b1 :> 1) @@ (b2 :> 2) @@ (b3 :> 1)
MCHole    == <<"hole", 0>>

\* An empty file, one bundle with a repeated block, two bundles that overlap.
MCInputs == {<< >>,
             << <<b1, b2, b1>> >>,
             << <<b2, b3>>, <<b3, b1>> >>}

\* For two commits at once, one byte a block: what matters is who waits for whom.
UnitSize    == [b \in MCBlocks |-> 1]
ShortInputs == {<< <<b1, b2>> >>, << <<b2>>, <<b1>> >>}

MCNone     == {}
MCReadOnly == {h2}

AllFaults   == {"crash", "write", "read", "copy", "sql"}
CrashOnly   == {"crash"}
CopyOnly    == {"copy"}

RevSymmetry       == Permutations(Revs)
HandleRevSymmetry == Permutations(Handles) \cup RevSymmetry
==============================================================================

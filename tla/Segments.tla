-------------------------------- MODULE Segments --------------------------------
(***************************************************************************)
(* The query of vfile::list (src/src/vfile.cc, 136-165): from the ids a    *)
(* manifest lists, in the rows of the temporary table newfile, and from    *)
(* the index cblocks, the byte ranges of vvpkg.bin to read one after the   *)
(* other.  A table v maps a block to its offset, or to NoOffset.           *)
(***************************************************************************)
EXTENDS Integers, Sequences, FiniteSetsExt, OrderBy

CONSTANTS Size, NoOffset

\* The rows of `pieces` the recursion reaches: it starts at j = 1 and stops
\* before the first id that has no row in cblocks (the join drops it).
Reached(v, ids) ==
    Max({n \in 0..Len(ids) : \A j \in 1..n : v[ids[j]] # NoOffset})

OffStart(v, ids, j) == v[ids[j]]
OffEnd(v, ids, j)   == v[ids[j]] + Size[ids[j]]

\* Mutant: a piece that starts anywhere after the one before joins its group.
GroupOverGaps(v, ids) ==
    LET k[j \in 1..Reached(v, ids)] ==
            IF j > 1 /\ OffEnd(v, ids, j - 1) <= OffStart(v, ids, j)
            THEN k[j - 1]
            ELSE j
    IN  k

\* The column k of the recursive table `segments`, row by row: a piece that
\* starts where the one before it ends stays in its group.
GroupOf(v, ids) ==
    LET k[j \in 1..Reached(v, ids)] ==
            IF j > 1 /\ OffEnd(v, ids, j - 1) = OffStart(v, ids, j)
            THEN k[j - 1]
            ELSE j
    IN  k

\* select min(off_start), max(off_end) ... group by k: one range per group,
\* in the order of k.
Ranges(v, ids) ==
    LET k == GroupOf(v, ids)
        Members(g) == {j \in DOMAIN k : k[j] = g}
        groups == Ascending({k[j] : j \in DOMAIN k})
    IN  [i \in DOMAIN groups |->
            LET members == Members(groups[i]) IN
            [first |-> Min({OffStart(v, ids, j) : j \in members}),
             last  |-> Max({OffEnd(v, ids, j) : j \in members})]]
==============================================================================

------------------------------ MODULE BlockIndex ------------------------------
(***************************************************************************)
(* The block index of a repository: the table cblocks of vvpkg.db, and the *)
(* transactions that struct vfile (src/src/vfile.cc) runs on it.  Each     *)
(* handle is one vfile with its own SQLite connection; the database is in  *)
(* WAL mode, so a transaction reads the snapshot it took at its first      *)
(* read, takes the single write lock at its first insert, and is refused   *)
(* at once (no busy handler is installed) when the lock is taken or when   *)
(* another connection committed since the snapshot.                        *)
(*                                                                         *)
(* What the rest of the program does between these steps (emitting block   *)
(* data, appending manifests) is in the modules that compose this one.     *)
(***************************************************************************)
EXTENDS Integers

CONSTANTS Blocks,     \* block ids (BLAKE2 digests)
          Handles,    \* the vfile objects that share the directory
          ReadOnly,   \* the handles opened with mode "r"
          Size,       \* Size[b]: the number of bytes of block b
          NoOffset    \* marks a block that has no row in cblocks

ASSUME SizeAssumption     == Size \in [Blocks -> Nat]
ASSUME NoOffsetAssumption == NoOffset \notin Nat
ASSUME ReadOnlyAssumption == ReadOnly \subseteq Handles

VARIABLES cblocks,    \* committed rows: block -> offset, or NoOffset
          view,       \* view[h]: the rows h's open transaction sees
          txn,        \* txn[h]: the state of h's transaction
          offset      \* offset[h]: merge()'s local variable of that name

vars == <<cblocks, view, txn, offset>>

Tables == [Blocks -> Nat \cup {NoOffset}]
Empty  == [b \in Blocks |-> NoOffset]

Rows(v)   == {b \in Blocks : v[b] # NoOffset}
End(v, b) == v[b] + Size[b]

\* select offset + size from cblocks order by offset desc limit 1
IsLast(v, b) == b \in Rows(v) /\ \A c \in Rows(v) : v[c] <= v[b]
\* Mutant: select offset from cblocks ..., the size of the row forgotten.
StartOfLast(v) == IF Rows(v) = {} THEN 0 ELSE v[CHOOSE b \in Blocks : IsLast(v, b)]

GetSize(v)   == IF Rows(v) = {} THEN 0 ELSE End(v, CHOOSE b \in Blocks : IsLast(v, b))

TypeOK ==
    /\ cblocks \in Tables
    /\ view \in [Handles -> Tables]
    /\ txn \in [Handles -> {"none", "begun", "reading", "writing"}]
    /\ offset \in [Handles -> Nat]

Init ==
    /\ cblocks = Empty
    /\ view = [h \in Handles |-> Empty]
    /\ txn = [h \in Handles |-> "none"]
    /\ offset = [h \in Handles |-> 0]

------------------------------------------------------------------------------
\* A deferred "begin" that reads nothing of the main database: vfile::list.
Begin(h) ==
    /\ txn[h] = "none"
    /\ txn' = [txn EXCEPT ![h] = "begun"]
    /\ UNCHANGED <<cblocks, view, offset>>

\* vfile::merge: "begin", then getsize, whose read takes the snapshot.
BeginMerge(h) ==
    /\ txn[h] = "none"
    /\ txn' = [txn EXCEPT ![h] = "reading"]
    /\ view' = [view EXCEPT ![h] = cblocks]
    /\ offset' = [offset EXCEPT ![h] = GetSize(cblocks)]
    /\ UNCHANGED cblocks

\* SQLite lets h insert: it holds the write lock already, or the lock is
\* free and no commit happened since h's snapshot.
MayWrite(h) ==
    /\ h \notin ReadOnly
    /\ \/ txn[h] = "writing"
       \/ /\ txn[h] = "reading"
          /\ \A g \in Handles : txn[g] # "writing"
          /\ view[h] = cblocks

\* The constraints of cblocks: id is the primary key, size_idx is unique.
Duplicate(v, b, off) == v[b] # NoOffset \/ \E c \in Rows(v) : v[c] = off

\* Mutant: `offset` is advanced before it is bound.
FeedAdvanced(h, b) ==
    /\ MayWrite(h)
    /\ ~Duplicate(view[h], b, offset[h] + Size[b])
    /\ view' = [view EXCEPT ![h][b] = offset[h] + Size[b]]
    /\ offset' = [offset EXCEPT ![h] = @ + Size[b]]
    /\ txn' = [txn EXCEPT ![h] = "writing"]
    /\ UNCHANGED cblocks

\* Mutant: `offset` moves the wrong way.
FeedBackwards(h, b) ==
    /\ MayWrite(h)
    /\ ~Duplicate(view[h], b, offset[h])
    /\ view' = [view EXCEPT ![h][b] = offset[h]]
    /\ offset' = [offset EXCEPT ![h] = @ - Size[b]]
    /\ txn' = [txn EXCEPT ![h] = "writing"]
    /\ UNCHANGED cblocks

\* Mutant: "insert or replace": the constraints are not in the way.
FeedReplacing(h, b) ==
    /\ MayWrite(h)
    /\ view' = [view EXCEPT ![h][b] = offset[h]]
    /\ offset' = [offset EXCEPT ![h] = @ + Size[b]]
    /\ txn' = [txn EXCEPT ![h] = "writing"]
    /\ UNCHANGED cblocks

\* feed.run(): the row is inserted at `offset`, which then moves past it.
Feed(h, b) ==
    /\ MayWrite(h)
    /\ ~Duplicate(view[h], b, offset[h])
    /\ view' = [view EXCEPT ![h][b] = offset[h]]
    /\ offset' = [offset EXCEPT ![h] = @ + Size[b]]
    /\ txn' = [txn EXCEPT ![h] = "writing"]
    /\ UNCHANGED cblocks

\* feed.run() throws SQLITE_BUSY, SQLITE_BUSY_SNAPSHOT or SQLITE_READONLY:
\* the transaction stays open as it was.
FeedBusy(h) ==
    /\ txn[h] \in {"reading", "writing"}
    /\ ~MayWrite(h)
    /\ UNCHANGED vars

\* feed.run() throws SQLITE_CONSTRAINT: only the statement is undone, and
\* the write lock it took stays with the open transaction.
FeedConstraint(h, b) ==
    /\ MayWrite(h)
    /\ Duplicate(view[h], b, offset[h])
    /\ txn' = [txn EXCEPT ![h] = "writing"]
    /\ UNCHANGED <<cblocks, view, offset>>

\* The end of h's transaction: its snapshot and locks are gone.
Close(h) ==
    /\ txn' = [txn EXCEPT ![h] = "none"]
    /\ view' = [view EXCEPT ![h] = Empty]
    /\ offset' = [offset EXCEPT ![h] = 0]

\* "commit": a transaction that wrote publishes its rows.
Commit(h) ==
    /\ txn[h] # "none"
    /\ cblocks' = IF txn[h] = "writing" THEN view[h] ELSE cblocks
    /\ Close(h)

\* The connection is closed, by the destructor of the vfile or by the death
\* of its process: SQLite rolls the open transaction back.
Rollback(h) ==
    /\ txn[h] # "none"
    /\ Close(h)
    /\ UNCHANGED cblocks

Next ==
    \E h \in Handles :
        \/ Begin(h)
        \/ BeginMerge(h)
        \/ \E b \in Blocks : Feed(h, b) \/ FeedConstraint(h, b)
        \/ FeedBusy(h)
        \/ Commit(h)
        \/ Rollback(h)

Spec == Init /\ [][Next]_vars

------------------------------------------------------------------------------
(***************************************************************************)
(* Properties                                                              *)
(***************************************************************************)
\* No two rows of v claim the same byte of vvpkg.bin, or the same offset.
Disjoint(v) ==
    \A b, c \in Rows(v) : b # c => /\ v[b] # v[c]
                                   /\ End(v, b) <= v[c] \/ End(v, c) <= v[b]

\* Every row of v starts where another row ends, or at byte 0: no byte of
\* vvpkg.bin below the end of the last row is without an owner.
Gapless(v) ==
    \A b \in Rows(v) : v[b] = 0 \/ \E c \in Rows(v) : c # b /\ End(v, c) = v[b]

\* The committed rows tile vvpkg.bin, whatever merges ran, at the same time
\* or one after the other, and whichever of them failed.  merge() computes
\* offsets from a snapshot, outside the write lock (vfile.cc, 103-107).
IndexTiled == Disjoint(cblocks) /\ Gapless(cblocks)

\* A published row is never moved or removed: the manifests of earlier
\* revisions, which hold ids only, keep their meaning.
AppendOnly == [][\A b \in Rows(cblocks) : cblocks'[b] = cblocks[b]]_vars

\* The unique index size_idx never refuses the offset merge() is about to
\* feed, so only a block that another handle merged first can be refused.
OffsetFree ==
    \A h \in Handles : txn[h] \in {"reading", "writing"} =>
        \A b \in Rows(view[h]) : view[h][b] # offset[h]

------------------------------------------------------------------------------
(***************************************************************************)
(* The inductive invariant                                                 *)
(***************************************************************************)
\* n is the end of every row of v at the latest, and of the last row.
EndsAt(v, n) ==
    /\ \A b \in Rows(v) : End(v, b) <= n
    /\ \/ Rows(v) = {} /\ n = 0
       \/ \E b \in Blocks : IsLast(v, b) /\ End(v, b) = n

Tiled(v, n) == Disjoint(v) /\ Gapless(v) /\ EndsAt(v, n)

ReadsOrWrites(h) == txn[h] \in {"reading", "writing"}

\* What a merge sees is tiled up to its `offset`.
ViewsTiled == \A h \in Handles : ReadsOrWrites(h) => Tiled(view[h], offset[h])

OneWriter == \A g, h \in Handles : txn[g] = "writing" /\ txn[h] = "writing" => g = h

\* The writer sees everything committed: nobody committed past its snapshot.
WriterUpToDate ==
    \A h \in Handles : txn[h] = "writing" =>
        \A b \in Rows(cblocks) : view[h][b] = cblocks[b]

IInv ==
    /\ TypeOK
    /\ Tiled(cblocks, GetSize(cblocks))
    /\ ViewsTiled
    /\ OneWriter
    /\ WriterUpToDate
==============================================================================

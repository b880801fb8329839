-------------------------- MODULE BlockIndex_proofs --------------------------
(***************************************************************************)
(* What holds of the block index for every set of blocks and handles, with *)
(* proofs that TLAPS checks.  Lemmas on tilings come first, then the       *)
(* inductive invariant IInv, one lemma per conjunct a step may disturb,    *)
(* then the theorems.                                                      *)
(***************************************************************************)
EXTENDS BlockIndex, TLAPS

USE SizeAssumption, NoOffsetAssumption

(***************************************************************************)
(* Lemmas on tilings                                                       *)
(***************************************************************************)
LEMMA EmptyTiled == Empty \in Tables /\ Tiled(Empty, 0)
BY DEF Empty, Tables, Tiled, Disjoint, Gapless, EndsAt, Rows

\* getsize finds the end of a tiled table, whichever row CHOOSE picks.
LEMMA GetSizeIsEnd ==
    ASSUME NEW v \in Tables, NEW n \in Nat, Tiled(v, n)
    PROVE  GetSize(v) = n
<1>1. CASE Rows(v) = {}
    BY <1>1 DEF GetSize, Tiled, EndsAt, IsLast
<1>2. CASE Rows(v) # {}
    <2>1. PICK b \in Blocks : IsLast(v, b) /\ End(v, b) = n
        BY <1>2 DEF Tiled, EndsAt
    <2>2. PICK top \in Blocks : /\ top = CHOOSE c \in Blocks : IsLast(v, c)
                               /\ IsLast(v, top)
        BY <2>1
    <2>3. v[top] \in Nat /\ v[b] \in Nat
        BY <2>1, <2>2 DEF IsLast, Rows, Tables
    <2>4. v[top] <= v[b] /\ v[b] <= v[top]
        BY <2>1, <2>2 DEF IsLast
    <2>5. v[top] = v[b]
        BY <2>3, <2>4
    <2>6. top \in Rows(v) /\ b \in Rows(v) /\ Disjoint(v)
        BY <2>1, <2>2 DEF IsLast, Tiled
    <2>7. top = b
        BY <2>5, <2>6 DEF Disjoint
    <2> QED
        BY <1>2, <2>1, <2>2, <2>7 DEF GetSize
<1> QED
    BY <1>1, <1>2

\* A row fed at the end of a tiled table extends the tiling.
LEMMA FeedTiled ==
    ASSUME NEW v \in Tables, NEW n \in Nat, Tiled(v, n),
           NEW b \in Blocks, ~Duplicate(v, b, n)
    PROVE  /\ [v EXCEPT ![b] = n] \in Tables
           /\ Tiled([v EXCEPT ![b] = n], n + Size[b])
<1> DEFINE w == [v EXCEPT ![b] = n]
<1>1. w \in Tables
    BY DEF Tables
<1>2. /\ Rows(w) = Rows(v) \cup {b}
      /\ b \notin Rows(v)
      /\ w[b] = n
      /\ \A c \in Rows(v) : w[c] = v[c] /\ w[c] \in Nat /\ Size[c] \in Nat
    BY DEF Rows, Tables, Duplicate
<1>3. \A c \in Rows(v) : v[c] # n /\ End(v, c) <= n
    BY DEF Duplicate, Tiled, EndsAt
<1>4. Disjoint(w)
    BY <1>2, <1>3 DEF Disjoint, Tiled, End
<1>5. Gapless(w)
    <2>1. ASSUME NEW c \in Rows(v)
          PROVE  w[c] = 0 \/ \E d \in Rows(w) : d # c /\ End(w, d) = w[c]
        BY <1>2 DEF Tiled, Gapless, End
    <2>2. n = 0 \/ \E d \in Rows(w) : d # b /\ End(w, d) = n
        BY <1>2 DEF Tiled, EndsAt, IsLast, End
    <2> QED
        BY <1>2, <2>1, <2>2 DEF Gapless
<1>6. EndsAt(w, n + Size[b])
    <2>1. \A c \in Rows(w) : End(w, c) <= n + Size[b]
        BY <1>2, <1>3 DEF End
    <2>2. \A c \in Rows(w) : w[c] <= w[b]
        BY <1>2, <1>3 DEF End
    <2>3. IsLast(w, b) /\ End(w, b) = n + Size[b]
        BY <1>2, <2>2 DEF IsLast, End
    <2> QED
        BY <2>1, <2>3 DEF EndsAt
<1> QED
    BY <1>1, <1>4, <1>5, <1>6 DEF Tiled

\* The rows tile the file up to the end that getsize finds.
LEMMA TiledGetSize ==
    ASSUME NEW v \in Tables, NEW n \in Nat, Tiled(v, n)
    PROVE  GetSize(v) \in Nat /\ Tiled(v, GetSize(v))
BY GetSizeIsEnd
(***************************************************************************)
(* Type correctness                                                        *)
(***************************************************************************)
LEMMA GetSizeType ==
    ASSUME NEW v \in Tables, Tiled(v, GetSize(v))
    PROVE  GetSize(v) \in Nat
<1>1. CASE Rows(v) = {}
    BY <1>1 DEF GetSize
<1>2. CASE Rows(v) # {}
    <2>1. PICK b \in Blocks : IsLast(v, b) /\ End(v, b) = GetSize(v)
        BY <1>2 DEF Tiled, EndsAt
    <2> QED
        BY <2>1 DEF IsLast, End, Rows, Tables
<1> QED
    BY <1>1, <1>2

\* The empty index satisfies the invariant.
LEMMA InitIInv == Init => IInv
<1> SUFFICES ASSUME Init PROVE IInv
    OBVIOUS
<1>1. GetSize(Empty) = 0
    BY EmptyTiled, GetSizeIsEnd
<1>2. TypeOK
    BY EmptyTiled DEF Init, TypeOK
<1>3. ViewsTiled /\ OneWriter /\ WriterUpToDate
    BY DEF Init, ViewsTiled, ReadsOrWrites, OneWriter, WriterUpToDate
<1> QED
    BY <1>1, <1>2, <1>3, EmptyTiled DEF Init, IInv

(***************************************************************************)
(* Steps that end a transaction, and steps that feed, keep the invariant   *)
(***************************************************************************)
LEMMA CloseIInv ==
    ASSUME IInv, NEW h \in Handles, Close(h), UNCHANGED cblocks
    PROVE  IInv'
<1>1. TypeOK'
    BY EmptyTiled DEF IInv, TypeOK, Close
<1>2. \A g \in Handles : g # h => /\ txn'[g] = txn[g]
                                  /\ view'[g] = view[g]
                                  /\ offset'[g] = offset[g]
    BY DEF IInv, TypeOK, Close
<1>3. txn'[h] = "none"
    BY DEF IInv, TypeOK, Close
<1>4. ViewsTiled'
    <2> SUFFICES ASSUME NEW g \in Handles, ReadsOrWrites(g)'
                 PROVE  Tiled(view'[g], offset'[g])
        BY DEF ViewsTiled, Tiled, EndsAt, IsLast, Disjoint, Gapless, Rows, End
    <2> QED
        BY <1>2, <1>3 DEF IInv, ViewsTiled, ReadsOrWrites
<1>5. OneWriter'
    BY <1>2, <1>3 DEF IInv, OneWriter
<1>6. WriterUpToDate'
    BY <1>2, <1>3 DEF IInv, WriterUpToDate
<1> QED
    BY <1>1, <1>4, <1>5, <1>6 DEF IInv

\* An insert keeps the invariant.
LEMMA FeedIInv ==
    ASSUME IInv, NEW h \in Handles, NEW b \in Blocks, Feed(h, b)
    PROVE  IInv'
<1> DEFINE w == [view[h] EXCEPT ![b] = offset[h]]
<1>1. /\ view' = [view EXCEPT ![h] = w]
      /\ offset' = [offset EXCEPT ![h] = @ + Size[b]]
      /\ txn' = [txn EXCEPT ![h] = "writing"]
      /\ cblocks' = cblocks
    BY DEF Feed, IInv, TypeOK
<1>2. /\ view[h] \in Tables
      /\ offset[h] \in Nat
      /\ Tiled(view[h], offset[h])
    BY DEF Feed, MayWrite, IInv, TypeOK, ViewsTiled, ReadsOrWrites
<1>3. w \in Tables /\ Tiled(w, offset[h] + Size[b])
    BY <1>2, FeedTiled DEF Feed
<1> HIDE DEF w
<1>4. TypeOK'
    BY <1>1, <1>2, <1>3 DEF IInv, TypeOK
<1>5. ASSUME NEW g \in Handles, ReadsOrWrites(g)'
      PROVE  Tiled(view'[g], offset'[g])
    <2>1. CASE g = h
        BY <1>1, <1>3, <2>1 DEF IInv, TypeOK
    <2>2. CASE g # h
        BY <1>1, <1>5, <2>2 DEF IInv, TypeOK, ViewsTiled, ReadsOrWrites
    <2> QED
        BY <2>1, <2>2
<1>6. OneWriter'
    BY <1>1 DEF Feed, MayWrite, IInv, TypeOK, OneWriter
<1>7. WriterUpToDate'
    <2> SUFFICES ASSUME NEW g \in Handles, txn'[g] = "writing",
                        NEW c \in Rows(cblocks)
                 PROVE  view'[g][c] = cblocks[c]
        BY <1>1 DEF WriterUpToDate, Rows
    <2>1. CASE g = h
        <3>1. view[h][c] = cblocks[c]
            BY DEF Feed, MayWrite, IInv, WriterUpToDate
        <3>2. c # b
            BY <3>1 DEF Feed, Duplicate, Rows
        <3> QED
            BY <1>1, <2>1, <3>1, <3>2 DEF IInv, TypeOK, Tables, w, Rows
    <2>2. CASE g # h
        BY <1>1, <2>2 DEF IInv, TypeOK, WriterUpToDate
    <2> QED
        BY <2>1, <2>2
<1> QED
    BY <1>1, <1>4, <1>5, <1>6, <1>7
    DEF IInv, ViewsTiled, Tiled, EndsAt, IsLast, Disjoint, Gapless, Rows, End


\* A merge begins with a snapshot that is tiled up to what getsize returns.
LEMMA BeginMergeIInv ==
    ASSUME IInv, NEW h \in Handles, BeginMerge(h)
    PROVE  IInv'
<1>1. cblocks \in Tables /\ Tiled(cblocks, GetSize(cblocks))
    BY DEF IInv, TypeOK
<1>2. TypeOK'
    BY <1>1, GetSizeType DEF BeginMerge, IInv, TypeOK
<1>3. ASSUME NEW g \in Handles, ReadsOrWrites(g)'
      PROVE  Tiled(view'[g], offset'[g])
    <2>1. CASE g = h
        BY <1>1, <2>1 DEF BeginMerge, IInv, TypeOK
    <2>2. CASE g # h
        BY <1>3, <2>2 DEF BeginMerge, IInv, TypeOK, ViewsTiled, ReadsOrWrites
    <2> QED
        BY <2>1, <2>2
<1>4. ViewsTiled'
    BY <1>3 DEF ViewsTiled, Tiled, EndsAt, IsLast, Disjoint, Gapless, Rows, End
<1>5. OneWriter' /\ WriterUpToDate'
    BY DEF BeginMerge, IInv, TypeOK, OneWriter, WriterUpToDate, Rows
<1> QED
    BY <1>1, <1>2, <1>4, <1>5 DEF IInv, BeginMerge

\* Publishing the writer's view keeps the tiling and strands no other view.
LEMMA CommitWriterIInv ==
    ASSUME IInv, NEW h \in Handles, Commit(h), txn[h] = "writing"
    PROVE  IInv'
<1>1. view[h] \in Tables /\ offset[h] \in Nat /\ Tiled(view[h], offset[h])
    BY DEF IInv, TypeOK, ViewsTiled, ReadsOrWrites
<1>2. cblocks' = view[h]
    BY DEF Commit
<1>3. Tiled(view[h], GetSize(view[h]))
    BY <1>1, TiledGetSize
<1>4. TypeOK'
    BY <1>1, <1>2, EmptyTiled DEF Commit, Close, IInv, TypeOK
<1>5. /\ txn'[h] = "none"
      /\ \A g \in Handles : g # h => /\ txn'[g] = txn[g]
                                     /\ view'[g] = view[g]
                                     /\ offset'[g] = offset[g]
    BY DEF Commit, Close, IInv, TypeOK
<1>6. ASSUME NEW g \in Handles, ReadsOrWrites(g)'
      PROVE  Tiled(view'[g], offset'[g])
    BY <1>5, <1>6 DEF IInv, ViewsTiled, ReadsOrWrites
<1>7. ViewsTiled'
    BY <1>6 DEF ViewsTiled, Tiled, EndsAt, IsLast, Disjoint, Gapless, Rows, End
<1>8. \A g \in Handles : txn'[g] # "writing"
    BY <1>5 DEF IInv, OneWriter
<1>9. OneWriter' /\ WriterUpToDate'
    BY <1>8 DEF OneWriter, WriterUpToDate
<1> QED
    BY <1>2, <1>3, <1>4, <1>7, <1>9 DEF IInv

\* Every step keeps the invariant.
LEMMA NextIInv == IInv /\ [Next]_vars => IInv'
<1> SUFFICES ASSUME IInv, [Next]_vars PROVE IInv'
    OBVIOUS
<1>1. ASSUME NEW h \in Handles, Begin(h) PROVE IInv'
    <2>1. cblocks' = cblocks /\ view' = view /\ offset' = offset
        BY <1>1 DEF Begin
    <2>2. txn' = [txn EXCEPT ![h] = "begun"]
        BY <1>1 DEF Begin
    <2>3. TypeOK'
        BY <2>1, <2>2 DEF IInv, TypeOK
    <2>4. \A g \in Handles : ReadsOrWrites(g)' => ReadsOrWrites(g)
        BY <2>1, <2>2 DEF IInv, TypeOK, ReadsOrWrites
    <2>5. ViewsTiled'
        BY <2>1, <2>4 DEF IInv, ViewsTiled, Tiled, EndsAt, IsLast, Disjoint,
                          Gapless, Rows, End
    <2>6. OneWriter' /\ WriterUpToDate'
        BY <2>1, <2>2 DEF IInv, TypeOK, OneWriter, WriterUpToDate, Rows
    <2>7. Tiled(cblocks, GetSize(cblocks))'
        BY <2>1 DEF IInv, Tiled, EndsAt, IsLast, Disjoint, Gapless, Rows, End, GetSize
    <2> QED
        BY <2>3, <2>5, <2>6, <2>7 DEF IInv
<1>2. ASSUME NEW h \in Handles, BeginMerge(h) PROVE IInv'
    BY <1>2, BeginMergeIInv
<1>3. ASSUME NEW h \in Handles, NEW b \in Blocks, Feed(h, b) PROVE IInv'
    BY <1>3, FeedIInv
<1>4. ASSUME NEW h \in Handles, NEW b \in Blocks, FeedConstraint(h, b)
      PROVE  IInv'
    <2>1. MayWrite(h) /\ cblocks' = cblocks /\ view' = view /\ offset' = offset
        BY <1>4 DEF FeedConstraint
    <2>2. txn' = [txn EXCEPT ![h] = "writing"]
        BY <1>4 DEF FeedConstraint
    <2>3. TypeOK'
        BY <2>1, <2>2 DEF IInv, TypeOK
    <2>4. \A g \in Handles : ReadsOrWrites(g)' => ReadsOrWrites(g)
        BY <2>1, <2>2 DEF IInv, TypeOK, MayWrite, ReadsOrWrites
    <2>5. ViewsTiled'
        BY <2>1, <2>4 DEF IInv, ViewsTiled, Tiled, EndsAt, IsLast, Disjoint,
                          Gapless, Rows, End
    <2>6. OneWriter' /\ WriterUpToDate'
        BY <2>1, <2>2 DEF IInv, TypeOK, MayWrite, OneWriter, WriterUpToDate, Rows
    <2> QED
        BY <2>1, <2>3, <2>5, <2>6 DEF IInv
<1>5. ASSUME NEW h \in Handles, Commit(h) PROVE IInv'
    <2>1. CASE txn[h] = "writing"
        BY <1>5, <2>1, CommitWriterIInv
    <2>2. CASE txn[h] # "writing"
        BY <1>5, <2>2, CloseIInv DEF Commit
    <2> QED
        BY <2>1, <2>2
<1>6. ASSUME NEW h \in Handles, Rollback(h) PROVE IInv'
    BY <1>6, CloseIInv DEF Rollback
<1>7. CASE UNCHANGED vars
    <2>1. cblocks' = cblocks /\ view' = view /\ offset' = offset /\ txn' = txn
        BY <1>7 DEF vars
    <2>2. TypeOK' /\ OneWriter' /\ WriterUpToDate'
        BY <2>1 DEF IInv, TypeOK, OneWriter, WriterUpToDate, Rows
    <2>3. ViewsTiled'
        BY <2>1 DEF IInv, ViewsTiled, ReadsOrWrites, Tiled, EndsAt, IsLast,
                    Disjoint, Gapless, Rows, End
    <2>4. Tiled(cblocks, GetSize(cblocks))'
        BY <2>1 DEF IInv, Tiled, EndsAt, IsLast, Disjoint, Gapless, Rows, End, GetSize
    <2> QED
        BY <2>2, <2>3, <2>4 DEF IInv
<1> QED
    BY <1>1, <1>2, <1>3, <1>4, <1>5, <1>6, <1>7 DEF Next, FeedBusy

\* The invariant the other theorems follow from: tables stay tiled, at most
\* one transaction writes, and it has seen every published row.
THEOREM Invariance == Spec => []IInv
<1> QED
    BY InitIInv, NextIInv, PTL DEF Spec

(***************************************************************************)
(* The properties                                                          *)
(***************************************************************************)
\* Every variable keeps its type: SQLite is only ever fed natural offsets,
\* and `offset` of merge() is one (vfile.cc, 105-127).
THEOREM TypeCorrect == Spec => []TypeOK
<1>1. IInv => TypeOK
    BY DEF IInv
<1> QED
    BY <1>1, Invariance, PTL

\* Whatever merges run and fail, the committed rows of cblocks tile
\* vvpkg.bin: no overlap and no gap (vfile::merge, vfile.cc 97-131).
THEOREM Tiling == Spec => []IndexTiled
<1>1. IInv => IndexTiled
    BY DEF IInv, Tiled, IndexTiled
<1> QED
    BY <1>1, Invariance, PTL

\* A step leaves every published row as it is: a transaction publishes a view
\* that has them all.
LEMMA RowsStay ==
    ASSUME IInv, [Next]_vars
    PROVE  \A b \in Rows(cblocks) : cblocks'[b] = cblocks[b]
<1>1. ASSUME NEW h \in Handles, Commit(h), NEW b \in Rows(cblocks)
      PROVE  cblocks'[b] = cblocks[b]
    BY <1>1 DEF Commit, IInv, WriterUpToDate
<1>2. CASE cblocks' = cblocks
    BY <1>2
<1> QED
    BY <1>1, <1>2 DEF Next, Begin, BeginMerge, Feed, FeedConstraint, FeedBusy,
                      Rollback, vars

\* A row, once published, is never moved or removed by a later commit, the
\* one of a transaction that began before the row was published included.
THEOREM RowsArePermanent == Spec => AppendOnly
<1>1. IInv /\ [Next]_vars => [\A b \in Rows(cblocks) : cblocks'[b] = cblocks[b]]_vars
    BY RowsStay
<1> QED
    BY <1>1, Invariance, PTL DEF Spec, AppendOnly

\* When no block is empty, size_idx never refuses a feed: the offset merge()
\* computes is past every row its transaction sees.
THEOREM FreshOffsets ==
    ASSUME \A b \in Blocks : Size[b] > 0
    PROVE  Spec => []OffsetFree
<1>1. ASSUME IInv PROVE OffsetFree
    <2> SUFFICES ASSUME NEW h \in Handles, ReadsOrWrites(h),
                        NEW b \in Rows(view[h])
                 PROVE  view[h][b] # offset[h]
        BY DEF OffsetFree, ReadsOrWrites
    <2>1. End(view[h], b) <= offset[h]
        BY <1>1 DEF IInv, ViewsTiled, Tiled, EndsAt
    <2>2. view[h][b] \in Nat /\ offset[h] \in Nat /\ Size[b] \in Nat /\ Size[b] > 0
        BY <1>1 DEF IInv, TypeOK, Tables, Rows
    <2> QED
        BY <2>1, <2>2 DEF End
<1> QED
    BY <1>1, Invariance, PTL
==============================================================================

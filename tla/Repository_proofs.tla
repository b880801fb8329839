---------------------------- MODULE Repository_proofs ----------------------------
(***************************************************************************)
(* What holds of a repository for every set of blocks, handles, revisions  *)
(* and inputs and whatever faults are injected, with proofs that TLAPS     *)
(* checks.                                                                 *)
(***************************************************************************)
EXTENDS Repository, SequenceLemmas

IndexProofs == INSTANCE BlockIndex_proofs
Listing     == INSTANCE Segments_proofs

------------------------------------------------------------------------------
(***************************************************************************)
(* The inductive invariant                                                 *)
(***************************************************************************)
File == Seq(Cells \cup {Hole})
Span == {r \in [first : Nat, last : Nat] : r.first <= r.last}
Pcs  == {"idle", "thrown"} \cup CommitPcs \cup CheckoutPcs

Jobs == [pc : Pcs, rev : Revs \cup {NoRev}, input : Seq(Seq(Blocks)),
         bs : Seq(Blocks), missing : Seq(Blocks), it : Nat, throwing : BOOLEAN,
         segments : Seq(Span), out : File]

Merging(h) == job[h].pc \in {"emit", "feed"}

Types == TypeOK /\ job \in [Handles -> Jobs]

\* What the place a call stands at says of the call.
Call(h) ==
    /\ job[h].pc \in CommitPcs \cup CheckoutPcs => job[h].rev \in Revs
    /\ At(h, "feed") => job[h].missing # << >>
    /\ job[h].throwing => job[h].pc \in {"close", "finish"}
    /\ job[h].pc \in {"copy", "flush"} => bin # NoFile
    /\ Merging(h) => txn[h] \in {"reading", "writing"}

Calls == \A h \in Handles : Call(h)

\* A revision belongs to the one commit that created its manifest.
Owned ==
    /\ \A h \in Handles : Committing(h) => /\ manifest[job[h].rev].state = "open"
                                           /\ outcome[job[h].rev] = "running"
    /\ \A g, h \in Handles :
          Committing(g) /\ Committing(h) /\ job[g].rev = job[h].rev => g = h
    /\ \A r \in Revs : manifest[r].state = "absent" =>
          manifest[r] = Absent /\ outcome[r] = "none" /\ content[r] = << >>

\* The first place of b in bs is i.
FirstAt(bs, b, i) == i \in DOMAIN bs /\ bs[i] = b /\ \A j \in 1..(i - 1) : bs[j] # b

\* The missing ids come in the order in which merge() looks for them.
InOrder(h) ==
    /\ \A n \in DOMAIN job[h].missing :
          \E i \in DOMAIN job[h].bs : FirstAt(job[h].bs, job[h].missing[n], i) /\ job[h].it <= i
    /\ \A m, n \in DOMAIN job[h].missing : m < n =>
          \A i, j \in DOMAIN job[h].bs :
              FirstAt(job[h].bs, job[h].missing[m], i)
              /\ FirstAt(job[h].bs, job[h].missing[n], j) => i < j
    /\ At(h, "feed") => FirstAt(job[h].bs, Head(job[h].missing), job[h].it)

\* The index as h's transaction will leave it, and the ids it will add yet.
Publishes(h) == IF Merging(h) /\ txn[h] = "writing" THEN view[h] ELSE cblocks
Coming(h)    == IF At(h, "assign") THEN Ids(job[h].bs)
                ELSE IF At(h, "begin") \/ Merging(h) THEN Ids(job[h].missing)
                ELSE {}

\* What a commit has read so far is in its manifest, and indexed, or will be.
Tracked(h) ==
    /\ content[job[h].rev] =
          manifest[job[h].rev].ids \o (IF At(h, "assign") THEN job[h].bs ELSE << >>)
    /\ \A b \in Ids(content[job[h].rev]) : Publishes(h)[b] # NoOffset \/ b \in Coming(h)

OnTrack(h) ==
    Committing(h) /\ ~job[h].throwing =>
        /\ Tracked(h)
        /\ At(h, "begin") \/ Merging(h) => InOrder(h)

Commits == \A h \in Handles : OnTrack(h)

StreamsClosed == \A h \in Handles : ~fp[h].open => fp[h] = Store!Closed

Streams ==
    /\ StreamsClosed
    /\ \A h \in Handles : fp[h].open => Committing(h) /\ ~At(h, "finish")

IInv ==
    /\ Index!IInv
    /\ Types
    /\ Calls
    /\ Owned
    /\ Commits
    /\ CommittedIndexed
    /\ Streams

(***************************************************************************)
(* and what it takes to find the data in vvpkg.bin, when callers run one   *)
(* commit at a time                                                        *)
(***************************************************************************)
Alone == \A g, h \in Handles : Committing(g) /\ Committing(h) => g = h

\* Byte p of file f is c; and once stream s, which writes f, has been flushed.
On(f, p, c)         == f # NoFile /\ p \in DOMAIN f /\ f[p] = c
Buffers(s, p)       == s.pos < p /\ p <= s.pos + Len(s.buf)
Flushing(f, s, p, c) == IF Buffers(s, p) THEN s.buf[p - s.pos] = c ELSE On(f, p, c)

Written(p, c) == On(bin, p, c)
Arrives(p, c) ==
    \/ \E h \in Handles : Buffers(fp[h], p) /\ fp[h].buf[p - fp[h].pos] = c
    \/ Written(p, c) /\ \A h \in Handles : ~Buffers(fp[h], p)

\* Block b is stored at `off`, in the file and the buffers.
Stored(b, off) == \A i \in 1..Size[b] : Arrives(off + i, <<b, i>>)
Holds(v)       == \A b \in Blocks : v[b] # NoOffset /\ b \notin lost => Stored(b, v[b])

\* A merge that wrote nothing yet sees what is published now, and what was
\* missing is missing still.
Snapshot(h) ==
    /\ Merging(h) /\ txn[h] = "reading" => view[h] = cblocks
    /\ At(h, "begin") => \A b \in Ids(job[h].missing) : cblocks[b] = NoOffset
    /\ Merging(h) => \A b \in Ids(job[h].missing) : view[h][b] = NoOffset

\* A stream stands where the next row is going to point.
Position(h) ==
    LET end == fp[h].pos + Len(fp[h].buf) IN
    /\ fp[h].open => /\ job[h].pc \in {"consume", "assign", "begin"} =>
                            end = Index!GetSize(cblocks)
                     /\ At(h, "emit") => end = offset[h]
    /\ At(h, "feed") => /\ fp[h].open
                        /\ end = offset[h] + Size[Head(job[h].missing)]

\* The rows a merge is about to publish have their data stored.
Carries(h) ==
    /\ Merging(h) => Holds(view[h])
    /\ At(h, "feed") => Stored(Head(job[h].missing), offset[h])

InCommit(h) == Snapshot(h) /\ Position(h) /\ Carries(h)

\* Blocks of commits that returned are below whatever is buffered.
Settled ==
    \A r \in Revs : outcome[r] = "ok" =>
        \A b \in Ids(content[r]) :
            /\ b \in lost \/ \A i \in 1..Size[b] : Written(cblocks[b] + i, <<b, i>>)
            /\ \A h \in Handles : fp[h].open => Index!End(cblocks, b) <= fp[h].pos

SerialInv ==
    /\ Alone
    /\ Holds(cblocks)
    /\ \A h \in Handles : InCommit(h)
    /\ Settled

------------------------------------------------------------------------------
(***************************************************************************)
(* The index: whatever a handle does is a step of the index, or none       *)
(***************************************************************************)
LEMMA Constants ==
    /\ Size \in [Blocks -> Nat] /\ NoOffset \notin Nat /\ ReadOnly \subseteq Handles
    /\ \A b \in Blocks : Size[b] \in Nat /\ Size[b] > 0
BY IndexAssumption

\* The definitions of the index are those its own proofs are about.
LEMMA SameIndex ==
    /\ Index!Init <=> IndexProofs!Init
    /\ Index!IInv <=> IndexProofs!IInv
    /\ IndexProofs!vars = indexVars
BY DEF indexVars, IndexProofs!vars, Index!Init, IndexProofs!Init, Index!Empty, IndexProofs!Empty,
       Index!IInv, IndexProofs!IInv, Index!TypeOK, IndexProofs!TypeOK,
       Index!Tables, IndexProofs!Tables, Index!Tiled, IndexProofs!Tiled,
       Index!Disjoint, IndexProofs!Disjoint, Index!Gapless, IndexProofs!Gapless,
       Index!EndsAt, IndexProofs!EndsAt, Index!Rows, IndexProofs!Rows,
       Index!End, IndexProofs!End, Index!IsLast, IndexProofs!IsLast,
       Index!GetSize, IndexProofs!GetSize, Index!ViewsTiled, IndexProofs!ViewsTiled,
       Index!ReadsOrWrites, IndexProofs!ReadsOrWrites, Index!OneWriter, IndexProofs!OneWriter,
       Index!WriterUpToDate, IndexProofs!WriterUpToDate

LEMMA SameIndexNext == (Index!IInv <=> IndexProofs!IInv)'
BY SameIndex, PTL

LEMMA IndexSteps ==
    ASSUME NEW h \in Handles,
           \/ Index!Begin(h) \/ Index!BeginMerge(h) \/ Index!FeedBusy(h)
           \/ Index!Commit(h) \/ Index!Rollback(h)
           \/ \E b \in Blocks : Index!Feed(h, b) \/ Index!FeedConstraint(h, b)
    PROVE  IndexProofs!Next
BY Zenon DEF Index!Begin, IndexProofs!Begin, Index!BeginMerge, IndexProofs!BeginMerge,
       Index!GetSize, IndexProofs!GetSize, Index!Rows, IndexProofs!Rows,
       Index!End, IndexProofs!End, Index!IsLast, IndexProofs!IsLast,
       Index!FeedBusy, IndexProofs!FeedBusy, Index!MayWrite, IndexProofs!MayWrite,
       Index!vars, IndexProofs!vars, Index!Commit, IndexProofs!Commit,
       Index!Close, IndexProofs!Close, Index!Empty, IndexProofs!Empty,
       Index!Rollback, IndexProofs!Rollback, Index!Feed, IndexProofs!Feed,
       Index!Duplicate, IndexProofs!Duplicate,
       Index!FeedConstraint, IndexProofs!FeedConstraint, IndexProofs!Next

\* The next missing block is a block.
LEMMA HeadMissing ==
    ASSUME Types, Calls, NEW h \in Handles
    PROVE  /\ job[h] \in Jobs
           /\ job[h].missing \in Seq(Blocks)
           /\ At(h, "feed") => Head(job[h].missing) \in Blocks
<1>1. job[h] \in Jobs
    BY DEF Types
<1>2. job[h].missing \in Seq(Blocks)
    BY <1>1 DEF Jobs
<1> QED
    BY <1>1, <1>2 DEF Calls, Call

LEMMA IndexNext ==
    ASSUME Types, Calls, Next
    PROVE  IndexProofs!Next \/ UNCHANGED indexVars
<1>1. PICK h \in Handles : Start(h) \/ Step(h) \/ Keep(h) \/ Crash(h)
    BY DEF Next
<1>2. CASE Start(h)
    BY Zenon, <1>2, IndexSteps
    DEF Start, NewRevision, NewRevisionFails, List, ListUnparsable, ListRefused
<1>3. CASE MergeBegin(h)
    BY <1>3, IndexSteps DEF MergeBegin
<1>4. CASE Feed(h) \/ FeedFails(h)
    BY <1>4, IndexSteps, HeadMissing DEF Feed, FeedFails
<1>5. CASE MergeCommit(h)
    BY <1>5, IndexSteps DEF MergeCommit
<1>6. CASE Discard(h) \/ Crash(h)
    BY <1>6, IndexSteps DEF Discard, Crash, Disconnect
<1>7. CASE \/ Consume(h) \/ ConsumeFails(h) \/ AssignBlocks(h) \/ AssignFails(h)
           \/ Emit(h) \/ EmitFails(h) \/ CloseStore(h) \/ CloseRevision(h)
           \/ OpenBin(h) \/ CopyRange(h) \/ CopyFails(h) \/ EndCopy(h) \/ Flush(h)
           \/ Keep(h)
    BY Zenon, <1>7 DEF Consume, ConsumeFails, AssignBlocks, AssignFails, Emit, EmitFails,
                CloseStore, CloseRevision, OpenBin, CopyRange, CopyFails, EndCopy,
                Flush, Keep
<1> QED
    BY <1>1, <1>2, <1>3, <1>4, <1>5, <1>6, <1>7 DEF Step

\* The invariant of the index is kept, and its rows are.
LEMMA IndexKept ==
    ASSUME Index!IInv, Types, Calls, [Next]_vars
    PROVE  /\ Index!IInv'
           /\ \A b \in Index!Rows(cblocks) : cblocks'[b] = cblocks[b]
<1>1. [IndexProofs!Next]_(IndexProofs!vars)
    BY IndexNext DEF vars, indexVars, IndexProofs!vars
<1>2. IndexProofs!IInv
    BY SameIndex
<1>3. IndexProofs!IInv'
    BY <1>1, <1>2, Constants, IndexProofs!NextIInv
<1>4. \A b \in IndexProofs!Rows(cblocks) : cblocks'[b] = cblocks[b]
    BY <1>1, <1>2, Constants, IndexProofs!RowsStay
<1> QED
    BY <1>3, <1>4, SameIndexNext DEF Index!Rows, IndexProofs!Rows

------------------------------------------------------------------------------
(***************************************************************************)
(* Files and streams                                                       *)
(***************************************************************************)
LEMMA DataType ==
    ASSUME NEW b \in Blocks
    PROVE  /\ Data(b) \in Seq(Cells) /\ Len(Data(b)) = Size[b]
           /\ \A i \in 1..Size[b] : Data(b)[i] = <<b, i>>
<1>1. Size[b] \in Nat
    BY Constants
<1>2. \A i \in 1..Size[b] : <<b, i>> \in Cells
    BY DEF Cells
<1>3. Data(b) \in [1..Size[b] -> Cells]
    BY <1>2 DEF Data
<1> QED
    BY <1>1, <1>3 DEF Data

\* The bytes of a file after a write: the data where it went, and what was
\* there everywhere else.
LEMMA WriteAtIs ==
    ASSUME NEW f \in File, NEW pos \in Nat, NEW data \in Seq(Cells)
    PROVE  LET g == Store!WriteAt(f, pos, data) IN
           /\ g \in File
           /\ \A p \in Nat : pos < p /\ p <= pos + Len(data) =>
                 p \in DOMAIN g /\ g[p] = data[p - pos]
           /\ \A p \in DOMAIN f : ~(pos < p /\ p <= pos + Len(data)) =>
                 p \in DOMAIN g /\ g[p] = f[p]
<1> DEFINE g == Store!WriteAt(f, pos, data)
           S == Cells \cup {Hole}
           n == IF pos + Len(data) > Len(f) THEN pos + Len(data) ELSE Len(f)
<1>1. CASE data = << >>
    BY <1>1 DEF Store!WriteAt, File
<1>2. CASE data # << >>
    <2>1. g = [i \in 1..n |->
                 IF pos < i /\ i <= pos + Len(data) THEN data[i - pos]
                 ELSE IF i <= Len(f) THEN f[i] ELSE Hole]
        BY <1>2 DEF Store!WriteAt
    <2>2. f \in Seq(S) /\ Len(f) \in Nat /\ DOMAIN f = 1..Len(f) /\ Len(data) \in Nat /\ n \in Nat
        BY DEF File
    <2>3. ASSUME NEW i \in 1..n, pos < i, i <= pos + Len(data) PROVE data[i - pos] \in S
        <3>1. i - pos \in 1..Len(data)
            BY <2>2, <2>3
        <3>2. data[i - pos] \in Cells
            BY <3>1
        <3> QED
            BY <3>2
    <2>4. ASSUME NEW i \in 1..n, i <= Len(f) PROVE f[i] \in S
        BY <2>2, <2>4
    <2> HIDE DEF S
    <2>5. Hole \in S
        BY DEF S
    <2>6. g \in [1..n -> S]
        BY <2>1, <2>3, <2>4, <2>5
    <2> HIDE DEF g
    <2>7. g \in Seq(S) /\ DOMAIN g = 1..n
        <3>1. n \in Nat
            BY <2>2
        <3> HIDE DEF n
        <3> QED
            BY <2>6, <3>1
    <2>8. ASSUME NEW p \in Nat, pos < p, p <= pos + Len(data)
          PROVE  p \in DOMAIN g /\ g[p] = data[p - pos]
        BY <2>1, <2>2, <2>7, <2>8
    <2>9. ASSUME NEW p \in DOMAIN f, ~(pos < p /\ p <= pos + Len(data))
          PROVE  p \in DOMAIN g /\ g[p] = f[p]
        BY <2>1, <2>2, <2>7, <2>9
    <2> QED
        BY <2>7, <2>8, <2>9 DEF g, S, File
<1> QED
    BY <1>1, <1>2

Streaming == [open : BOOLEAN, pos : Nat, buf : Seq(Cells)]

\* A stream of which k bytes were flushed: what it still buffers it buffered
\* before, what it does not is in the file, and the file is as it was before
\* and behind the stream.
LEMMA FlushedIs ==
    ASSUME NEW f \in File, NEW s \in Streaming, NEW k \in 0..Len(s.buf)
    PROVE  LET g == Store!Flushed(f, s, k)
               t == Store!Rest(s, k)
           IN  /\ g \in File
               /\ t \in Streaming /\ t.open = s.open /\ t.pos = s.pos + k
               /\ t.pos + Len(t.buf) = s.pos + Len(s.buf)
               /\ \A p \in Nat : Buffers(t, p) => Buffers(s, p) /\ t.buf[p - t.pos] = s.buf[p - s.pos]
               /\ \A p \in Nat : Buffers(s, p) /\ ~Buffers(t, p) =>
                     p \in DOMAIN g /\ g[p] = s.buf[p - s.pos]
               /\ \A p \in DOMAIN f : ~Buffers(s, p) => p \in DOMAIN g /\ g[p] = f[p]
<1> DEFINE g == Store!Flushed(f, s, k)
           t == Store!Rest(s, k)
           x == SubSeq(s.buf, 1, k)
           y == SubSeq(s.buf, k + 1, Len(s.buf))
<1>1. s.pos \in Nat /\ s.buf \in Seq(Cells) /\ s.open \in BOOLEAN /\ Len(s.buf) \in Nat /\ k \in Nat
    BY DEF Streaming
<1>2. x \in Seq(Cells) /\ Len(x) = k /\ \A i \in 1..k : x[i] = s.buf[i]
    BY <1>1
<1>3. y \in Seq(Cells) /\ Len(y) = Len(s.buf) - k /\ \A i \in 1..(Len(s.buf) - k) : y[i] = s.buf[k + i]
    BY <1>1
<1>4. t = [open |-> s.open, pos |-> s.pos + k, buf |-> y]
    <2>1. t = [s EXCEPT !.pos = s.pos + k, !.buf = y]
        BY DEF Store!Rest
    <2> HIDE DEF t, y
    <2> QED
        BY Zenon, <2>1 DEF Streaming
<1>5. g = Store!WriteAt(f, s.pos, x)
    BY DEF Store!Flushed
<1> HIDE DEF g, t, x, y
<1>6. /\ g \in File
      /\ \A p \in Nat : s.pos < p /\ p <= s.pos + Len(x) =>
            p \in DOMAIN g /\ g[p] = x[p - s.pos]
      /\ \A p \in DOMAIN f : ~(s.pos < p /\ p <= s.pos + Len(x)) =>
            p \in DOMAIN g /\ g[p] = f[p]
    <2> DEFINE pos == s.pos
    <2>1. pos \in Nat /\ g = Store!WriteAt(f, pos, x)
        BY <1>1, <1>5
    <2> HIDE DEF pos
    <2>2. /\ g \in File
          /\ \A p \in Nat : pos < p /\ p <= pos + Len(x) =>
                p \in DOMAIN g /\ g[p] = x[p - pos]
          /\ \A p \in DOMAIN f : ~(pos < p /\ p <= pos + Len(x)) =>
                p \in DOMAIN g /\ g[p] = f[p]
        BY Zenon, <1>2, <2>1, WriteAtIs
    <2> QED
        BY <2>2 DEF pos
<1>7. t \in Streaming /\ t.open = s.open /\ t.pos = s.pos + k /\ t.buf = y
    BY <1>1, <1>3, <1>4 DEF Streaming
<1>8. t.pos + Len(t.buf) = s.pos + Len(s.buf)
    BY <1>1, <1>3, <1>7
<1>9. ASSUME NEW p \in Nat, Buffers(t, p)
      PROVE  Buffers(s, p) /\ t.buf[p - t.pos] = s.buf[p - s.pos]
    <2>1. p - t.pos \in 1..(Len(s.buf) - k) /\ k + (p - t.pos) = p - s.pos
        <3>1. s.pos + k < p /\ p <= s.pos + k + Len(y)
            BY <1>7, <1>9 DEF Buffers
        <3>2. p - (s.pos + k) \in 1..(Len(s.buf) - k) /\ k + (p - (s.pos + k)) = p - s.pos
            <4> DEFINE pos == s.pos
                       n == Len(s.buf)
            <4>1. pos \in Nat /\ n \in Nat /\ Len(y) = n - k /\ k \in Nat
                BY Zenon, <1>1, <1>3
            <4> HIDE DEF pos, n
            <4>2. p - (pos + k) \in 1..(n - k) /\ k + (p - (pos + k)) = p - pos
                BY <3>1, <4>1 DEF pos
            <4> QED
                BY <4>2 DEF pos, n
        <3> QED
            BY <1>7, <3>2
    <2>2. t.buf[p - t.pos] = s.buf[p - s.pos]
        BY Zenon, <1>3, <1>7, <2>1
    <2>3. Buffers(s, p)
        BY <1>1, <1>7, <1>8, <1>9 DEF Buffers
    <2> QED
        BY <2>2, <2>3
<1>10. ASSUME NEW p \in Nat, Buffers(s, p), ~Buffers(t, p)
       PROVE  p \in DOMAIN g /\ g[p] = s.buf[p - s.pos]
    <2>1. s.pos < p /\ p <= s.pos + k /\ p - s.pos \in 1..k
        BY <1>1, <1>7, <1>8, <1>10 DEF Buffers
    <2> QED
        BY <1>2, <1>6, <2>1
<1>11. ASSUME NEW p \in DOMAIN f, ~Buffers(s, p) PROVE p \in DOMAIN g /\ g[p] = f[p]
    <2>1. ~(s.pos < p /\ p <= s.pos + Len(x))
        <3>1. p \in Nat
            BY DEF File
        <3> QED
            BY <1>1, <1>2, <1>11, <3>1 DEF Buffers
    <2> QED
        BY <1>6, <2>1
<1> QED
    BY <1>6, <1>7, <1>8, <1>9, <1>10, <1>11 DEF g, t

LEMMA FlushKeeps ==
    ASSUME NEW f \in File, NEW s \in Streaming, NEW k \in 0..Len(s.buf)
    PROVE  LET g == Store!Flushed(f, s, k)
               t == Store!Rest(s, k)
           IN  /\ \A p \in Nat : \A c : Flushing(f, s, p, c) => Flushing(g, t, p, c)
               /\ \A p \in Nat : \A c : p <= s.pos /\ On(f, p, c) => On(g, p, c)
<1> DEFINE g == Store!Flushed(f, s, k)
           t == Store!Rest(s, k)
<1>1. /\ g \in File
      /\ t \in Streaming /\ t.open = s.open /\ t.pos = s.pos + k
      /\ t.pos + Len(t.buf) = s.pos + Len(s.buf)
      /\ \A p \in Nat : Buffers(t, p) => Buffers(s, p) /\ t.buf[p - t.pos] = s.buf[p - s.pos]
      /\ \A p \in Nat : Buffers(s, p) /\ ~Buffers(t, p) =>
            p \in DOMAIN g /\ g[p] = s.buf[p - s.pos]
      /\ \A p \in DOMAIN f : ~Buffers(s, p) => p \in DOMAIN g /\ g[p] = f[p]
    BY FlushedIs
<1> HIDE DEF g, t
<1>2. g # NoFile /\ f # NoFile
    BY <1>1, NoFileAssumption DEF File
<1>3. ASSUME NEW p \in Nat, NEW c, Flushing(f, s, p, c) PROVE Flushing(g, t, p, c)
    <2>1. CASE Buffers(t, p)
        BY <1>1, <1>3, <2>1 DEF Flushing
    <2>2. CASE Buffers(s, p) /\ ~Buffers(t, p)
        BY <1>1, <1>2, <1>3, <2>2 DEF Flushing, On
    <2>3. CASE ~Buffers(s, p)
        BY <1>1, <1>2, <1>3, <2>3 DEF Flushing, On
    <2> QED
        BY <2>1, <2>2, <2>3
<1>4. ASSUME NEW p \in Nat, NEW c, p <= s.pos, On(f, p, c) PROVE On(g, p, c)
    <2>1. ~Buffers(s, p)
        BY <1>4 DEF Buffers, Streaming
    <2> QED
        BY <1>1, <1>2, <1>4, <2>1 DEF On
<1> QED
    BY <1>3, <1>4 DEF g, t

\* Data given to stream r comes right behind what it took before.
LEMMA GrownIs ==
    ASSUME NEW f, NEW r \in Streaming, NEW data \in Seq(Cells)
    PROVE  LET s   == [open |-> TRUE, pos |-> r.pos, buf |-> r.buf \o data]
               end == r.pos + Len(r.buf)
           IN  /\ s \in Streaming /\ s.pos + Len(s.buf) = end + Len(data)
               /\ \A p \in Nat : \A c : p <= end /\ Flushing(f, r, p, c) => Flushing(f, s, p, c)
               /\ \A i \in 1..Len(data) : Flushing(f, s, end + i, data[i])
<1> DEFINE x == r.buf
           pos == r.pos
           whole == x \o data
           s == [open |-> TRUE, pos |-> pos, buf |-> whole]
           end == pos + Len(x)
<1>1. x \in Seq(Cells) /\ pos \in Nat
    BY DEF Streaming
<1> HIDE DEF x, pos
<1>2. whole \in Seq(Cells) /\ Len(whole) = Len(x) + Len(data)
    BY <1>1, ConcatProperties
<1>3. /\ \A i \in 1..Len(x) : whole[i] = x[i]
      /\ \A i \in 1..Len(data) : whole[Len(x) + i] = data[i]
    BY <1>1
<1> HIDE DEF whole
<1>4. s \in Streaming /\ s.pos = pos /\ s.buf = whole
    BY <1>1, <1>2 DEF Streaming
<1> HIDE DEF s
<1>5. Len(x) \in Nat /\ Len(data) \in Nat /\ end \in Nat
    BY <1>1
<1>6. s.pos + Len(s.buf) = end + Len(data)
    BY <1>1, <1>2, <1>4, <1>5
<1>7. ASSUME NEW p \in Nat, NEW c, p <= end, Flushing(f, r, p, c) PROVE Flushing(f, s, p, c)
    <2>1. Buffers(s, p) <=> Buffers(r, p)
        BY <1>1, <1>4, <1>5, <1>6, <1>7 DEF Buffers, x, pos
    <2>2. Buffers(r, p) => whole[p - pos] = x[p - pos]
        <3>1. Buffers(r, p) => p - pos \in 1..Len(x)
            BY <1>1, <1>5 DEF Buffers, x, pos
        <3> QED
            BY <1>3, <3>1
    <2> QED
        BY <1>4, <1>7, <2>1, <2>2 DEF Flushing, x, pos
<1>8. ASSUME NEW i \in 1..Len(data) PROVE Flushing(f, s, end + i, data[i])
    <2>1. (end + i) - pos = Len(x) + i
        BY <1>1, <1>5
    <2>2. Buffers(s, end + i)
        BY <1>1, <1>4, <1>5, <1>6 DEF Buffers
    <2> QED
        BY <1>3, <1>4, <2>1, <2>2 DEF Flushing
<1> QED
    BY Zenon, <1>4, <1>6, <1>7, <1>8 DEF s, end, whole, x, pos

\* Once the stream of h is flushed, byte p is c.
In(h, p, c) == Flushing(bin, fp[h], p, c)

\* Where the stream of h starts, and ends, when it is next given data at `from`.
StartsAt(h, from) == IF fp[h].open THEN fp[h].pos ELSE from
GrowsAt(h, from)  == IF fp[h].open THEN fp[h].pos + Len(fp[h].buf) ELSE from

LEMMA StoreParts ==
    ASSUME Store!TypeOK(Cells), NEW h \in Handles
    PROVE  /\ fp[h] \in Streaming /\ fp \in [Handles -> Streaming]
           /\ fp[h].open => bin \in File
           /\ bin # NoFile => bin \in File
           /\ Store!Closed \in Streaming
           /\ NoFile \notin File
BY NoFileAssumption DEF Store!TypeOK, Streaming, File, Store!Closed

\* What the sync_store does with data it accepts: it comes right behind what
\* the stream took before, and nothing below it changes, unless the file is
\* created anew.
LEMMA AcceptIs ==
    ASSUME Store!TypeOK(Cells), StreamsClosed, NEW h \in Handles,
           NEW from \in Nat, NEW data \in Seq(Cells), Store!Accept(h, from, data)
    PROVE  /\ Store!TypeOK(Cells)' /\ StreamsClosed'
           /\ \A g \in Handles : g # h => fp'[g] = fp[g]
           /\ fp'[h].open /\ fp'[h].pos >= StartsAt(h, from)
           /\ fp'[h].pos + Len(fp'[h].buf) = GrowsAt(h, from) + Len(data)
           /\ fp[h].open \/ from # 0 =>
                 /\ \A p \in Nat : \A c : p <= GrowsAt(h, from) /\ In(h, p, c) => In(h, p, c)'
                 /\ \A p \in Nat : \A c : p <= StartsAt(h, from) /\ Written(p, c) => Written(p, c)'
           /\ \A i \in 1..Len(data) : \A c \in {data[i]}, p \in {GrowsAt(h, from) + i} : In(h, p, c)'
<1> DEFINE file == IF ~fp[h].open /\ from = 0 THEN << >> ELSE bin
           r == [fp[h] EXCEPT !.open = TRUE, !.pos = StartsAt(h, from)]
           end == r.pos + Len(r.buf)
           s == [open |-> TRUE, pos |-> r.pos, buf |-> r.buf \o data]
<1>1. /\ fp[h] \in Streaming /\ fp \in [Handles -> Streaming]
      /\ fp[h].open => bin \in File
      /\ bin # NoFile => bin \in File
      /\ NoFile \notin File
    BY StoreParts
<1>2. fp[h].pos \in Nat /\ fp[h].buf \in Seq(Cells) /\ Len(fp[h].buf) \in Nat
    BY <1>1 DEF Streaming
<1>3. ~fp[h].open => fp[h].buf = << >> /\ fp[h].pos = 0
    BY DEF StreamsClosed, Store!Closed
<1>4. file \in File
    BY <1>1 DEF Store!Accept, Store!CanOpen, File
<1>5. r \in Streaming /\ r.pos = StartsAt(h, from) /\ r.buf = fp[h].buf
    BY Zenon, <1>1, <1>2 DEF StartsAt, Streaming
<1>6. r.pos \in Nat /\ r.buf \in Seq(Cells) /\ Len(r.buf) \in Nat
    BY <1>2, <1>5 DEF StartsAt
<1>7. PICK k \in 0..Len(s.buf) : /\ bin' = Store!Flushed(file, s, k)
                                 /\ fp' = [fp EXCEPT ![h] = Store!Rest(s, k)]
    BY Zenon, <1>5 DEF Store!Accept, StartsAt
<1>8. end = GrowsAt(h, from)
    BY <1>2, <1>3, <1>5 DEF StartsAt, GrowsAt
<1> HIDE DEF file, r
<1>9. /\ s \in Streaming /\ s.pos + Len(s.buf) = end + Len(data)
      /\ \A p \in Nat : \A c : p <= end /\ Flushing(file, r, p, c) => Flushing(file, s, p, c)
      /\ \A i \in 1..Len(data) : Flushing(file, s, end + i, data[i])
    BY Zenon, <1>5, GrownIs
<1>10. s.open /\ s.pos = r.pos
    OBVIOUS
<1> HIDE DEF s, end
<1> DEFINE t == Store!Rest(s, k)
           g == Store!Flushed(file, s, k)
<1>11. /\ g \in File
       /\ t \in Streaming /\ t.open = s.open /\ t.pos = s.pos + k
       /\ t.pos + Len(t.buf) = s.pos + Len(s.buf)
    BY <1>4, <1>9, FlushedIs
<1>12. /\ \A p \in Nat : \A c : Flushing(file, s, p, c) => Flushing(g, t, p, c)
       /\ \A p \in Nat : \A c : p <= s.pos /\ On(file, p, c) => On(g, p, c)
    BY <1>4, <1>9, FlushKeeps
<1>13. bin' = g /\ fp' = [fp EXCEPT ![h] = t]
    BY <1>7
<1> HIDE DEF t, g
<1>14. bin' \in File /\ bin' # NoFile /\ fp'[h] = t /\ \A a \in Handles : a # h => fp'[a] = fp[a]
    BY <1>1, <1>11, <1>13
<1>15. Store!TypeOK(Cells)' /\ StreamsClosed'
    <2>1. fp' \in [Handles -> Streaming]
        BY <1>1, <1>11, <1>13
    <2>2. t.open
        BY <1>10, <1>11
    <2> QED
        BY Zenon, <1>14, <2>1, <2>2 DEF Store!TypeOK, StreamsClosed, Streaming, File
<1>16. fp'[h].open /\ fp'[h].pos >= StartsAt(h, from)
       /\ fp'[h].pos + Len(fp'[h].buf) = end + Len(data)
    <2>1. k \in Nat
        BY <1>7, <1>9 DEF Streaming
    <2>2. t.open /\ t.pos = r.pos + k /\ t.pos + Len(t.buf) = end + Len(data)
        BY <1>9, <1>10, <1>11
    <2>3. r.pos + k >= r.pos
        BY <1>6, <2>1
    <2> QED
        BY <1>5, <1>14, <2>2, <2>3, Zenon
<1>17. \A p, c : In(h, p, c)' <=> Flushing(g, t, p, c)
    BY <1>13, <1>14 DEF In
<1>18. \A p, c : Written(p, c)' <=> On(g, p, c)
    BY <1>13 DEF Written
<1>19. ASSUME fp[h].open \/ from # 0, NEW p \in Nat, NEW c, p <= end, In(h, p, c)
       PROVE  In(h, p, c)'
    <2>1. file = bin
        BY <1>19 DEF file
    <2>2. Flushing(file, r, p, c)
        <3>1. CASE fp[h].open
            BY <1>5, <1>19, <2>1, <3>1 DEF In, Flushing, Buffers, StartsAt
        <3>2. CASE ~fp[h].open
            <4>1. ~Buffers(fp[h], p) /\ ~Buffers(r, p)
                BY <1>3, <1>5, <1>6, <3>2 DEF Buffers
            <4> QED
                BY <1>19, <2>1, <4>1 DEF In, Flushing
        <3> QED
            BY <3>1, <3>2
    <2> QED
        BY <1>9, <1>12, <1>17, <1>19, <2>2
<1>20. ASSUME fp[h].open \/ from # 0, NEW p \in Nat, NEW c, p <= StartsAt(h, from), Written(p, c)
       PROVE  Written(p, c)'
    <2>1. On(file, p, c)
        BY <1>20 DEF Written, file
    <2> QED
        BY <1>5, <1>10, <1>12, <1>18, <1>20, <2>1
<1>21. ASSUME NEW i \in 1..Len(data), NEW c \in {data[i]}, NEW p \in {GrowsAt(h, from) + i}
       PROVE  In(h, p, c)'
    <2>1. p = end + i /\ p \in Nat /\ Flushing(file, s, p, c)
        BY <1>6, <1>8, <1>9, <1>21 DEF end
    <2> QED
        BY <1>12, <1>17, <2>1
<1> QED
    BY <1>8, <1>14, <1>15, <1>16, <1>19, <1>20, <1>21

\* A stream that is closed once k of its bytes were flushed: what it held
\* is in the file but for the bytes behind those.
LEMMA CloseIs ==
    ASSUME Store!TypeOK(Cells), StreamsClosed, NEW h \in Handles,
           NEW k \in 0..Len(fp[h].buf),
           bin' = IF fp[h].open THEN Store!Flushed(bin, fp[h], k) ELSE bin,
           fp' = [fp EXCEPT ![h] = Store!Closed]
    PROVE  /\ Store!TypeOK(Cells)' /\ StreamsClosed'
           /\ \A g \in Handles : g # h => fp'[g] = fp[g]
           /\ fp'[h] = Store!Closed
           /\ bin # NoFile => bin' # NoFile
           /\ \A p \in Nat : \A c :
                 In(h, p, c) /\ ~(fp[h].pos + k < p /\ Buffers(fp[h], p)) => Written(p, c)'
           /\ \A p \in Nat : \A c : (fp[h].open => p <= fp[h].pos) /\ Written(p, c) => Written(p, c)'
<1> DEFINE s == fp[h]
           t == Store!Rest(s, k)
           g == Store!Flushed(bin, s, k)
<1>1. /\ s \in Streaming /\ fp \in [Handles -> Streaming]
      /\ s.open => bin \in File
      /\ Store!Closed \in Streaming
      /\ NoFile \notin File
    BY StoreParts
<1>2. fp'[h] = Store!Closed /\ \A a \in Handles : a # h => fp'[a] = fp[a]
    BY <1>1
<1>3. fp' \in [Handles -> Streaming]
    BY <1>1
<1>4. CASE s.open
    <2>1. bin \in File /\ bin' = g
        BY <1>1, <1>4
    <2> HIDE DEF s
    <2>2. k \in 0..Len(s.buf)
        BY DEF s
    <2>3. /\ g \in File
          /\ t \in Streaming /\ t.pos = s.pos + k /\ t.pos + Len(t.buf) = s.pos + Len(s.buf)
        BY <1>1, <2>1, <2>2, FlushedIs
    <2>4. /\ \A p \in Nat : \A c : Flushing(bin, s, p, c) => Flushing(g, t, p, c)
          /\ \A p \in Nat : \A c : p <= s.pos /\ On(bin, p, c) => On(g, p, c)
        BY <1>1, <2>1, <2>2, FlushKeeps
    <2> HIDE DEF t, g
    <2>5. ASSUME NEW p \in Nat, NEW c, Flushing(bin, s, p, c),
                 ~(s.pos + k < p /\ Buffers(s, p))
          PROVE  On(g, p, c)
        <3>1. ~Buffers(t, p)
            <4>1. s.pos \in Nat /\ Len(s.buf) \in Nat /\ k \in Nat
                BY <1>1, <2>2 DEF Streaming
            <4> QED
                BY <2>3, <2>5, <4>1 DEF Buffers
        <3> QED
            BY <2>4, <2>5, <3>1 DEF Flushing
    <2>6. Store!TypeOK(Cells)' /\ StreamsClosed'
        BY Zenon, <1>1, <1>2, <1>3, <2>1, <2>3
        DEF Store!TypeOK, StreamsClosed, Streaming, File, Store!Closed
    <2>7. \A p \in Nat : \A c :
              In(h, p, c) /\ ~(fp[h].pos + k < p /\ Buffers(fp[h], p)) => Written(p, c)'
        BY <2>1, <2>5 DEF In, Written, s
    <2>8. \A p \in Nat : \A c : (fp[h].open => p <= fp[h].pos) /\ Written(p, c) => Written(p, c)'
        BY <1>4, <2>1, <2>4 DEF Written, s
    <2>9. bin' # NoFile
        BY <1>1, <2>1, <2>3
    <2> QED
        BY <1>2, <2>6, <2>7, <2>8, <2>9
<1>5. CASE ~s.open
    <2>1. bin' = bin
        BY <1>5
    <2>2. s = Store!Closed
        BY <1>5 DEF StreamsClosed
    <2>3. Store!TypeOK(Cells)' /\ StreamsClosed'
        BY Zenon, <1>1, <1>2, <1>3, <2>1 DEF Store!TypeOK, StreamsClosed, Streaming, Store!Closed
    <2>4. \A p \in Nat : ~Buffers(fp[h], p)
        BY <2>2 DEF Buffers, Store!Closed
    <2> QED
        BY <1>2, <2>1, <2>3, <2>4 DEF In, Flushing, Written
<1> QED
    BY <1>4, <1>5

\* A stream that is lost leaves the file as it is.
LEMMA LoseIs ==
    ASSUME Store!TypeOK(Cells), StreamsClosed, NEW h \in Handles, Store!Lose(h)
    PROVE  /\ Store!TypeOK(Cells)' /\ StreamsClosed'
           /\ bin' = bin /\ fp'[h] = Store!Closed
           /\ \A g \in Handles : g # h => fp'[g] = fp[g]
BY Zenon, StoreParts DEF Store!TypeOK, StreamsClosed, Streaming, Store!Closed, Store!Lose

------------------------------------------------------------------------------
(***************************************************************************)
(* What the queries return                                                 *)
(***************************************************************************)
\* The missing ids of a bundle: those without a row, each once, in the order
\* of their first places.
LEMMA MissingIs ==
    ASSUME NEW bs \in Seq(Blocks)
    PROVE  /\ Missing(bs) \in Seq(Blocks)
           /\ \A n \in DOMAIN Missing(bs) : \E i \in DOMAIN bs : FirstAt(bs, Missing(bs)[n], i)
           /\ \A m, n \in DOMAIN Missing(bs) : m < n =>
                 \A i, j \in DOMAIN bs :
                     FirstAt(bs, Missing(bs)[m], i) /\ FirstAt(bs, Missing(bs)[n], j) => i < j
           /\ \A b \in Ids(Missing(bs)) : cblocks[b] = NoOffset
           /\ \A b \in Ids(bs) : cblocks[b] # NoOffset \/ b \in Ids(Missing(bs))
<1> DEFINE first == {i \in DOMAIN bs : /\ cblocks[bs[i]] = NoOffset
                                       /\ \A j \in 1..(i - 1) : bs[j] # bs[i]}
           at == Ascending(first)
           N == Cardinality(first)
<1>1. first \in SUBSET Nat /\ IsFiniteSet(first)
    <2>1. DOMAIN bs = 1..Len(bs) /\ IsFiniteSet(1..Len(bs))
        BY FS_Interval
    <2> QED
        BY <2>1, FS_Subset
<1>2. /\ N \in Nat /\ at \in [1..N -> first] /\ Increasing(at, N)
      /\ \A x \in first : \E i \in 1..N : at[i] = x
    <2> HIDE DEF first
    <2> QED
        BY <1>1, AscendingLists
<1>3. DOMAIN at = 1..N
    BY <1>2
<1>4. Missing(bs) = [n \in 1..N |-> bs[at[n]]]
    BY <1>3 DEF Missing
<1> HIDE DEF at, N
<1>5. \A n \in 1..N : at[n] \in first /\ at[n] \in DOMAIN bs /\ bs[at[n]] \in Blocks
    BY <1>2
<1>6. \A n \in 1..N : FirstAt(bs, bs[at[n]], at[n]) /\ cblocks[bs[at[n]]] = NoOffset
    BY <1>5 DEF FirstAt
<1> DEFINE M == Missing(bs)
<1>7. M \in Seq(Blocks) /\ DOMAIN M = 1..N /\ \A n \in 1..N : M[n] = bs[at[n]]
    <2>1. M \in [1..N -> Blocks]
        BY <1>4, <1>5
    <2> QED
        BY <1>2, <1>4, <2>1
<1>8. \A b, i, j : FirstAt(bs, b, i) /\ FirstAt(bs, b, j) => i = j
    <2> SUFFICES ASSUME NEW b, NEW i, NEW j, FirstAt(bs, b, i), FirstAt(bs, b, j), i # j
                 PROVE  FALSE
        OBVIOUS
    <2>1. i \in Nat /\ j \in Nat /\ i >= 1 /\ j >= 1
        BY DEF FirstAt
    <2>2. i \in 1..(j - 1) \/ j \in 1..(i - 1)
        BY <2>1
    <2> QED
        BY <2>2 DEF FirstAt
<1>9. ASSUME NEW m \in 1..N, NEW n \in 1..N, m < n, NEW i \in DOMAIN bs, NEW j \in DOMAIN bs,
             FirstAt(bs, M[m], i), FirstAt(bs, M[n], j)
      PROVE  i < j
    <2>1. i = at[m] /\ j = at[n]
        BY <1>6, <1>7, <1>8, <1>9
    <2> QED
        BY <1>2, <1>9, <2>1 DEF Increasing
<1>10. ASSUME NEW b \in Ids(bs), cblocks[b] = NoOffset PROVE b \in Ids(M)
    <2> DEFINE T == {i \in DOMAIN bs : bs[i] = b}
    <2>1. T \in SUBSET Nat /\ T # {}
        BY DEF Ids
    <2>2. PICK i \in T : \A j \in T : i <= j
        BY Zenon, <2>1, LeastNat
    <2>3. i \in DOMAIN bs /\ bs[i] = b /\ \A j \in 1..(i - 1) : j \in DOMAIN bs /\ j < i
        BY <2>2
    <2>4. i \in first
        BY <1>10, <2>2, <2>3
    <2>5. PICK n \in 1..N : at[n] = i
        BY <1>2, <2>4
    <2> QED
        BY <1>7, <2>3, <2>5 DEF Ids
<1> HIDE DEF M, first
<1> QED
    BY <1>5, <1>6, <1>7, <1>9, <1>10 DEF M, Ids

\* The query of list() returns ranges of bytes.
LEMMA RangesType ==
    ASSUME Index!TypeOK, NEW ids \in Seq(Blocks)
    PROVE  Query!Ranges(cblocks, ids) \in Seq(Span)
<1>1. Listing!Query(cblocks, ids, Blocks)
    BY Constants DEF Listing!Query, Index!TypeOK, Index!Tables
<1>2. Listing!Ranges(cblocks, ids) \in Seq(Listing!RangeSet)
    <2> DEFINE F == [i \in Nat |-> 0]
    <2>1. F \in [Nat -> {0}]
        OBVIOUS
    <2> HIDE DEF F
    <2> QED
        BY Zenon, <1>1, <2>1, Listing!PiecesType
<1>3. Query!Ranges(cblocks, ids) = Listing!Ranges(cblocks, ids)
    BY DEF Query!Ranges, Listing!Ranges, Query!GroupOf, Listing!GroupOf,
           Query!Reached, Listing!Reached, Query!OffStart, Listing!OffStart,
           Query!OffEnd, Listing!OffEnd, Query!Max, Listing!Max, Query!Min, Listing!Min,
           Query!Ascending, Listing!Ascending, Query!Cardinality, Listing!Cardinality
<1> DEFINE R == Listing!Ranges(cblocks, ids)
<1> HIDE DEF R
<1>4. \A S, T : S \subseteq T => \A x \in Seq(S) : x \in Seq(T)
    OBVIOUS
<1>5. Listing!RangeSet \subseteq Span
    BY DEF Listing!RangeSet, Span
<1> QED
    BY <1>2, <1>3, <1>4, <1>5 DEF R

------------------------------------------------------------------------------
(***************************************************************************)
(* Types                                                                   *)
(***************************************************************************)
LEMMA IdleType ==
    ASSUME NEW p \in Pcs, NEW r \in Revs \cup {NoRev}, NEW t \in BOOLEAN
    PROVE  /\ Idle \in Jobs
           /\ [Idle EXCEPT !.pc = p] \in Jobs
           /\ [Idle EXCEPT !.pc = p, !.throwing = t, !.rev = r] \in Jobs
           /\ \A input \in Seq(Seq(Blocks)) :
                 [Idle EXCEPT !.pc = p, !.rev = r, !.input = input] \in Jobs
           /\ \A spans \in Seq(Span) :
                 [Idle EXCEPT !.pc = p, !.rev = r, !.segments = spans] \in Jobs
<1>1. \A S : << >> \in Seq(S)
    OBVIOUS
<1>2. "idle" \in Pcs /\ 1 \in Nat /\ FALSE \in BOOLEAN /\ NoRev \in Revs \cup {NoRev}
    BY DEF Pcs
<1> QED
    BY Zenon, <1>1, <1>2 DEF Idle, Jobs, File

LEMMA TailType ==
    ASSUME NEW S, NEW s \in Seq(S), s # << >>
    PROVE  Head(s) \in S /\ Tail(s) \in Seq(S)
OBVIOUS

LEMMA PcsAre ==
    ASSUME NEW p \in {"idle", "thrown", "consume", "assign", "begin", "emit", "feed",
                      "close", "finish", "open", "copy", "flush"}
    PROVE  p \in Pcs
BY DEF Pcs, CommitPcs, CheckoutPcs

\* A call that moves on keeps its type, whichever of its fields it changes.
LEMMA JobType ==
    ASSUME NEW j \in Jobs, NEW p \in Pcs
    PROVE  /\ [j EXCEPT !.pc = p] \in Jobs
           /\ \A b \in Seq(Blocks), i \in Seq(Seq(Blocks)) :
                 [j EXCEPT !.pc = p, !.bs = b, !.input = i] \in Jobs
           /\ \A n \in Nat, m \in Seq(Blocks) :
                 [j EXCEPT !.pc = p, !.it = n, !.missing = m] \in Jobs
           /\ \A n \in Nat : [j EXCEPT !.pc = p, !.it = n] \in Jobs
           /\ \A m \in Seq(Blocks) : [j EXCEPT !.pc = p, !.missing = m] \in Jobs
           /\ \A b \in Seq(Blocks), m \in Seq(Blocks) :
                 [j EXCEPT !.pc = p, !.bs = b, !.missing = m] \in Jobs
           /\ \A s \in Seq(Span), o \in File : [j EXCEPT !.segments = s, !.out = o] \in Jobs
BY Zenon DEF Jobs

LEMMA RangeBytes ==
    ASSUME Types, NEW h \in Handles, NEW r \in Span,
           Store!Readable(r.first, r.last - r.first)
    PROVE  /\ Store!BytesAt(r.first, r.last - r.first) \in File
           /\ Len(Store!BytesAt(r.first, r.last - r.first)) = r.last - r.first
<1> DEFINE a == r.first
           n == r.last - r.first
<1>1. a \in Nat /\ n \in Nat
    BY DEF Span
<1>2. bin \in Seq(Cells \cup {Hole}) /\ a + n <= Len(bin) /\ Len(bin) \in Nat
    BY DEF Types, TypeOK, Store!TypeOK, Store!Readable
<1> DEFINE S == Cells \cup {Hole}
<1> HIDE DEF a, n, S
<1>3. bin \in Seq(S) /\ a + 1 \in Nat /\ a + n \in Nat
    BY <1>1, <1>2 DEF S
<1>4. SubSeq(bin, a + 1, a + n) \in Seq(S) /\ Len(SubSeq(bin, a + 1, a + n)) = n
    <2>1. CASE n = 0
        <3>1. SubSeq(bin, a + 1, a + n) = << >>
            BY <1>1, <1>3, <2>1
        <3>2. << >> \in Seq(S) /\ Len(<< >>) = 0
            OBVIOUS
        <3> QED
            BY <2>1, <3>1, <3>2, Zenon
    <2>2. CASE n # 0
        BY <1>1, <1>2, <1>3, <2>2, SubSeqProperties
    <2> QED
        BY <2>1, <2>2
<1> QED
    BY <1>4 DEF Store!BytesAt, File, a, n, S

LEMMA JobTypes ==
    ASSUME Types, Calls, Next
    PROVE  job' \in [Handles -> Jobs]
<1>1. PICK h \in Handles : Start(h) \/ Step(h) \/ Keep(h) \/ Crash(h)
    BY DEF Next
<1>2. job \in [Handles -> Jobs] /\ job[h] \in Jobs
    BY DEF Types
<1>3. \A j \in Jobs : [job EXCEPT ![h] = j] \in [Handles -> Jobs]
    BY <1>2
<1> DEFINE j0 == job[h]
<1>4. /\ j0.rev \in Revs \cup {NoRev} /\ j0.bs \in Seq(Blocks) /\ j0.missing \in Seq(Blocks)
      /\ j0.input \in Seq(Seq(Blocks)) /\ j0.segments \in Seq(Span) /\ j0.out \in File
      /\ j0.it \in Nat
    BY <1>2 DEF Jobs
<1>5. \A p \in Pcs : Goto(h, p) => job' \in [Handles -> Jobs]
    <2> SUFFICES ASSUME NEW p \in Pcs, Goto(h, p) PROVE job' \in [Handles -> Jobs]
        OBVIOUS
    <2>1. job' = [job EXCEPT ![h] = [j0 EXCEPT !.pc = p]]
        BY DEF Goto
    <2> QED
        BY Zenon, <1>2, <1>3, <2>1, JobType
<1>6. Throw(h) \/ Thrown(h) \/ job' = [job EXCEPT ![h] = Idle] => job' \in [Handles -> Jobs]
    <2>1. "close" \in Pcs /\ "thrown" \in Pcs /\ TRUE \in BOOLEAN
        BY PcsAre
    <2>2. [Idle EXCEPT !.pc = "thrown"] \in Jobs /\ Idle \in Jobs
        BY Zenon, <2>1, IdleType
    <2>3. [Idle EXCEPT !.pc = "close", !.throwing = TRUE, !.rev = j0.rev] \in Jobs
        BY Zenon, <1>4, <2>1, IdleType
    <2> QED
        BY <1>3, <2>2, <2>3 DEF Throw, Thrown
<1>7. CASE Start(h)
    <2>1. ASSUME NEW r \in Revs, NEW input \in Inputs, NewRevision(h, r, input)
          PROVE  job' \in [Handles -> Jobs]
        <3>1. "consume" \in Pcs /\ input \in Seq(Seq(Blocks))
            BY PcsAre, InputsAssumption
        <3>2. [Idle EXCEPT !.pc = "consume", !.rev = r, !.input = input] \in Jobs
            BY Zenon, <3>1, IdleType
        <3> QED
            BY <1>3, <2>1, <3>2 DEF NewRevision
    <2>2. ASSUME NEW r \in Revs, List(h, r)
          PROVE  job' \in [Handles -> Jobs]
        <3> DEFINE rows == newfile[h] \o manifest[r].ids
                   spans == Query!Ranges(cblocks, rows)
        <3>1. newfile[h] \in Seq(Blocks) /\ manifest[r].ids \in Seq(Blocks) /\ Index!TypeOK
            BY DEF Types, TypeOK
        <3>2. rows \in Seq(Blocks)
            <4> DEFINE x == newfile[h]
                       y == manifest[r].ids
            <4>1. x \in Seq(Blocks) /\ y \in Seq(Blocks)
                BY <3>1
            <4> HIDE DEF x, y
            <4>2. x \o y \in Seq(Blocks)
                BY <4>1, ConcatProperties
            <4> QED
                BY <4>2 DEF x, y
        <3> HIDE DEF rows
        <3>3. spans \in Seq(Span) /\ "open" \in Pcs
            BY <3>1, <3>2, RangesType, PcsAre
        <3> HIDE DEF spans
        <3>4. [Idle EXCEPT !.pc = "open", !.rev = r, !.segments = spans] \in Jobs
            BY Zenon, <3>3, IdleType
        <3> QED
            BY <1>3, <2>2, <3>4 DEF List, rows, spans
    <2> QED
        BY <1>6, <1>7, <2>1, <2>2 DEF Start, NewRevisionFails, ListUnparsable, ListRefused
<1>8. CASE Consume(h)
    <2>1. CASE j0.input = << >>
        BY <1>5, <1>8, <2>1, PcsAre DEF Consume
    <2>2. CASE j0.input # << >>
        <3> DEFINE b == Head(j0.input)
                   i == Tail(j0.input)
        <3>1. b \in Seq(Blocks) /\ i \in Seq(Seq(Blocks)) /\ "assign" \in Pcs
            BY <1>4, <2>2, TailType, PcsAre
        <3>2. [j0 EXCEPT !.pc = "assign", !.bs = b, !.input = i] \in Jobs
            BY Zenon, <1>2, <3>1, JobType
        <3>3. job' = [job EXCEPT ![h] = [j0 EXCEPT !.pc = "assign", !.bs = b, !.input = i]]
            BY Zenon, <1>2, <1>8, <2>2 DEF Consume
        <3> QED
            BY <1>3, <3>2, <3>3
    <2> QED
        BY <2>1, <2>2
<1>9. CASE AssignBlocks(h)
    <2> DEFINE m == Missing(j0.bs)
    <2>1. m \in Seq(Blocks) /\ "begin" \in Pcs /\ 1 \in Nat
        BY <1>4, MissingIs, PcsAre
    <2> HIDE DEF m
    <2>2. [j0 EXCEPT !.pc = "begin", !.it = 1, !.missing = m] \in Jobs
        BY Zenon, <1>2, <2>1, JobType
    <2>3. job' = [job EXCEPT ![h] = [j0 EXCEPT !.pc = "begin", !.it = 1, !.missing = m]]
        BY Zenon, <1>2, <1>9 DEF AssignBlocks, m
    <2> QED
        BY <1>3, <2>2, <2>3
<1>10. CASE Emit(h)
    <2> DEFINE i == Min(Found(h))
    <2>1. i \in Nat
        <3>1. Found(h) \in SUBSET Nat /\ Found(h) # {}
            BY <1>4, <1>10 DEF Emit, Found
        <3>2. \E n \in Found(h) : \A m \in Found(h) : n <= m
            BY <3>1, LeastNat
        <3> QED
            BY <3>1, <3>2 DEF Min
    <2>2. job' = [job EXCEPT ![h] = [j0 EXCEPT !.pc = "feed", !.it = i]] /\ "feed" \in Pcs
        BY Zenon, <1>10, PcsAre DEF Emit
    <2> HIDE DEF i
    <2>3. [j0 EXCEPT !.pc = "feed", !.it = i] \in Jobs
        BY Zenon, <1>2, <2>1, <2>2, JobType
    <2> QED
        BY <1>3, <2>2, <2>3
<1>11. CASE Feed(h)
    <2> DEFINE m == Tail(j0.missing)
    <2>1. m \in Seq(Blocks) /\ "emit" \in Pcs
        BY <1>4, <1>11, TailType, PcsAre DEF Calls, Call, Feed
    <2> HIDE DEF m
    <2>2. [j0 EXCEPT !.pc = "emit", !.missing = m] \in Jobs
        BY Zenon, <1>2, <2>1, JobType
    <2>3. job' = [job EXCEPT ![h] = [j0 EXCEPT !.pc = "emit", !.missing = m]]
        BY Zenon, <1>2, <1>11 DEF Feed, m
    <2> QED
        BY <1>3, <2>2, <2>3
<1>12. CASE MergeCommit(h)
    <2>1. << >> \in Seq(Blocks) /\ "consume" \in Pcs
        BY PcsAre
    <2>2. [j0 EXCEPT !.pc = "consume", !.bs = << >>, !.missing = << >>] \in Jobs
        BY Zenon, <1>2, <2>1, JobType
    <2> QED
        BY <1>2, <1>3, <1>12, <2>2 DEF MergeCommit
<1>13. CASE CopyRange(h)
    <2> DEFINE s == Tail(j0.segments)
               r == Head(j0.segments)
               bytes == Store!BytesAt(r.first, r.last - r.first)
               o == j0.out \o bytes
    <2>1. s \in Seq(Span) /\ r \in Span
        <3>1. j0.segments \in Seq(Span) /\ j0.segments # << >>
            BY <1>4, <1>13 DEF CopyRange
        <3> QED
            BY Zenon, <3>1, TailType
    <2>2. bytes \in File
        BY <1>13, <2>1, RangeBytes DEF CopyRange, RangeSize, FirstRange
    <2>3. o \in File
        <3> DEFINE x == j0.out
        <3>1. x \in File
            BY <1>4
        <3> HIDE DEF x, bytes
        <3>2. x \o bytes \in File
            BY <2>2, <3>1, ConcatProperties DEF File
        <3> QED
            BY <3>2 DEF x
    <2>4. job' = [job EXCEPT ![h] = [j0 EXCEPT !.segments = s, !.out = o]]
        BY Zenon, <1>2, <1>13 DEF CopyRange, RangeSize, FirstRange
    <2> HIDE DEF s, o
    <2>5. [j0 EXCEPT !.segments = s, !.out = o] \in Jobs
        BY Zenon, <1>2, <2>1, <2>3, JobType, PcsAre
    <2> QED
        BY <1>3, <2>4, <2>5
<1>14. CASE \/ ConsumeFails(h) \/ AssignFails(h) \/ EmitFails(h) \/ FeedFails(h)
            \/ CloseRevision(h) \/ CopyFails(h) \/ Flush(h) \/ Discard(h) \/ Keep(h) \/ Crash(h)
    BY <1>6, <1>14 DEF ConsumeFails, AssignFails, EmitFails, FeedFails, CloseRevision,
                       CopyFails, Flush, Discard, Keep, Crash
<1>15. CASE MergeBegin(h) \/ CloseStore(h) \/ OpenBin(h) \/ EndCopy(h)
    BY <1>5, <1>6, <1>15, PcsAre DEF MergeBegin, CloseStore, OpenBin, EndCopy
<1> QED
    BY <1>1, <1>7, <1>8, <1>9, <1>10, <1>11, <1>12, <1>13, <1>14, <1>15 DEF Step

\* What the stream of h takes from merge(), or loses at its end.
LEMMA OffsetType ==
    ASSUME Index!TypeOK, NEW h \in Handles
    PROVE  offset[h] \in Nat
BY DEF Index!TypeOK

LEMMA FoundIs ==
    ASSUME Types, NEW h \in Handles, Found(h) # {}
    PROVE  /\ Min(Found(h)) \in DOMAIN job[h].bs /\ job[h].it <= Min(Found(h))
           /\ job[h].missing # << >> /\ Head(job[h].missing) \in Blocks
           /\ job[h].bs[Min(Found(h))] = Head(job[h].missing)
           /\ \A i \in DOMAIN job[h].bs :
                 job[h].it <= i /\ job[h].bs[i] = Head(job[h].missing) => Min(Found(h)) <= i
<1>1. job[h].bs \in Seq(Blocks) /\ job[h].missing \in Seq(Blocks) /\ job[h].it \in Nat
    BY DEF Types, Jobs
<1>2. Found(h) \in SUBSET Nat
    BY <1>1 DEF Found
<1>3. \E n \in Found(h) : \A m \in Found(h) : n <= m
    BY <1>2, LeastNat
<1> DEFINE i == Min(Found(h))
<1>4. i \in Found(h) /\ \A m \in Found(h) : i <= m
    BY <1>3 DEF Min
<1> HIDE DEF i
<1>5. job[h].missing # << >> /\ Head(job[h].missing) \in Blocks
    BY <1>1, <1>4, TailType DEF Found
<1>6. i \in DOMAIN job[h].bs /\ job[h].it <= i /\ job[h].bs[i] = Head(job[h].missing)
    BY <1>1, <1>4 DEF Found
<1>7. ASSUME NEW n \in DOMAIN job[h].bs, job[h].it <= n, job[h].bs[n] = Head(job[h].missing)
      PROVE  i <= n
    BY <1>1, <1>4, <1>5, <1>7 DEF Found
<1> QED
    BY <1>5, <1>6, <1>7 DEF i

\* An emit that fails may have written a part of the block.
LEMMA EmitFailsIs ==
    ASSUME Types, NEW h \in Handles, EmitFails(h)
    PROVE  Store!OpenFails(h) \/ \E x \in Seq(Cells) : Store!Accept(h, offset[h], x)
<1> DEFINE b == Head(job[h].missing)
<1>1. CASE Store!AcceptShort(h, offset[h], Data(b))
    <2>1. b \in Blocks
        BY FoundIs DEF EmitFails
    <2> HIDE DEF b
    <2>2. Data(b) \in Seq(Cells)
        BY <2>1, DataType
    <2>3. PICK n \in 0..(Len(Data(b)) - 1) : Store!Accept(h, offset[h], SubSeq(Data(b), 1, n))
        BY <1>1 DEF Store!AcceptShort
    <2> DEFINE d == Data(b)
               x == SubSeq(d, 1, n)
    <2>4. x \in Seq(Cells)
        <3> HIDE DEF d
        <3>1. d \in Seq(Cells) /\ n \in 0..(Len(d) - 1)
            BY <2>2, <2>3 DEF d
        <3> QED
            BY <3>1
    <2>5. Store!Accept(h, offset[h], x)
        BY <2>3
    <2> HIDE DEF x
    <2> QED
        BY <2>4, <2>5
<1> QED
    BY <1>1 DEF EmitFails

\* The stream is closed in full, or in part, when bytes of the blocks behind
\* that part are lost.
LEMMA CloseStoreIs ==
    ASSUME Store!TypeOK(Cells), StreamsClosed, NEW h \in Handles, CloseStore(h)
    PROVE  \E k \in 0..Len(fp[h].buf) :
              /\ bin' = IF fp[h].open THEN Store!Flushed(bin, fp[h], k) ELSE bin
              /\ fp' = [fp EXCEPT ![h] = Store!Closed]
              /\ \/ k = Len(fp[h].buf) /\ lost' = lost
                 \/ lost' = lost \cup BlocksIn(SubSeq(fp[h].buf, k + 1, Len(fp[h].buf)))
<1>1. Len(fp[h].buf) \in Nat
    BY StoreParts DEF Streaming
<1>2. CASE Store!Close(h) /\ UNCHANGED lost
    BY <1>1, <1>2 DEF Store!Close
<1>3. ASSUME NEW k \in 0..Len(fp[h].buf), Store!CloseFails(h, k)
      PROVE  /\ bin' = IF fp[h].open THEN Store!Flushed(bin, fp[h], k) ELSE bin
             /\ fp' = [fp EXCEPT ![h] = Store!Closed]
    <2>1. k < Len(fp[h].buf)
        BY <1>3 DEF Store!CloseFails
    <2>2. ~fp[h].open => Len(fp[h].buf) = 0
        BY DEF StreamsClosed, Store!Closed
    <2>3. fp[h].open
        BY <1>1, <2>1, <2>2
    <2> QED
        BY <1>3, <2>3 DEF Store!CloseFails
<1> QED
    BY <1>2, <1>3 DEF CloseStore

LEMMA FileTypes ==
    ASSUME Types, Calls, StreamsClosed, Next
    PROVE  Store!TypeOK(Cells)' /\ StreamsClosed'
<1>1. PICK h \in Handles : Start(h) \/ Step(h) \/ Keep(h) \/ Crash(h)
    BY DEF Next
<1>2. Store!TypeOK(Cells) /\ Index!TypeOK
    BY DEF Types, TypeOK
<1>3. offset[h] \in Nat
    BY <1>2, OffsetType
<1>4. UNCHANGED storeVars => Store!TypeOK(Cells)' /\ StreamsClosed'
    BY <1>2 DEF storeVars, Store!TypeOK, StreamsClosed
<1>5. CASE Emit(h)
    <2> DEFINE b == job[h].bs[Min(Found(h))]
    <2>1. b \in Blocks
        BY <1>5, FoundIs DEF Emit
    <2>2. Store!Accept(h, offset[h], Data(b))
        BY <1>5 DEF Emit
    <2> HIDE DEF b
    <2> QED
        BY <1>2, <1>3, <2>1, <2>2, DataType, AcceptIs
<1>6. CASE EmitFails(h)
    <2>1. CASE Store!OpenFails(h)
        BY <1>4, <2>1 DEF Store!OpenFails, storeVars
    <2>2. ASSUME NEW x \in Seq(Cells), Store!Accept(h, offset[h], x)
          PROVE  Store!TypeOK(Cells)' /\ StreamsClosed'
        BY <1>2, <1>3, <2>2, AcceptIs
    <2> QED
        BY <1>6, <2>1, <2>2, EmitFailsIs
<1>7. CASE CloseStore(h)
    <2>1. PICK k \in 0..Len(fp[h].buf) :
              /\ bin' = IF fp[h].open THEN Store!Flushed(bin, fp[h], k) ELSE bin
              /\ fp' = [fp EXCEPT ![h] = Store!Closed]
        BY <1>2, <1>7, CloseStoreIs
    <2> QED
        BY Zenon, <1>2, <2>1, CloseIs
<1>8. CASE Crash(h)
    BY <1>2, <1>8, LoseIs DEF Crash
<1> QED
    BY Zenon, <1>1, <1>4, <1>5, <1>6, <1>7, <1>8
    DEF Start, NewRevision, NewRevisionFails, List, ListUnparsable, ListRefused,
        Step, Consume, ConsumeFails, AssignBlocks, AssignFails, MergeBegin, Feed,
        FeedFails, MergeCommit, CloseRevision, OpenBin, CopyRange, CopyFails,
        EndCopy, Flush, Discard, Keep

Manifests == [state : {"absent", "open", "closed"}, ids : Seq(Blocks)]
Outcomes  == {"none", "running", "ok", "failed", "dead"}

LEMMA JoinType ==
    ASSUME NEW S, NEW x \in Seq(S), NEW y \in Seq(S)
    PROVE  x \o y \in Seq(S)
BY ConcatProperties

LEMMA ManifestTypes ==
    ASSUME Types, Calls, Next
    PROVE  manifest' \in [Revs -> Manifests]
<1>1. PICK h \in Handles : Start(h) \/ Step(h) \/ Keep(h) \/ Crash(h)
    BY DEF Next
<1>2. manifest \in [Revs -> Manifests]
    BY DEF Types, TypeOK, Manifests
<1>3. \A r \in Revs : manifest[r] \in Manifests
    BY <1>2
<1>4. ASSUME NEW r \in Revs, NEW st \in {"absent", "open", "closed"},
             manifest' = [manifest EXCEPT ![r].state = st]
      PROVE  manifest' \in [Revs -> Manifests]
    <2>1. [manifest[r] EXCEPT !.state = st] \in Manifests
        BY <1>3 DEF Manifests
    <2> QED
        BY <1>2, <1>4, <2>1
<1>5. ASSUME manifest' = [manifest EXCEPT ![job[h].rev].ids = @ \o job[h].bs],
             job[h].rev \in Revs
      PROVE  manifest' \in [Revs -> Manifests]
    <2> DEFINE r == job[h].rev
               y == manifest[r].ids \o job[h].bs
    <2>1. job[h].bs \in Seq(Blocks) /\ manifest[r].ids \in Seq(Blocks)
        BY <1>3, <1>5 DEF Types, Jobs, Manifests
    <2>2. y \in Seq(Blocks)
        BY <2>1, JoinType
    <2>3. manifest' = [manifest EXCEPT ![r].ids = y]
        BY <1>5
    <2> HIDE DEF y
    <2>4. [manifest[r] EXCEPT !.ids = y] \in Manifests
        BY <1>3, <1>5, <2>2 DEF Manifests
    <2> QED
        BY <1>2, <1>5, <2>3, <2>4
<1>6. Committing(h) => job[h].rev \in Revs
    BY DEF Calls, Call, Committing
<1>7. CASE UNCHANGED manifest
    BY <1>2, <1>7
<1>8. CASE Start(h)
    BY Zenon, <1>4, <1>7, <1>8
    DEF Start, NewRevision, NewRevisionFails, List, ListUnparsable, ListRefused
<1>9. CASE AssignBlocks(h) \/ AssignFails(h)
    BY <1>5, <1>6, <1>9 DEF AssignBlocks, AssignFails, At, Committing, CommitPcs
<1>10. CASE CloseRevision(h)
    BY <1>4, <1>6, <1>7, <1>10 DEF CloseRevision, At, Committing, CommitPcs
<1> QED
    BY Zenon, <1>1, <1>7, <1>8, <1>9, <1>10
    DEF Step, Consume, ConsumeFails, MergeBegin, Emit, EmitFails, Feed,
        FeedFails, MergeCommit, CloseStore, OpenBin, CopyRange, CopyFails,
        EndCopy, Flush, Discard, Keep, Crash

LEMMA OtherTypes ==
    ASSUME Types, Calls, Next
    PROVE  /\ newfile' \in [Handles -> Seq(Blocks)]
           /\ content' \in [Revs -> Seq(Blocks)]
           /\ outcome' \in [Revs -> Outcomes]
           /\ lost' \subseteq Blocks
<1>1. PICK h \in Handles : Start(h) \/ Step(h) \/ Keep(h) \/ Crash(h)
    BY DEF Next
<1>2. /\ newfile \in [Handles -> Seq(Blocks)]
      /\ content \in [Revs -> Seq(Blocks)]
      /\ outcome \in [Revs -> Outcomes]
      /\ lost \subseteq Blocks
      /\ \A r \in Revs : manifest[r].ids \in Seq(Blocks)
    BY DEF Types, TypeOK, Outcomes
<1>3. job[h] \in Jobs /\ job[h].input \in Seq(Seq(Blocks))
    BY DEF Types, Jobs
<1>4. newfile' \in [Handles -> Seq(Blocks)]
    <2>1. \A r \in Revs : newfile[h] \o manifest[r].ids \in Seq(Blocks)
        BY <1>2, JoinType
    <2>2. \A s \in Seq(Blocks) : [newfile EXCEPT ![h] = s] \in [Handles -> Seq(Blocks)]
        BY <1>2
    <2>3. << >> \in Seq(Blocks)
        OBVIOUS
    <2>4. ASSUME NEW r \in Revs, List(h, r) PROVE newfile' \in [Handles -> Seq(Blocks)]
        BY <2>1, <2>2, <2>4 DEF List
    <2>5. CASE UNCHANGED newfile \/ newfile' = [newfile EXCEPT ![h] = << >>]
        BY Zenon, <1>2, <2>2, <2>3, <2>5
    <2> QED
        BY Zenon, <1>1, <2>4, <2>5
        DEF Start, NewRevision, NewRevisionFails, ListUnparsable, ListRefused,
            Step, Consume, ConsumeFails, AssignBlocks, AssignFails, MergeBegin, Emit,
            EmitFails, Feed, FeedFails, MergeCommit, CloseStore, CloseRevision, OpenBin,
            CopyRange, CopyFails, EndCopy, Flush, Discard, Keep, Crash
<1>5. content' \in [Revs -> Seq(Blocks)]
    <2>1. CASE Consume(h) /\ job[h].input # << >>
        <3> DEFINE r == job[h].rev
                   b == Head(job[h].input)
                   y == content[r] \o b
        <3>1. r \in Revs
            BY <2>1 DEF Calls, Call, Consume, At, CommitPcs
        <3>2. b \in Seq(Blocks) /\ content[r] \in Seq(Blocks)
            BY <1>2, <1>3, <2>1, <3>1, TailType
        <3>3. y \in Seq(Blocks)
            BY <3>2, JoinType
        <3>4. content' = [content EXCEPT ![r] = y]
            BY Zenon, <2>1 DEF Consume
        <3> HIDE DEF y
        <3> QED
            BY Zenon, <1>2, <3>3, <3>4
    <2>2. CASE UNCHANGED content
        BY <1>2, <2>2
    <2> QED
        BY Zenon, <1>1, <2>1, <2>2
        DEF history, Start, NewRevision, NewRevisionFails, List, ListUnparsable, ListRefused,
            Step, Consume, ConsumeFails, AssignBlocks, AssignFails, MergeBegin, Emit,
            EmitFails, Feed, FeedFails, MergeCommit, CloseStore, CloseRevision, OpenBin,
            CopyRange, CopyFails, EndCopy, Flush, Discard, Keep, Crash
<1>6. outcome' \in [Revs -> Outcomes]
    <2>1. \A r, o : o \in Outcomes => [outcome EXCEPT ![r] = o] \in [Revs -> Outcomes]
        BY Zenon, <1>2
    <2>2. {"running", "ok", "failed", "dead"} \subseteq Outcomes
        BY DEF Outcomes
    <2>3. CASE UNCHANGED outcome
        BY <1>2, <2>3
    <2>4. CASE Start(h)
        <3>1. ASSUME NEW r \in Revs, NEW input \in Inputs, NewRevision(h, r, input)
              PROVE  outcome' = [outcome EXCEPT ![r] = "running"]
            BY <3>1 DEF NewRevision
        <3>2. ASSUME NEW r \in Revs, NewRevisionFails(h, r)
              PROVE  outcome' = [outcome EXCEPT ![r] = "failed"]
            BY <3>2 DEF NewRevisionFails
        <3>3. ASSUME NEW r \in Revs, List(h, r) \/ ListUnparsable(h, r) \/ ListRefused(h, r)
              PROVE  UNCHANGED outcome
            BY Zenon, <3>3 DEF history, List, ListUnparsable, ListRefused
        <3> QED
            BY <2>1, <2>2, <2>3, <2>4, <3>1, <3>2, <3>3 DEF Start
    <2>5. CASE CloseRevision(h) \/ Crash(h)
        BY <2>1, <2>2, <2>3, <2>5 DEF CloseRevision, Crash
    <2> QED
        BY Zenon, <1>1, <2>3, <2>4, <2>5
        DEF history, Step, Consume, ConsumeFails, AssignBlocks, AssignFails, MergeBegin, Emit,
            EmitFails, Feed, FeedFails, MergeCommit, CloseStore, OpenBin,
            CopyRange, CopyFails, EndCopy, Flush, Discard, Keep
<1>7. lost' \subseteq Blocks
    <2>1. fp[h].buf \in Seq(Cells) /\ \A c \in Cells : c[1] \in Blocks
        BY DEF Types, TypeOK, Store!TypeOK, Cells
    <2>2. BlocksIn(fp[h].buf) \subseteq Blocks
        BY <2>1 DEF BlocksIn
    <2>3. \A k \in Nat : BlocksIn(SubSeq(fp[h].buf, k + 1, Len(fp[h].buf))) \subseteq Blocks
        <3> SUFFICES ASSUME NEW k \in Nat
                     PROVE  BlocksIn(SubSeq(fp[h].buf, k + 1, Len(fp[h].buf))) \subseteq Blocks
            OBVIOUS
        <3> DEFINE x == fp[h].buf
                   y == SubSeq(x, k + 1, Len(x))
        <3>1. x \in Seq(Cells)
            BY <2>1
        <3> HIDE DEF x
        <3>2. y \in Seq(Cells)
            BY <3>1
        <3> HIDE DEF y
        <3>3. BlocksIn(y) \subseteq Blocks
            BY <2>1, <3>2 DEF BlocksIn
        <3> QED
            BY <3>3 DEF x, y
    <2>4. CASE CloseStore(h)
        <3>1. Len(fp[h].buf) \in Nat
            BY <2>1
        <3> QED
            BY <1>2, <2>3, <2>4, <3>1 DEF CloseStore
    <2>5. CASE Crash(h)
        BY <1>2, <2>2, <2>5 DEF Crash
    <2>6. CASE lost' \subseteq lost
        BY <1>2, <2>6
    <2> QED
        BY Zenon, <1>1, <2>4, <2>5, <2>6
        DEF history, Start, NewRevision, NewRevisionFails, List, ListUnparsable, ListRefused,
            Step, Consume, ConsumeFails, AssignBlocks, AssignFails, MergeBegin, Emit,
            EmitFails, Feed, FeedFails, MergeCommit, CloseRevision, OpenBin,
            CopyRange, CopyFails, EndCopy, Flush, Discard, Keep
<1> QED
    BY <1>4, <1>5, <1>6, <1>7

LEMMA TypesNext ==
    ASSUME Index!IInv, Types, Calls, StreamsClosed, Next
    PROVE  Types'
<1>1. Index!TypeOK'
    BY IndexKept DEF Index!IInv
<1>2. Store!TypeOK(Cells)'
    BY FileTypes
<1>3. manifest' \in [Revs -> Manifests]
    BY ManifestTypes
<1>4. job' \in [Handles -> Jobs]
    BY JobTypes
<1>5. /\ newfile' \in [Handles -> Seq(Blocks)]
      /\ content' \in [Revs -> Seq(Blocks)]
      /\ outcome' \in [Revs -> Outcomes]
      /\ lost' \subseteq Blocks
    BY OtherTypes
<1>6. \A h \in Handles :
          /\ job'[h].pc \in Pcs /\ job'[h].rev \in Revs \cup {NoRev}
          /\ job'[h].bs \in Seq(Blocks) /\ job'[h].missing \in Seq(Blocks)
          /\ job'[h].out \in File
    BY <1>4 DEF Jobs
<1> QED
    BY <1>1, <1>2, <1>3, <1>4, <1>5, <1>6 DEF Types, TypeOK, Manifests, Outcomes, Pcs, File

------------------------------------------------------------------------------
(***************************************************************************)
(* Who does what                                                           *)
(***************************************************************************)
\* A handle touches nothing of the others.
LEMMA Frame ==
    ASSUME Types, NEW h \in Handles, Start(h) \/ Step(h) \/ Keep(h) \/ Crash(h),
           NEW g \in Handles, g # h
    PROVE  /\ job'[g] = job[g] /\ fp'[g] = fp[g] /\ txn'[g] = txn[g]
           /\ view'[g] = view[g] /\ offset'[g] = offset[g]
<1>1. /\ job \in [Handles -> Jobs] /\ fp \in [Handles -> Streaming]
      /\ txn \in [Handles -> {"none", "begun", "reading", "writing"}]
      /\ view \in [Handles -> Index!Tables] /\ offset \in [Handles -> Nat]
    BY DEF Types, TypeOK, Store!TypeOK, Index!TypeOK, Streaming
<1>2. job'[g] = job[g]
    BY Zenon, <1>1
    DEF Start, NewRevision, NewRevisionFails, List, ListUnparsable, ListRefused,
        Step, Consume, ConsumeFails, AssignBlocks, AssignFails, MergeBegin, Emit,
        EmitFails, Feed, FeedFails, MergeCommit, CloseStore, CloseRevision, OpenBin,
        CopyRange, CopyFails, EndCopy, Flush, Discard, Keep, Crash,
        Throw, Thrown, Goto
<1>3. fp'[g] = fp[g]
    BY Zenon, <1>1
    DEF storeVars, Start, NewRevision, NewRevisionFails, List, ListUnparsable, ListRefused,
        Step, Consume, ConsumeFails, AssignBlocks, AssignFails, MergeBegin, Emit,
        EmitFails, Feed, FeedFails, MergeCommit, CloseStore, CloseRevision, OpenBin,
        CopyRange, CopyFails, EndCopy, Flush, Discard, Keep, Crash,
        Store!Accept, Store!AcceptShort, Store!OpenFails, Store!Close, Store!CloseFails,
        Store!Lose
<1>4. txn'[g] = txn[g] /\ view'[g] = view[g] /\ offset'[g] = offset[g]
    BY Zenon, <1>1
    DEF indexVars, Start, NewRevision, NewRevisionFails, List, ListUnparsable, ListRefused,
        Step, Consume, ConsumeFails, AssignBlocks, AssignFails, MergeBegin, Emit,
        EmitFails, Feed, FeedFails, MergeCommit, CloseStore, CloseRevision, OpenBin,
        CopyRange, CopyFails, EndCopy, Flush, Discard, Keep, Crash, Disconnect,
        Index!Begin, Index!BeginMerge, Index!Feed, Index!FeedBusy, Index!FeedConstraint,
        Index!vars, Index!Commit, Index!Rollback, Index!Close
<1> QED
    BY <1>2, <1>3, <1>4

\* What is left of a call after a step: all of it but where it stands.
Moved(j, k, p) == /\ k.pc = p /\ k.rev = j.rev /\ k.throwing = j.throwing
                  /\ k.segments = j.segments /\ k.out = j.out
\* and, of a commit, its bundle.
Unread(j, k) == k.input = j.input /\ k.bs = j.bs
Unmerged(j, k) == k.missing = j.missing /\ k.it = j.it

LEMMA MovesOn ==
    ASSUME Types, NEW h \in Handles
    PROVE  /\ \A p : Goto(h, p) => /\ Moved(job[h], job'[h], p)
                                   /\ Unread(job[h], job'[h]) /\ Unmerged(job[h], job'[h])
           /\ Throw(h) => /\ job'[h].pc = "close" /\ job'[h].throwing
                          /\ job'[h].rev = job[h].rev
           /\ Thrown(h) => job'[h].pc = "thrown" /\ ~job'[h].throwing
           /\ job' = [job EXCEPT ![h] = Idle] => job'[h].pc = "idle" /\ ~job'[h].throwing
<1>1. job \in [Handles -> Jobs] /\ job[h] \in Jobs
    BY DEF Types
<1>2. ASSUME NEW p, Goto(h, p)
      PROVE  Moved(job[h], job'[h], p) /\ Unread(job[h], job'[h]) /\ Unmerged(job[h], job'[h])
    BY <1>1, <1>2 DEF Goto, Moved, Unread, Unmerged, Jobs
<1>3. ASSUME Throw(h)
      PROVE  job'[h].pc = "close" /\ job'[h].throwing /\ job'[h].rev = job[h].rev
    BY <1>1, <1>3 DEF Throw, Idle
<1>4. ASSUME Thrown(h)
      PROVE  job'[h].pc = "thrown" /\ ~job'[h].throwing
    BY <1>1, <1>4 DEF Thrown, Idle
<1>5. ASSUME job' = [job EXCEPT ![h] = Idle]
      PROVE  job'[h].pc = "idle" /\ ~job'[h].throwing
    BY <1>1, <1>5 DEF Idle
<1> QED
    BY <1>2, <1>3, <1>4, <1>5

LEMMA Moves ==
    ASSUME Types, NEW h \in Handles
    PROVE  /\ Consume(h) /\ job[h].input # << >> =>
                 /\ Moved(job[h], job'[h], "assign") /\ Unmerged(job[h], job'[h])
                 /\ job'[h].bs = Head(job[h].input) /\ job'[h].input = Tail(job[h].input)
           /\ AssignBlocks(h) =>
                 /\ Moved(job[h], job'[h], "begin") /\ Unread(job[h], job'[h])
                 /\ job'[h].it = 1 /\ job'[h].missing = Missing(job[h].bs)
           /\ Emit(h) =>
                 /\ Moved(job[h], job'[h], "feed") /\ Unread(job[h], job'[h])
                 /\ job'[h].it = Min(Found(h)) /\ job'[h].missing = job[h].missing
           /\ Feed(h) =>
                 /\ Moved(job[h], job'[h], "emit") /\ Unread(job[h], job'[h])
                 /\ job'[h].it = job[h].it /\ job'[h].missing = Tail(job[h].missing)
           /\ MergeCommit(h) => Moved(job[h], job'[h], "consume")
           /\ CopyRange(h) =>
                 /\ job'[h].pc = job[h].pc /\ job'[h].rev = job[h].rev
                 /\ job'[h].throwing = job[h].throwing
                 /\ job'[h].segments = Tail(job[h].segments)
                 /\ job'[h].out = job[h].out \o Store!BytesAt(FirstRange(h).first, RangeSize(h))
<1>1. job \in [Handles -> Jobs] /\ job[h] \in Jobs
    BY DEF Types
<1> DEFINE j0 == job[h]
<1> USE DEF Moved, Unread, Unmerged
<1>2. CASE Consume(h) /\ j0.input # << >>
    <2> DEFINE b == Head(j0.input)
               i == Tail(j0.input)
    <2>1. job' = [job EXCEPT ![h] = [j0 EXCEPT !.pc = "assign", !.bs = b, !.input = i]]
        BY Zenon, <1>1, <1>2 DEF Consume
    <2> HIDE DEF b, i
    <2>2. job'[h] = [j0 EXCEPT !.pc = "assign", !.bs = b, !.input = i]
        BY <1>1, <2>1
    <2>3. Moved(j0, job'[h], "assign") /\ Unmerged(j0, job'[h]) /\ job'[h].bs = b /\ job'[h].input = i
        BY <1>1, <2>2 DEF Jobs
    <2> QED
        BY <1>2, <2>3 DEF b, i, Consume, AssignBlocks, Emit, Feed, MergeCommit, CopyRange, At
<1>3. CASE AssignBlocks(h)
    <2> DEFINE m == Missing(j0.bs)
    <2>1. job' = [job EXCEPT ![h] = [j0 EXCEPT !.pc = "begin", !.it = 1, !.missing = m]]
        BY Zenon, <1>1, <1>3 DEF AssignBlocks
    <2> HIDE DEF m
    <2>2. job'[h] = [j0 EXCEPT !.pc = "begin", !.it = 1, !.missing = m]
        BY <1>1, <2>1
    <2>3. Moved(j0, job'[h], "begin") /\ Unread(j0, job'[h]) /\ job'[h].it = 1 /\ job'[h].missing = m
        BY <1>1, <2>2 DEF Jobs
    <2> QED
        BY <1>3, <2>3 DEF m, Consume, AssignBlocks, Emit, Feed, MergeCommit, CopyRange, At
<1>4. CASE Emit(h)
    <2> DEFINE i == Min(Found(h))
    <2>1. job' = [job EXCEPT ![h] = [j0 EXCEPT !.pc = "feed", !.it = i]]
        BY Zenon, <1>1, <1>4 DEF Emit
    <2> HIDE DEF i
    <2>2. job'[h] = [j0 EXCEPT !.pc = "feed", !.it = i]
        BY <1>1, <2>1
    <2>3. Moved(j0, job'[h], "feed") /\ Unread(j0, job'[h]) /\ job'[h].it = i /\ job'[h].missing = j0.missing
        BY <1>1, <2>2 DEF Jobs
    <2> QED
        BY <1>4, <2>3 DEF i, Consume, AssignBlocks, Emit, Feed, MergeCommit, CopyRange, At
<1>5. CASE Feed(h)
    <2> DEFINE m == Tail(j0.missing)
    <2>1. job' = [job EXCEPT ![h] = [j0 EXCEPT !.pc = "emit", !.missing = m]]
        BY Zenon, <1>1, <1>5 DEF Feed
    <2> HIDE DEF m
    <2>2. job'[h] = [j0 EXCEPT !.pc = "emit", !.missing = m]
        BY <1>1, <2>1
    <2>3. Moved(j0, job'[h], "emit") /\ Unread(j0, job'[h]) /\ job'[h].it = j0.it /\ job'[h].missing = m
        BY <1>1, <2>2 DEF Jobs
    <2> QED
        BY <1>5, <2>3 DEF m, Consume, AssignBlocks, Emit, Feed, MergeCommit, CopyRange, At
<1>6. CASE MergeCommit(h)
    <2>1. job' = [job EXCEPT ![h] = [j0 EXCEPT !.pc = "consume", !.bs = << >>, !.missing = << >>]]
        BY Zenon, <1>1, <1>6 DEF MergeCommit
    <2>2. job'[h] = [j0 EXCEPT !.pc = "consume", !.bs = << >>, !.missing = << >>]
        BY <1>1, <2>1
    <2>3. Moved(j0, job'[h], "consume")
        BY <1>1, <2>2 DEF Jobs
    <2> QED
        BY <1>6, <2>3 DEF Consume, AssignBlocks, Emit, Feed, MergeCommit, CopyRange, At
<1>7. CASE CopyRange(h)
    <2> DEFINE s == Tail(j0.segments)
               o == j0.out \o Store!BytesAt(FirstRange(h).first, RangeSize(h))
    <2>1. job' = [job EXCEPT ![h] = [j0 EXCEPT !.segments = s, !.out = o]]
        BY Zenon, <1>1, <1>7 DEF CopyRange
    <2> HIDE DEF s, o
    <2>2. job'[h] = [j0 EXCEPT !.segments = s, !.out = o]
        BY <1>1, <2>1
    <2>3. /\ job'[h].pc = j0.pc /\ job'[h].rev = j0.rev /\ job'[h].throwing = j0.throwing
          /\ job'[h].segments = s /\ job'[h].out = o
        BY <1>1, <2>2 DEF Jobs
    <2> QED
        BY Zenon, <1>7, <2>3 DEF s, o, Consume, AssignBlocks, Emit, Feed, MergeCommit, CopyRange, At
<1> QED
    BY Zenon, <1>2, <1>3, <1>4, <1>5, <1>6, <1>7

LEMMA Starts ==
    ASSUME Types, NEW h \in Handles, NEW r \in Revs
    PROVE  /\ \A input \in Inputs : NewRevision(h, r, input) =>
                 /\ job'[h].pc = "consume" /\ job'[h].rev = r /\ ~job'[h].throwing
                 /\ job'[h].bs = << >> /\ job'[h].missing = << >>
           /\ List(h, r) =>
                 /\ job'[h].pc = "open" /\ job'[h].rev = r /\ ~job'[h].throwing
                 /\ job'[h].segments = Query!Ranges(cblocks, newfile[h] \o manifest[r].ids)
                 /\ job'[h].out = << >>
<1>1. job \in [Handles -> Jobs] /\ job[h] \in Jobs
    BY DEF Types
<1>2. ASSUME NEW input \in Inputs, NewRevision(h, r, input)
      PROVE  /\ job'[h].pc = "consume" /\ job'[h].rev = r /\ ~job'[h].throwing
             /\ job'[h].bs = << >> /\ job'[h].missing = << >>
    BY <1>1, <1>2 DEF NewRevision, Idle
<1>3. CASE List(h, r)
    <2> DEFINE s == Query!Ranges(cblocks, newfile[h] \o manifest[r].ids)
    <2>1. job' = [job EXCEPT ![h] = [Idle EXCEPT !.pc = "open", !.rev = r, !.segments = s]]
        BY <1>3 DEF List
    <2> HIDE DEF s
    <2>2. /\ job'[h].pc = "open" /\ job'[h].rev = r /\ ~job'[h].throwing
          /\ job'[h].segments = s /\ job'[h].out = << >>
        BY <1>1, <2>1 DEF Idle
    <2> QED
        BY <1>2, <2>2 DEF s
<1> QED
    BY <1>2, <1>3

\* vvpkg.bin is created, and never removed.
LEMMA BinStays ==
    ASSUME Types, StreamsClosed, Next, bin # NoFile
    PROVE  bin' # NoFile
<1>1. PICK h \in Handles : Start(h) \/ Step(h) \/ Keep(h) \/ Crash(h)
    BY DEF Next
<1>2. Store!TypeOK(Cells) /\ offset[h] \in Nat
    BY OffsetType DEF Types, TypeOK
<1>3. ASSUME NEW x \in Seq(Cells), Store!Accept(h, offset[h], x) PROVE bin' # NoFile
    <2>1. Store!TypeOK(Cells)' /\ fp'[h].open
        BY <1>2, <1>3, AcceptIs
    <2> QED
        BY <2>1 DEF Store!TypeOK
<1>4. CASE Emit(h)
    <2> DEFINE b == job[h].bs[Min(Found(h))]
    <2>1. b \in Blocks
        BY <1>4, FoundIs DEF Emit
    <2>2. Store!Accept(h, offset[h], Data(b))
        BY <1>4 DEF Emit
    <2> HIDE DEF b
    <2> QED
        BY <1>3, <2>1, <2>2, DataType
<1>5. CASE EmitFails(h)
    BY <1>3, <1>5, EmitFailsIs DEF Store!OpenFails
<1>6. CASE CloseStore(h)
    BY <1>2, <1>6, CloseStoreIs, CloseIs
<1>7. CASE Crash(h)
    BY <1>7 DEF Crash, Store!Lose
<1> QED
    BY Zenon, <1>1, <1>4, <1>5, <1>6, <1>7
    DEF storeVars, Start, NewRevision, NewRevisionFails, List, ListUnparsable, ListRefused,
        Step, Consume, ConsumeFails, AssignBlocks, AssignFails, MergeBegin, Feed,
        FeedFails, MergeCommit, CloseRevision, OpenBin, CopyRange, CopyFails,
        EndCopy, Flush, Discard, Keep

LEMMA CallsNext ==
    ASSUME Types, Calls, StreamsClosed, Next
    PROVE  Calls'
<1>1. PICK h \in Handles : Start(h) \/ Step(h) \/ Keep(h) \/ Crash(h)
    BY DEF Next
<1>2. bin # NoFile => bin' # NoFile
    BY BinStays
<1>3. ASSUME NEW g \in Handles, g # h PROVE Call(g)'
    BY <1>1, <1>2, <1>3, Frame DEF Calls, Call, At, Merging
<1> SUFFICES Call(h)'
    BY <1>3 DEF Calls
<1>4. job[h] \in Jobs /\ job \in [Handles -> Jobs] /\ Call(h)
    BY DEF Types, Calls
<1>5. txn \in [Handles -> {"none", "begun", "reading", "writing"}]
    BY DEF Types, TypeOK, Index!TypeOK
<1> USE DEF Call, At, Merging, CommitPcs, CheckoutPcs
<1>6. Throw(h) /\ job[h].pc \in CommitPcs => Call(h)'
    BY <1>4, MovesOn
<1>7. Thrown(h) \/ job' = [job EXCEPT ![h] = Idle] => Call(h)'
    BY MovesOn
<1>8. CASE Start(h)
    <2>1. ASSUME NEW r \in Revs, NEW input \in Inputs, NewRevision(h, r, input) PROVE Call(h)'
        BY <2>1, Starts
    <2>2. ASSUME NEW r \in Revs, List(h, r) PROVE Call(h)'
        BY <2>2, Starts
    <2> QED
        BY <1>7, <1>8, <2>1, <2>2 DEF Start, NewRevisionFails, ListUnparsable, ListRefused
<1>9. CASE Consume(h)
    <2>1. CASE job[h].input = << >>
        <3>1. At(h, "consume") /\ Goto(h, "close")
            BY <1>9, <2>1 DEF Consume
        <3>2. Moved(job[h], job'[h], "close")
            BY <3>1, MovesOn
        <3> QED
            BY <1>4, <3>1, <3>2 DEF Moved
    <2>2. CASE job[h].input # << >>
        <3>1. Moved(job[h], job'[h], "assign")
            BY Zenon, <1>9, <2>2, Moves
        <3> QED
            BY <1>4, <1>9, <3>1 DEF Consume, Moved
    <2> QED
        BY <2>1, <2>2
<1>10. CASE AssignBlocks(h)
    BY Zenon, <1>4, <1>10, Moves DEF AssignBlocks, Moved
<1>11. CASE ConsumeFails(h) \/ AssignFails(h) \/ EmitFails(h) \/ FeedFails(h)
    BY <1>6, <1>11 DEF ConsumeFails, AssignFails, EmitFails, FeedFails
<1>12. CASE MergeBegin(h)
    <2>1. CASE Index!BeginMerge(h) /\ Goto(h, "emit")
        BY <1>4, <1>5, <1>12, <2>1, MovesOn DEF MergeBegin, Moved, Index!BeginMerge
    <2> QED
        BY <1>6, <1>12, <2>1 DEF MergeBegin
<1>13. CASE Emit(h)
    BY Zenon, <1>4, <1>5, <1>13, FoundIs, Moves DEF Emit, Moved, indexVars
<1>14. CASE Feed(h)
    BY Zenon, <1>4, <1>5, <1>14, Moves DEF Feed, Moved, Index!Feed
<1>15. CASE MergeCommit(h)
    BY Zenon, <1>4, <1>15, Moves DEF MergeCommit, Moved
<1>16. CASE CloseStore(h)
    BY <1>4, <1>16, MovesOn DEF CloseStore, Moved
<1>17. CASE CloseRevision(h) \/ CopyFails(h) \/ Discard(h) \/ Keep(h) \/ Crash(h)
    BY <1>7, <1>17 DEF CloseRevision, CopyFails, Discard, Keep, Crash
<1>18. CASE OpenBin(h)
    BY <1>4, <1>7, <1>18, MovesOn DEF OpenBin, Moved, storeVars
<1>19. CASE CopyRange(h)
    BY Zenon, <1>4, <1>19, Moves DEF CopyRange, storeVars
<1>20. CASE EndCopy(h)
    BY <1>4, <1>20, MovesOn DEF EndCopy, Moved, storeVars
<1>21. CASE Flush(h)
    BY <1>7, <1>21 DEF Flush
<1> HIDE DEF Call
<1> QED
    BY <1>1, <1>8, <1>9, <1>10, <1>11, <1>12, <1>13, <1>14, <1>15, <1>16, <1>17, <1>18,
       <1>19, <1>20, <1>21 DEF Step

------------------------------------------------------------------------------
(***************************************************************************)
(* Revisions: what a step of h does to what is kept of them                *)
(***************************************************************************)
Kept(r) == manifest'[r] = manifest[r] /\ content'[r] = content[r] /\ outcome'[r] = outcome[r]

KeptBut(r) == \A q \in Revs : q # r => Kept(q)

\* The constructor of a revision: it goes on, or throws.
Begins(h, r) ==
    /\ ~Committing(h)
    /\ manifest[r].state = "absent"
    /\ KeptBut(r)
    /\ manifest'[r].ids = manifest[r].ids /\ content'[r] = content[r]
    /\ \/ /\ Committing(h)' /\ At(h, "consume")' /\ ~job'[h].throwing /\ job'[h].rev = r
          /\ manifest'[r].state = "open" /\ outcome'[r] = "running"
       \/ ~Committing(h)' /\ manifest'[r].state = "closed" /\ outcome'[r] = "failed"

\* A commit goes on.
Continues(h) ==
    /\ Committing(h) /\ Committing(h)' /\ job'[h].rev = job[h].rev
    /\ KeptBut(job[h].rev)
    /\ manifest'[job[h].rev].state = manifest[job[h].rev].state
    /\ outcome' = outcome

\* A commit ends.
Ends(h) ==
    /\ Committing(h) /\ ~Committing(h)'
    /\ KeptBut(job[h].rev)
    /\ manifest'[job[h].rev].state \in {manifest[job[h].rev].state, "closed"}
    /\ manifest'[job[h].rev].ids = manifest[job[h].rev].ids
    /\ content' = content
    /\ outcome'[job[h].rev] \in {"ok", "failed", "dead"}
    /\ outcome'[job[h].rev] = "ok" => ~job[h].throwing /\ At(h, "finish") /\ cblocks' = cblocks
    /\ outcome'[job[h].rev] = "failed" => job[h].throwing
    /\ outcome'[job[h].rev] = "dead" => manifest' = manifest

\* The call is no commit.
Bystands(h) ==
    /\ ~Committing(h) /\ ~Committing(h)'
    /\ manifest' = manifest /\ content' = content /\ outcome' = outcome

LEMMA Records ==
    ASSUME Types, Calls, NEW h \in Handles, Start(h) \/ Step(h) \/ Keep(h) \/ Crash(h)
    PROVE  (\E r \in Revs : Begins(h, r)) \/ Continues(h) \/ Ends(h) \/ Bystands(h)
<1>1. job[h] \in Jobs /\ job \in [Handles -> Jobs]
    BY DEF Types
<1>2. /\ manifest \in [Revs -> [state : {"absent", "open", "closed"}, ids : Seq(Blocks)]]
      /\ content \in [Revs -> Seq(Blocks)]
      /\ outcome \in [Revs -> {"none", "running", "ok", "failed", "dead"}]
    BY DEF Types, TypeOK
<1>3. Committing(h) => job[h].rev \in Revs
    BY DEF Committing, Calls, Call
<1>4. ASSUME Throw(h), Committing(h)
      PROVE  Committing(h)' /\ job'[h].rev = job[h].rev
    BY <1>4, MovesOn DEF Committing, CommitPcs
<1>5. ASSUME Thrown(h) \/ job' = [job EXCEPT ![h] = Idle]
      PROVE  ~Committing(h)'
    BY <1>5, MovesOn DEF Committing, CommitPcs
<1>6. ASSUME NEW p, Goto(h, p)
      PROVE  job'[h].pc = p /\ job'[h].rev = job[h].rev
    BY <1>6, MovesOn DEF Moved
<1> USE DEF Kept, KeptBut, At
<1>7. CASE \E r \in Revs : \/ \E input \in Inputs : NewRevision(h, r, input)
                           \/ NewRevisionFails(h, r)
    <2>1. PICK r \in Revs : \/ \E input \in Inputs : NewRevision(h, r, input)
                            \/ NewRevisionFails(h, r)
        BY <1>7
    <2>2. ~Committing(h) /\ manifest[r].state = "absent"
        BY Zenon, <2>1 DEF NewRevision, NewRevisionFails, Committing, CommitPcs
    <2>3. CASE \E input \in Inputs : NewRevision(h, r, input)
        <3>1. At(h, "consume")' /\ Committing(h)' /\ job'[h].rev = r /\ ~job'[h].throwing
            BY <2>3, Starts DEF Committing, CommitPcs
        <3> QED
            BY <1>2, <2>2, <2>3, <3>1 DEF NewRevision, Begins
    <2>4. CASE NewRevisionFails(h, r)
        <3>1. ~Committing(h)'
            BY <1>5, <2>4 DEF NewRevisionFails
        <3> QED
            BY <1>2, <2>2, <2>4, <3>1 DEF NewRevisionFails, Begins
    <2> QED
        BY <2>1, <2>3, <2>4
<1>8. CASE \E r \in Revs : List(h, r) \/ ListUnparsable(h, r) \/ ListRefused(h, r)
    <2>1. ~Committing(h) /\ manifest' = manifest /\ content' = content /\ outcome' = outcome
        BY Zenon, <1>8 DEF List, ListUnparsable, ListRefused, StartsCheckout, history, Committing, CommitPcs
    <2>2. ~Committing(h)'
        BY Zenon, <1>5, <1>8, Starts DEF List, ListUnparsable, ListRefused, Committing, CommitPcs
    <2> QED
        BY <2>1, <2>2 DEF Bystands
<1>9. CASE Consume(h)
    <2>1. Committing(h) /\ manifest' = manifest /\ outcome' = outcome
        BY <1>9 DEF Consume, Committing, CommitPcs
    <2>2. Committing(h)' /\ job'[h].rev = job[h].rev
        BY Zenon, <1>6, <1>9, Moves DEF Consume, Committing, CommitPcs, Moved
    <2>3. \A q \in Revs : q # job[h].rev => content'[q] = content[q]
        BY Zenon, <1>2, <1>9 DEF Consume
    <2> QED
        BY <2>1, <2>2, <2>3 DEF Continues
<1>10. CASE AssignBlocks(h) \/ AssignFails(h)
    <2>1. Committing(h) /\ content' = content /\ outcome' = outcome
        BY <1>10 DEF AssignBlocks, AssignFails, history, Committing, CommitPcs
    <2>2. Committing(h)' /\ job'[h].rev = job[h].rev
        BY Zenon, <1>4, <1>10, <2>1, Moves DEF AssignFails, Committing, CommitPcs, Moved
    <2> DEFINE m == [manifest[job[h].rev] EXCEPT !.ids = @ \o job[h].bs]
    <2>3. manifest' = [manifest EXCEPT ![job[h].rev] = m]
        BY <1>2, <1>3, <1>10, <2>1 DEF AssignBlocks, AssignFails
    <2>4. m.state = manifest[job[h].rev].state
        BY <1>2, <1>3, <2>1
    <2> HIDE DEF m
    <2>5. /\ manifest'[job[h].rev].state = manifest[job[h].rev].state
          /\ \A q \in Revs : q # job[h].rev => manifest'[q] = manifest[q]
        BY <1>2, <1>3, <2>1, <2>3, <2>4
    <2> QED
        BY <2>1, <2>2, <2>5 DEF Continues
<1>11. CASE \/ ConsumeFails(h) \/ MergeBegin(h) \/ Emit(h) \/ EmitFails(h)
            \/ Feed(h) \/ FeedFails(h) \/ MergeCommit(h) \/ CloseStore(h)
    <2>1. Committing(h) /\ manifest' = manifest /\ content' = content /\ outcome' = outcome
        BY <1>11 DEF ConsumeFails, MergeBegin, Emit, EmitFails, Feed, FeedFails, MergeCommit,
                     CloseStore, history, Committing, CommitPcs
    <2>2. Throw(h) => Committing(h)' /\ job'[h].rev = job[h].rev
        BY <1>4, <2>1
    <2>3. Emit(h) \/ Feed(h) \/ MergeCommit(h) => Committing(h)' /\ job'[h].rev = job[h].rev
        BY Zenon, Moves DEF Moved, Committing, CommitPcs
    <2>4. Goto(h, "emit") \/ Goto(h, "finish") => Committing(h)' /\ job'[h].rev = job[h].rev
        BY <1>6 DEF Committing, CommitPcs
    <2>5. Committing(h)' /\ job'[h].rev = job[h].rev
        BY <1>11, <2>2, <2>3, <2>4 DEF ConsumeFails, MergeBegin, EmitFails, FeedFails, CloseStore
    <2> QED
        BY <2>1, <2>5 DEF Continues
<1>12. CASE CloseRevision(h)
    <2>1. Committing(h) /\ At(h, "finish") /\ content' = content /\ cblocks' = cblocks
        BY <1>12 DEF CloseRevision, Committing, CommitPcs, indexVars
    <2>2. ~Committing(h)'
        BY <1>5, <1>12 DEF CloseRevision
    <2>3. /\ manifest'[job[h].rev].state \in {manifest[job[h].rev].state, "closed"}
          /\ manifest'[job[h].rev].ids = manifest[job[h].rev].ids
          /\ \A q \in Revs : q # job[h].rev => manifest'[q] = manifest[q]
        BY <1>2, <1>3, <1>12, <2>1 DEF CloseRevision
    <2>4. /\ outcome'[job[h].rev] = IF job[h].throwing THEN "failed" ELSE "ok"
          /\ \A q \in Revs : q # job[h].rev => outcome'[q] = outcome[q]
        BY <1>2, <1>3, <1>12, <2>1 DEF CloseRevision
    <2> QED
        BY <2>1, <2>2, <2>3, <2>4 DEF Ends
<1>13. CASE Crash(h)
    <2>1. ~Committing(h)' /\ manifest' = manifest /\ content' = content
        BY <1>5, <1>13 DEF Crash
    <2>2. CASE Committing(h)
        BY <1>2, <1>3, <1>13, <2>1, <2>2 DEF Crash, Ends
    <2>3. CASE ~Committing(h)
        BY <1>13, <2>1, <2>3 DEF Crash, Bystands
    <2> QED
        BY <2>2, <2>3
<1>14. CASE \/ OpenBin(h) \/ CopyRange(h) \/ CopyFails(h) \/ EndCopy(h) \/ Flush(h)
            \/ Discard(h) \/ Keep(h)
    <2>1. ~Committing(h) /\ manifest' = manifest /\ content' = content /\ outcome' = outcome
        BY Zenon, <1>14 DEF OpenBin, CopyRange, CopyFails, EndCopy, Flush, Discard, Keep, history,
                     Committing, CommitPcs
    <2>2. Goto(h, "copy") \/ Goto(h, "flush") => ~Committing(h)'
        BY <1>6 DEF Committing, CommitPcs
    <2>3. CopyRange(h) => ~Committing(h)'
        BY Zenon, Moves DEF CopyRange, Committing, CommitPcs
    <2>4. ~Committing(h)'
        BY <1>5, <1>14, <2>2, <2>3 DEF OpenBin, CopyFails, EndCopy, Flush, Discard, Keep
    <2> QED
        BY <2>1, <2>4 DEF Bystands
<1> QED
    BY <1>7, <1>8, <1>9, <1>10, <1>11, <1>12, <1>13, <1>14 DEF Start, Step

LEMMA OwnedNext ==
    ASSUME Types, Calls, Owned, Next
    PROVE  Owned'
<1>1. PICK h \in Handles : Start(h) \/ Step(h) \/ Keep(h) \/ Crash(h)
    BY DEF Next
<1>2. \A g \in Handles : g # h => job'[g] = job[g]
    BY <1>1, Frame
<1>3. \A g \in Handles : Committing(g) => job[g].rev \in Revs
    BY DEF Committing, Calls, Call
<1>4. \A r \in Revs : manifest[r] = [state |-> manifest[r].state, ids |-> manifest[r].ids]
    BY DEF Types, TypeOK
<1>5. Committing(h)' => job'[h].rev \in Revs
    <2>1. (\E r \in Revs : Begins(h, r)) \/ Continues(h) \/ Ends(h) \/ Bystands(h)
        BY <1>1, Records
    <2> QED
        BY <1>3, <2>1 DEF Begins, Continues, Ends, Bystands
<1> USE DEF Owned, Kept, KeptBut
<1>6. ASSUME NEW r \in Revs, Begins(h, r)
      PROVE  Owned'
    <2>1. \A g \in Handles : Committing(g) => job[g].rev # r
        BY <1>6 DEF Begins
    <2>2. ASSUME NEW g \in Handles, Committing(g)'
          PROVE  manifest'[job'[g].rev].state = "open" /\ outcome'[job'[g].rev] = "running"
        <3>1. CASE g = h
            BY <1>6, <2>2, <3>1 DEF Begins
        <3>2. CASE g # h
            BY <1>2, <1>3, <1>6, <2>1, <2>2, <3>2 DEF Begins, Committing
        <3> QED
            BY <3>1, <3>2
    <2>3. ASSUME NEW f \in Handles, NEW g \in Handles, Committing(f)', Committing(g)',
                 job'[f].rev = job'[g].rev
          PROVE  f = g
        BY <1>2, <1>6, <2>1, <2>3 DEF Begins, Committing
    <2>4. ASSUME NEW q \in Revs, manifest'[q].state = "absent"
          PROVE  manifest'[q] = Absent /\ outcome'[q] = "none" /\ content'[q] = << >>
        BY <1>6, <2>4 DEF Begins
    <2> QED
        BY <2>2, <2>3, <2>4
<1>7. CASE Continues(h)
    <2>1. ASSUME NEW g \in Handles, Committing(g)'
          PROVE  /\ Committing(g) /\ job'[g].rev = job[g].rev
                 /\ manifest'[job[g].rev].state = "open" /\ outcome'[job[g].rev] = "running"
        BY <1>2, <1>3, <1>7, <2>1 DEF Continues, Committing
    <2>2. ASSUME NEW q \in Revs, manifest'[q].state = "absent"
          PROVE  manifest'[q] = Absent /\ outcome'[q] = "none" /\ content'[q] = << >>
        BY <1>7, <2>2 DEF Continues
    <2> QED
        BY <2>1, <2>2
<1>8. CASE Ends(h)
    <2>1. ASSUME NEW g \in Handles, Committing(g)'
          PROVE  /\ Committing(g) /\ job'[g].rev = job[g].rev
                 /\ manifest'[job[g].rev].state = "open" /\ outcome'[job[g].rev] = "running"
        BY <1>2, <1>3, <1>8, <2>1 DEF Ends, Committing
    <2>2. ASSUME NEW q \in Revs, manifest'[q].state = "absent"
          PROVE  manifest'[q] = Absent /\ outcome'[q] = "none" /\ content'[q] = << >>
        BY <1>8, <2>2 DEF Ends
    <2> QED
        BY <2>1, <2>2
<1>9. CASE Bystands(h)
    BY <1>2, <1>9 DEF Bystands, Committing
<1> QED
    BY <1>1, <1>6, <1>7, <1>8, <1>9, Records

\* A step of anybody leaves the manifest of a revision that is closed, or
\* whose commit is over.
LEMMA ManifestStep ==
    ASSUME Types, Calls, Owned, Next
    PROVE  \A r \in Revs : manifest'[r] # manifest[r] =>
              \/ manifest[r].state = "absent"
              \/ /\ manifest[r].state = "open"
                 /\ \E h \in Handles : job[h].rev = r /\ Committing(h)
<1>1. PICK h \in Handles : Start(h) \/ Step(h) \/ Keep(h) \/ Crash(h)
    BY DEF Next
<1>2. (\E r \in Revs : Begins(h, r)) \/ Continues(h) \/ Ends(h) \/ Bystands(h)
    BY <1>1, Records
<1> QED
    BY <1>2 DEF Begins, Continues, Ends, Bystands, Kept, KeptBut, Owned

LEMMA CommittedIndexedNext ==
    ASSUME Index!IInv, Types, Calls, Owned, Commits, CommittedIndexed, Next
    PROVE  CommittedIndexed'
<1>1. PICK h \in Handles : Start(h) \/ Step(h) \/ Keep(h) \/ Crash(h)
    BY DEF Next
<1>2. (\E r \in Revs : Begins(h, r)) \/ Continues(h) \/ Ends(h) \/ Bystands(h)
    BY <1>1, Records
<1>3. \A b \in Blocks : cblocks[b] # NoOffset => cblocks'[b] # NoOffset
    BY IndexKept DEF Index!Rows
<1>4. SUFFICES ASSUME NEW r \in Revs, outcome'[r] = "ok"
               PROVE  /\ manifest'[r].ids = content'[r]
                      /\ \A b \in Ids(content'[r]) : cblocks'[b] # NoOffset
    BY DEF CommittedIndexed, Ids
<1>5. content[r] \in Seq(Blocks) /\ Ids(content[r]) \subseteq Blocks
    BY DEF Types, TypeOK, Ids
<1>6. CASE Kept(r)
    BY <1>3, <1>4, <1>5, <1>6 DEF CommittedIndexed, Kept
<1>7. CASE ~Kept(r)
    <2>1. Ends(h) /\ r = job[h].rev
        BY <1>2, <1>4, <1>7 DEF Begins, Continues, Ends, Bystands, Kept, KeptBut, Owned
    <2>2. /\ ~job[h].throwing /\ At(h, "finish") /\ cblocks' = cblocks
          /\ manifest'[r].ids = manifest[r].ids /\ content' = content /\ Committing(h)
        BY <1>4, <2>1 DEF Ends
    <2>3. Tracked(h) /\ ~At(h, "assign") /\ ~At(h, "begin") /\ ~Merging(h)
        BY <2>2 DEF Commits, OnTrack, At, Merging
    <2>4. content[r] = manifest[r].ids \o << >> /\ \A b \in Ids(content[r]) : cblocks[b] # NoOffset
        BY <2>1, <2>3 DEF Tracked, Publishes, Coming
    <2>5. manifest[r].ids \in Seq(Blocks)
        BY DEF Types, TypeOK
    <2> QED
        BY <2>2, <2>4, <2>5
<1> QED
    BY <1>6, <1>7

LEMMA StreamsNext ==
    ASSUME Index!IInv, Types, Calls, Streams, Next
    PROVE  Streams'
<1>1. PICK h \in Handles : Start(h) \/ Step(h) \/ Keep(h) \/ Crash(h)
    BY DEF Next
<1>2. \A g \in Handles : g # h => job'[g] = job[g] /\ fp'[g] = fp[g]
    BY <1>1, Frame
<1>3. Store!TypeOK(Cells) /\ Store!TypeOK(Cells)' /\ StreamsClosed'
    BY FileTypes DEF Streams, Types, TypeOK
<1>4. ASSUME fp'[h].open PROVE Committing(h)' /\ ~At(h, "finish")'
    <2>1. fp'[h] # Store!Closed
        BY <1>4 DEF Store!Closed
    <2>2. ~Crash(h) /\ ~CloseStore(h)
        BY <1>3, <2>1, CloseStoreIs, LoseIs, StoreParts DEF Crash, Streams, Store!TypeOK
    <2>3. CASE Emit(h) \/ EmitFails(h)
        <3>1. At(h, "emit")
            BY <2>3 DEF Emit, EmitFails
        <3> QED
            BY Zenon, <2>3, <3>1, Moves, MovesOn DEF EmitFails, Moved, Committing, CommitPcs, At
    <2>4. CASE fp' = fp
        <3>1. Committing(h) /\ ~At(h, "finish")
            BY <1>4, <2>4 DEF Streams
        <3>2. job[h].pc \in {"consume", "assign", "begin", "emit", "feed", "close"}
            BY <3>1 DEF Committing, CommitPcs, At
        <3> USE DEF Committing, CommitPcs, At, Moved
        <3>3. \/ Consume(h) \/ ConsumeFails(h) \/ AssignBlocks(h) \/ AssignFails(h)
              \/ MergeBegin(h) \/ Emit(h) \/ EmitFails(h) \/ Feed(h) \/ FeedFails(h)
              \/ MergeCommit(h)
            BY Zenon, <1>1, <2>2, <3>2
            DEF Start, NewRevision, NewRevisionFails, List, ListUnparsable, ListRefused,
                StartsCheckout, Step, CloseRevision, OpenBin, CopyRange, CopyFails, EndCopy,
                Flush, Discard, Keep
        <3>4. CASE Consume(h)
            <4>1. CASE job[h].input = << >>
                <5>1. Goto(h, "close")
                    BY <3>4, <4>1 DEF Consume
                <5> QED
                    BY <5>1, MovesOn
            <4>2. CASE job[h].input # << >>
                BY Zenon, <3>4, <4>2, Moves
            <4> QED
                BY <4>1, <4>2
        <3>5. CASE ConsumeFails(h) \/ AssignFails(h) \/ FeedFails(h) \/ EmitFails(h)
            BY <3>5, MovesOn DEF ConsumeFails, AssignFails, FeedFails, EmitFails
        <3>6. CASE MergeBegin(h)
            BY <3>6, MovesOn DEF MergeBegin
        <3> QED
            BY Zenon, <3>3, <3>4, <3>5, <3>6, Moves
    <2> QED
        BY Zenon, <1>1, <2>2, <2>3, <2>4
        DEF storeVars, Start, NewRevision, NewRevisionFails, List, ListUnparsable, ListRefused,
            Step, Consume, ConsumeFails, AssignBlocks, AssignFails, MergeBegin, Feed,
            FeedFails, MergeCommit, CloseRevision, OpenBin, CopyRange, CopyFails,
            EndCopy, Flush, Discard, Keep
<1> QED
    BY <1>2, <1>3, <1>4 DEF Streams, Committing, At

------------------------------------------------------------------------------
(***************************************************************************)
(* Commits: what was read is in the manifest, and indexed or on its way    *)
(***************************************************************************)
LEMMA IdsJoin ==
    ASSUME NEW x \in Seq(Blocks), NEW y \in Seq(Blocks)
    PROVE  \A b \in Ids(x \o y) : b \in Ids(x) \/ b \in Ids(y)
<1>1. SUFFICES ASSUME NEW b \in Ids(x \o y) PROVE b \in Ids(x) \/ b \in Ids(y)
    OBVIOUS
<1>2. PICK i \in DOMAIN (x \o y) : (x \o y)[i] = b
    BY DEF Ids
<1>3. i \in 1..(Len(x) + Len(y)) /\ Len(x) \in Nat /\ Len(y) \in Nat
    BY <1>2
<1>4. CASE i <= Len(x)
    BY <1>2, <1>3, <1>4 DEF Ids
<1>5. CASE ~(i <= Len(x))
    <2>1. i - Len(x) \in DOMAIN y /\ (x \o y)[i] = y[i - Len(x)]
        BY <1>3, <1>5
    <2> QED
        BY <1>2, <2>1 DEF Ids
<1> QED
    BY <1>4, <1>5

LEMMA IdsTail ==
    ASSUME NEW x \in Seq(Blocks), x # << >>
    PROVE  /\ \A b \in Ids(x) : b = Head(x) \/ b \in Ids(Tail(x))
           /\ Head(x) = x[1] /\ 1 \in DOMAIN x
           /\ \A n \in DOMAIN Tail(x) : n + 1 \in DOMAIN x /\ Tail(x)[n] = x[n + 1] /\ n \in Nat
<1>1. Head(x) = x[1] /\ 1 \in DOMAIN x /\ Len(x) \in Nat /\ DOMAIN x = 1..Len(x)
    OBVIOUS
<1>2. \A n \in DOMAIN Tail(x) : n + 1 \in DOMAIN x /\ Tail(x)[n] = x[n + 1] /\ n \in Nat
    BY <1>1
<1>3. ASSUME NEW i \in DOMAIN x, i # 1 PROVE i - 1 \in DOMAIN Tail(x) /\ Tail(x)[i - 1] = x[i]
    BY <1>1, <1>3
<1> QED
    BY <1>1, <1>2, <1>3 DEF Ids

\* The handles that do not move are as they were; the index may have grown.
LEMMA OthersOnTrack ==
    ASSUME Index!IInv, Types, Calls, Owned, Commits,
           NEW h \in Handles, Start(h) \/ Step(h) \/ Keep(h) \/ Crash(h),
           NEW g \in Handles, g # h
    PROVE  OnTrack(g)'
<1>1. /\ job'[g] = job[g] /\ txn'[g] = txn[g] /\ view'[g] = view[g]
    BY Frame
<1>2. \A b \in Blocks : cblocks[b] # NoOffset => cblocks'[b] # NoOffset
    BY IndexKept DEF Index!Rows, Next
<1>3. SUFFICES ASSUME Committing(g), ~job[g].throwing
               PROVE  /\ Tracked(g)'
                      /\ At(g, "begin") \/ Merging(g) => InOrder(g)'
    BY <1>1 DEF OnTrack, Committing, At, Merging
<1>4. Tracked(g) /\ (At(g, "begin") \/ Merging(g) => InOrder(g))
    BY <1>3 DEF Commits, OnTrack
<1>5. job[g].rev \in Revs
    BY <1>3 DEF Committing, Calls, Call
<1>6. manifest'[job[g].rev] = manifest[job[g].rev] /\ content'[job[g].rev] = content[job[g].rev]
    BY <1>3, <1>5, Records
    DEF Begins, Continues, Ends, Bystands, Kept, KeptBut, Owned
<1>7. Ids(content[job[g].rev]) \subseteq Blocks
    BY <1>5 DEF Types, TypeOK, Ids
<1>8. Tracked(g)'
    <2>1. Coming(g)' = Coming(g)
        BY <1>1 DEF Coming, At, Merging, Ids
    <2>2. \A b \in Blocks : Publishes(g)[b] # NoOffset => Publishes(g)'[b] # NoOffset
        <3>1. (Merging(g) /\ txn[g] = "writing")' <=> Merging(g) /\ txn[g] = "writing"
            BY <1>1 DEF Merging
        <3>2. CASE Merging(g) /\ txn[g] = "writing"
            BY Zenon, <1>1, <3>1, <3>2 DEF Publishes
        <3>3. CASE ~(Merging(g) /\ txn[g] = "writing")
            BY Zenon, <1>2, <3>1, <3>3 DEF Publishes
        <3> QED
            BY Zenon, <3>2, <3>3
    <2>3. content'[job'[g].rev] =
              manifest'[job'[g].rev].ids \o (IF At(g, "assign")' THEN job'[g].bs ELSE << >>)
        BY <1>1, <1>4, <1>6 DEF Tracked, At
    <2>4. \A b \in Ids(content[job[g].rev]) : Publishes(g)'[b] # NoOffset \/ b \in Coming(g)'
        BY <1>4, <1>7, <2>1, <2>2 DEF Tracked
    <2>5. Ids(content'[job'[g].rev]) = Ids(content[job[g].rev])
        BY <1>1, <1>6 DEF Ids
    <2> QED
        BY Zenon, <2>3, <2>4, <2>5 DEF Tracked, Ids
<1>9. InOrder(g) => InOrder(g)'
    BY <1>1 DEF InOrder, FirstAt, At
<1> QED
    BY <1>4, <1>8, <1>9

\* merge() finds the next missing id at its first place, so the later ones are
\* behind it.
LEMMA EmitsInOrder ==
    ASSUME Types, NEW h \in Handles, InOrder(h), Found(h) # {}
    PROVE  /\ FirstAt(job[h].bs, Head(job[h].missing), Min(Found(h)))
           /\ \A n \in DOMAIN job[h].missing :
                 \E i \in DOMAIN job[h].bs :
                     FirstAt(job[h].bs, job[h].missing[n], i) /\ Min(Found(h)) <= i
<1> DEFINE bs == job[h].bs
           ms == job[h].missing
           k == Min(Found(h))
<1>1. bs \in Seq(Blocks) /\ ms \in Seq(Blocks)
    BY DEF Types, Jobs
<1>2. /\ k \in DOMAIN bs /\ job[h].it <= k /\ ms # << >> /\ bs[k] = Head(ms)
      /\ \A i \in DOMAIN bs : job[h].it <= i /\ bs[i] = Head(ms) => k <= i
    BY FoundIs
<1>3. Head(ms) = ms[1] /\ 1 \in DOMAIN ms
    BY <1>1, <1>2, IdsTail
<1>4. /\ \A n \in DOMAIN ms : \E i \in DOMAIN bs : FirstAt(bs, ms[n], i) /\ job[h].it <= i
      /\ \A m, n \in DOMAIN ms : m < n =>
            \A i, j \in DOMAIN bs : FirstAt(bs, ms[m], i) /\ FirstAt(bs, ms[n], j) => i < j
    BY DEF InOrder
<1>5. DOMAIN bs \subseteq Nat \ {0} /\ DOMAIN ms \subseteq Nat /\ \A n \in DOMAIN ms : n = 1 \/ 1 < n
    BY <1>1
<1> HIDE DEF bs, ms, k
<1>6. FirstAt(bs, ms[1], k)
    <2>1. PICK i \in DOMAIN bs : FirstAt(bs, ms[1], i) /\ job[h].it <= i
        BY <1>3, <1>4
    <2>2. k <= i
        BY <1>2, <1>3, <2>1 DEF FirstAt
    <2>3. ~(k < i)
        BY <1>2, <1>3, <1>5, <2>1 DEF FirstAt
    <2>4. k = i
        BY <1>2, <1>5, <2>1, <2>2, <2>3
    <2> QED
        BY <2>1, <2>4
<1>7. ASSUME NEW n \in DOMAIN ms
      PROVE  \E i \in DOMAIN bs : FirstAt(bs, ms[n], i) /\ k <= i
    <2>1. PICK i \in DOMAIN bs : FirstAt(bs, ms[n], i)
        BY <1>4, <1>7
    <2>2. n # 1 => k < i
        BY <1>2, <1>3, <1>4, <1>5, <1>6, <1>7, <2>1
    <2>3. n = 1 => FirstAt(bs, ms[n], k)
        BY <1>6
    <2> QED
        BY <1>2, <1>5, <2>1, <2>2, <2>3
<1> QED
    BY <1>3, <1>6, <1>7 DEF bs, ms, k

LEMMA NoneFound ==
    ASSUME Types, NEW h \in Handles, InOrder(h), Found(h) = {}
    PROVE  Ids(job[h].missing) = {}
<1> DEFINE bs == job[h].bs
           ms == job[h].missing
<1>1. bs \in Seq(Blocks) /\ ms \in Seq(Blocks) /\ job[h].it \in Nat
    BY DEF Types, Jobs
<1>2. CASE ms # << >>
    <2>1. Head(ms) = ms[1] /\ 1 \in DOMAIN ms
        BY <1>1, <1>2, IdsTail
    <2>2. PICK i \in DOMAIN bs : FirstAt(bs, ms[1], i) /\ job[h].it <= i
        BY <2>1 DEF InOrder
    <2>3. i \in Found(h)
        BY <1>1, <1>2, <2>1, <2>2 DEF Found, FirstAt
    <2> QED
        BY <2>3
<1>3. CASE ms = << >>
    BY <1>3 DEF Ids
<1> QED
    BY <1>2, <1>3

LEMMA CommitsNext ==
    ASSUME Index!IInv, Types, Types', Calls, Owned, Commits, Next
    PROVE  Commits'
<1>1. PICK h \in Handles : Start(h) \/ Step(h) \/ Keep(h) \/ Crash(h)
    BY DEF Next
<1>2. \A g \in Handles : g # h => OnTrack(g)'
    BY <1>1, OthersOnTrack
<1>3. SUFFICES ASSUME Committing(h)', ~job'[h].throwing
               PROVE  /\ Tracked(h)'
                      /\ At(h, "begin")' \/ Merging(h)' => InOrder(h)'
    BY <1>2 DEF Commits, OnTrack
<1>4. /\ job[h] \in Jobs /\ job[h].bs \in Seq(Blocks) /\ job[h].missing \in Seq(Blocks)
      /\ job[h].input \in Seq(Seq(Blocks))
      /\ Committing(h) => job[h].rev \in Revs
    BY DEF Types, Jobs, Committing, Calls, Call
<1>5. /\ manifest \in [Revs -> [state : {"absent", "open", "closed"}, ids : Seq(Blocks)]]
      /\ content \in [Revs -> Seq(Blocks)]
      /\ cblocks \in [Blocks -> Nat \cup {NoOffset}]
      /\ view \in [Handles -> [Blocks -> Nat \cup {NoOffset}]]
      /\ txn \in [Handles -> {"none", "begun", "reading", "writing"}]
    BY DEF Types, TypeOK, Index!TypeOK, Index!Tables
<1>6. ~Throw(h) /\ ~Thrown(h) /\ job' # [job EXCEPT ![h] = Idle]
    BY <1>3, MovesOn DEF Committing, CommitPcs
<1>7. Committing(h) /\ ~job[h].throwing => OnTrack(h) /\ Tracked(h)
    BY DEF Commits, OnTrack
<1> USE DEF At, Moved, Unread, Unmerged
<1>8. ASSUME NEW r \in Revs, NEW input \in Inputs, NewRevision(h, r, input)
      PROVE  Tracked(h)' /\ At(h, "consume")'
    <2>1. At(h, "consume")' /\ job'[h].rev = r
        BY <1>8, Starts
    <2>2. content'[r] = << >> /\ manifest'[r].ids = << >>
        BY <1>5, <1>8 DEF NewRevision, Owned, Absent
    <2> QED
        BY <2>1, <2>2 DEF Tracked, Ids
<1>9. CASE Consume(h)
    <2>1. /\ At(h, "consume") /\ Committing(h) /\ manifest' = manifest /\ cblocks' = cblocks
        BY <1>9 DEF Consume, Committing, CommitPcs, indexVars
    <2>2. CASE job[h].input = << >>
        <3>1. Moved(job[h], job'[h], "close") /\ content' = content
            BY SMTT(20), <1>9, <2>2, MovesOn DEF Consume
        <3> QED
            BY <1>3, <1>7, <2>1, <3>1 DEF Tracked, Coming, Publishes, Merging, Ids
    <2>3. CASE job[h].input # << >>
        <3> DEFINE bs == Head(job[h].input)
                   r == job[h].rev
        <3>1. Moved(job[h], job'[h], "assign") /\ job'[h].bs = bs
            BY Zenon, <1>9, <2>3, Moves
        <3>2. bs \in Seq(Blocks) /\ r \in Revs
            BY <1>4, <2>1, <2>3, TailType
        <3>3. content'[r] = content[r] \o bs
            BY Zenon, <1>5, <1>9, <2>3, <3>2 DEF Consume
        <3>4. Tracked(h)
            BY <1>3, <1>7, <2>1, <3>1
        <3>5. content[r] = manifest[r].ids \o << >> /\ content[r] \in Seq(Blocks)
              /\ manifest[r].ids \in Seq(Blocks)
            BY <1>5, <2>1, <3>2, <3>4 DEF Tracked
        <3> HIDE DEF bs
        <3>6. content'[r] = manifest'[r].ids \o bs
            BY <2>1, <3>3, <3>5
        <3>7. ASSUME NEW b \in Ids(content'[r]) PROVE cblocks'[b] # NoOffset \/ b \in Ids(bs)
            <4>1. b \in Ids(content[r]) \/ b \in Ids(bs)
                BY <3>2, <3>3, <3>5, <3>7, IdsJoin
            <4> QED
                BY <2>1, <3>4, <4>1 DEF Tracked, Publishes, Coming, Merging
        <3> QED
            BY <3>1, <3>6, <3>7 DEF Tracked, Publishes, Coming, Merging, Ids
    <2> QED
        BY <1>3, <2>1, <2>2, <2>3 DEF Merging
<1>10. CASE AssignBlocks(h)
    <2> DEFINE bs == job[h].bs
               r == job[h].rev
    <2>1. At(h, "assign") /\ Committing(h) /\ content' = content /\ cblocks' = cblocks
        BY <1>10 DEF AssignBlocks, Committing, CommitPcs, indexVars, history
    <2>2. /\ Moved(job[h], job'[h], "begin") /\ job'[h].bs = bs
          /\ job'[h].it = 1 /\ job'[h].missing = Missing(bs)
        BY Zenon, <1>10, Moves
    <2>3. Tracked(h) /\ r \in Revs
        BY <1>3, <1>4, <1>7, <2>1, <2>2
    <2>4. manifest'[r].ids = manifest[r].ids \o bs
        BY Zenon, <1>5, <1>10, <2>3 DEF AssignBlocks
    <2>5. content[r] = manifest[r].ids \o bs
        BY <2>1, <2>3 DEF Tracked
    <2>6. manifest'[r].ids \in Seq(Blocks)
        <3>1. manifest[r].ids \in Seq(Blocks) /\ bs \in Seq(Blocks)
            BY <1>4, <1>5, <2>3
        <3> HIDE DEF bs, r
        <3> QED
            BY <2>4, <3>1, JoinType, Zenon
    <2>7. Ids(content[r]) \subseteq Blocks
        BY <1>5, <2>3 DEF Ids
    <2>8. ASSUME NEW b \in Ids(content[r])
          PROVE  cblocks[b] # NoOffset \/ b \in Ids(Missing(bs))
        BY <1>4, <2>1, <2>3, <2>8, MissingIs DEF Tracked, Publishes, Coming, Merging
    <2>9. Tracked(h)'
        <3>1. content'[r] = manifest'[r].ids \o << >>
            <4>1. manifest'[r].ids \o << >> = manifest'[r].ids
                BY <2>6, ConcatEmptySeq, Zenon
            <4> QED
                BY <2>1, <2>4, <2>5, <4>1, Zenon
        <3> QED
            BY SMTT(60), <2>1, <2>2, <2>8, <3>1 DEF Tracked, Publishes, Coming, Merging, Ids
    <2>10. InOrder(h)'
        <3>1. /\ \A n \in DOMAIN Missing(bs) :
                    \E i \in DOMAIN bs : FirstAt(bs, Missing(bs)[n], i) /\ 1 <= i
              /\ \A m, n \in DOMAIN Missing(bs) : m < n =>
                    \A i, j \in DOMAIN bs :
                        FirstAt(bs, Missing(bs)[m], i) /\ FirstAt(bs, Missing(bs)[n], j) => i < j
            BY <1>4, MissingIs
        <3> HIDE DEF bs
        <3> QED
            BY <2>2, <3>1 DEF InOrder, FirstAt
    <2> QED
        BY <2>9, <2>10
<1>11. CASE MergeBegin(h)
    <2>1. At(h, "begin") /\ Committing(h) /\ Index!BeginMerge(h) /\ Goto(h, "emit")
          /\ manifest' = manifest /\ content' = content
        BY <1>6, <1>11 DEF MergeBegin, Committing, CommitPcs, history
    <2>2. /\ Moved(job[h], job'[h], "emit") /\ Unread(job[h], job'[h])
          /\ Unmerged(job[h], job'[h])
        BY <2>1, MovesOn
    <2>3. Tracked(h) /\ InOrder(h)
        BY <1>3, <1>7, <2>1, <2>2 DEF OnTrack
    <2>4. txn'[h] = "reading" /\ cblocks' = cblocks
        BY <1>5, <2>1 DEF Index!BeginMerge
    <2>5. Tracked(h)'
        BY <2>1, <2>2, <2>3, <2>4 DEF Tracked, Publishes, Coming, Merging, Ids
    <2>6. InOrder(h)'
        BY <2>1, <2>2, <2>3 DEF InOrder, FirstAt
    <2> QED
        BY <2>5, <2>6
<1>12. CASE Emit(h)
    <2>1. At(h, "emit") /\ Committing(h) /\ Found(h) # {} /\ UNCHANGED <<indexVars, manifest, content>>
        BY <1>12 DEF Emit, Committing, CommitPcs
    <2>2. /\ Moved(job[h], job'[h], "feed") /\ Unread(job[h], job'[h])
          /\ job'[h].it = Min(Found(h)) /\ job'[h].missing = job[h].missing
        BY Zenon, <1>12, Moves
    <2>3. Tracked(h) /\ InOrder(h)
        BY <1>3, <1>7, <2>1, <2>2 DEF OnTrack, Merging
    <2>4. Tracked(h)'
        BY <2>1, <2>2, <2>3 DEF Tracked, Publishes, Coming, Merging, Ids, indexVars
    <2>5. InOrder(h)'
        BY <2>1, <2>2, <2>3, EmitsInOrder DEF InOrder, FirstAt
    <2> QED
        BY <2>4, <2>5
<1>13. CASE Feed(h)
    <2> DEFINE ms == job[h].missing
               r == job[h].rev
    <2>1. At(h, "feed") /\ Committing(h) /\ Index!Feed(h, Head(ms)) /\ UNCHANGED <<manifest, content>>
        BY <1>13 DEF Feed, Committing, CommitPcs, history
    <2>2. /\ Moved(job[h], job'[h], "emit") /\ Unread(job[h], job'[h])
          /\ job'[h].it = job[h].it /\ job'[h].missing = Tail(ms)
        BY Zenon, <1>13, Moves
    <2>3. Tracked(h) /\ InOrder(h)
        BY <1>3, <1>7, <2>1, <2>2 DEF OnTrack, Merging
    <2>4. ms \in Seq(Blocks) /\ ms # << >> /\ Head(ms) \in Blocks
        BY <1>4, <2>1, HeadMissing DEF Calls, Call
    <2>5. Publishes(h) = view[h]
        BY <2>1 DEF Publishes, Merging, Index!Feed, Index!MayWrite
    <2>6. /\ txn'[h] = "writing" /\ offset[h] # NoOffset
          /\ view'[h][Head(ms)] = offset[h]
          /\ \A b \in Blocks : b # Head(ms) => view'[h][b] = view[h][b]
        <3>1. offset[h] # NoOffset
            BY Constants, OffsetType DEF Types, TypeOK
        <3> QED
            BY <1>5, <2>1, <2>4, <3>1 DEF Index!Feed
    <2>7. Ids(content[r]) \subseteq Blocks /\ \A b \in Ids(ms) : b = Head(ms) \/ b \in Ids(Tail(ms))
        <3>1. content[r] \in Seq(Blocks)
            BY <1>4, <1>5, <2>1
        <3>2. Ids(content[r]) \subseteq Blocks
            BY <3>1 DEF Ids
        <3> QED
            BY <2>4, <3>2, IdsTail
    <2>8. \A b \in Ids(content[r]) : view'[h][b] # NoOffset \/ b \in Ids(Tail(ms))
        BY SMTT(20), <2>1, <2>3, <2>5, <2>6, <2>7 DEF Tracked, Coming, Merging
    <2>9. Tracked(h)'
        <3>1. content[r] = manifest[r].ids \o << >>
            BY <2>1, <2>3 DEF Tracked
        <3>2. /\ job'[h].rev = r /\ ~At(h, "assign")' /\ ~At(h, "begin")' /\ Merging(h)'
              /\ job'[h].missing = Tail(ms)
            BY <2>2 DEF Merging
        <3>3. Publishes(h)' = view'[h]
            BY <2>6, <3>2 DEF Publishes
        <3>4. Coming(h)' = Ids(Tail(ms))
            BY <3>2 DEF Coming, Ids
        <3>5. content' = content /\ manifest' = manifest
            BY <2>1
        <3> HIDE DEF r, ms
        <3> QED
            BY Zenon, <2>8, <3>1, <3>2, <3>3, <3>4, <3>5 DEF Tracked, Ids
    <2>10. InOrder(h)'
        <3> DEFINE bs == job[h].bs
                   mt == Tail(ms)
        <3>1. /\ \A n \in DOMAIN ms : \E i \in DOMAIN bs : FirstAt(bs, ms[n], i) /\ job[h].it <= i
              /\ \A m, n \in DOMAIN ms : m < n =>
                    \A i, j \in DOMAIN bs : FirstAt(bs, ms[m], i) /\ FirstAt(bs, ms[n], j) => i < j
            BY <2>3 DEF InOrder
        <3>2. \A n \in DOMAIN mt : n + 1 \in DOMAIN ms /\ mt[n] = ms[n + 1] /\ n \in Nat
            BY Zenon, <2>4, IdsTail
        <3> HIDE DEF ms, mt
        <3>3. \A n \in DOMAIN mt : \E i \in DOMAIN bs : FirstAt(bs, mt[n], i) /\ job[h].it <= i
            BY <3>1, <3>2
        <3>4. ASSUME NEW m \in DOMAIN mt, NEW n \in DOMAIN mt, m < n, NEW i \in DOMAIN bs,
                     NEW j \in DOMAIN bs, FirstAt(bs, mt[m], i), FirstAt(bs, mt[n], j)
              PROVE  i < j
            <4>1. m + 1 < n + 1
                BY <3>2, <3>4
            <4> QED
                BY <3>1, <3>2, <3>4, <4>1
        <3>5. job'[h].missing = mt /\ job'[h].bs = bs
            BY <2>2 DEF mt
        <3> HIDE DEF bs
        <3>6. \A n \in DOMAIN job'[h].missing :
                 \E i \in DOMAIN job'[h].bs :
                     FirstAt(job'[h].bs, job'[h].missing[n], i) /\ job'[h].it <= i
            BY <2>2, <3>3, <3>5
        <3>7. \A m, n \in DOMAIN job'[h].missing : m < n =>
                 \A i, j \in DOMAIN job'[h].bs :
                     FirstAt(job'[h].bs, job'[h].missing[m], i)
                     /\ FirstAt(job'[h].bs, job'[h].missing[n], j) => i < j
            BY <3>4, <3>5
        <3>8. ~At(h, "feed")'
            BY <2>2
        <3> QED
            BY <3>6, <3>7, <3>8 DEF InOrder, FirstAt
    <2> QED
        BY <2>9, <2>10
<1>14. CASE MergeCommit(h)
    <2>1. At(h, "emit") /\ Committing(h) /\ Found(h) = {} /\ Index!Commit(h) /\ UNCHANGED <<manifest, content>>
        BY <1>14 DEF MergeCommit, Committing, CommitPcs, history
    <2>2. Moved(job[h], job'[h], "consume")
        BY Zenon, <1>14, Moves
    <2>3. Tracked(h) /\ Ids(job[h].missing) = {}
        BY <1>3, <1>7, <2>1, <2>2, NoneFound DEF OnTrack, Merging
    <2>4. cblocks' = Publishes(h)
        BY <2>1 DEF Index!Commit, Publishes, Merging
    <2> DEFINE r == job[h].rev
    <2>5. content[r] = manifest[r].ids \o << >>
        BY <2>1, <2>3 DEF Tracked
    <2>6. \A b \in Ids(content[r]) : Publishes(h)[b] # NoOffset
        <3>1. Coming(h) = Ids(job[h].missing)
            BY <2>1 DEF Coming, Merging
        <3> QED
            BY <2>3, <3>1 DEF Tracked
    <2>7. job'[h].rev = r /\ ~At(h, "assign")' /\ ~At(h, "begin")' /\ ~Merging(h)'
        BY <2>2 DEF Merging
    <2>8. Publishes(h)' = Publishes(h)
        BY <2>4, <2>7 DEF Publishes
    <2>9. content' = content /\ manifest' = manifest
        BY <2>1
    <2> HIDE DEF r
    <2> QED
        BY Zenon, <2>5, <2>6, <2>7, <2>8, <2>9 DEF Tracked, Ids
<1>15. CASE CloseStore(h)
    <2>1. At(h, "close") /\ Committing(h) /\ UNCHANGED <<indexVars, manifest, content>>
        BY <1>15 DEF CloseStore, Committing, CommitPcs
    <2>2. Moved(job[h], job'[h], "finish")
        BY <1>15, MovesOn DEF CloseStore
    <2> QED
        BY <1>3, <1>7, <2>1, <2>2 DEF Tracked, Publishes, Coming, Merging, Ids, indexVars
<1>16. ~ (\/ OpenBin(h) \/ CopyRange(h) \/ CopyFails(h) \/ EndCopy(h) \/ Flush(h)
          \/ Discard(h) \/ Keep(h) \/ Crash(h) \/ CloseRevision(h))
    <2>1. ~Goto(h, "copy") /\ ~Goto(h, "flush")
        BY <1>3, MovesOn DEF Committing, CommitPcs
    <2>2. ~CopyRange(h)
        BY Zenon, <1>3, Moves DEF CopyRange, Committing, CommitPcs
    <2> QED
        BY <1>6, <2>1, <2>2
        DEF OpenBin, CopyFails, EndCopy, Flush, Discard, Keep, Crash, CloseRevision
<1>17. ~(\E r \in Revs : \/ NewRevisionFails(h, r) \/ List(h, r)
                         \/ ListUnparsable(h, r) \/ ListRefused(h, r))
    <2>1. \A r \in Revs : ~List(h, r)
        BY <1>3, Starts DEF Committing, CommitPcs
    <2> QED
        BY <1>6, <2>1 DEF NewRevisionFails, ListUnparsable, ListRefused
<1> QED
    BY <1>1, <1>6, <1>8, <1>9, <1>10, <1>11, <1>12, <1>13, <1>14, <1>15, <1>16, <1>17
    DEF Start, Step, ConsumeFails, AssignFails, EmitFails, FeedFails, Merging

------------------------------------------------------------------------------
(***************************************************************************)
(* The invariant is one                                                    *)
(***************************************************************************)
LEMMA InitIInv ==
    ASSUME Init
    PROVE  IInv
<1> USE DEF Init
<1>1. Index!IInv
    BY Constants, SameIndex, IndexProofs!InitIInv
<1>2. \A h \in Handles : job[h] = Idle
    OBVIOUS
<1>3. Idle \in Jobs /\ Idle.pc = "idle" /\ ~Idle.throwing
    BY Zenon, IdleType, PcsAre DEF Idle
<1>4. Types
    <2>1. job \in [Handles -> Jobs]
        BY <1>3
    <2>2. \A h \in Handles :
             /\ job[h].pc \in {"idle", "thrown"} \cup CommitPcs \cup CheckoutPcs
             /\ job[h].rev \in Revs \cup {NoRev}
             /\ job[h].bs \in Seq(Blocks) /\ job[h].missing \in Seq(Blocks)
             /\ job[h].out \in Seq(Cells \cup {Hole})
        BY <2>1 DEF Jobs, Pcs, File
    <2>3. Store!TypeOK(Cells)
        BY DEF Store!Init, Store!TypeOK, Store!Closed
    <2>4. manifest \in [Revs -> [state : {"absent", "open", "closed"}, ids : Seq(Blocks)]]
        BY DEF Absent
    <2> QED
        BY <1>1, <2>1, <2>2, <2>3, <2>4 DEF Types, TypeOK, Index!IInv
<1>5. Calls
    BY <1>2, <1>3 DEF Calls, Call, At, Merging, CommitPcs, CheckoutPcs
<1>6. \A h \in Handles : ~Committing(h)
    BY <1>2, <1>3 DEF Committing, CommitPcs
<1>7. Owned /\ Commits
    BY <1>6 DEF Owned, Commits, OnTrack, Absent
<1>8. CommittedIndexed
    BY DEF CommittedIndexed
<1>9. Streams
    BY DEF Streams, StreamsClosed, Store!Init, Store!Closed
<1> QED
    BY <1>1, <1>4, <1>5, <1>7, <1>8, <1>9 DEF IInv

LEMMA NextIInv ==
    ASSUME IInv, [Next]_vars
    PROVE  IInv'
<1>1. CASE Next
    <2>1. Index!IInv'
        BY <1>1, IndexKept DEF IInv
    <2>2. Types' /\ Calls' /\ Owned'
        BY <1>1, TypesNext, CallsNext, OwnedNext DEF IInv, Streams
    <2>3. Commits' /\ CommittedIndexed' /\ Streams'
        BY <1>1, <2>2, CommitsNext, CommittedIndexedNext, StreamsNext DEF IInv
    <2> QED
        BY <2>1, <2>2, <2>3 DEF IInv
<1>2. CASE UNCHANGED vars
    <2> USE <1>2 DEF vars, indexVars, storeVars, history
    <2>1. Index!IInv'
        BY IndexKept DEF IInv
    <2>2. Types'
        BY DEF IInv, Types, TypeOK, Index!TypeOK, Index!Tables, Store!TypeOK, Store!Closed
    <2>3. Calls'
        BY DEF IInv, Calls, Call, At, Merging
    <2>4. Owned'
        BY DEF IInv, Owned, Committing
    <2>5. Commits'
        <3>1. ASSUME NEW h \in Handles PROVE Tracked(h) => Tracked(h)'
            <4>1. Publishes(h)' = Publishes(h) /\ Coming(h)' = Coming(h)
                BY DEF Publishes, Coming, Merging, At, Ids
            <4>2. Ids(content[job[h].rev])' = Ids(content[job[h].rev])
                BY DEF Ids
            <4> QED
                BY <4>1, <4>2 DEF Tracked, At
        <3>2. ASSUME NEW h \in Handles PROVE InOrder(h) => InOrder(h)'
            BY DEF InOrder, FirstAt, At
        <3>3. ASSUME NEW h \in Handles PROVE OnTrack(h) => OnTrack(h)'
            BY <3>1, <3>2 DEF OnTrack, Merging, Committing, At
        <3> QED
            BY <3>3 DEF IInv, Commits
    <2>6. CommittedIndexed'
        BY DEF IInv, CommittedIndexed, Ids
    <2>7. Streams'
        BY DEF IInv, Streams, StreamsClosed, Store!Closed, Committing, At
    <2> QED
        BY <2>1, <2>2, <2>3, <2>4, <2>5, <2>6, <2>7 DEF IInv
<1> QED
    BY <1>1, <1>2

\* The invariant holds whatever the interleaving of the handles and whatever
\* faults are injected, and whether or not callers go on with a handle that
\* threw: it says where every call stands, what a commit has recorded of what
\* it read, and that the index is tiled.
THEOREM Invariance == Spec => []IInv
<1>1. Init => IInv
    BY InitIInv
<1>2. IInv /\ [Next]_vars => IInv'
    BY NextIInv
<1> QED
    BY <1>1, <1>2, PTL DEF Spec

\* Every variable of a repository keeps its type: in particular, a stream is
\* open only on a vvpkg.bin that exists.
THEOREM TypeCorrect == Spec => []TypeOK
<1>1. IInv => TypeOK
    BY DEF IInv, Types
<1> QED
    BY <1>1, Invariance, PTL

\* The committed rows tile vvpkg.bin, although merge() computes offsets from a
\* snapshot it takes outside the write lock (vfile.cc, 103-130), and whichever
\* of the merges fail or die.
THEOREM TilingInUse == Spec => []IndexTiled
<1>1. IInv => IndexTiled
    BY DEF IInv, IndexTiled, Index!IndexTiled, Index!IInv, Index!Tiled
<1> QED
    BY <1>1, Invariance, PTL

\* No step of any handle moves or drops a row that a manifest relies on.
THEOREM RowsStayInUse == Spec => AppendOnly
<1>1. IInv /\ [Next]_vars =>
          [\A b \in Index!Rows(cblocks) : cblocks'[b] = cblocks[b]]_(Index!vars)
    BY IndexKept DEF IInv
<1> QED
    BY <1>1, Invariance, PTL DEF Spec, AppendOnly, Index!AppendOnly

\* A manifest is written by the one commit that created it, and never again
\* once that commit returned, threw or died: "wxb" (repository.h) refuses
\* every other commit of the name, at whatever moment it comes.
THEOREM ManifestsAreFinal == Spec => ManifestFinal
<1>1. ASSUME IInv, [Next]_vars
      PROVE  [\A r \in Revs : manifest'[r] # manifest[r] =>
                 \/ manifest[r].state = "absent"
                 \/ /\ manifest[r].state = "open"
                    /\ \E h \in Handles : job[h].rev = r /\ Committing(h)]_vars
    BY <1>1, ManifestStep DEF IInv
<1> QED
    BY <1>1, Invariance, PTL DEF Spec, ManifestFinal

\* A commit that returned left a manifest of exactly what its reader yielded,
\* with every id of it in the index, even when the ids it looked up were
\* merged by another commit between its query and its merge (revision.cc,
\* vfile.cc, 103-130).
THEOREM CommitsAreIndexed == Spec => []CommittedIndexed
<1>1. IInv => CommittedIndexed
    BY DEF IInv
<1> QED
    BY <1>1, Invariance, PTL

------------------------------------------------------------------------------
(***************************************************************************)
(* Transactions                                                            *)
(***************************************************************************)
\* A transaction is open inside a merge, or because a call threw out of one.
OpenInCall ==
    \A h \in Handles : txn[h] # "none" =>
        job[h].pc \in {"emit", "feed", "thrown"} \/ job[h].throwing

LEMMA OpenInCallNext ==
    ASSUME ~KeepAfterThrow, Types, Calls, OpenInCall, Next
    PROVE  OpenInCall'
<1>1. PICK h \in Handles : Start(h) \/ Step(h) \/ Keep(h) \/ Crash(h)
    BY DEF Next
<1>2. \A g \in Handles : g # h => job'[g] = job[g] /\ txn'[g] = txn[g]
    BY <1>1, Frame
<1>3. SUFFICES ASSUME txn'[h] # "none"
               PROVE  job'[h].pc \in {"emit", "feed", "thrown"} \/ job'[h].throwing
    BY <1>2 DEF OpenInCall
<1>4. /\ job[h].throwing => job[h].pc \in {"close", "finish"}
      /\ txn \in [Handles -> {"none", "begun", "reading", "writing"}]
    BY DEF Calls, Call, Types, TypeOK, Index!TypeOK
<1>5. ASSUME Throw(h) \/ Thrown(h) PROVE job'[h].throwing \/ job'[h].pc = "thrown"
    BY <1>5, MovesOn
<1> USE DEF At
<1>6. ~MergeCommit(h) /\ ~Discard(h) /\ ~Crash(h)
    <2>1. Disconnect(h) => txn'[h] = "none"
        BY <1>4 DEF Disconnect, Index!Rollback, Index!Close, indexVars
    <2>2. Index!Commit(h) => txn'[h] = "none"
        BY <1>4 DEF Index!Commit, Index!Close
    <2> QED
        BY <1>3, <2>1, <2>2 DEF MergeCommit, Discard, Crash
<1>7. CASE UNCHANGED indexVars
    <2>1. job[h].pc \in {"emit", "feed", "thrown"} \/ job[h].throwing
        BY <1>3, <1>7 DEF OpenInCall, indexVars
    <2>2. CASE CloseStore(h)
        <3>1. Moved(job[h], job'[h], "finish") /\ At(h, "close")
            BY <2>2, MovesOn DEF CloseStore
        <3> QED
            BY <2>1, <3>1 DEF Moved
    <2>3. CASE CloseRevision(h)
        BY <1>5, <2>1, <2>3 DEF CloseRevision
    <2>4. CASE job[h].pc \notin {"emit", "feed", "thrown", "close", "finish"}
        BY <1>4, <2>1, <2>4
    <2>5. CASE Emit(h) \/ Feed(h)
        BY Zenon, <2>5, Moves DEF Moved
    <2> QED
        BY Zenon, <1>1, <1>4, <1>5, <1>6, <2>2, <2>3, <2>4, <2>5
        DEF Start, NewRevision, NewRevisionFails, List, ListUnparsable, ListRefused,
            StartsCheckout, Step, Consume, ConsumeFails, AssignBlocks, AssignFails,
            MergeBegin, EmitFails, FeedFails, OpenBin, CopyRange, CopyFails, EndCopy,
            Flush, Keep
<1>8. CASE MergeBegin(h)
    BY <1>5, <1>8, MovesOn DEF MergeBegin, Moved
<1>9. CASE Feed(h)
    BY Zenon, <1>9, Moves DEF Moved
<1>10. CASE FeedFails(h)
    BY <1>5, <1>10 DEF FeedFails
<1>11. CASE \E r \in Revs : ListUnparsable(h, r)
    BY <1>5, <1>11 DEF ListUnparsable
<1> QED
    BY Zenon, <1>1, <1>7, <1>8, <1>6, <1>9, <1>10, <1>11
    DEF Start, NewRevision, NewRevisionFails, List, ListRefused, Step, Consume, ConsumeFails,
        AssignBlocks, AssignFails, Emit, EmitFails, CloseStore, CloseRevision, OpenBin,
        CopyRange, CopyFails, EndCopy, Flush, Keep

\* As long as callers destroy a handle that threw, nobody holds the write
\* lock of vvpkg.db but a merge that runs, or the owner of a handle that has
\* not destroyed it yet: no path out of commit() or list() leaks it.
THEOREM LockIsReleased ==
    ASSUME ~KeepAfterThrow
    PROVE  Spec => []LockHeldByCall
<1>1. Init => OpenInCall
    BY DEF Init, Index!Init, OpenInCall
<1>2. ASSUME IInv, OpenInCall, [Next]_vars
      PROVE  OpenInCall'
    <2>1. CASE Next
        BY <1>2, <2>1, OpenInCallNext DEF IInv
    <2>2. CASE UNCHANGED vars
        BY <1>2, <2>2 DEF OpenInCall, vars, indexVars
    <2> QED
        BY <1>2, <2>1, <2>2
<1>3. OpenInCall => LockHeldByCall
    BY DEF OpenInCall, LockHeldByCall
<1> QED
    BY <1>1, <1>2, <1>3, Invariance, PTL DEF Spec

------------------------------------------------------------------------------
(***************************************************************************)
(* The data, one commit at a time                                          *)
(***************************************************************************)
LEMMA AloneNext ==
    ASSUME SerialCommits, Types, Calls, Alone, Next
    PROVE  Alone'
<1>1. PICK h \in Handles : Start(h) \/ Step(h) \/ Keep(h) \/ Crash(h)
    BY DEF Next
<1>2. \A g \in Handles : g # h => (Committing(g)' <=> Committing(g))
    BY <1>1, Frame DEF Committing
<1>3. CASE Committing(h)
    BY <1>2, <1>3 DEF Alone
<1>4. CASE ~Committing(h)'
    BY <1>2, <1>4 DEF Alone
<1>5. CASE ~Committing(h) /\ Committing(h)'
    <2>1. \E r \in Revs : Begins(h, r)
        BY <1>1, <1>5, Records DEF Continues, Ends, Bystands
    <2>2. \E r \in Revs : \E input \in Inputs : NewRevision(h, r, input)
        <3>1. ~Thrown(h) /\ job' # [job EXCEPT ![h] = Idle] /\ ~Goto(h, "copy") /\ ~Goto(h, "flush")
            BY <1>5, MovesOn DEF Moved, Committing, CommitPcs
        <3>2. ~CopyRange(h) /\ \A r \in Revs : ~List(h, r)
            BY Zenon, <1>5, Moves, Starts DEF CopyRange, Committing, CommitPcs
        <3> QED
            BY Zenon, <1>1, <1>5, <3>1, <3>2
            DEF Start, NewRevisionFails, ListUnparsable, ListRefused, Step, Consume,
                ConsumeFails, AssignBlocks, AssignFails, MergeBegin, Emit, EmitFails, Feed,
                FeedFails, MergeCommit, CloseStore, CloseRevision, OpenBin, CopyFails,
                EndCopy, Flush, Discard, Keep, Crash, At, Committing, CommitPcs
    <2>3. \A g \in Handles : ~Committing(g)
        BY <2>2 DEF NewRevision
    <2> QED
        BY <1>2, <2>3 DEF Alone
<1> QED
    BY <1>3, <1>4, <1>5

\* Nobody but h has a stream open: what arrives is what is in h's stream, or
\* behind it in the file.
LEMMA ArrivesIn ==
    ASSUME Store!TypeOK(Cells), StreamsClosed, NEW h \in Handles,
           \A g \in Handles : g # h => ~fp[g].open
    PROVE  \A p \in Nat : \A c : Arrives(p, c) <=> In(h, p, c)
<1>1. \A g \in Handles : \A p \in Nat : g # h => ~Buffers(fp[g], p)
    <2>1. SUFFICES ASSUME NEW g \in Handles, NEW p \in Nat, g # h PROVE ~Buffers(fp[g], p)
        OBVIOUS
    <2>2. fp[g] = Store!Closed
        BY <2>1 DEF StreamsClosed
    <2>3. fp[g].pos = 0 /\ Len(fp[g].buf) = 0
        BY <2>2 DEF Store!Closed
    <2> QED
        BY <2>3 DEF Buffers
<1> QED
    BY <1>1 DEF Arrives, In, Flushing, Written

LEMMA ArrivesInNext ==
    ASSUME Store!TypeOK(Cells)', StreamsClosed', NEW h \in Handles,
           \A g \in Handles : g # h => ~fp'[g].open
    PROVE  \A p \in Nat : \A c : Arrives(p, c)' <=> In(h, p, c)'
<1>1. \A g \in Handles : \A p \in Nat : g # h => ~Buffers(fp'[g], p)
    <2>1. SUFFICES ASSUME NEW g \in Handles, NEW p \in Nat, g # h PROVE ~Buffers(fp'[g], p)
        OBVIOUS
    <2>2. fp'[g] = Store!Closed
        BY <2>1 DEF StreamsClosed, Store!Closed
    <2>3. fp'[g].pos = 0 /\ Len(fp'[g].buf) = 0
        BY <2>2 DEF Store!Closed
    <2> QED
        BY <2>3 DEF Buffers
<1> QED
    BY <1>1 DEF Arrives, In, Flushing, Written

\* A step of a call that is no commit leaves the data and the index alone.
Quiet == /\ bin' = bin /\ fp' = fp /\ cblocks' = cblocks /\ lost \subseteq lost'
         /\ \A r \in Revs : outcome'[r] = "ok" => outcome[r] = "ok" /\ content'[r] = content[r]

LEMMA BystanderIsQuiet ==
    ASSUME Types, Calls, Streams, NEW h \in Handles, ~Committing(h),
           Start(h) \/ Step(h) \/ Keep(h) \/ Crash(h)
    PROVE  Quiet /\ ~Merging(h)' /\ ~At(h, "begin")' /\ ~fp[h].open
<1>1. fp[h] = Store!Closed /\ ~fp[h].open
    BY DEF Streams, StreamsClosed
<1>2. (\E r \in Revs : Begins(h, r)) \/ Bystands(h)
    BY Records DEF Continues, Ends
<1>3. \A r \in Revs : outcome'[r] = "ok" => outcome[r] = "ok" /\ content'[r] = content[r]
    BY <1>2 DEF Begins, Bystands, Kept, KeptBut
<1>4. ~Merging(h)' /\ ~At(h, "begin")'
    BY <1>2 DEF Begins, Bystands, Merging, Committing, CommitPcs, At
<1>5. fp \in [Handles -> Streaming]
    BY StoreParts DEF Types, TypeOK
<1>6. Disconnect(h) => cblocks' = cblocks
    BY DEF Disconnect, Index!Rollback, indexVars
<1>7. Store!Lose(h) => bin' = bin /\ fp' = fp
    BY <1>1, <1>5 DEF Store!Lose
<1>8. bin' = bin /\ fp' = fp /\ cblocks' = cblocks /\ lost \subseteq lost'
    BY Zenon, <1>6, <1>7
    DEF indexVars, storeVars, history, Start, NewRevision, NewRevisionFails, List,
        ListUnparsable, ListRefused, Index!Begin, Step, Consume, ConsumeFails, AssignBlocks,
        AssignFails, MergeBegin, Emit, EmitFails, Feed, FeedFails, MergeCommit, CloseStore,
        CloseRevision, OpenBin, CopyRange, CopyFails, EndCopy, Flush, Discard, Keep, Crash,
        At, Committing, CommitPcs
<1> QED
    BY <1>1, <1>3, <1>4, <1>8 DEF Quiet

LEMMA QuietKeeps ==
    ASSUME Types, Quiet, SerialInv
    PROVE  Holds(cblocks)' /\ Settled'
<1>1. \A p, c : /\ Arrives(p, c)' <=> Arrives(p, c)
                /\ Written(p, c)' <=> Written(p, c)
    BY DEF Quiet, Arrives, Written, On, Buffers
<1>2. Holds(cblocks)'
    BY <1>1 DEF Quiet, SerialInv, Holds, Stored
<1>3. Settled'
    <2>1. SUFFICES ASSUME NEW r \in Revs, outcome'[r] = "ok", NEW b \in Ids(content'[r])
                   PROVE  /\ b \in lost' \/ \A i \in 1..Size[b] : Written(cblocks[b] + i, <<b, i>>)
                          /\ \A h \in Handles : fp[h].open => Index!End(cblocks, b) <= fp[h].pos
        BY <1>1 DEF Settled, Quiet, Ids, Index!End, Written
    <2>2. outcome[r] = "ok" /\ b \in Ids(content[r])
        BY <2>1 DEF Quiet
    <2> QED
        BY <2>1, <2>2 DEF SerialInv, Settled, Quiet
<1> QED
    BY <1>2, <1>3

LEMMA BystanderSerial ==
    ASSUME Types, Calls, Streams, SerialInv, NEW h \in Handles, ~Committing(h),
           Start(h) \/ Step(h) \/ Keep(h) \/ Crash(h)
    PROVE  Holds(cblocks)' /\ Settled' /\ \A g \in Handles : InCommit(g)'
<1>1. Quiet /\ ~Merging(h)' /\ ~At(h, "begin")' /\ ~fp[h].open
    BY BystanderIsQuiet
<1>2. InCommit(h)'
    BY <1>1 DEF Quiet, InCommit, Snapshot, Position, Carries, Merging, At
<1>3. ASSUME NEW g \in Handles, g # h PROVE InCommit(g)'
    <2>1. /\ job'[g] = job[g] /\ fp'[g] = fp[g] /\ txn'[g] = txn[g]
          /\ view'[g] = view[g] /\ offset'[g] = offset[g]
        BY <1>3, Frame
    <2>2. \A p, c : Arrives(p, c)' <=> Arrives(p, c)
        BY <1>1 DEF Quiet, Arrives, Written, On, Buffers
    <2>3. InCommit(g)
        BY DEF SerialInv
    <2>4. Snapshot(g)'
        BY <1>1, <2>1, <2>3 DEF Quiet, InCommit, Snapshot, Merging, At, Ids
    <2>5. Position(g)'
        BY <1>1, <2>1, <2>3
        DEF Quiet, InCommit, Position, At, Index!GetSize, Index!Rows, Index!End, Index!IsLast
    <2>6. Carries(g)'
        BY <1>1, <2>1, <2>2, <2>3 DEF Quiet, InCommit, Carries, Holds, Stored, Merging, At
    <2> QED
        BY <2>4, <2>5, <2>6 DEF InCommit
<1> QED
    BY <1>1, <1>2, <1>3, QuietKeeps

LEMMA OthersSerial ==
    ASSUME Types, Calls, Streams, SerialInv, NEW h \in Handles, Committing(h),
           Start(h) \/ Step(h) \/ Keep(h) \/ Crash(h)
    PROVE  \A g \in Handles : g # h =>
              ~Committing(g) /\ ~fp[g].open /\ ~fp'[g].open /\ InCommit(g)'
<1>1. SUFFICES ASSUME NEW g \in Handles, g # h
               PROVE  ~Committing(g) /\ ~fp[g].open /\ ~fp'[g].open /\ InCommit(g)'
    OBVIOUS
<1>2. ~Committing(g) /\ ~fp[g].open
    BY <1>1 DEF SerialInv, Alone, Streams
<1>3. job'[g] = job[g] /\ fp'[g] = fp[g]
    BY <1>1, Frame
<1>4. job'[g].pc \notin CommitPcs
    BY <1>2, <1>3 DEF Committing
<1> QED
    BY <1>2, <1>3, <1>4
    DEF InCommit, Snapshot, Position, Carries, Merging, At, CommitPcs

\* Nothing is said of a commit that is on its way out.
LEMMA LeavingInCommit ==
    ASSUME NEW h \in Handles, job'[h].pc \in {"close", "finish", "idle", "thrown"}
    PROVE  InCommit(h)'
BY DEF InCommit, Snapshot, Position, Carries, Merging, At

LEMMA QuietInCommit ==
    ASSUME Types, Calls, Owned, NEW h \in Handles, Continues(h),
           bin' = bin, fp' = fp, cblocks' = cblocks, lost' = lost
    PROVE  Quiet
BY DEF Quiet, Continues, KeptBut, Kept, Owned

\* The missing ids differ from each other.
LEMMA MissingOnce ==
    ASSUME Types, NEW h \in Handles, InOrder(h), job[h].missing # << >>
    PROVE  Head(job[h].missing) \notin Ids(Tail(job[h].missing))
<1> DEFINE bs == job[h].bs
           ms == job[h].missing
<1>1. bs \in Seq(Blocks) /\ ms \in Seq(Blocks)
    BY DEF Types, Jobs
<1>2. /\ Head(ms) = ms[1] /\ 1 \in DOMAIN ms
      /\ \A n \in DOMAIN Tail(ms) : n + 1 \in DOMAIN ms /\ Tail(ms)[n] = ms[n + 1] /\ n \in Nat
    BY <1>1, IdsTail
<1>3. \A n \in DOMAIN Tail(ms) : 1 < n + 1
    BY <1>1
<1>4. DOMAIN bs \subseteq Nat
    BY <1>1
<1> DEFINE mt == Tail(ms)
<1>5. /\ \A n \in DOMAIN ms : \E i \in DOMAIN bs : FirstAt(bs, ms[n], i)
      /\ \A m, n \in DOMAIN ms : m < n =>
            \A i, j \in DOMAIN bs : FirstAt(bs, ms[m], i) /\ FirstAt(bs, ms[n], j) => i < j
    BY DEF InOrder
<1>6. SUFFICES ASSUME NEW n \in DOMAIN mt, mt[n] = ms[1] PROVE FALSE
    BY <1>2 DEF Ids
<1> HIDE DEF bs, ms, mt
<1>7. n + 1 \in DOMAIN ms /\ ms[n + 1] = ms[1] /\ 1 < n + 1
    BY <1>2, <1>3, <1>6 DEF mt
<1>8. PICK i \in DOMAIN bs : FirstAt(bs, ms[1], i)
    BY <1>2, <1>5
<1>9. i < i
    BY <1>2, <1>5, <1>7, <1>8
<1> QED
    BY <1>4, <1>9

\* The first half of a merge, up to the rows.
LEMMA QuietSerial ==
    ASSUME IInv, SerialInv, NEW h \in Handles, Committing(h),
           \/ Consume(h) \/ ConsumeFails(h) \/ AssignBlocks(h) \/ AssignFails(h)
           \/ MergeBegin(h) \/ Feed(h) \/ FeedFails(h)
           \/ EmitFails(h) /\ Store!OpenFails(h)
    PROVE  Holds(cblocks)' /\ Settled' /\ InCommit(h)'
<1>1. Types /\ Calls /\ Owned /\ Streams /\ Index!IInv
    BY DEF IInv
<1>2. cblocks' = cblocks /\ bin' = bin /\ fp' = fp /\ lost' = lost
    BY Zenon DEF Consume, ConsumeFails, AssignBlocks, AssignFails, MergeBegin, Index!BeginMerge,
           Feed, Index!Feed, FeedFails, Index!FeedBusy, Index!vars, Index!FeedConstraint,
           EmitFails, Store!OpenFails, indexVars, storeVars, history
<1>3. Continues(h)
    <2>1. Committing(h)'
        <3>1. job'[h].pc \in CommitPcs
            <4>1. ASSUME Throw(h) PROVE job'[h].pc \in CommitPcs
                BY <1>1, <4>1, MovesOn DEF CommitPcs
            <4>2. ASSUME NEW p \in {"close", "emit"}, Goto(h, p) PROVE job'[h].pc \in CommitPcs
                BY <1>1, <4>2, MovesOn DEF CommitPcs, Moved
            <4>3. ASSUME (Consume(h) /\ job[h].input # << >>) \/ AssignBlocks(h) \/ Feed(h)
                  PROVE  job'[h].pc \in CommitPcs
                BY Zenon, <1>1, <4>3, Moves DEF CommitPcs, Moved
            <4> QED
                BY Zenon, <4>1, <4>2, <4>3
                DEF Consume, ConsumeFails, AssignFails, MergeBegin, FeedFails, EmitFails
        <3> QED
            BY <3>1 DEF Committing
    <2> QED
        BY <1>1, <2>1, Records DEF Begins, Ends, Bystands, Step
<1>4. Quiet
    BY <1>1, <1>2, <1>3, QuietInCommit
<1>5. Holds(cblocks)' /\ Settled'
    BY <1>1, <1>4, QuietKeeps
<1>6. \A p, c : Arrives(p, c)' <=> Arrives(p, c)
    BY <1>2 DEF Arrives, Written, On, Buffers
<1>7. InCommit(h) /\ Holds(cblocks)
    BY DEF SerialInv
<1>8. Throw(h) => InCommit(h)'
    BY <1>1, MovesOn, LeavingInCommit
<1> SUFFICES InCommit(h)'
    BY <1>5
<1> USE DEF InCommit, Moved, Unread, Unmerged
<1>9. CASE Consume(h)
    <2>1. CASE job[h].input = << >>
        <3>1. Goto(h, "close")
            BY <1>9, <2>1 DEF Consume
        <3> QED
            BY <1>1, <3>1, MovesOn, LeavingInCommit
    <2>2. CASE job[h].input # << >>
        <3>1. job'[h].pc = "assign" /\ job[h].pc = "consume"
            BY Zenon, <1>1, <1>9, <2>2, Moves DEF Consume, At
        <3> QED
            BY <1>2, <1>7, <3>1
            DEF Snapshot, Position, Carries, Merging, At, Index!GetSize, Index!Rows,
                Index!End, Index!IsLast
    <2> QED
        BY <2>1, <2>2
<1>10. CASE AssignBlocks(h)
    <2>1. job'[h].pc = "begin" /\ job[h].pc = "assign" /\ job'[h].missing = Missing(job[h].bs)
        BY Zenon, <1>1, <1>10, Moves DEF AssignBlocks, At
    <2>2. \A b \in Ids(Missing(job[h].bs)) : cblocks[b] = NoOffset
        <3>1. job[h].bs \in Seq(Blocks)
            BY <1>1 DEF Types, Jobs
        <3> QED
            BY <3>1, MissingIs
    <2>3. Snapshot(h)'
        BY <1>2, <2>1, <2>2 DEF Snapshot, Merging, At, Ids
    <2> QED
        BY <1>2, <1>7, <2>1, <2>3
        DEF Position, Carries, Merging, At, Index!GetSize, Index!Rows,
            Index!End, Index!IsLast
<1>11. CASE MergeBegin(h)
    <2>1. CASE Throw(h)
        BY <1>8, <2>1
    <2>2. CASE Index!BeginMerge(h) /\ Goto(h, "emit") /\ job[h].pc = "begin"
        <3>1. job'[h].pc = "emit" /\ job'[h].missing = job[h].missing
            BY <1>1, <2>2, MovesOn
        <3>2. view'[h] = cblocks /\ offset'[h] = Index!GetSize(cblocks)
            BY <1>1, <2>2 DEF Index!BeginMerge, Index!IInv, Index!TypeOK
        <3>3. Snapshot(h)'
            BY <1>2, <1>7, <2>2, <3>1, <3>2 DEF Snapshot, Merging, At, Ids
        <3>4. Position(h)'
            BY <1>2, <1>7, <2>2, <3>1, <3>2 DEF Position, At
        <3>5. Holds(view[h])'
            BY <1>2, <1>6, <1>7, <3>2 DEF Holds, Stored
        <3> QED
            BY <3>1, <3>3, <3>4, <3>5 DEF Carries, At
    <2> QED
        BY <1>11, <2>1, <2>2 DEF MergeBegin, At
<1>12. CASE Feed(h)
    <2> DEFINE ms == job[h].missing
               b  == Head(ms)
    <2>1. /\ job'[h].pc = "emit" /\ job[h].pc = "feed" /\ job'[h].missing = Tail(ms)
          /\ Index!Feed(h, b)
        BY Zenon, <1>1, <1>12, Moves DEF Feed, At
    <2>2. ms \in Seq(Blocks) /\ ms # << >> /\ b \in Blocks
        BY <1>1, <2>1, HeadMissing DEF Calls, Call, At
    <2>3. b \notin Ids(Tail(ms)) /\ \A d \in Ids(Tail(ms)) : d \in Ids(ms)
        <3>1. OnTrack(h) /\ ~job[h].throwing
            BY <1>1, <2>1 DEF IInv, Commits, Calls, Call
        <3>2. InOrder(h)
            BY <2>1, <3>1 DEF OnTrack, Merging
        <3> QED
            BY <1>1, <2>2, <3>2, MissingOnce, IdsTail DEF Ids
    <2>4. /\ view'[h] = [view[h] EXCEPT ![b] = offset[h]] /\ view[h] \in Index!Tables
          /\ offset'[h] = offset[h] + Size[b] /\ txn'[h] = "writing"
        BY <1>1, <2>1 DEF Index!Feed, Index!IInv, Index!TypeOK
    <2>5. Snapshot(h) /\ Position(h) /\ Carries(h)
        BY <1>7
    <2> HIDE DEF b
    <2>6. Snapshot(h)'
        <3>1. ASSUME NEW d \in Ids(Tail(ms)) PROVE view'[h][d] = NoOffset
            <4>1. view[h][d] = NoOffset /\ d # b
                BY <2>1, <2>3, <2>5, <3>1 DEF Snapshot, Merging
            <4> QED
                BY <2>4, <4>1 DEF Index!Tables
        <3> QED
            BY <2>1, <2>4, <3>1 DEF Snapshot, Merging, At, Ids
    <2>7. Position(h)'
        BY <1>2, <2>1, <2>4, <2>5 DEF Position, At, b
    <2>8. Holds(view[h])'
        <3>1. Holds(view[h]) /\ Stored(b, offset[h])
            BY <2>1, <2>5 DEF Carries, Merging, At, b
        <3>2. SUFFICES ASSUME NEW d \in Blocks, view'[h][d] # NoOffset, d \notin lost,
                              NEW i \in 1..Size[d]
                       PROVE  Arrives(view'[h][d] + i, <<d, i>>)
            BY <1>2, <1>6 DEF Holds, Stored
        <3>3. CASE d = b
            BY <2>2, <2>4, <3>1, <3>2, <3>3 DEF Stored, Index!Tables
        <3>4. CASE d # b
            BY <2>2, <2>4, <3>1, <3>2, <3>4 DEF Holds, Stored, Index!Tables
        <3> QED
            BY <3>3, <3>4
    <2> QED
        BY <2>1, <2>6, <2>7, <2>8 DEF Carries, At
<1> QED
    BY <1>8, <1>9, <1>10, <1>11, <1>12 DEF ConsumeFails, AssignFails, FeedFails, EmitFails

\* A merge sees every row that is published, and every row it sees ends
\* before the offset it feeds next.
LEMMA RowsBehind ==
    ASSUME IInv, NEW h \in Handles, Merging(h), Snapshot(h)
    PROVE  \A b \in Blocks :
              /\ cblocks[b] # NoOffset => view[h][b] = cblocks[b]
              /\ view[h][b] # NoOffset =>
                    /\ view[h][b] \in Nat /\ view[h][b] + Size[b] <= offset[h]
<1>1. Index!IInv /\ txn[h] \in {"reading", "writing"}
    BY DEF IInv, Calls, Call
<1>2. view[h] \in Index!Tables /\ Index!Tiled(view[h], offset[h])
    BY <1>1 DEF Index!IInv, Index!TypeOK, Index!ViewsTiled, Index!ReadsOrWrites
<1>3. \A b \in Blocks : view[h][b] # NoOffset => view[h][b] \in Nat /\ view[h][b] + Size[b] <= offset[h]
    BY <1>2 DEF Index!Tables, Index!Tiled, Index!EndsAt, Index!Rows, Index!End
<1>4. \A b \in Blocks : cblocks[b] # NoOffset => view[h][b] = cblocks[b]
    BY <1>1 DEF Snapshot, Index!IInv, Index!WriterUpToDate, Index!Rows
<1> QED
    BY <1>3, <1>4

LEMMA AcceptSerial ==
    ASSUME IInv, Store!TypeOK(Cells)', SerialInv, NEW h \in Handles, At(h, "emit"),
           \A g \in Handles : g # h => ~fp[g].open,
           NEW x \in Seq(Cells), Store!Accept(h, offset[h], x), UNCHANGED indexVars,
           content' = content, outcome' = outcome,
           \A b \in Blocks : b \in lost /\ view[h][b] # NoOffset => b \in lost'
    PROVE  /\ Holds(cblocks)' /\ Holds(view[h])' /\ Settled'
           /\ fp'[h].open /\ fp'[h].pos + Len(fp'[h].buf) = offset[h] + Len(x)
           /\ \A i \in 1..Len(x) : \A c \in {x[i]}, p \in {offset[h] + i} : Arrives(p, c)'
<1> DEFINE n  == offset[h]
           at == StartsAt(h, n)
<1>1. /\ Types /\ Streams /\ Store!TypeOK(Cells) /\ StreamsClosed /\ n \in Nat
      /\ Snapshot(h) /\ Position(h) /\ Carries(h) /\ Merging(h)
    BY OffsetType DEF IInv, Streams, Types, TypeOK, SerialInv, InCommit, Merging, At
<1>2. /\ fp[h] \in Streaming /\ GrowsAt(h, n) = n
      /\ ~fp[h].open => at = n
      /\ fp[h].open => at = fp[h].pos
    BY <1>1, StoreParts DEF Position, StartsAt, GrowsAt
<1>3. /\ StreamsClosed' /\ \A g \in Handles : g # h => fp'[g] = fp[g]
      /\ fp'[h].open /\ fp'[h].pos >= at
      /\ fp'[h].pos + Len(fp'[h].buf) = n + Len(x)
      /\ fp[h].open \/ n # 0 =>
            /\ \A p \in Nat : \A c : p <= n /\ In(h, p, c) => In(h, p, c)'
            /\ \A p \in Nat : \A c : p <= at /\ Written(p, c) => Written(p, c)'
      /\ \A i \in 1..Len(x) : \A c \in {x[i]}, p \in {n + i} : In(h, p, c)'
    BY <1>1, <1>2, AcceptIs DEF StreamsClosed
<1>4. fp'[h] \in Streaming
    BY DEF Store!TypeOK, Streaming
<1>5. \A p \in Nat : \A c : (Arrives(p, c) <=> In(h, p, c)) /\ (Arrives(p, c)' <=> In(h, p, c)')
    BY <1>1, <1>3, ArrivesIn, ArrivesInNext
<1>6. at \in Nat /\ fp'[h].pos \in Nat
    BY <1>1, <1>2, <1>4 DEF Streaming
<1> HIDE DEF n, at
<1>7. \A p \in Nat : \A c : 0 < p /\ p <= n /\ Arrives(p, c) => Arrives(p, c)'
    BY <1>1, <1>2, <1>3, <1>5
<1>8. \A p \in Nat : \A c : 0 < p /\ p <= at /\ Written(p, c) => Written(p, c)'
    <2>1. ~(fp[h].open \/ n # 0) => at = 0
        BY <1>2
    <2> QED
        BY <1>3, <1>6, <2>1
<1>9. \A b \in Blocks :
         /\ cblocks[b] # NoOffset => view[h][b] = cblocks[b]
         /\ view[h][b] # NoOffset => view[h][b] \in Nat /\ view[h][b] + Size[b] <= n
    BY <1>1, RowsBehind DEF n
<1>10. ASSUME NEW v, Holds(v), \A b \in Blocks : v[b] # NoOffset => view[h][b] = v[b],
              NEW b \in Blocks, v[b] # NoOffset, b \notin lost', NEW i \in 1..Size[b]
       PROVE  \A p \in {v[b] + i} : Arrives(p, <<b, i>>)'
    <2>1. Size[b] \in Nat /\ i \in Nat /\ 0 < i /\ i <= Size[b] /\ v[b] \in Nat /\ v[b] + Size[b] <= n
        BY <1>9, <1>10, Constants
    <2>2. b \notin lost
        BY <1>10
    <2>3. Arrives(v[b] + i, <<b, i>>)
        BY <1>10, <2>2 DEF Holds, Stored
    <2> DEFINE q == v[b] + i
    <2>4. q \in Nat /\ 0 < q /\ q <= n
        BY <1>1, <2>1 DEF n
    <2> HIDE DEF q
    <2>5. Arrives(q, <<b, i>>)'
        BY <1>7, <2>3, <2>4 DEF q
    <2> QED
        BY <2>5 DEF q
<1>11. cblocks' = cblocks /\ view' = view
    BY DEF indexVars
<1>12. Holds(cblocks)' /\ Holds(view[h])'
    <2>1. Holds(cblocks) /\ Holds(view[h])
        BY <1>1 DEF SerialInv, Carries
    <2>2. Holds(cblocks)'
        BY <1>9, <1>10, <1>11, <2>1 DEF Holds, Stored
    <2>3. Holds(view[h])'
        BY <1>10, <1>11, <2>1 DEF Holds, Stored
    <2> QED
        BY <2>2, <2>3
<1>13. Settled'
    <2>1. SUFFICES ASSUME NEW r \in Revs, outcome[r] = "ok", NEW b \in Ids(content[r])
                   PROVE  /\ b \in lost' \/ \A i \in 1..Size[b] : \A p \in {cblocks[b] + i} :
                                                Written(p, <<b, i>>)'
                          /\ Index!End(cblocks, b) <= fp'[h].pos
        <3>1. \A g \in Handles : fp'[g].open => g = h
            BY <1>3
        <3> QED
            BY <1>11, <3>1 DEF Settled, Ids, Index!End
    <2>2. b \in Blocks
        BY <2>1 DEF IInv, Types, TypeOK, Ids
    <2>3. cblocks[b] # NoOffset
        BY <2>1 DEF IInv, CommittedIndexed
    <2>4. view[h][b] = cblocks[b] /\ cblocks[b] \in Nat /\ cblocks[b] + Size[b] <= n
        BY <1>9, <2>2, <2>3
    <2>5. /\ b \in lost \/ \A i \in 1..Size[b] : Written(cblocks[b] + i, <<b, i>>)
          /\ fp[h].open => cblocks[b] + Size[b] <= fp[h].pos
        BY <2>1 DEF SerialInv, Settled, Index!End
    <2>6. cblocks[b] + Size[b] <= at
        BY <1>2, <2>4, <2>5
    <2>7. Size[b] \in Nat
        BY <2>2, Constants
    <2>8. cblocks[b] + Size[b] <= fp'[h].pos
        BY <1>3, <1>6, <2>4, <2>6, <2>7
    <2>9. b \in lost => b \in lost'
        BY <2>2, <2>3, <2>4
    <2>10. ASSUME NEW i \in 1..Size[b], NEW p \in {cblocks[b] + i}, b \notin lost
           PROVE  Written(p, <<b, i>>)'
        <3>1. i \in Nat /\ 0 < i /\ i <= Size[b]
            BY <2>7
        <3>2. p \in Nat /\ 0 < p /\ p <= at
            BY <1>6, <2>4, <2>6, <2>7, <3>1
        <3>3. Written(p, <<b, i>>)
            BY <2>5, <2>10
        <3> QED
            BY <1>8, <3>2, <3>3
    <2> QED
        BY <2>8, <2>9, <2>10 DEF Index!End
<1>14. \A i \in 1..Len(x) : \A c \in {x[i]}, p \in {n + i} : Arrives(p, c)'
    BY <1>1, <1>3, <1>5 DEF n
<1> QED
    BY <1>3, <1>12, <1>13, <1>14 DEF n

LEMMA EmitSerial ==
    ASSUME IInv, Store!TypeOK(Cells)', SerialInv, NEW h \in Handles,
           Emit(h) \/ (EmitFails(h) /\ ~Store!OpenFails(h)),
           \A g \in Handles : g # h => ~fp[g].open
    PROVE  Holds(cblocks)' /\ Settled' /\ InCommit(h)'
<1> DEFINE b == Head(job[h].missing)
<1>1. Types /\ Calls /\ At(h, "emit") /\ Found(h) # {} /\ UNCHANGED indexVars
      /\ content' = content /\ outcome' = outcome
    BY DEF IInv, Emit, EmitFails, history
<1>2. b \in Blocks /\ job[h].missing # << >> /\ job[h].bs[Min(Found(h))] = b
    BY <1>1, FoundIs
<1>3. view[h][b] = NoOffset
    <2>1. b \in Ids(job[h].missing)
        <3>1. job[h].missing \in Seq(Blocks)
            BY <1>1 DEF Types, Jobs
        <3> QED
            BY <1>2, <3>1, IdsTail DEF Ids
    <2> QED
        BY <1>1, <2>1 DEF SerialInv, InCommit, Snapshot, Merging, At
<1> HIDE DEF b
<1>4. CASE EmitFails(h) /\ ~Store!OpenFails(h)
    <2>1. PICK x \in Seq(Cells) : Store!Accept(h, offset[h], x)
        BY <1>1, <1>4, EmitFailsIs
    <2>2. lost' = lost /\ Throw(h)
        BY <1>4 DEF EmitFails, history
    <2>3. Holds(cblocks)' /\ Settled'
        BY <1>1, <2>1, <2>2, AcceptSerial
    <2>4. InCommit(h)'
        BY <1>1, <2>2, MovesOn, LeavingInCommit
    <2> QED
        BY <2>3, <2>4
<1>5. CASE Emit(h)
    <2>1. Store!Accept(h, offset[h], Data(b)) /\ lost' = lost \ {b}
        BY <1>2, <1>5 DEF Emit, b
    <2>2. Data(b) \in Seq(Cells) /\ Len(Data(b)) = Size[b] /\ \A i \in 1..Size[b] : Data(b)[i] = <<b, i>>
        BY <1>2, DataType
    <2>3. /\ Holds(cblocks)' /\ Holds(view[h])' /\ Settled'
          /\ fp'[h].open /\ fp'[h].pos + Len(fp'[h].buf) = offset[h] + Len(Data(b))
          /\ \A i \in 1..Len(Data(b)) : \A c \in {Data(b)[i]}, p \in {offset[h] + i} : Arrives(p, c)'
        BY <1>1, <1>2, <1>3, <2>1, <2>2, AcceptSerial
    <2>4. job'[h].pc = "feed" /\ job'[h].missing = job[h].missing
        BY Zenon, <1>1, <1>5, Moves DEF Moved
    <2>5. cblocks' = cblocks /\ view' = view /\ txn' = txn /\ offset' = offset
        BY <1>1 DEF indexVars
    <2>6. Snapshot(h)'
        BY <1>1, <2>4, <2>5 DEF SerialInv, InCommit, Snapshot, Merging, At, Ids
    <2>7. Position(h)'
        BY <2>2, <2>3, <2>4, <2>5 DEF Position, At, b
    <2>8. Carries(h)'
        <3>1. ASSUME NEW i \in 1..Size[b], NEW p \in {offset[h] + i}, NEW c \in {<<b, i>>}
              PROVE  Arrives(p, c)'
            <4>1. c \in {Data(b)[i]} /\ i \in 1..Len(Data(b))
                BY Zenon, <2>2
            <4> QED
                BY <2>3, <4>1, Zenon
        <3>2. Stored(b, offset[h])'
            BY <2>4, <2>5, <3>1 DEF Stored, b
        <3> QED
            BY <2>3, <2>4, <3>2 DEF Carries, At, Merging, b
    <2> QED
        BY <2>3, <2>6, <2>7, <2>8 DEF InCommit
<1> QED
    BY <1>4, <1>5

\* "commit" publishes what was stored, up to where the stream stands.
LEMMA MergeCommitSerial ==
    ASSUME IInv, SerialInv, NEW h \in Handles, MergeCommit(h),
           \A g \in Handles : g # h => ~fp[g].open
    PROVE  Holds(cblocks)' /\ Settled' /\ InCommit(h)'
<1>1. Index!IInv /\ Types /\ At(h, "emit") /\ Merging(h) /\ Index!Commit(h)
      /\ bin' = bin /\ fp' = fp /\ lost' = lost /\ content' = content /\ outcome' = outcome
    BY DEF IInv, MergeCommit, storeVars, history, Merging, At
<1>2. /\ txn[h] \in {"reading", "writing"} /\ Snapshot(h) /\ Position(h) /\ Carries(h)
      /\ Holds(cblocks) /\ Settled
    BY <1>1 DEF IInv, Calls, Call, SerialInv, InCommit
<1>3. cblocks' = view[h]
    BY <1>1, <1>2 DEF Index!Commit, Snapshot
<1>4. \A p, c : (Arrives(p, c)' <=> Arrives(p, c)) /\ (Written(p, c)' <=> Written(p, c))
    BY <1>1 DEF Arrives, Written, On, Buffers
<1>5. Holds(cblocks)'
    BY <1>1, <1>2, <1>3, <1>4 DEF Carries, Holds, Stored
<1>6. Settled'
    <2>1. SUFFICES ASSUME NEW r \in Revs, outcome[r] = "ok", NEW b \in Ids(content[r])
                   PROVE  /\ b \in lost \/ \A i \in 1..Size[b] : Written(view[h][b] + i, <<b, i>>)
                          /\ \A g \in Handles : fp[g].open => view[h][b] + Size[b] <= fp[g].pos
        BY <1>1, <1>3, <1>4 DEF Settled, Ids, Index!End, Written
    <2>2. b \in Blocks
        BY <1>1, <2>1 DEF Types, TypeOK, Ids
    <2>3. cblocks[b] # NoOffset
        BY <2>1 DEF IInv, CommittedIndexed
    <2>4. view[h][b] = cblocks[b]
        BY <1>1, <1>2, <2>2, <2>3, RowsBehind
    <2> QED
        BY <1>2, <2>1, <2>4 DEF Settled, Index!End
<1>7. fp[h].open => fp[h].pos + Len(fp[h].buf) = Index!GetSize(cblocks)'
    <2>1. view[h] \in Index!Tables /\ offset[h] \in Nat /\ Index!Tiled(view[h], offset[h])
        BY <1>1, <1>2 DEF Index!IInv, Index!TypeOK, Index!ViewsTiled, Index!ReadsOrWrites
    <2>2. IndexProofs!GetSize(view[h]) = offset[h]
        <3>1. view[h] \in IndexProofs!Tables /\ IndexProofs!Tiled(view[h], offset[h])
            BY <2>1
            DEF Index!Tables, IndexProofs!Tables, Index!Tiled, IndexProofs!Tiled,
                Index!Disjoint, IndexProofs!Disjoint, Index!Gapless, IndexProofs!Gapless,
                Index!EndsAt, IndexProofs!EndsAt, Index!Rows, IndexProofs!Rows,
                Index!End, IndexProofs!End, Index!IsLast, IndexProofs!IsLast
        <3> QED
            BY <2>1, <3>1, Constants, IndexProofs!GetSizeIsEnd
    <2>3. Index!GetSize(view[h]) = offset[h]
        BY <2>2
        DEF Index!GetSize, IndexProofs!GetSize, Index!Rows, IndexProofs!Rows,
            Index!End, IndexProofs!End, Index!IsLast, IndexProofs!IsLast
    <2>4. Index!GetSize(cblocks)' = offset[h]
        BY <1>3, <2>3 DEF Index!GetSize, Index!Rows, Index!End, Index!IsLast
    <2> QED
        BY <1>1, <1>2, <2>4 DEF Position
<1>8. job'[h].pc = "consume"
    BY Zenon, <1>1, Moves DEF Moved
<1>9. InCommit(h)'
    BY <1>1, <1>7, <1>8 DEF InCommit, Snapshot, Position, Carries, Merging, At
<1> QED
    BY <1>5, <1>6, <1>9

\* Data that a stream drops is the data of blocks that are lost.
LEMMA DroppedIsLost ==
    ASSUME NEW s \in Streaming, NEW k \in 0..Len(s.buf), NEW p \in Nat, NEW b, NEW i,
           Buffers(s, p), s.pos + k < p, s.buf[p - s.pos] = <<b, i>>
    PROVE  b \in BlocksIn(SubSeq(s.buf, k + 1, Len(s.buf)))
<1> DEFINE x == s.buf
           q == p - s.pos
           d == SubSeq(x, k + 1, Len(x))
<1>1. x \in Seq(Cells) /\ s.pos \in Nat /\ Len(x) \in Nat /\ k \in Nat /\ k <= Len(x)
    BY DEF Streaming
<1>2. q \in Nat /\ k < q /\ q <= Len(x)
    BY <1>1 DEF Buffers
<1>3. x[q] = <<b, i>>
    OBVIOUS
<1> HIDE DEF x, q
<1>4. q - k \in DOMAIN d /\ d[q - k] = x[q]
    BY <1>1, <1>2
<1> HIDE DEF d
<1>5. d[q - k][1] = b
    BY <1>3, <1>4
<1> QED
    BY Zenon, <1>4, <1>5 DEF BlocksIn, d, x

LEMMA CloseStoreSerial ==
    ASSUME IInv, Store!TypeOK(Cells)', SerialInv, NEW h \in Handles, CloseStore(h),
           \A g \in Handles : g # h => ~fp[g].open
    PROVE  Holds(cblocks)' /\ Settled' /\ InCommit(h)'
<1>1. Types /\ Store!TypeOK(Cells) /\ StreamsClosed /\ fp[h] \in Streaming /\ Index!TypeOK
      /\ cblocks' = cblocks /\ content' = content /\ outcome' = outcome
    BY StoreParts DEF IInv, Types, TypeOK, Streams, CloseStore, indexVars
<1>2. PICK k \in 0..Len(fp[h].buf) :
         /\ bin' = IF fp[h].open THEN Store!Flushed(bin, fp[h], k) ELSE bin
         /\ fp' = [fp EXCEPT ![h] = Store!Closed]
         /\ \/ k = Len(fp[h].buf) /\ lost' = lost
            \/ lost' = lost \cup BlocksIn(SubSeq(fp[h].buf, k + 1, Len(fp[h].buf)))
    BY <1>1, CloseStoreIs
<1>3. /\ StreamsClosed' /\ \A g \in Handles : g # h => fp'[g] = fp[g]
      /\ fp'[h] = Store!Closed
      /\ \A p \in Nat : \A c :
            In(h, p, c) /\ ~(fp[h].pos + k < p /\ Buffers(fp[h], p)) => Written(p, c)'
      /\ \A p \in Nat : \A c : (fp[h].open => p <= fp[h].pos) /\ Written(p, c) => Written(p, c)'
    BY Zenon, <1>1, <1>2, CloseIs
<1>4. \A p \in Nat : \A c : (Arrives(p, c) <=> In(h, p, c)) /\ (Arrives(p, c)' <=> In(h, p, c)')
    BY <1>1, <1>3, ArrivesIn, ArrivesInNext
<1>5. \A g \in Handles : ~fp'[g].open
    BY <1>3 DEF Store!Closed
<1>6. \A p \in Nat : \A c : Written(p, c)' => Arrives(p, c)'
    <2>1. SUFFICES ASSUME NEW p \in Nat, NEW c, Written(p, c)' PROVE In(h, p, c)'
        BY <1>4
    <2>2. fp'[h].pos = 0 /\ Len(fp'[h].buf) = 0
        BY <1>3 DEF Store!Closed
    <2>3. ~Buffers(fp[h], p)'
        BY <2>2 DEF Buffers
    <2> QED
        BY <2>1, <2>3 DEF In, Flushing, Written
<1>7. lost \subseteq lost'
    BY <1>2
<1>8. ASSUME NEW b \in Blocks, cblocks[b] # NoOffset, b \notin lost', NEW i \in 1..Size[b]
      PROVE  \A p \in {cblocks[b] + i} : Arrives(p, <<b, i>>)'
    <2> SUFFICES ASSUME NEW q \in {cblocks[b] + i} PROVE Arrives(q, <<b, i>>)'
        OBVIOUS
    <2>1. q \in Nat
        BY <1>1, <1>8, Constants DEF Index!TypeOK, Index!Tables
    <2>2. Arrives(q, <<b, i>>)
        BY <1>7, <1>8 DEF SerialInv, Holds, Stored
    <2>3. In(h, q, <<b, i>>)
        BY <1>4, <2>1, <2>2
    <2>4. ~(fp[h].pos + k < q /\ Buffers(fp[h], q))
        <3>1. SUFFICES ASSUME fp[h].pos + k < q, Buffers(fp[h], q) PROVE FALSE
            OBVIOUS
        <3>2. fp[h].buf[q - fp[h].pos] = <<b, i>>
            BY <2>3, <3>1 DEF In, Flushing
        <3>3. b \in BlocksIn(SubSeq(fp[h].buf, k + 1, Len(fp[h].buf)))
            BY Zenon, <1>1, <2>1, <3>1, <3>2, DroppedIsLost
        <3>4. k # Len(fp[h].buf)
            BY <1>1, <2>1, <3>1 DEF Buffers, Streaming
        <3> QED
            BY <1>2, <1>8, <3>3, <3>4
    <2>5. Written(q, <<b, i>>)'
        BY <1>3, <2>1, <2>3, <2>4
    <2> QED
        BY <1>6, <2>1, <2>5
<1>9. Holds(cblocks)'
    BY <1>1, <1>8 DEF Holds, Stored
<1>10. Settled'
    <2>1. SUFFICES ASSUME NEW r \in Revs, outcome[r] = "ok", NEW b \in Ids(content[r])
                   PROVE  b \in lost' \/ \A i \in 1..Size[b] : \A p \in {cblocks[b] + i} :
                                                Written(p, <<b, i>>)'
        BY <1>1, <1>5 DEF Settled, Ids
    <2>2. b \in Blocks
        BY <1>1, <2>1 DEF Types, TypeOK, Ids
    <2>3. cblocks[b] # NoOffset
        BY <2>1 DEF IInv, CommittedIndexed
    <2>4. /\ b \in lost \/ \A i \in 1..Size[b] : Written(cblocks[b] + i, <<b, i>>)
          /\ fp[h].open => cblocks[b] + Size[b] <= fp[h].pos
        BY <2>1 DEF SerialInv, Settled, Index!End
    <2>5. cblocks[b] \in Nat /\ Size[b] \in Nat /\ fp[h].pos \in Nat
        BY <1>1, <2>2, <2>3, Constants DEF Index!TypeOK, Index!Tables, Streaming
    <2>6. SUFFICES ASSUME b \notin lost, NEW i \in 1..Size[b], NEW p \in {cblocks[b] + i}
                   PROVE  Written(p, <<b, i>>)'
        BY <1>7
    <2>7. p \in Nat /\ (fp[h].open => p <= fp[h].pos)
        BY <2>4, <2>5, <2>6
    <2>8. Written(p, <<b, i>>)
        BY <2>4, <2>6
    <2> QED
        BY <1>3, <2>7, <2>8
<1>11. InCommit(h)'
    <2>1. Goto(h, "finish")
        BY DEF CloseStore
    <2> QED
        BY <1>1, <2>1, MovesOn, LeavingInCommit DEF Moved
<1> QED
    BY <1>9, <1>10, <1>11

LEMMA EndSerial ==
    ASSUME IInv, CommittedIndexed', SerialInv, NEW h \in Handles, Committing(h),
           CloseRevision(h) \/ Crash(h),
           \A g \in Handles : g # h => ~fp[g].open
    PROVE  Holds(cblocks)' /\ Settled' /\ InCommit(h)'
<1>1. Types /\ Calls /\ Store!TypeOK(Cells) /\ StreamsClosed /\ Streams /\ fp[h] \in Streaming
      /\ Index!TypeOK
    BY StoreParts DEF IInv, Types, TypeOK, Streams
<1>2. bin' = bin /\ cblocks' = cblocks /\ content' = content /\ lost \subseteq lost'
    BY DEF CloseRevision, Crash, Disconnect, Index!Rollback, Store!Lose, indexVars, storeVars
<1>3. InCommit(h)'
    <2>1. Thrown(h) \/ job' = [job EXCEPT ![h] = Idle]
        BY DEF CloseRevision, Crash
    <2> QED
        BY <1>1, <2>1, MovesOn, LeavingInCommit
<1>4. \A g \in Handles : fp'[g] = Store!Closed
    <2>1. \A g \in Handles : g # h => fp[g] = Store!Closed
        BY <1>1 DEF StreamsClosed
    <2>2. CASE CloseRevision(h)
        <3>1. fp' = fp /\ At(h, "finish")
            BY <2>2 DEF CloseRevision, storeVars
        <3>2. fp[h] = Store!Closed
            BY <1>1, <3>1 DEF Streams, StreamsClosed
        <3> QED
            BY <2>1, <3>1, <3>2
    <2>3. CASE Crash(h)
        BY <1>1, <2>1, <2>3, LoseIs DEF Crash
    <2> QED
        BY <2>2, <2>3
<1>5. \A g \in Handles : \A p \in Nat : ~Buffers(fp'[g], p)
    <2>1. SUFFICES ASSUME NEW g \in Handles, NEW p \in Nat PROVE ~Buffers(fp'[g], p)
        OBVIOUS
    <2>2. fp'[g].pos = 0 /\ Len(fp'[g].buf) = 0
        BY <1>4 DEF Store!Closed
    <2> QED
        BY <2>2 DEF Buffers
<1>6. \A p \in Nat : \A c : /\ Written(p, c)' <=> Written(p, c)
                            /\ Arrives(p, c)' <=> Written(p, c)
    BY <1>2, <1>5 DEF Arrives, Written, On
\* What is not written by now is lost.
<1>7. ASSUME NEW b \in Blocks, cblocks[b] # NoOffset, b \notin lost', NEW i \in 1..Size[b],
             NEW q \in {cblocks[b] + i}
      PROVE  q \in Nat /\ Written(q, <<b, i>>)
    <2>1. q \in Nat
        BY <1>1, <1>7, Constants DEF Index!TypeOK, Index!Tables
    <2>2. Arrives(q, <<b, i>>)
        BY <1>2, <1>7 DEF SerialInv, Holds, Stored
    <2>3. In(h, q, <<b, i>>)
        BY <1>1, <2>1, <2>2, ArrivesIn
    <2>4. ~Buffers(fp[h], q)
        <3>1. SUFFICES ASSUME Buffers(fp[h], q) PROVE FALSE
            OBVIOUS
        <3>2. fp[h].buf[q - fp[h].pos] = <<b, i>>
            BY <2>3, <3>1 DEF In, Flushing
        <3>3. CASE CloseRevision(h)
            <4>1. fp' = fp
                BY <3>3 DEF CloseRevision, storeVars
            <4> QED
                BY <1>5, <2>1, <3>1, <4>1
        <3>4. CASE Crash(h)
            <4> DEFINE x == fp[h].buf
                       pos == fp[h].pos
            <4>1. x \in Seq(Cells) /\ pos \in Nat
                BY <1>1 DEF Streaming
            <4>2. q - pos \in DOMAIN x
                BY <2>1, <3>1, <4>1 DEF Buffers
            <4>3. x[q - pos][1] = b
                BY <3>2
            <4>4. b \in BlocksIn(x)
                BY <4>2, <4>3 DEF BlocksIn
            <4> QED
                BY <1>7, <3>4, <4>4 DEF Crash
        <3> QED
            BY <3>3, <3>4
    <2> QED
        BY <2>1, <2>3, <2>4 DEF In, Flushing, Written
<1>8. Holds(cblocks)'
    BY <1>2, <1>6, <1>7 DEF Holds, Stored
<1>9. Settled'
    <2>1. SUFFICES ASSUME NEW r \in Revs, outcome'[r] = "ok", NEW b \in Ids(content'[r]),
                          b \notin lost', NEW i \in 1..Size[b], NEW p \in {cblocks[b] + i}
                   PROVE  Written(p, <<b, i>>)'
        BY <1>2, <1>4 DEF Settled, Store!Closed
    <2>2. b \in Blocks
        BY <1>1, <1>2, <2>1 DEF Types, TypeOK, Ids
    <2>3. cblocks[b] # NoOffset
        BY <1>2, <2>1 DEF CommittedIndexed, Ids
    <2> QED
        BY <1>6, <1>7, <2>1, <2>2, <2>3
<1> QED
    BY <1>3, <1>8, <1>9

LEMMA SerialNext ==
    ASSUME SerialCommits, IInv, SerialInv, [Next]_vars
    PROVE  SerialInv'
<1>1. CASE Next
    <2>1. IInv'
        BY <1>1, NextIInv
    <2>2. Types /\ Calls /\ Streams /\ Store!TypeOK(Cells)' /\ CommittedIndexed'
        BY <2>1 DEF IInv, Types, TypeOK
    <2>3. PICK h \in Handles : Start(h) \/ Step(h) \/ Keep(h) \/ Crash(h)
        BY <1>1 DEF Next
    <2>4. Alone'
        BY <1>1, <2>2, AloneNext DEF SerialInv
    <2>5. CASE ~Committing(h)
        BY <2>2, <2>3, <2>4, <2>5, BystanderSerial DEF SerialInv
    <2>6. CASE Committing(h)
        <3>1. \A g \in Handles : g # h => ~fp[g].open /\ InCommit(g)'
            BY <2>2, <2>3, <2>6, OthersSerial
        <3>2. \/ Consume(h) \/ ConsumeFails(h) \/ AssignBlocks(h) \/ AssignFails(h)
              \/ MergeBegin(h) \/ Emit(h) \/ EmitFails(h) \/ Feed(h) \/ FeedFails(h)
              \/ MergeCommit(h) \/ CloseStore(h) \/ CloseRevision(h) \/ Crash(h)
            BY Zenon, <2>3, <2>6
            DEF Start, NewRevision, NewRevisionFails, List, ListUnparsable, ListRefused,
                StartsCheckout, Step, OpenBin, CopyRange, CopyFails, EndCopy, Flush, Discard,
                Keep, At, Committing, CommitPcs
        <3>3. Holds(cblocks)' /\ Settled' /\ InCommit(h)'
            BY <2>2, <2>6, <3>1, <3>2, QuietSerial, EmitSerial, MergeCommitSerial,
               CloseStoreSerial, EndSerial
        <3> QED
            BY <2>4, <3>1, <3>3 DEF SerialInv
    <2> QED
        BY <2>5, <2>6
<1>2. CASE UNCHANGED vars
    <2> USE <1>2 DEF vars, indexVars, storeVars, history
    <2>1. Types
        BY DEF IInv
    <2>2. Quiet
        BY DEF Quiet
    <2>3. Alone'
        BY DEF SerialInv, Alone, Committing
    <2>4. ASSUME NEW g \in Handles PROVE InCommit(g)'
        <3>1. \A p, c : Arrives(p, c)' <=> Arrives(p, c)
            BY DEF Arrives, Written, On, Buffers
        <3>2. InCommit(g)
            BY DEF SerialInv
        <3>3. Snapshot(g)'
            BY <3>2 DEF InCommit, Snapshot, Merging, At, Ids
        <3>4. Position(g)'
            BY <3>2 DEF InCommit, Position, At, Index!GetSize, Index!Rows, Index!End, Index!IsLast
        <3>5. Carries(g)'
            BY <3>1, <3>2 DEF InCommit, Carries, Holds, Stored, Merging, At
        <3> QED
            BY <3>3, <3>4, <3>5 DEF InCommit
    <2> QED
        BY <2>1, <2>2, <2>3, <2>4, QuietKeeps DEF SerialInv
<1> QED
    BY <1>1, <1>2

LEMMA InitSerial ==
    ASSUME Init
    PROVE  SerialInv
<1>1. \A h \in Handles : job[h].pc = "idle" /\ ~fp[h].open
    BY DEF Init, Idle, Store!Init, Store!Closed
<1>2. \A b \in Blocks : cblocks[b] = NoOffset
    BY DEF Init, Index!Init, Index!Empty
<1>3. \A r \in Revs : outcome[r] = "none"
    BY DEF Init
<1>4. Alone /\ Holds(cblocks) /\ Settled
    BY <1>1, <1>2, <1>3 DEF Alone, Holds, Settled, Committing, CommitPcs
<1>5. \A h \in Handles : InCommit(h)
    BY <1>1 DEF InCommit, Snapshot, Position, Carries, Merging, At
<1> QED
    BY <1>4, <1>5 DEF SerialInv

\* Callers that run one commit at a time, on however many handles and with
\* whatever faults, find the data of every row where the row says.
LEMMA SerialInvariance ==
    ASSUME SerialCommits
    PROVE  Spec => [](IInv /\ SerialInv)
<1>1. Init => IInv /\ SerialInv
    BY InitIInv, InitSerial
<1>2. IInv /\ SerialInv /\ [Next]_vars => IInv' /\ SerialInv'
    BY NextIInv, SerialNext
<1> QED
    BY <1>1, <1>2, PTL DEF Spec

\* A block all of whose bytes are in a file is a piece of it.
LEMMA PieceOf ==
    ASSUME NEW f \in File, NEW b \in Blocks, NEW off \in Nat,
           \A i \in 1..Size[b] : On(f, off + i, <<b, i>>)
    PROVE  off + Size[b] <= Len(f) /\ SubSeq(f, off + 1, off + Size[b]) = Data(b)
<1> DEFINE n == Size[b]
           S == Cells \cup {Hole}
<1>1. n \in Nat /\ n > 0 /\ f \in Seq(S) /\ Len(f) \in Nat /\ DOMAIN f = 1..Len(f)
    BY Constants DEF File
<1> HIDE DEF n, S
<1>2. \A i \in 1..n : off + i \in DOMAIN f /\ f[off + i] = <<b, i>>
    BY DEF On, n
<1>3. off + n <= Len(f)
    <2>1. n \in 1..n
        BY <1>1
    <2>2. off + n \in DOMAIN f
        BY <1>2, <2>1
    <2> QED
        BY <1>1, <2>2
<1>4. SubSeq(f, off + 1, off + n) = [i \in 1..n |-> f[off + i]]
    <2>1. (off + n) - (off + 1) + 1 = n
        BY <1>1
    <2>2. \A i \in 1..n : (off + 1) + i - 1 = off + i
        BY <1>1
    <2> QED
        BY <1>1, <1>3, <2>1, <2>2
<1>5. [i \in 1..n |-> f[off + i]] = [i \in 1..n |-> <<b, i>>]
    BY <1>2
<1> QED
    BY Zenon, <1>3, <1>4, <1>5 DEF Data, n

LEMMA SettledOnDisk ==
    ASSUME Types, Index!TypeOK, NEW b \in Blocks, cblocks[b] # NoOffset,
           \A i \in 1..Size[b] : Written(cblocks[b] + i, <<b, i>>)
    PROVE  OnDisk(b)
<1>1. cblocks[b] \in Nat /\ 1 \in 1..Size[b]
    BY Constants DEF Index!TypeOK, Index!Tables
<1>2. bin # NoFile /\ \A i \in 1..Size[b] : On(bin, cblocks[b] + i, <<b, i>>)
    BY <1>1 DEF Written, On
<1>3. bin \in File
    BY <1>2 DEF Types, TypeOK, Store!TypeOK, File
<1> QED
    BY Zenon, <1>1, <1>2, <1>3, PieceOf DEF OnDisk, Store!Readable, Store!BytesAt

\* What is still buffered is in the file once the stream is flushed.
LEMMA PendingIs ==
    ASSUME Types, Index!TypeOK, NEW h \in Handles, fp[h].open,
           NEW b \in Blocks, cblocks[b] # NoOffset,
           \A i \in 1..Size[b] : In(h, cblocks[b] + i, <<b, i>>)
    PROVE  Pending(b)
<1> DEFINE s == fp[h]
           k == Len(s.buf)
           f == Store!Flushed(bin, s, k)
           t == Store!Rest(s, k)
           off == cblocks[b]
<1>1. s \in Streaming /\ bin \in File /\ off \in Nat
    BY StoreParts DEF Types, TypeOK, Index!TypeOK, Index!Tables
<1>2. k \in 0..Len(s.buf) /\ k \in Nat
    BY <1>1 DEF Streaming
<1>3. /\ f \in File /\ t \in Streaming /\ t.pos = s.pos + k
      /\ t.pos + Len(t.buf) = s.pos + Len(s.buf)
    BY <1>1, <1>2, FlushedIs
<1>4. \A p \in Nat : \A c : Flushing(bin, s, p, c) => Flushing(f, t, p, c)
    BY <1>1, <1>2, FlushKeeps
<1>5. \A p \in Nat : ~Buffers(t, p)
    <2>1. t.pos \in Nat /\ Len(t.buf) \in Nat
        BY <1>3 DEF Streaming
    <2>2. Len(t.buf) = 0
        BY <1>1, <1>2, <1>3, <2>1 DEF Streaming
    <2> QED
        BY <2>1, <2>2 DEF Buffers
<1> HIDE DEF f, t, off, s
<1>6. ASSUME NEW i \in 1..Size[b]
      PROVE  On(f, off + i, <<b, i>>)
    <2>1. off + i \in Nat
        BY <1>1, Constants
    <2>2. Flushing(bin, s, off + i, <<b, i>>)
        BY DEF In, off, s
    <2> QED
        BY <1>4, <1>5, <2>1, <2>2 DEF Flushing
<1>7. off + Size[b] <= Len(f) /\ SubSeq(f, off + 1, off + Size[b]) = Data(b)
    BY <1>1, <1>3, <1>6, PieceOf
<1> QED
    BY <1>7 DEF Pending, off, f, s

LEMMA OnDiskIfSettled ==
    ASSUME IInv, SerialInv
    PROVE  CommittedOnDisk
<1>1. SUFFICES ASSUME NEW r \in Revs, outcome[r] = "ok", NEW b \in Ids(content[r]), b \notin lost
               PROVE  OnDisk(b)
    BY DEF CommittedOnDisk
<1>2. b \in Blocks /\ Types /\ Index!TypeOK
    BY <1>1 DEF IInv, Types, TypeOK, Ids
<1>3. cblocks[b] # NoOffset
    BY <1>1 DEF IInv, CommittedIndexed
<1>4. \A i \in 1..Size[b] : Written(cblocks[b] + i, <<b, i>>)
    BY <1>1 DEF SerialInv, Settled
<1> QED
    BY <1>2, <1>3, <1>4, SettledOnDisk

\* Once a commit returned, its blocks are in vvpkg.bin, those it found stored
\* by earlier commits included, unless a fault dropped them, and no later
\* commit overwrites them: the rows are published before the data is flushed,
\* and it is the order in which commit() destroys its locals (repository.h,
\* 23-24) that makes up for it.
THEOREM BlocksOnDisk ==
    ASSUME SerialCommits
    PROVE  Spec => []CommittedOnDisk
BY OnDiskIfSettled, SerialInvariance, PTL

\* A fault spoils the blocks whose data it dropped and no others: the data of
\* every other row is in vvpkg.bin, or will be as soon as the one stream that
\* is open is flushed, whatever was committed since.
THEOREM DamageIsConfined ==
    ASSUME SerialCommits
    PROVE  Spec => []DamageConfined
<1>1. ASSUME IInv, SerialInv
      PROVE  DamageConfined
    <2>1. SUFFICES ASSUME NEW b \in Blocks, cblocks[b] # NoOffset, b \notin lost
                   PROVE  OnDisk(b) \/ Pending(b)
        BY DEF DamageConfined
    <2>2. Types /\ Index!TypeOK /\ Store!TypeOK(Cells) /\ StreamsClosed /\ Streams
        BY <1>1 DEF IInv, Types, TypeOK, Streams
    <2>3. cblocks[b] \in Nat /\ \A i \in 1..Size[b] : cblocks[b] + i \in Nat
        BY <2>1, <2>2, Constants DEF Index!TypeOK, Index!Tables
    <2>4. \A i \in 1..Size[b] : Arrives(cblocks[b] + i, <<b, i>>)
        BY <1>1, <2>1 DEF SerialInv, Holds, Stored
    <2>5. CASE \E h \in Handles : fp[h].open
        <3>1. PICK h \in Handles : fp[h].open
            BY <2>5
        <3>2. \A g \in Handles : g # h => ~fp[g].open
            BY <1>1, <2>2, <3>1 DEF Streams, SerialInv, Alone
        <3>3. \A i \in 1..Size[b] : In(h, cblocks[b] + i, <<b, i>>)
            BY <2>2, <2>3, <2>4, <3>2, ArrivesIn
        <3> QED
            BY <2>1, <2>2, <3>1, <3>3, PendingIs
    <2>6. CASE \A h \in Handles : ~fp[h].open
        <3>1. \A h \in Handles : \A p \in Nat : ~Buffers(fp[h], p)
            <4>1. \A h \in Handles : fp[h].pos = 0 /\ Len(fp[h].buf) = 0
                BY <2>2, <2>6 DEF StreamsClosed, Store!Closed
            <4> QED
                BY <4>1 DEF Buffers
        <3>2. \A i \in 1..Size[b] : Written(cblocks[b] + i, <<b, i>>)
            BY <2>3, <2>4, <3>1 DEF Arrives
        <3> QED
            BY <2>1, <2>2, <3>2, SettledOnDisk
    <2> QED
        BY <2>5, <2>6
<1> QED
    BY <1>1, SerialInvariance, PTL

------------------------------------------------------------------------------
(***************************************************************************)
(* and what it takes to check a revision out: when callers, besides, drop  *)
(* an object that threw                                                    *)
(***************************************************************************)
\* A manifest that parses was closed by its commit, and lists what was read.
Filed ==
    \A r \in Revs :
        /\ manifest[r].state = "closed" => outcome[r] \in {"ok", "failed"}
        /\ outcome[r] = "failed" => manifest[r].ids = content[r]

Unwound(h) == job[h].throwing => manifest[job[h].rev].ids = content[job[h].rev]

Recorded == Filed /\ \A h \in Handles : Unwound(h)

\* A call starts with no rows in newfile; the ranges of a checkout are not
\* empty, so that it ends when it has read them all.
Clean(h) ==
    /\ job[h].pc \in {"idle", "flush"} \cup CommitPcs => newfile[h] = << >>
    /\ job[h].pc \in CheckoutPcs =>
          \A i \in DOMAIN job[h].segments : job[h].segments[i].first < job[h].segments[i].last
    /\ At(h, "flush") => job[h].segments = << >>

\* The rows of a running commit are of blocks it has read, and all others are
\* below what its stream writes.
Below(h) ==
    LET own == Ids(content[job[h].rev]) IN
    /\ Committing(h) => Coming(h) \subseteq own
    /\ Merging(h) => \A b \in Blocks : view[h][b] # NoOffset /\ b \notin own => cblocks[b] # NoOffset
    /\ fp[h].open => \A b \in Blocks : cblocks[b] # NoOffset /\ b \notin own =>
                        cblocks[b] + Size[b] <= fp[h].pos

\* Byte p of vvpkg.bin is to be c, by the rows of the index.
Row(c, p) == \E b \in Blocks : \E i \in 1..Size[b] :
                c = <<b, i>> /\ cblocks[b] # NoOffset /\ cblocks[b] + i = p

\* The bytes of the blocks of revision r.
Of(r) == {c \in Cells : c[1] \in Ids(content[r])}

Excused(b, r) == b \in lost \/ (outcome[r] = "failed" /\ b \in Shared(r))

\* A checkout of r that has written the bytes `good`, or what excuses are for,
\* and has `pieces` to read in its ranges, writes the first n blocks of r.
ReadsOf(r, segs, out, good, pieces, n) ==
    /\ n \in 0..Len(content[r]) /\ (outcome[r] = "ok" => n = Len(content[r]))
    /\ good \in Seq(Of(r)) /\ pieces \in Seq(Seq(Of(r)))
    /\ good \o FlattenSeq(pieces) = Bytes(SubSeq(content[r], 1, n))
    /\ Len(out) = Len(good)
    /\ \A k \in DOMAIN good : /\ cblocks[good[k][1]] # NoOffset
                              /\ out[k] = good[k] \/ Excused(good[k][1], r)
    /\ Len(pieces) = Len(segs)
    /\ \A i \in DOMAIN pieces :
          /\ Len(pieces[i]) = segs[i].last - segs[i].first
          /\ \A k \in DOMAIN pieces[i] : Row(pieces[i][k], segs[i].first + k)

Reads(h) ==
    job[h].pc \in CheckoutPcs =>
        /\ manifest[job[h].rev].state = "closed"
        /\ \E good, pieces, n :
              ReadsOf(job[h].rev, job[h].segments, job[h].out, good, pieces, n)

ReadInv ==
    /\ Recorded
    /\ \A h \in Handles : Clean(h)
    /\ \A h \in Handles : Below(h)
    /\ \A h \in Handles : Reads(h)

LEMMA FiledNext ==
    ASSUME Types, Calls, Owned, Recorded,
           NEW h \in Handles, Start(h) \/ Step(h) \/ Keep(h) \/ Crash(h)
    PROVE  Filed'
<1> SUFFICES ASSUME NEW q \in Revs
             PROVE  /\ manifest'[q].state = "closed" => outcome'[q] \in {"ok", "failed"}
                    /\ outcome'[q] = "failed" => manifest'[q].ids = content'[q]
    BY DEF Filed
<1>1. /\ manifest[q].state = "closed" => outcome[q] \in {"ok", "failed"}
      /\ outcome[q] = "failed" => manifest[q].ids = content[q]
      /\ job[h].throwing => manifest[job[h].rev].ids = content[job[h].rev]
    BY DEF Recorded, Filed, Unwound
<1>2. Kept(q) => /\ manifest'[q].state = "closed" => outcome'[q] \in {"ok", "failed"}
                 /\ outcome'[q] = "failed" => manifest'[q].ids = content'[q]
    BY <1>1 DEF Kept
<1>3. (\E r \in Revs : Begins(h, r)) \/ Continues(h) \/ Ends(h) \/ Bystands(h)
    BY Records
<1>4. CASE \E r \in Revs : Begins(h, r)
    <2>1. PICK r \in Revs : Begins(h, r)
        BY <1>4
    <2>2. q # r => Kept(q)
        BY <2>1 DEF Begins, KeptBut
    <2>3. manifest[r] = Absent /\ content[r] = << >>
        BY <2>1 DEF Begins, Owned
    <2>4. manifest'[r].ids = content'[r]
        BY <2>1, <2>3 DEF Begins, Absent
    <2>5. manifest'[r].state = "closed" => outcome'[r] = "failed"
        BY <2>1 DEF Begins
    <2> QED
        BY <1>2, <2>2, <2>4, <2>5
<1>5. CASE Continues(h)
    <2>1. q # job[h].rev => Kept(q)
        BY <1>5 DEF Continues, KeptBut
    <2>2. manifest'[job[h].rev].state = "open" /\ outcome'[job[h].rev] = "running"
        BY <1>5 DEF Continues, Owned
    <2> QED
        BY <1>2, <2>1, <2>2
<1>6. CASE Ends(h)
    <2>1. q # job[h].rev => Kept(q)
        BY <1>6 DEF Ends, KeptBut
    <2>2. manifest[job[h].rev].state = "open"
        BY <1>6 DEF Ends, Owned
    <2>3. /\ outcome'[job[h].rev] \in {"ok", "failed", "dead"}
          /\ outcome'[job[h].rev] = "dead" => manifest'[job[h].rev].state = "open"
          /\ outcome'[job[h].rev] = "failed" => job[h].throwing
          /\ manifest'[job[h].rev].ids = manifest[job[h].rev].ids /\ content' = content
        BY <1>6, <2>2 DEF Ends
    <2> QED
        BY <1>1, <1>2, <2>1, <2>3
<1>7. CASE Bystands(h)
    BY <1>2, <1>7 DEF Bystands, Kept
<1> QED
    BY <1>3, <1>4, <1>5, <1>6, <1>7

\* An exception unwinds a commit when all it has read is in its manifest.
LEMMA UnwoundNext ==
    ASSUME IInv, Recorded, NEW h \in Handles, Start(h) \/ Step(h) \/ Keep(h) \/ Crash(h)
    PROVE  \A g \in Handles : Unwound(g)'
<1>1. Types /\ Calls /\ Owned /\ job[h] \in Jobs /\ job \in [Handles -> Jobs]
    BY DEF IInv, Types
<1>2. /\ manifest \in [Revs -> [state : {"absent", "open", "closed"}, ids : Seq(Blocks)]]
      /\ content \in [Revs -> Seq(Blocks)]
    BY <1>1 DEF Types, TypeOK
<1>3. ASSUME NEW g \in Handles, g # h
      PROVE  Unwound(g)'
    <2>1. job'[g] = job[g]
        BY <1>1, <1>3, Frame
    <2> SUFFICES ASSUME job[g].throwing
                 PROVE  manifest'[job[g].rev].ids = content'[job[g].rev]
        BY <2>1 DEF Unwound
    <2>2. Committing(g) /\ job[g].rev \in Revs /\ manifest[job[g].rev].state = "open"
        BY <1>1 DEF Calls, Call, Committing, CommitPcs, Owned
    <2>3. Committing(h) => job[h].rev # job[g].rev
        BY <1>1, <1>3, <2>2 DEF Owned
    <2>4. Kept(job[g].rev)
        BY <1>1, <2>2, <2>3, Records DEF Begins, Continues, Ends, Bystands, Kept, KeptBut
    <2> QED
        BY <2>4 DEF Recorded, Unwound, Kept
<1> SUFFICES ASSUME job'[h].throwing
             PROVE  manifest'[job'[h].rev].ids = content'[job'[h].rev]
    BY <1>3 DEF Unwound
<1>4. ~(Thrown(h) \/ job' = [job EXCEPT ![h] = Idle])
    BY <1>1, MovesOn
<1>5. CASE job[h].throwing
    <2>1. job[h].pc \in {"close", "finish"}
        BY <1>1, <1>5 DEF Calls, Call
    <2>2. CloseStore(h)
        BY Zenon, <1>4, <2>1
        DEF Start, NewRevision, NewRevisionFails, List, ListUnparsable, ListRefused,
            StartsCheckout, Step, Consume, ConsumeFails, AssignBlocks, AssignFails, MergeBegin,
            Emit, EmitFails, Feed, FeedFails, MergeCommit, CloseRevision, OpenBin, CopyRange,
            CopyFails, EndCopy, Flush, Discard, Keep, Crash, At
    <2>3. job'[h].rev = job[h].rev /\ manifest' = manifest /\ content' = content
        BY <1>1, <2>2, MovesOn DEF CloseStore, Moved
    <2> QED
        BY <1>5, <2>3 DEF Recorded, Unwound
<1>6. CASE ~job[h].throwing
    <2>1. \/ ConsumeFails(h) \/ AssignFails(h) \/ MergeBegin(h) \/ EmitFails(h) \/ FeedFails(h)
        <3>1. \A p : ~Goto(h, p)
            BY <1>1, <1>6, MovesOn DEF Moved
        <3>2. /\ ~(Consume(h) /\ job[h].input # << >>)
              /\ ~AssignBlocks(h) /\ ~Emit(h) /\ ~Feed(h) /\ ~MergeCommit(h) /\ ~CopyRange(h)
            BY Zenon, <1>1, <1>6, Moves DEF Moved
        <3>3. ~Start(h)
            <4>1. \A r \in Revs : ~List(h, r) /\ \A input \in Inputs : ~NewRevision(h, r, input)
                BY <1>1, Starts
            <4> QED
                BY Zenon, <1>4, <4>1 DEF Start, NewRevisionFails, ListUnparsable, ListRefused
        <3>4. ~Consume(h) /\ ~CloseStore(h) /\ ~EndCopy(h)
            BY Zenon, <3>1, <3>2 DEF Consume, CloseStore, EndCopy
        <3>5. ~OpenBin(h) /\ ~CloseRevision(h) /\ ~CopyFails(h) /\ ~Flush(h)
            BY Zenon, <1>4, <3>1 DEF OpenBin, CloseRevision, CopyFails, Flush
        <3>6. ~Discard(h) /\ ~Keep(h) /\ ~Crash(h)
            BY Zenon, <1>4 DEF Discard, Keep, Crash
        <3> QED
            BY <3>2, <3>3, <3>4, <3>5, <3>6 DEF Step
    <2>2. job'[h].rev = job[h].rev
        <3>1. \A p : ~Goto(h, p)
            BY <1>1, <1>6, MovesOn DEF Moved
        <3>2. Throw(h)
            BY Zenon, <2>1, <3>1 DEF ConsumeFails, AssignFails, MergeBegin, EmitFails, FeedFails
        <3> QED
            BY <1>1, <3>2, MovesOn
    <2>4. Committing(h) /\ Tracked(h) /\ job[h].rev \in Revs
        BY <1>1, <1>6, <2>1 DEF IInv, Commits, OnTrack, Calls, Call, Committing, CommitPcs, At,
           ConsumeFails, AssignFails, MergeBegin, EmitFails, FeedFails
    <2>5. manifest[job[h].rev].ids \in Seq(Blocks)
        BY <1>2, <2>4
    <2>6. CASE AssignFails(h)
        <3>1. content' = content /\ manifest'[job[h].rev].ids = manifest[job[h].rev].ids \o job[h].bs
            BY Zenon, <1>2, <2>4, <2>6 DEF AssignFails, history
        <3> QED
            BY Zenon, <2>2, <2>4, <2>6, <3>1 DEF Tracked, AssignFails, At
    <2>7. CASE ConsumeFails(h) \/ MergeBegin(h) \/ EmitFails(h) \/ FeedFails(h)
        <3>1. content' = content /\ manifest' = manifest /\ ~At(h, "assign")
            BY <2>7 DEF ConsumeFails, MergeBegin, EmitFails, FeedFails, history, At
        <3>2. content[job[h].rev] = manifest[job[h].rev].ids
            BY <2>4, <2>5, <3>1 DEF Tracked
        <3> QED
            BY <2>2, <3>1, <3>2
    <2> QED
        BY <2>1, <2>6, <2>7
<1> QED
    BY <1>5, <1>6

LEMMA SameQuery ==
    ASSUME NEW ids
    PROVE  Query!Ranges(cblocks, ids) = Listing!Ranges(cblocks, ids)
BY DEF Query!Ranges, Listing!Ranges, Query!GroupOf, Listing!GroupOf,
       Query!Reached, Listing!Reached, Query!OffStart, Listing!OffStart,
       Query!OffEnd, Listing!OffEnd, Query!Max, Listing!Max, Query!Min, Listing!Min,
       Query!Ascending, Listing!Ascending, Query!Cardinality, Listing!Cardinality

\* list() returns no empty range, as no block is empty.
LEMMA ListedNotEmpty ==
    ASSUME Index!TypeOK, NEW ids \in Seq(Blocks)
    PROVE  LET R == Query!Ranges(cblocks, ids)
           IN  \A i \in DOMAIN R : R[i].first < R[i].last
<1> DEFINE R == Listing!Ranges(cblocks, ids)
<1>1. Listing!Query(cblocks, ids, Blocks)
    BY Constants DEF Listing!Query, Index!TypeOK, Index!Tables
<1>2. R \in Seq(Listing!RangeSet) /\ Len(R) = Listing!Cardinality(Listing!Groupings(cblocks, ids))
    <2> DEFINE F == [i \in Nat |-> 0]
    <2>1. F \in [Nat -> {0}]
        OBVIOUS
    <2> HIDE DEF F
    <2> QED
        BY Zenon, <1>1, <2>1, Listing!PiecesType
<1>3. \A i \in 1..Listing!Cardinality(Listing!Groupings(cblocks, ids)) : R[i].first < R[i].last
    BY Zenon, <1>1, Constants, Listing!RangesNotEmpty
<1>4. DOMAIN R = 1..Len(R)
    <2> HIDE DEF R
    <2> QED
        BY <1>2
<1> HIDE DEF R
<1>5. Query!Ranges(cblocks, ids) = R
    BY SameQuery DEF R
<1> QED
    BY <1>2, <1>3, <1>4, <1>5

\* A commit goes on until it is over.
LEMMA StaysCommitting ==
    ASSUME Types, Calls, NEW h \in Handles, Committing(h), ~Committing(h)',
           Start(h) \/ Step(h) \/ Keep(h) \/ Crash(h)
    PROVE  CloseRevision(h) \/ Crash(h)
<1>1. \A p : Goto(h, p) => job'[h].pc = p
    BY MovesOn DEF Moved
<1>2. Throw(h) => job'[h].pc = "close"
    BY MovesOn
<1>3. /\ Consume(h) /\ job[h].input # << >> => job'[h].pc = "assign"
      /\ AssignBlocks(h) => job'[h].pc = "begin"
      /\ Emit(h) => job'[h].pc = "feed"
      /\ Feed(h) => job'[h].pc = "emit"
      /\ MergeCommit(h) => job'[h].pc = "consume"
    BY Zenon, Moves DEF Moved
<1>4. job'[h].pc \notin CommitPcs
    BY DEF Committing
<1>5. /\ ~Throw(h) /\ ~Goto(h, "close") /\ ~Goto(h, "emit") /\ ~Goto(h, "finish")
      /\ ~(Consume(h) /\ job[h].input # << >>)
      /\ ~AssignBlocks(h) /\ ~Emit(h) /\ ~Feed(h) /\ ~MergeCommit(h)
    BY <1>1, <1>2, <1>3, <1>4 DEF CommitPcs
<1> QED
    BY Zenon, <1>5
    DEF Start, NewRevision, NewRevisionFails, List, ListUnparsable, ListRefused,
        StartsCheckout, Step, Consume, ConsumeFails, AssignFails, MergeBegin, EmitFails,
        FeedFails, CloseStore, OpenBin, CopyRange, CopyFails, EndCopy, Flush, Discard, Keep,
        At, Committing, CommitPcs

LEMMA CleanNext ==
    ASSUME ~KeepAfterThrow, Types, Calls, Index!TypeOK, \A g \in Handles : Clean(g),
           NEW h \in Handles, Start(h) \/ Step(h) \/ Keep(h) \/ Crash(h)
    PROVE  \A g \in Handles : Clean(g)'
<1>1. /\ job[h] \in Jobs /\ job \in [Handles -> Jobs]
      /\ newfile \in [Handles -> Seq(Blocks)] /\ newfile[h] \in Seq(Blocks)
      /\ manifest \in [Revs -> [state : {"absent", "open", "closed"}, ids : Seq(Blocks)]]
    BY DEF Types, TypeOK
<1>2. \A g \in Handles : g # h => newfile'[g] = newfile[g]
    BY Zenon, <1>1
    DEF Start, NewRevision, NewRevisionFails, List, ListUnparsable, ListRefused,
        Step, Consume, ConsumeFails, AssignBlocks, AssignFails, MergeBegin, Emit,
        EmitFails, Feed, FeedFails, MergeCommit, CloseStore, CloseRevision, OpenBin,
        CopyRange, CopyFails, EndCopy, Flush, Discard, Keep, Crash
<1>3. ASSUME NEW g \in Handles, g # h PROVE Clean(g)'
    BY <1>2, <1>3, Frame DEF Clean, At
<1> SUFFICES Clean(h)'
    BY <1>3
<1>4. Clean(h)
    OBVIOUS
<1>5. Thrown(h) => job'[h].pc = "thrown"
    BY MovesOn
<1>6. job' = [job EXCEPT ![h] = Idle] => job'[h].pc = "idle"
    BY Zenon, MovesOn
<1> USE DEF Clean, At, CommitPcs, CheckoutPcs
<1>7. Thrown(h) => Clean(h)'
    BY <1>5
<1>8. job'[h].pc \notin CheckoutPcs /\ newfile'[h] = << >> => Clean(h)'
    OBVIOUS
<1>9. CASE Committing(h)
    <2>1. newfile[h] = << >>
        BY <1>4, <1>9 DEF Committing
    <2>2. newfile'[h] = << >>
        BY Zenon, <1>1, <1>9, <2>1
        DEF Start, NewRevision, NewRevisionFails, List, ListUnparsable, ListRefused,
            StartsCheckout, Step, Consume, ConsumeFails, AssignBlocks, AssignFails, MergeBegin,
            Emit, EmitFails, Feed, FeedFails, MergeCommit, CloseStore, CloseRevision, OpenBin,
            CopyRange, CopyFails, EndCopy, Flush, Discard, Keep, Crash, Committing
    <2>3. job'[h].pc \notin CheckoutPcs
        <3>1. Committing(h)' => job'[h].pc \notin CheckoutPcs
            BY DEF Committing
        <3>2. CASE ~Committing(h)'
            <4>1. CloseRevision(h) \/ Crash(h)
                BY Zenon, <1>9, <3>2, StaysCommitting
            <4> QED
                BY <1>5, <1>6, <4>1 DEF CloseRevision, Crash
        <3> QED
            BY <3>1, <3>2
    <2> QED
        BY <1>8, <2>2, <2>3
<1>10. CASE Start(h)
    <2>1. ASSUME NEW r \in Revs, NEW input \in Inputs, NewRevision(h, r, input)
          PROVE  Clean(h)'
        <3>1. job'[h].pc = "consume"
            BY <2>1, Starts
        <3>2. newfile'[h] = << >>
            BY <1>4, <2>1 DEF NewRevision
        <3> QED
            BY <1>8, <3>1, <3>2
    <2>2. ASSUME NEW r \in Revs, List(h, r)
          PROVE  Clean(h)'
        <3> DEFINE ids == newfile[h] \o manifest[r].ids
        <3>1. ids \in Seq(Blocks)
            BY <1>1, JoinType
        <3> HIDE DEF ids
        <3>2. job'[h].pc = "open" /\ job'[h].segments = Query!Ranges(cblocks, ids)
            BY <2>2, Starts DEF ids
        <3> QED
            BY <3>1, <3>2, ListedNotEmpty
    <2> QED
        BY <1>7, <1>10, <2>1, <2>2 DEF Start, NewRevisionFails, ListUnparsable, ListRefused
<1>11. CASE OpenBin(h)
    <2>1. Goto(h, "copy") => job'[h].pc = "copy" /\ job'[h].segments = job[h].segments
        BY MovesOn DEF Moved
    <2> QED
        BY <1>4, <1>7, <1>11, <2>1 DEF OpenBin
<1>12. CASE CopyRange(h)
    <2>1. job'[h].pc = "copy" /\ job'[h].segments = Tail(job[h].segments)
        BY Zenon, <1>12, Moves DEF CopyRange
    <2> DEFINE s == job[h].segments
    <2>2. s \in Seq(Span) /\ s # << >> /\ \A i \in DOMAIN s : s[i].first < s[i].last
        BY <1>1, <1>4, <1>12 DEF CopyRange, Jobs
    <2> HIDE DEF s
    <2>3. \A i \in DOMAIN Tail(s) : i + 1 \in DOMAIN s /\ Tail(s)[i] = s[i + 1]
        BY <2>2
    <2> QED
        BY <2>1, <2>2, <2>3 DEF s
<1>13. CASE EndCopy(h)
    <2>1. At(h, "copy") /\ job'[h].pc = "flush" /\ job'[h].segments = job[h].segments
        BY <1>13, MovesOn DEF EndCopy, Moved
    <2>2. job[h].segments = << >>
        <3> SUFFICES ASSUME job[h].segments # << >> PROVE FALSE
            OBVIOUS
        <3> DEFINE s == job[h].segments
        <3>1. s \in Seq(Span) /\ s # << >>
            BY <1>1 DEF Jobs
        <3> HIDE DEF s
        <3>2. 1 \in DOMAIN s /\ Head(s) = s[1] /\ s[1] \in Span
            BY <3>1
        <3>3. s[1].first < s[1].last /\ s[1].last - s[1].first = 0
            BY <1>4, <1>13, <2>1, <3>2 DEF EndCopy, RangeSize, FirstRange, s
        <3> QED
            BY <3>2, <3>3 DEF Span
    <2>3. newfile'[h] = << >>
        BY <1>1, <1>13, <2>2 DEF EndCopy
    <2> QED
        BY <2>1, <2>2, <2>3
<1>14. CASE CopyFails(h)
    BY <1>7, <1>14 DEF CopyFails
<1>15. CASE Flush(h)
    <2>1. newfile'[h] = << >>
        BY <1>4, <1>15 DEF Flush
    <2> QED
        BY <1>6, <1>7, <1>8, <1>15, <2>1 DEF Flush
<1>16. CASE Discard(h) \/ Crash(h)
    BY <1>1, <1>6, <1>8, <1>16 DEF Discard, Crash
<1> QED
    BY Zenon, <1>9, <1>10, <1>11, <1>12, <1>13, <1>14, <1>15, <1>16
    DEF Committing, Step, Keep, Consume, ConsumeFails, AssignBlocks, AssignFails, MergeBegin,
        Emit, EmitFails, Feed, FeedFails, MergeCommit, CloseStore, CloseRevision

------------------------------------------------------------------------------
LEMMA IdsGrow ==
    ASSUME NEW x \in Seq(Blocks), NEW y \in Seq(Blocks)
    PROVE  Ids(x) \subseteq Ids(x \o y) /\ Ids(y) \subseteq Ids(x \o y)
<1>1. /\ Len(x) \in Nat /\ Len(y) \in Nat
      /\ DOMAIN x = 1..Len(x) /\ DOMAIN y = 1..Len(y)
      /\ DOMAIN (x \o y) = 1..(Len(x) + Len(y))
      /\ \A i \in 1..Len(x) : (x \o y)[i] = x[i]
      /\ \A i \in 1..Len(y) : (x \o y)[Len(x) + i] = y[i]
    OBVIOUS
<1> DEFINE z == x \o y
<1> HIDE DEF z
<1>2. ASSUME NEW i \in DOMAIN x PROVE x[i] \in Ids(z)
    <2>1. i \in DOMAIN z /\ z[i] = x[i]
        BY <1>1 DEF z
    <2> QED
        BY <2>1 DEF Ids
<1>3. ASSUME NEW i \in DOMAIN y PROVE y[i] \in Ids(z)
    <2>1. Len(x) + i \in DOMAIN z /\ z[Len(x) + i] = y[i]
        BY <1>1 DEF z
    <2> QED
        BY <2>1 DEF Ids
<1> QED
    BY Zenon, <1>2, <1>3 DEF Ids, z

\* What a reader has yielded is never taken back.
LEMMA ContentGrows ==
    ASSUME Types, Calls, NEW h \in Handles, Start(h) \/ Step(h) \/ Keep(h) \/ Crash(h)
    PROVE  \A r \in Revs :
              /\ Ids(content[r]) \subseteq Ids(content'[r])
              /\ ~(Committing(h) /\ job[h].rev = r) => content'[r] = content[r]
<1>1. /\ job[h] \in Jobs /\ content \in [Revs -> Seq(Blocks)]
      /\ At(h, "consume") => job[h].rev \in Revs
    BY DEF Types, TypeOK, Calls, Call, At, CommitPcs
<1>2. CASE Consume(h) /\ job[h].input # << >>
    <2> DEFINE bs == Head(job[h].input)
               r == job[h].rev
    <2>1. bs \in Seq(Blocks) /\ r \in Revs /\ content' = [content EXCEPT ![r] = @ \o bs]
        BY Zenon, <1>1, <1>2, TailType DEF Consume, Jobs
    <2>2. Committing(h)
        BY <1>2 DEF Consume, Committing, At, CommitPcs
    <2> HIDE DEF bs
    <2>3. content'[r] = content[r] \o bs /\ content[r] \in Seq(Blocks)
        BY <1>1, <2>1
    <2>4. Ids(content[r]) \subseteq Ids(content'[r])
        BY <2>1, <2>3, IdsGrow
    <2> QED
        BY <1>1, <2>1, <2>2, <2>4
<1>3. CASE ~(Consume(h) /\ job[h].input # << >>)
    <2>1. content' = content
        BY Zenon, <1>3
        DEF history, Start, NewRevision, NewRevisionFails, List, ListUnparsable, ListRefused,
            Step, Consume, ConsumeFails, AssignBlocks, AssignFails, MergeBegin, Emit,
            EmitFails, Feed, FeedFails, MergeCommit, CloseStore, CloseRevision, OpenBin,
            CopyRange, CopyFails, EndCopy, Flush, Discard, Keep, Crash
    <2> QED
        BY <2>1
<1> QED
    BY Zenon, <1>2, <1>3

\* A commit that is on its way out, or over.
LEMMA LeavingBelow ==
    ASSUME Types, Calls, NEW h \in Handles, Below(h),
           \/ job'[h].pc \in {"consume", "close", "finish"}
           \/ job'[h].pc \notin CommitPcs,
           cblocks' = cblocks, fp' = fp, Ids(content[job[h].rev]) \subseteq Ids(content'[job'[h].rev])
    PROVE  Below(h)'
<1>1. (Coming(h)' = {} /\ ~Merging(h)') \/ ~Committing(h)'
    BY DEF Coming, Merging, At, Committing, CommitPcs
<1>2. ~Merging(h)'
    BY DEF Merging, CommitPcs
<1>3. fp'[h].open => \A b \in Blocks :
         cblocks'[b] # NoOffset /\ b \notin Ids(content'[job'[h].rev]) => cblocks'[b] + Size[b] <= fp'[h].pos
    BY DEF Below
<1> QED
    BY <1>1, <1>2, <1>3 DEF Below

LEMMA ClosedBelow ==
    ASSUME NEW h \in Handles, ~fp'[h].open, job'[h].pc = "finish" \/ job'[h].pc \notin CommitPcs
    PROVE  Below(h)'
BY DEF Below, Coming, Merging, At, Committing, CommitPcs

LEMMA BystanderBelow ==
    ASSUME Types, Calls, Streams, \A g \in Handles : Below(g),
           NEW h \in Handles, ~Committing(h), Start(h) \/ Step(h) \/ Keep(h) \/ Crash(h)
    PROVE  \A g \in Handles : Below(g)'
<1>1. Quiet /\ ~Merging(h)' /\ ~At(h, "begin")' /\ ~fp[h].open
    BY BystanderIsQuiet
<1>2. (\E r \in Revs : Begins(h, r)) \/ Bystands(h)
    BY Records DEF Continues, Ends
<1>3. ~At(h, "assign")'
    BY <1>2 DEF Begins, Bystands, Committing, CommitPcs, At
<1>4. Below(h)'
    BY <1>1, <1>3 DEF Below, Quiet, Coming
<1>5. ASSUME NEW g \in Handles, g # h PROVE Below(g)'
    <2>1. job'[g] = job[g] /\ view'[g] = view[g] /\ fp' = fp /\ cblocks' = cblocks
        BY <1>1, <1>5, Frame DEF Quiet
    <2>2. Committing(g) => job[g].rev \in Revs
        BY DEF Committing, Calls, Call
    <2>3. Committing(g) => content'[job[g].rev] = content[job[g].rev]
        BY <2>2, ContentGrows
    <2>4. Merging(g) \/ fp[g].open => Committing(g)
        BY DEF Merging, Committing, CommitPcs, Streams
    <2>5. Coming(g)' = Coming(g)
        BY <2>1 DEF Coming, At, Merging
    <2> QED
        BY <2>1, <2>3, <2>4, <2>5 DEF Below, Committing, Merging
<1> QED
    BY <1>4, <1>5

\* The next missing block is one that was read.
LEMMA NextIsRead ==
    ASSUME Types, Calls, NEW h \in Handles, Below(h), At(h, "begin") \/ Merging(h)
    PROVE  Ids(job[h].missing) \subseteq Ids(content[job[h].rev])
BY DEF Below, Coming, Merging, At, Committing, CommitPcs

LEMMA EmitBelow ==
    ASSUME IInv, NEW h \in Handles, Snapshot(h), Below(h), At(h, "emit"),
           NEW x \in Seq(Cells), Store!Accept(h, offset[h], x), UNCHANGED indexVars,
           content' = content, job'[h].rev = job[h].rev
    PROVE  fp'[h].open => \A b \in Blocks :
              cblocks'[b] # NoOffset /\ b \notin Ids(content'[job'[h].rev]) =>
                  cblocks'[b] + Size[b] <= fp'[h].pos
<1>1. /\ Store!TypeOK(Cells) /\ StreamsClosed /\ offset[h] \in Nat /\ Index!TypeOK
      /\ Merging(h) /\ fp[h] \in Streaming
    BY OffsetType, StoreParts DEF IInv, Types, TypeOK, Streams, Merging, At
<1>2. fp'[h].pos >= StartsAt(h, offset[h]) /\ Store!TypeOK(Cells)'
    BY <1>1, AcceptIs
<1>3. fp'[h].pos \in Nat /\ fp[h].pos \in Nat
    BY <1>1, <1>2 DEF Store!TypeOK, Streaming
<1>4. SUFFICES ASSUME NEW b \in Blocks, cblocks[b] # NoOffset, b \notin Ids(content[job[h].rev])
               PROVE  cblocks[b] + Size[b] <= fp'[h].pos
    BY DEF indexVars
<1>5. cblocks[b] \in Nat /\ Size[b] \in Nat
    BY <1>1, <1>4, Constants DEF Index!TypeOK, Index!Tables
<1>6. CASE fp[h].open
    <2>1. cblocks[b] + Size[b] <= fp[h].pos
        BY <1>4, <1>6 DEF Below
    <2> QED
        BY <1>2, <1>3, <1>5, <1>6, <2>1 DEF StartsAt
<1>7. CASE ~fp[h].open
    <2>1. view[h][b] = cblocks[b] /\ cblocks[b] + Size[b] <= offset[h]
        BY <1>1, <1>4, RowsBehind
    <2> QED
        BY <1>1, <1>2, <1>3, <1>5, <1>7, <2>1 DEF StartsAt
<1> QED
    BY <1>6, <1>7

LEMMA CommitBelow ==
    ASSUME IInv, SerialInv, NEW h \in Handles, Below(h), Committing(h), Step(h) \/ Crash(h)
    PROVE  Below(h)'
<1>1. /\ Types /\ Calls /\ Streams /\ Index!IInv /\ Index!TypeOK /\ job[h] \in Jobs
      /\ job \in [Handles -> Jobs] /\ Snapshot(h) /\ Store!TypeOK(Cells) /\ StreamsClosed
    BY DEF IInv, Types, TypeOK, Streams, SerialInv, InCommit, Index!IInv
<1> DEFINE r == job[h].rev
<1>2. r \in Revs /\ Ids(content[r]) \subseteq Ids(content'[r]) /\ content \in [Revs -> Seq(Blocks)]
    BY <1>1, ContentGrows DEF Calls, Call, Committing, Types, TypeOK
<1>3. view \in [Handles -> Index!Tables]
    BY <1>1 DEF Index!TypeOK
<1>4. Throw(h) => job'[h].pc = "close" /\ job'[h].rev = r
    BY <1>1, MovesOn
<1>5. \A p : Goto(h, p) => Moved(job[h], job'[h], p) /\ Unmerged(job[h], job'[h])
    BY <1>1, MovesOn
<1> HIDE DEF r
<1>6. ASSUME Throw(h), cblocks' = cblocks, fp' = fp
      PROVE  Below(h)'
    BY <1>1, <1>2, <1>4, <1>6, LeavingBelow DEF r
<1>7. CASE Consume(h)
    <2>1. cblocks' = cblocks /\ fp' = fp
        BY <1>7 DEF Consume, indexVars, storeVars
    <2>2. CASE job[h].input = << >>
        <3>1. job'[h].pc = "close" /\ job'[h].rev = r
            BY <1>5, <1>7, <2>2 DEF Consume, Moved, r
        <3> QED
            BY <1>1, <1>2, <2>1, <3>1, LeavingBelow DEF r
    <2>3. CASE job[h].input # << >>
        <3> DEFINE bs == Head(job[h].input)
        <3>1. bs \in Seq(Blocks) /\ content' = [content EXCEPT ![r] = @ \o bs]
            BY <1>1, <1>7, <2>3, TailType DEF Consume, Jobs, r
        <3>2. job'[h].pc = "assign" /\ job'[h].rev = r /\ job'[h].bs = bs
            BY Zenon, <1>1, <1>7, <2>3, Moves DEF Moved, r
        <3> HIDE DEF bs
        <3>3. content'[r] = content[r] \o bs
            BY <1>2, <3>1
        <3>4. Ids(bs) \subseteq Ids(content'[r])
            BY <1>2, <3>1, <3>3, IdsGrow
        <3>5. Coming(h)' \subseteq Ids(content'[job'[h].rev])
            BY <3>2, <3>4 DEF Coming, At, Ids
        <3>6. ~Merging(h)'
            BY <3>2 DEF Merging
        <3> QED
            BY <1>2, <2>1, <3>2, <3>5, <3>6 DEF Below, r
    <2> QED
        BY <2>2, <2>3
<1>8. CASE ConsumeFails(h)
    BY <1>6, <1>8 DEF ConsumeFails, indexVars, storeVars
<1>9. CASE AssignBlocks(h)
    <2>1. job'[h].pc = "begin" /\ job'[h].rev = r /\ job'[h].missing = Missing(job[h].bs)
        BY Zenon, <1>1, <1>9, Moves DEF Moved, r
    <2>2. job[h].bs \in Seq(Blocks)
        BY <1>1 DEF Jobs
    <2>3. Ids(Missing(job[h].bs)) \subseteq Ids(job[h].bs)
        BY <2>2, MissingIs DEF FirstAt, Ids
    <2>4. Ids(job[h].bs) \subseteq Ids(content[r])
        BY <1>9 DEF Below, Coming, AssignBlocks, r
    <2>5. Coming(h)' = Ids(Missing(job[h].bs))
        BY <2>1 DEF Coming, At, Ids
    <2>6. cblocks' = cblocks /\ fp' = fp /\ ~Merging(h)'
        BY <1>9, <2>1 DEF AssignBlocks, indexVars, storeVars, Merging
    <2> QED
        BY <1>2, <2>1, <2>3, <2>4, <2>5, <2>6 DEF Below, r
<1>10. CASE AssignFails(h)
    BY <1>6, <1>10 DEF AssignFails, indexVars, storeVars
<1>11. CASE MergeBegin(h)
    <2>1. fp' = fp /\ content' = content
        BY <1>11 DEF MergeBegin, storeVars, history
    <2>2. CASE txn[h] = "none"
        <3>1. Index!BeginMerge(h) /\ Goto(h, "emit") /\ At(h, "begin")
            BY <1>11, <2>2 DEF MergeBegin
        <3>2. job'[h].pc = "emit" /\ job'[h].rev = r /\ job'[h].missing = job[h].missing
            BY <1>5, <3>1 DEF Moved, Unmerged, r
        <3>3. view'[h] = cblocks /\ cblocks' = cblocks
            BY <1>3, <3>1 DEF Index!BeginMerge
        <3>4. Coming(h)' \subseteq Ids(content[r])
            BY <1>1, <3>1, <3>2, NextIsRead DEF Coming, At, Merging, Ids, r
        <3> QED
            BY <2>1, <3>2, <3>3, <3>4 DEF Below, r
    <2>3. CASE txn[h] # "none"
        BY <1>6, <1>11, <2>1, <2>3 DEF MergeBegin, indexVars
    <2> QED
        BY <2>2, <2>3
<1>12. CASE Emit(h)
    <2> DEFINE x == Data(job[h].bs[Min(Found(h))])
    <2>1. job'[h].pc = "feed" /\ job'[h].rev = r /\ job'[h].missing = job[h].missing
        BY Zenon, <1>1, <1>12, Moves DEF Moved, r
    <2>2. x \in Seq(Cells)
        <3>1. job[h].bs[Min(Found(h))] \in Blocks
            BY <1>1, <1>12, FoundIs DEF Emit
        <3> QED
            BY <3>1, DataType
    <2>3. At(h, "emit") /\ Store!Accept(h, offset[h], x) /\ UNCHANGED indexVars /\ content' = content
        BY <1>12 DEF Emit
    <2> HIDE DEF x
    <2>4. fp'[h].open => \A b \in Blocks :
              cblocks'[b] # NoOffset /\ b \notin Ids(content'[job'[h].rev]) =>
                  cblocks'[b] + Size[b] <= fp'[h].pos
        BY <1>1, <2>1, <2>2, <2>3, EmitBelow DEF r
    <2>5. Coming(h)' \subseteq Ids(content[r])
        BY <1>1, <2>1, <2>3, NextIsRead DEF Coming, At, Merging, Ids, r
    <2>6. \A b \in Blocks : view'[h][b] # NoOffset /\ b \notin Ids(content[r]) => cblocks'[b] # NoOffset
        BY <2>3 DEF Below, Merging, At, indexVars, r
    <2> QED
        BY <2>1, <2>3, <2>4, <2>5, <2>6 DEF Below
<1>13. CASE EmitFails(h)
    <2>1. At(h, "emit") /\ UNCHANGED indexVars /\ content' = content /\ Throw(h)
        BY <1>13 DEF EmitFails, history
    <2>2. CASE Store!OpenFails(h)
        BY <1>6, <2>1, <2>2 DEF Store!OpenFails, indexVars
    <2>3. CASE \E x \in Seq(Cells) : Store!Accept(h, offset[h], x)
        <3>1. fp'[h].open => \A b \in Blocks :
                  cblocks'[b] # NoOffset /\ b \notin Ids(content'[job'[h].rev]) =>
                      cblocks'[b] + Size[b] <= fp'[h].pos
            BY <1>1, <1>4, <2>1, <2>3, EmitBelow DEF r
        <3> QED
            BY <1>4, <2>1, <3>1 DEF Below, Coming, Merging, At
    <2> QED
        BY <1>1, <1>13, <2>2, <2>3, EmitFailsIs
<1>14. CASE Feed(h)
    <2> DEFINE m == Head(job[h].missing)
    <2>1. job'[h].pc = "emit" /\ job'[h].rev = r /\ job'[h].missing = Tail(job[h].missing)
        BY Zenon, <1>1, <1>14, Moves DEF Moved, r
    <2>2. At(h, "feed") /\ m \in Blocks /\ job[h].missing \in Seq(Blocks) /\ job[h].missing # << >>
        BY <1>1, <1>14, HeadMissing DEF Feed, Calls, Call
    <2>3. Ids(job[h].missing) \subseteq Ids(content[r])
        BY <1>1, <2>2, NextIsRead DEF Merging, At, r
    <2>4. m \in Ids(content[r]) /\ Ids(Tail(job[h].missing)) \subseteq Ids(content[r])
        <3>1. m \in Ids(job[h].missing)
            BY <2>2, IdsTail DEF Ids
        <3>2. Ids(Tail(job[h].missing)) \subseteq Ids(job[h].missing)
            BY <2>2, IdsTail DEF Ids
        <3> QED
            BY <2>3, <3>1, <3>2
    <2>5. /\ cblocks' = cblocks /\ fp' = fp /\ content' = content
          /\ view' = [view EXCEPT ![h][m] = offset[h]]
        BY <1>14 DEF Feed, Index!Feed, storeVars, history
    <2> HIDE DEF m
    <2>6. \A b \in Blocks : b # m => view'[h][b] = view[h][b]
        BY <1>3, <2>2, <2>5 DEF Index!Tables
    <2>7. Coming(h)' = Ids(Tail(job[h].missing))
        BY <2>1 DEF Coming, At, Merging, Ids
    <2>8. \A b \in Blocks : view'[h][b] # NoOffset /\ b \notin Ids(content[r]) => cblocks'[b] # NoOffset
        BY <2>2, <2>4, <2>5, <2>6 DEF Below, Merging, At, r
    <2> QED
        BY <2>1, <2>4, <2>5, <2>7, <2>8 DEF Below, r
<1>15. CASE FeedFails(h)
    <2>1. cblocks' = cblocks
        BY <1>15 DEF FeedFails, Index!FeedBusy, Index!FeedConstraint, Index!vars
    <2> QED
        BY <1>6, <1>15, <2>1 DEF FeedFails, storeVars
<1>16. CASE MergeCommit(h)
    <2>1. job'[h].pc = "consume" /\ job'[h].rev = r /\ At(h, "emit")
        BY Zenon, <1>1, <1>16, Moves DEF Moved, MergeCommit, r
    <2>2. /\ fp' = fp /\ content' = content
          /\ cblocks' = IF txn[h] = "writing" THEN view[h] ELSE cblocks
        BY <1>16 DEF MergeCommit, Index!Commit, storeVars, history
    <2>3. ASSUME NEW b \in Blocks, cblocks'[b] # NoOffset, b \notin Ids(content[r])
          PROVE  cblocks[b] # NoOffset /\ cblocks'[b] = cblocks[b]
        <3>1. cblocks[b] # NoOffset
            BY <2>1, <2>2, <2>3 DEF Below, Merging, At, r
        <3>2. cblocks[b] # NoOffset => view[h][b] = cblocks[b]
            BY <1>1, <2>1, RowsBehind DEF Merging, At
        <3> QED
            BY <2>2, <3>1, <3>2
    <2>4. fp'[h].open => \A b \in Blocks : cblocks'[b] # NoOffset /\ b \notin Ids(content'[job'[h].rev]) =>
                            cblocks'[b] + Size[b] <= fp'[h].pos
        BY <2>1, <2>2, <2>3 DEF Below, r
    <2> QED
        BY <2>1, <2>4 DEF Below, Coming, Merging, At
<1>17. CASE CloseStore(h)
    <2>1. job'[h].pc = "finish"
        BY <1>5, <1>17 DEF CloseStore, Moved
    <2>2. ~fp'[h].open
        <3>1. fp' = [fp EXCEPT ![h] = Store!Closed]
            BY <1>17 DEF CloseStore, Store!Close, Store!CloseFails
        <3>2. fp \in [Handles -> Streaming]
            BY <1>1, StoreParts
        <3> QED
            BY <3>1, <3>2 DEF Store!Closed
    <2> QED
        BY <2>1, <2>2, ClosedBelow
<1>18. CASE CloseRevision(h)
    <2>1. ~fp'[h].open
        BY <1>1, <1>18 DEF CloseRevision, Streams, storeVars
    <2>2. job'[h].pc \notin CommitPcs
        BY <1>1, <1>18, MovesOn DEF CloseRevision, CommitPcs
    <2> QED
        BY <2>1, <2>2, ClosedBelow
<1>19. CASE Crash(h)
    <2>1. ~fp'[h].open
        BY <1>1, <1>19, LoseIs DEF Crash, Store!Closed
    <2>2. job'[h].pc \notin CommitPcs
        BY Zenon, <1>1, <1>19, MovesOn DEF Crash, CommitPcs
    <2> QED
        BY <2>1, <2>2, ClosedBelow
<1> QED
    BY Zenon, <1>7, <1>8, <1>9, <1>10, <1>11, <1>12, <1>13, <1>14, <1>15, <1>16, <1>17, <1>18,
       <1>19
    DEF Step, OpenBin, CopyRange, CopyFails, EndCopy, Flush, Discard, Committing, CommitPcs, At

LEMMA BelowNext ==
    ASSUME IInv, SerialInv, \A g \in Handles : Below(g),
           NEW h \in Handles, Start(h) \/ Step(h) \/ Keep(h) \/ Crash(h)
    PROVE  \A g \in Handles : Below(g)'
<1>1. Types /\ Calls /\ Streams
    BY DEF IInv
<1>2. CASE ~Committing(h)
    BY <1>1, <1>2, BystanderBelow
<1>3. CASE Committing(h)
    <2>1. Step(h) \/ Crash(h)
        BY Zenon, <1>3
        DEF Start, NewRevision, NewRevisionFails, List, ListUnparsable, ListRefused,
            StartsCheckout, Keep, Committing, CommitPcs, At
    <2>2. Below(h)'
        BY <1>3, <2>1, CommitBelow
    <2>3. ASSUME NEW g \in Handles, g # h PROVE Below(g)'
        <3>1. ~Committing(g) /\ ~fp'[g].open
            BY <1>1, <1>3, <2>3, OthersSerial
        <3>2. job'[g] = job[g]
            BY <1>1, <2>3, Frame
        <3> QED
            BY <3>1, <3>2, ClosedBelow DEF Committing
    <2> QED
        BY <2>2, <2>3
<1> QED
    BY <1>2, <1>3

------------------------------------------------------------------------------
\* A row is where the index of any later moment says.
LEMMA WrittenOrExcused ==
    ASSUME IInv, SerialInv, \A h \in Handles : Below(h),
           NEW r \in Revs, outcome[r] \in {"ok", "failed"},
           NEW p, NEW c \in Of(r), Row(c, p)
    PROVE  Written(p, c) \/ Excused(c[1], r)
<1>0. PICK b \in Blocks : \E i \in 1..Size[b] :
          c = <<b, i>> /\ cblocks[b] # NoOffset /\ cblocks[b] + i = p
    BY DEF Row
<1>1. PICK i \in 1..Size[b] : c = <<b, i>> /\ cblocks[b] # NoOffset /\ cblocks[b] + i = p
    BY <1>0
<1>2. c[1] = b /\ b \in Ids(content[r])
    BY <1>1 DEF Of
<1>3. CASE outcome[r] = "ok"
    <2>1. b \in lost \/ Written(cblocks[b] + i, <<b, i>>)
        BY <1>2, <1>3 DEF SerialInv, Settled
    <2> QED
        BY <1>1, <1>2, <2>1 DEF Excused
<1>4. CASE outcome[r] = "failed"
    <2> SUFFICES ASSUME b \notin lost, b \notin Shared(r)
                 PROVE  Written(p, c)
        BY <1>2, <1>4 DEF Excused
    <2>1. Arrives(p, c)
        <3>1. Arrives(cblocks[b] + i, <<b, i>>)
            BY <1>1 DEF SerialInv, Holds, Stored
        <3> QED
            BY <1>1, <3>1
    <2>2. ASSUME NEW h \in Handles, Buffers(fp[h], p)
          PROVE  FALSE
        <3>1. /\ Types /\ Owned /\ Streams /\ Calls /\ fp[h] \in Streaming
              /\ cblocks[b] \in Nat /\ Size[b] \in Nat
            BY Zenon, <1>1, StoreParts, Constants
            DEF IInv, Types, TypeOK, Index!TypeOK, Index!Tables
        <3>2. fp[h].open
            <4>1. ~fp[h].open => fp[h].pos = 0 /\ fp[h].buf = << >>
                BY <3>1 DEF Streams, StreamsClosed, Store!Closed
            <4> QED
                BY <1>1, <2>2, <3>1, <4>1 DEF Buffers
        <3>3. Committing(h) /\ job[h].rev \in Revs /\ outcome[job[h].rev] = "running"
            BY <3>1, <3>2 DEF Streams, Owned, Calls, Call, Committing
        <3>4. b \notin Ids(content[job[h].rev])
            BY <1>4, <3>3 DEF Shared
        <3>5. cblocks[b] + Size[b] <= fp[h].pos
            BY <1>1, <3>2, <3>4 DEF Below
        <3>6. fp[h].pos \in Nat /\ fp[h].pos < p
            BY <2>2, <3>1 DEF Streaming, Buffers
        <3> QED
            BY <1>1, <3>1, <3>5, <3>6
    <2> QED
        BY <2>1, <2>2 DEF Arrives
<1> QED
    BY <1>3, <1>4

\* A block that is indexed and was dropped stays dropped.
LEMMA LostStays ==
    ASSUME IInv, SerialInv, NEW h \in Handles, Start(h) \/ Step(h) \/ Keep(h) \/ Crash(h),
           NEW b \in Blocks, b \in lost, cblocks[b] # NoOffset
    PROVE  b \in lost'
<1>1. CASE Emit(h)
    <2>1. Merging(h) /\ Snapshot(h) /\ job[h].missing \in Seq(Blocks) /\ job[h].missing # << >>
        BY <1>1, FoundIs DEF Emit, Merging, At, SerialInv, InCommit, IInv, Types, Jobs
    <2>2. Head(job[h].missing) \in Ids(job[h].missing)
        BY <2>1, IdsTail DEF Ids
    <2>3. view[h][Head(job[h].missing)] = NoOffset
        BY <2>1, <2>2 DEF Snapshot
    <2>4. view[h][b] = cblocks[b]
        BY <2>1, RowsBehind
    <2> QED
        BY <1>1, <2>3, <2>4 DEF Emit
<1>2. CASE ~Emit(h)
    BY Zenon, <1>2
    DEF history, Start, NewRevision, NewRevisionFails, List, ListUnparsable, ListRefused,
        Step, Consume, ConsumeFails, AssignBlocks, AssignFails, MergeBegin,
        EmitFails, Feed, FeedFails, MergeCommit, CloseStore, CloseRevision, OpenBin,
        CopyRange, CopyFails, EndCopy, Flush, Discard, Keep, Crash
<1> QED
    BY <1>1, <1>2

\* No step disturbs what a checkout has read, or is going to read.
LEMMA ReadsKeep ==
    ASSUME IInv, SerialInv, Recorded,
           NEW h \in Handles, Start(h) \/ Step(h) \/ Keep(h) \/ Crash(h),
           NEW r \in Revs, manifest[r].state = "closed",
           NEW segs, NEW out, NEW good, NEW pieces, NEW n,
           ReadsOf(r, segs, out, good, pieces, n)
    PROVE  manifest'[r].state = "closed" /\ ReadsOf(r, segs, out, good, pieces, n)'
<1>1. Types /\ Calls /\ Owned /\ Index!IInv /\ outcome[r] \in {"ok", "failed"} /\ [Next]_vars
    BY DEF IInv, Recorded, Filed, Next
<1>2. Kept(r)
    <2>1. Committing(h) => job[h].rev # r
        BY <1>1 DEF Owned
    <2> QED
        BY <1>1, <2>1, Records DEF Begins, Continues, Ends, Bystands, Kept, KeptBut
<1>3. \A b \in Blocks : cblocks[b] # NoOffset => cblocks'[b] = cblocks[b]
    BY <1>1, IndexKept DEF Index!Rows
<1>4. \A c, p : Row(c, p) => Row(c, p)'
    BY <1>3 DEF Row
<1>5. \A b \in Blocks : cblocks[b] # NoOffset /\ Excused(b, r) => Excused(b, r)'
    <2>1. ASSUME NEW b \in Blocks, cblocks[b] # NoOffset, b \in lost PROVE b \in lost'
        BY <2>1, LostStays
    <2>2. Shared(r) \subseteq Shared(r)'
        BY <1>1, ContentGrows DEF Shared
    <2> QED
        BY <1>2, <2>1, <2>2 DEF Excused, Kept
<1>6. Of(r)' = Of(r)
    BY <1>2 DEF Of, Kept, Ids
<1>7. \A k \in DOMAIN good : good[k][1] \in Blocks
    <2>1. good \in Seq(Of(r))
        BY DEF ReadsOf
    <2>2. \A k \in DOMAIN good : good[k] \in Cells
        BY <2>1 DEF Of
    <2> QED
        BY <2>2 DEF Cells
<1>8. /\ n \in 0..Len(content'[r]) /\ (outcome'[r] = "ok" => n = Len(content'[r]))
      /\ good \o FlattenSeq(pieces) = Bytes(SubSeq(content'[r], 1, n))
    BY <1>2 DEF ReadsOf, Kept
<1>9. \A k \in DOMAIN good : /\ cblocks'[good[k][1]] # NoOffset
                             /\ out[k] = good[k] \/ Excused(good[k][1], r)'
    <2>1. TAKE k \in DOMAIN good
    <2>2. cblocks[good[k][1]] # NoOffset /\ (out[k] = good[k] \/ Excused(good[k][1], r))
        BY DEF ReadsOf
    <2> QED
        BY <1>3, <1>5, <1>7, <2>2
<1>10. \A i \in DOMAIN pieces :
          /\ Len(pieces[i]) = segs[i].last - segs[i].first
          /\ \A k \in DOMAIN pieces[i] : Row(pieces[i][k], segs[i].first + k)'
    BY <1>4 DEF ReadsOf
<1>11. /\ good \in Seq(Of(r)) /\ pieces \in Seq(Seq(Of(r)))
       /\ Len(out) = Len(good) /\ Len(pieces) = Len(segs)
    BY DEF ReadsOf
<1>12. ReadsOf(r, segs, out, good, pieces, n)'
    BY Zenon, <1>6, <1>8, <1>9, <1>10, <1>11 DEF ReadsOf
<1> QED
    BY <1>2, <1>12 DEF Kept

LEMMA Outside == \A S : \E x : x \notin S
<1> SUFFICES ASSUME NEW S PROVE \E x : x \notin S
    OBVIOUS
<1> DEFINE x == {y \in S : y \notin y}
<1>1. x \notin S
    OBVIOUS
<1> QED
    BY <1>1

\* No two rows are of one byte of vvpkg.bin.
LEMMA RowsOnce ==
    ASSUME Index!IInv, NEW p, NEW c, NEW e, Row(c, p), Row(e, p)
    PROVE  c = e
<1>1. PICK a \in Blocks : \E i \in 1..Size[a] :
          c = <<a, i>> /\ cblocks[a] # NoOffset /\ cblocks[a] + i = p
    BY DEF Row
<1>2. PICK i \in 1..Size[a] : c = <<a, i>> /\ cblocks[a] # NoOffset /\ cblocks[a] + i = p
    BY <1>1
<1>3. PICK b \in Blocks : \E j \in 1..Size[b] :
          e = <<b, j>> /\ cblocks[b] # NoOffset /\ cblocks[b] + j = p
    BY DEF Row
<1>4. PICK j \in 1..Size[b] : e = <<b, j>> /\ cblocks[b] # NoOffset /\ cblocks[b] + j = p
    BY <1>3
<1>5. /\ cblocks[a] \in Nat /\ cblocks[b] \in Nat /\ Size[a] \in Nat /\ Size[b] \in Nat
    BY <1>2, <1>4, Constants DEF Index!IInv, Index!TypeOK, Index!Tables
<1>6. a # b => cblocks[a] + Size[a] <= cblocks[b] \/ cblocks[b] + Size[b] <= cblocks[a]
    BY <1>2, <1>4 DEF Index!IInv, Index!Tiled, Index!Disjoint, Index!Rows, Index!End
<1>7. a = b /\ i = j
    BY <1>2, <1>4, <1>5, <1>6
<1> QED
    BY <1>2, <1>4, <1>7

LEMMA SameFlatten == \A s : Listing!FlattenSeq(s) = FlattenSeq(s)
BY DEF Listing!FlattenSeq, FlattenSeq

\* What is read of a list of blocks is bytes of these blocks.
LEMMA BytesType ==
    ASSUME NEW ids \in Seq(Blocks)
    PROVE  Bytes(ids) \in Seq({c \in Cells : c[1] \in Ids(ids)})
<1> DEFINE T == {c \in Cells : c[1] \in Ids(ids)}
           s == [i \in 1..Len(ids) |-> Data(ids[i])]
<1>1. ASSUME NEW i \in 1..Len(ids) PROVE Data(ids[i]) \in Seq(T)
    <2> DEFINE b == ids[i]
    <2>1. b \in Blocks /\ b \in Ids(ids)
        BY DEF Ids
    <2>2. Data(b) \in Seq(Cells) /\ Len(Data(b)) \in Nat /\ Len(Data(b)) = Size[b]
          /\ \A k \in 1..Size[b] : Data(b)[k] = <<b, k>>
        BY <2>1, DataType
    <2> HIDE DEF b
    <2>3. \A k \in 1..Len(Data(b)) : Data(b)[k] \in T
        BY <2>1, <2>2
    <2> DEFINE d == Data(b)
    <2> HIDE DEF d, T
    <2>4. d \in Seq(T)
        BY <2>2, <2>3 DEF d
    <2> QED
        BY <2>4 DEF b, d
<1> HIDE DEF T
<1>2. s \in Seq(Seq(T))
    BY <1>1
<1> HIDE DEF s
<1>3. FlattenSeq(s) \in Seq(T)
    BY <1>2, FlattenType
<1> QED
    BY <1>3 DEF Bytes, T, s

\* The ranges that list() returns are those of the blocks of its manifest, up
\* to the first that is not indexed.
LEMMA ListReads ==
    ASSUME IInv, Recorded, NEW h \in Handles, Clean(h), NEW r \in Revs, List(h, r)
    PROVE  \E pieces, n :
               ReadsOf(r, Query!Ranges(cblocks, newfile[h] \o manifest[r].ids),
                       << >>, << >>, pieces, n)
<1> DEFINE ids == content[r]
           n == Listing!Reached(cblocks, ids)
           R == Listing!Ranges(cblocks, ids)
           first == SubSeq(ids, 1, n)
<1>1. /\ Index!IInv /\ Index!TypeOK /\ ids \in Seq(Blocks) /\ Len(ids) \in Nat
    BY DEF IInv, Types, TypeOK
<1>2. newfile[h] \o manifest[r].ids = ids
    <2>1. newfile[h] = << >>
        BY DEF Clean, List, StartsCheckout, At
    <2>2. manifest[r].ids = ids
        BY DEF Recorded, Filed, List, IInv, CommittedIndexed
    <2> QED
        BY <1>1, <2>1, <2>2
<1>3. Listing!Query(cblocks, ids, Blocks)
    BY <1>1, Constants DEF Listing!Query, Index!TypeOK, Index!Tables
<1>4. /\ n \in 0..Len(ids)
      /\ \A j \in 1..n : cblocks[ids[j]] # NoOffset
      /\ n < Len(ids) => cblocks[ids[n + 1]] = NoOffset
    <2>1. Len(ids) \in Nat
        BY <1>1
    <2> HIDE DEF ids
    <2> QED
        BY Zenon, <2>1, Listing!ReachedIs
<1>5. outcome[r] = "ok" => n = Len(ids)
    <2> SUFFICES ASSUME outcome[r] = "ok", n # Len(ids) PROVE FALSE
        OBVIOUS
    <2> HIDE DEF n
    <2>1. n < Len(ids) /\ n + 1 \in DOMAIN ids
        BY <1>1, <1>4
    <2>2. ids[n + 1] \in Ids(content[r])
        BY <2>1 DEF Ids
    <2> QED
        BY <1>4, <2>1, <2>2 DEF IInv, CommittedIndexed
<1>6. PICK d : d \notin Cells
    BY Outside
<1> DEFINE V == Cells \cup {d}
           F == [p \in Nat |-> IF \E c \in Cells : Row(c, p + 1)
                               THEN CHOOSE c \in Cells : Row(c, p + 1) ELSE d]
           pieces == Listing!RangePieces(F, cblocks, ids)
           rows == Listing!RowPieces(F, cblocks, ids)
<1>7. F \in [Nat -> V]
    OBVIOUS
<1>8. \A p \in Nat : F[p] \in Cells => Row(F[p], p + 1)
    BY <1>6
<1>9. ASSUME NEW p \in Nat, NEW c \in Cells, Row(c, p + 1) PROVE F[p] = c
    <2>1. F[p] \in Cells /\ Row(F[p], p + 1)
        BY <1>9
    <2> HIDE DEF F
    <2> QED
        BY <1>1, <1>9, <2>1, RowsOnce
<1>10. n \in Nat
    BY <1>1, <1>4
<1> HIDE DEF F, V, R, n
<1>11. /\ rows \in Seq(Seq(V)) /\ pieces \in Seq(Seq(V))
       /\ Len(pieces) = Len(R) /\ R \in Seq(Listing!RangeSet)
    <2> HIDE DEF ids
    <2> QED
        BY Zenon, <1>3, <1>7, Listing!PiecesType DEF R
<1>12. FlattenSeq(pieces) = FlattenSeq(rows)
    <2>1. Listing!FlattenSeq(pieces) = Listing!FlattenSeq(rows)
        BY Zenon, <1>3, <1>7, Listing!RangesRead
    <2> HIDE DEF pieces, rows
    <2> QED
        BY <2>1, SameFlatten
<1>13. first \in Seq(Blocks) /\ Len(first) = n /\ \A j \in 1..n : first[j] = ids[j] /\ j \in DOMAIN ids
    BY <1>1, <1>4, <1>10
<1>14. rows = [j \in 1..Len(first) |-> Data(first[j])]
    <2>1. ASSUME NEW j \in 1..n
          PROVE  Listing!Piece(F, Listing!OffStart(cblocks, ids, j), Listing!OffEnd(cblocks, ids, j))
                    = Data(first[j])
        <3> DEFINE b == first[j]
                   off == cblocks[b]
                   m == Size[b]
        <3> HIDE DEF first, ids
        <3>1. b \in Blocks /\ b = ids[j] /\ off # NoOffset
            <4>1. first \in Seq(Blocks) /\ j \in 1..Len(first)
                BY <1>13
            <4>2. b \in Blocks
                BY <4>1
            <4> QED
                BY Zenon, <1>4, <1>13, <4>2
        <3>2. off \in Nat /\ m \in Nat
            BY <1>1, <3>1, Constants DEF Index!TypeOK, Index!Tables
        <3>3. Listing!OffStart(cblocks, ids, j) = off /\ Listing!OffEnd(cblocks, ids, j) = off + m
            BY <3>1 DEF Listing!OffStart, Listing!OffEnd
        <3> HIDE DEF off
        <3>4. ASSUME NEW i \in 1..m PROVE F[off + i - 1] = <<b, i>>
            <4>1. <<b, i>> \in Cells /\ Row(<<b, i>>, off + i)
                BY <3>1 DEF Cells, Row, off
            <4>2. off + i - 1 \in Nat /\ (off + i - 1) + 1 = off + i
                <5> HIDE DEF m
                <5> QED
                    BY <3>2
            <4> QED
                BY <1>9, <4>1, <4>2
        <3> HIDE DEF b, m
        <3>5. (off + m) - off = m
            BY <3>2
        <3>6. Listing!Piece(F, off, off + m) = [i \in 1..m |-> <<b, i>>]
            BY <3>4, <3>5 DEF Listing!Piece
        <3> QED
            BY <3>3, <3>6 DEF Data, b, m
    <2> QED
        BY <1>13, <2>1 DEF Listing!RowPieces, n
<1>15. FlattenSeq(pieces) = Bytes(first)
    BY <1>12, <1>14 DEF Bytes
<1>16. Bytes(first) \in Seq(Of(r))
    <2>1. Bytes(first) \in Seq({c \in Cells : c[1] \in Ids(first)})
        BY Zenon, <1>13, BytesType
    <2>2. {c \in Cells : c[1] \in Ids(first)} \subseteq Of(r)
        BY <1>13 DEF Of, Ids
    <2> HIDE DEF first
    <2> QED
        BY <2>1, <2>2
<1>17. \A i \in 1..Len(pieces) : pieces[i] \in Seq(Of(r))
    <2>1. Of(r) \in SUBSET V /\ FlattenSeq(pieces) \in Seq(Of(r))
        BY <1>15, <1>16 DEF Of, V
    <2> HIDE DEF pieces
    <2> QED
        BY Zenon, <1>11, <2>1, FlattenMembers
<1>18. pieces \in Seq(Seq(Of(r)))
    <2> DEFINE m == Len(pieces)
    <2>1. m \in Nat /\ pieces \in [1..m -> Seq(V)]
        <3> HIDE DEF pieces
        <3> QED
            BY <1>11
    <2>2. \A i \in 1..m : pieces[i] \in Seq(Of(r))
        BY <1>17
    <2> HIDE DEF pieces, m
    <2>3. pieces \in [1..m -> Seq(Of(r))]
        BY Zenon, <2>1, <2>2
    <2> QED
        BY <2>1, <2>3
<1>19. ASSUME NEW i \in DOMAIN pieces
       PROVE  /\ Len(pieces[i]) = R[i].last - R[i].first
              /\ \A k \in DOMAIN pieces[i] : Row(pieces[i][k], R[i].first + k)
    <2> DEFINE a == R[i].first
               e == R[i].last
    <2>1. i \in 1..Len(R) /\ R[i] \in Listing!RangeSet
        <3> HIDE DEF pieces
        <3> QED
            BY <1>11
    <2>2. a \in Nat /\ e \in Nat /\ a <= e
        BY <2>1 DEF Listing!RangeSet
    <2>3. pieces[i] = Listing!Piece(F, a, e)
        BY <2>1 DEF Listing!RangePieces, R
    <2> HIDE DEF a, e
    <2>4. Len(pieces[i]) = e - a /\ DOMAIN pieces[i] = 1..(e - a)
          /\ \A k \in 1..(e - a) : pieces[i][k] = F[a + k - 1]
        <3>1. e - a \in Nat
            BY <2>2
        <3> HIDE DEF pieces
        <3> QED
            BY <2>3, <3>1 DEF Listing!Piece
    <2>5. ASSUME NEW k \in 1..(e - a) PROVE Row(pieces[i][k], a + k)
        <3>1. pieces[i] \in Seq(Of(r))
            <4> HIDE DEF pieces
            <4> QED
                BY <1>11, <1>17
        <3>2. pieces[i][k] \in Cells
            BY <2>4, <3>1 DEF Of
        <3>3. a + k - 1 \in Nat /\ (a + k - 1) + 1 = a + k
            BY <2>2
        <3> QED
            BY <1>8, <2>4, <3>2, <3>3
    <2> QED
        BY <2>4, <2>5 DEF a, e
<1> HIDE DEF pieces, first
<1>20. << >> \o FlattenSeq(pieces) = Bytes(SubSeq(content[r], 1, n))
    BY <1>15, <1>16 DEF first
<1>21. ReadsOf(r, R, << >>, << >>, pieces, n)
    <2>1. << >> \in Seq(Of(r)) /\ Len(<< >>) = Len(<< >>) /\ DOMAIN << >> = {}
        OBVIOUS
    <2> QED
        BY Zenon, <1>4, <1>5, <1>11, <1>18, <1>19, <1>20, <2>1 DEF ReadsOf, n
<1>22. Query!Ranges(cblocks, newfile[h] \o manifest[r].ids) = R
    BY <1>2, SameQuery DEF R
<1> QED
    BY <1>21, <1>22

\* The bytes a copy finds.
LEMMA RangeBytesAre ==
    ASSUME Types, NEW r \in Span, Store!Readable(r.first, r.last - r.first)
    PROVE  LET x == Store!BytesAt(r.first, r.last - r.first) IN
           /\ x \in File /\ Len(x) = r.last - r.first
           /\ \A k \in 1..(r.last - r.first) : x[k] = bin[r.first + k]
<1> DEFINE a == r.first
           n == r.last - r.first
           S == Cells \cup {Hole}
<1>1. a \in Nat /\ n \in Nat
    BY DEF Span
<1>2. bin \in Seq(S) /\ a + n <= Len(bin) /\ Len(bin) \in Nat
    BY DEF Types, TypeOK, Store!TypeOK, Store!Readable
<1> HIDE DEF a, n, S
<1>3. SubSeq(bin, a + 1, a + n) = [i \in 1..n |-> bin[a + i]]
    <2>1. (a + n) - (a + 1) + 1 = n
        BY <1>1
    <2>2. \A i \in 1..n : (a + 1) + i - 1 = a + i
        BY <1>1
    <2> QED
        BY <1>1, <1>2, <2>1, <2>2
<1>4. \A i \in 1..n : bin[a + i] \in S
    BY <1>1, <1>2
<1>5. [i \in 1..n |-> bin[a + i]] \in Seq(S) /\ Len([i \in 1..n |-> bin[a + i]]) = n
    BY <1>1, <1>4
<1> QED
    BY Zenon, <1>3, <1>5 DEF Store!BytesAt, File, a, n, S

\* A copy reads the blocks of its revision, but for what is excused.
LEMMA CopyReads ==
    ASSUME IInv, SerialInv, Recorded, \A h \in Handles : Below(h),
           NEW h \in Handles, CopyRange(h), NEW r \in Revs, manifest[r].state = "closed",
           NEW good, NEW pieces, NEW n,
           ReadsOf(r, job[h].segments, job[h].out, good, pieces, n)
    PROVE  ReadsOf(r, Tail(job[h].segments),
                   job[h].out \o Store!BytesAt(FirstRange(h).first, RangeSize(h)),
                   good \o Head(pieces), Tail(pieces), n)
<1> DEFINE segs == job[h].segments
           out == job[h].out
           T == Of(r)
           x == Head(pieces)
           rest == Tail(pieces)
           span == Head(segs)
           a == span.first
           m == span.last - span.first
           y == Store!BytesAt(a, m)
<1>1. Types /\ segs \in Seq(Span) /\ segs # << >> /\ out \in File /\ outcome[r] \in {"ok", "failed"}
    BY DEF IInv, Types, Jobs, CopyRange, Recorded, Filed
<1>2. /\ n \in 0..Len(content[r]) /\ (outcome[r] = "ok" => n = Len(content[r]))
      /\ good \in Seq(T) /\ pieces \in Seq(Seq(T))
      /\ good \o FlattenSeq(pieces) = Bytes(SubSeq(content[r], 1, n))
      /\ Len(out) = Len(good)
      /\ \A k \in DOMAIN good : /\ cblocks[good[k][1]] # NoOffset
                                /\ out[k] = good[k] \/ Excused(good[k][1], r)
      /\ Len(pieces) = Len(segs)
      /\ \A i \in DOMAIN pieces :
            /\ Len(pieces[i]) = segs[i].last - segs[i].first
            /\ \A k \in DOMAIN pieces[i] : Row(pieces[i][k], segs[i].first + k)
    BY DEF ReadsOf
<1>3. FirstRange(h).first = a /\ RangeSize(h) = m
    BY Zenon DEF FirstRange, RangeSize
<1>4. Store!Readable(a, m)
    BY <1>3 DEF CopyRange
<1> HIDE DEF segs, out, T
<1>5. /\ span \in Span /\ span = segs[1] /\ Tail(segs) \in Seq(Span) /\ Len(segs) \in Nat \ {0}
      /\ Len(Tail(segs)) = Len(segs) - 1
      /\ \A i \in 1..(Len(segs) - 1) : Tail(segs)[i] = segs[i + 1]
    BY <1>1
<1>6. /\ pieces # << >> /\ x \in Seq(T) /\ x = pieces[1] /\ rest \in Seq(Seq(T)) /\ 1 \in DOMAIN pieces
      /\ Len(rest) = Len(pieces) - 1 /\ DOMAIN rest = 1..(Len(pieces) - 1)
      /\ \A i \in DOMAIN rest : i + 1 \in DOMAIN pieces /\ rest[i] = pieces[i + 1]
    BY <1>2, <1>5
<1>7. y \in File /\ Len(y) = m /\ \A k \in 1..m : y[k] = bin[a + k]
    <2> HIDE DEF span
    <2> QED
        BY <1>1, <1>4, <1>5, RangeBytesAre
<1>8. Len(x) = m /\ DOMAIN x = 1..m /\ \A k \in 1..m : Row(x[k], a + k)
    <2>1. Len(x) = m /\ \A k \in DOMAIN x : Row(x[k], a + k)
        BY Zenon, <1>2, <1>5, <1>6
    <2>2. DOMAIN x = 1..Len(x)
        <3> HIDE DEF x
        <3> QED
            BY <1>6
    <2> QED
        BY <2>1, <2>2
<1> HIDE DEF x, rest, span, a, m, y
<1>9. (good \o x) \o FlattenSeq(rest) = Bytes(SubSeq(content[r], 1, n))
    <2>1. FlattenSeq(pieces) = x \o FlattenSeq(rest)
        BY Zenon, <1>2, <1>6, FlattenHead DEF x, rest
    <2>2. FlattenSeq(rest) \in Seq(T)
        BY <1>6, FlattenType
    <2> DEFINE f == FlattenSeq(rest)
    <2> HIDE DEF f
    <2>3. good \o (x \o f) = (good \o x) \o f
        <3>1. good \in Seq(T) /\ x \in Seq(T) /\ f \in Seq(T)
            BY <1>2, <1>6, <2>2 DEF f
        <3> QED
            BY SMTT(20), <3>1
    <2> QED
        BY Zenon, <1>2, <2>1, <2>3 DEF f
<1>10. ASSUME NEW k \in 1..m
       PROVE  cblocks[x[k][1]] # NoOffset /\ (y[k] = x[k] \/ Excused(x[k][1], r))
    <2>1. x[k] \in Of(r)
        BY <1>6, <1>8 DEF T
    <2>2. Row(x[k], a + k)
        BY <1>8
    <2>3. cblocks[x[k][1]] # NoOffset
        BY <2>2 DEF Row
    <2>4. Written(a + k, x[k]) \/ Excused(x[k][1], r)
        <3> DEFINE c == x[k]
                   p == a + k
        <3>1. c \in Of(r) /\ Row(c, p)
            BY <2>1, <2>2
        <3> HIDE DEF c, p
        <3>2. Written(p, c) \/ Excused(c[1], r)
            BY <1>1, <3>1, WrittenOrExcused
        <3> QED
            BY <3>2 DEF c, p
    <2>5. Written(a + k, x[k]) => bin[a + k] = x[k]
        BY DEF Written, On
    <2> QED
        BY <1>7, <2>3, <2>4, <2>5
<1>11. /\ Len(good) \in Nat /\ m \in Nat /\ good \o x \in Seq(T) /\ Len(good \o x) = Len(good) + m
       /\ DOMAIN (good \o x) = 1..(Len(good) + m)
       /\ \A k \in 1..Len(good) : (good \o x)[k] = good[k] /\ k \in DOMAIN good
       /\ \A k \in 1..m : (good \o x)[Len(good) + k] = x[k]
    <2>1. good \in Seq(T) /\ x \in Seq(T) /\ Len(x) = m
        BY <1>2, <1>6, <1>8
    <2>2. /\ Len(good) \in Nat /\ DOMAIN good = 1..Len(good) /\ Len(x) \in Nat
          /\ good \o x \in Seq(T) /\ Len(good \o x) = Len(good) + Len(x)
          /\ DOMAIN (good \o x) = 1..(Len(good) + Len(x))
          /\ \A k \in 1..Len(good) : (good \o x)[k] = good[k]
          /\ \A k \in 1..Len(x) : (good \o x)[Len(good) + k] = x[k]
        BY SMTT(20), <2>1
    <2> QED
        BY Zenon, <2>1, <2>2
<1>12. /\ Len(out \o y) = Len(good) + m
       /\ \A k \in 1..Len(good) : (out \o y)[k] = out[k]
       /\ \A k \in 1..m : (out \o y)[Len(good) + k] = y[k]
    <2> DEFINE S == Cells \cup {Hole}
    <2>1. out \in Seq(S) /\ y \in Seq(S) /\ Len(y) = m /\ Len(out) = Len(good)
        BY <1>1, <1>2, <1>7 DEF File
    <2> HIDE DEF S
    <2>2. /\ Len(out \o y) = Len(out) + Len(y)
          /\ \A k \in 1..Len(out) : (out \o y)[k] = out[k]
          /\ \A k \in 1..Len(y) : (out \o y)[Len(out) + k] = y[k]
        BY SMTT(20), <2>1
    <2> QED
        BY Zenon, <2>1, <2>2
<1>13. ASSUME NEW k \in DOMAIN (good \o x)
       PROVE  /\ cblocks[(good \o x)[k][1]] # NoOffset
              /\ (out \o y)[k] = (good \o x)[k] \/ Excused((good \o x)[k][1], r)
    <2>1. k \in 1..Len(good) \/ \E i \in 1..m : k = Len(good) + i
        <3>1. k \in 1..(Len(good) + m)
            BY <1>11
        <3>2. k > Len(good) => k - Len(good) \in 1..m /\ k = Len(good) + (k - Len(good))
            BY <1>11, <3>1
        <3>3. k <= Len(good) => k \in 1..Len(good)
            BY <1>11, <3>1
        <3>4. k <= Len(good) \/ k > Len(good)
            BY <1>11, <3>1
        <3> QED
            BY Zenon, <3>2, <3>3, <3>4
    <2>2. CASE k \in 1..Len(good)
        BY <1>2, <1>11, <1>12, <2>2
    <2>3. CASE \E i \in 1..m : k = Len(good) + i
        <3>1. PICK i \in 1..m : k = Len(good) + i
            BY <2>3
        <3>2. (good \o x)[k] = x[i] /\ (out \o y)[k] = y[i]
            BY <1>11, <1>12, <3>1
        <3> QED
            BY Zenon, <1>10, <3>2
    <2> QED
        BY Zenon, <2>1, <2>2, <2>3
<1>14. ASSUME NEW i \in DOMAIN rest
       PROVE  /\ Len(rest[i]) = Tail(segs)[i].last - Tail(segs)[i].first
              /\ \A k \in DOMAIN rest[i] : Row(rest[i][k], Tail(segs)[i].first + k)
    <2>1. i + 1 \in DOMAIN pieces /\ rest[i] = pieces[i + 1] /\ i \in 1..(Len(segs) - 1)
        BY <1>2, <1>6
    <2>2. Tail(segs)[i] = segs[i + 1]
        BY <1>5, <2>1
    <2> QED
        BY Zenon, <1>2, <2>1, <2>2
<1>15. Len(rest) = Len(Tail(segs))
    BY <1>2, <1>5, <1>6
<1>16. ReadsOf(r, Tail(segs), out \o y, good \o x, rest, n)
    <2>1. Len(out \o y) = Len(good \o x)
        BY <1>11, <1>12
    <2> QED
        BY Zenon, <1>2, <1>6, <1>9, <1>11, <1>13, <1>14, <1>15, <2>1 DEF ReadsOf, T
<1> QED
    BY <1>3, <1>16 DEF segs, out, x, rest, a, m, y, span

LEMMA StillReads ==
    ASSUME IInv, SerialInv, Recorded,
           NEW h \in Handles, Start(h) \/ Step(h) \/ Keep(h) \/ Crash(h),
           NEW g \in Handles, NEW r \in Revs, manifest[r].state = "closed", NEW segs, NEW out,
           \E good, pieces, n : ReadsOf(r, segs, out, good, pieces, n),
           job'[g].rev = r, job'[g].segments = segs, job'[g].out = out
    PROVE  Reads(g)'
<1>1. PICK good, pieces, n : ReadsOf(r, segs, out, good, pieces, n)
    OBVIOUS
<1>2. manifest'[r].state = "closed" /\ ReadsOf(r, segs, out, good, pieces, n)'
    BY <1>1, ReadsKeep
<1> QED
    BY ZenonT(60), <1>2 DEF Reads, ReadsOf

LEMMA ReadsNext ==
    ASSUME IInv, SerialInv, ReadInv,
           NEW h \in Handles, Start(h) \/ Step(h) \/ Keep(h) \/ Crash(h)
    PROVE  \A g \in Handles : Reads(g)'
<1>1. /\ Types /\ Calls /\ Recorded /\ job[h] \in Jobs /\ job \in [Handles -> Jobs]
      /\ \A g \in Handles : Reads(g) /\ Below(g) /\ Clean(g)
    BY DEF IInv, Types, ReadInv
<1>2. \A g \in Handles : job[g].pc \in CheckoutPcs => job[g].rev \in Revs
    BY <1>1 DEF Calls, Call
<1>3. ASSUME NEW g \in Handles, job[g].pc \in CheckoutPcs,
             job'[g].rev = job[g].rev, job'[g].segments = job[g].segments, job'[g].out = job[g].out
      PROVE  Reads(g)'
    <2>1. /\ job[g].rev \in Revs /\ manifest[job[g].rev].state = "closed"
          /\ \E good, pieces, n :
                ReadsOf(job[g].rev, job[g].segments, job[g].out, good, pieces, n)
        BY <1>1, <1>2, <1>3 DEF Reads
    <2> QED
        BY Zenon, <1>1, <1>3, <2>1, StillReads
<1>4. ASSUME NEW g \in Handles, g # h PROVE Reads(g)'
    <2>1. job'[g] = job[g]
        BY <1>1, <1>4, Frame
    <2>2. CASE job[g].pc \in CheckoutPcs
        BY <1>3, <2>1, <2>2
    <2>3. CASE job[g].pc \notin CheckoutPcs
        BY <2>1, <2>3 DEF Reads
    <2> QED
        BY <2>2, <2>3
<1> SUFFICES Reads(h)'
    BY <1>4
<1>5. job'[h].pc \notin CheckoutPcs => Reads(h)'
    BY DEF Reads
<1>6. Thrown(h) \/ Throw(h) \/ job' = [job EXCEPT ![h] = Idle] => Reads(h)'
    BY <1>1, <1>5, MovesOn DEF CheckoutPcs
<1>7. \A p : Goto(h, p) => /\ job'[h].pc = p /\ job'[h].rev = job[h].rev
                           /\ job'[h].segments = job[h].segments /\ job'[h].out = job[h].out
    BY <1>1, MovesOn DEF Moved
<1>8. CASE Start(h)
    <2>1. ASSUME NEW r \in Revs, NEW input \in Inputs, NewRevision(h, r, input) PROVE Reads(h)'
        BY <1>1, <1>5, <2>1, Starts DEF CheckoutPcs
    <2>2. ASSUME NEW r \in Revs, List(h, r) PROVE Reads(h)'
        <3> DEFINE segs == Query!Ranges(cblocks, newfile[h] \o manifest[r].ids)
        <3>1. \E pieces, n : ReadsOf(r, segs, << >>, << >>, pieces, n)
            BY <1>1, <2>2, ListReads
        <3>2. \E good, pieces, n : ReadsOf(r, segs, << >>, good, pieces, n)
            BY <3>1
        <3>3. job'[h].rev = r /\ job'[h].segments = segs /\ job'[h].out = << >>
            BY <1>1, <2>2, Starts
        <3>4. manifest[r].state = "closed"
            BY <2>2 DEF List
        <3> HIDE DEF segs
        <3> QED
            BY Zenon, <1>1, <3>2, <3>3, <3>4, StillReads
    <2> QED
        BY Zenon, <1>6, <1>8, <2>1, <2>2 DEF Start, NewRevisionFails, ListUnparsable, ListRefused
<1>9. CASE CopyRange(h)
    <2> DEFINE r == job[h].rev
               segs == Tail(job[h].segments)
               out == job[h].out \o Store!BytesAt(FirstRange(h).first, RangeSize(h))
    <2>1. job[h].pc \in CheckoutPcs
        BY <1>9 DEF CopyRange, At, CheckoutPcs
    <2>2. r \in Revs /\ manifest[r].state = "closed"
        BY <1>1, <1>2, <2>1 DEF Reads
    <2>3. PICK good, pieces, n :
              ReadsOf(r, job[h].segments, job[h].out, good, pieces, n)
        BY <1>1, <2>1 DEF Reads
    <2>4. ReadsOf(r, segs, out, good \o Head(pieces), Tail(pieces), n)
        BY Zenon, <1>1, <1>9, <2>2, <2>3, CopyReads
    <2>5. job'[h].rev = r /\ job'[h].segments = segs /\ job'[h].out = out
        BY Zenon, <1>1, <1>9, Moves
    <2> HIDE DEF r, segs, out
    <2>6. \E g, p, n1 : ReadsOf(r, segs, out, g, p, n1)
        BY Zenon, <2>4
    <2> QED
        BY Zenon, <1>1, <2>2, <2>5, <2>6, StillReads
<1>10. CASE OpenBin(h) \/ EndCopy(h)
    <2>1. job[h].pc \in CheckoutPcs
        BY <1>10 DEF OpenBin, EndCopy, At, CheckoutPcs
    <2> QED
        BY Zenon, <1>3, <1>6, <1>7, <1>10, <2>1 DEF OpenBin, EndCopy
<1>11. CASE Consume(h) \/ AssignBlocks(h) \/ MergeBegin(h) \/ Emit(h) \/ Feed(h) \/ MergeCommit(h)
           \/ CloseStore(h)
    <2>1. /\ Consume(h) /\ job[h].input # << >> => job'[h].pc = "assign"
          /\ AssignBlocks(h) => job'[h].pc = "begin"
          /\ Emit(h) => job'[h].pc = "feed"
          /\ Feed(h) => job'[h].pc = "emit"
          /\ MergeCommit(h) => job'[h].pc = "consume"
        BY Zenon, <1>1, Moves DEF Moved
    <2>2. (Consume(h) /\ job[h].input # << >>) \/ AssignBlocks(h) \/ Emit(h) \/ Feed(h)
          \/ MergeCommit(h) => Reads(h)'
        BY <1>5, <2>1 DEF CheckoutPcs
    <2>3. Goto(h, "close") \/ Goto(h, "emit") \/ Goto(h, "finish") => Reads(h)'
        BY <1>5, <1>7 DEF CheckoutPcs
    <2> QED
        BY Zenon, <1>6, <1>11, <2>2, <2>3 DEF Consume, MergeBegin, CloseStore
<1> QED
    BY Zenon, <1>6, <1>8, <1>9, <1>10, <1>11
    DEF Step, Keep, ConsumeFails, AssignFails, EmitFails, FeedFails, CloseRevision,
        CopyFails, Flush, Discard, Crash

LEMMA RecordedNext ==
    ASSUME IInv, Recorded, NEW h \in Handles, Start(h) \/ Step(h) \/ Keep(h) \/ Crash(h)
    PROVE  Recorded'
<1>1. Types /\ Calls /\ Owned
    BY DEF IInv
<1> QED
    BY Zenon, <1>1, FiledNext, UnwoundNext DEF Recorded

LEMMA ReadNext ==
    ASSUME ~KeepAfterThrow, IInv, SerialInv, ReadInv, [Next]_vars
    PROVE  ReadInv'
<1>1. CASE UNCHANGED vars
    <2>1. /\ cblocks' = cblocks /\ view' = view /\ fp' = fp /\ manifest' = manifest
          /\ newfile' = newfile /\ job' = job /\ content' = content /\ outcome' = outcome
          /\ lost' = lost
        BY <1>1 DEF vars, indexVars, storeVars, history
    <2>2. Recorded'
        BY <2>1 DEF ReadInv, Recorded, Filed, Unwound
    <2>3. \A h \in Handles : Clean(h)'
        BY <2>1 DEF ReadInv, Clean, At
    <2>4. \A h \in Handles : Below(h)'
        BY <2>1 DEF ReadInv, Below, Coming, Merging, At, Committing
    <2>5. ASSUME NEW h \in Handles PROVE Reads(h)'
        <3>1. Reads(h)
            BY DEF ReadInv
        <3>2. \A c, p : Row(c, p)' <=> Row(c, p)
            BY <2>1 DEF Row
        <3>3. \A r : Of(r)' = Of(r)
            BY <2>1 DEF Of
        <3>4. \A b, r : Excused(b, r)' <=> Excused(b, r)
            BY <2>1 DEF Excused, Shared
        <3>5. \A r, segs, out, good, pieces, n :
                  ReadsOf(r, segs, out, good, pieces, n) => ReadsOf(r, segs, out, good, pieces, n)'
            BY <2>1, <3>2, <3>3, <3>4 DEF ReadsOf
        <3> QED
            BY <2>1, <3>1, <3>5 DEF Reads
    <2> QED
        BY <2>2, <2>3, <2>4, <2>5 DEF ReadInv
<1>2. CASE Next
    <2>1. PICK h \in Handles : Start(h) \/ Step(h) \/ Keep(h) \/ Crash(h)
        BY <1>2 DEF Next
    <2>2. /\ Types /\ Calls /\ Index!TypeOK /\ Recorded
          /\ \A g \in Handles : Clean(g) /\ Below(g)
        BY DEF IInv, Types, TypeOK, ReadInv
    <2>3. Recorded'
        BY <2>1, <2>2, RecordedNext
    <2>4. \A g \in Handles : Clean(g)'
        BY <2>1, <2>2, CleanNext
    <2>5. \A g \in Handles : Below(g)'
        BY <2>1, <2>2, BelowNext
    <2>6. \A g \in Handles : Reads(g)'
        BY <2>1, ReadsNext
    <2> QED
        BY Zenon, <2>3, <2>4, <2>5, <2>6 DEF ReadInv
<1> QED
    BY <1>1, <1>2

LEMMA InitRead ==
    ASSUME Init
    PROVE  ReadInv
<1>1. /\ \A h \in Handles : job[h] = Idle /\ newfile[h] = << >> /\ fp[h] = Store!Closed
      /\ \A r \in Revs : manifest[r] = Absent /\ outcome[r] = "none"
    BY DEF Init, Store!Init
<1>2. \A h \in Handles : job[h].pc = "idle" /\ ~job[h].throwing
    BY <1>1 DEF Idle
<1>3. Recorded
    BY <1>1, <1>2 DEF Recorded, Filed, Unwound, Absent
<1>4. \A h \in Handles : Clean(h) /\ Reads(h)
    BY <1>1, <1>2 DEF Clean, Reads, CheckoutPcs, At
<1>5. \A h \in Handles : Below(h)
    BY <1>1, <1>2 DEF Below, Committing, CommitPcs, Merging, Store!Closed
<1> QED
    BY <1>3, <1>4, <1>5 DEF ReadInv

LEMMA ReadInvariance ==
    ASSUME SerialCommits, ~KeepAfterThrow
    PROVE  Spec => [](IInv /\ SerialInv /\ ReadInv)
<1>1. Init => ReadInv
    BY InitRead
<1>2. IInv /\ SerialInv /\ ReadInv /\ [Next]_vars => ReadInv'
    BY ReadNext
<1>3. Spec => [](IInv /\ SerialInv)
    BY SerialInvariance
<1> QED
    BY <1>1, <1>2, <1>3, PTL DEF Spec

------------------------------------------------------------------------------
\* When a checkout has read all of its ranges.
LEMMA AllRead ==
    ASSUME IInv, ReadInv, NEW h \in Handles, At(h, "flush")
    PROVE  LET r == job[h].rev
               out == job[h].out
           IN  /\ r \in Revs
               /\ \E n \in 0..Len(content[r]) :
                     LET right == Bytes(SubSeq(content[r], 1, n)) IN
                     /\ outcome[r] = "ok" => n = Len(content[r])
                     /\ right \in Seq(Of(r)) /\ Len(out) = Len(right)
                     /\ \A k \in DOMAIN right :
                           out[k] = right[k] \/ Excused(right[k][1], r)
<1> DEFINE r == job[h].rev
           out == job[h].out
<1>1. r \in Revs /\ job[h].pc \in CheckoutPcs
    BY DEF IInv, Calls, Call, At, CheckoutPcs
<1>2. job[h].segments = << >>
    BY DEF ReadInv, Clean
<1>3. PICK good, pieces, n : ReadsOf(r, << >>, out, good, pieces, n)
    BY <1>1, <1>2 DEF ReadInv, Reads
<1> HIDE DEF r, out
<1>4. /\ n \in 0..Len(content[r]) /\ (outcome[r] = "ok" => n = Len(content[r]))
      /\ good \in Seq(Of(r)) /\ pieces \in Seq(Seq(Of(r))) /\ Len(pieces) = Len(<< >>)
      /\ good \o FlattenSeq(pieces) = Bytes(SubSeq(content[r], 1, n))
      /\ Len(out) = Len(good)
      /\ \A k \in DOMAIN good : out[k] = good[k] \/ Excused(good[k][1], r)
    BY Zenon, <1>3 DEF ReadsOf
<1>5. good = Bytes(SubSeq(content[r], 1, n))
    <2>1. pieces = << >>
        BY <1>4
    <2>2. good \o << >> = good
        BY <1>4
    <2> QED
        BY <1>4, <2>1, <2>2, FlattenEmpty
<1> QED
    BY <1>1, <1>4, <1>5 DEF r, out

LEMMA ExactIfRead ==
    ASSUME IInv, ReadInv
    PROVE  CheckoutExact
<1> SUFFICES ASSUME NEW h \in Handles, At(h, "flush"), outcome[job[h].rev] = "ok",
                    Ids(content[job[h].rev]) \cap lost = {}
             PROVE  job[h].out = Bytes(content[job[h].rev])
    BY DEF CheckoutExact
<1> DEFINE r == job[h].rev
           out == job[h].out
<1>1. /\ r \in Revs /\ content[r] \in Seq(Blocks) /\ out \in File
    BY Zenon, AllRead DEF IInv, Types, TypeOK, Jobs
<1>2. PICK n \in 0..Len(content[r]) :
          LET right == Bytes(SubSeq(content[r], 1, n)) IN
          /\ outcome[r] = "ok" => n = Len(content[r])
          /\ right \in Seq(Of(r)) /\ Len(out) = Len(right)
          /\ \A k \in DOMAIN right : out[k] = right[k] \/ Excused(right[k][1], r)
    BY AllRead
<1>3. SubSeq(content[r], 1, n) = content[r]
    <2>1. n = Len(content[r])
        BY <1>2
    <2> HIDE DEF r
    <2> QED
        BY <1>1, <2>1
<1> DEFINE right == Bytes(content[r])
<1>4. /\ right \in Seq(Of(r)) /\ Len(out) = Len(right)
      /\ \A k \in DOMAIN right : out[k] = right[k] \/ Excused(right[k][1], r)
    <2> DEFINE some == Bytes(SubSeq(content[r], 1, n))
    <2>1. some = right
        BY Zenon, <1>3
    <2>2. /\ some \in Seq(Of(r)) /\ Len(out) = Len(some)
          /\ \A k \in DOMAIN some : out[k] = some[k] \/ Excused(some[k][1], r)
        BY <1>2
    <2> HIDE DEF some, right, r, out
    <2> QED
        BY <2>1, <2>2
<1>5. \A c \in Of(r) : ~Excused(c[1], r)
    BY DEF Of, Excused
<1> HIDE DEF r, out, right
<1>6. \A k \in DOMAIN right : right[k] \in Of(r)
    BY <1>4
<1>7. \A k \in DOMAIN right : out[k] = right[k]
    BY <1>4, <1>5, <1>6
<1>8. out = right
    BY <1>1, <1>4, <1>7 DEF File
<1> QED
    BY <1>8 DEF r, out, right

\* A checkout of a committed revision writes exactly what its commit read,
\* unless a fault dropped a block of it: however the two, other commits and
\* crashes interleave, and although a range is read from a file to which
\* other commits append.
THEOREM CheckoutsAreExact ==
    ASSUME SerialCommits, ~KeepAfterThrow
    PROVE  Spec => []CheckoutExact
BY ExactIfRead, ReadInvariance, PTL

\* A checkout of a revision whose commit failed is as long as some blocks
\* that commit read, from the first on, and has their bytes but for those
\* that a fault dropped and those another revision shares.
THEOREM FailedCommitsArePrefixes ==
    ASSUME SerialCommits, ~KeepAfterThrow
    PROVE  Spec => []FailedIsPrefix
<1>1. ASSUME IInv, ReadInv
      PROVE  FailedIsPrefix
    <2> SUFFICES ASSUME NEW h \in Handles, At(h, "flush")
                 PROVE  \E n \in 0..Len(content[job[h].rev]) :
                            LET right == Bytes(SubSeq(content[job[h].rev], 1, n)) IN
                            /\ Len(job[h].out) = Len(right)
                            /\ \A k \in DOMAIN right :
                                  \/ job[h].out[k] = right[k]
                                  \/ right[k][1] \in lost \cup Shared(job[h].rev)
        BY DEF FailedIsPrefix
    <2> DEFINE r == job[h].rev
               out == job[h].out
    <2>1. PICK n \in 0..Len(content[r]) :
              LET right == Bytes(SubSeq(content[r], 1, n)) IN
              /\ Len(out) = Len(right)
              /\ \A k \in DOMAIN right : out[k] = right[k] \/ Excused(right[k][1], r)
        BY <1>1, AllRead
    <2> HIDE DEF r, out
    <2>2. \A b : Excused(b, r) => b \in lost \cup Shared(r)
        BY DEF Excused
    <2> QED
        BY <2>1, <2>2 DEF r, out
<1> QED
    BY <1>1, ReadInvariance, PTL

\* A checkout of a committed revision never meets the end of vvpkg.bin inside
\* a range, unless a fault dropped a block of the revision.
THEOREM CheckoutsAreReadable ==
    ASSUME SerialCommits, ~KeepAfterThrow
    PROVE  Spec => []CheckoutReadable
<1>1. ASSUME IInv, SerialInv, ReadInv
      PROVE  CheckoutReadable
    <2> SUFFICES ASSUME NEW h \in Handles, job[h].pc \in {"open", "copy"},
                        outcome[job[h].rev] = "ok", Ids(content[job[h].rev]) \cap lost = {},
                        NEW i \in DOMAIN job[h].segments
                 PROVE  Store!Readable(job[h].segments[i].first,
                                       job[h].segments[i].last - job[h].segments[i].first)
        BY DEF CheckoutReadable
    <2> DEFINE r == job[h].rev
               segs == job[h].segments
               a == segs[i].first
               e == segs[i].last
    <2>1. /\ Types /\ job[h].pc \in CheckoutPcs /\ r \in Revs /\ segs \in Seq(Span)
          /\ \A g \in Handles : Below(g)
        BY <1>1 DEF IInv, Types, Calls, Call, CheckoutPcs, Jobs, ReadInv
    <2>2. PICK good, pieces, n : ReadsOf(r, segs, job[h].out, good, pieces, n)
        BY <1>1, <2>1 DEF ReadInv, Reads
    <2>3. a < e
        BY <1>1, <2>1 DEF ReadInv, Clean
    <2>4. /\ pieces \in Seq(Seq(Of(r))) /\ Len(pieces) = Len(segs)
          /\ i \in DOMAIN pieces => /\ Len(pieces[i]) = e - a
                                    /\ \A k \in DOMAIN pieces[i] : Row(pieces[i][k], a + k)
        BY <2>2 DEF ReadsOf
    <2>5. outcome[r] = "ok" /\ Ids(content[r]) \cap lost = {} /\ i \in DOMAIN segs
        OBVIOUS
    <2> HIDE DEF r, segs
    <2>6. segs[i] \in Span /\ i \in DOMAIN pieces
        BY <2>1, <2>4, <2>5
    <2>7. a \in Nat /\ e \in Nat
        BY <2>6 DEF Span
    <2> HIDE DEF a, e
    <2> DEFINE m == e - a
               c == pieces[i][m]
    <2>8. m \in Nat /\ a + m = e /\ c \in Of(r) /\ Row(c, e)
        <3>1. pieces[i] \in Seq(Of(r)) /\ Len(pieces[i]) = m /\ m \in Nat \ {0} /\ a + m = e
            BY <2>3, <2>4, <2>6, <2>7
        <3>2. m \in DOMAIN pieces[i] /\ c \in Of(r)
            BY <3>1
        <3>3. Row(c, a + m)
            BY <2>4, <2>6, <3>2
        <3> QED
            BY <3>1, <3>2, <3>3
    <2> HIDE DEF c, m
    <2>9. Written(e, c) \/ Excused(c[1], r)
        BY Zenon, <1>1, <2>1, <2>5, <2>8, WrittenOrExcused
    <2>10. ~Excused(c[1], r)
        BY <2>5, <2>8 DEF Of, Excused
    <2>11. bin # NoFile /\ e \in DOMAIN bin /\ bin \in File
        BY <2>1, <2>9, <2>10 DEF Written, On, Types, TypeOK, Store!TypeOK, File
    <2>12. e <= Len(bin)
        BY <2>11 DEF File
    <2> QED
        BY <2>8, <2>11, <2>12 DEF Store!Readable, m, a, e, segs
<1> QED
    BY <1>1, ReadInvariance, PTL

------------------------------------------------------------------------------
(***************************************************************************)
(* and the promise that a repository implements, when, besides, no data is *)
(* dropped                                                                 *)
(***************************************************************************)
\* What a commit has read and has not read yet is an input; a commit that is
\* about to return has read all of one.
Given(ids) == \E input \in Inputs : ids = FlattenSeq(input)

Halfway(h) ==
    Committing(h) /\ ~job[h].throwing =>
        /\ Given(content[job[h].rev] \o FlattenSeq(job[h].input))
        /\ job[h].pc \in {"close", "finish"} => job[h].input = << >>

Whole ==
    /\ \A r \in Revs : outcome[r] = "ok" => Given(content[r])
    /\ \A h \in Handles : Halfway(h)

\* How a commit comes to have the input that it has.
LEMMA InputStep ==
    ASSUME Types, Calls, NEW h \in Handles, Start(h) \/ Step(h) \/ Keep(h) \/ Crash(h),
           Committing(h)', ~job'[h].throwing
    PROVE  \/ \E r \in Revs, input \in Inputs :
                 /\ manifest[r].state = "absent" /\ content' = content
                 /\ job'[h].rev = r /\ job'[h].input = input /\ At(h, "consume")'
           \/ /\ Committing(h) /\ ~job[h].throwing /\ job'[h].rev = job[h].rev
              /\ \/ /\ job[h].input # << >> /\ At(h, "assign")'
                    /\ job'[h].input = Tail(job[h].input)
                    /\ content' = [content EXCEPT ![job[h].rev] = @ \o Head(job[h].input)]
                 \/ /\ job'[h].input = job[h].input /\ content' = content
                    /\ \/ job'[h].pc \in {"consume", "assign", "begin", "emit", "feed"}
                       \/ job[h].pc = "close" \/ job[h].input = << >>
<1>1. job[h] \in Jobs /\ job \in [Handles -> Jobs]
    BY DEF Types
<1> USE DEF Committing, CommitPcs, At
<1>2. ~Throw(h) /\ ~Thrown(h) /\ job' # [job EXCEPT ![h] = Idle]
    BY MovesOn
<1>3. ~(\/ ConsumeFails(h) \/ AssignFails(h) \/ EmitFails(h) \/ FeedFails(h) \/ CloseRevision(h)
        \/ CopyFails(h) \/ Flush(h) \/ Discard(h) \/ Keep(h) \/ Crash(h))
    BY <1>2 DEF ConsumeFails, AssignFails, EmitFails, FeedFails, CloseRevision, CopyFails, Flush,
                Discard, Keep, Crash
<1>4. ASSUME NEW p, Goto(h, p)
      PROVE  /\ job'[h].pc = p /\ job'[h].rev = job[h].rev /\ job'[h].throwing = job[h].throwing
             /\ job'[h].input = job[h].input
    BY <1>4, MovesOn DEF Moved, Unread
<1>5. ~(OpenBin(h) \/ CopyRange(h) \/ EndCopy(h))
    <2>1. ~OpenBin(h)
        BY <1>2, <1>4 DEF OpenBin
    <2>2. ~EndCopy(h)
        BY <1>4 DEF EndCopy
    <2>3. ~CopyRange(h)
        <3>1. CopyRange(h) => job'[h].pc = "copy"
            BY Zenon, Moves DEF CopyRange
        <3> QED
            BY <3>1
    <2> QED
        BY <2>1, <2>2, <2>3
<1>6. CASE Start(h)
    <2>1. PICK r \in Revs : \/ \E input \in Inputs : NewRevision(h, r, input)
                            \/ NewRevisionFails(h, r)
                            \/ List(h, r)
                            \/ ListUnparsable(h, r)
                            \/ ListRefused(h, r)
        BY <1>6 DEF Start
    <2>2. ~NewRevisionFails(h, r) /\ ~ListUnparsable(h, r) /\ ~ListRefused(h, r)
        BY <1>2 DEF NewRevisionFails, ListUnparsable, ListRefused
    <2>3. ~List(h, r)
        BY Starts
    <2>4. PICK input \in Inputs : NewRevision(h, r, input)
        BY <2>1, <2>2, <2>3
    <2>5. job'[h].rev = r /\ job'[h].input = input /\ job'[h].pc = "consume"
        BY <1>1, <2>4 DEF NewRevision, Idle
    <2>6. manifest[r].state = "absent" /\ content' = content
        BY <2>4 DEF NewRevision
    <2> QED
        BY <2>5, <2>6
<1>7. CASE Consume(h)
    <2>1. CASE job[h].input = << >>
        BY <1>4, <1>7, <2>1 DEF Consume
    <2>2. CASE job[h].input # << >>
        <3>1. /\ Moved(job[h], job'[h], "assign") /\ job'[h].input = Tail(job[h].input)
            BY Zenon, <1>7, <2>2, Moves
        <3>2. content' = [content EXCEPT ![job[h].rev] = @ \o Head(job[h].input)]
            BY <1>7, <2>2 DEF Consume
        <3>3. At(h, "consume")
            BY <1>7 DEF Consume
        <3> QED
            BY <2>2, <3>1, <3>2, <3>3 DEF Moved
    <2> QED
        BY <2>1, <2>2
<1>8. CASE AssignBlocks(h) \/ MergeBegin(h) \/ Emit(h) \/ Feed(h) \/ MergeCommit(h)
    <2>1. content' = content /\ Committing(h)
        BY <1>8 DEF AssignBlocks, MergeBegin, Emit, Feed, MergeCommit, history
    <2>2. /\ job'[h].rev = job[h].rev /\ job'[h].throwing = job[h].throwing
          /\ job'[h].input = job[h].input /\ job'[h].pc \in {"consume", "begin", "emit", "feed"}
        <3>1. CASE AssignBlocks(h)
            BY Zenon, <3>1, Moves DEF Moved, Unread
        <3>2. CASE MergeBegin(h)
            BY <1>2, <1>4, <3>2 DEF MergeBegin
        <3>3. CASE Emit(h)
            BY Zenon, <3>3, Moves DEF Moved, Unread
        <3>4. CASE Feed(h)
            BY Zenon, <3>4, Moves DEF Moved, Unread
        <3>5. CASE MergeCommit(h)
            <4> DEFINE j0 == job[h]
            <4>1. job' = [job EXCEPT ![h] = [j0 EXCEPT !.pc = "consume", !.bs = << >>, !.missing = << >>]]
                BY Zenon, <1>1, <3>5 DEF MergeCommit
            <4>2. job'[h] = [j0 EXCEPT !.pc = "consume", !.bs = << >>, !.missing = << >>]
                BY <1>1, <4>1
            <4> QED
                BY <1>1, <4>2 DEF Jobs
        <3> QED
            BY <1>8, <3>1, <3>2, <3>3, <3>4, <3>5
    <2> QED
        BY <2>1, <2>2
<1>9. CASE CloseStore(h)
    <2>1. content' = content /\ job[h].pc = "close" /\ Goto(h, "finish")
        BY <1>9 DEF CloseStore
    <2> QED
        BY <1>4, <2>1
<1> HIDE DEF Committing, CommitPcs, At
<1> QED
    BY Zenon, <1>3, <1>5, <1>6, <1>7, <1>8, <1>9 DEF Step

\* The next bundle moves from what is not read yet to what is.
LEMMA MovesBundle ==
    ASSUME NEW c \in Seq(Blocks), NEW i \in Seq(Seq(Blocks)), i # << >>
    PROVE  (c \o Head(i)) \o FlattenSeq(Tail(i)) = c \o FlattenSeq(i)
<1>1. Head(i) \in Seq(Blocks) /\ Tail(i) \in Seq(Seq(Blocks))
    BY TailType
<1>2. FlattenSeq(Tail(i)) \in Seq(Blocks)
    BY <1>1, FlattenType
<1>3. FlattenSeq(i) = Head(i) \o FlattenSeq(Tail(i))
    BY FlattenHead
<1> DEFINE a == Head(i)
           b == FlattenSeq(Tail(i))
<1> HIDE DEF a, b
<1>4. a \in Seq(Blocks) /\ b \in Seq(Blocks)
    BY <1>1, <1>2 DEF a, b
<1>5. (c \o a) \o b = c \o (a \o b)
    BY <1>4, SMTT(20)
<1> QED
    BY <1>3, <1>5 DEF a, b

LEMMA HalfwayNext ==
    ASSUME Types, Calls, Owned, NEW h \in Handles, Start(h) \/ Step(h) \/ Keep(h) \/ Crash(h),
           Halfway(h)
    PROVE  Halfway(h)'
<1>1. SUFFICES ASSUME Committing(h)', ~job'[h].throwing
               PROVE  /\ Given(content'[job'[h].rev] \o FlattenSeq(job'[h].input))
                      /\ job'[h].pc \in {"close", "finish"} => job'[h].input = << >>
    BY DEF Halfway, Given
<1>2. /\ content \in [Revs -> Seq(Blocks)] /\ job[h] \in Jobs
      /\ Committing(h) => job[h].rev \in Revs
    BY DEF Types, TypeOK, Calls, Call, Committing
<1>3. CASE \E r \in Revs, input \in Inputs :
                 /\ manifest[r].state = "absent" /\ content' = content
                 /\ job'[h].rev = r /\ job'[h].input = input /\ At(h, "consume")'
    <2>1. PICK r \in Revs, input \in Inputs :
                 /\ manifest[r].state = "absent" /\ content' = content
                 /\ job'[h].rev = r /\ job'[h].input = input /\ At(h, "consume")'
        BY <1>3
    <2>2. content'[r] = << >>
        BY <2>1 DEF Owned
    <2>3. FlattenSeq(input) \in Seq(Blocks)
        BY InputsAssumption, FlattenType
    <2>4. << >> \o FlattenSeq(input) = FlattenSeq(input)
        BY <2>3, ConcatLaws
    <2>5. Given(content'[job'[h].rev] \o FlattenSeq(job'[h].input))
        BY Zenon, <2>1, <2>2, <2>4 DEF Given
    <2>6. job'[h].pc = "consume"
        BY <2>1 DEF At
    <2> QED
        BY <2>5, <2>6
<1>4. CASE /\ Committing(h) /\ ~job[h].throwing /\ job'[h].rev = job[h].rev
           /\ job[h].input # << >> /\ At(h, "assign")'
           /\ job'[h].input = Tail(job[h].input)
           /\ content' = [content EXCEPT ![job[h].rev] = @ \o Head(job[h].input)]
    <2> DEFINE r == job[h].rev
               i == job[h].input
    <2>1. Given(content[r] \o FlattenSeq(i)) /\ r \in Revs /\ i \in Seq(Seq(Blocks))
        BY <1>2, <1>4 DEF Halfway, Jobs
    <2>2. content'[r] = content[r] \o Head(i) /\ content[r] \in Seq(Blocks)
        BY <1>2, <1>4, <2>1
    <2>3. content'[r] \o FlattenSeq(Tail(i)) = content[r] \o FlattenSeq(i)
        BY <1>4, <2>1, <2>2, MovesBundle
    <2>4. Given(content'[job'[h].rev] \o FlattenSeq(job'[h].input))
        BY Zenon, <1>4, <2>1, <2>3
    <2>5. job'[h].pc = "assign"
        BY <1>4 DEF At
    <2> QED
        BY <2>4, <2>5
<1>5. CASE /\ Committing(h) /\ ~job[h].throwing /\ job'[h].rev = job[h].rev
           /\ job'[h].input = job[h].input /\ content' = content
           /\ \/ job'[h].pc \in {"consume", "assign", "begin", "emit", "feed"}
              \/ job[h].pc = "close" \/ job[h].input = << >>
    <2>1. Given(content[job[h].rev] \o FlattenSeq(job[h].input))
        BY <1>5 DEF Halfway
    <2>2. Given(content'[job'[h].rev] \o FlattenSeq(job'[h].input))
        BY Zenon, <1>5, <2>1
    <2>3. job[h].pc = "close" => job[h].input = << >>
        BY <1>5 DEF Halfway
    <2> QED
        BY <1>5, <2>2, <2>3
<1> QED
    BY Zenon, <1>1, <1>3, <1>4, <1>5, InputStep

\* A commit that returned has; the one that returns now is the one that steps.
LEMMA OkStays ==
    ASSUME Types, Calls, Owned, NEW h \in Handles, Start(h) \/ Step(h) \/ Keep(h) \/ Crash(h),
           NEW r \in Revs, outcome[r] = "ok"
    PROVE  outcome'[r] = "ok" /\ content'[r] = content[r]
<1>1. ~(Committing(h) /\ job[h].rev = r) /\ manifest[r].state # "absent"
    BY DEF Owned
<1>2. content'[r] = content[r]
    BY <1>1, ContentGrows
<1>3. outcome'[r] = outcome[r]
    <2>1. ASSUME NEW q \in Revs, Begins(h, q) PROVE outcome'[r] = outcome[r]
        BY <1>1, <2>1 DEF Begins, KeptBut, Kept
    <2>2. Ends(h) => outcome'[r] = outcome[r]
        BY <1>1 DEF Ends, KeptBut, Kept
    <2> QED
        BY <2>1, <2>2, Records DEF Continues, Bystands
<1> QED
    BY <1>2, <1>3

LEMMA NewlyOk ==
    ASSUME Types, Calls, NEW h \in Handles, Start(h) \/ Step(h) \/ Keep(h) \/ Crash(h),
           NEW r \in Revs, outcome[r] # "ok", outcome'[r] = "ok"
    PROVE  /\ Ends(h) /\ r = job[h].rev /\ content' = content
           /\ At(h, "finish") /\ ~job[h].throwing
<1>1. ~Bystands(h) /\ ~Continues(h)
    BY DEF Bystands, Continues
<1>2. ASSUME NEW q \in Revs, Begins(h, q) PROVE FALSE
    BY <1>2 DEF Begins, KeptBut, Kept
<1>3. Ends(h)
    BY <1>1, <1>2, Records
<1> QED
    BY <1>3 DEF Ends, KeptBut, Kept

LEMMA WholeNext ==
    ASSUME Types, Calls, Owned, Whole, Next
    PROVE  Whole'
<1>1. PICK h \in Handles : Start(h) \/ Step(h) \/ Keep(h) \/ Crash(h)
    BY DEF Next
<1>2. /\ content \in [Revs -> Seq(Blocks)] /\ job[h] \in Jobs
      /\ \A g \in Handles : Committing(g) => job[g].rev \in Revs
    BY DEF Types, TypeOK, Calls, Call, Committing
<1>3. \A r \in Revs : ~(Committing(h) /\ job[h].rev = r) => content'[r] = content[r]
    BY <1>1, ContentGrows
<1>4. ASSUME NEW r \in Revs, outcome'[r] = "ok" PROVE Given(content'[r])
    <2>1. CASE outcome[r] = "ok"
        BY <1>1, <2>1, OkStays DEF Whole
    <2>2. CASE outcome[r] # "ok"
        <3>1. Ends(h) /\ r = job[h].rev
            BY <1>1, <1>4, <2>2, NewlyOk
        <3>2. ~job[h].throwing /\ At(h, "finish") /\ content' = content
            BY <1>1, <1>4, <2>2, NewlyOk
        <3>3. /\ Given(content[r] \o FlattenSeq(job[h].input)) /\ job[h].input = << >>
            BY <3>1, <3>2 DEF Whole, Halfway, Ends, At
        <3>4. content[r] \o FlattenSeq(job[h].input) = content[r]
            <4>1. content[r] \o << >> = content[r]
                BY <1>2, ConcatLaws
            <4> QED
                BY <3>3, <4>1, FlattenEmpty
        <3> QED
            BY Zenon, <3>2, <3>3, <3>4
    <2> QED
        BY <2>1, <2>2
<1>5. ASSUME NEW g \in Handles, g # h PROVE Halfway(g)'
    <2>1. job'[g] = job[g]
        BY <1>1, <1>5, Frame
    <2>2. Committing(g) => job[g].rev \in Revs /\ content'[job[g].rev] = content[job[g].rev]
        BY <1>2, <1>3, <1>5 DEF Owned
    <2>3. Committing(g)' <=> Committing(g)
        BY <2>1 DEF Committing
    <2> QED
        BY Zenon, <2>1, <2>2, <2>3 DEF Whole, Halfway, Given
<1>6. Halfway(h)'
    BY <1>1, HalfwayNext DEF Whole
<1> QED
    BY <1>4, <1>5, <1>6 DEF Whole, Given

------------------------------------------------------------------------------
(***************************************************************************)
(* What is kept of committed revisions, and what their checkouts return,   *)
(* by the history variables                                                *)
(***************************************************************************)
Yielded == [r \in Revs |-> IF outcome[r] = "ok" THEN Bytes(content[r]) ELSE NoFile]

Returned(h) == At(h, "flush") /\ outcome[job[h].rev] = "ok"

Copied == [h \in Handles |-> IF Returned(h) THEN Bytes(content[job[h].rev]) ELSE NoFile]

LEMMA StoredIs ==
    ASSUME IInv, SerialInv, lost = {}
    PROVE  StoredContents = Yielded
<1>1. ASSUME NEW r \in Revs, outcome[r] = "ok"
      PROVE  Retrieved(manifest[r].ids) = Bytes(content[r])
    <2> DEFINE ids == content[r]
               stored == [i \in DOMAIN ids |->
                             IF Store!Readable(cblocks[ids[i]], Size[ids[i]])
                             THEN Store!BytesAt(cblocks[ids[i]], Size[ids[i]])
                             ELSE << >>]
               data == [i \in 1..Len(ids) |-> Data(ids[i])]
    <2>1. manifest[r].ids = ids
        BY <1>1 DEF IInv, CommittedIndexed
    <2>2. DOMAIN ids = 1..Len(ids)
        BY DEF IInv, Types, TypeOK
    <2>3. \A b \in Ids(ids) : OnDisk(b)
        BY <1>1, OnDiskIfSettled DEF CommittedOnDisk
    <2>4. \A i \in DOMAIN ids : OnDisk(ids[i])
        BY <2>3 DEF Ids
    <2> HIDE DEF ids
    <2>5. stored = data
        BY <2>2, <2>4 DEF OnDisk
    <2>6. Retrieved(ids) = FlattenSeq(stored)
        BY DEF Retrieved
    <2>7. Bytes(ids) = FlattenSeq(data)
        BY DEF Bytes
    <2> HIDE DEF stored, data
    <2>8. Retrieved(manifest[r].ids) = Bytes(ids)
        BY <2>1, <2>5, <2>6, <2>7
    <2> QED
        BY <2>8 DEF ids
<1> QED
    BY <1>1 DEF StoredContents, Yielded

LEMMA ReadingIs ==
    ASSUME IInv, ReadInv, lost = {}
    PROVE  ReadingContents = Copied
<1>1. ASSUME NEW h \in Handles, Returned(h)
      PROVE  job[h].out = Bytes(content[job[h].rev])
    BY <1>1, ExactIfRead DEF CheckoutExact, Returned
<1> QED
    BY <1>1 DEF ReadingContents, Copied, Returned

LEMMA StoredIsNext == (IInv /\ SerialInv /\ lost = {} => StoredContents = Yielded)'
<1>1. IInv /\ SerialInv /\ lost = {} => StoredContents = Yielded
    BY StoredIs
<1> QED
    BY <1>1, PTL

LEMMA ReadingIsNext == (IInv /\ ReadInv /\ lost = {} => ReadingContents = Copied)'
<1>1. IInv /\ ReadInv /\ lost = {} => ReadingContents = Copied
    BY ReadingIs
<1> QED
    BY <1>1, PTL

\* Nothing is dropped while the process lives and the disk takes its writes.
LEMMA NothingDropped ==
    ASSUME {"crash", "write"} \cap Faults = {}, lost = {}, Next
    PROVE  lost' = {}
<1>1. PICK h \in Handles : Start(h) \/ Step(h) \/ Keep(h) \/ Crash(h)
    BY DEF Next
<1>2. "crash" \notin Faults /\ "write" \notin Faults
    OBVIOUS
<1>3. lost' = lost \/ lost' = lost \ {Head(job[h].missing)}
    BY Zenon, <1>1, <1>2
    DEF history, Start, NewRevision, NewRevisionFails, List, ListUnparsable, ListRefused,
        Step, Consume, ConsumeFails, AssignBlocks, AssignFails, MergeBegin, Emit,
        EmitFails, Feed, FeedFails, MergeCommit, CloseStore, CloseRevision, OpenBin,
        CopyRange, CopyFails, EndCopy, Flush, Discard, Keep, Crash
<1> QED
    BY <1>3

\* Checkouts return from "flush", and come there from "copy".
LEMMA IntoFlush ==
    ASSUME Types, NEW h \in Handles, Start(h) \/ Step(h) \/ Keep(h) \/ Crash(h), At(h, "flush")'
    PROVE  At(h, "copy")
<1> USE DEF At
<1>1. ~Throw(h) /\ ~Thrown(h) /\ job' # [job EXCEPT ![h] = Idle]
    BY MovesOn
<1>2. \A p : Goto(h, p) => p = "flush"
    BY MovesOn DEF Moved
<1>3. ~(\E r \in Revs : \/ \E input \in Inputs : NewRevision(h, r, input)
                        \/ List(h, r))
    BY Starts
<1>4. ~Start(h)
    BY <1>1, <1>3 DEF Start, NewRevisionFails, ListUnparsable, ListRefused
<1>5. ~(AssignBlocks(h) \/ Emit(h) \/ Feed(h) \/ MergeCommit(h))
    BY Zenon, Moves DEF Moved
<1>6. ~Consume(h)
    <2>1. Consume(h) /\ job[h].input # << >> => job'[h].pc = "assign"
        BY Zenon, Moves DEF Moved
    <2> QED
        BY <1>2, <2>1 DEF Consume
<1>7. ~(\/ ConsumeFails(h) \/ AssignFails(h) \/ EmitFails(h) \/ FeedFails(h) \/ CloseRevision(h)
        \/ CopyFails(h) \/ Flush(h) \/ Discard(h) \/ Keep(h) \/ Crash(h))
    BY <1>1 DEF ConsumeFails, AssignFails, EmitFails, FeedFails, CloseRevision, CopyFails, Flush,
                Discard, Keep, Crash
<1>8. ~(MergeBegin(h) \/ CloseStore(h) \/ OpenBin(h))
    BY <1>1, <1>2 DEF MergeBegin, CloseStore, OpenBin
<1>9. CopyRange(h) \/ EndCopy(h) => job[h].pc = "copy"
    BY DEF CopyRange, EndCopy
<1> HIDE DEF At
<1>10. At(h, "copy")
    BY Zenon, <1>4, <1>5, <1>6, <1>7, <1>8, <1>9 DEF Step, At
<1> QED
    BY <1>10

\* Some bytes are a file: not NoFile.
LEMMA BytesAreAFile ==
    ASSUME NEW ids \in Seq(Blocks)
    PROVE  Bytes(ids) # NoFile
<1> DEFINE T == {c \in Cells : c[1] \in Ids(ids)}
           S == Cells \cup {Hole}
           b == Bytes(ids)
<1>1. b \in Seq(T) /\ T \subseteq S
    BY BytesType
<1> HIDE DEF T, b
<1>2. b \in Seq(S)
    <2> HIDE DEF S
    <2> QED
        BY <1>1
<1> QED
    BY <1>2, NoFileAssumption DEF b

\* A commit that returns adds what it read under its name, a checkout comes
\* to have what is kept of its revision, and it returns.
LEMMA PromiseStep ==
    ASSUME Types, Calls, Calls', Owned, Whole, \A h \in Handles : Reads(h), Next
    PROVE  \/ \E r \in Revs : \E c \in {Bytes(FlattenSeq(input)) : input \in Inputs} :
                 /\ Yielded[r] = NoFile /\ Yielded' = [Yielded EXCEPT ![r] = c]
                 /\ Copied' = Copied
           \/ \E h \in Handles : \E r \in Revs :
                 /\ Copied[h] = NoFile /\ Yielded[r] # NoFile
                 /\ Copied' = [Copied EXCEPT ![h] = Yielded[r]] /\ Yielded' = Yielded
           \/ \E h \in Handles :
                 /\ Copied[h] # NoFile /\ Copied' = [Copied EXCEPT ![h] = NoFile]
                 /\ Yielded' = Yielded
           \/ Yielded' = Yielded /\ Copied' = Copied
<1>1. PICK h \in Handles : Start(h) \/ Step(h) \/ Keep(h) \/ Crash(h)
    BY DEF Next
<1>2. content \in [Revs -> Seq(Blocks)]
    BY DEF Types, TypeOK
<1>3. \A r \in Revs : outcome[r] = "ok" => outcome'[r] = "ok" /\ content'[r] = content[r]
    BY <1>1, OkStays
<1>4. \A g \in Handles : g # h => job'[g] = job[g]
    BY <1>1, Frame
<1>5. At(h, "flush")' => At(h, "copy")
    BY <1>1, IntoFlush
<1>6. \A g \in Handles : /\ Returned(g) => job[g].rev \in Revs
                         /\ Returned(g)' => job'[g].rev \in Revs
    BY DEF Returned, Calls, Call, At, CheckoutPcs
<1>7. \A r \in Revs : Bytes(content[r]) # NoFile
    BY <1>2, BytesAreAFile
<1>8. CASE \E q \in Revs : outcome[q] # "ok" /\ outcome'[q] = "ok"
    <2>1. PICK q \in Revs : outcome[q] # "ok" /\ outcome'[q] = "ok"
        BY <1>8
    <2>2. /\ Ends(h) /\ q = job[h].rev /\ content' = content
          /\ At(h, "finish") /\ ~job[h].throwing
        BY <1>1, <2>1, NewlyOk
    <2>3. PICK input \in Inputs : content[q] = FlattenSeq(input)
        <3>1. Given(content'[q])
            <4>1. Whole'
                BY WholeNext
            <4> QED
                BY <2>1, <4>1 DEF Whole, Given
        <3> QED
            BY <2>2, <3>1 DEF Given
    <2>4. Yielded[q] = NoFile
        BY <2>1 DEF Yielded
    <2>5. Yielded' = [Yielded EXCEPT ![q] = Bytes(content[q])]
        <3>1. \A r \in Revs : r # q => outcome'[r] = outcome[r]
            BY <2>2 DEF Ends, KeptBut, Kept
        <3> QED
            BY <2>1, <2>2, <3>1 DEF Yielded
    <2>6. ASSUME NEW g \in Handles PROVE Returned(g)' <=> Returned(g)
        <3>1. CASE g = h
            BY <1>5, <2>2, <3>1 DEF Returned, At
        <3>2. CASE g # h
            <4>1. job'[g] = job[g] /\ (At(g, "flush")' <=> At(g, "flush"))
                BY <1>4, <3>2 DEF At
            <4>2. At(g, "flush") => job[g].rev \in Revs /\ manifest[job[g].rev].state = "closed"
                BY DEF Calls, Call, Reads, At, CheckoutPcs
            <4>3. manifest[q].state = "open"
                BY <2>2 DEF Ends, Owned
            <4>4. At(g, "flush") => outcome'[job[g].rev] = outcome[job[g].rev]
                BY <2>2, <4>2, <4>3 DEF Ends, KeptBut, Kept
            <4> QED
                BY <4>1, <4>4 DEF Returned
        <3> QED
            BY <3>1, <3>2
    <2>7. \A g \in Handles : Returned(g) => job'[g] = job[g]
        BY <1>4, <2>2 DEF Returned, At
    <2>8. Copied' = Copied
        BY <2>2, <2>6, <2>7 DEF Copied
    <2> QED
        BY <2>3, <2>4, <2>5, <2>8
<1>9. CASE \A r \in Revs : outcome'[r] = "ok" <=> outcome[r] = "ok"
    <2>1. Yielded' = Yielded
        BY <1>3, <1>9 DEF Yielded
    <2>2. ASSUME NEW g \in Handles, g # h
          PROVE  Copied'[g] = Copied[g]
        <3>1. job'[g] = job[g] /\ (At(g, "flush")' <=> At(g, "flush"))
            BY <1>4, <2>2 DEF At
        <3>2. Returned(g)' <=> Returned(g)
            BY <1>6, <1>9, <3>1 DEF Returned, Calls, Call, At, CheckoutPcs
        <3>3. Returned(g) => content'[job[g].rev] = content[job[g].rev]
            BY <1>3, <1>6 DEF Returned
        <3> QED
            BY <3>1, <3>2, <3>3 DEF Copied
    <2> DEFINE c == Copied'[h]
    <2>3. Copied' = [Copied EXCEPT ![h] = c]
        <3>1. Copied' = [g \in Handles |-> Copied'[g]] /\ Copied = [g \in Handles |-> Copied[g]]
            BY DEF Copied
        <3> QED
            BY <2>2, <3>1
    <2>4. CASE Returned(h)
        <3>1. c = NoFile
            BY <1>5, <2>4 DEF Returned, At, Copied
        <3>2. Copied[h] # NoFile
            BY <1>6, <1>7, <2>4 DEF Copied
        <3> QED
            BY <2>1, <2>3, <3>1, <3>2
    <2>5. CASE ~Returned(h) /\ Returned(h)'
        <3> DEFINE r == job'[h].rev
        <3>1. r \in Revs /\ outcome[r] = "ok"
            BY <1>6, <1>9, <2>5 DEF Returned
        <3>2. c = Yielded[r] /\ Yielded[r] # NoFile
            BY <1>3, <1>7, <2>5, <3>1 DEF Copied, Yielded
        <3>3. Copied[h] = NoFile
            BY <2>5 DEF Copied
        <3> QED
            BY <2>1, <2>3, <3>1, <3>2, <3>3
    <2>6. CASE ~Returned(h) /\ ~Returned(h)'
        <3>1. c = NoFile /\ Copied[h] = NoFile
            BY <2>6 DEF Copied
        <3>2. Copied' = Copied
            BY <2>3, <3>1 DEF Copied
        <3> QED
            BY <2>1, <3>2
    <2> QED
        BY <2>4, <2>5, <2>6
<1> QED
    BY <1>3, <1>8, <1>9

LEMMA WholeInvariance ==
    ASSUME SerialCommits, ~KeepAfterThrow, {"crash", "write"} \cap Faults = {}
    PROVE  Spec => [](Whole /\ lost = {})
<1>1. Init => Whole /\ lost = {}
    BY DEF Init, Whole, Halfway, Committing, CommitPcs, Idle
<1>2. ASSUME IInv, Whole, lost = {}, [Next]_vars
      PROVE  (Whole /\ lost = {})'
    <2>1. CASE Next
        BY <1>2, <2>1, WholeNext, NothingDropped DEF IInv
    <2>2. CASE UNCHANGED vars
        <3>1. job' = job /\ content' = content /\ outcome' = outcome /\ lost' = lost
            BY <2>2 DEF vars, history
        <3> QED
            BY <1>2, <3>1 DEF Whole, Halfway, Given, Committing
    <2> QED
        BY <1>2, <2>1, <2>2
<1> QED
    BY <1>1, <1>2, Invariance, PTL DEF Spec

\* Where callers run one commit at a time and drop an object that threw, and
\* no process dies and no write fails, the three kinds of files are the map
\* that RevisionStore describes: a commit takes effect in one step, its last,
\* and what a checkout returns is what the map has under its name, although
\* the commit wrote its manifest, its rows and its data piece by piece and
\* other calls read and appended meanwhile.
THEOREM PromiseKept ==
    ASSUME SerialCommits, ~KeepAfterThrow, {"crash", "write"} \cap Faults = {}
    PROVE  Spec => ImplementsPromise
<1> DEFINE AllInv == IInv /\ SerialInv /\ ReadInv /\ Whole /\ lost = {}
<1>1. ASSUME Init, AllInv
      PROVE  Promise!Init
    <2>1. StoredContents = Yielded /\ ReadingContents = Copied
        BY <1>1, StoredIs, ReadingIs
    <2>2. Yielded = [r \in Revs |-> NoFile]
        BY <1>1 DEF Init, Yielded
    <2>3. Copied = [h \in Handles |-> NoFile]
        BY <1>1 DEF Init, Copied, Returned, At, Idle
    <2> QED
        BY <2>1, <2>2, <2>3 DEF Promise!Init
<1>2. ASSUME AllInv, AllInv', [Next]_vars
      PROVE  [Promise!Next]_(Promise!vars)
    <2>1. StoredContents = Yielded /\ ReadingContents = Copied
        BY <1>2, StoredIs, ReadingIs
    <2>2. StoredContents' = Yielded' /\ ReadingContents' = Copied'
        BY <1>2, StoredIsNext, ReadingIsNext
    <2>3. CASE Next
        <3>1. \/ \E r \in Revs : \E c \in {Bytes(FlattenSeq(input)) : input \in Inputs} :
                    /\ Yielded[r] = NoFile /\ Yielded' = [Yielded EXCEPT ![r] = c]
                    /\ Copied' = Copied
              \/ \E h \in Handles : \E r \in Revs :
                    /\ Copied[h] = NoFile /\ Yielded[r] # NoFile
                    /\ Copied' = [Copied EXCEPT ![h] = Yielded[r]] /\ Yielded' = Yielded
              \/ \E h \in Handles :
                    /\ Copied[h] # NoFile /\ Copied' = [Copied EXCEPT ![h] = NoFile]
                    /\ Yielded' = Yielded
              \/ Yielded' = Yielded /\ Copied' = Copied
            BY <1>2, <2>3, PromiseStep DEF IInv, ReadInv
        <3> HIDE DEF AllInv
        <3> QED
            BY <2>1, <2>2, <3>1
            DEF Promise!Next, Promise!vars, Promise!Commit, Promise!Checkout, Promise!Return
    <2>4. CASE UNCHANGED vars
        <3>1. /\ outcome' = outcome /\ content' = content /\ job' = job
            BY <2>4 DEF vars, history
        <3>2. Yielded' = Yielded /\ Copied' = Copied
            BY <3>1 DEF Yielded, Copied, Returned, At
        <3> QED
            BY <2>1, <2>2, <3>2 DEF Promise!vars
    <2> QED
        BY <1>2, <2>3, <2>4
<1>3. Spec => []AllInv
    BY ReadInvariance, WholeInvariance, PTL
<1> QED
    BY <1>1, <1>2, <1>3, PTL DEF Spec, ImplementsPromise, Promise!Spec
==============================================================================

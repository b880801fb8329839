----------------------------- MODULE Checkout_proofs -----------------------------
(***************************************************************************)
(* `vv checkout` copies what list() returns, and list() returns what is    *)
(* listed, for every index, every manifest, every length of the buffer and *)
(* every failure: the invariant of the copying loop and what follows.      *)
(***************************************************************************)
EXTENDS Checkout, Segments_proofs

\* The byte of vvpkg.bin at position a is modelled by a.
Byte == Nat

\* The bytes of the ranges that are left.
Rest(segs) == FlattenSeq([i \in DOMAIN segs |-> BytesOf(segs[i].first, segs[i].last)])

\* Ranges are never empty: blocks are not.
FullRange == {r \in RangeSet : r.first < r.last}

Types ==
    /\ cblocks \in Indexes /\ binLen \in Nat
    /\ pc \in {"open", "staging", "range", "read", "flush", "last",
               "returned", "failed", "exited"}
    /\ newfile \in Seq(Blocks) /\ segments \in Seq(FullRange)
    /\ fpos \in Nat /\ sz \in Nat
    /\ buf \in Seq(Byte) /\ target \in Seq(Byte) /\ wanted \in Seq(Byte)
    /\ status \in {-1, 0, 1}

Copying == pc \in {"range", "read", "flush", "last"}

\* Where the loop stands: what is left of the range, and the room in the buffer.
AtLoop ==
    /\ pc \in {"open", "staging"} => sz = 0 /\ buf = << >>
    /\ pc = "range" => sz = 0 /\ Len(buf) < BufLen
    /\ pc = "read"  => sz > 0 /\ Len(buf) < BufLen
    /\ pc = "last"  => sz = 0 /\ segments = << >>
    /\ Len(buf) <= BufLen

\* What the target holds, before, after and when it went wrong.
Outcome ==
    /\ pc \in {"open", "staging"} => wanted = << >>
    /\ pc = "returned" => target = wanted
    /\ pc = "failed" /\ wanted # << >> => IsPrefix(target, wanted)
    /\ pc = "exited" <=> status # -1
    /\ ExitCodeHonest

IInv ==
    /\ Types
    /\ AtLoop
    /\ Copying => target \o buf \o BytesOf(fpos, fpos + sz) \o Rest(segments) = wanted
    /\ Outcome

------------------------------------------------------------------------------
\* The assumptions, part by part.
LEMMA Constants ==
    /\ BufLen \in Nat \ {0}
    /\ \A v \in Indexes, ids \in Seq(Blocks) : Query(v, ids, Blocks)
    /\ \A b \in Blocks : Size[b] \in Nat /\ Size[b] > 0
    /\ Old \in Seq(Byte)
<1>1. ASSUME NEW v \in Indexes, NEW ids \in Seq(Blocks) PROVE Query(v, ids, Blocks)
    <2>1. Size \in [Blocks -> Nat] /\ v \in [Blocks -> Nat \cup {NoOffset}]
        BY CheckoutAssumption
    <2> QED
        BY <2>1, CheckoutAssumption DEF Query
<1> QED
    BY <1>1, CheckoutAssumption DEF Byte

\* The file whose byte at position a is a.
Positions == [a \in Nat |-> a]

LEMMA BytesArePositions ==
    ASSUME NEW a \in Nat, NEW b \in Nat
    PROVE  BytesOf(a, b) = Piece(Positions, a, b)
<1>1. \A i \in 1..(b - a) : a + i - 1 \in Nat /\ Positions[a + i - 1] = a + i - 1
    BY DEF Positions
<1> QED
    BY <1>1 DEF BytesOf, Piece

LEMMA PositionsType == Positions \in [Nat -> Byte]
BY DEF Positions, Byte

LEMMA BytesType ==
    ASSUME NEW a \in Nat, NEW b \in Nat, a <= b
    PROVE  BytesOf(a, b) \in Seq(Byte) /\ Len(BytesOf(a, b)) = b - a
<1>1. Piece(Positions, a, b) \in Seq(Byte) /\ Len(Piece(Positions, a, b)) = b - a
    BY PositionsType, PieceType
<1> QED
    BY <1>1, BytesArePositions, Zenon

LEMMA BytesJoin ==
    ASSUME NEW a \in Nat, NEW b \in Nat, NEW c \in Nat, a <= b, b <= c
    PROVE  BytesOf(a, b) \o BytesOf(b, c) = BytesOf(a, c)
<1>1. Piece(Positions, a, b) \o Piece(Positions, b, c) = Piece(Positions, a, c)
    BY PositionsType, PiecesJoin
<1> QED
    BY <1>1, BytesArePositions, Zenon

\* Nothing to read.
LEMMA NoBytes ==
    ASSUME NEW a \in Nat
    PROVE  BytesOf(a, a) = << >>
<1>1. BytesOf(a, a) \in Seq(Byte) /\ Len(BytesOf(a, a)) = 0
    BY BytesType
<1> QED
    BY <1>1, EmptySeq

\* The next range and the others.
LEMMA RestType ==
    ASSUME NEW segs \in Seq(FullRange)
    PROVE  /\ [i \in DOMAIN segs |-> BytesOf(segs[i].first, segs[i].last)] \in Seq(Seq(Byte))
           /\ Rest(segs) \in Seq(Byte)
<1>1. \A i \in DOMAIN segs : segs[i] \in FullRange
    OBVIOUS
<1>2. \A i \in DOMAIN segs : BytesOf(segs[i].first, segs[i].last) \in Seq(Byte)
    BY <1>1, BytesType DEF FullRange, RangeSet
<1>3. DOMAIN segs = 1..Len(segs) /\ Len(segs) \in Nat
    OBVIOUS
<1> DEFINE b(i) == BytesOf(segs[i].first, segs[i].last)
<1>4. \A i \in 1..Len(segs) : b(i) \in Seq(Byte)
    BY <1>2, <1>3
<1> HIDE DEF b
<1>5. [i \in 1..Len(segs) |-> b(i)] \in Seq(Seq(Byte))
    BY <1>3, <1>4
<1>6. [i \in DOMAIN segs |-> BytesOf(segs[i].first, segs[i].last)] \in Seq(Seq(Byte))
    BY <1>3, <1>5 DEF b
<1> QED
    BY <1>6, FlattenType DEF Rest

LEMMA RestHead ==
    ASSUME NEW segs \in Seq(FullRange), segs # << >>
    PROVE  /\ Head(segs) \in FullRange /\ Tail(segs) \in Seq(FullRange)
           /\ Rest(segs) = BytesOf(Head(segs).first, Head(segs).last) \o Rest(Tail(segs))
<1> DEFINE b(i) == BytesOf(segs[i].first, segs[i].last)
           t == Tail(segs)
           all == [i \in DOMAIN segs |-> BytesOf(segs[i].first, segs[i].last)]
           others == [i \in DOMAIN t |-> BytesOf(t[i].first, t[i].last)]
<1>1. /\ Head(segs) \in FullRange /\ Head(segs) = segs[1] /\ t \in Seq(FullRange)
      /\ Len(segs) \in Nat \ {0} /\ DOMAIN segs = 1..Len(segs)
      /\ DOMAIN t = 1..(Len(segs) - 1) /\ \A i \in DOMAIN t : t[i] = segs[i + 1]
    OBVIOUS
<1>2. all \in Seq(Seq(Byte)) /\ others \in Seq(Seq(Byte))
    BY <1>1, RestType
<1> HIDE DEF t
<1>3. Len(all) = Len(segs) /\ \A i \in 1..Len(segs) : all[i] = b(i)
    BY <1>1
<1>4. Len(others) = Len(segs) - 1 /\ \A i \in 1..(Len(segs) - 1) : others[i] = b(i + 1)
    BY <1>1
<1> HIDE DEF all, others, b
<1>5. all # << >> /\ Head(all) = b(1)
    BY <1>1, <1>2, <1>3
<1>6. Tail(all) \in Seq(Seq(Byte)) /\ Len(Tail(all)) = Len(segs) - 1
      /\ \A i \in 1..(Len(segs) - 1) : Tail(all)[i] = b(i + 1)
    BY <1>1, <1>2, <1>3, <1>5
<1>7. Tail(all) = others
    BY <1>2, <1>4, <1>6, SeqEqual
<1>8. FlattenSeq(all) = b(1) \o FlattenSeq(others)
    BY <1>2, <1>5, <1>7, FlattenHead
<1> QED
    BY <1>1, <1>8 DEF Rest, all, others, b, t

LEMMA PrefixOfConcat ==
    ASSUME NEW S, NEW s \in Seq(S), NEW t \in Seq(S)
    PROVE  IsPrefix(s, s \o t)
<1>1. s \o t \in Seq(S) /\ Len(s \o t) = Len(s) + Len(t) /\ Len(s) \in Nat /\ Len(t) \in Nat
      /\ \A i \in 1..Len(s) : (s \o t)[i] = s[i]
    BY ConcatProperties
<1> DEFINE u == s \o t
<1>2. SubSeq(s, 1, Len(s)) = s
    OBVIOUS
<1> HIDE DEF u
<1>3. SubSeq(u, 1, Len(s)) = s
    <2>0. u \in Seq(S) /\ Len(s) <= Len(u) /\ \A i \in 1..Len(s) : u[i] = s[i]
        BY <1>1 DEF u
    <2>1. SubSeq(u, 1, Len(s)) \in Seq(S) /\ Len(SubSeq(u, 1, Len(s))) = Len(s)
          /\ \A i \in 1..Len(s) : SubSeq(u, 1, Len(s))[i] = u[i]
        BY <1>1, <2>0
    <2> QED
        BY <2>0, <2>1, SeqEqual
<1> QED
    BY <1>1, <1>2, <1>3 DEF IsPrefix, u

------------------------------------------------------------------------------
\* No range that list() returns is empty.
LEMMA RangesFull ==
    ASSUME NEW v \in Indexes, NEW ids \in Seq(Blocks)
    PROVE  Ranges(v, ids) \in Seq(FullRange)
<1> DEFINE R == Ranges(v, ids)
           m == Cardinality(Groupings(v, ids))
<1>1. Query(v, ids, Blocks)
    BY Constants
<1>2. R \in Seq(RangeSet) /\ Len(R) = m
    BY <1>1, PositionsType, PiecesType
<1>3. ASSUME NEW i \in 1..m PROVE R[i] \in FullRange
    <2>1. PICK j \in 1..Reached(v, ids) :
             R[i] = [first |-> OffStart(v, ids, GroupOf(v, ids)[j]),
                     last  |-> OffEnd(v, ids, j)]
        BY <1>1, RangeIs
    <2>2. /\ OffStart(v, ids, GroupOf(v, ids)[j]) <= OffStart(v, ids, j)
          /\ GroupOf(v, ids)[j] \in 1..j
        BY <1>1, Groups DEF GroupFacts
    <2>3. Reached(v, ids) \in Nat
        BY <1>1, GroupingsAre
    <2>4. GroupOf(v, ids)[j] \in 1..Reached(v, ids)
        BY <2>2, <2>3
    <2>5. /\ OffStart(v, ids, GroupOf(v, ids)[j]) \in Nat
          /\ OffStart(v, ids, j) \in Nat /\ OffEnd(v, ids, j) \in Nat /\ ids[j] \in Blocks
        BY <1>1, <2>4, RowType
    <2>6. OffEnd(v, ids, j) = OffStart(v, ids, j) + Size[ids[j]] /\ Size[ids[j]] > 0
          /\ Size[ids[j]] \in Nat
        BY <2>5, Constants DEF OffEnd, OffStart
    <2> DEFINE a == OffStart(v, ids, GroupOf(v, ids)[j])
               b == OffEnd(v, ids, j)
    <2>7. a \in Nat /\ b \in Nat /\ a < b
        BY <2>2, <2>5, <2>6
    <2>8. R[i] = [first |-> a, last |-> b]
        BY <2>1
    <2> HIDE DEF a, b, R
    <2> QED
        BY <2>7, <2>8 DEF FullRange, RangeSet
<1> HIDE DEF R, m
<1>4. R \in [1..m -> FullRange] /\ m \in Nat
    BY <1>2, <1>3
<1> QED
    BY <1>4 DEF R

\* What list() returns is what is listed, byte for byte.
LEMMA RangesAreListed ==
    ASSUME cblocks \in Indexes, NEW ids \in Seq(Blocks)
    PROVE  /\ Rest(Ranges(cblocks, ids)) = Listed(ids)
           /\ Listed(ids) \in Seq(Byte)
           /\ DOMAIN Ranges(cblocks, ids) = 1..Len(Ranges(cblocks, ids))
<1> DEFINE R == Ranges(cblocks, ids)
           n == Reached(cblocks, ids)
<1>1. Query(cblocks, ids, Blocks)
    BY Constants
<1>2. FlattenSeq(RangePieces(Positions, cblocks, ids))
        = FlattenSeq(RowPieces(Positions, cblocks, ids))
    BY <1>1, PositionsType, RangesRead
<1>3. R \in Seq(FullRange)
    BY RangesFull
<1>4. RowPieces(Positions, cblocks, ids) =
        [j \in 1..n |-> BytesOf(OffStart(cblocks, ids, j), OffEnd(cblocks, ids, j))]
    <2>1. \A j \in 1..n : OffStart(cblocks, ids, j) \in Nat /\ OffEnd(cblocks, ids, j) \in Nat
        BY <1>1, RowType
    <2>2. \A j \in 1..n : BytesOf(OffStart(cblocks, ids, j), OffEnd(cblocks, ids, j))
                = Piece(Positions, OffStart(cblocks, ids, j), OffEnd(cblocks, ids, j))
        BY <2>1, BytesArePositions
    <2> QED
        BY <2>2 DEF RowPieces
<1>5. RangePieces(Positions, cblocks, ids) = [i \in DOMAIN R |-> BytesOf(R[i].first, R[i].last)]
    <2>1. DOMAIN R = 1..Len(R) /\ \A i \in 1..Len(R) : R[i] \in FullRange
        BY <1>3
    <2> HIDE DEF R
    <2>2. \A i \in 1..Len(R) : BytesOf(R[i].first, R[i].last)
                = Piece(Positions, R[i].first, R[i].last)
        BY <2>1, BytesArePositions DEF FullRange, RangeSet
    <2>3. RangePieces(Positions, cblocks, ids)
            = [i \in 1..Len(R) |-> Piece(Positions, R[i].first, R[i].last)]
        BY DEF RangePieces, R
    <2> QED
        BY <2>1, <2>2, <2>3
<1>6. Listed(ids) = FlattenSeq(RowPieces(Positions, cblocks, ids))
    BY <1>4 DEF Listed
<1>7. Rest(R) = FlattenSeq(RangePieces(Positions, cblocks, ids))
    BY <1>5 DEF Rest
<1>8. Rest(R) \in Seq(Byte) /\ DOMAIN R = 1..Len(R)
    <2> HIDE DEF R
    <2>1. Rest(R) \in Seq(Byte)
        BY <1>3, RestType
    <2>2. DOMAIN R = 1..Len(R)
        BY <1>3
    <2> QED
        BY <2>1, <2>2
<1> QED
    BY <1>2, <1>6, <1>7, <1>8

LEMMA ListedWhenStaging ==
    ASSUME cblocks \in Indexes, newfile \in Seq(Blocks)
    PROVE  ReadsWhatIsListed
<1> DEFINE R == Ranges(cblocks, newfile)
<1>1. Rest(R) = Listed(newfile) /\ DOMAIN R = 1..Len(R)
    BY RangesAreListed
<1> HIDE DEF R
<1>2. FlattenSeq([i \in 1..Len(R) |-> BytesOf(R[i].first, R[i].last)]) = Listed(newfile)
    BY <1>1 DEF Rest
<1> QED
    BY <1>2 DEF ReadsWhatIsListed, R

------------------------------------------------------------------------------
(***************************************************************************)
(* The invariant is inductive                                              *)
(***************************************************************************)
LEMMA InitIInv == Init => IInv
<1> SUFFICES ASSUME Init PROVE IInv
    OBVIOUS
<1>1. Types
    BY Constants, EmptySeq DEF Init, Types
<1>2. AtLoop
    BY Constants DEF Init, AtLoop
<1>3. ~Copying /\ Outcome
    BY DEF Init, Copying, Outcome, ExitCodeHonest
<1> QED
    BY <1>1, <1>2, <1>3 DEF IInv

\* What is copied, in the order of the parts.
Stream == Lists(Byte)
Parts(t, b, r, q) == Cat(Cat(Cat(t, b), r), q)

\* fread moves bytes from the range to the buffer,
LEMMA PartsFilled ==
    ASSUME NEW t \in Stream, NEW b \in Stream, NEW c \in Stream,
           NEW d \in Stream, NEW q \in Stream
    PROVE  Parts(t, Cat(b, c), d, q) = Parts(t, b, Cat(c, d), q)
<1>1. Cat(t, b) \in Stream
    BY CatLaws DEF Stream
<1>2. Cat(t, Cat(b, c)) = Cat(Cat(t, b), c)
    BY CatLaws DEF Stream
<1>3. Cat(Cat(Cat(t, b), c), d) = Cat(Cat(t, b), Cat(c, d))
    BY <1>1, CatLaws DEF Stream
<1> QED
    BY <1>2, <1>3 DEF Parts

\* a flush those of the buffer to the target,
LEMMA PartsFlushed ==
    ASSUME NEW t \in Stream, NEW b \in Stream
    PROVE  /\ Cat(t, b) \in Stream
           /\ \A r, q : Parts(Cat(t, b), << >>, r, q) = Parts(t, b, r, q)
<1>1. Cat(t, b) \in Stream /\ Cat(Cat(t, b), << >>) = Cat(t, b)
    BY CatLaws DEF Stream
<1> QED
    BY <1>1 DEF Parts

\* and the next range takes its bytes from those that are left.
LEMMA PartsSought ==
    ASSUME NEW t \in Stream, NEW b \in Stream, NEW r \in Stream, NEW q \in Stream
    PROVE  Parts(t, b, << >>, Cat(r, q)) = Parts(t, b, r, q)
<1>1. Cat(t, b) \in Stream /\ Cat(Cat(t, b), << >>) = Cat(t, b)
    BY CatLaws DEF Stream
<1>2. Cat(Cat(t, b), Cat(r, q)) = Cat(Cat(Cat(t, b), r), q)
    BY <1>1, CatLaws DEF Stream
<1> QED
    BY <1>1, <1>2 DEF Parts

\* Where there is nothing to read and nothing in the buffer.
LEMMA PartsEmpty ==
    ASSUME NEW t \in Stream, NEW b \in Stream
    PROVE  /\ Parts(t, b, << >>, << >>) = Cat(t, b)
           /\ Parts(t, << >>, << >>, b) = Cat(t, b)
<1>1. Cat(t, b) \in Stream /\ Cat(Cat(t, b), << >>) = Cat(t, b) /\ Cat(t, << >>) = t
    BY CatLaws DEF Stream
<1> QED
    BY <1>1 DEF Parts

\* The target, and all the others.
LEMMA PartsOfTarget ==
    ASSUME NEW t \in Stream, NEW b \in Stream, NEW r \in Stream, NEW q \in Stream
    PROVE  /\ Cat(b, Cat(r, q)) \in Stream
           /\ Parts(t, b, r, q) = Cat(t, Cat(b, Cat(r, q)))
<1>1. Cat(t, b) \in Stream /\ Cat(r, q) \in Stream
    BY CatLaws DEF Stream
<1>2. Cat(b, Cat(r, q)) \in Stream
    BY <1>1, CatLaws DEF Stream
<1>3. Cat(Cat(Cat(t, b), r), q) = Cat(Cat(t, b), Cat(r, q))
    BY <1>1, CatLaws DEF Stream
<1>4. Cat(Cat(t, b), Cat(r, q)) = Cat(t, Cat(b, Cat(r, q)))
    BY <1>1, CatLaws DEF Stream
<1> QED
    BY <1>2, <1>3, <1>4 DEF Parts

LEMMA CopyingParts ==
    IInv => (Copying => Parts(target, buf, BytesOf(fpos, fpos + sz), Rest(segments)) = wanted)
BY DEF IInv, Parts, Cat

LEMMA StreamTypes ==
    ASSUME Types
    PROVE  /\ target \in Stream /\ buf \in Stream /\ << >> \in Stream
           /\ BytesOf(fpos, fpos + sz) \in Stream /\ Rest(segments) \in Stream
<1>1. fpos \in Nat /\ fpos + sz \in Nat /\ fpos <= fpos + sz
    BY DEF Types
<1>2. BytesOf(fpos, fpos + sz) \in Seq(Byte)
    BY <1>1, BytesType
<1>3. Rest(segments) \in Seq(Byte)
    BY RestType DEF Types
<1>4. << >> \in Seq(Byte)
    OBVIOUS
<1> QED
    BY <1>2, <1>3, <1>4 DEF Types, Stream, Lists

\* While ranges are copied, the target holds a prefix of what is wanted.
LEMMA TargetIsPrefix ==
    ASSUME IInv, Copying
    PROVE  /\ IsPrefix(target, wanted)
           /\ \A n \in 0..Len(buf) : /\ IsPrefix(target \o SubSeq(buf, 1, n), wanted)
                                     /\ target \o SubSeq(buf, 1, n) \in Seq(Byte)
<1> DEFINE r == BytesOf(fpos, fpos + sz)
           q == Rest(segments)
<1>1. Parts(target, buf, r, q) = wanted
    BY CopyingParts
<1>2. r \in Stream /\ q \in Stream /\ target \in Stream /\ buf \in Stream /\ << >> \in Stream
    BY StreamTypes DEF IInv
<1> HIDE DEF r, q
<1>3. ASSUME NEW a \in Stream, NEW z \in Stream, buf = Cat(a, z)
      PROVE  IsPrefix(Cat(target, a), wanted) /\ Cat(target, a) \in Stream
    <2> DEFINE w == Cat(z, Cat(r, q))
               x == Cat(target, a)
    <2>1. x \in Stream /\ w \in Stream
        BY <1>2, PartsFlushed, PartsOfTarget
    <2>2. wanted = Cat(target, Cat(Cat(a, z), Cat(r, q)))
        <3>1. Parts(target, buf, r, q) = Cat(target, Cat(buf, Cat(r, q)))
            BY <1>2, PartsOfTarget
        <3> QED
            BY <1>1, <1>3, <3>1
    <2>3. Cat(Cat(a, z), Cat(r, q)) = Cat(a, w) /\ Cat(target, Cat(a, w)) = Cat(x, w)
        <3>1. Cat(r, q) \in Stream
            BY <1>2, CatLaws DEF Stream
        <3> QED
            BY <1>2, <2>1, <3>1, CatLaws DEF Stream
    <2>4. wanted = Cat(x, w)
        BY <2>2, <2>3
    <2> HIDE DEF x, w
    <2>5. IsPrefix(x, wanted)
        BY <2>1, <2>4, PrefixOfConcat DEF Stream, Lists, Cat
    <2> QED
        BY <2>1, <2>5 DEF x
<1>4. IsPrefix(target, wanted)
    <2>1. Cat(<< >>, buf) = buf /\ Cat(target, << >>) = target
        BY <1>2, CatLaws DEF Stream
    <2> QED
        BY <1>2, <1>3, <2>1
<1>5. ASSUME NEW n \in 0..Len(buf)
      PROVE  /\ IsPrefix(target \o SubSeq(buf, 1, n), wanted)
             /\ target \o SubSeq(buf, 1, n) \in Seq(Byte)
    <2> DEFINE a == SubSeq(buf, 1, n)
               z == SubSeq(buf, n + 1, Len(buf))
    <2>1. a \in Seq(Byte) /\ z \in Seq(Byte) /\ buf = a \o z
        BY <1>2, SplitSeq DEF Stream, Lists
    <2> HIDE DEF a, z
    <2>2. a \in Stream /\ z \in Stream /\ buf = Cat(a, z)
        BY <2>1 DEF Stream, Lists, Cat
    <2>3. IsPrefix(Cat(target, a), wanted) /\ Cat(target, a) \in Stream
        BY <1>3, <2>2
    <2> QED
        BY <2>3 DEF a, Cat, Stream, Lists
<1> QED
    BY <1>4, <1>5

LEMMA OpenTargetIInv == IInv /\ OpenTarget => IInv'
<1> SUFFICES ASSUME IInv, OpenTarget PROVE IInv'
    OBVIOUS
<1> USE DEF OpenTarget, xopen_for_write, xstdout_fileno, Goto, Throw, disk
<1>1. << >> \in Seq(Byte)
    OBVIOUS
<1>2. Types'
    BY <1>1 DEF IInv, Types
<1>3. AtLoop' /\ ~Copying'
    BY DEF IInv, AtLoop, Copying
<1>4. Outcome'
    BY DEF IInv, Outcome, ExitCodeHonest
<1> QED
    BY <1>2, <1>3, <1>4 DEF IInv

LEMMA StageIInv == IInv /\ Stage => IInv'
<1> SUFFICES ASSUME IInv, Stage PROVE IInv'
    OBVIOUS
<1> USE DEF Stage, Goto, disk
<1>1. Types'
    <2>1. newfile' \in Seq(Blocks)
        BY AppendProperties DEF IInv, Types
    <2> QED
        BY <2>1 DEF IInv, Types
<1>2. AtLoop' /\ ~Copying' /\ Outcome'
    BY DEF IInv, AtLoop, Copying, Outcome, ExitCodeHonest
<1> QED
    BY <1>1, <1>2 DEF IInv

LEMMA ListIInv == IInv /\ List => IInv'
<1> SUFFICES ASSUME IInv, List PROVE IInv'
    OBVIOUS
<1> USE DEF List
<1> DEFINE all == Listed(newfile)
<1>1. all \in Seq(Byte) /\ target \in Seq(Byte) /\ segments' \in Seq(FullRange)
      /\ Rest(segments') = all /\ buf = << >> /\ wanted' = target \o all
    <2>1. cblocks \in Indexes /\ newfile \in Seq(Blocks)
        BY DEF IInv, Types
    <2>2. Rest(segments') = all /\ all \in Seq(Byte) /\ segments' \in Seq(FullRange)
        BY <2>1, RangesAreListed, RangesFull
    <2> QED
        BY <2>2 DEF IInv, Types, AtLoop
<1> HIDE DEF all
<1>2. target \in Stream /\ all \in Stream /\ << >> \in Stream
    BY <1>1 DEF Stream, Lists
<1>3. wanted' = Cat(target, all) /\ wanted' \in Stream
    BY <1>1, <1>2, PartsFlushed DEF Cat
<1>4. binLen' \in Nat
    BY CheckoutAssumption
<1>5. Types'
    BY <1>1, <1>3, <1>4 DEF IInv, Types, Stream, Lists
<1>6. fpos' = fpos /\ fpos \in Nat /\ sz' = 0 /\ BytesOf(fpos, fpos) = << >>
    BY NoBytes DEF IInv, Types, AtLoop
<1>7. AtLoop'
    BY <1>1, <1>6, Constants, EmptySeq DEF IInv, AtLoop, Types
<1>8. Copying' => Parts(target', buf', BytesOf(fpos', fpos' + sz'), Rest(segments')) = wanted'
    <2>1. buf' = << >> /\ target' = target /\ fpos' + sz' = fpos
        BY <1>1, <1>6
    <2>2. Parts(target, << >>, << >>, all) = Cat(target, all)
        BY <1>2, PartsEmpty
    <2> QED
        BY <1>1, <1>3, <1>6, <2>1, <2>2
<1>9. Outcome'
    <2>1. IsPrefix(target', wanted')
        BY <1>1, <1>2, PrefixOfConcat
    <2> QED
        BY <2>1 DEF IInv, Outcome, ExitCodeHonest
<1> QED
    BY <1>5, <1>7, <1>8, <1>9 DEF IInv, Parts, Cat

LEMMA NextRangeIInv == IInv /\ NextRange => IInv'
<1> SUFFICES ASSUME IInv, NextRange PROVE IInv'
    OBVIOUS
<1> USE DEF NextRange, Goto, disk
<1> DEFINE f == Head(segments).first
           l == Head(segments).last
           q == Rest(segments')
<1>1. /\ Head(segments) \in FullRange /\ segments' \in Seq(FullRange)
      /\ Rest(segments) = BytesOf(f, l) \o q
    BY RestHead DEF IInv, Types
<1>2. f \in Nat /\ l \in Nat /\ f < l
    BY <1>1 DEF FullRange, RangeSet
<1>3. fpos' = f /\ sz' \in Nat /\ sz' > 0 /\ fpos' + sz' = l /\ sz = 0
    BY <1>2 DEF IInv, AtLoop
<1>4. Types'
    BY <1>1, <1>2, <1>3 DEF IInv, Types
<1>5. AtLoop'
    BY <1>3 DEF IInv, AtLoop
<1>6. Parts(target', buf', BytesOf(fpos', fpos' + sz'), Rest(segments')) = wanted'
    <2>1. Parts(target, buf, BytesOf(fpos, fpos + sz), Rest(segments)) = wanted
        BY CopyingParts DEF Copying
    <2>2. BytesOf(fpos, fpos + sz) = << >>
        BY <1>3, NoBytes DEF IInv, Types
    <2>3. target \in Stream /\ buf \in Stream /\ << >> \in Stream
        BY StreamTypes DEF IInv
    <2>4. BytesOf(f, l) \in Stream /\ q \in Stream
        <3>1. BytesOf(f, l) \in Seq(Byte)
            <4> HIDE DEF f, l
            <4>1. f <= l
                BY <1>2
            <4> QED
                BY <1>2, <4>1, BytesType
        <3>2. q \in Seq(Byte)
            BY <1>1, RestType
        <3> QED
            BY <3>1, <3>2 DEF Stream, Lists
    <2>5. Rest(segments) = Cat(BytesOf(f, l), q)
        BY <1>1 DEF Cat
    <2> HIDE DEF q, f, l
    <2>6. Parts(target, buf, << >>, Cat(BytesOf(f, l), q)) = Parts(target, buf, BytesOf(f, l), q)
        BY <2>3, <2>4, PartsSought
    <2>7. Parts(target, buf, BytesOf(f, l), q) = wanted
        BY <2>1, <2>2, <2>5, <2>6
    <2> QED
        BY <1>3, <2>7 DEF q
<1>7. Outcome'
    BY DEF IInv, Outcome, ExitCodeHonest
<1> QED
    BY <1>4, <1>5, <1>6, <1>7 DEF IInv, Parts, Cat

LEMMA LastRangeIInv == IInv /\ LastRange => IInv'
<1> SUFFICES ASSUME IInv, LastRange PROVE IInv'
    OBVIOUS
<1> USE DEF LastRange, Goto, disk
<1>1. Types'
    <2>1. newfile' \in Seq(Blocks)
        OBVIOUS
    <2> QED
        BY <2>1 DEF IInv, Types
<1>2. AtLoop' /\ Outcome'
    BY DEF IInv, AtLoop, Outcome, ExitCodeHonest
<1>3. Copying /\ Copying'
    BY DEF Copying
<1> QED
    BY <1>1, <1>2, <1>3 DEF IInv

LEMMA FreadIInv == IInv /\ Fread => IInv'
<1> SUFFICES ASSUME IInv, Fread PROVE IInv'
    OBVIOUS
<1> USE DEF Fread, Goto, disk
<1> DEFINE c == BytesOf(fpos, fpos + ReadLen)
           d == BytesOf(fpos + ReadLen, fpos + sz)
           q == Rest(segments)
<1>1. /\ sz \in Nat /\ sz > 0 /\ fpos \in Nat /\ buf \in Seq(Byte)
      /\ Len(buf) \in Nat /\ BufLen \in Nat /\ Len(buf) < BufLen
    BY Constants DEF IInv, Types, AtLoop
<1>2. ReadLen \in Nat /\ ReadLen > 0 /\ ReadLen <= sz /\ Len(buf) + ReadLen <= BufLen
    BY <1>1 DEF ReadLen
<1>3. ReadLen # sz => Len(buf) + ReadLen = BufLen
    BY <1>1 DEF ReadLen
<1> HIDE DEF ReadLen
<1>4. c \in Seq(Byte) /\ Len(c) = ReadLen /\ d \in Seq(Byte)
      /\ c \o d = BytesOf(fpos, fpos + sz)
    <2>1. fpos + ReadLen \in Nat /\ fpos + sz \in Nat /\ fpos <= fpos + ReadLen
          /\ fpos + ReadLen <= fpos + sz /\ (fpos + ReadLen) - fpos = ReadLen
        BY <1>1, <1>2
    <2> QED
        BY <1>1, <2>1, BytesType, BytesJoin
<1> HIDE DEF c, d, q
<1>5. buf' = buf \o c /\ buf' \in Seq(Byte) /\ Len(buf') = Len(buf) + ReadLen
    BY <1>1, <1>4, ConcatProperties DEF c
<1>6. sz' \in Nat /\ fpos' \in Nat /\ fpos' + sz' = fpos + sz /\ sz' = sz - ReadLen
    BY <1>1, <1>2
<1>7. Types'
    BY <1>5, <1>6 DEF IInv, Types
<1>8. AtLoop'
    <2>1. Len(buf') <= BufLen /\ (Len(buf') # BufLen => Len(buf') < BufLen)
        <3>1. Len(buf') = Len(buf) + ReadLen
            BY <1>5
        <3> DEFINE n == Len(buf')
        <3> HIDE DEF n
        <3>2. n = Len(buf) + ReadLen
            BY <3>1 DEF n
        <3>3. n <= BufLen /\ (n # BufLen => n < BufLen)
            BY <1>1, <1>2, <3>2
        <3> QED
            BY <3>3 DEF n
    <2>2. sz' # 0 => Len(buf') = BufLen
        BY <1>1, <1>2, <1>3, <1>5, <1>6
    <2> QED
        BY <1>6, <2>1, <2>2 DEF AtLoop
<1>9. Parts(target', buf', BytesOf(fpos', fpos' + sz'), Rest(segments')) = wanted'
    <2>1. Parts(target, buf, BytesOf(fpos, fpos + sz), q) = wanted
        BY CopyingParts DEF Copying, q
    <2>2. target \in Stream /\ buf \in Stream /\ q \in Stream
        BY StreamTypes DEF IInv, q
    <2>3. c \in Stream /\ d \in Stream
        BY <1>4 DEF Stream, Lists
    <2>4. Cat(c, d) = BytesOf(fpos, fpos + sz) /\ buf' = Cat(buf, c)
        BY <1>4, <1>5 DEF Cat
    <2>5. Parts(target, Cat(buf, c), d, q) = Parts(target, buf, Cat(c, d), q)
        BY <2>2, <2>3, PartsFilled
    <2>6. d = BytesOf(fpos', fpos' + sz')
        BY <1>6 DEF d
    <2>7. q = Rest(segments') /\ target' = target /\ wanted' = wanted
        BY DEF q
    <2> QED
        BY <2>1, <2>4, <2>5, <2>6, <2>7
<1>10. Outcome'
    BY DEF IInv, Outcome, ExitCodeHonest
<1> QED
    BY <1>7, <1>8, <1>9, <1>10 DEF IInv, Parts, Cat

LEMMA DoFlushIInv == IInv /\ DoFlush => IInv'
<1> SUFFICES ASSUME IInv, DoFlush PROVE IInv'
    OBVIOUS
<1> USE DEF DoFlush, Goto, disk, AfterFlush
<1> DEFINE r == BytesOf(fpos, fpos + sz)
           q == Rest(segments)
<1>1. Copying
    BY DEF Copying
<1>2. Parts(target, buf, r, q) = wanted
    BY <1>1, CopyingParts
<1>3. target \in Stream /\ buf \in Stream
    BY StreamTypes DEF IInv
<1>4. target' = Cat(target, buf) /\ buf' = << >> /\ target' \in Stream
    BY <1>3, PartsFlushed DEF Cat
<1>5. Parts(target', buf', r, q) = wanted
    BY <1>2, <1>3, <1>4, PartsFlushed
<1>6. Types'
    <2>1. target' \in Seq(Byte) /\ buf' \in Seq(Byte)
        BY <1>4 DEF Stream, Lists
    <2> QED
        BY <2>1 DEF IInv, Types
<1>7. AtLoop'
    BY <1>4, Constants DEF IInv, AtLoop, Types
<1>8. pc = "last" => target' = wanted
    <2> SUFFICES ASSUME pc = "last" PROVE target' = wanted
        OBVIOUS
    <2>1. sz = 0 /\ segments = << >> /\ fpos \in Nat
        BY DEF IInv, AtLoop, Types
    <2>2. r = << >>
        BY <2>1, NoBytes
    <2>3. q = << >>
        BY <2>1, FlattenEmpty DEF Rest
    <2>4. Parts(target, buf, << >>, << >>) = Cat(target, buf)
        BY <1>3, PartsEmpty
    <2> QED
        BY <1>2, <1>4, <2>2, <2>3, <2>4
<1>9. Outcome'
    BY <1>8 DEF IInv, Outcome, ExitCodeHonest
<1> QED
    BY <1>5, <1>6, <1>7, <1>9 DEF IInv, Parts, Cat

LEMMA ExitIInv == IInv /\ Exit => IInv'
<1> SUFFICES ASSUME IInv, Exit PROVE IInv'
    OBVIOUS
<1> USE DEF Exit, disk
<1>1. Types'
    BY DEF IInv, Types
<1>2. AtLoop' /\ ~Copying' /\ Outcome'
    BY DEF IInv, AtLoop, Copying, Outcome, ExitCodeHonest
<1> QED
    BY <1>1, <1>2 DEF IInv

LEMMA FailureIInv == IInv /\ Failure => IInv'
<1> SUFFICES ASSUME IInv, Failure PROVE IInv'
    OBVIOUS
<1> USE DEF Throw, Goto, disk
<1>1. CASE ListFails
    <2>1. Types'
        BY <1>1 DEF ListFails, IInv, Types
    <2>2. AtLoop' /\ ~Copying' /\ Outcome'
        BY <1>1 DEF ListFails, IInv, AtLoop, Copying, Outcome, ExitCodeHonest
    <2> QED
        BY <2>1, <2>2 DEF IInv
<1>2. CASE FreadFails
    <2>1. IsPrefix(target, wanted)
        BY <1>2, TargetIsPrefix DEF FreadFails, Copying
    <2>2. Types'
        BY <1>2 DEF FreadFails, IInv, Types
    <2>3. AtLoop' /\ ~Copying' /\ Outcome'
        BY <1>2, <2>1 DEF FreadFails, IInv, AtLoop, Copying, Outcome, ExitCodeHonest
    <2> QED
        BY <2>2, <2>3 DEF IInv
<1>3. CASE FlushFails
    <2>1. Copying
        BY <1>3 DEF FlushFails, Copying
    <2>2. PICK n \in 0..(IF buf = << >> THEN 0 ELSE Len(buf) - 1) :
             target' = target \o SubSeq(buf, 1, n)
        BY <1>3 DEF FlushFails
    <2>3. n \in 0..Len(buf)
        BY <2>2 DEF IInv, Types
    <2>4. IsPrefix(target', wanted) /\ target' \in Seq(Byte)
        BY <2>1, <2>2, <2>3, TargetIsPrefix
    <2>5. Types'
        BY <1>3, <2>4 DEF FlushFails, IInv, Types
    <2>6. AtLoop' /\ ~Copying' /\ Outcome'
        BY <1>3, <2>4 DEF FlushFails, IInv, AtLoop, Copying, Outcome, ExitCodeHonest
    <2> QED
        BY <2>5, <2>6 DEF IInv
<1> QED
    BY <1>1, <1>2, <1>3 DEF Failure

LEMMA NextIInv == IInv /\ [Next]_vars => IInv'
<1> SUFFICES ASSUME IInv, [Next]_vars PROVE IInv'
    OBVIOUS
<1>1. CASE Progress
    BY <1>1, OpenTargetIInv, NextRangeIInv, LastRangeIInv, FreadIInv, DoFlushIInv, ExitIInv
    DEF Progress
<1>2. CASE Stage \/ List \/ Failure
    BY <1>2, StageIInv, ListIInv, FailureIInv
<1>3. CASE UNCHANGED vars
    BY <1>3 DEF vars, disk, IInv, Types, AtLoop, Copying, Outcome, ExitCodeHonest
<1> QED
    BY <1>1, <1>2, <1>3 DEF Next

------------------------------------------------------------------------------
(***************************************************************************)
(* The properties                                                          *)
(***************************************************************************)
\* The invariant of the copying loop.
THEOREM Invariance == Spec => []IInv
<1>1. Init => IInv
    BY InitIInv
<1>2. IInv /\ [Next]_vars => IInv'
    BY NextIInv
<1> QED
    BY <1>1, <1>2, PTL DEF Spec

\* Reading the ranges that list() returns reads, byte for byte, the blocks the
\* manifest lists, up to the first that is not indexed, for every index,
\* manifest and size of block (vfile.cc, 136-165).
THEOREM ListingExact == Spec => []ReadsWhatIsListed
<1>1. IInv => ReadsWhatIsListed
    BY ListedWhenStaging DEF IInv, Types
<1> QED
    BY <1>1, Invariance, PTL

\* No byte is lost, repeated or moved where the end of the buffer, of a range
\* and of the list meet, for every length of the buffer (repository.h, 66-101).
THEOREM CopyLosesNothing == Spec => []NothingLost
<1>1. IInv => NothingLost
    BY DEF IInv, Copying, Rest, NothingLost
<1> QED
    BY <1>1, Invariance, PTL

\* fread is never asked for nothing, nor for more than the buffer takes.
THEOREM RoomInBuffer == Spec => []BufferHasRoom
<1>1. IInv => BufferHasRoom
    <2> SUFFICES ASSUME IInv PROVE BufferHasRoom
        OBVIOUS
    <2>1. BufLen \in Nat /\ Len(buf) \in Nat /\ sz \in Nat
        BY Constants DEF IInv, Types
    <2> QED
        BY <2>1 DEF IInv, AtLoop, BufferHasRoom, ReadLen
<1> QED
    BY <1>1, Invariance, PTL

\* The exit code tells whether the target holds what was listed, and what a
\* failed checkout leaves is a prefix of it.
THEOREM ExitCodeIsHonest == Spec => []ExitCodeHonest
<1>1. IInv => ExitCodeHonest
    BY DEF IInv, Outcome
<1> QED
    BY <1>1, Invariance, PTL
==============================================================================

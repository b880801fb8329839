------------------------ MODULE ContentChunking_proofs ------------------------
(***************************************************************************)
(* Proofs about ContentChunking, for every window, every limit, every      *)
(* predicate Breaks, every input, every sequence of reads, and every       *)
(* buffer that is large enough.                                            *)
(***************************************************************************)
EXTENDS ContentChunking, SequenceLemmas

Marks == [end : Nat, id : Seq(Bytes)]

(***************************************************************************)
(* Lemmas on the operators                                                 *)
(***************************************************************************)
\* A part of a sequence that lies inside it.
LEMMA SubSeqType ==
    ASSUME NEW S, NEW s \in Seq(S), NEW m \in Nat, NEW n \in Nat, n <= Len(s)
    PROVE  /\ SubSeq(s, m + 1, n) \in Seq(S)
           /\ Len(SubSeq(s, m + 1, n)) = IF m <= n THEN n - m ELSE 0
OBVIOUS

\* What Append does.
LEMMA AppendType ==
    ASSUME NEW S, NEW s \in Seq(S), NEW e \in S
    PROVE  /\ Append(s, e) \in Seq(S) /\ Append(s, e) # << >>
           /\ Len(Append(s, e)) = Len(s) + 1
           /\ \A k \in 1..Len(s) : Append(s, e)[k] = s[k]
           /\ Append(s, e)[Len(s) + 1] = e
OBVIOUS

\* What concatenation does.
LEMMA ConcatType ==
    ASSUME NEW S, NEW s \in Seq(S), NEW t \in Seq(S)
    PROVE  s \o t \in Seq(S) /\ Len(s \o t) = Len(s) + Len(t)
OBVIOUS

\* The window that algo_ starts with.
LEMMA ZerosType == Zeros \in Seq(Bytes) /\ Len(Zeros) = WindowSize
BY BytesAssumption, SizesAssumption DEF Zeros

\* process_byte keeps the length of the window.
LEMMA SlideType ==
    ASSUME NEW w \in Seq(Bytes), Len(w) = WindowSize, NEW b \in Bytes
    PROVE  Slide(w, b) \in Seq(Bytes) /\ Len(Slide(w, b)) = WindowSize
BY SizesAssumption DEF Slide

\* bundle::size is where the last block ends.
LEMMA BundleSizeType ==
    ASSUME pos \in Seq(Marks)
    PROVE  BundleSize \in Nat
<1>1. CASE pos = << >>
    BY <1>1 DEF BundleSize
<1>2. CASE pos # << >>
    <2>1. Len(pos) \in 1..Len(pos)
        BY <1>2
    <2>2. pos[Len(pos)] \in Marks
        BY <2>1
    <2> QED
        BY <1>2, <2>2 DEF BundleSize, Marks
<1> QED
    BY <1>1, <1>2

\* mark_new_block adds a block after the others, which stay as they were.
LEMMA MarkAppends ==
    ASSUME pos \in Seq(Marks), buf \in Seq(Bytes), NEW size \in Nat,
           BundleSize + size <= Len(buf), Mark(size)
    PROVE  /\ pos' \in Seq(Marks)
           /\ pos' # << >>
           /\ Len(pos') = Len(pos) + 1
           /\ BundleSize' = BundleSize + size
           /\ \A k \in 1..Len(pos) : pos'[k].end = pos[k].end /\ Start(k)' = Start(k)
           /\ pos'[Len(pos')].end - Start(Len(pos))' = size
<1> DEFINE id   == SubSeq(buf, BundleSize + 1, BundleSize + size)
           mark == [end |-> BundleSize + size, id |-> id]
<1>1. BundleSize \in Nat
    BY BundleSizeType
<1>2. id \in Seq(Bytes)
    BY <1>1, SubSeqType
<1>3. mark \in Marks
    BY <1>1, <1>2 DEF Marks
<1>4. pos' = Append(pos, mark)
    BY DEF Mark
<1>5. /\ pos' \in Seq(Marks) /\ pos' # << >>
      /\ Len(pos') = Len(pos) + 1
      /\ \A k \in 1..Len(pos) : pos'[k] = pos[k]
      /\ pos'[Len(pos')] = mark
    BY <1>3, <1>4, AppendType
<1>6. BundleSize' = BundleSize + size
    BY <1>5 DEF BundleSize
<1>7. ASSUME NEW k \in 1..Len(pos)
      PROVE  Start(k)' = Start(k)
    <2>1. CASE k = 1
        BY <2>1 DEF Start
    <2>2. CASE k # 1
        <3>1. k - 1 \in 1..Len(pos)
            BY <2>2
        <3> QED
            BY <1>5, <2>2, <3>1 DEF Start
    <2> QED
        BY <2>1, <2>2
<1>8. Start(Len(pos))' = BundleSize
    <2>1. CASE pos = << >>
        BY <1>5, <2>1 DEF Start, BundleSize
    <2>2. CASE pos # << >>
        <3>1. Len(pos) \in 1..Len(pos) /\ Len(pos') # 1 /\ Len(pos') - 1 = Len(pos)
            BY <1>5, <2>2
        <3> QED
            BY <1>5, <2>2, <3>1 DEF Start, BundleSize
    <2> QED
        BY <2>1, <2>2
<1> QED
    BY <1>1, <1>5, <1>6, <1>7, <1>8

------------------------------------------------------------------------------
(***************************************************************************)
(* The inductive invariant                                                 *)
(***************************************************************************)
\* TypeOK names the set Marks.
LEMMA TypeOfPos == TypeOK => pos \in Seq(Marks)
BY DEF TypeOK, Marks

\* The marks stay bounded while neither they nor the end of input change.
LEMMA BoundsStay ==
    ASSUME BlockBounds, pos' = pos, eof' = eof
    PROVE  BlockBounds'
BY DEF BlockBounds, Start

\* There is nothing to bound in an empty bundle.
LEMMA EmptyBounded == ASSUME pos = << >> PROVE BlockBounds /\ BundleSize = 0
BY DEF BlockBounds, BundleSize

\* An empty bundle satisfies the invariant.
LEMMA InitIInv == Init => IInv
<1> SUFFICES ASSUME Init PROVE IInv
    OBVIOUS
<1>1. TypeOK
    <2>1. << >> \in Seq(Bytes) /\ << >> \in Seq(Marks)
        OBVIOUS
    <2>2. window \in Seq(Bytes) /\ Len(window) = WindowSize
        BY ZerosType DEF Init
    <2> QED
        BY <2>1, <2>2 DEF Init, TypeOK, Marks
<1>2. BlockBounds
    BY EmptyBounded DEF Init
<1> QED
    BY <1>1, <1>2, SizesAssumption, CapacityAssumption DEF Init, IInv, LeftoverBounded, Cleared, ScanPlaced, BufferFilled

\* A block is marked: the scan goes on behind it, and it is within bounds.
LEMMA NewBlockKeeps ==
    ASSUME IInv, Scanning, NewBlock,
           first' = first + 1,
           CurrentSize < MinSize => AtEnd,
           UNCHANGED <<input, reader, rpos, buf, pptr, eof, pc>>
    PROVE  IInv'
<1>1. /\ TypeOK /\ pos \in Seq(Marks) /\ buf \in Seq(Bytes)
      /\ first \in Nat /\ lbp \in Nat /\ Len(buf) \in Nat
    BY TypeOfPos DEF IInv, TypeOK
<1>2. /\ BundleSize = lbp /\ lbp <= first /\ first < Len(buf)
      /\ first - lbp < MaxSize
      /\ pc = "split"
    BY DEF IInv, ScanPlaced, Scanning
<1>3. /\ CurrentSize \in 1..MaxSize
      /\ BundleSize + CurrentSize = first + 1
    BY <1>1, <1>2, SizesAssumption DEF CurrentSize
<1>4. /\ pos' \in Seq(Marks) /\ Len(pos') = Len(pos) + 1
      /\ BundleSize' = first + 1
      /\ \A k \in 1..Len(pos) : pos'[k].end = pos[k].end /\ Start(k)' = Start(k)
      /\ pos'[Len(pos')].end - Start(Len(pos))' = CurrentSize
    BY <1>1, <1>2, <1>3, MarkAppends DEF NewBlock
<1>5. TypeOK'
    BY <1>1, <1>4, ZerosType DEF TypeOK, NewBlock, Marks
<1>6. \A k \in 1..Len(pos) :
          pos[k].end - Start(k) \in 1..MaxSize /\ ~(pos[k].end - Start(k) < MinSize)
    BY <1>1, <1>2 DEF IInv, BlockBounds, ScanPlaced
<1>7. \A k \in 1..Len(pos') :
          /\ pos'[k].end - Start(k)' \in 1..MaxSize
          /\ pos'[k].end - Start(k)' < MinSize => AtEnd /\ k = Len(pos')
    <2> TAKE k \in 1..Len(pos')
    <2>1. CASE k = Len(pos')
        <3>1. pos'[k].end - Start(k)' = CurrentSize
            BY <1>4, <2>1
        <3> QED
            BY <1>3, <2>1, <3>1
    <2>2. CASE k # Len(pos')
        <3>1. k \in 1..Len(pos)
            BY <1>1, <1>4, <2>2
        <3> QED
            BY <1>4, <1>6, <3>1
    <2> QED
        BY <2>1, <2>2
<1>8. ScanPlaced'
    BY <1>1, <1>2, <1>4, <1>7, SizesAssumption DEF ScanPlaced, AtEnd, NewBlock
<1>9. BlockBounds'
    BY <1>7 DEF BlockBounds, AtEnd
<1> QED
    BY <1>2, <1>5, <1>8, <1>9
    DEF IInv, LeftoverBounded, Cleared, BufferFilled, TypeOK

\* Every step keeps the invariant.
LEMMA NextIInv == IInv /\ [Next]_vars => IInv'
<1> SUFFICES ASSUME IInv, [Next]_vars PROVE IInv'
    OBVIOUS
<1>0. /\ TypeOK /\ pos \in Seq(Marks) /\ buf \in Seq(Bytes) /\ input \in Seq(Bytes)
      /\ Len(buf) \in Nat /\ pptr \in Nat /\ first \in Nat /\ lbp \in Nat
      /\ pptr <= Len(buf) /\ Len(buf) <= Capacity
      /\ BlockBounds
    BY TypeOfPos DEF IInv, TypeOK
<1> USE SizesAssumption, CapacityAssumption, InputsAssumption
<1> USE DEF LeftoverBounded, Cleared, ScanPlaced, BufferFilled
<1>1. ASSUME NEW in \in Inputs, NEW r \in {"descriptor", "stream"}, Commit(in, r)
      PROVE  IInv'
    <2>1. TypeOK'
        BY <1>0, <1>1 DEF TypeOK, Commit, bundleVars
    <2>2. BlockBounds'
        BY <1>0, <1>1, BoundsStay DEF Commit, bundleVars
    <2> QED
        BY <1>0, <1>1, <2>1, <2>2 DEF IInv, Commit, bundleVars, BundleSize
<1>2. CASE Consume
    <2>1. buf' \in Seq(Bytes) /\ Len(buf') = Len(buf) - pptr
        BY <1>0, <1>2, SubSeqType DEF Consume
    <2>2. TypeOK'
        BY <1>0, <1>2, <2>1 DEF TypeOK, Consume
    <2>3. pos' = << >>
        BY <1>2 DEF Consume, IInv
    <2>4. BlockBounds'
        BY <2>3, EmptyBounded DEF BlockBounds
    <2> QED
        BY <1>0, <1>2, <2>1, <2>2, <2>3, <2>4 DEF IInv, Consume
<1>3. ASSUME NEW n \in 1..Capacity, Read(n)
      PROVE  IInv'
    <2> DEFINE more == SubSeq(input, rpos + 1, rpos + n)
    <2>1. more \in Seq(Bytes) /\ Len(more) = n
        BY <1>0, <1>3, SubSeqType DEF Read, TypeOK
    <2>2. buf' \in Seq(Bytes) /\ Len(buf') = Len(buf) + n
        BY <1>0, <1>3, <2>1, ConcatType DEF Read
    <2>3. TypeOK'
        BY <1>0, <1>3, <2>2 DEF TypeOK, Read
    <2>4. pos = << >> /\ pos' = << >> /\ BundleSize' = 0
        BY <1>3 DEF Read, IInv, BundleSize
    <2>5. BlockBounds'
        BY <2>4 DEF BlockBounds
    <2>6. Len(buf') <= Capacity /\ pptr' <= Len(buf')
        BY <1>0, <1>3, <2>2 DEF Read, Unused
    <2>7. CASE Unused - n < Slack
        <3>1. pc' = "split" /\ first' = 0 /\ lbp' = 0 /\ Len(buf') > Capacity - Slack
            BY <1>0, <1>3, <2>2, <2>7 DEF Read, Unused
        <3> QED
            BY <1>0, <2>2, <2>3, <2>4, <2>5, <2>6, <3>1 DEF IInv
    <2>8. CASE ~(Unused - n < Slack)
        <3>1. pc' = "read"
            BY <1>3, <2>8 DEF Read
        <3> QED
            BY <2>3, <2>4, <2>5, <2>6, <3>1 DEF IInv
    <2> QED
        BY <2>7, <2>8
<1>4. CASE ReadZero
    <2>1. TypeOK'
        BY <1>0, <1>4 DEF TypeOK, ReadZero, bundleVars
    <2>2. pos = << >> /\ pos' = << >> /\ BundleSize' = 0
        BY <1>4 DEF ReadZero, bundleVars, IInv, BundleSize
    <2>3. BlockBounds'
        BY <2>2 DEF BlockBounds
    <2> QED
        BY <1>0, <1>4, <2>1, <2>2, <2>3 DEF IInv, ReadZero, bundleVars
<1>5. CASE ReadFails
    <2>1. TypeOK'
        <3>1. CASE reader = "descriptor"
            BY <1>0, <1>5, <3>1 DEF TypeOK, ReadFails, bundleVars
        <3>2. CASE reader # "descriptor"
            BY <1>0, <1>5, <3>2 DEF TypeOK, ReadFails, bundleVars
        <3> QED
            BY <3>1, <3>2
    <2>2. pos = << >> /\ pos' = << >> /\ BundleSize' = 0
        BY <1>5 DEF ReadFails, bundleVars, IInv, BundleSize
    <2>3. BlockBounds'
        BY <2>2 DEF BlockBounds
    <2> QED
        BY <1>0, <1>5, <2>1, <2>2, <2>3 DEF IInv, ReadFails, bundleVars
<1>6. CASE ScanExempt
    <2>1. TypeOK'
        BY <1>0, <1>6 DEF TypeOK, ScanExempt, bundleVars
    <2>2. BlockBounds'
        BY <1>0, <1>6, BoundsStay DEF ScanExempt, bundleVars
    <2>3. first' - lbp' < MaxSize
        BY <1>0, <1>6 DEF ScanExempt, CurrentSize, ExemptSize
    <2>4. first' <= Len(buf') /\ lbp' <= first' /\ BundleSize' = lbp'
        BY <1>0, <1>6 DEF IInv, ScanExempt, Scanning, bundleVars, BundleSize
    <2>5. \A k \in 1..Len(pos') : pos'[k].end - Start(k)' < MinSize => lbp' = Len(buf')
        BY <1>6 DEF IInv, ScanExempt, Scanning, bundleVars, Start
    <2> QED
        BY <1>0, <1>6, <2>1, <2>2, <2>3, <2>4, <2>5
        DEF IInv, ScanExempt, Scanning, bundleVars
<1>7. CASE ScanByte
    <2> DEFINE w == Slide(window, buf[first + 1])
    <2>1. CASE ReachedBoundary(CurrentSize, w)
        <3>1. ~(CurrentSize < MinSize)
            BY <1>0, <2>1 DEF ReachedBoundary, CurrentSize
        <3> QED
            BY <1>7, <2>1, <3>1, NewBlockKeeps DEF ScanByte
    <2>2. CASE ~ReachedBoundary(CurrentSize, w)
        <3>1. window' = w /\ UNCHANGED <<pos, lbp>>
            BY <1>7, <2>2 DEF ScanByte
        <3>2. first + 1 \in 1..Len(buf) /\ buf[first + 1] \in Bytes
            BY <1>0, <1>7 DEF ScanByte, Scanning
        <3>3. TypeOK'
            <4>1. window' \in Seq(Bytes) /\ Len(window') = WindowSize
                BY <1>0, <3>1, <3>2, SlideType DEF TypeOK
            <4>2. first' \in Nat
                BY <1>0, <1>7 DEF ScanByte
            <4> QED
                BY <1>0, <1>7, <3>1, <4>1, <4>2 DEF TypeOK, ScanByte
        <3>4. BlockBounds'
            BY <1>0, <1>7, <3>1, BoundsStay DEF ScanByte
        <3>5. first' - lbp' < MaxSize
            BY <1>0, <1>7, <2>2, <3>1
            DEF IInv, ScanByte, Scanning, CurrentSize, ReachedBoundary
        <3>6. first' <= Len(buf') /\ lbp' <= first' /\ BundleSize' = lbp'
            BY <1>0, <1>7, <3>1 DEF IInv, ScanByte, Scanning, BundleSize
        <3>7. \A k \in 1..Len(pos') : pos'[k].end - Start(k)' < MinSize => lbp' = Len(buf')
            BY <1>7, <3>1 DEF IInv, ScanByte, Scanning, Start
        <3> QED
            BY <1>0, <1>7, <3>1, <3>3, <3>4, <3>5, <3>6, <3>7 DEF IInv, ScanByte, Scanning
    <2> QED
        BY <2>1, <2>2
<1>8. CASE ScanLast
    BY <1>8, NewBlockKeeps DEF ScanLast
<1>9. CASE SplitEnds
    <2>1. TypeOK'
        BY <1>0, <1>9 DEF TypeOK, SplitEnds
    <2>2. BlockBounds'
        BY <1>0, <1>9, BoundsStay DEF SplitEnds
    <2> QED
        BY <1>0, <1>9, <2>1, <2>2 DEF IInv, SplitEnds, BundleSize
<1>10. CASE Merge
    <2>1. TypeOK'
        <3>1. << >> \in Seq(Marks)
            OBVIOUS
        <3> QED
            BY <1>0, <1>10, <3>1 DEF TypeOK, Merge, Marks
    <2>2. BlockBounds'
        BY <1>10 DEF BlockBounds, Merge
    <2> QED
        BY <1>0, <1>10, <2>1, <2>2 DEF IInv, Merge
<1>11. CASE MergeFails
    <2>1. TypeOK'
        BY <1>0, <1>11 DEF TypeOK, MergeFails, bundleVars
    <2>2. BlockBounds'
        BY <1>0, <1>11, BoundsStay DEF MergeFails, bundleVars
    <2> QED
        BY <1>0, <1>11, <2>1, <2>2 DEF IInv, MergeFails, bundleVars
<1>12. CASE Discard
    <2>1. TypeOK'
        <3>1. << >> \in Seq(Marks) /\ << >> \in Seq(Bytes)
            OBVIOUS
        <3>2. window' \in Seq(Bytes) /\ Len(window') = WindowSize
            BY <1>12, ZerosType DEF Discard
        <3> QED
            BY <1>0, <1>12, <3>1, <3>2 DEF TypeOK, Discard, Marks
    <2>2. BlockBounds'
        BY <1>12 DEF BlockBounds, Discard
    <2> QED
        BY <1>0, <1>12, <2>1, <2>2 DEF IInv, Discard
<1>13. CASE UNCHANGED vars
    <2>1. TypeOK'
        BY <1>0, <1>13 DEF TypeOK, vars, bundleVars
    <2>2. BlockBounds'
        BY <1>0, <1>13, BoundsStay DEF vars, bundleVars
    <2>3. BundleSize' = BundleSize /\ \A k \in 1..Len(pos) : Start(k)' = Start(k)
        BY <1>13 DEF BundleSize, Start, vars, bundleVars
    <2> QED
        BY <1>0, <1>13, <2>1, <2>2, <2>3 DEF IInv, vars, bundleVars
<1> QED
    BY <1>1, <1>2, <1>3, <1>4, <1>5, <1>6, <1>7, <1>8, <1>9, <1>10, <1>11, <1>12, <1>13
    DEF Next, Step

\* The inductive invariant: what is left over is shorter than a block may be,
\* the scan stands where the marks end, and blocks are within bounds.
THEOREM Invariance == Spec => []IInv
BY InitIInv, NextIInv, PTL DEF Spec

\* Every variable of the bundle keeps its type.
THEOREM TypeCorrect == Spec => []TypeOK
<1>1. IInv => TypeOK
    BY DEF IInv
<1> QED
    BY Invariance, <1>1, PTL

\* A buffer with room for the largest block and the slack never stalls: a
\* full bundle has a block, so commit() drops nothing.
THEOREM NeverStalls == Spec => []FullHasBlocks
<1>1. IInv => FullHasBlocks
    <2> SUFFICES ASSUME IInv, pc = "loop", ~eof, pos = << >> PROVE FALSE
        BY DEF FullHasBlocks
    <2>1. Len(buf) \in Nat /\ pptr = 0 /\ Len(buf) - pptr < MaxSize
          /\ Len(buf) > Capacity - Slack
        BY DEF IInv, TypeOK, LeftoverBounded, BufferFilled, BundleSize
    <2> QED
        BY <2>1, SizesAssumption, CapacityAssumption
<1> QED
    BY Invariance, <1>1, PTL

\* The assertion "buffer overflow" of consume() never fails.
THEOREM NeverOverflows == Spec => []NotFull
<1>1. IInv => NotFull
    BY SizesAssumption, CapacityAssumption DEF IInv, TypeOK, LeftoverBounded, NotFull
<1> QED
    BY Invariance, <1>1, PTL

\* Blocks are at most max_ long, and at least min_ but for the last.
THEOREM BlocksBounded == Spec => []BlockBounds
<1>1. IInv => BlockBounds
    BY DEF IInv
<1> QED
    BY Invariance, <1>1, PTL
------------------------------------------------------------------------------
(***************************************************************************)
(* The blocks are those of the content.                                    *)
(*                                                                         *)
(* Chunks cuts a whole sequence, by a recursive function; the bundle cuts  *)
(* the input as it comes.  Between them stands Chain(s, L, x, Z): L are    *)
(* blocks that s is cut into up to byte x, each at the first byte where    *)
(* one may end, or at an end of the input, in Z.  CInv says that the       *)
(* blocks made so far are such a chain up to where the scan stands, that   *)
(* no byte scanned since ends a block, and that the window has the last    *)
(* bytes that count; an induction on the chain, from its end, makes it     *)
(* what Chunks computes.                                                   *)
(***************************************************************************)
\* The n bytes of s after i may end a block because of what they are.
Natural(s, i, n) ==
    \/ n = MaxSize
    \/ n >= MinSize /\ SubSeq(s, i + n - WindowSize + 1, i + n) \in Breaks

\* L are blocks that s is cut into, one after the other and up to x: the first
\* bytes that may end a block do, and so does an end of the input, in Z.
CutBy(s, L, e, Z) ==
    /\ e \in [0..Len(L) -> Nat] /\ e[0] = 0 /\ e[Len(L)] <= Len(s)
    /\ \A k \in 1..Len(L) :
          /\ e[k - 1] < e[k] /\ e[k] <= e[Len(L)]
          /\ L[k] = SubSeq(s, e[k - 1] + 1, e[k])
          /\ Natural(s, e[k - 1], e[k] - e[k - 1]) \/ e[k] \in Z
          /\ \A m \in 1..(e[k] - e[k - 1] - 1) : ~Natural(s, e[k - 1], m)

Chain(s, L, x, Z) == \E e : CutBy(s, L, e, Z) /\ e[Len(L)] = x

\* No bytes are cut into no blocks.
LEMMA ChainEmpty ==
    ASSUME NEW s \in Seq(Bytes), NEW Z
    PROVE  Chain(s, << >>, 0, Z)
<1> DEFINE e == [k \in 0..0 |-> 0]
<1>1. e \in [0..Len(<< >>) -> Nat] /\ e[0] = 0
    OBVIOUS
<1>2. CutBy(s, << >>, e, Z) /\ e[Len(<< >>)] = 0
    BY <1>1 DEF CutBy
<1> QED
    BY <1>2 DEF Chain

\* One more block, behind the others.
LEMMA ChainAppend ==
    ASSUME NEW s \in Seq(Bytes), NEW L \in Seq(Seq(Bytes)), NEW x, NEW Z, Chain(s, L, x, Z),
           NEW n \in Nat \ {0}, x + n <= Len(s),
           NEW b, b = SubSeq(s, x + 1, x + n),
           Natural(s, x, n) \/ x + n \in Z,
           \A m \in 1..(n - 1) : ~Natural(s, x, m)
    PROVE  Chain(s, Append(L, b), x + n, Z)
<1>1. PICK e : CutBy(s, L, e, Z) /\ e[Len(L)] = x
    BY DEF Chain
<1> DEFINE l == Len(L)
           f == [k \in 0..(l + 1) |-> IF k = l + 1 THEN x + n ELSE e[k]]
           A == Append(L, b)
<1>2. l \in Nat /\ x \in Nat /\ e \in [0..l -> Nat] /\ e[0] = 0 /\ e[l] = x
    BY <1>1 DEF CutBy
<1>3. Len(A) = l + 1 /\ A[l + 1] = b /\ \A k \in 1..l : A[k] = L[k]
    <2>1. b \in Seq(Bytes)
        BY <1>2, SubSeqType
    <2> QED
        BY <2>1, AppendType
<1>4. \A k \in 1..l :
          /\ e[k - 1] < e[k] /\ e[k] <= x
          /\ L[k] = SubSeq(s, e[k - 1] + 1, e[k])
          /\ Natural(s, e[k - 1], e[k] - e[k - 1]) \/ e[k] \in Z
          /\ \A m \in 1..(e[k] - e[k - 1] - 1) : ~Natural(s, e[k - 1], m)
    BY <1>1 DEF CutBy
<1> HIDE DEF l, A
<1>5. f \in [0..(l + 1) -> Nat] /\ f[0] = 0 /\ f[l + 1] = x + n /\ f[l] = x
      /\ \A k \in 0..l : f[k] = e[k]
    BY <1>2
<1> HIDE DEF f
<1>6. ASSUME NEW k \in 1..(l + 1)
      PROVE  /\ f[k - 1] < f[k] /\ f[k] <= x + n
             /\ A[k] = SubSeq(s, f[k - 1] + 1, f[k])
             /\ Natural(s, f[k - 1], f[k] - f[k - 1]) \/ f[k] \in Z
             /\ \A m \in 1..(f[k] - f[k - 1] - 1) : ~Natural(s, f[k - 1], m)
    <2>1. CASE k = l + 1
        <3>1. k - 1 = l /\ f[k - 1] = x /\ f[k] = x + n /\ f[k] - f[k - 1] = n
            BY <1>2, <1>5, <2>1
        <3> QED
            BY SMTT(40), <1>2, <1>3, <2>1, <3>1
    <2>2. CASE k # l + 1
        <3>1. k \in 1..l /\ k - 1 \in 0..l /\ k \in 0..l
            BY <1>2, <2>2
        <3>2. f[k] = e[k] /\ f[k - 1] = e[k - 1] /\ A[k] = L[k]
            BY <1>3, <1>5, <3>1
        <3>3. f[k] <= x + n
            BY <1>2, <1>4, <3>1, <3>2
        <3> QED
            BY <1>4, <3>1, <3>2, <3>3
    <2> QED
        BY <2>1, <2>2
<1>7. CutBy(s, A, f, Z)
    BY <1>3, <1>5, <1>6 DEF CutBy
<1>8. Chain(s, A, x + n, Z)
    BY <1>3, <1>5, <1>7 DEF Chain
<1> QED
    BY <1>8 DEF A

\* The ends of the input may be more.
LEMMA ChainEnds ==
    ASSUME NEW s, NEW L, NEW x, NEW Y, NEW Z, Chain(s, L, x, Y), Y \subseteq Z
    PROVE  Chain(s, L, x, Z)
<1>1. PICK e : CutBy(s, L, e, Y) /\ e[Len(L)] = x
    BY DEF Chain
<1>2. CutBy(s, L, e, Z)
    BY <1>1 DEF CutBy
<1> QED
    BY <1>1, <1>2 DEF Chain

------------------------------------------------------------------------------
\* How long the block after byte i of s is, and how Chunks comes to all of
\* the blocks after it.
CutLen(s, i) == CHOOSE n \in 1..(Len(s) - i) :
                    CutsAt(s, i, n) /\ \A m \in 1..(n - 1) : ~CutsAt(s, i, m)

Cutting(f, s) ==
    f = [i \in 0..Len(s) |-> IF i = Len(s) THEN << >>
                             ELSE <<SubSeq(s, i + 1, i + CutLen(s, i))>> \o f[i + CutLen(s, i)]]

\* Chunks takes the first length at which a block may end: there is one.
LEMMA CutLenIs ==
    ASSUME NEW s \in Seq(Bytes), NEW i \in Nat, i < Len(s)
    PROVE  /\ CutLen(s, i) \in 1..(Len(s) - i)
           /\ \A n \in 1..(Len(s) - i) :
                 CutsAt(s, i, n) /\ (\A m \in 1..(n - 1) : ~CutsAt(s, i, m)) => CutLen(s, i) = n
<1> DEFINE T == {n \in 1..(Len(s) - i) : CutsAt(s, i, n)}
           P(n) == CutsAt(s, i, n) /\ \A m \in 1..(n - 1) : ~CutsAt(s, i, m)
<1>1. Len(s) \in Nat
    OBVIOUS
<1>2. T \in SUBSET Nat /\ T # {}
    <2>1. Len(s) - i \in T
        BY <1>1 DEF CutsAt
    <2> QED
        BY <2>1
<1>3. PICK n \in T : \A m \in T : n <= m
    BY <1>2, LeastNat
<1>4. n \in 1..(Len(s) - i) /\ P(n)
    BY <1>1, <1>3
<1> HIDE DEF T
<1>5. CutLen(s, i) = CHOOSE k \in 1..(Len(s) - i) : P(k)
    BY DEF CutLen
<1>6. \A j, k \in 1..(Len(s) - i) : P(j) /\ P(k) => j = k
    <2> SUFFICES ASSUME NEW j \in 1..(Len(s) - i), NEW k \in 1..(Len(s) - i), P(j), P(k)
                 PROVE  j = k
        OBVIOUS
    <2>1. ~(j < k)
        BY <1>1
    <2>2. ~(k < j)
        BY <1>1
    <2> QED
        BY <1>1, <2>1, <2>2
<1> HIDE DEF P
<1>7. CutLen(s, i) \in 1..(Len(s) - i) /\ P(CutLen(s, i))
    BY <1>4, <1>5
<1>8. \A k \in 1..(Len(s) - i) : P(k) => CutLen(s, i) = k
    BY <1>6, <1>7
<1> QED
    BY <1>7, <1>8 DEF P

\* The function that Chunks builds its list with exists.
LEMMA CuttingExists ==
    ASSUME NEW s \in Seq(Bytes)
    PROVE  \E f : Cutting(f, s)
<1> DEFINE l == Len(s)
           C(i) == CutLen(s, i)
           Goes(f, d) == \A i \in (l - d)..l :
                             f[i] = IF i = l THEN << >> ELSE <<SubSeq(s, i + 1, i + C(i))>> \o f[i + C(i)]
           T == {d \in Nat : d <= l => \E f : f = [i \in (l - d)..l |-> f[i]] /\ Goes(f, d)}
<1>1. l \in Nat /\ \A i \in Nat : i < l => C(i) \in 1..(l - i)
    BY CutLenIs
<1> HIDE DEF l, C
<1>2. 0 \in T
    <2> DEFINE f == [i \in l..l |-> << >>]
    <2>1. f = [i \in (l - 0)..l |-> f[i]] /\ Goes(f, 0)
        BY <1>1
    <2> HIDE DEF f
    <2> QED
        BY <2>1
<1>3. ASSUME NEW d \in Nat, d \in T PROVE d + 1 \in T
    <2> SUFFICES ASSUME d + 1 <= l
                 PROVE  \E f : f = [i \in (l - (d + 1))..l |-> f[i]] /\ Goes(f, d + 1)
        OBVIOUS
    <2>1. PICK f : f = [i \in (l - d)..l |-> f[i]] /\ Goes(f, d)
        BY <1>1, <1>3
    <2> DEFINE a == l - (d + 1)
               start == <<SubSeq(s, a + 1, a + C(a))>> \o f[a + C(a)]
               g == [i \in a..l |-> IF i = a THEN start ELSE f[i]]
    <2>2. a \in Nat /\ a < l /\ a + 1 = l - d /\ a + C(a) \in (l - d)..l
        BY <1>1
    <2> HIDE DEF start
    <2>4. /\ g = [i \in a..l |-> g[i]] /\ g[a] = start
          /\ \A i \in a..l : i # a => g[i] = f[i]
        BY <1>1, <2>2
    <2> HIDE DEF g, a
    <2>3. ASSUME NEW i \in a..l
          PROVE  g[i] = IF i = l THEN << >> ELSE <<SubSeq(s, i + 1, i + C(i))>> \o g[i + C(i)]
        <3>1. CASE i = a
            <4>1. a + C(a) \in a..l /\ a + C(a) # a
                BY <1>1, <2>2
            <4>2. g[a + C(a)] = f[a + C(a)]
                BY <2>4, <4>1
            <4>3. i # l
                BY <1>1, <2>2, <3>1
            <4> QED
                BY <2>4, <3>1, <4>2, <4>3 DEF start
        <3>2. CASE i # a
            <4>1. i \in (l - d)..l
                BY <1>1, <2>2, <3>2
            <4>2. g[i] = f[i]
                BY <2>4, <3>2
            <4>3. CASE i = l
                BY <2>1, <4>1, <4>2, <4>3
            <4>4. CASE i # l
                <5> DEFINE c == C(i)
                <5>1. c \in 1..(l - i) /\ i \in Nat /\ i < l
                    BY <1>1, <2>2, <4>4
                <5> HIDE DEF c
                <5>2. i + c \in a..l /\ i + c # a
                    BY <1>1, <2>2, <5>1
                <5>3. g[i + c] = f[i + c]
                    BY <2>4, <5>2
                <5> QED
                    BY <2>1, <4>1, <4>2, <4>4, <5>3 DEF c
            <4> QED
                BY <4>3, <4>4
        <3> QED
            BY <3>1, <3>2
    <2> QED
        BY <2>3, <2>4 DEF a
<1>4. \A d \in Nat : d \in T
    <2> HIDE DEF T
    <2> QED
        BY <1>2, <1>3, Induction
<1>5. PICK f : f = [i \in (l - l)..l |-> f[i]] /\ Goes(f, l)
    <2>1. l \in T
        BY <1>1, <1>4
    <2> QED
        BY <1>1, <2>1
<1>6. f = [i \in 0..l |-> IF i = l THEN << >> ELSE <<SubSeq(s, i + 1, i + C(i))>> \o f[i + C(i)]]
    <2>1. l - l = 0
        BY <1>1
    <2> QED
        BY <1>5, <2>1
<1> QED
    BY <1>6 DEF Cutting, l, C

\* A prefix of s is cut where s is, but for its end.
LEMMA NaturalPrefix ==
    ASSUME NEW s \in Seq(Bytes), NEW x \in Nat, x <= Len(s), NEW i \in Nat,
           NEW n \in Nat \ {0}, i + n <= x
    PROVE  LET t == SubSeq(s, 1, x) IN
           /\ CutsAt(t, i, n) <=> i + n = x \/ Natural(s, i, n)
           /\ SubSeq(t, i + 1, i + n) = SubSeq(s, i + 1, i + n)
<1> DEFINE t == SubSeq(s, 1, x)
<1>1. t \in Seq(Bytes) /\ Len(t) = x /\ \A j \in 1..x : t[j] = s[j]
    OBVIOUS
<1>2. Len(s) \in Nat
    OBVIOUS
<1> HIDE DEF t
<1>3. \A a \in Nat : a <= i + n =>
          SubSeq(t, a + 1, i + n) = SubSeq(s, a + 1, i + n)
    <2> SUFFICES ASSUME NEW a \in Nat, a <= i + n
                 PROVE  SubSeq(t, a + 1, i + n) = SubSeq(s, a + 1, i + n)
        OBVIOUS
    <2> DEFINE b == i + n
    <2>1. b \in Nat /\ b <= x /\ a <= b
        OBVIOUS
    <2> HIDE DEF b
    <2>2. /\ SubSeq(t, a + 1, b) = [j \in 1..(b - a) |-> t[a + j]]
          /\ SubSeq(s, a + 1, b) = [j \in 1..(b - a) |-> s[a + j]]
        BY <1>1, <1>2, <2>1
    <2>3. \A j \in 1..(b - a) : a + j \in 1..x
        BY <2>1
    <2>4. \A j \in 1..(b - a) : t[a + j] = s[a + j]
        BY <1>1, <2>3
    <2> QED
        BY <2>2, <2>4 DEF b
<1>4. SubSeq(t, i + 1, i + n) = SubSeq(s, i + 1, i + n)
    BY <1>3
<1>5. n >= MinSize => SubSeq(t, i + n - WindowSize + 1, i + n) = SubSeq(s, i + n - WindowSize + 1, i + n)
    <2> DEFINE a == i + n - WindowSize
    <2>1. n >= MinSize => a \in Nat /\ a <= i + n
        BY SizesAssumption
    <2> HIDE DEF a
    <2>2. n >= MinSize => SubSeq(t, a + 1, i + n) = SubSeq(s, a + 1, i + n)
        BY <1>3, <2>1
    <2> QED
        BY <2>2 DEF a
<1>6. CutsAt(t, i, n) <=> i + n = x \/ Natural(s, i, n)
    BY Zenon, <1>1, <1>5 DEF CutsAt, Natural
<1> QED
    BY <1>4, <1>6 DEF t

\* Blocks cut one by one, the last at the end of what was read, are those of
\* the reference.
LEMMA ChainIsChunks ==
    ASSUME NEW s \in Seq(Bytes), NEW L \in Seq(Seq(Bytes)), NEW x, NEW Z,
           Chain(s, L, x, Z), Z \subseteq {x}
    PROVE  /\ x \in Nat /\ x <= Len(s)
           /\ L = Chunks(SubSeq(s, 1, x))
<1> DEFINE l == Len(L)
           t == SubSeq(s, 1, x)
<1>1. PICK e : CutBy(s, L, e, Z) /\ e[l] = x
    BY DEF Chain
<1>2. /\ l \in Nat /\ e \in [0..l -> Nat] /\ e[0] = 0 /\ x \in Nat /\ x <= Len(s)
    BY <1>1 DEF CutBy
<1>3. \A k \in 1..l :
          /\ e[k - 1] < e[k] /\ e[k] <= x
          /\ L[k] = SubSeq(s, e[k - 1] + 1, e[k])
          /\ Natural(s, e[k - 1], e[k] - e[k - 1]) \/ e[k] = x
          /\ \A m \in 1..(e[k] - e[k - 1] - 1) : ~Natural(s, e[k - 1], m)
    BY <1>1 DEF CutBy
<1>4. t \in Seq(Bytes) /\ Len(t) = x
    BY <1>2
<1> DEFINE f == CHOOSE f : Cutting(f, t)
<1>5. Cutting(f, t)
    BY <1>4, CuttingExists
<1>6. Chunks(t) = f[0]
    BY DEF Chunks, Cutting, CutLen
<1>13. SubSeq(L, 1, l) = L
    OBVIOUS
<1> HIDE DEF f, l, t
<1>7. \A i \in 0..x : f[i] = IF i = x THEN << >>
                             ELSE <<SubSeq(t, i + 1, i + CutLen(t, i))>> \o f[i + CutLen(t, i)]
    BY <1>4, <1>5 DEF Cutting
<1>14. x \in 0..x /\ f[x] = << >>
    <2>1. x \in 0..x
        BY <1>2
    <2> QED
        BY Zenon, <1>7, <2>1
<1>8. ASSUME NEW k \in 1..l
      PROVE  f[e[k - 1]] = <<L[k]>> \o f[e[k]]
    <2> DEFINE i == e[k - 1]
               n == e[k] - e[k - 1]
    <2>1. i \in Nat /\ n \in Nat \ {0} /\ i + n = e[k] /\ i + n <= x /\ i < x /\ i \in 0..x
        <3>1. k - 1 \in 0..l /\ k \in 0..l
            BY <1>2
        <3>2. e[k - 1] \in Nat /\ e[k] \in Nat /\ e[k - 1] < e[k] /\ e[k] <= x
            BY <1>2, <1>3, <3>1
        <3> QED
            BY <1>2, <3>2
    <2>2. /\ L[k] = SubSeq(s, i + 1, i + n)
          /\ Natural(s, i, n) \/ i + n = x
          /\ \A m \in 1..(n - 1) : ~Natural(s, i, m)
        BY <1>3, <2>1
    <2> HIDE DEF i, n
    <2>3. CutsAt(t, i, n) /\ L[k] = SubSeq(t, i + 1, i + n)
        BY <1>2, <2>1, <2>2, NaturalPrefix DEF t
    <2>4. ASSUME NEW m \in 1..(n - 1) PROVE ~CutsAt(t, i, m)
        <3>1. m \in Nat \ {0} /\ i + m <= x /\ i + m # x
            BY <1>2, <2>1
        <3> QED
            BY <1>2, <2>1, <2>2, <3>1, NaturalPrefix DEF t
    <2>5. CutLen(t, i) = n
        <3>1. n \in 1..(Len(t) - i) /\ i < Len(t)
            BY <1>2, <1>4, <2>1
        <3> QED
            BY <1>4, <2>1, <2>3, <2>4, <3>1, CutLenIs
    <2>6. f[i] = <<L[k]>> \o f[i + n]
        <3>1. i # x
            BY <2>1, <1>2
        <3>2. f[i] = <<SubSeq(t, i + 1, i + CutLen(t, i))>> \o f[i + CutLen(t, i)]
            BY Zenon, <1>7, <2>1, <3>1
        <3> QED
            BY Zenon, <2>3, <2>5, <3>2
    <2> QED
        BY <2>1, <2>6 DEF i
<1> DEFINE T == {j \in Nat : j <= l => f[e[l - j]] = SubSeq(L, l - j + 1, l)}
<1>9. 0 \in T
    <2>1. f[x] = << >>
        BY <1>14
    <2>2. SubSeq(L, l + 1, l) = << >>
        BY <1>2
    <2>3. l - 0 = l
        BY <1>2
    <2> QED
        BY <1>1, <2>1, <2>2, <2>3
<1>10. ASSUME NEW j \in Nat, j \in T PROVE j + 1 \in T
    <2> SUFFICES ASSUME j + 1 <= l
                 PROVE  f[e[l - (j + 1)]] = SubSeq(L, l - (j + 1) + 1, l)
        OBVIOUS
    <2> DEFINE k == l - j
    <2>1. k \in 1..l /\ l - (j + 1) = k - 1 /\ l - (j + 1) + 1 = k
        BY <1>2
    <2>2. f[e[k]] = SubSeq(L, k + 1, l)
        BY <1>2, <1>10
    <2> HIDE DEF k
    <2>3. SubSeq(L, k, l) = <<L[k]>> \o SubSeq(L, k + 1, l)
        BY <1>2, <2>1
    <2> QED
        BY <1>8, <2>1, <2>2, <2>3
<1>11. \A j \in Nat : j \in T
    <2> HIDE DEF T
    <2> QED
        BY <1>9, <1>10, Induction
<1>12. f[0] = SubSeq(L, 1, l)
    <2>1. l \in T
        BY <1>2, <1>11
    <2>2. l - l = 0 /\ l - l + 1 = 1
        BY <1>2
    <2> HIDE DEF l
    <2> QED
        BY <1>2, <2>1, <2>2
<1> QED
    BY <1>2, <1>6, <1>12, <1>13 DEF t

------------------------------------------------------------------------------
\* The blocks made so far, and where the buffer starts in the input.
Made   == stored \o [k \in 1..Len(pos) |-> BlockAt(k)]
Origin == rpos - Len(buf)
Ends   == IF eof THEN {rpos} ELSE {}

\* Where the bytes that are left over start in the input.
Left == rpos - (Len(buf) - pptr)

Placed ==
    /\ rpos <= Len(input) /\ stored \in Seq(Seq(Bytes))
    /\ pc = "read" => ~eof /\ Len(buf) < Capacity
    /\ pc \in {"split", "loop"} /\ eof /\ reader = "descriptor" => rpos = Len(input)

Returned ==
    pc = "idle" => /\ pptr = Len(buf)
                   /\ Chain(input, stored, rpos, {rpos})
                   /\ reader = "descriptor" => rpos = Len(input)

Carried ==
    pc = "consume" =>
        /\ Left \in Nat /\ Chain(input, stored, Left, {})
        /\ SubSeq(buf, pptr + 1, Len(buf)) = SubSeq(input, Left + 1, rpos)

Filled ==
    pc \in {"read", "split", "loop"} =>
        /\ Origin \in Nat /\ buf = SubSeq(input, Origin + 1, rpos)
        /\ Chain(input, Made, Origin + BundleSize, Ends)
        /\ \A k \in 1..Len(pos) : pos[k].end <= Len(buf) /\ pos[k].id = BlockAt(k)

\* No byte scanned since the last block ends one, and the window has the last
\* of those that count.
Scanned ==
    pc = "split" =>
        /\ \A m \in 1..(first - lbp) : ~Natural(input, Origin + lbp, m)
        /\ \A j \in 1..WindowSize :
              WindowSize - j < first - lbp - ExemptSize => window[j] = buf[first - WindowSize + j]
        /\ eof /\ first = Len(buf) => lbp = Len(buf)

AllCut == pc = "loop" /\ eof => pptr = Len(buf)

CInv == Placed /\ Returned /\ Carried /\ Filled /\ Scanned /\ AllCut

\* What concatenation does, in full.
LEMMA JoinIs ==
    ASSUME NEW S, NEW x \in Seq(S), NEW y \in Seq(S)
    PROVE  /\ x \o y \in Seq(S) /\ Len(x \o y) = Len(x) + Len(y) /\ x \o << >> = x
           /\ \A i \in 1..Len(x) : (x \o y)[i] = x[i]
           /\ \A i \in 1..Len(y) : (x \o y)[Len(x) + i] = y[i]
OBVIOUS

\* Two sequences of the same length and elements are the same.
LEMMA SameSeq ==
    ASSUME NEW S, NEW x \in Seq(S), NEW y \in Seq(S), Len(x) = Len(y),
           \A i \in 1..Len(x) : x[i] = y[i]
    PROVE  x = y
OBVIOUS

\* A part of a sequence, in full.
LEMMA PartIs ==
    ASSUME NEW S, NEW s \in Seq(S), NEW a \in Nat, NEW b \in Nat, a <= b, b <= Len(s)
    PROVE  /\ SubSeq(s, a + 1, b) \in Seq(S) /\ Len(SubSeq(s, a + 1, b)) = b - a
           /\ \A i \in 1..(b - a) : SubSeq(s, a + 1, b)[i] = s[a + i]
OBVIOUS

\* z is x and y.
LEMMA JoinOf ==
    ASSUME NEW S, NEW x \in Seq(S), NEW y \in Seq(S), NEW z \in Seq(S),
           Len(z) = Len(x) + Len(y),
           \A i \in 1..Len(x) : z[i] = x[i],
           \A i \in 1..Len(y) : z[Len(x) + i] = y[i]
    PROVE  x \o y = z
<1> DEFINE w == x \o y
<1>1. w \in Seq(S) /\ Len(w) = Len(x) + Len(y)
    OBVIOUS
<1>2. \A i \in 1..Len(x) : w[i] = x[i]
    OBVIOUS
<1>3. \A i \in 1..Len(y) : w[Len(x) + i] = y[i]
    OBVIOUS
<1> HIDE DEF w
<1>4. ASSUME NEW i \in 1..Len(w) PROVE w[i] = z[i]
    <2>1. CASE i \in 1..Len(x)
        BY <1>2, <2>1
    <2>2. CASE i \notin 1..Len(x)
        <3> DEFINE j == i - Len(x)
        <3>1. j \in 1..Len(y) /\ Len(x) + j = i
            BY <1>1, <2>2
        <3> HIDE DEF j
        <3> QED
            BY <1>3, <3>1
    <2> QED
        BY <2>1, <2>2
<1>5. w = z
    BY <1>1, <1>4, SameSeq
<1> QED
    BY <1>5 DEF w

\* Two parts that meet are one.
LEMMA PartJoin ==
    ASSUME NEW s \in Seq(Bytes), NEW a \in Nat, NEW b \in Nat, NEW c \in Nat,
           a <= b, b <= c, c <= Len(s)
    PROVE  SubSeq(s, a + 1, b) \o SubSeq(s, b + 1, c) = SubSeq(s, a + 1, c)
<1> DEFINE x == SubSeq(s, a + 1, b)
           y == SubSeq(s, b + 1, c)
           z == SubSeq(s, a + 1, c)
<1>1. Len(s) \in Nat /\ b <= Len(s) /\ a <= c
    OBVIOUS
<1>2. /\ x \in Seq(Bytes) /\ Len(x) = b - a /\ \A i \in 1..(b - a) : x[i] = s[a + i]
      /\ y \in Seq(Bytes) /\ Len(y) = c - b /\ \A i \in 1..(c - b) : y[i] = s[b + i]
      /\ z \in Seq(Bytes) /\ Len(z) = c - a /\ \A i \in 1..(c - a) : z[i] = s[a + i]
    BY <1>1, PartIs
<1> HIDE DEF x, y, z
<1>3. Len(z) = Len(x) + Len(y)
    BY <1>2
<1>4. \A i \in 1..Len(x) : z[i] = x[i]
    BY <1>2
<1>5. ASSUME NEW i \in 1..Len(y) PROVE z[Len(x) + i] = y[i]
    <2> DEFINE j == Len(x) + i
    <2>1. i \in 1..(c - b) /\ j \in 1..(c - a) /\ a + j = b + i
        BY <1>2
    <2> HIDE DEF j
    <2>2. z[j] = y[i]
        BY <1>2, <2>1
    <2> QED
        BY <2>2 DEF j
<1>6. x \o y = z
    BY <1>2, <1>3, <1>4, <1>5, JoinOf
<1> QED
    BY <1>6 DEF x, y, z

\* A part of a part.
LEMMA PartOf ==
    ASSUME NEW s \in Seq(Bytes), NEW o \in Nat, NEW n \in Nat, o + n <= Len(s),
           NEW t \in Seq(Bytes), Len(t) = n, \A k \in 1..n : t[k] = s[o + k],
           NEW i \in Nat, NEW j \in Nat, i <= j, j <= n
    PROVE  SubSeq(t, i + 1, j) = SubSeq(s, o + i + 1, o + j)
<1> DEFINE a == o + i
           b == o + j
           x == SubSeq(t, i + 1, j)
           y == SubSeq(s, a + 1, b)
<1>1. Len(s) \in Nat /\ a \in Nat /\ b \in Nat /\ a <= b /\ b <= Len(s) /\ b - a = j - i
    OBVIOUS
<1>2. \A k \in 1..(j - i) : a + k = o + (i + k) /\ i + k \in 1..n
    OBVIOUS
<1>3. x \in Seq(Bytes) /\ Len(x) = j - i /\ \A k \in 1..(j - i) : x[k] = t[i + k]
    BY PartIs
<1> HIDE DEF a, b
<1>4. y \in Seq(Bytes) /\ Len(y) = b - a /\ \A k \in 1..(b - a) : y[k] = s[a + k]
    BY <1>1, PartIs
<1> HIDE DEF x, y
<1>5. \A k \in 1..(j - i) : x[k] = y[k]
    BY <1>1, <1>2, <1>3, <1>4
<1>6. x = y
    BY <1>1, <1>3, <1>4, <1>5, SameSeq
<1> QED
    BY <1>6 DEF x, y, a, b

\* A part of the buffer is a part of the input.
LEMMA PartOfPart ==
    ASSUME NEW s \in Seq(Bytes), NEW o \in Nat, NEW r \in Nat, o <= r, r <= Len(s),
           NEW t, t = SubSeq(s, o + 1, r)
    PROVE  /\ t \in Seq(Bytes) /\ Len(t) = r - o
           /\ \A k \in 1..(r - o) : t[k] = s[o + k]
           /\ \A i, j \in Nat : i <= j /\ j <= r - o =>
                 SubSeq(t, i + 1, j) = SubSeq(s, o + i + 1, o + j)
<1> DEFINE n == r - o
<1>1. n \in Nat /\ o + n <= Len(s)
    OBVIOUS
<1>2. t \in Seq(Bytes) /\ Len(t) = n /\ \A k \in 1..n : t[k] = s[o + k]
    BY PartIs
<1> HIDE DEF n
<1>3. ASSUME NEW i \in Nat, NEW j \in Nat, i <= j, j <= n
      PROVE  SubSeq(t, i + 1, j) = SubSeq(s, o + i + 1, o + j)
    BY <1>1, <1>2, <1>3, PartOf, SMTT(30)
<1> QED
    BY <1>2, <1>3 DEF n

\* The types of the variables, one by one.
LEMMA CParts ==
    ASSUME IInv
    PROVE  /\ TypeOK /\ pos \in Seq(Marks) /\ Len(pos) \in Nat
           /\ buf \in Seq(Bytes) /\ input \in Seq(Bytes)
           /\ Len(buf) \in Nat /\ Len(input) \in Nat /\ rpos \in Nat
           /\ pptr \in Nat /\ first \in Nat /\ lbp \in Nat /\ eof \in BOOLEAN
           /\ pptr <= Len(buf) /\ Len(buf) <= Capacity
           /\ BundleSize \in Nat /\ \A k \in 1..Len(pos) : Start(k) \in Nat /\ pos[k].end \in Nat
           /\ \A k \in 1..Len(pos) : pos[k].id \in Seq(Bytes)
<1>1. TypeOK /\ pos \in Seq(Marks)
    BY TypeOfPos DEF IInv
<1>2. ASSUME NEW k \in 1..Len(pos) PROVE pos[k].end \in Nat /\ pos[k].id \in Seq(Bytes)
    <2>1. pos[k] \in Marks
        BY <1>1
    <2> QED
        BY <2>1 DEF Marks
<1>3. ASSUME NEW k \in 1..Len(pos) PROVE Start(k) \in Nat
    <2>1. k # 1 => k - 1 \in 1..Len(pos)
        BY <1>1
    <2> QED
        BY <1>2, <2>1 DEF Start
<1> QED
    BY <1>1, <1>2, <1>3, BundleSizeType DEF IInv, TypeOK

\* The blocks made so far are blocks, all of them before the bundle is
\* cleared, none of the bundle after.
LEMMA MadeType ==
    ASSUME IInv, stored \in Seq(Seq(Bytes)), \A k \in 1..Len(pos) : pos[k].end <= Len(buf)
    PROVE  /\ Made \in Seq(Seq(Bytes)) /\ Len(Made) = Len(stored) + Len(pos)
           /\ pos = << >> => Made = stored
<1> DEFINE b == [k \in 1..Len(pos) |-> BlockAt(k)]
<1>1. \A k \in 1..Len(pos) : BlockAt(k) \in Seq(Bytes)
    BY CParts, SubSeqType DEF BlockAt
<1>2. b \in Seq(Seq(Bytes)) /\ Len(b) = Len(pos)
    <2> DEFINE n == Len(pos)
    <2>1. n \in Nat
        BY CParts
    <2> HIDE DEF n
    <2> QED
        BY <1>1, <2>1 DEF n
<1> HIDE DEF b
<1>3. pos = << >> => b = << >>
    BY <1>2
<1>4. stored \o b \in Seq(Seq(Bytes)) /\ Len(stored \o b) = Len(stored) + Len(b) /\ stored \o << >> = stored
    BY <1>2, JoinIs
<1> QED
    BY <1>2, <1>3, <1>4 DEF Made, b

\* Nothing is made of an empty bundle.
LEMMA MadeEmpty ==
    ASSUME IInv, pos = << >>, stored \in Seq(Seq(Bytes))
    PROVE  Made = stored /\ BundleSize = 0
<1>1. \A k \in 1..Len(pos) : pos[k].end <= Len(buf)
    OBVIOUS
<1> QED
    BY <1>1, MadeType DEF BundleSize

\* An empty part.
LEMMA NoPart ==
    ASSUME NEW S, NEW s \in Seq(S), NEW n \in Nat, n <= Len(s)
    PROVE  SubSeq(s, n + 1, n) = << >>
OBVIOUS

\* A commit starts with a buffer it has used up.
LEMMA CommitCuts ==
    ASSUME IInv, CInv, NEW in \in Inputs, NEW r, Commit(in, r)
    PROVE  CInv'
<1>1. in \in Seq(Bytes) /\ Len(in) \in Nat
    BY InputsAssumption
<1>2. /\ pc = "idle" /\ pc' = "consume" /\ input' = in /\ rpos' = 0 /\ stored' = << >>
      /\ UNCHANGED <<buf, pptr, pos, window, first, lbp, eof>>
    BY DEF Commit, bundleVars
<1>3. pptr = Len(buf) /\ pptr \in Nat /\ buf \in Seq(Bytes)
    BY <1>2, CParts DEF CInv, Returned
<1>4. Left' = 0
    BY <1>2, <1>3 DEF Left
<1>5. Placed'
    BY <1>1, <1>2 DEF Placed
<1>6. Carried'
    <2>1. Chain(in, << >>, 0, {})
        BY <1>1, ChainEmpty
    <2>2. SubSeq(buf, pptr + 1, Len(buf)) = << >>
        BY <1>3, NoPart
    <2>3. SubSeq(in, 0 + 1, 0) = << >>
        BY <1>1, NoPart
    <2> QED
        BY <1>2, <1>4, <2>1, <2>2, <2>3 DEF Carried
<1> QED
    BY <1>2, <1>5, <1>6 DEF CInv, Returned, Filled, Scanned, AllCut

\* The bytes left over are those of the input before rpos.
LEMMA ConsumeCuts ==
    ASSUME IInv, IInv', CInv, Consume
    PROVE  CInv'
<1>1. /\ pc = "consume" /\ pc' = "read" /\ eof' = FALSE
      /\ buf' = SubSeq(buf, pptr + 1, Len(buf))
      /\ UNCHANGED <<input, reader, rpos, pos, stored>>
    BY DEF Consume
<1>2. /\ pptr \in Nat /\ Len(buf) \in Nat /\ rpos \in Nat /\ buf \in Seq(Bytes) /\ pptr <= Len(buf)
      /\ Len(buf) - pptr < MaxSize /\ pos = << >>
    BY <1>1, CParts DEF IInv, LeftoverBounded, Cleared
<1>3. /\ Left \in Nat /\ Chain(input, stored, Left, {})
      /\ buf' = SubSeq(input, Left + 1, rpos)
    BY <1>1 DEF CInv, Carried
<1>4. stored \in Seq(Seq(Bytes)) /\ rpos <= Len(input)
    BY DEF CInv, Placed
<1>5. Len(buf') = Len(buf) - pptr
    BY <1>1, <1>2, PartIs
<1>6. Origin' = Left
    BY <1>1, <1>5 DEF Origin, Left
<1>7. Made' = stored /\ BundleSize' = 0
    <2>1. IInv' /\ (pos = << >>)' /\ (stored \in Seq(Seq(Bytes)))'
        BY <1>1, <1>2, <1>4
    <2>2. (IInv /\ pos = << >> /\ stored \in Seq(Seq(Bytes)) => Made = stored /\ BundleSize = 0)'
        BY MadeEmpty, PTL
    <2> QED
        BY <1>1, <2>1, <2>2
<1>8. Filled'
    <2>1. Ends' = {}
        BY <1>1 DEF Ends
    <2>2. Left + 0 = Left
        BY <1>3
    <2>3. \A k \in 1..Len(pos') : FALSE
        BY <1>1, <1>2
    <2> QED
        BY <1>1, <1>3, <1>6, <1>7, <2>1, <2>2, <2>3 DEF Filled
<1>9. Len(buf') < Capacity
    BY <1>2, <1>5, SizesAssumption, CapacityAssumption
<1> QED
    BY <1>1, <1>4, <1>8, <1>9 DEF CInv, Placed, Returned, Carried, Scanned, AllCut

\* The scan of a buffer starts: nothing is scanned, and the window is exempt.
LEMMA ScanStarts ==
    ASSUME first = 0, lbp = 0
    PROVE  Scanned
<1>1. \A m \in 1..(first - lbp) : FALSE
    OBVIOUS
<1>2. \A j \in 1..WindowSize : ~(WindowSize - j < first - lbp - ExemptSize)
    BY SizesAssumption DEF ExemptSize
<1>3. first = Len(buf) => lbp = Len(buf)
    OBVIOUS
<1> QED
    BY <1>1, <1>2, <1>3, Zenon DEF Scanned

\* What is known while the buffer fills.
LEMMA FillingParts ==
    ASSUME IInv, CInv, pc = "read"
    PROVE  /\ pos = << >> /\ Made = stored /\ BundleSize = 0 /\ eof = FALSE
           /\ Origin \in Nat /\ buf = SubSeq(input, Origin + 1, rpos)
           /\ Chain(input, stored, Origin, {})
           /\ stored \in Seq(Seq(Bytes)) /\ rpos <= Len(input) /\ Len(buf) < Capacity
<1>1. /\ pos = << >> /\ stored \in Seq(Seq(Bytes)) /\ rpos <= Len(input) /\ Len(buf) < Capacity
      /\ eof = FALSE
    BY CParts DEF IInv, Cleared, CInv, Placed
<1>2. Made = stored /\ BundleSize = 0
    BY <1>1, MadeEmpty
<1>3. /\ Origin \in Nat /\ buf = SubSeq(input, Origin + 1, rpos)
      /\ Chain(input, Made, Origin + BundleSize, Ends)
    BY DEF CInv, Filled
<1>4. Ends = {} /\ Origin + BundleSize = Origin
    BY <1>1, <1>2, <1>3 DEF Ends
<1> QED
    BY <1>1, <1>2, <1>3, <1>4

\* The buffer is filled some more, or no more.
LEMMA FillingStep ==
    ASSUME IInv, IInv', CInv, pc = "read", UNCHANGED <<input, reader, pos, stored>>,
           Origin' = Origin, buf' = SubSeq(input, Origin + 1, rpos'),
           rpos' <= Len(input),
           \/ pc' = "read" /\ eof' = FALSE /\ Len(buf') < Capacity
           \/ pc' = "split" /\ first' = 0 /\ lbp' = 0,
           eof' /\ reader = "descriptor" => rpos' = Len(input)
    PROVE  CInv'
<1>1. /\ pos = << >> /\ Made = stored /\ BundleSize = 0
      /\ Origin \in Nat /\ Chain(input, stored, Origin, {})
      /\ stored \in Seq(Seq(Bytes))
    BY FillingParts
<1>2. Made' = stored /\ BundleSize' = 0
    <2>1. IInv' /\ (pos = << >>)' /\ (stored \in Seq(Seq(Bytes)))'
        BY <1>1
    <2>2. (IInv /\ pos = << >> /\ stored \in Seq(Seq(Bytes)) => Made = stored /\ BundleSize = 0)'
        BY MadeEmpty, PTL
    <2> QED
        BY <2>1, <2>2
<1>3. Filled'
    <2>1. Chain(input, stored, Origin, Ends')
        <3>1. {} \subseteq Ends'
            OBVIOUS
        <3> QED
            BY <1>1, <3>1, ChainEnds
    <2>2. Origin + 0 = Origin
        BY <1>1
    <2>3. \A k \in 1..Len(pos') : FALSE
        BY <1>1
    <2> QED
        BY <1>1, <1>2, <2>1, <2>2, <2>3, Zenon DEF Filled
<1>4. Scanned'
    <2>1. CASE pc' = "read"
        BY <2>1 DEF Scanned
    <2>2. CASE pc' = "split"
        <3>1. (first = 0 /\ lbp = 0)'
            BY <2>2
        <3>2. (first = 0 /\ lbp = 0 => Scanned)'
            BY ScanStarts, PTL
        <3> QED
            BY <3>1, <3>2
    <2> QED
        BY <2>1, <2>2
<1>5. Placed'
    BY <1>1 DEF Placed
<1> QED
    BY <1>3, <1>4, <1>5 DEF CInv, Returned, Carried, AllCut

\* The reader yields bytes: they go on in the buffer where it stopped.
LEMMA ReadCuts ==
    ASSUME IInv, IInv', CInv, NEW n \in 1..Capacity, Read(n)
    PROVE  CInv'
<1>1. /\ pc = "read" /\ n <= Unused /\ rpos + n <= Len(input)
      /\ buf' = buf \o SubSeq(input, rpos + 1, rpos + n) /\ rpos' = rpos + n
      /\ IF Unused - n < Slack
         THEN pc' = "split" /\ first' = 0 /\ lbp' = 0
         ELSE UNCHANGED <<pc, first, lbp>>
      /\ UNCHANGED <<input, reader, pos, eof, stored>>
    BY DEF Read
<1>2. /\ Origin \in Nat /\ buf = SubSeq(input, Origin + 1, rpos) /\ eof = FALSE
      /\ rpos \in Nat /\ Len(buf) \in Nat /\ Len(input) \in Nat /\ n \in Nat
      /\ buf \in Seq(Bytes) /\ input \in Seq(Bytes)
    BY <1>1, FillingParts, CParts, CapacityAssumption
<1>3. Origin <= rpos
    BY <1>2 DEF Origin
<1> DEFINE m == rpos + n
           more == SubSeq(input, rpos + 1, m)
<1>4. m \in Nat /\ rpos <= m /\ m <= Len(input) /\ m - rpos = n
    BY <1>1, <1>2
<1>9. buf' = buf \o more /\ rpos' = m
    BY <1>1
<1> HIDE DEF m
<1>5. buf' = SubSeq(input, Origin + 1, m)
    <2>1. /\ Origin \in Nat /\ rpos \in Nat /\ m \in Nat /\ input \in Seq(Bytes)
          /\ Origin <= rpos /\ rpos <= m /\ m <= Len(input)
        BY <1>2, <1>3, <1>4
    <2>2. SubSeq(input, Origin + 1, rpos) \o SubSeq(input, rpos + 1, m) = SubSeq(input, Origin + 1, m)
        BY <2>1, PartJoin
    <2> QED
        BY <1>2, <1>9, <2>2, Zenon
<1>6. Len(buf') = Len(buf) + n
    <2>1. more \in Seq(Bytes) /\ Len(more) = n
        BY <1>2, <1>4, PartIs
    <2> HIDE DEF more
    <2> QED
        BY <1>2, <1>9, <2>1, ConcatType
<1>7. Origin' = Origin
    BY <1>1, <1>2, <1>6 DEF Origin
<1>8. pc' = "read" => Len(buf') < Capacity
    BY <1>1, <1>2, <1>6, SizesAssumption, CapacityAssumption DEF Unused
<1> QED
    BY <1>1, <1>2, <1>4, <1>5, <1>7, <1>8, <1>9, FillingStep

\* The reader yields nothing: there was room for more, so the input ended.
LEMMA ReadZeroCuts ==
    ASSUME IInv, IInv', CInv, ReadZero
    PROVE  CInv'
<1>1. /\ pc = "read" /\ (rpos = Len(input) \/ Unused = 0)
      /\ pc' = "split" /\ first' = 0 /\ lbp' = 0
      /\ UNCHANGED <<input, reader, rpos, buf, pos, stored>>
    BY DEF ReadZero, bundleVars
<1>2. /\ buf = SubSeq(input, Origin + 1, rpos) /\ rpos <= Len(input) /\ Len(buf) < Capacity
      /\ Len(buf) \in Nat
    BY <1>1, FillingParts, CParts
<1>3. rpos = Len(input)
    <2>1. Len(buf) < Capacity /\ Len(buf) \in Nat
        BY <1>2
    <2>2. Unused # 0
        BY <2>1, CapacityAssumption DEF Unused
    <2> QED
        BY <1>1, <2>2
<1>4. Origin' = Origin
    BY <1>1 DEF Origin
<1> QED
    BY <1>1, <1>2, <1>3, <1>4, FillingStep

\* The read fails: a stream is taken to have ended, a descriptor throws.
LEMMA ReadFailsCuts ==
    ASSUME IInv, IInv', CInv, ReadFails
    PROVE  CInv'
<1>1. /\ pc = "read"
      /\ UNCHANGED <<input, reader, rpos, buf, pos, stored>>
    BY DEF ReadFails, bundleVars
<1>2. /\ buf = SubSeq(input, Origin + 1, rpos) /\ rpos <= Len(input)
      /\ stored \in Seq(Seq(Bytes))
    BY <1>1, FillingParts
<1>3. CASE reader = "descriptor"
    <2>1. pc' = "thrown"
        BY <1>3 DEF ReadFails
    <2> QED
        BY <1>1, <1>2, <2>1 DEF CInv, Placed, Returned, Carried, Filled, Scanned, AllCut
<1>4. CASE reader # "descriptor"
    <2>1. pc' = "split" /\ first' = 0 /\ lbp' = 0
        BY <1>4 DEF ReadFails
    <2>2. Origin' = Origin
        BY <1>1 DEF Origin
    <2> QED
        BY <1>1, <1>2, <1>4, <2>1, <2>2, FillingStep
<1> QED
    BY <1>3, <1>4

\* What is known while the buffer is scanned.
LEMMA ScanParts ==
    ASSUME IInv, CInv, Scanning
    PROVE  /\ pc = "split" /\ first < Len(buf) /\ BundleSize = lbp /\ lbp <= first
           /\ first - lbp < MaxSize
           /\ Origin \in Nat /\ Origin <= rpos /\ rpos <= Len(input) /\ Origin + Len(buf) = rpos
           /\ buf = SubSeq(input, Origin + 1, rpos)
           /\ Chain(input, Made, Origin + lbp, Ends)
           /\ \A m \in 1..(first - lbp) : ~Natural(input, Origin + lbp, m)
           /\ \A j \in 1..WindowSize :
                 WindowSize - j < first - lbp - ExemptSize => window[j] = buf[first - WindowSize + j]
           /\ stored \in Seq(Seq(Bytes)) /\ (eof /\ reader = "descriptor" => rpos = Len(input))
<1>1. /\ pc = "split" /\ first < Len(buf) /\ BundleSize = lbp /\ lbp <= first
      /\ first - lbp < MaxSize
    BY DEF IInv, ScanPlaced, Scanning
<1>2. /\ Origin \in Nat /\ buf = SubSeq(input, Origin + 1, rpos)
      /\ Chain(input, Made, Origin + lbp, Ends)
    BY <1>1 DEF CInv, Filled
<1>3. rpos \in Nat /\ Len(buf) \in Nat
    BY CParts
<1>4. Origin <= rpos /\ Origin + Len(buf) = rpos
    BY <1>2, <1>3 DEF Origin
<1>5. /\ rpos <= Len(input) /\ stored \in Seq(Seq(Bytes))
      /\ (eof /\ reader = "descriptor" => rpos = Len(input))
    BY <1>1 DEF CInv, Placed
<1>6. /\ \A m \in 1..(first - lbp) : ~Natural(input, Origin + lbp, m)
      /\ \A j \in 1..WindowSize :
            WindowSize - j < first - lbp - ExemptSize => window[j] = buf[first - WindowSize + j]
    BY <1>1, Zenon DEF CInv, Scanned
<1> QED
    BY <1>1, <1>2, <1>4, <1>5, <1>6

\* Parts of the filled buffer as parts of the input.
LEMMA BufferPart ==
    ASSUME IInv, CInv, pc \in {"split", "loop"},
           NEW i \in Nat, NEW j \in Nat, i <= j, j <= Len(buf)
    PROVE  SubSeq(buf, i + 1, j) = SubSeq(input, Origin + i + 1, Origin + j)
<1>1. /\ rpos \in Nat /\ input \in Seq(Bytes) /\ Len(buf) \in Nat /\ Origin \in Nat
      /\ buf = SubSeq(input, Origin + 1, rpos) /\ rpos <= Len(input)
    BY CParts DEF CInv, Filled, Placed
<1>2. Origin <= rpos /\ rpos - Origin = Len(buf)
    BY <1>1 DEF Origin
<1>3. \A k, l \in Nat : k <= l /\ l <= rpos - Origin =>
          SubSeq(buf, k + 1, l) = SubSeq(input, Origin + k + 1, Origin + l)
    BY <1>1, <1>2, PartOfPart
<1>4. j <= rpos - Origin
    BY <1>2
<1> QED
    BY <1>3, <1>4

\* The bytes that split_into_blocks passes over cannot end a block.
LEMMA ExemptIsNot ==
    ASSUME NEW s, NEW i, NEW n \in Nat, n <= ExemptSize
    PROVE  ~Natural(s, i, n)
BY SizesAssumption DEF Natural, ExemptSize

\* The window, after one more byte, has the last of the bytes that count.
LEMMA WindowSlides ==
    ASSUME IInv, CInv, Scanning, NEW w, w = Slide(window, buf[first + 1])
    PROVE  /\ w \in Seq(Bytes) /\ Len(w) = WindowSize
           /\ \A j \in 1..WindowSize :
                 WindowSize - j < CurrentSize - ExemptSize => w[j] = buf[first + 1 - WindowSize + j]
<1>1. /\ first \in Nat /\ lbp \in Nat /\ Len(buf) \in Nat /\ buf \in Seq(Bytes) /\ first < Len(buf)
      /\ WindowSize \in Nat \ {0} /\ ExemptSize \in Int
      /\ window \in Seq(Bytes) /\ Len(window) = WindowSize
    BY ScanParts, CParts, SizesAssumption DEF ExemptSize, TypeOK
<1>2. \A j \in 1..WindowSize :
          WindowSize - j < first - lbp - ExemptSize => window[j] = buf[first - WindowSize + j]
    BY ScanParts
<1> DEFINE byte == buf[first + 1]
<1>3. byte \in Bytes
    BY <1>1
<1> HIDE DEF byte
<1>4. /\ w \in Seq(Bytes) /\ Len(w) = WindowSize /\ w[WindowSize] = byte
      /\ \A j \in 1..(WindowSize - 1) : w[j] = window[j + 1]
    <2> DEFINE t == Tail(window)
    <2>1. t \in Seq(Bytes) /\ Len(t) = WindowSize - 1
          /\ \A j \in 1..(WindowSize - 1) : t[j] = window[j + 1]
        BY <1>1
    <2>2. w = Append(t, byte)
        BY DEF Slide, byte
    <2> HIDE DEF t
    <2>3. /\ Append(t, byte) \in Seq(Bytes)
          /\ Len(Append(t, byte)) = Len(t) + 1
          /\ \A k \in 1..Len(t) : Append(t, byte)[k] = t[k]
          /\ Append(t, byte)[Len(t) + 1] = byte
        BY <1>3, <2>1, AppendType
    <2>4. Len(t) + 1 = WindowSize
        BY <1>1, <2>1
    <2> QED
        BY <2>1, <2>2, <2>3, <2>4
<1>5. ASSUME NEW j \in 1..WindowSize, WindowSize - j < CurrentSize - ExemptSize
      PROVE  w[j] = buf[first + 1 - WindowSize + j]
    <2>1. CASE j = WindowSize
        <3>1. first + 1 - WindowSize + j = first + 1
            BY <1>1, <2>1
        <3> QED
            BY <1>4, <2>1, <3>1 DEF byte
    <2>2. CASE j # WindowSize
        <3> DEFINE k == j + 1
        <3>1. j \in 1..(WindowSize - 1) /\ k \in 1..WindowSize
              /\ first + 1 - WindowSize + j = first - WindowSize + k
            BY <1>1, <2>2
        <3>2. WindowSize - k < first - lbp - ExemptSize
            BY <1>1, <1>5 DEF CurrentSize
        <3>3. w[j] = window[k]
            BY <1>4, <3>1
        <3> HIDE DEF k
        <3>4. window[k] = buf[first - WindowSize + k]
            BY <1>2, <3>1, <3>2
        <3> QED
            BY <3>1, <3>3, <3>4
    <2> QED
        BY <2>1, <2>2
<1> QED
    BY <1>4, <1>5

\* The scan ends a block where the content does.
LEMMA BoundaryIsNatural ==
    ASSUME IInv, CInv, Scanning, NEW w, w = Slide(window, buf[first + 1])
    PROVE  ReachedBoundary(CurrentSize, w) <=> Natural(input, Origin + lbp, CurrentSize)
<1> DEFINE x == first + 1 - WindowSize
           y == Origin + lbp + CurrentSize - WindowSize
<1>1. /\ first \in Nat /\ lbp \in Nat /\ Len(buf) \in Nat /\ buf \in Seq(Bytes) /\ first < Len(buf)
      /\ Origin \in Nat
    BY ScanParts, CParts
<1>2. CurrentSize >= MinSize => w = SubSeq(input, y + 1, Origin + lbp + CurrentSize)
    <2> SUFFICES ASSUME CurrentSize >= MinSize
                 PROVE  w = SubSeq(input, y + 1, Origin + lbp + CurrentSize)
        OBVIOUS
    <2>1. x \in Nat /\ x <= first + 1 /\ first + 1 \in Nat /\ first + 1 <= Len(buf)
          /\ first + 1 - x = WindowSize
          /\ Origin + lbp + CurrentSize = Origin + (first + 1) /\ y = Origin + x
        BY <1>1, SizesAssumption DEF CurrentSize
    <2>2. SubSeq(buf, x + 1, first + 1) = SubSeq(input, Origin + x + 1, Origin + (first + 1))
        BY <2>1, BufferPart DEF Scanning
    <2>3. \A j \in 1..WindowSize : WindowSize - j < CurrentSize - ExemptSize
        BY <1>1, SizesAssumption DEF CurrentSize, ExemptSize
    <2>4. /\ w \in Seq(Bytes) /\ Len(w) = WindowSize
          /\ \A j \in 1..WindowSize : w[j] = buf[x + j]
        BY <2>3, WindowSlides
    <2> HIDE DEF x, y
    <2> DEFINE v == SubSeq(buf, x + 1, first + 1)
    <2>5. v \in Seq(Bytes) /\ Len(v) = WindowSize /\ \A j \in 1..WindowSize : v[j] = buf[x + j]
        <3> DEFINE b == first + 1
        <3>1. /\ buf \in Seq(Bytes) /\ x \in Nat /\ b \in Nat /\ x <= b /\ b <= Len(buf)
              /\ b - x = WindowSize
            BY <1>1, <2>1
        <3> HIDE DEF b
        <3>2. /\ SubSeq(buf, x + 1, b) \in Seq(Bytes) /\ Len(SubSeq(buf, x + 1, b)) = b - x
              /\ \A i \in 1..(b - x) : SubSeq(buf, x + 1, b)[i] = buf[x + i]
            BY <3>1, PartIs
        <3> QED
            BY <3>1, <3>2, Zenon DEF b
    <2> HIDE DEF v
    <2>6. w = v
        BY <2>4, <2>5, SameSeq
    <2> QED
        BY <2>1, <2>2, <2>6 DEF v
<1> QED
    BY <1>2 DEF ReachedBoundary, Natural

\* One more at the end.
LEMMA AppendJoin ==
    ASSUME NEW S, NEW x \in Seq(S), NEW y \in Seq(S), NEW z \in Seq(S), NEW e \in S,
           Len(z) = Len(y) + 1, z[Len(y) + 1] = e,
           \A k \in 1..Len(y) : z[k] = y[k]
    PROVE  x \o z = Append(x \o y, e)
BY SMTT(60)

\* What the buffer holds, and the blocks made of it, stay.
LEMMA FilledStays ==
    ASSUME Filled, pc \in {"read", "split", "loop"},
           UNCHANGED <<input, rpos, buf, pos, eof, stored>>
    PROVE  Filled'
<1>1. Origin' = Origin /\ Made' = Made /\ BundleSize' = BundleSize /\ Ends' = Ends
    BY DEF Origin, Made, BundleSize, Ends, BlockAt, Start
<1>2. \A k \in 1..Len(pos) : BlockAt(k)' = BlockAt(k)
    BY DEF BlockAt, Start
<1>3. /\ Origin \in Nat /\ buf = SubSeq(input, Origin + 1, rpos)
      /\ Chain(input, Made, Origin + BundleSize, Ends)
      /\ \A k \in 1..Len(pos) : pos[k].end <= Len(buf) /\ pos[k].id = BlockAt(k)
    BY Zenon DEF Filled
<1>4. \A k \in 1..Len(pos') : pos'[k].end <= Len(buf') /\ pos'[k].id = BlockAt(k)'
    BY <1>2, <1>3
<1> QED
    BY <1>1, <1>3, <1>4, Zenon DEF Filled

\* The byte at `first` ends no block.
LEMMA ScanStays ==
    ASSUME IInv, CInv, Scanning, ~AtEnd, first' = first + 1,
           UNCHANGED <<input, reader, rpos, buf, pptr, pos, lbp, eof, pc, stored>>,
           ~Natural(input, Origin + lbp, CurrentSize),
           \A j \in 1..WindowSize :
              WindowSize - j < CurrentSize - ExemptSize => window'[j] = buf[first + 1 - WindowSize + j]
    PROVE  CInv'
<1>1. /\ pc = "split" /\ first \in Nat /\ lbp \in Nat /\ lbp <= first
      /\ \A m \in 1..(first - lbp) : ~Natural(input, Origin + lbp, m)
    BY ScanParts, CParts
<1>2. Origin' = Origin
    BY DEF Origin
<1>3. \A m \in 1..(first' - lbp') : ~Natural(input', Origin' + lbp', m)
    <2> TAKE m \in 1..(first' - lbp')
    <2>1. CASE m = CurrentSize
        BY <1>2, <2>1
    <2>2. CASE m # CurrentSize
        <3>1. m \in 1..(first - lbp)
            BY <1>1, <2>2 DEF CurrentSize
        <3> QED
            BY <1>1, <1>2, <3>1
    <2> QED
        BY <2>1, <2>2
<1>4. \A j \in 1..WindowSize :
          WindowSize - j < first' - lbp' - ExemptSize => window'[j] = buf'[first' - WindowSize + j]
    <2>1. first' - lbp' = CurrentSize /\ first' = first + 1 /\ buf' = buf
        BY <1>1 DEF CurrentSize
    <2> SUFFICES ASSUME NEW j \in 1..WindowSize, WindowSize - j < first' - lbp' - ExemptSize
                 PROVE  window'[j] = buf'[first' - WindowSize + j]
        OBVIOUS
    <2>2. WindowSize - j < CurrentSize - ExemptSize
        BY <2>1, Zenon
    <2>3. window'[j] = buf[first + 1 - WindowSize + j]
        BY <2>2
    <2>4. first' - WindowSize + j = first + 1 - WindowSize + j
        BY <1>1, <2>1, SizesAssumption
    <2> QED
        BY <2>1, <2>3, <2>4, Zenon
<1>5. ~(eof' /\ first' = Len(buf'))
    BY DEF AtEnd
<1>6. Scanned'
    BY <1>3, <1>4, <1>5, Zenon DEF Scanned
<1>7. Filled'
    BY <1>1, FilledStays DEF CInv
<1>8. Placed'
    BY DEF CInv, Placed
<1> QED
    BY <1>1, <1>6, <1>7, <1>8 DEF CInv, Returned, Carried, AllCut

\* A byte is passed over: too few make a block.
LEMMA ScanExemptCuts ==
    ASSUME IInv, CInv, ScanExempt
    PROVE  CInv'
<1>1. /\ Scanning /\ ~AtEnd /\ CurrentSize <= ExemptSize /\ first' = first + 1
      /\ UNCHANGED <<input, reader, rpos, buf, pptr, pos, window, lbp, eof, pc, stored>>
    BY DEF ScanExempt, bundleVars
<1>2. first \in Nat /\ lbp \in Nat /\ lbp <= first
    BY <1>1, ScanParts, CParts
<1>3. CurrentSize \in Nat
    BY <1>2 DEF CurrentSize
<1>4. ~Natural(input, Origin + lbp, CurrentSize)
    BY <1>1, <1>3, ExemptIsNot
<1>5. \A j \in 1..WindowSize : ~(WindowSize - j < CurrentSize - ExemptSize)
    BY <1>1, <1>3, SizesAssumption DEF ExemptSize
<1> QED
    BY <1>1, <1>4, <1>5, ScanStays

\* The byte at `first` ends a block.
LEMMA NewBlockCuts ==
    ASSUME IInv, CInv, Scanning, NewBlock, first' = first + 1,
           UNCHANGED <<input, reader, rpos, buf, pptr, eof, pc, stored>>,
           AtEnd \/ Natural(input, Origin + lbp, CurrentSize)
    PROVE  CInv'
<1>1. /\ pc = "split" /\ first < Len(buf) /\ BundleSize = lbp /\ lbp <= first
      /\ Origin \in Nat /\ Origin + Len(buf) = rpos /\ rpos <= Len(input)
      /\ Chain(input, Made, Origin + lbp, Ends)
      /\ \A m \in 1..(first - lbp) : ~Natural(input, Origin + lbp, m)
      /\ stored \in Seq(Seq(Bytes))
    BY ScanParts
<1>2. /\ first \in Nat /\ lbp \in Nat /\ Len(buf) \in Nat /\ buf \in Seq(Bytes) /\ input \in Seq(Bytes)
      /\ pos \in Seq(Marks) /\ Len(pos) \in Nat /\ Len(input) \in Nat
    BY CParts
<1>3. CurrentSize \in Nat \ {0} /\ lbp + CurrentSize = first + 1
    BY <1>1, <1>2 DEF CurrentSize
<1> DEFINE end  == first + 1
           id   == SubSeq(buf, lbp + 1, end)
           mark == [end |-> end, id |-> id]
<1>4. end \in Nat /\ end <= Len(buf) /\ lbp <= end /\ id \in Seq(Bytes)
    <2>1. end \in Nat /\ end <= Len(buf) /\ lbp <= end
        BY <1>1, <1>2
    <2> HIDE DEF end
    <2> QED
        BY <1>2, <2>1, SubSeqType
<1>5. pos' = Append(pos, mark)
    BY <1>1, <1>3, Zenon DEF NewBlock, Mark
<1>6. first' = end /\ lbp' = end
    BY DEF NewBlock
<1>19. mark \in Marks /\ mark.end = end /\ mark.id = id
    BY <1>4 DEF Marks
<1>20. id = SubSeq(input, Origin + lbp + 1, Origin + end)
    <2>1. end \in Nat /\ end <= Len(buf) /\ lbp <= end
        BY <1>4
    <2> HIDE DEF end
    <2> QED
        BY <1>1, <1>2, <2>1, BufferPart
<1>21. end = lbp + CurrentSize
    BY <1>3
<1>22. CurrentSize - 1 = first - lbp
    BY <1>2 DEF CurrentSize
<1> HIDE DEF end, id, mark
<1>23. PICK l \in Nat : l = Len(pos)
    BY <1>2
<1>7. /\ Len(pos') = l + 1 /\ \A k \in 1..l : pos'[k] = pos[k]
      /\ pos'[l + 1] = mark
    BY <1>2, <1>5, <1>19, <1>23, AppendType
<1>8. \A k \in 1..l : Start(k)' = Start(k)
    <2> TAKE k \in 1..l
    <2>1. CASE k = 1
        BY <2>1 DEF Start
    <2>2. CASE k # 1
        <3>1. k - 1 \in 1..l
            BY <1>23, <2>2
        <3> QED
            BY <1>7, <2>2, <3>1 DEF Start
    <2> QED
        BY <2>1, <2>2
<1>9. Start(l + 1)' = lbp
    <2>1. CASE pos = << >>
        BY <1>1, <1>2, <1>23, <2>1 DEF Start, BundleSize
    <2>2. CASE pos # << >>
        <3>1. l \in 1..l /\ l + 1 # 1 /\ l + 1 - 1 = l
            BY <1>2, <1>23, <2>2
        <3> QED
            BY <1>1, <1>7, <1>23, <2>2, <3>1 DEF Start, BundleSize
    <2> QED
        BY <2>1, <2>2
<1>10. /\ \A k \in 1..l : BlockAt(k)' = BlockAt(k)
       /\ BlockAt(l + 1)' = id
    <2>1. BlockAt(l + 1)' = SubSeq(buf', Start(l + 1)' + 1, pos'[l + 1].end)
        BY DEF BlockAt
    <2>2. BlockAt(l + 1)' = id
        BY <1>7, <1>9, <1>19, <2>1 DEF id
    <2> QED
        BY <1>7, <1>8, <2>2 DEF BlockAt
<1>11. BundleSize' = end
    <2>1. pos' # << >> /\ pos'[Len(pos')] = mark
        BY <1>2, <1>7, <1>23
    <2> QED
        BY <1>19, <2>1 DEF BundleSize
<1>12. \A k \in 1..l : pos[k].end <= Len(buf) /\ pos[k].id = BlockAt(k)
    BY <1>1, <1>23, Zenon DEF CInv, Filled
<1>13. \A k \in 1..Len(pos') : pos'[k].end <= Len(buf') /\ pos'[k].id = BlockAt(k)'
    <2> TAKE k \in 1..Len(pos')
    <2>1. CASE k = l + 1
        BY <1>4, <1>7, <1>10, <1>19, <2>1
    <2>2. CASE k # l + 1
        <3>1. k \in 1..l
            BY <1>7, <1>23, <2>2
        <3> QED
            BY <1>7, <1>10, <1>12, <3>1
    <2> QED
        BY <2>1, <2>2
<1>14. Made \in Seq(Seq(Bytes)) /\ Made' = Append(Made, id)
    <2> DEFINE n == l
               b == [k \in 1..n |-> BlockAt(k)]
               c == [k \in 1..(n + 1) |-> BlockAt(k)']
    <2>1. Made \in Seq(Seq(Bytes))
        BY <1>1, <1>12, <1>23, MadeType
    <2>2. Made = stored \o b /\ Made' = stored \o c
        BY <1>7, <1>23 DEF Made
    <2>3. \A k \in 1..n : BlockAt(k) \in Seq(Bytes)
        BY <1>2, <1>12, <1>23, CParts, SubSeqType DEF BlockAt
    <2>4. n \in Nat
        BY <1>23
    <2> HIDE DEF n
    <2>5. b \in Seq(Seq(Bytes)) /\ Len(b) = n /\ \A k \in 1..n : b[k] = BlockAt(k)
        BY <2>3, <2>4
    <2>6. Len(c) = n + 1 /\ c[n + 1] = id /\ (\A k \in 1..n : c[k] = BlockAt(k))
        BY <1>10, <2>4 DEF n
    <2>7. c \in Seq(Seq(Bytes))
        <3>1. \A k \in 1..(n + 1) : BlockAt(k)' \in Seq(Bytes)
            <4> TAKE k \in 1..(n + 1)
            <4>1. CASE k = n + 1
                BY <1>4, <1>10, <4>1 DEF n
            <4>2. CASE k # n + 1
                <5>1. k \in 1..n
                    BY <2>4, <4>2
                <5> QED
                    BY <1>10, <2>3, <5>1 DEF n
            <4> QED
                BY <4>1, <4>2
        <3> QED
            BY <2>4, <3>1
    <2> HIDE DEF b, c
    <2>8. stored \o c = Append(stored \o b, id)
        <3>1. stored \in Seq(Seq(Bytes)) /\ id \in Seq(Bytes) /\ \A k \in 1..Len(b) : c[k] = b[k]
            BY <1>1, <1>4, <2>5, <2>6
        <3>2. Len(c) = Len(b) + 1 /\ c[Len(b) + 1] = id
            BY <2>5, <2>6
        <3> QED
            BY <2>5, <2>7, <3>1, <3>2, AppendJoin
    <2> QED
        BY <2>1, <2>2, <2>8
<1>15. Ends' = Ends /\ Origin' = Origin
    BY DEF Ends, Origin
<1>16. Filled'
    <2>1. Natural(input, Origin + lbp, CurrentSize) \/ Origin + lbp + CurrentSize \in Ends
        <3>1. CASE AtEnd
            <4>1. eof /\ first + 1 = Len(buf)
                BY <3>1 DEF AtEnd
            <4>3. /\ Origin \in Nat /\ lbp \in Nat /\ CurrentSize \in Nat /\ Len(buf) \in Nat
                  /\ lbp + CurrentSize = Len(buf) /\ Origin + Len(buf) = rpos
                BY <1>1, <1>2, <1>3, <4>1
            <4>2. Origin + lbp + CurrentSize = rpos
                BY <4>3
            <4> QED
                BY <4>1, <4>2 DEF Ends
        <3> QED
            BY <3>1
    <2>2. \A m \in 1..(CurrentSize - 1) : ~Natural(input, Origin + lbp, m)
        BY <1>1, <1>22
    <2>3. Origin + lbp + CurrentSize <= Len(input) /\ Origin + end = Origin + lbp + CurrentSize
        BY <1>1, <1>2, <1>3, <1>4, <1>21
    <2>4. Chain(input, Append(Made, id), Origin + lbp + CurrentSize, Ends)
        BY <1>1, <1>2, <1>3, <1>14, <1>20, <2>1, <2>2, <2>3, ChainAppend
    <2>5. Origin \in Nat /\ buf = SubSeq(input, Origin + 1, rpos)
        BY ScanParts
    <2> QED
        BY <1>11, <1>13, <1>14, <1>15, <2>3, <2>4, <2>5, Zenon DEF Filled
<1>17. Scanned'
    <2>1. first' - lbp' = 0
        BY <1>4, <1>6
    <2>2. \A j \in 1..WindowSize : ~(WindowSize - j < 0 - ExemptSize)
        BY SizesAssumption DEF ExemptSize
    <2>3. \A m \in 1..0 : FALSE
        OBVIOUS
    <2> QED
        BY <1>6, <2>1, <2>2, <2>3, Zenon DEF Scanned
<1>18. Placed'
    BY <1>1 DEF CInv, Placed
<1> QED
    BY <1>1, <1>16, <1>17, <1>18 DEF CInv, Returned, Carried, AllCut

\* A byte is processed, and ends a block if its content says so.
LEMMA ScanByteCuts ==
    ASSUME IInv, CInv, ScanByte
    PROVE  CInv'
<1> DEFINE w == Slide(window, buf[first + 1])
<1>1. /\ Scanning /\ ~AtEnd /\ first' = first + 1
      /\ UNCHANGED <<input, reader, rpos, buf, pptr, eof, pc, stored>>
    BY DEF ScanByte
<1>2. CASE ReachedBoundary(CurrentSize, w)
    <2>1. NewBlock
        BY <1>2 DEF ScanByte
    <2>2. Natural(input, Origin + lbp, CurrentSize)
        BY <1>1, <1>2, BoundaryIsNatural
    <2> QED
        BY <1>1, <2>1, <2>2, NewBlockCuts
<1>3. CASE ~ReachedBoundary(CurrentSize, w)
    <2>1. window' = w /\ UNCHANGED <<pos, lbp>>
        BY <1>3 DEF ScanByte
    <2>2. ~Natural(input, Origin + lbp, CurrentSize)
        BY <1>1, <1>3, BoundaryIsNatural
    <2>3. \A j \in 1..WindowSize :
              WindowSize - j < CurrentSize - ExemptSize => window'[j] = buf[first + 1 - WindowSize + j]
        BY <1>1, <2>1, WindowSlides
    <2> HIDE DEF w
    <2> QED
        BY <1>1, <2>1, <2>2, <2>3, ScanStays
<1> QED
    BY <1>2, <1>3

\* The last byte of the input ends a block.
LEMMA ScanLastCuts ==
    ASSUME IInv, CInv, ScanLast
    PROVE  CInv'
BY NewBlockCuts DEF ScanLast

\* What was not cut is left over.
LEMMA SplitEndsCuts ==
    ASSUME IInv, CInv, SplitEnds
    PROVE  CInv'
<1>1. /\ pc = "split" /\ first = Len(buf) /\ pptr' = lbp /\ pc' = "loop"
      /\ UNCHANGED <<input, reader, rpos, buf, pos, eof, stored>>
    BY DEF SplitEnds
<1>2. Filled'
    BY <1>1, FilledStays DEF CInv
<1>3. eof => lbp = Len(buf)
    BY <1>1, Zenon DEF CInv, Scanned
<1>4. Placed'
    BY <1>1 DEF CInv, Placed
<1> QED
    BY <1>1, <1>2, <1>3, <1>4 DEF CInv, Returned, Carried, Scanned, AllCut

\* The blocks are merged: all of the input if it ended, and else up to what is left over.
LEMMA MergeCuts ==
    ASSUME IInv, CInv, Merge
    PROVE  CInv'
<1>1. /\ pc = "loop" /\ stored' = Made /\ pos' = << >>
      /\ pc' = (IF eof \/ pos = << >> THEN "idle" ELSE "consume")
      /\ UNCHANGED <<input, reader, rpos, buf, pptr, eof>>
    BY DEF Merge, Made
<1>2. /\ Origin \in Nat /\ buf = SubSeq(input, Origin + 1, rpos)
      /\ Chain(input, Made, Origin + BundleSize, Ends)
      /\ \A k \in 1..Len(pos) : pos[k].end <= Len(buf)
    BY <1>1, Zenon DEF CInv, Filled
<1>3. /\ rpos \in Nat /\ Len(buf) \in Nat /\ pptr \in Nat /\ pptr <= Len(buf) /\ BundleSize = pptr
      /\ buf \in Seq(Bytes) /\ input \in Seq(Bytes)
    BY <1>1, CParts DEF IInv
<1>4. /\ stored \in Seq(Seq(Bytes)) /\ rpos <= Len(input)
      /\ (eof /\ reader = "descriptor" => rpos = Len(input))
    BY <1>1 DEF CInv, Placed
<1>5. Made \in Seq(Seq(Bytes))
    BY <1>2, <1>4, MadeType
<1>6. Left = Origin + pptr /\ Left \in Nat /\ Origin <= rpos /\ rpos - Origin = Len(buf)
      /\ Origin + Len(buf) = rpos
    BY <1>2, <1>3 DEF Left, Origin
<1>7. Placed'
    BY <1>1, <1>4, <1>5 DEF Placed
<1>8. CASE eof \/ pos = << >>
    <2>1. eof
        <3>1. ~eof => pos # << >>
            <4> SUFFICES ASSUME ~eof, pos = << >> PROVE FALSE
                OBVIOUS
            <4>1. pptr = 0 /\ Len(buf) - pptr < MaxSize /\ Len(buf) > Capacity - Slack
                BY <1>1, <1>3 DEF IInv, LeftoverBounded, BufferFilled, BundleSize
            <4> QED
                BY <1>3, <4>1, SizesAssumption, CapacityAssumption
        <3> QED
            BY <1>8, <3>1
    <2>2. pptr = Len(buf)
        BY <1>1, <2>1 DEF CInv, AllCut
    <2>3. Chain(input, Made, rpos, {rpos})
        <3>1. Ends = {rpos} /\ Origin + BundleSize = rpos
            BY <1>3, <1>6, <2>1, <2>2 DEF Ends
        <3> QED
            BY <1>2, <3>1
    <2>4. pc' = "idle"
        BY <1>1, <1>8
    <2>5. Returned'
        BY <1>1, <1>4, <2>1, <2>2, <2>3 DEF Returned
    <2> QED
        BY <1>7, <2>4, <2>5 DEF CInv, Carried, Filled, Scanned, AllCut
<1>9. CASE ~(eof \/ pos = << >>)
    <2>1. pc' = "consume" /\ Left' = Left
        BY <1>1, <1>9 DEF Left
    <2>2. Chain(input, Made, Left, {})
        <3>1. Ends = {} /\ Origin + BundleSize = Left
            BY <1>3, <1>6, <1>9 DEF Ends
        <3> QED
            BY <1>2, <3>1
    <2>3. SubSeq(buf, pptr + 1, Len(buf)) = SubSeq(input, Left + 1, rpos)
        <3> DEFINE n == Len(buf)
        <3>1. pc = "loop" /\ pptr \in Nat /\ n \in Nat /\ pptr <= n /\ n <= Len(buf)
            BY <1>1, <1>3
        <3> HIDE DEF n
        <3>3. SubSeq(buf, pptr + 1, n) = SubSeq(input, Origin + pptr + 1, Origin + n)
            BY <3>1, BufferPart
        <3>2. SubSeq(buf, pptr + 1, Len(buf)) = SubSeq(input, Origin + pptr + 1, Origin + Len(buf))
            BY <3>3 DEF n
        <3> QED
            BY <1>6, <3>2
    <2>4. Carried'
        BY <1>1, <1>6, <2>1, <2>2, <2>3 DEF Carried
    <2> QED
        BY <1>7, <2>1, <2>4 DEF CInv, Returned, Filled, Scanned, AllCut
<1> QED
    BY <1>8, <1>9

\* The commit is given up.
LEMMA MergeFailsCuts ==
    ASSUME CInv, MergeFails
    PROVE  CInv'
BY DEF MergeFails, bundleVars, CInv, Placed, Returned, Carried, Filled, Scanned, AllCut

\* A new bundle.
LEMMA DiscardCuts ==
    ASSUME CInv, Discard
    PROVE  CInv'
<1>1. /\ pc' = "idle" /\ input' = << >> /\ rpos' = 0 /\ stored' = << >>
      /\ buf' = << >> /\ pptr' = 0
    BY DEF Discard
<1>2. /\ << >> \in Seq(Bytes) /\ << >> \in Seq(Seq(Bytes)) /\ Len(<< >>) = 0
    OBVIOUS
<1>3. Chain(<< >>, << >>, 0, {0})
    BY <1>2, ChainEmpty
<1> QED
    BY <1>1, <1>2, <1>3 DEF CInv, Placed, Returned, Carried, Filled, Scanned, AllCut

\* Nothing changes.
LEMMA StutterCuts ==
    ASSUME CInv, UNCHANGED vars
    PROVE  CInv'
<1>1. UNCHANGED <<input, reader, rpos, buf, pptr, pos, window, first, lbp, eof, pc, stored>>
    BY DEF vars, bundleVars
<1>2. Filled'
    <2>1. CASE pc \in {"read", "split", "loop"}
        BY <1>1, <2>1, FilledStays DEF CInv
    <2>2. CASE pc \notin {"read", "split", "loop"}
        BY <1>1, <2>2 DEF Filled
    <2> QED
        BY <2>1, <2>2
<1>3. Placed' /\ Returned'
    BY <1>1 DEF CInv, Placed, Returned
<1>4. Carried'
    <2>1. Left' = Left
        BY <1>1 DEF Left
    <2> QED
        BY <1>1, <2>1 DEF CInv, Carried
<1>5. Scanned'
    <2>1. Origin' = Origin
        BY <1>1 DEF Origin
    <2> QED
        BY <1>1, <2>1 DEF CInv, Scanned
<1>6. AllCut'
    BY <1>1 DEF CInv, AllCut
<1> QED
    BY <1>2, <1>3, <1>4, <1>5, <1>6 DEF CInv

\* A new bundle has cut nothing.
LEMMA InitCuts == Init => CInv
<1> SUFFICES ASSUME Init PROVE CInv
    OBVIOUS
<1>1. << >> \in Seq(Bytes) /\ << >> \in Seq(Seq(Bytes)) /\ Len(<< >>) = 0
    OBVIOUS
<1>2. Chain(<< >>, << >>, 0, {0})
    BY <1>1, ChainEmpty
<1> QED
    BY <1>1, <1>2 DEF Init, CInv, Placed, Returned, Carried, Filled, Scanned, AllCut

\* Every step keeps CInv.
LEMMA NextCuts == IInv /\ IInv' /\ CInv /\ [Next]_vars => CInv'
<1> SUFFICES ASSUME IInv, IInv', CInv, [Next]_vars PROVE CInv'
    OBVIOUS
<1>1. ASSUME NEW in \in Inputs, NEW r \in {"descriptor", "stream"}, Commit(in, r)
      PROVE  CInv'
    BY <1>1, CommitCuts
<1>2. CASE Consume
    BY <1>2, ConsumeCuts
<1>3. ASSUME NEW n \in 1..Capacity, Read(n)
      PROVE  CInv'
    BY <1>3, ReadCuts
<1>4. CASE ReadZero
    BY <1>4, ReadZeroCuts
<1>5. CASE ReadFails
    BY <1>5, ReadFailsCuts
<1>6. CASE ScanExempt
    BY <1>6, ScanExemptCuts
<1>7. CASE ScanByte
    BY <1>7, ScanByteCuts
<1>8. CASE ScanLast
    BY <1>8, ScanLastCuts
<1>9. CASE SplitEnds
    BY <1>9, SplitEndsCuts
<1>10. CASE Merge
    BY <1>10, MergeCuts
<1>11. CASE MergeFails
    BY <1>11, MergeFailsCuts
<1>12. CASE Discard
    BY <1>12, DiscardCuts
<1>13. CASE UNCHANGED vars
    BY <1>13, StutterCuts
<1> QED
    BY <1>1, <1>2, <1>3, <1>4, <1>5, <1>6, <1>7, <1>8, <1>9, <1>10, <1>11, <1>12, <1>13
    DEF Next, Step

\* Whatever the sizes of the reads and wherever the buffer ends, the blocks
\* made so far are those of the input's content, up to where they end.
THEOREM CutByContent == Spec => [](IInv /\ CInv)
<1>1. Init => IInv /\ CInv
    BY InitIInv, InitCuts
<1>2. (IInv /\ CInv) /\ [Next]_vars => (IInv /\ CInv)'
    BY NextIInv, NextCuts
<1> QED
    BY <1>1, <1>2, PTL DEF Spec

\* What merge() stores under an id is what the id is the digest of.
THEOREM DigestsMatch == Spec => []IdsMatchData
<1>1. CInv => IdsMatchData
    BY DEF CInv, Filled, IdsMatchData
<1> QED
    BY CutByContent, <1>1, PTL

\* A commit that returned stored the blocks that content alone determines.
THEOREM SameContentSameBlocks == Spec => []ChunksOfContent
<1>1. IInv /\ CInv => ChunksOfContent
    <2> SUFFICES ASSUME IInv, CInv, pc = "idle"
                 PROVE  /\ stored = Chunks(SubSeq(input, 1, rpos))
                        /\ reader = "descriptor" => rpos = Len(input)
        BY DEF ChunksOfContent
    <2>1. /\ Chain(input, stored, rpos, {rpos}) /\ stored \in Seq(Seq(Bytes))
          /\ reader = "descriptor" => rpos = Len(input)
        BY DEF CInv, Returned, Placed
    <2>2. input \in Seq(Bytes)
        BY CParts
    <2> QED
        BY <2>1, <2>2, ChainIsChunks
<1> QED
    BY CutByContent, <1>1, PTL
==============================================================================

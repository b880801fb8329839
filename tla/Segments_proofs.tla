----------------------------- MODULE Segments_proofs -----------------------------
(***************************************************************************)
(* What the query of vfile::list returns, for every index and every list   *)
(* of ids: reading its ranges one after the other reads the blocks that    *)
(* are listed, up to the first one without a row.                          *)
(***************************************************************************)
EXTENDS Segments, SequenceLemmas

(***************************************************************************)
(* The rows the recursion reaches                                          *)
(***************************************************************************)
LEMMA ReachedIs ==
    ASSUME NEW v, NEW ids, Len(ids) \in Nat
    PROVE  /\ Reached(v, ids) \in 0..Len(ids)
           /\ \A j \in 1..Reached(v, ids) : v[ids[j]] # NoOffset
           /\ Reached(v, ids) < Len(ids) => v[ids[Reached(v, ids) + 1]] = NoOffset
<1> DEFINE T == {n \in 0..Len(ids) : \A j \in 1..n : v[ids[j]] # NoOffset}
<1>1. T \in SUBSET Nat /\ 0 \in T
    OBVIOUS
<1>2. \A x \in T : x <= Len(ids)
    OBVIOUS
<1>7. \E m \in T : \A x \in T : x <= m
    <2> HIDE DEF T
    <2> QED
        BY <1>1, <1>2, GreatestNat
<1>3. Max(T) \in T /\ \A x \in T : x <= Max(T)
    BY <1>7 DEF Max
<1>4. Reached(v, ids) = Max(T)
    BY DEF Reached
<1> DEFINE n == Reached(v, ids)
<1>5. n \in T /\ \A x \in T : x <= n
    BY <1>3, <1>4
<1> HIDE DEF n
<1>6. ASSUME n < Len(ids), v[ids[n + 1]] # NoOffset
      PROVE  FALSE
    <2>1. n + 1 \in T
        BY <1>5, <1>6
    <2> QED
        BY <1>5, <2>1
<1> QED
    BY <1>5, <1>6 DEF n

(***************************************************************************)
(* Groups                                                                  *)
(***************************************************************************)
\* Row j starts where the row before it ends.
Follows(v, ids, j) == j > 1 /\ OffEnd(v, ids, j - 1) = OffStart(v, ids, j)

\* The column k: a row that follows the one before is in its group, and any
\* other starts a group, which it gives its number.
LEMMA GroupOfIs ==
    ASSUME NEW v, NEW ids, Len(ids) \in Nat
    PROVE  LET n == Reached(v, ids)
               k == GroupOf(v, ids)
           IN  /\ k \in [1..n -> Nat]
               /\ \A j \in 1..n : k[j] = IF Follows(v, ids, j) THEN k[j - 1] ELSE j
<1> DEFINE n == Reached(v, ids)
           step == [p \in (1..n) \X Nat |-> IF Follows(v, ids, p[1]) THEN p[2] ELSE p[1]]
<1>1. n \in Nat
    BY ReachedIs
<1> HIDE DEF n
<1>2. step \in [(1..n) \X Nat -> Nat]
    BY <1>1
<1>3. PICK f \in [1..n -> Nat] :
         \A i \in 1..n : f[i] = IF i = 1 THEN 1 ELSE step[<<i, f[i - 1]>>]
    <2>1. 1 \in Nat
        OBVIOUS
    <2> HIDE DEF step
    <2>2. \E f \in [1..n -> Nat] : Recurs(f, n, 1, step)
        BY <1>1, <1>2, <2>1, Recursion
    <2> QED
        BY <2>2 DEF Recurs
<1>4. ASSUME NEW j \in 1..n
      PROVE  f[j] = IF Follows(v, ids, j) THEN f[j - 1] ELSE j
    <2>1. CASE j = 1
        <3>1. ~Follows(v, ids, j)
            BY <2>1 DEF Follows
        <3>2. f[j] = 1
            BY <1>3, <2>1
        <3> QED
            BY <2>1, <3>1, <3>2
    <2>2. CASE j # 1
        <3>1. j - 1 \in 1..n /\ f[j - 1] \in Nat
            BY <1>1, <2>2
        <3>2. step[<<j, f[j - 1]>>] = IF Follows(v, ids, j) THEN f[j - 1] ELSE j
            BY <3>1
        <3> QED
            BY <1>3, <2>2, <3>2
    <2> QED
        BY <2>1, <2>2
<1>5. f = [j \in 1..n |-> IF Follows(v, ids, j) THEN f[j - 1] ELSE j]
    BY <1>4
<1> DEFINE k == CHOOSE k : k = [j \in 1..n |-> IF Follows(v, ids, j) THEN k[j - 1] ELSE j]
<1>6. k = [j \in 1..n |-> IF Follows(v, ids, j) THEN k[j - 1] ELSE j]
    BY <1>5
<1>7. GroupOf(v, ids) = k
    BY DEF GroupOf, Follows, n
<1> HIDE DEF k
<1> DEFINE T == {i \in Nat : i + 1 \in 1..n => k[i + 1] \in Nat}
<1>8. 0 \in T
    BY <1>6 DEF Follows
<1>9. ASSUME NEW i \in Nat, i \in T PROVE i + 1 \in T
    <2> SUFFICES ASSUME i + 2 \in 1..n PROVE k[i + 2] \in Nat
        OBVIOUS
    <2>1. k[i + 1] \in Nat
        BY <1>9, <1>1
    <2>2. (i + 2) - 1 = i + 1
        OBVIOUS
    <2>3. k[i + 2] = k[i + 1] \/ k[i + 2] = i + 2
        BY <1>6, <2>2
    <2> QED
        BY <2>1, <2>3
<1>10. \A i \in Nat : i \in T
    <2> HIDE DEF T
    <2> QED
        BY <1>8, <1>9, Induction
<1>11. \A j \in 1..n : k[j] \in Nat
    <2> TAKE j \in 1..n
    <2>1. j - 1 \in Nat /\ (j - 1) + 1 = j
        BY <1>1
    <2>2. j - 1 \in T
        BY <1>10, <2>1, Zenon
    <2> QED
        BY <2>1, <2>2
<1>12. k \in [1..n -> Nat]
    BY <1>6, <1>11
<1> QED
    BY <1>6, <1>7, <1>12 DEF n

\* An index, and a manifest whose ids it may or may not have.
Query(v, ids, Blocks) ==
    /\ NoOffset \notin Nat
    /\ Size \in [Blocks -> Nat]
    /\ v \in [Blocks -> Nat \cup {NoOffset}]
    /\ ids \in Seq(Blocks)

\* The bytes of a row of the join.
LEMMA RowType ==
    ASSUME NEW Blocks, NEW v, NEW ids, Query(v, ids, Blocks),
           NEW j \in 1..Reached(v, ids)
    PROVE  /\ ids[j] \in Blocks
           /\ OffStart(v, ids, j) \in Nat /\ OffEnd(v, ids, j) \in Nat
           /\ OffStart(v, ids, j) <= OffEnd(v, ids, j)
<1>1. Len(ids) \in Nat
    BY DEF Query
<1>2. j \in 1..Len(ids) /\ v[ids[j]] # NoOffset
    BY <1>1, ReachedIs
<1>3. ids[j] \in Blocks
    BY <1>2 DEF Query
<1>4. v[ids[j]] \in Nat /\ Size[ids[j]] \in Nat
    BY <1>2, <1>3 DEF Query
<1> QED
    BY <1>3, <1>4 DEF OffStart, OffEnd

\* What holds of row j: its group is numbered by the first row in it, k does
\* not decrease, and in a group the offsets do not decrease.
GroupFacts(v, ids, j) ==
    LET k == GroupOf(v, ids) IN
    /\ k[j] \in 1..j /\ k[k[j]] = k[j]
    /\ OffStart(v, ids, k[j]) <= OffStart(v, ids, j)
    /\ \A i \in 1..j : k[i] <= k[j]
    /\ \A i \in 1..j : k[i] = k[j] => OffEnd(v, ids, i) <= OffEnd(v, ids, j)

LEMMA Groups ==
    ASSUME NEW Blocks, NEW v, NEW ids, Query(v, ids, Blocks)
    PROVE  \A j \in 1..Reached(v, ids) : GroupFacts(v, ids, j)
<1> DEFINE n == Reached(v, ids)
           k == GroupOf(v, ids)
           s(j) == OffStart(v, ids, j)
           e(j) == OffEnd(v, ids, j)
<1>1. Len(ids) \in Nat
    BY DEF Query
<1>2. n \in Nat
    BY <1>1, ReachedIs
<1>3. k \in [1..n -> Nat]
    BY <1>1, GroupOfIs
<1>4. \A j \in 1..n : k[j] = IF Follows(v, ids, j) THEN k[j - 1] ELSE j
    BY <1>1, GroupOfIs
<1>5. \A j \in 1..n : s(j) \in Nat /\ e(j) \in Nat /\ s(j) <= e(j)
    BY RowType
<1>6. \A j \in 1..n : Follows(v, ids, j) <=> j > 1 /\ e(j - 1) = s(j)
    BY DEF Follows
<1> DEFINE P(j) == GroupFacts(v, ids, j)
           T == {i \in Nat : i + 1 \in 1..n => P(i + 1)}
<1>7. ASSUME NEW j \in 1..n, ~Follows(v, ids, j), \A i \in 1..j : i < j => k[i] < j
      PROVE  P(j)
    <2> HIDE DEF k, n, s, e
    <2>1. k[j] = j
        BY <1>4, <1>7
    <2>2. \A i \in 1..j : k[i] <= j /\ (k[i] = j => i = j)
        <3> TAKE i \in 1..j
        <3>1. i < j \/ i = j
            BY <1>2
        <3>2. i \in 1..n /\ k[i] \in Nat
            BY <1>2, <1>3
        <3> QED
            BY <1>7, <2>1, <3>1, <3>2
    <2> QED
        BY <1>2, <1>5, <2>1, <2>2 DEF GroupFacts, k, n, s, e
<1> HIDE DEF n, k, s, e
<1>8. 0 \in T
    <2>1. ~Follows(v, ids, 1)
        BY DEF Follows
    <2>2. 1 \in 1..n => P(1)
        BY <1>7, <2>1
    <2> HIDE DEF P
    <2> QED
        BY <2>2
<1>9. ASSUME NEW i \in Nat, i \in T PROVE i + 1 \in T
    <2> SUFFICES ASSUME i + 2 \in 1..n PROVE P(i + 2)
        BY <1>9
    <2> DEFINE g == k[i + 1]
    <2>1. P(i + 1)
        BY <1>9, <1>2
    <2>2. /\ i + 1 \in 1..n /\ i + 2 \in 1..n /\ (i + 2) - 1 = i + 1
          /\ i + 2 > 1 /\ 1..(i + 2) = 1..(i + 1) \cup {i + 2}
        BY <1>2
    <2>3. /\ g \in 1..(i + 1) /\ k[g] = g /\ s(g) <= s(i + 1)
          /\ \A x \in 1..(i + 1) : k[x] <= g
          /\ \A x \in 1..(i + 1) : k[x] = g => e(x) <= e(i + 1)
        BY <2>1 DEF GroupFacts, k, s, e
    <2> HIDE DEF P, g
    <2>4. CASE Follows(v, ids, i + 2)
        <3>1. k[i + 2] = g
            BY <1>4, <2>2, <2>4 DEF g
        <3>2. s(i + 2) = e(i + 1)
            BY <1>6, <2>2, <2>4
        <3>3. g \in 1..n /\ g \in 1..(i + 2)
            BY <2>2, <2>3, <1>2
        <3>4. s(g) <= s(i + 2) /\ e(i + 1) <= e(i + 2)
            BY <1>5, <2>2, <2>3, <3>2, <3>3
        <3>5. \A x \in 1..(i + 2) : k[x] <= g
            BY <2>2, <2>3, <3>1
        <3>6. ASSUME NEW x \in 1..(i + 2), k[x] = g PROVE e(x) <= e(i + 2)
            <4>1. x \in 1..n /\ e(x) \in Nat /\ e(i + 1) \in Nat /\ e(i + 2) \in Nat
                BY <1>2, <1>5, <2>2
            <4> QED
                BY <2>2, <2>3, <3>4, <3>6, <4>1
        <3> QED
            BY <2>3, <3>1, <3>3, <3>4, <3>5, <3>6 DEF P, GroupFacts, k, s, e
    <2>5. CASE ~Follows(v, ids, i + 2)
        <3>1. \A x \in 1..(i + 2) : x < i + 2 => k[x] < i + 2
            <4> TAKE x \in 1..(i + 2)
            <4> HAVE x < i + 2
            <4>1. x \in 1..(i + 1) /\ x \in 1..n
                BY <1>2
            <4>2. k[x] <= g /\ k[x] \in Nat
                BY <1>3, <2>3, <4>1
            <4> QED
                BY <2>3, <4>2
        <3> QED
            BY <1>7, <2>2, <2>5, <3>1
    <2> QED
        BY <2>4, <2>5
<1>10. \A i \in Nat : i \in T
    <2> HIDE DEF T
    <2> QED
        BY <1>8, <1>9, Induction
<1>11. ASSUME NEW j \in 1..n PROVE P(j)
    <2>1. j - 1 \in Nat /\ (j - 1) + 1 = j
        BY <1>2
    <2>2. j - 1 \in T
        BY <1>10, <2>1, Zenon
    <2> HIDE DEF P
    <2> QED
        BY <2>1, <2>2
<1> QED
    BY <1>11 DEF n

\* The numbers of the groups.
Groupings(v, ids) == {GroupOf(v, ids)[j] : j \in 1..Reached(v, ids)}

\* There are finitely many, and Ranges has one range for each, in order.
LEMMA GroupingsAre ==
    ASSUME NEW Blocks, NEW v, NEW ids, Query(v, ids, Blocks)
    PROVE  /\ Reached(v, ids) \in Nat
           /\ GroupOf(v, ids) \in [1..Reached(v, ids) -> Nat]
           /\ Groupings(v, ids) \in SUBSET Nat
           /\ IsFiniteSet(Groupings(v, ids))
<1> DEFINE n == Reached(v, ids)
           k == GroupOf(v, ids)
<1>1. n \in Nat /\ k \in [1..n -> Nat]
    <2>1. Len(ids) \in Nat
        BY DEF Query
    <2> QED
        BY <2>1, ReachedIs, GroupOfIs
<1>4. \A j \in 1..n : k[j] \in 1..j
    BY Groups DEF GroupFacts
<1> HIDE DEF n, k
<1>2. IsFiniteSet(1..n)
    BY <1>1, FS_Interval
<1>3. IsFiniteSet({k[j] : j \in 1..n})
    <2>1. {k[j] : j \in 1..n} \subseteq 1..n
        BY <1>1, <1>4
    <2> QED
        BY <1>2, <2>1, FS_Subset
<1> QED
    BY <1>1, <1>3 DEF Groupings, n, k

\* The range of a group whose last row is j.
LEMMA RangeOfGroup ==
    ASSUME NEW Blocks, NEW v, NEW ids, Query(v, ids, Blocks),
           NEW i \in 1..Cardinality(Groupings(v, ids)),
           NEW j \in 1..Reached(v, ids),
           GroupOf(v, ids)[j] = Ascending(Groupings(v, ids))[i],
           j < Reached(v, ids) => GroupOf(v, ids)[j + 1] # GroupOf(v, ids)[j]
    PROVE  Ranges(v, ids)[i] = [first |-> OffStart(v, ids, GroupOf(v, ids)[j]),
                                last  |-> OffEnd(v, ids, j)]
<1> DEFINE n == Reached(v, ids)
           k == GroupOf(v, ids)
           s(x) == OffStart(v, ids, x)
           e(x) == OffEnd(v, ids, x)
           groups == Ascending(Groupings(v, ids))
           g == k[j]
           members == {x \in 1..n : k[x] = g}
           starts == {s(x) : x \in members}
           ends   == {e(x) : x \in members}
<1>1. /\ n \in Nat /\ k \in [1..n -> Nat]
      /\ groups \in [1..Cardinality(Groupings(v, ids)) -> Groupings(v, ids)]
    BY GroupingsAre, AscendingLists
<1>2. Ranges(v, ids)[i] = [first |-> Min(starts), last |-> Max(ends)]
    <2>1. DOMAIN k = 1..n /\ i \in DOMAIN groups /\ groups[i] = g
        BY <1>1
    <2> HIDE DEF s, e, g
    <2>2. Ranges(v, ids) =
            LET Members(h) == {x \in 1..n : k[x] = h} IN
            [x \in DOMAIN groups |->
                [first |-> Min({s(y) : y \in Members(groups[x])}),
                 last  |-> Max({e(y) : y \in Members(groups[x])})]]
        BY <2>1 DEF Ranges, Groupings, s, e
    <2> HIDE DEF groups, n, k
    <2> QED
        BY <2>1, <2>2
<1> HIDE DEF n, k, s, e, groups
<1>3. \A x \in 1..n : s(x) \in Nat /\ e(x) \in Nat
    BY RowType DEF n, s, e
<1>4. \A x \in 1..n :
         /\ k[x] \in 1..x /\ k[k[x]] = k[x] /\ s(k[x]) <= s(x)
         /\ \A y \in 1..x : k[y] <= k[x] /\ (k[y] = k[x] => e(y) <= e(x))
    BY Groups DEF GroupFacts, n, k, s, e
<1>5. j \in 1..n /\ (j < n => k[j + 1] # k[j])
    BY DEF n, k
<1>6. g \in 1..n /\ k[g] = g
    BY <1>1, <1>4, <1>5
<1>7. ASSUME NEW x \in 1..n, k[x] = g PROVE x <= j
    <2> SUFFICES ASSUME j < x PROVE FALSE
        BY <1>1
    <2>1. j + 1 \in 1..x /\ j + 1 \in 1..n /\ j < n /\ j \in 1..(j + 1)
        BY <1>1, <1>5
    <2>2. k[j + 1] <= k[x] /\ k[j] <= k[j + 1]
        BY <1>4, <2>1
    <2> QED
        BY <1>1, <1>5, <1>7, <2>1, <2>2
<1>8. s(g) \in starts /\ \A a \in starts : s(g) <= a /\ a \in Nat
    BY <1>3, <1>4, <1>6
<1>9. e(j) \in ends /\ \A a \in ends : a <= e(j) /\ a \in Nat
    <2>1. e(j) \in ends
        BY <1>5
    <2>2. ASSUME NEW x \in members PROVE e(x) <= e(j) /\ e(x) \in Nat
        <3>1. x <= j /\ x \in 1..j
            BY <1>7, <1>5
        <3> QED
            BY <1>3, <1>4, <1>5, <3>1
    <2> QED
        BY <2>1, <2>2
<1> HIDE DEF starts, ends, members
<1>10. Min(starts) = s(g)
    <2>1. \A a \in starts : (\A b \in starts : a <= b) => a = s(g)
        BY <1>8
    <2> QED
        BY <1>8, <2>1 DEF Min
<1>11. Max(ends) = e(j)
    <2>1. \A a \in ends : (\A b \in ends : a >= b) => a = e(j)
        BY <1>9
    <2> QED
        BY <1>9, <2>1 DEF Max
<1> QED
    BY <1>2, <1>10, <1>11 DEF s, e, k

(***************************************************************************)
(* Reading                                                                 *)
(***************************************************************************)
\* The bytes of a file F from position a up to b.
Piece(F, a, b) == [i \in 1..(b - a) |-> F[a + i - 1]]

LEMMA PieceType ==
    ASSUME NEW V, NEW F \in [Nat -> V], NEW a \in Nat, NEW b \in Nat, a <= b
    PROVE  Piece(F, a, b) \in Seq(V) /\ Len(Piece(F, a, b)) = b - a
<1>1. b - a \in Nat /\ \A i \in 1..(b - a) : a + i - 1 \in Nat
    OBVIOUS
<1>2. Piece(F, a, b) \in [1..(b - a) -> V]
    BY <1>1 DEF Piece
<1> QED
    BY <1>1, <1>2

\* Two pieces that follow each other are one.
LEMMA PiecesJoin ==
    ASSUME NEW V, NEW F \in [Nat -> V],
           NEW a \in Nat, NEW b \in Nat, NEW c \in Nat, a <= b, b <= c
    PROVE  Piece(F, a, b) \o Piece(F, b, c) = Piece(F, a, c)
<1> DEFINE p == Piece(F, a, b)
           q == Piece(F, b, c)
           r == Piece(F, a, c)
<1>1. p \in Seq(V) /\ q \in Seq(V) /\ r \in Seq(V)
      /\ Len(p) = b - a /\ Len(q) = c - b /\ Len(r) = c - a
    BY PieceType
<1>2. /\ \A i \in 1..(b - a) : p[i] = F[a + i - 1]
      /\ \A i \in 1..(c - b) : q[i] = F[b + i - 1]
      /\ \A i \in 1..(c - a) : r[i] = F[a + i - 1]
    BY DEF Piece
<1> HIDE DEF p, q, r
<1>3. Len(p \o q) = Len(r) /\ p \o q \in Seq(V)
    <2>1. p \o q \in Seq(V) /\ Len(p \o q) = Len(p) + Len(q)
        BY <1>1, ConcatProperties
    <2>2. Len(p) + Len(q) = Len(r)
        BY <1>1
    <2> QED
        BY <2>1, <2>2
<1>4. ASSUME NEW i \in 1..Len(r) PROVE (p \o q)[i] = r[i]
    <2>1. CASE i <= b - a
        <3>1. (p \o q)[i] = p[i] /\ i \in 1..(b - a) /\ i \in 1..(c - a)
            BY <1>1, <2>1
        <3> QED
            BY <1>2, <3>1
    <2>2. CASE ~(i <= b - a)
        <3>1. i - (b - a) \in 1..(c - b) /\ i \in 1..(c - a)
              /\ b + (i - (b - a)) - 1 = a + i - 1
            BY <1>1, <2>2
        <3>2. (p \o q)[i] = q[i - (b - a)]
            <4>1. i \in 1..(Len(p) + Len(q)) /\ ~(i <= Len(p)) /\ i - Len(p) = i - (b - a)
                BY <1>1, <2>2
            <4>2. (p \o q)[i] = q[i - Len(p)]
                BY <1>1, <4>1, ConcatProperties, Zenon
            <4> QED
                BY <4>1, <4>2, Zenon
        <3>3. q[i - (b - a)] = F[b + (i - (b - a)) - 1]
            BY <1>2, <3>1
        <3> QED
            BY <1>2, <3>1, <3>2, <3>3
    <2> QED
        BY <2>1, <2>2
<1> HIDE DEF Piece
<1>5. p \o q = r
    BY <1>1, <1>3, <1>4, SeqEqual
<1> QED
    BY <1>5 DEF p, q, r

\* What a range is: from the start of a group to the end of its last row.
LEMMA RangeIs ==
    ASSUME NEW Blocks, NEW v, NEW ids, Query(v, ids, Blocks),
           NEW i \in 1..Cardinality(Groupings(v, ids))
    PROVE  /\ Ranges(v, ids)[i].first \in Nat /\ Ranges(v, ids)[i].last \in Nat
           /\ Ranges(v, ids)[i].first <= Ranges(v, ids)[i].last
           /\ \E j \in 1..Reached(v, ids) :
                 Ranges(v, ids)[i] = [first |-> OffStart(v, ids, GroupOf(v, ids)[j]),
                                      last  |-> OffEnd(v, ids, j)]
<1> DEFINE n == Reached(v, ids)
           k == GroupOf(v, ids)
           g == Ascending(Groupings(v, ids))[i]
           members == {j \in 1..n : k[j] = g}
<1>1. n \in Nat /\ k \in [1..n -> Nat]
    BY GroupingsAre
<1>2. g \in Groupings(v, ids)
    BY GroupingsAre, AscendingLists
<1> HIDE DEF g, n, k
<1>3. members # {} /\ members \in SUBSET Nat /\ \A x \in members : x <= n
    BY <1>1, <1>2 DEF Groupings, n, k
<1>4. PICK j \in members : \A x \in members : x <= j
    <2> HIDE DEF members
    <2> QED
        BY <1>1, <1>3, GreatestNat
<1>5. j \in 1..n /\ k[j] = g
    OBVIOUS
<1>6. j < n => k[j + 1] # g
    <2> SUFFICES ASSUME j < n, k[j + 1] = g PROVE FALSE
        OBVIOUS
    <2>1. j + 1 \in members
        BY <1>1, <1>5
    <2> QED
        BY <1>4, <1>5, <2>1
<1>7. Ranges(v, ids)[i] = [first |-> OffStart(v, ids, k[j]), last |-> OffEnd(v, ids, j)]
    BY <1>5, <1>6, RangeOfGroup DEF n, k, g
<1>8. k[j] \in 1..n /\ OffStart(v, ids, k[j]) <= OffStart(v, ids, j)
    BY <1>1, <1>5, Groups DEF GroupFacts, n, k
<1>9. /\ OffStart(v, ids, k[j]) \in Nat /\ OffStart(v, ids, j) \in Nat
      /\ OffEnd(v, ids, j) \in Nat /\ OffStart(v, ids, j) <= OffEnd(v, ids, j)
    BY <1>5, <1>8, RowType DEF n
<1>10. OffStart(v, ids, k[j]) <= OffEnd(v, ids, j)
    BY <1>8, <1>9
<1> QED
    BY <1>5, <1>7, <1>9, <1>10 DEF n, k

\* A range of blocks is not empty.
LEMMA RangesNotEmpty ==
    ASSUME NEW Blocks, NEW v, NEW ids, Query(v, ids, Blocks),
           \A b \in Blocks : Size[b] > 0,
           NEW i \in 1..Cardinality(Groupings(v, ids))
    PROVE  Ranges(v, ids)[i].first < Ranges(v, ids)[i].last
<1> DEFINE k == GroupOf(v, ids)
<1>1. PICK j \in 1..Reached(v, ids) :
          Ranges(v, ids)[i] = [first |-> OffStart(v, ids, k[j]), last |-> OffEnd(v, ids, j)]
    BY RangeIs
<1>2. k[j] \in 1..Reached(v, ids) /\ OffStart(v, ids, k[j]) <= OffStart(v, ids, j)
    BY GroupingsAre, Groups DEF GroupFacts
<1>3. OffStart(v, ids, k[j]) \in Nat /\ OffStart(v, ids, j) \in Nat
    BY <1>2, RowType
<1>4. OffStart(v, ids, j) < OffEnd(v, ids, j)
    <2>1. ids[j] \in Blocks /\ OffStart(v, ids, j) \in Nat
        BY RowType
    <2>2. Size[ids[j]] \in Nat /\ Size[ids[j]] > 0
        BY <2>1 DEF Query
    <2> QED
        BY <2>1, <2>2 DEF OffStart, OffEnd
<1>5. OffEnd(v, ids, j) \in Nat
    BY RowType
<1> HIDE DEF k
<1> QED
    BY <1>1, <1>2, <1>3, <1>4, <1>5

\* What list() may return.
RangeSet == {r \in [first : Nat, last : Nat] : r.first <= r.last}

\* The pieces of F that are listed, and those that are read.
RowPieces(F, v, ids) ==
    [j \in 1..Reached(v, ids) |-> Piece(F, OffStart(v, ids, j), OffEnd(v, ids, j))]
RangePieces(F, v, ids) ==
    [i \in 1..Len(Ranges(v, ids)) |->
        Piece(F, Ranges(v, ids)[i].first, Ranges(v, ids)[i].last)]

LEMMA PiecesType ==
    ASSUME NEW Blocks, NEW v, NEW ids, Query(v, ids, Blocks),
           NEW V, NEW F \in [Nat -> V]
    PROVE  /\ RowPieces(F, v, ids) \in Seq(Seq(V))
           /\ Len(RowPieces(F, v, ids)) = Reached(v, ids)
           /\ RangePieces(F, v, ids) \in Seq(Seq(V))
           /\ Len(RangePieces(F, v, ids)) = Cardinality(Groupings(v, ids))
           /\ Len(Ranges(v, ids)) = Cardinality(Groupings(v, ids))
           /\ Ranges(v, ids) \in Seq(RangeSet)
<1> DEFINE n == Reached(v, ids)
           m == Cardinality(Groupings(v, ids))
           R == Ranges(v, ids)
           row(j) == Piece(F, OffStart(v, ids, j), OffEnd(v, ids, j))
           range(i) == Piece(F, R[i].first, R[i].last)
<1>1. n \in Nat /\ m \in Nat
    BY GroupingsAre, AscendingLists
<1>2. \A j \in 1..n : row(j) \in Seq(V)
    BY RowType, PieceType
<1>3. \A i \in 1..m : R[i].first \in Nat /\ R[i].last \in Nat /\ R[i].first <= R[i].last
    BY RangeIs
<1>4. \A i \in 1..m : range(i) \in Seq(V)
    <2> HIDE DEF R
    <2> QED
        BY <1>3, PieceType
<1>5. ASSUME NEW i \in 1..m PROVE R[i] \in RangeSet
    <2>1. PICK j \in 1..n : R[i] = [first |-> OffStart(v, ids, GroupOf(v, ids)[j]),
                                    last  |-> OffEnd(v, ids, j)]
        BY RangeIs
    <2> DEFINE a == OffStart(v, ids, GroupOf(v, ids)[j])
               b == OffEnd(v, ids, j)
    <2>2. R[i] = [first |-> a, last |-> b]
        BY <2>1
    <2> HIDE DEF R, a, b
    <2>3. a \in Nat /\ b \in Nat /\ a <= b
        BY <1>3, <2>2
    <2> QED
        BY <2>2, <2>3 DEF RangeSet
<1>6. DOMAIN R = 1..m /\ R = [i \in 1..m |-> R[i]]
    <2>1. DOMAIN Ascending(Groupings(v, ids)) = 1..m
        BY GroupingsAre, AscendingLists
    <2>2. DOMAIN GroupOf(v, ids) = 1..n
        BY GroupingsAre
    <2>3. Groupings(v, ids) = {GroupOf(v, ids)[j] : j \in DOMAIN GroupOf(v, ids)}
        BY <2>2 DEF Groupings
    <2> QED
        BY <2>1, <2>3 DEF Ranges
<1> HIDE DEF n, m, R, row, range
<1>7. R \in Seq(RangeSet) /\ Len(R) = m
    <2>1. R \in [1..m -> RangeSet]
        BY <1>5, <1>6
    <2> QED
        BY <1>1, <2>1
<1>8. [j \in 1..n |-> row(j)] \in Seq(Seq(V)) /\ Len([j \in 1..n |-> row(j)]) = n
    BY <1>1, <1>2
<1>9. [i \in 1..m |-> range(i)] \in Seq(Seq(V)) /\ Len([i \in 1..m |-> range(i)]) = m
    BY <1>1, <1>4
<1>10. RowPieces(F, v, ids) = [j \in 1..n |-> row(j)]
    BY DEF RowPieces, n, row
<1>11. RangePieces(F, v, ids) = [i \in 1..m |-> range(i)]
    BY <1>7 DEF RangePieces, range, R
<1> QED
    BY <1>7, <1>8, <1>9, <1>10, <1>11 DEF n, m, R

\* Where the group after the one of row j starts, and which group is the last.
LEMMA GroupNext ==
    ASSUME NEW Blocks, NEW v, NEW ids, Query(v, ids, Blocks),
           NEW j \in 1..Reached(v, ids),
           NEW i \in 1..Cardinality(Groupings(v, ids)),
           GroupOf(v, ids)[j] = Ascending(Groupings(v, ids))[i],
           j < Reached(v, ids) => GroupOf(v, ids)[j + 1] = j + 1
    PROVE  IF j = Reached(v, ids)
           THEN i = Cardinality(Groupings(v, ids))
           ELSE /\ i + 1 \in 1..Cardinality(Groupings(v, ids))
                /\ Ascending(Groupings(v, ids))[i + 1] = j + 1
<1> DEFINE n == Reached(v, ids)
           k == GroupOf(v, ids)
           S == Groupings(v, ids)
           m == Cardinality(S)
           G == Ascending(S)
<1>1. n \in Nat /\ k \in [1..n -> Nat] /\ S \in SUBSET Nat /\ IsFiniteSet(S)
    BY GroupingsAre
<1>2. m \in Nat /\ G \in [1..m -> S] /\ Increasing(G, m)
      /\ \A x \in S : \E y \in 1..m : G[y] = x
    BY <1>1, AscendingLists
<1>3. \A x \in 1..n : k[x] \in 1..x /\ \A y \in 1..x : k[y] <= k[x]
    BY Groups DEF GroupFacts
<1>4. S = {k[x] : x \in 1..n}
    BY DEF Groupings
<1>5. j \in 1..n /\ i \in 1..m /\ k[j] = G[i] /\ (j < n => k[j + 1] = j + 1)
    OBVIOUS
<1> HIDE DEF n, k, G, m, S
<1>6. \A x \in 1..m : G[x] \in Nat /\ \E y \in 1..n : G[x] = k[y]
    BY <1>1, <1>2, <1>4
<1>7. CASE j = n
    <2> SUFFICES ASSUME i # m PROVE FALSE
        BY <1>7 DEF n, m, S
    <2>1. i + 1 \in 1..m /\ i < i + 1
        BY <1>2, <1>5
    <2>2. G[i] < G[i + 1]
        BY <1>2, <1>5, <2>1 DEF Increasing
    <2>3. PICK y \in 1..n : G[i + 1] = k[y]
        BY <1>6, <2>1
    <2>4. k[y] <= k[n] /\ k[n] = G[i]
        BY <1>3, <1>5, <1>7
    <2> QED
        BY <1>6, <1>5, <2>1, <2>2, <2>3, <2>4
<1>8. CASE j # n
    <2>1. j + 1 \in 1..n /\ k[j + 1] = j + 1 /\ j < n
        BY <1>1, <1>5, <1>8
    <2>2. j + 1 \in S
        BY <1>4, <2>1
    <2>3. PICK y \in 1..m : G[y] = j + 1
        BY <1>2, <2>2
    <2>4. G[i] < G[y]
        BY <1>3, <1>5, <2>3
    <2>5. i < y
        <3>1. i = y \/ y < i \/ i < y
            BY <1>5
        <3>2. ~(y < i)
            BY <1>2, <1>5, <1>6, <2>4 DEF Increasing
        <3> QED
            BY <1>6, <1>5, <2>4, <3>1, <3>2
    <2>6. i + 1 \in 1..m /\ i < i + 1
        BY <1>2, <1>5, <2>5
    <2>7. y = i + 1
        <3> SUFFICES ASSUME i + 1 < y PROVE FALSE
            BY <2>5, <1>5
        <3>1. G[i] < G[i + 1] /\ G[i + 1] < G[y]
            BY <1>2, <1>5, <2>6 DEF Increasing
        <3>2. PICK x \in 1..n : G[i + 1] = k[x]
            BY <1>6, <2>6
        <3>3. CASE x <= j
            <4>1. k[x] <= k[j]
                BY <1>3, <1>5, <3>3
            <4> QED
                BY <1>1, <1>5, <3>1, <3>2, <4>1
        <3>4. CASE j + 1 <= x
            <4>1. k[j + 1] <= k[x]
                BY <1>3, <1>5, <2>1, <3>4
            <4> QED
                BY <1>1, <2>1, <2>3, <3>1, <3>2, <4>1
        <3> QED
            BY <1>5, <3>3, <3>4
    <2> QED
        BY <1>8, <2>3, <2>6, <2>7 DEF n, m, G, S
<1> QED
    BY <1>7, <1>8

\* To read the ranges one after the other is to read the rows one after the
\* other: the query neither loses, repeats nor reorders a byte.
THEOREM RangesRead ==
    ASSUME NEW Blocks, NEW v, NEW ids, Query(v, ids, Blocks),
           NEW V, NEW F \in [Nat -> V]
    PROVE  FlattenSeq(RangePieces(F, v, ids)) = FlattenSeq(RowPieces(F, v, ids))
<1> DEFINE n == Reached(v, ids)
           k == GroupOf(v, ids)
           m == Cardinality(Groupings(v, ids))
           G == Ascending(Groupings(v, ids))
           s(j) == OffStart(v, ids, j)
           e(j) == OffEnd(v, ids, j)
           rows == RowPieces(F, v, ids)
           ranges == RangePieces(F, v, ids)
           Rows(j) == FlattenSeq(SubSeq(rows, 1, j))
           Read(i) == FlattenSeq(SubSeq(ranges, 1, i))
           P(j) == \A i \in 1..m : k[j] = G[i] =>
                      Rows(j) = Read(i - 1) \o Piece(F, s(G[i]), e(j))
           T == {j \in Nat : j + 1 \in 1..n => P(j + 1)}
<1>1. /\ n \in Nat /\ k \in [1..n -> Nat] /\ m \in Nat
      /\ G \in [1..m -> Groupings(v, ids)] /\ Increasing(G, m)
      /\ \A j \in 1..n : \E i \in 1..m : G[i] = k[j]
    <2>1. /\ n \in Nat /\ k \in [1..n -> Nat]
          /\ Groupings(v, ids) \in SUBSET Nat /\ IsFiniteSet(Groupings(v, ids))
        BY GroupingsAre
    <2>2. \A j \in 1..n : k[j] \in Groupings(v, ids)
        BY DEF Groupings
    <2> HIDE DEF n, k
    <2> QED
        BY <2>1, <2>2, AscendingLists
<1>2. \A i \in 1..m : \E j \in 1..n : G[i] = k[j]
    BY <1>1 DEF Groupings
<1>3. \A j \in 1..n : s(j) \in Nat /\ e(j) \in Nat /\ s(j) <= e(j)
    BY RowType
<1>4. /\ rows \in Seq(Seq(V)) /\ Len(rows) = n
      /\ ranges \in Seq(Seq(V)) /\ Len(ranges) = m
    BY PiecesType
<1>5. \A j \in 1..n : rows[j] = Piece(F, s(j), e(j))
    BY DEF RowPieces
<1>6. \A j \in 1..n : k[j] = IF Follows(v, ids, j) THEN k[j - 1] ELSE j
    <2>1. Len(ids) \in Nat
        BY DEF Query
    <2> QED
        BY <2>1, GroupOfIs
<1>7. \A j \in 1..n :
         /\ k[j] \in 1..j /\ s(k[j]) <= s(j)
         /\ \A i \in 1..j : k[i] <= k[j] /\ (k[i] = k[j] => e(i) <= e(j))
    BY Groups DEF GroupFacts
<1>8. \A j \in 1..n : \A i \in 1..m :
         k[j] = G[i] /\ (j < n => k[j + 1] = j + 1) =>
            /\ ranges[i] = Piece(F, s(G[i]), e(j))
            /\ IF j = n THEN i = m ELSE i + 1 \in 1..m /\ G[i + 1] = j + 1
    <2> TAKE j \in 1..n
    <2> TAKE i \in 1..m
    <2> HAVE k[j] = G[i] /\ (j < n => k[j + 1] = j + 1)
    <2>1. j < n => k[j + 1] # k[j]
        <3>1. k[j] <= j /\ j + 1 # j
            BY <1>1, <1>7
        <3> HIDE DEF k, n
        <3> QED
            BY <1>1, <3>1
    <2>2. Ranges(v, ids)[i] = [first |-> s(k[j]), last |-> e(j)]
        BY <2>1, RangeOfGroup
    <2>3. ranges[i] = Piece(F, Ranges(v, ids)[i].first, Ranges(v, ids)[i].last)
        BY PiecesType DEF RangePieces
    <2>4. ranges[i] = Piece(F, s(k[j]), e(j))
        BY <2>2, <2>3
    <2>5. IF j = n THEN i = m ELSE i + 1 \in 1..m /\ G[i + 1] = j + 1
        BY GroupNext
    <2> HIDE DEF k, G, s, e, n, m
    <2> QED
        BY <2>4, <2>5
<1>9. /\ \A j \in 1..n : Rows(j) = Rows(j - 1) \o rows[j] /\ rows[j] \in Seq(V)
      /\ \A i \in 1..m : Read(i) = Read(i - 1) \o ranges[i] /\ ranges[i] \in Seq(V)
      /\ \A j \in 0..n : Rows(j) \in Seq(V)
      /\ \A i \in 0..m : Read(i) \in Seq(V)
    <2> HIDE DEF rows, ranges, n, m
    <2>1. /\ \A j \in 1..n : Rows(j) = Rows(j - 1) \o rows[j] /\ rows[j] \in Seq(V)
          /\ \A i \in 1..m : Read(i) = Read(i - 1) \o ranges[i] /\ ranges[i] \in Seq(V)
        <3>1. ASSUME NEW j \in 1..n
              PROVE  Rows(j) = Rows(j - 1) \o rows[j] /\ rows[j] \in Seq(V)
            <4>1. j \in 1..Len(rows) /\ rows[j] \in Seq(V)
                BY <1>4
            <4> QED
                BY <1>4, <4>1, FlattenUpTo
        <3>2. ASSUME NEW i \in 1..m
              PROVE  Read(i) = Read(i - 1) \o ranges[i] /\ ranges[i] \in Seq(V)
            <4>1. i \in 1..Len(ranges) /\ ranges[i] \in Seq(V)
                BY <1>4
            <4> QED
                BY <1>4, <4>1, FlattenUpTo
        <3> QED
            BY <3>1, <3>2
    <2>2. /\ \A j \in 0..n : SubSeq(rows, 1, j) \in Seq(Seq(V))
          /\ \A i \in 0..m : SubSeq(ranges, 1, i) \in Seq(Seq(V))
        BY <1>1, <1>4
    <2> QED
        BY <2>1, <2>2, FlattenType
<1>10. Rows(0) = << >> /\ Rows(n) = FlattenSeq(rows)
       /\ Read(0) = << >> /\ Read(m) = FlattenSeq(ranges)
    <2>1. Rows(0) = << >> /\ Read(0) = << >>
        <3> HIDE DEF rows, ranges
        <3>1. SubSeq(rows, 1, 0) = << >> /\ SubSeq(ranges, 1, 0) = << >>
            BY <1>4
        <3> QED
            BY <3>1, FlattenEmpty
    <2>2. SubSeq(rows, 1, n) = rows /\ SubSeq(ranges, 1, m) = ranges
        <3> HIDE DEF rows, ranges, n, m
        <3> QED
            BY <1>4
    <2> QED
        BY <2>1, <2>2
\* A row that starts a group, once all groups before it are read.
<1>11. ASSUME NEW j \in 1..n, k[j] = j, NEW i \in 1..m, k[j] = G[i],
              Rows(j - 1) = Read(i - 1)
       PROVE  Rows(j) = Read(i - 1) \o Piece(F, s(G[i]), e(j))
    <2> HIDE DEF Rows, Read, rows, ranges, k, G, s, e, n, m
    <2> QED
        BY <1>5, <1>9, <1>11
<1>12. \A i \in 1..m, l \in 1..m : G[i] = G[l] => i = l
    <2> SUFFICES ASSUME NEW i \in 1..m, NEW l \in 1..m, G[i] = G[l], i < l
                 PROVE  FALSE
        BY <1>1
    <2>1. G[i] < G[l]
        BY <1>1 DEF Increasing
    <2>2. G[i] \in Nat /\ G[l] \in Nat
        <3>1. \A x \in 1..n : k[x] \in Nat
            BY <1>1
        <3> QED
            BY <1>2, <3>1
    <2> HIDE DEF G
    <2> QED
        BY <2>1, <2>2
<1> HIDE DEF Rows, Read, rows, ranges, k, G, s, e, n, m
<1>13. 0 \in T
    <2> SUFFICES ASSUME 1 \in 1..n, NEW i \in 1..m, k[1] = G[i]
                 PROVE  Rows(1) = Read(i - 1) \o Piece(F, s(G[i]), e(1))
        OBVIOUS
    <2>1. k[1] = 1
        BY <1>7
    <2>2. i = 1
        <3> SUFFICES ASSUME 1 < i PROVE FALSE
            OBVIOUS
        <3>1. 1 \in 1..m /\ G[1] < G[i]
            BY <1>1 DEF Increasing
        <3>2. PICK j \in 1..n : G[1] = k[j]
            BY <1>2, <3>1
        <3>3. k[j] \in 1..j
            BY <1>7
        <3> QED
            BY <2>1, <3>1, <3>2, <3>3
    <2>3. 1 - 1 = 0
        OBVIOUS
    <2>4. Rows(1 - 1) = Read(i - 1)
        BY <1>10, <2>2, <2>3
    <2> QED
        BY <1>11, <2>1, <2>4
<1>14. ASSUME NEW x \in Nat, x \in T PROVE x + 1 \in T
    <2> SUFFICES ASSUME x + 2 \in 1..n PROVE P(x + 2)
        BY <1>14
    <2> DEFINE j == x + 1
    <2>1. j \in 1..n /\ j + 1 = x + 2 /\ j + 1 \in 1..n /\ (j + 1) - 1 = j /\ j < n
        BY <1>1
    <2>2. P(j)
        BY <1>14, <2>1
    <2> HIDE DEF j, T
    <2> SUFFICES ASSUME NEW i \in 1..m, k[j + 1] = G[i]
                 PROVE  Rows(j + 1) = Read(i - 1) \o Piece(F, s(G[i]), e(j + 1))
        BY <2>1
    <2>3. Rows(j + 1) = Rows(j) \o rows[j + 1]
        BY <1>9, <2>1
    <2>4. CASE Follows(v, ids, j + 1)
        <3>1. k[j] = G[i] /\ e(j) = s(j + 1)
            BY <1>6, <2>1, <2>4 DEF Follows, e, s
        <3>2. Rows(j) = Read(i - 1) \o Piece(F, s(G[i]), e(j))
            BY <2>2, <3>1
        <3>3. rows[j + 1] = Piece(F, e(j), e(j + 1))
            BY <1>5, <2>1, <3>1
        <3>4. k[j] \in 1..n /\ s(k[j]) <= s(j)
            BY <1>1, <1>7, <2>1
        <3>5. /\ s(k[j]) \in Nat /\ s(j) \in Nat /\ e(j) \in Nat /\ e(j + 1) \in Nat
              /\ s(j) <= e(j) /\ s(j + 1) <= e(j + 1)
            BY <1>3, <2>1, <3>4
        <3>6. s(G[i]) \in Nat /\ s(G[i]) <= e(j) /\ e(j) <= e(j + 1)
            BY <3>1, <3>4, <3>5
        <3>7. /\ Piece(F, s(G[i]), e(j)) \o Piece(F, e(j), e(j + 1))
                    = Piece(F, s(G[i]), e(j + 1))
              /\ Piece(F, s(G[i]), e(j)) \in Seq(V) /\ Piece(F, e(j), e(j + 1)) \in Seq(V)
            BY ZenonT(60), <3>5, <3>6, PiecesJoin, PieceType
        <3>8. i - 1 \in 0..m
            BY <1>1
        <3>9. Read(i - 1) \in Seq(V)
            BY <1>9, <3>8
        <3>10. (Read(i - 1) \o Piece(F, s(G[i]), e(j))) \o Piece(F, e(j), e(j + 1))
                 = Read(i - 1) \o (Piece(F, s(G[i]), e(j)) \o Piece(F, e(j), e(j + 1)))
            <4> DEFINE a == Read(i - 1)
                       b == Piece(F, s(G[i]), e(j))
                       c == Piece(F, e(j), e(j + 1))
            <4>1. a \in Seq(V) /\ b \in Seq(V) /\ c \in Seq(V)
                BY <3>7, <3>9
            <4> HIDE DEF a, b, c
            <4>2. (a \o b) \o c = a \o (b \o c)
                BY SMTT(40), <4>1, ConcatAssociative
            <4> QED
                BY <4>2 DEF a, b, c
        <3> QED
            BY <2>3, <3>2, <3>3, <3>7, <3>10, Zenon
    <2>5. CASE ~Follows(v, ids, j + 1)
        <3>1. k[j + 1] = j + 1
            BY <1>6, <2>1, <2>5
        <3>2. PICK l \in 1..m : G[l] = k[j]
            BY <1>1, <2>1
        <3>3. ranges[l] = Piece(F, s(G[l]), e(j)) /\ l + 1 \in 1..m /\ G[l + 1] = j + 1
            BY <1>8, <2>1, <3>1, <3>2
        <3>4. Rows(j) = Read(l - 1) \o ranges[l]
            BY <2>2, <3>2, <3>3
        <3>5. Rows(j) = Read(l)
            <4>1. Read(l) = Read(l - 1) \o ranges[l]
                BY <1>9
            <4> QED
                BY <3>4, <4>1, Zenon
        <3>6. i = l + 1 /\ i - 1 = l
            <4>1. G[i] = G[l + 1]
                BY <3>1, <3>3
            <4>2. i = l + 1
                BY <1>12, <3>3, <4>1, Zenon
            <4> QED
                BY <1>1, <4>2
        <3>7. Rows((j + 1) - 1) = Read(i - 1)
            BY <2>1, <3>5, <3>6
        <3> QED
            BY <1>11, <2>1, <3>1, <3>7
    <2> QED
        BY <2>4, <2>5
<1>15. \A j \in Nat : j \in T
    <2> HIDE DEF T
    <2> QED
        BY <1>13, <1>14, Induction
<1>16. CASE n = 0
    <2>1. m = 0
        BY <1>1, <1>2, <1>16
    <2> QED
        BY <1>10, <1>16, <2>1 DEF rows, ranges
<1>17. CASE n # 0
    <2>1. n - 1 \in Nat /\ (n - 1) + 1 = n /\ n \in 1..n
        BY <1>1, <1>17
    <2>2. n - 1 \in T
        BY <1>15, <2>1, Zenon
    <2>3. P(n)
        BY <2>1, <2>2
    <2>4. PICK i \in 1..m : G[i] = k[n]
        BY <1>1, <2>1
    <2>5. ranges[i] = Piece(F, s(G[i]), e(n)) /\ i = m
        BY <1>1, <1>8, <2>1, <2>4
    <2>6. Rows(n) = Read(m - 1) \o ranges[m]
        BY <2>3, <2>4, <2>5
    <2>7. Rows(n) = Read(m)
        BY <1>9, <2>5, <2>6
    <2> QED
        BY <1>10, <2>7 DEF rows, ranges
<1> QED
    BY <1>16, <1>17
==============================================================================

----------------------------- MODULE SequenceLemmas -----------------------------
(***************************************************************************)
(* Lemmas that the other proofs share: induction over the natural numbers  *)
(* as a fact about sets, which the provers can instantiate, and from it    *)
(* what FlattenSeq, which is recursive, and Ascending, which is a CHOOSE,  *)
(* return.                                                                 *)
(***************************************************************************)
EXTENDS Integers, Sequences, FiniteSets, SequencesExt, OrderBy,
        TLAPS, FiniteSetTheorems, SequenceTheorems, WellFoundedInduction

(***************************************************************************)
(* Induction                                                               *)
(***************************************************************************)
\* Every nonempty set of natural numbers has a least element.
LEMMA LeastNat ==
    ASSUME NEW T \in SUBSET Nat, T # {}
    PROVE  \E n \in T : \A m \in T : n <= m
<1>1. PICK n \in T : \A m \in T : <<m, n>> \notin OpToRel(<, Nat)
    BY NatLessThanWellFounded, WFMin
<1>2. \A m \in T : ~(m < n)
    BY <1>1 DEF OpToRel
<1> QED
    BY <1>2

\* A set that has 0 and the successor of each of its numbers has them all.
LEMMA Induction ==
    ASSUME NEW T, 0 \in T, \A n \in Nat : n \in T => n + 1 \in T
    PROVE  \A n \in Nat : n \in T
<1> SUFFICES ASSUME Nat \ T # {} PROVE FALSE
    OBVIOUS
<1>1. PICK n \in Nat \ T : \A m \in Nat \ T : n <= m
    BY LeastNat
<1>2. n # 0 /\ n - 1 \in Nat /\ n - 1 \notin Nat \ T
    BY <1>1
<1> QED
    BY <1>2

\* Concatenation, under names that hide from the provers what else they know
\* of sequences: several of them in a row are too much for them.
Lists(S)  == Seq(S)
Cat(x, y) == x \o y

LEMMA CatLaws ==
    ASSUME NEW S, NEW x \in Lists(S), NEW y \in Lists(S), NEW z \in Lists(S)
    PROVE  /\ Cat(x, y) \in Lists(S)
           /\ Cat(Cat(x, y), z) = Cat(x, Cat(y, z))
           /\ Cat(x, << >>) = x /\ Cat(<< >>, x) = x
<1> USE DEF Lists, Cat
<1>1. Cat(x, y) \in Lists(S)
    BY ConcatProperties
<1>2. Cat(Cat(x, y), z) = Cat(x, Cat(y, z))
    BY ConcatAssociative
<1>3. Cat(x, << >>) = x /\ Cat(<< >>, x) = x
    BY ConcatEmptySeq
<1> QED
    BY <1>1, <1>2, <1>3

\* What may be moved from one part of a stream to the next.
LEMMA ConcatLaws ==
    ASSUME NEW S, NEW t \in Seq(S), NEW b \in Seq(S), NEW r \in Seq(S),
           NEW c \in Seq(S), NEW q \in Seq(S)
    PROVE  /\ t \o b \in Seq(S) /\ b \o (r \o q) \in Seq(S)
           /\ t \o << >> = t /\ << >> \o t = t
           /\ ((t \o (b \o r)) \o c) \o q = ((t \o b) \o (r \o c)) \o q
           /\ ((t \o b) \o r) \o q = t \o (b \o (r \o q))
           /\ (t \o b) \o (r \o q) = ((t \o b) \o r) \o q
<1>1. t \in Lists(S) /\ b \in Lists(S) /\ r \in Lists(S) /\ c \in Lists(S) /\ q \in Lists(S)
    BY DEF Lists
<1>2. Cat(t, b) \in Lists(S) /\ Cat(r, q) \in Lists(S) /\ Cat(b, Cat(r, q)) \in Lists(S)
    BY <1>1, CatLaws
<1>3. Cat(t, << >>) = t /\ Cat(<< >>, t) = t
    BY <1>1, CatLaws
<1>4. Cat(Cat(Cat(t, Cat(b, r)), c), q) = Cat(Cat(Cat(t, b), Cat(r, c)), q)
    BY <1>1, <1>2, CatLaws
<1>5. Cat(Cat(Cat(t, b), r), q) = Cat(t, Cat(b, Cat(r, q)))
    BY <1>1, <1>2, CatLaws
<1>6. Cat(Cat(t, b), Cat(r, q)) = Cat(Cat(Cat(t, b), r), q)
    BY <1>1, <1>2, CatLaws
<1> QED
    BY <1>2, <1>3, <1>4, <1>5, <1>6, Zenon DEF Cat, Lists

\* A sequence is its first n elements and the others.
LEMMA SplitSeq ==
    ASSUME NEW S, NEW x \in Seq(S), NEW n \in 0..Len(x)
    PROVE  /\ SubSeq(x, 1, n) \in Seq(S) /\ SubSeq(x, n + 1, Len(x)) \in Seq(S)
           /\ x = SubSeq(x, 1, n) \o SubSeq(x, n + 1, Len(x))
<1> DEFINE a == SubSeq(x, 1, n)
           z == SubSeq(x, n + 1, Len(x))
<1>1. /\ a \in Seq(S) /\ Len(a) = n /\ \A i \in 1..n : a[i] = x[i]
      /\ Len(x) \in Nat
    OBVIOUS
<1>2. /\ z \in Seq(S) /\ Len(z) = Len(x) - n
      /\ \A i \in 1..(Len(x) - n) : z[i] = x[n + i]
    OBVIOUS
<1> HIDE DEF a, z
<1>3. a \o z \in Seq(S) /\ Len(a \o z) = Len(x)
    BY <1>1, <1>2, ConcatProperties
<1>4. ASSUME NEW i \in 1..Len(x) PROVE (a \o z)[i] = x[i]
    <2>1. CASE i <= n
        BY <1>1, <1>2, <2>1
    <2>2. CASE ~(i <= n)
        <3>1. i - n \in 1..(Len(x) - n) /\ n + (i - n) = i
            BY <1>1, <2>2
        <3>2. (a \o z)[i] = z[i - n]
            BY <1>1, <1>2, <2>2
        <3> QED
            BY <1>2, <3>1, <3>2
    <2> QED
        BY <2>1, <2>2
<1>5. a \o z = x
    BY <1>3, <1>4, SeqEqual
<1> QED
    BY <1>1, <1>2, <1>5 DEF a, z

(***************************************************************************)
(* FlattenSeq                                                              *)
(***************************************************************************)
\* f is the recursive function inside FlattenSeq(s).
Flattens(f, s) ==
    f = [i \in 1..Len(s) |-> IF i = 1 THEN s[i] ELSE f[i - 1] \o s[i]]

\* There is such a function, and it yields sequences.
LEMMA FlattensExists ==
    ASSUME NEW S
    PROVE  \A s \in Seq(Seq(S)) :
              \E f : Flattens(f, s) /\ \A i \in 1..Len(s) : f[i] \in Seq(S)
<1> DEFINE P(n) == \A s \in Seq(Seq(S)) : Len(s) = n =>
               \E f : Flattens(f, s) /\ \A i \in 1..Len(s) : f[i] \in Seq(S)
           T == {n \in Nat : P(n)}
<1>1. P(0)
    <2> SUFFICES ASSUME NEW s \in Seq(Seq(S)), Len(s) = 0
                 PROVE  \E f : Flattens(f, s) /\ \A i \in 1..Len(s) : f[i] \in Seq(S)
        OBVIOUS
    <2> DEFINE f == [i \in {} |-> << >>]
    <2>1. Flattens(f, s)
        BY DEF Flattens
    <2> QED
        BY <2>1
<1>2. ASSUME NEW n \in Nat, P(n) PROVE P(n + 1)
    <2> SUFFICES ASSUME NEW s \in Seq(Seq(S)), Len(s) = n + 1
                 PROVE  \E f : Flattens(f, s) /\ \A i \in 1..Len(s) : f[i] \in Seq(S)
        OBVIOUS
    <2> DEFINE t == SubSeq(s, 1, n)
    <2>1. t \in Seq(Seq(S)) /\ Len(t) = n /\ \A i \in 1..n : t[i] = s[i]
        OBVIOUS
    <2>2. PICK g : Flattens(g, t) /\ \A i \in 1..n : g[i] \in Seq(S)
        BY <1>2, <2>1
    <2> DEFINE last == IF n = 0 THEN s[1] ELSE g[n] \o s[n + 1]
               f    == [i \in 1..(n + 1) |-> IF i = n + 1 THEN last ELSE g[i]]
    <2>3. last \in Seq(S)
        BY <2>2
    <2>4. \A i \in 1..(n + 1) : f[i] \in Seq(S)
        BY <2>2, <2>3
    <2>5. \A i \in 1..n : g[i] = IF i = 1 THEN s[i] ELSE g[i - 1] \o s[i]
        BY <2>1, <2>2 DEF Flattens
    <2> HIDE DEF t
    <2>6. ASSUME NEW i \in 1..(n + 1)
          PROVE  f[i] = IF i = 1 THEN s[i] ELSE f[i - 1] \o s[i]
        <3>1. CASE i = n + 1
            BY <3>1
        <3>2. CASE i # n + 1
            BY <2>5, <3>2
        <3> QED
            BY <3>1, <3>2
    <2>7. Flattens(f, s)
        BY ZenonT(60), <2>6 DEF Flattens
    <2> QED
        BY <2>4, <2>7
<1> HIDE DEF P
<1>3. 0 \in T /\ \A n \in Nat : n \in T => n + 1 \in T
    BY <1>1, <1>2
<1>4. \A n \in Nat : n \in T
    <2> HIDE DEF T
    <2> QED
        BY <1>3, Induction
<1>5. ASSUME NEW s \in Seq(Seq(S))
      PROVE  Len(s) \in Nat /\ P(Len(s))
    BY <1>4
<1> QED
    BY <1>5 DEF P

\* FlattenSeq returns the last value of any such function.
LEMMA FlattenIsLast ==
    ASSUME NEW S, NEW s \in Seq(Seq(S)), s # << >>, NEW f, Flattens(f, s)
    PROVE  FlattenSeq(s) = f[Len(s)]
<1> DEFINE g == CHOOSE g : Flattens(g, s)
<1>1. Flattens(g, s)
    OBVIOUS
<1>2. FlattenSeq(s) = g[Len(s)]
    BY DEF FlattenSeq, Flattens
<1> HIDE DEF g
<1> DEFINE T == {n \in Nat : n + 1 \in 1..Len(s) => f[n + 1] = g[n + 1]}
<1>3. Len(s) \in Nat \ {0}
    BY EmptySeq
<1>4. \A i \in 1..Len(s) :
         /\ f[i] = IF i = 1 THEN s[i] ELSE f[i - 1] \o s[i]
         /\ g[i] = IF i = 1 THEN s[i] ELSE g[i - 1] \o s[i]
    BY <1>1 DEF Flattens
<1>5. 0 \in T
    BY <1>4
<1>6. ASSUME NEW n \in Nat, n \in T PROVE n + 1 \in T
    <2> SUFFICES ASSUME n + 2 \in 1..Len(s) PROVE f[n + 2] = g[n + 2]
        OBVIOUS
    <2>1. f[n + 1] = g[n + 1]
        BY <1>6, <1>3
    <2>2. f[n + 2] = f[n + 1] \o s[n + 2] /\ g[n + 2] = g[n + 1] \o s[n + 2]
        <3>1. n + 2 # 1 /\ (n + 2) - 1 = n + 1
            OBVIOUS
        <3> QED
            BY <1>4, <3>1
    <2> QED
        BY <2>1, <2>2
<1>7. \A n \in Nat : n \in T
    <2> HIDE DEF T
    <2> QED
        BY <1>5, <1>6, Induction
<1>8. f[Len(s)] = g[Len(s)]
    <2>1. Len(s) - 1 \in Nat /\ (Len(s) - 1) + 1 = Len(s)
        BY <1>3
    <2>2. Len(s) - 1 \in T
        BY <1>7, <2>1, Zenon
    <2> QED
        BY <1>3, <2>1, <2>2
<1> QED
    BY <1>2, <1>8

\* Nothing to concatenate.
LEMMA FlattenEmpty == FlattenSeq(<< >>) = << >>
BY DEF FlattenSeq

\* A concatenation of sequences over S is one.
LEMMA FlattenType ==
    ASSUME NEW S, NEW s \in Seq(Seq(S))
    PROVE  FlattenSeq(s) \in Seq(S)
<1>1. CASE s = << >>
    BY <1>1, FlattenEmpty, EmptySeq
<1>2. CASE s # << >>
    <2>1. PICK f : Flattens(f, s) /\ \A i \in 1..Len(s) : f[i] \in Seq(S)
        BY FlattensExists
    <2> QED
        BY <1>2, <2>1, FlattenIsLast
<1> QED
    BY <1>1, <1>2

\* A list of one sequence is a list of sequences.
LEMMA Singleton ==
    ASSUME NEW S, NEW e \in Seq(S)
    PROVE  /\ <<e>> \in Seq(Seq(S)) /\ <<e>> # << >>
           /\ Len(<<e>>) = 1 /\ <<e>>[1] = e
OBVIOUS

\* One sequence.
LEMMA FlattenOne ==
    ASSUME NEW S, NEW e \in Seq(S)
    PROVE  FlattenSeq(<<e>>) = e
<1> DEFINE s == <<e>>
<1>1. s \in Seq(Seq(S)) /\ s # << >> /\ Len(s) = 1 /\ s[1] = e
    BY Singleton
<1> HIDE DEF s
<1>2. PICK f : Flattens(f, s)
    BY <1>1, FlattensExists
<1>3. f[1] = e
    BY <1>1, <1>2 DEF Flattens
<1>4. FlattenSeq(s) = f[1]
    BY <1>1, <1>2, FlattenIsLast
<1> QED
    BY <1>3, <1>4 DEF s

\* One sequence more.
LEMMA FlattenAppend ==
    ASSUME NEW S, NEW s \in Seq(Seq(S)), NEW e \in Seq(S)
    PROVE  FlattenSeq(Append(s, e)) = FlattenSeq(s) \o e
<1>1. CASE s = << >>
    BY <1>1, FlattenEmpty, FlattenOne
<1>2. CASE s # << >>
    <2> DEFINE t == Append(s, e)
    <2>1. t \in Seq(Seq(S)) /\ t # << >> /\ Len(t) = Len(s) + 1
          /\ t[Len(s) + 1] = e /\ \A i \in 1..Len(s) : t[i] = s[i]
        BY AppendProperties
    <2> HIDE DEF t
    <2>2. PICK f : Flattens(f, t)
        BY <2>1, FlattensExists
    <2> DEFINE g == [i \in 1..Len(s) |-> f[i]]
    <2>0. Len(s) \in Nat \ {0}
        BY <1>2, EmptySeq
    <2>8. \A i \in 1..(Len(s) + 1) : f[i] = IF i = 1 THEN t[i] ELSE f[i - 1] \o t[i]
        BY <2>1, <2>2 DEF Flattens
    <2>3. \A i \in 1..Len(s) : f[i] = IF i = 1 THEN s[i] ELSE f[i - 1] \o s[i]
        BY <2>0, <2>1, <2>8
    <2>4. Flattens(g, s)
        BY <2>3 DEF Flattens
    <2>5. FlattenSeq(s) = f[Len(s)]
        BY <1>2, <2>4, FlattenIsLast
    <2>6. FlattenSeq(t) = f[Len(s) + 1]
        BY <2>1, <2>2, FlattenIsLast
    <2>7. f[Len(s) + 1] = f[Len(s)] \o e
        <3>1. Len(s) + 1 # 1 /\ (Len(s) + 1) - 1 = Len(s) /\ Len(s) + 1 \in 1..(Len(s) + 1)
            BY <2>0
        <3> QED
            BY <2>1, <2>8, <3>1
    <2> QED
        BY <2>5, <2>6, <2>7 DEF t
<1> QED
    BY <1>1, <1>2

\* Two lists of sequences.
LEMMA FlattenConcat ==
    ASSUME NEW S, NEW s \in Seq(Seq(S))
    PROVE  \A t \in Seq(Seq(S)) : FlattenSeq(s \o t) = FlattenSeq(s) \o FlattenSeq(t)
<1> DEFINE P(n) == \A t \in Seq(Seq(S)) : Len(t) = n =>
                      FlattenSeq(s \o t) = FlattenSeq(s) \o FlattenSeq(t)
           T == {n \in Nat : P(n)}
<1>1. P(0)
    <2> SUFFICES ASSUME NEW t \in Seq(Seq(S)), Len(t) = 0
                 PROVE  FlattenSeq(s \o t) = FlattenSeq(s) \o FlattenSeq(t)
        OBVIOUS
    <2>1. t = << >> /\ s \o t = s
        OBVIOUS
    <2> QED
        BY <2>1, FlattenEmpty, FlattenType
<1>2. ASSUME NEW n \in Nat, P(n) PROVE P(n + 1)
    <2> SUFFICES ASSUME NEW t \in Seq(Seq(S)), Len(t) = n + 1
                 PROVE  FlattenSeq(s \o t) = FlattenSeq(s) \o FlattenSeq(t)
        OBVIOUS
    <2> DEFINE u == SubSeq(t, 1, n)
               e == t[n + 1]
    <2>1. u \in Seq(Seq(S)) /\ Len(u) = n /\ e \in Seq(S) /\ t = Append(u, e)
        OBVIOUS
    <2> HIDE DEF u, e
    <2>2. s \o t = Append(s \o u, e) /\ s \o u \in Seq(Seq(S))
        BY <2>1
    <2>3. FlattenSeq(s \o t) = FlattenSeq(s \o u) \o e
        BY <2>1, <2>2, FlattenAppend
    <2>4. FlattenSeq(t) = FlattenSeq(u) \o e
        BY <2>1, FlattenAppend
    <2>5. FlattenSeq(s \o u) = FlattenSeq(s) \o FlattenSeq(u)
        BY <1>2, <2>1
    <2>6. FlattenSeq(s) \in Seq(S) /\ FlattenSeq(u) \in Seq(S)
        BY <2>1, FlattenType
    <2>7. (FlattenSeq(s) \o FlattenSeq(u)) \o e = FlattenSeq(s) \o (FlattenSeq(u) \o e)
        <3>1. e \in Seq(S)
            BY <2>1
        <3> QED
            BY SMTT(60), <2>6, <3>1, ConcatAssociative
    <2> QED
        BY <2>3, <2>4, <2>5, <2>7, Zenon
<1> HIDE DEF P
<1>3. 0 \in T /\ \A n \in Nat : n \in T => n + 1 \in T
    BY <1>1, <1>2
<1>4. \A n \in Nat : n \in T
    <2> HIDE DEF T
    <2> QED
        BY <1>3, Induction
<1>5. ASSUME NEW t \in Seq(Seq(S))
      PROVE  Len(t) \in Nat /\ P(Len(t))
    BY <1>4
<1> QED
    BY <1>5 DEF P

\* The first sequence and the others.
LEMMA FlattenHead ==
    ASSUME NEW S, NEW s \in Seq(Seq(S)), s # << >>
    PROVE  FlattenSeq(s) = Head(s) \o FlattenSeq(Tail(s))
<1>1. s = <<Head(s)>> \o Tail(s) /\ Head(s) \in Seq(S) /\ Tail(s) \in Seq(Seq(S))
    OBVIOUS
<1>2. <<Head(s)>> \in Seq(Seq(S))
    BY <1>1, Singleton
<1>3. FlattenSeq(<<Head(s)>> \o Tail(s)) = FlattenSeq(<<Head(s)>>) \o FlattenSeq(Tail(s))
    BY <1>1, <1>2, FlattenConcat
<1>4. FlattenSeq(<<Head(s)>>) = Head(s)
    BY <1>1, FlattenOne
<1> QED
    BY <1>1, <1>3, <1>4, Zenon

\* The first n sequences of a list.
LEMMA FlattenUpTo ==
    ASSUME NEW S, NEW s \in Seq(Seq(S)), NEW n \in 1..Len(s)
    PROVE  /\ FlattenSeq(SubSeq(s, 1, 0)) = << >>
           /\ FlattenSeq(SubSeq(s, 1, Len(s))) = FlattenSeq(s)
           /\ FlattenSeq(SubSeq(s, 1, n)) = FlattenSeq(SubSeq(s, 1, n - 1)) \o s[n]
<1>1. SubSeq(s, 1, 0) = << >> /\ SubSeq(s, 1, Len(s)) = s
    OBVIOUS
<1>2. /\ SubSeq(s, 1, n - 1) \in Seq(Seq(S)) /\ s[n] \in Seq(S)
      /\ SubSeq(s, 1, n) = Append(SubSeq(s, 1, n - 1), s[n])
    OBVIOUS
<1> QED
    BY <1>1, <1>2, FlattenEmpty, FlattenAppend

\* What is in a concatenation is in every sequence of it.
LEMMA FlattenMembers ==
    ASSUME NEW S, NEW T \in SUBSET S, NEW s \in Seq(Seq(S)), FlattenSeq(s) \in Seq(T)
    PROVE  \A i \in 1..Len(s) : s[i] \in Seq(T)
<1> TAKE i \in 1..Len(s)
<1> DEFINE p == FlattenSeq(SubSeq(s, 1, i - 1))
           q == FlattenSeq(SubSeq(s, i + 1, Len(s)))
           e == s[i]
           w == FlattenSeq(s)
<1>1. e \in Seq(S) /\ Len(e) \in Nat
    OBVIOUS
<1>2. i \in 0..Len(s) /\ i - 1 \in 0..Len(s)
    OBVIOUS
<1>3. p \in Seq(S) /\ q \in Seq(S)
    <2>1. /\ SubSeq(s, 1, i - 1) \in Seq(Seq(S))
          /\ SubSeq(s, i + 1, Len(s)) \in Seq(Seq(S))
        BY <1>2, SplitSeq
    <2> QED
        BY <2>1, FlattenType
<1>4. w = (p \o e) \o q
    <2> DEFINE x == SubSeq(s, 1, i)
               y == SubSeq(s, i + 1, Len(s))
    <2>1. x \in Seq(Seq(S)) /\ y \in Seq(Seq(S)) /\ s = x \o y
        BY <1>2, SplitSeq
    <2>2. FlattenSeq(x) = p \o e
        BY FlattenUpTo
    <2> HIDE DEF x, y
    <2>3. FlattenSeq(x \o y) = FlattenSeq(x) \o FlattenSeq(y)
        BY <2>1, FlattenConcat
    <2> QED
        BY <2>1, <2>2, <2>3 DEF y
<1>5. w \in Seq(T) /\ \A n \in 1..Len(w) : w[n] \in T
    OBVIOUS
<1> HIDE DEF p, q, e, w
<1>6. Len(p) \in Nat /\ Len(q) \in Nat
    BY <1>3
<1>7. ASSUME NEW k \in 1..Len(e) PROVE e[k] \in T
    <2>1. p \o e \in Seq(S) /\ Len(p \o e) = Len(p) + Len(e) /\ (p \o e)[Len(p) + k] = e[k]
        BY <1>1, <1>3, <1>6
    <2>2. Len(w) = Len(p) + Len(e) + Len(q) /\ w[Len(p) + k] = (p \o e)[Len(p) + k]
        BY <1>1, <1>3, <1>4, <1>6, <2>1
    <2>3. Len(p) + k \in 1..Len(w)
        BY <1>1, <1>6, <2>2
    <2> QED
        BY <1>5, <2>1, <2>2, <2>3
<1>8. e \in Seq(T)
    BY SMTT(40), <1>1, <1>7
<1> QED
    BY <1>8 DEF e

(***************************************************************************)
(* Ascending                                                               *)
(***************************************************************************)
Increasing(s, n) == \A i, j \in 1..n : i < j => s[i] < s[j]

\* A finite set of natural numbers can be listed in ascending order.
LEMMA AscendingExists ==
    ASSUME NEW S \in SUBSET Nat, IsFiniteSet(S)
    PROVE  \E s \in [1..Cardinality(S) -> S] : Increasing(s, Cardinality(S))
<1> DEFINE P(n) == \A R \in SUBSET Nat : IsFiniteSet(R) /\ Cardinality(R) = n =>
                      \E s \in [1..n -> R] : Increasing(s, n)
           T == {n \in Nat : P(n)}
<1>1. P(0)
    <2> SUFFICES ASSUME NEW R \in SUBSET Nat, IsFiniteSet(R), Cardinality(R) = 0
                 PROVE  \E s \in [1..0 -> R] : Increasing(s, 0)
        OBVIOUS
    <2> DEFINE s == [i \in 1..0 |-> 0]
    <2>1. s \in [1..0 -> R]
        OBVIOUS
    <2>2. Increasing(s, 0)
        BY DEF Increasing
    <2> QED
        BY <2>1, <2>2, Zenon
<1>2. ASSUME NEW n \in Nat, P(n) PROVE P(n + 1)
    <2> SUFFICES ASSUME NEW R \in SUBSET Nat, IsFiniteSet(R), Cardinality(R) = n + 1
                 PROVE  \E s \in [1..(n + 1) -> R] : Increasing(s, n + 1)
        OBVIOUS
    <2>1. R # {}
        BY FS_EmptySet
    <2>2. PICK m \in R : \A x \in R : m <= x
        BY <2>1, LeastNat
    <2> DEFINE Q == R \ {m}
    <2>3. IsFiniteSet(Q) /\ Cardinality(Q) = n /\ Q \in SUBSET Nat
        BY FS_RemoveElement
    <2>4. PICK s \in [1..n -> Q] : Increasing(s, n)
        BY <1>2, <2>3
    <2> DEFINE t == [i \in 1..(n + 1) |-> IF i = 1 THEN m ELSE s[i - 1]]
    <2>5. \A i \in 1..n : s[i] \in R /\ s[i] \in Nat /\ m < s[i]
        <3> SUFFICES ASSUME NEW i \in 1..n
                     PROVE  s[i] \in R /\ s[i] \in Nat /\ m < s[i]
            OBVIOUS
        <3>1. s[i] \in R /\ s[i] # m
            OBVIOUS
        <3>2. m <= s[i] /\ m \in Nat /\ s[i] \in Nat
            BY <2>2, <3>1
        <3> QED
            BY <3>1, <3>2
    <2>6. t \in [1..(n + 1) -> R]
        BY <2>5
    <2>7. ASSUME NEW i \in 1..(n + 1), NEW j \in 1..(n + 1), i < j
          PROVE  t[i] < t[j]
        <3>1. j - 1 \in 1..n /\ t[j] = s[j - 1]
            BY <2>7
        <3>2. CASE i = 1
            BY <2>5, <3>1, <3>2
        <3>3. CASE i # 1
            <4>1. i - 1 \in 1..n /\ t[i] = s[i - 1] /\ i - 1 < j - 1
                BY <2>7, <3>3
            <4> QED
                BY <2>4, <3>1, <4>1 DEF Increasing
        <3> QED
            BY <3>2, <3>3
    <2> HIDE DEF t
    <2> QED
        BY <2>6, <2>7 DEF Increasing
<1> HIDE DEF P
<1>3. 0 \in T /\ \A n \in Nat : n \in T => n + 1 \in T
    BY <1>1, <1>2
<1>4. \A n \in Nat : n \in T
    <2> HIDE DEF T
    <2> QED
        BY <1>3, Induction
<1>5. Cardinality(S) \in Nat /\ P(Cardinality(S))
    BY <1>4, FS_CardinalityType
<1> QED
    BY <1>5 DEF P

\* What Ascending returns: every element of S, once, in ascending order.
LEMMA AscendingLists ==
    ASSUME NEW S \in SUBSET Nat, IsFiniteSet(S)
    PROVE  /\ Cardinality(S) \in Nat
           /\ Ascending(S) \in [1..Cardinality(S) -> S]
           /\ Increasing(Ascending(S), Cardinality(S))
           /\ \A x \in S : \E i \in 1..Cardinality(S) : Ascending(S)[i] = x
<1> DEFINE n == Cardinality(S)
           Below(x) == {y \in S : y < x}
<1>1. n \in Nat
    BY FS_CardinalityType
<1>2. PICK s \in [1..n -> S] : Increasing(s, n)
    BY AscendingExists
<1>3. \A i, j \in 1..n : s[i] = s[j] => i = j
    <2> SUFFICES ASSUME NEW i \in 1..n, NEW j \in 1..n, s[i] = s[j], i # j
                 PROVE  FALSE
        OBVIOUS
    <2>1. i < j \/ j < i
        BY <1>1
    <2>2. s[i] \in Nat /\ s[j] \in Nat
        BY <1>2
    <2> QED
        BY <1>2, <2>1, <2>2 DEF Increasing
<1>4. s \in Injection(1..n, S)
    BY <1>2, <1>3 DEF Injection, IsInjective
<1>5. IsFiniteSet(1..n) /\ Cardinality(1..n) = n
    BY <1>1, FS_Interval
<1>6. s \in Surjection(1..n, S)
    BY <1>4, <1>5, FS_Injection
<1>7. \A x \in S : \E i \in 1..n : s[i] = x
    BY <1>6 DEF Surjection
\* As many elements are below s[j] as come before it.
<1>8. ASSUME NEW j \in 1..n PROVE Cardinality(Below(s[j])) = j - 1
    <2> DEFINE f == [i \in 1..(j - 1) |-> s[i]]
    <2>1. \A i \in 1..(j - 1) : i \in 1..n /\ s[i] \in Below(s[j])
        BY <1>1, <1>2 DEF Increasing
    <2>2. ASSUME NEW y \in Below(s[j]) PROVE \E i \in 1..(j - 1) : s[i] = y
        <3>1. PICK i \in 1..n : s[i] = y
            BY <1>7
        <3>2. s[i] < s[j] /\ s[i] \in Nat /\ s[j] \in Nat
            BY <1>2, <3>1
        <3>3. ~(j < i) /\ i # j
            BY <1>2, <3>2 DEF Increasing
        <3> QED
            BY <1>1, <3>1, <3>3
    <2> HIDE DEF Below
    <2>3. f \in Bijection(1..(j - 1), Below(s[j]))
        <3>1. f \in [1..(j - 1) -> Below(s[j])]
            BY <2>1
        <3>2. \A i, l \in 1..(j - 1) : f[i] = f[l] => i = l
            BY <1>3, <2>1
        <3>3. \A y \in Below(s[j]) : \E i \in 1..(j - 1) : f[i] = y
            BY <2>2
        <3> HIDE DEF f
        <3> QED
            BY <3>1, <3>2, <3>3 DEF Bijection, Injection, Surjection, IsInjective
    <2>4. IsFiniteSet(1..(j - 1)) /\ Cardinality(1..(j - 1)) = j - 1
        <3> DEFINE c == j - 1
        <3>1. c \in Nat
            BY <1>1
        <3> HIDE DEF c
        <3>2. IsFiniteSet(1..c) /\ Cardinality(1..c) = c
            BY <3>1, FS_Interval
        <3> QED
            BY <3>2 DEF c
    <2>5. ExistsBijection(1..(j - 1), Below(s[j]))
        BY <2>3 DEF ExistsBijection
    <2> QED
        BY <2>4, <2>5, FS_Bijection
<1> DEFINE Ranked(x, j) == Cardinality(Below(x)) = j - 1
<1>9. ASSUME NEW j \in 1..n
      PROVE  (CHOOSE x \in S : Ranked(x, j)) = s[j]
    <2>1. s[j] \in S /\ Ranked(s[j], j)
        BY <1>8
    <2>2. ASSUME NEW x \in S, Ranked(x, j) PROVE x = s[j]
        <3>1. PICK i \in 1..n : s[i] = x
            BY <1>7
        <3>2. Cardinality(Below(s[i])) = i - 1
            BY <1>8
        <3> HIDE DEF Below
        <3>3. i - 1 = j - 1
            BY <2>2, <3>1, <3>2
        <3>4. i = j
            BY <1>1, <3>3
        <3> QED
            BY <3>1, <3>4
    <2> HIDE DEF Ranked
    <2> QED
        BY <2>1, <2>2
<1>10. Ascending(S) = s
    <2>1. Ascending(S) = [j \in 1..n |-> CHOOSE x \in S : Ranked(x, j)]
        BY DEF Ascending
    <2> HIDE DEF Ranked, n
    <2> QED
        BY <1>2, <1>9, <2>1
<1> QED
    BY <1>1, <1>2, <1>7, <1>10

\* No element of S lies between two neighbours, before the first or after the
\* last.
LEMMA AscendingNext ==
    ASSUME NEW S \in SUBSET Nat, IsFiniteSet(S), NEW x \in S,
           NEW i \in 1..Cardinality(S), Ascending(S)[i] <= x,
           i < Cardinality(S) => x < Ascending(S)[i + 1]
    PROVE  x = Ascending(S)[i]
<1> DEFINE n == Cardinality(S)
           s == Ascending(S)
<1>1. /\ n \in Nat /\ s \in [1..n -> S] /\ Increasing(s, n)
      /\ \A y \in S : \E j \in 1..n : s[j] = y
    BY AscendingLists
<1> HIDE DEF s, n
<1>2. /\ s[i] <= x /\ i \in 1..n
      /\ i < n => x < s[i + 1]
    BY DEF s, n
<1>3. PICK j \in 1..n : s[j] = x
    BY <1>1
<1>4. ~(j < i)
    <2> SUFFICES ASSUME j < i PROVE FALSE
        OBVIOUS
    <2>1. s[j] < s[i] /\ s[i] \in Nat /\ s[j] \in Nat
        BY <1>1, <1>2 DEF Increasing
    <2> QED
        BY <1>2, <1>3, <2>1
<1>5. ~(i < j)
    <2> SUFFICES ASSUME i < j PROVE FALSE
        OBVIOUS
    <2>0. i < n /\ i + 1 \in 1..n
        BY <1>1, <1>2
    <2>1. i < n /\ i + 1 \in 1..n /\ s[i + 1] \in Nat /\ s[j] \in Nat
        BY <1>1, <2>0
    <2>2. j = i + 1 \/ i + 1 < j
        BY <1>2
    <2>3. s[i + 1] <= s[j]
        BY <1>1, <2>1, <2>2 DEF Increasing
    <2> QED
        BY <1>2, <1>3, <2>1, <2>3
<1>6. i = j
    BY <1>1, <1>2, <1>4, <1>5
<1> QED
    BY <1>3, <1>6 DEF s

(***************************************************************************)
(* Recursive functions and greatest elements                               *)
(***************************************************************************)
\* f starts with a, and g says what follows each of its values.
Recurs(f, n, a, g) == \A i \in 1..n : f[i] = IF i = 1 THEN a ELSE g[<<i, f[i - 1]>>]

\* A function on 1..n may be defined by its first value and by what follows
\* each value.
LEMMA Recursion ==
    ASSUME NEW S, NEW a \in S
    PROVE  \A n \in Nat : \A g \in [(1..n) \X S -> S] :
              \E f \in [1..n -> S] : Recurs(f, n, a, g)
<1> DEFINE P(n) == \A g \in [(1..n) \X S -> S] : \E f \in [1..n -> S] :
              \A i \in 1..n : f[i] = IF i = 1 THEN a ELSE g[<<i, f[i - 1]>>]
           T == {n \in Nat : P(n)}
<1>1. P(0)
    <2>1. [i \in 1..0 |-> a] \in [1..0 -> S]
        OBVIOUS
    <2> QED
        BY <2>1
<1>2. ASSUME NEW n \in Nat, P(n) PROVE P(n + 1)
    <2> SUFFICES ASSUME NEW g \in [(1..(n + 1)) \X S -> S]
                 PROVE  \E f \in [1..(n + 1) -> S] :
                           \A i \in 1..(n + 1) :
                               f[i] = IF i = 1 THEN a ELSE g[<<i, f[i - 1]>>]
        OBVIOUS
    <2> DEFINE h == [p \in (1..n) \X S |-> g[p]]
    <2>1. h \in [(1..n) \X S -> S]
        <3>1. \A p \in (1..n) \X S : p \in (1..(n + 1)) \X S
            OBVIOUS
        <3> QED
            BY <3>1
    <2>2. PICK e \in [1..n -> S] :
             \A i \in 1..n : e[i] = IF i = 1 THEN a ELSE h[<<i, e[i - 1]>>]
        BY <1>2, <2>1
    <2> DEFINE last == IF n = 0 THEN a ELSE g[<<n + 1, e[n]>>]
               f    == [i \in 1..(n + 1) |-> IF i = n + 1 THEN last ELSE e[i]]
    <2>3. last \in S
        <3>1. CASE n = 0
            BY <3>1
        <3>2. CASE n # 0
            <4>1. <<n + 1, e[n]>> \in (1..(n + 1)) \X S
                BY <3>2
            <4> QED
                BY <3>2, <4>1
        <3> QED
            BY <3>1, <3>2
    <2> HIDE DEF last
    <2>4. f \in [1..(n + 1) -> S]
        BY <2>3
    <2>5. ASSUME NEW i \in 1..(n + 1)
          PROVE  f[i] = IF i = 1 THEN a ELSE g[<<i, f[i - 1]>>]
        <3>1. CASE i = n + 1
            <4>1. f[i] = last
                BY <3>1
            <4>2. CASE n = 0
                BY <3>1, <4>1, <4>2 DEF last
            <4>3. CASE n # 0
                <5>1. i # 1 /\ i - 1 = n /\ n \in 1..(n + 1) /\ n # n + 1
                    BY <3>1, <4>3
                <5>2. f[n] = e[n]
                    BY <5>1
                <5> QED
                    BY <3>1, <4>1, <4>3, <5>1, <5>2 DEF last
            <4> QED
                BY <4>2, <4>3
        <3>2. CASE i # n + 1
            <4>1. i \in 1..n /\ f[i] = e[i]
                BY <3>2
            <4>2. CASE i = 1
                BY <2>2, <4>1, <4>2
            <4>3. CASE i # 1
                <5>1. i - 1 \in 1..n /\ i - 1 # n + 1
                    BY <4>1, <4>3
                <5>2. f[i - 1] = e[i - 1] /\ e[i - 1] \in S
                    BY <5>1
                <5>3. h[<<i, e[i - 1]>>] = g[<<i, e[i - 1]>>]
                    BY <4>1, <5>2
                <5> QED
                    BY <2>2, <4>1, <4>3, <5>2, <5>3
            <4> QED
                BY <4>2, <4>3
        <3> QED
            BY <3>1, <3>2
    <2> HIDE DEF f
    <2> QED
        BY <2>4, <2>5
<1> HIDE DEF P
<1>3. 0 \in T /\ \A n \in Nat : n \in T => n + 1 \in T
    BY <1>1, <1>2
<1>4. \A n \in Nat : n \in T
    <2> HIDE DEF T
    <2> QED
        BY <1>3, Induction
<1>5. \A n \in Nat : P(n)
    BY <1>4
<1> QED
    BY <1>5 DEF P, Recurs

\* A nonempty set of natural numbers with a bound has a greatest element.
LEMMA GreatestNat ==
    ASSUME NEW T \in SUBSET Nat, T # {}, NEW n \in Nat, \A x \in T : x <= n
    PROVE  \E m \in T : \A x \in T : x <= m
<1> DEFINE U == {n - x : x \in T}
<1>1. U \in SUBSET Nat /\ U # {}
    <2>1. \A x \in T : n - x \in Nat
        OBVIOUS
    <2>2. PICK x \in T : TRUE
        OBVIOUS
    <2>3. n - x \in U
        OBVIOUS
    <2> QED
        BY <2>1, <2>3
<1>2. PICK d \in U : \A e \in U : d <= e
    BY <1>1, LeastNat
<1>3. PICK m \in T : d = n - m
    OBVIOUS
<1>4. ASSUME NEW x \in T PROVE x <= m
    <2>1. n - x \in U
        OBVIOUS
    <2> QED
        BY <1>2, <1>3, <2>1
<1> QED
    BY <1>4
==============================================================================

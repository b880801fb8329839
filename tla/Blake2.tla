-------------------------------- MODULE Blake2 --------------------------------
(***************************************************************************)
(* The arithmetic of BLAKE2b and BLAKE2s (src/blake2b.cc, src/blake2s.cc,  *)
(* src/blake2_impl.h), which differ in the width of a word, the number of  *)
(* rounds and the rotations.                                               *)
(***************************************************************************)
EXTENDS Words, Sequences, SequencesExt

CONSTANTS IV, Sigma, Rotations      \* words are given by their 16-bit parts

WordBytes == WordBits \div 8

rotr(w, c) == {(i - c) % WordBits : i \in w}

\* load64, load32: little-endian, whatever the host is.
load(p) == UNION {{8 * (k - 1) + i : i \in BitsOf(p[k])} : k \in 1..WordBytes}

\* store64, store32.
store(w) ==
    [k \in 1..WordBytes |->
        FoldSet(LAMBDA i, n : n + 2 ^ (i - 8 * (k - 1)), 0,
                w \cap (8 * (k - 1))..(8 * k - 1))]

iv(k) == UNION {{16 * (j - 1) + i : i \in BitsOf(IV[k + 1][j])} : j \in DOMAIN IV[k + 1]}

ones == 0..(WordBits - 1)

------------------------------------------------------------------------------
\* G(r,i,a,b,c,d), at the positions a to d of v.
G(m, s, i, p, v) ==
    LET a == p[1]
        b == p[2]
        c == p[3]
        d == p[4]
        a1 == Add(Add(v[a], v[b]), m[s[2 * i + 1]])
        d1 == rotr(Xor(v[d], a1), Rotations[1])
        c1 == Add(v[c], d1)
        b1 == rotr(Xor(v[b], c1), Rotations[2])
        a2 == Add(Add(a1, b1), m[s[2 * i + 2]])
        d2 == rotr(Xor(d1, a2), Rotations[3])
        c2 == Add(c1, d2)
        b2 == rotr(Xor(b1, c2), Rotations[4])
    IN  [v EXCEPT ![a] = a2, ![b] = b2, ![c] = c2, ![d] = d2]

\* Mutant: the diagonals are the columns again.
ROUNDColumns(m, s, v) ==
    LET Columns == << <<0, 4, 8, 12>>, <<1, 5, 9, 13>>, <<2, 6, 10, 14>>,
                      <<3, 7, 11, 15>> >>
        from[i \in 0..8, u \in [0..15 -> Word]] ==
            IF i = 8 THEN u ELSE from[i + 1, G(m, s, i, Columns[(i % 4) + 1], u)]
    IN  from[0, v]

\* ROUND(r), s the row r of sigma: the columns, then the diagonals.
ROUND(m, s, v) ==
    LET Positions == << <<0, 4, 8, 12>>, <<1, 5, 9, 13>>, <<2, 6, 10, 14>>,
                        <<3, 7, 11, 15>>, <<0, 5, 10, 15>>, <<1, 6, 11, 12>>,
                        <<2, 7, 8, 13>>, <<3, 4, 9, 14>> >>
        from[i \in 0..8, u \in [0..15 -> Word]] ==
            IF i = 8 THEN u ELSE from[i + 1, G(m, s, i, Positions[i + 1], u)]
    IN  from[0, v]

\* One turn of the loop of compress: h and an entry of Blake2Stream's log.
compress(h, e) ==
    LET m == [i \in 0..15 |-> load(SubSeq(e.block, WordBytes * i + 1, WordBytes * (i + 1)))]
        v0 == [i \in 0..15 |->
                  CASE i < 8  -> h[i + 1]
                    [] i = 12 -> Xor(BitsOf(e.t0), iv(4))
                    [] i = 13 -> Xor(BitsOf(e.t1), iv(5))
                    [] i = 14 -> IF e.last THEN Xor(ones, iv(6)) ELSE iv(6)
                    [] OTHER  -> iv(i - 8)]
        rounds[r \in 0..Len(Sigma), u \in [0..15 -> Word]] ==
            IF r = Len(Sigma) THEN u ELSE rounds[r + 1, ROUND(m, Sigma[r + 1], u)]
        v == rounds[0, v0]
    IN  [i \in 1..8 |-> Xor(h[i], Xor(v[i - 1], v[i + 7]))]

\* init0 and init_param, with a parameter block of 8 words.
init_param(param) ==
    [i \in 1..8 |-> Xor(iv(i - 1), load(SubSeq(param, WordBytes * (i - 1) + 1, WordBytes * i)))]

\* The words of h, as the bytes Final puts out.
output(h) == FlattenSeq([i \in 1..8 |-> store(h[i])])
==============================================================================

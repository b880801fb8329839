--------------------------------- MODULE Rabin ---------------------------------
(***************************************************************************)
(* rax::rabin_fingerprint (deuceclient/rabin_fingerprint.h) and the        *)
(* arithmetic it rests on (src/src/rabin_fingerprint.cc): polynomials over *)
(* GF(2) in unsigned words, tables for the byte that comes in and for the  *)
(* byte that slides out of a window kept as a ring.                        *)
(*                                                                         *)
(* 64 and 8 are WordBits and ByteBits.                                     *)
(***************************************************************************)
EXTENDS Words, Sequences, SequencesExt

CONSTANTS ByteBits, WindowSize,
          Polys         \* the polynomials a fingerprint may be made with

Byte == SUBSET (0..(ByteBits - 1))

\* poly has degree 8 at least: `shift` is no negative number.
RabinAssumption ==
    /\ WordBits \in Nat /\ ByteBits \in 1..WordBits /\ WindowSize \in Nat \ {0}
    /\ Polys \subseteq {p \in Word : \E i \in p : i >= ByteBits}

VARIABLES poly, shift, T,               \* rabin_polynomial
          bufpos, buf, fingerprint, U   \* rabin_fingerprint

tables == <<poly, shift, T, U>>
vars == <<tables, bufpos, buf, fingerprint>>

------------------------------------------------------------------------------
Msb == WordBits - 1

fls64(x) == Max(x) + 1

\* i from `from` down to `to`, as the loops of polymod run.
Down(from, to) == [k \in 1..(from - to + 1) |-> from - k + 1]

\* Mutant: the degree of d itself is left in the remainder.
polymodToDegree(nh, nl, d) ==
    LET k  == fls64(d) - 1
        dd == Shl(d, Msb - k)
        High(n, i) == IF i \in n.h THEN [h |-> Xor(n.h, Shr(dd, Msb - i)),
                                         l |-> Xor(n.l, Shl(dd, i + 1))]
                                   ELSE n
        Low(l, i) == IF i \in l THEN Xor(l, Shr(dd, Msb - i)) ELSE l
        h0 == IF Msb \in nh THEN Xor(nh, dd) ELSE nh
    IN  FoldLeft(Low, FoldLeft(High, [h |-> h0, l |-> nl], Down(Msb - 1, 0)).l,
                 Down(Msb, k + 1))

\* The remainder of nh * 2^64 + nl by d.
polymod(nh, nl, d) ==
    LET k  == fls64(d) - 1
        dd == Shl(d, Msb - k)
        High(n, i) == IF i \in n.h THEN [h |-> Xor(n.h, Shr(dd, Msb - i)),
                                         l |-> Xor(n.l, Shl(dd, i + 1))]
                                   ELSE n
        Low(l, i) == IF i \in l THEN Xor(l, Shr(dd, Msb - i)) ELSE l
        h0 == IF Msb \in nh THEN Xor(nh, dd) ELSE nh
    IN  FoldLeft(Low, FoldLeft(High, [h |-> h0, l |-> nl], Down(Msb - 1, 0)).l,
                 Down(Msb, k))

\* Mutant: the bits that leave the low word are lost.
polymultLow(x, y) ==
    LET Term(p, i) == IF i \in x THEN [p EXCEPT !.l = Xor(p.l, Shl(y, i))] ELSE p
    IN  FoldLeft(Term, [h |-> {}, l |-> IF 0 \in x THEN y ELSE {}],
                 [i \in 1..Msb |-> i])

\* The product of x and y, in two words.
polymult(x, y) ==
    LET Term(p, i) == IF i \in x THEN [h |-> Xor(p.h, Shr(y, WordBits - i)),
                                       l |-> Xor(p.l, Shl(y, i))]
                                 ELSE p
    IN  FoldLeft(Term, [h |-> {}, l |-> IF 0 \in x THEN y ELSE {}],
                 [i \in 1..Msb |-> i])

polymmult(x, y, d) == LET p == polymult(x, y) IN polymod(p.h, p.l, d)

------------------------------------------------------------------------------
\* calculate_lookup_table.
xshift(p) == fls64(p) - 1

LookupShift(p) == xshift(p) - ByteBits

LookupTable(p) ==
    LET T1 == polymod({}, Shl({0}, xshift(p)), p)
    IN  [j \in Byte |-> polymmult(j, T1, p) \cup Shl(j, xshift(p))]

\* add_byte, with the table t and the shift s of a polynomial.
AddByte(t, s, p, m) == Xor(Shl(p, ByteBits) \cup m, t[Shr(p, s)])

\* Mutant: the oldest byte was shifted as often as the window has bytes.
SlideOutTableOnceMore(t, s, p) ==
    LET Shift(x, i) == AddByte(t, s, x, {})
        sizeshift == FoldLeft(Shift, {0}, [i \in 1..WindowSize |-> i])
    IN  [i \in Byte |-> polymmult(i, sizeshift, p)]

\* The constructor's table U: what a byte is worth when it is the oldest.
SlideOutTable(t, s, p) ==
    LET Shift(x, i) == AddByte(t, s, x, {})
        sizeshift == FoldLeft(Shift, {0}, [i \in 1..(WindowSize - 1) |-> i])
    IN  [i \in Byte |-> polymmult(i, sizeshift, p)]

Init ==
    /\ poly \in Polys
    /\ shift = LookupShift(poly)
    /\ T = LookupTable(poly)
    /\ U = SlideOutTable(T, shift, poly)
    /\ bufpos = 0
    /\ buf = [i \in 0..(WindowSize - 1) |-> {}]
    /\ fingerprint = {}

\* Mutant: the last place of the ring is never used.
process_byteWrapEarly(m) ==
    /\ buf' = [buf EXCEPT ![bufpos] = m]
    /\ fingerprint' = AddByte(T, shift, Xor(fingerprint, U[buf[bufpos]]), m)
    /\ bufpos' = IF bufpos + 1 >= WindowSize - 1 THEN 0 ELSE bufpos + 1
    /\ UNCHANGED tables

process_byte(m) ==
    /\ buf' = [buf EXCEPT ![bufpos] = m]
    /\ fingerprint' = AddByte(T, shift, Xor(fingerprint, U[buf[bufpos]]), m)
    /\ bufpos' = IF bufpos + 1 = WindowSize THEN 0 ELSE bufpos + 1
    /\ UNCHANGED tables

\* Mutant: the bytes stay in the ring.
resetValueOnly ==
    /\ fingerprint' = {}
    /\ UNCHANGED <<tables, bufpos, buf>>

\* bufpos stays where it is: the ring is all zeros.
reset ==
    /\ buf' = [i \in 0..(WindowSize - 1) |-> {}]
    /\ fingerprint' = {}
    /\ UNCHANGED <<tables, bufpos>>

Next == reset \/ \E m \in Byte : process_byte(m)

Spec == Init /\ [][Next]_vars

------------------------------------------------------------------------------
(***************************************************************************)
(* Reference: polynomials of any degree, as sets of exponents.             *)
(***************************************************************************)
\* Long division.
Mod(a, d) ==
    LET rest[x \in SUBSET (0..(ByteBits * WindowSize))] ==
            IF x = {} \/ Max(x) < Max(d) THEN x
            ELSE rest[Xor(x, {i + Max(x) - Max(d) : i \in d})]
    IN  rest[a]

\* The bytes of the ring, the oldest first.
Window == [i \in 1..WindowSize |-> buf[(bufpos + i - 1) % WindowSize]]

\* They are the coefficients of a polynomial, the newest byte the lowest.
Polynomial(w) ==
    UNION {{i + ByteBits * (WindowSize - j) : i \in w[j]} : j \in 1..WindowSize}

(***************************************************************************)
(* Properties                                                              *)
(***************************************************************************)
\* The two tables, of which one cancels the bits that leave the word and the
\* other takes the oldest byte away, keep the fingerprint the remainder of
\* the window by poly after any number of bytes and resets: nothing of a byte
\* that slid out, or was there before a reset, stays in it
\* (rabin_fingerprint.h, 69-84).
ValueIsWindow == fingerprint = Mod(Polynomial(Window), poly)

\* The ring is the window that ContentChunking slides over the input, although
\* reset() leaves bufpos anywhere.
SW == INSTANCE SlidingWindow WITH Bytes <- Byte, Zero <- {}, window <- Window
ImplementsWindow == SW!Spec
==============================================================================

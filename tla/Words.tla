--------------------------------- MODULE Words ---------------------------------
(***************************************************************************)
(* Unsigned integers of WordBits bits, each the set of the positions of    *)
(* its 1 bits: | is the union, ^ the symmetric difference, and a shift     *)
(* moves the positions and drops those that leave the word.                *)
(***************************************************************************)
EXTENDS Integers

CONSTANT WordBits

Word == SUBSET (0..(WordBits - 1))

Xor(x, y) == (x \ y) \cup (y \ x)
Shl(x, n) == {i + n : i \in x} \cap 0..(WordBits - 1)
Shr(x, n) == {i - n : i \in {j \in x : j >= n}}

\* x + y: bits without their carries, then the carries.
Add(x, y) ==
    LET sum[p \in Word \X Word] ==
            IF p[2] = {} THEN p[1]
            ELSE sum[<<Xor(p[1], p[2]), Shl(p[1] \cap p[2], 1)>>]
    IN  sum[<<x, y>>]

\* The bits of a natural number below 2^30, as TLC's integers are.
BitsOf(n) == {i \in 0..29 : (n \div 2 ^ i) % 2 = 1}
==============================================================================

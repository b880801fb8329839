----------------------------- MODULE Blake2Blocks -----------------------------
(***************************************************************************)
(* What BLAKE2 compresses for a message (RFC 7693, 3.3), with the whole    *)
(* message in view: the reference that Blake2Stream is held against.       *)
(***************************************************************************)
EXTENDS Integers, Sequences

CONSTANTS Bytes, Zero,
          BlockBytes,   \* BLAKE2B_BLOCKBYTES
          WordMax       \* 2^64: words are 0..(WordMax - 1)

ASSUME BytesAssumption == Zero \in Bytes
ASSUME WordAssumption == BlockBytes \in Nat \ {0} /\ WordMax \in Nat
                            /\ BlockBytes < WordMax

\* A message of n bytes has Blocks(n) blocks, an empty message one.
Blocks(n) == IF n = 0 THEN 1 ELSE (n + BlockBytes - 1) \div BlockBytes

\* The i-th block of m, zeros after the end.
BlockOf(m, i) ==
    [j \in 1..BlockBytes |-> LET k == (i - 1) * BlockBytes + j
                             IN  IF k <= Len(m) THEN m[k] ELSE Zero]

\* The bytes of m up to the i-th block's end.
CountAt(m, i) == IF i * BlockBytes < Len(m) THEN i * BlockBytes ELSE Len(m)

\* Each block with the counter, in two words, and the flag of the last one.
BlocksOf(m) ==
    [i \in 1..Blocks(Len(m)) |->
        [block |-> BlockOf(m, i), last |-> i = Blocks(Len(m)),
         t0 |-> CountAt(m, i) % WordMax, t1 |-> CountAt(m, i) \div WordMax]]
==============================================================================

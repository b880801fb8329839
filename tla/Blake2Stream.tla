----------------------------- MODULE Blake2Stream -----------------------------
(***************************************************************************)
(* How BLAKE2b_Update and BLAKE2b_Final cut what a hasher is given, in any *)
(* number of calls, into the blocks that are compressed (src/blake2b.cc;   *)
(* BLAKE2s_* of src/blake2s.cc is the same text with smaller words).  What *)
(* compressing a block does to h is Blake2; here h is the record of what   *)
(* was compressed, `log`: each block with the counter and the flag that    *)
(* went in with it.                                                        *)
(***************************************************************************)
EXTENDS Blake2Blocks

CONSTANTS MaxLength,    \* bound: no message is longer (the code has none)
          Data          \* what one call of update may bring

ASSUME LengthAssumption == MaxLength \in Nat /\ MaxLength < WordMax * WordMax
ASSUME DataAssumption == Data \subseteq Seq(Bytes)

VARIABLES log,          \* h
          t0, t1,       \* t[0], t[1]
          buf, buflen,  \* the block that is kept back
          in, len,      \* Update: what is left of data; compress: of len
          pc,           \* where the call of Update stands
          message       \* history: all that was passed to update

ctx == <<log, t0, t1, buf, buflen>>
vars == <<ctx, in, len, pc, message>>

\* The constructor: BLAKE2b_Init clears the context.
Init ==
    /\ log = << >>
    /\ t0 = 0 /\ t1 = 0
    /\ buf = [i \in 1..BlockBytes |-> Zero] /\ buflen = 0
    /\ in = << >> /\ len = 0
    /\ pc = "idle"
    /\ message = << >>

------------------------------------------------------------------------------
First(s, n)   == SubSeq(s, 1, n)
Without(s, n) == SubSeq(s, n + 1, Len(s))

\* Mutant: the word has room for any count.
Sum0Unbounded(increment) == t0 + increment

\* S->t[0] += increment, and the carry, which shows in the sum.
Sum0(increment) == (t0 + increment) % WordMax

\* Mutant: no carry.
Sum1Lost(increment) == t1

Sum1(increment) == (t1 + (IF Sum0(increment) < increment THEN 1 ELSE 0)) % WordMax

\* One turn of the loop of compress.
Compress(block, increment) ==
    /\ t0' = Sum0(increment)
    /\ t1' = Sum1(increment)
    /\ log' = Append(log, [block |-> block, last |-> FALSE,
                           t0 |-> Sum0(increment), t1 |-> Sum1(increment)])

\* memcpy(c->buf + c->buflen, s, |s|).
Stored(s) ==
    [i \in 1..BlockBytes |->
        IF i \in (buflen + 1)..(buflen + Len(s)) THEN s[i - buflen] ELSE buf[i]]

Fill == BlockBytes - buflen

\* Mutant: a full block is not kept back.
UpdateEager(data) ==
    /\ pc = "idle"
    /\ Len(message) + Len(data) <= MaxLength
    /\ message' = message \o data
    /\ in' = data
    /\ pc' = IF Len(data) < Fill THEN "stash" ELSE IF buflen # 0 THEN "fill" ELSE "bulk"
    /\ UNCHANGED <<ctx, len>>

\* BLAKE2b_Update is called: data that fit into buf beside what is there just
\* go there.
Update(data) ==
    /\ pc = "idle"
    /\ Len(message) + Len(data) <= MaxLength
    /\ message' = message \o data
    /\ in' = data
    /\ pc' = IF Len(data) <= Fill THEN "stash" ELSE IF buflen # 0 THEN "fill" ELSE "bulk"
    /\ UNCHANGED <<ctx, len>>

\* Mutant: buf is not emptied.
FillBufferKept ==
    /\ pc = "fill"
    /\ buf' = Stored(First(in, Fill))
    /\ Compress(buf', BlockBytes)
    /\ in' = Without(in, Fill)
    /\ pc' = "bulk"
    /\ UNCHANGED <<buflen, len, message>>

\* The block in buf is completed and compressed.
FillBuffer ==
    /\ pc = "fill"
    /\ buf' = Stored(First(in, Fill))
    /\ Compress(buf', BlockBytes)
    /\ buflen' = 0
    /\ in' = Without(in, Fill)
    /\ pc' = "bulk"
    /\ UNCHANGED <<len, message>>

\* Mutant: as if the data ended with a whole block.
StashLenBlock(datalen) == BlockBytes

\* A last complete block is stashed: it can be the final one.
StashLen(datalen) ==
    IF datalen % BlockBytes = 0 THEN BlockBytes ELSE datalen % BlockBytes

\* The blocks but the last are compressed from data.
Bulk ==
    /\ pc = "bulk"
    /\ IF Len(in) > BlockBytes
       THEN len' = Len(in) - StashLen(Len(in)) /\ pc' = "compress"
       ELSE pc' = "stash" /\ UNCHANGED len
    /\ UNCHANGED <<ctx, in, message>>

CompressNext ==
    /\ pc = "compress"
    /\ Compress(First(in, BlockBytes), BlockBytes)
    /\ in' = Without(in, BlockBytes)
    /\ len' = len - BlockBytes
    /\ pc' = IF len' = 0 THEN "stash" ELSE "compress"
    /\ UNCHANGED <<buf, buflen, message>>

\* Update returns.
Stash ==
    /\ pc = "stash"
    /\ buf' = Stored(in)
    /\ buflen' = buflen + Len(in)
    /\ in' = << >>
    /\ pc' = "idle"
    /\ UNCHANGED <<log, t0, t1, len, message>>

Next == FillBuffer \/ Bulk \/ CompressNext \/ Stash \/ \E data \in Data : Update(data)

Spec == Init /\ [][Next]_vars

\* Mutant: no padding.
FinalStale ==
    Append(log, [block |-> buf, last |-> TRUE,
                 t0 |-> Sum0(buflen), t1 |-> Sum1(buflen)])

\* hasher::digest: BLAKE2b_Final on a copy of the context pads the block that
\* was kept back, and compresses it as the last.
Final ==
    Append(log, [block |-> [i \in 1..BlockBytes |-> IF i <= buflen THEN buf[i] ELSE Zero],
                 last |-> TRUE,
                 t0 |-> Sum0(buflen), t1 |-> Sum1(buflen)])

------------------------------------------------------------------------------
(***************************************************************************)
(* Properties                                                              *)
(***************************************************************************)
TypeOK ==
    /\ log \in Seq([block : [1..BlockBytes -> Bytes], last : BOOLEAN,
                    t0 : 0..(WordMax - 1), t1 : 0..(WordMax - 1)])
    /\ t0 \in 0..(WordMax - 1) /\ t1 \in 0..(WordMax - 1)
    /\ buf \in [1..BlockBytes -> Bytes] /\ buflen \in 0..BlockBytes
    /\ in \in Seq(Bytes) /\ len \in Nat
    /\ pc \in {"idle", "fill", "bulk", "compress", "stash"}
    /\ message \in Seq(Bytes)

\* The digest is that of the bytes, in whatever pieces they were passed to
\* update and whenever a digest was taken in between: the ids of blocks agree
\* however a block came together (blake2b.cc, 206-266).
DigestOfMessage == pc = "idle" => Final = BlocksOf(message)

\* No copy or read passes the end of buf or data: what Update stashes fits (its
\* assertion, line 243, and the memcpy after it), and compress takes whole
\* blocks that are there (lines 138-140), so that its loop, which counts len
\* down to 0, meets 0 (line 203).
InBounds ==
    /\ pc = "stash" => buflen + Len(in) <= BlockBytes
    /\ pc = "compress" => /\ len <= Len(in)
                          /\ len >= BlockBytes /\ len % BlockBytes = 0
    /\ pc = "fill" => Fill <= Len(in)

------------------------------------------------------------------------------
(***************************************************************************)
(* The inductive invariant                                                 *)
(***************************************************************************)
Compressed == Len(log) * BlockBytes

\* What was compressed are whole blocks from the start of the message, none
\* of them the last.
LogIsPrefix ==
    \A i \in 1..Len(log) :
        log[i] = [block |-> [j \in 1..BlockBytes |-> message[(i - 1) * BlockBytes + j]],
                  last |-> FALSE,
                  t0 |-> (i * BlockBytes) % WordMax, t1 |-> (i * BlockBytes) \div WordMax]

\* The counter counts it.
Counted == t0 = Compressed % WordMax /\ t1 = Compressed \div WordMax

\* The rest of the message is in buf and in.
RestKept ==
    /\ Len(message) = Compressed + buflen + Len(in)
    /\ \A j \in 1..buflen : buf[j] = message[Compressed + j]
    /\ \A j \in 1..Len(in) : in[j] = message[Compressed + buflen + j]

\* A block is kept back unless nothing was hashed, and each branch of Update
\* has what it takes.
BlockKeptBack ==
    /\ pc = "idle" => in = << >> /\ (buflen = 0 => Len(message) = 0)
    /\ pc = "fill" => buflen > 0 /\ Len(in) > Fill
    /\ pc = "bulk" => buflen = 0 /\ Len(in) > 0
    /\ pc = "compress" => /\ buflen = 0
                          /\ len > 0 /\ len % BlockBytes = 0
                          /\ len < Len(in) /\ Len(in) - len <= BlockBytes
    /\ pc = "stash" => /\ buflen + Len(in) <= BlockBytes
                       /\ buflen + Len(in) = 0 => Len(message) = 0

IInv ==
    /\ TypeOK
    /\ Len(message) <= MaxLength
    /\ LogIsPrefix
    /\ Counted
    /\ RestKept
    /\ BlockKeptBack
==============================================================================

----------------------------- MODULE Hashes_proofs -----------------------------
(***************************************************************************)
(* The digest is that of the message, for every size of a block and of a   *)
(* word, every message and every way to split it over calls of update; the *)
(* fingerprint is that of the window, for every polynomial and every size  *)
(* of a word, of a byte and of the window.                                 *)
(***************************************************************************)
EXTENDS Hashes, SequenceLemmas, TLAPS

------------------------------------------------------------------------------
\* Multiplication by the size of a block is monotonic.
LEMMA MulMono ==
    ASSUME NEW a \in Int, NEW b \in Int, NEW w \in Nat, a <= b
    PROVE  a * w <= b * w
  BY SMT

\* One more block, or one less.
LEMMA MulSucc ==
    ASSUME NEW a \in Int, NEW w \in Int
    PROVE  (a + 1) * w = a * w + w /\ (a - 1) * w = a * w - w
  BY SMT

\* What division leaves.
LEMMA DivMod ==
    ASSUME NEW x \in Nat, NEW w \in Nat \ {0}
    PROVE  /\ x = (x \div w) * w + (x % w)
           /\ x \div w \in Nat /\ x % w \in 0..(w - 1)
  BY SMT

\* Quotient and remainder are unique.
LEMMA DivModUnique ==
    ASSUME NEW w \in Nat \ {0}, NEW q \in Nat, NEW r \in 0..(w - 1)
    PROVE  (q * w + r) \div w = q /\ (q * w + r) % w = r
  BY SMT

\* No block at all, and the rest.
LEMMA NoneOf ==
    ASSUME NEW w \in Nat \ {0}, NEW n \in Nat
    PROVE  0 * w + n = n
  BY SMT

\* The sum of a number of two words and a word: the sum of the low words
\* wraps, and is then less than what was added, exactly when there is a carry.
LEMMA WordsAdd ==
    ASSUME NEW w \in Nat \ {0}, NEW q \in Nat, NEW r \in 0..(w - 1),
           NEW inc \in 0..(w - 1), q * w + r + inc < w * w
    PROVE  \E s \in 0..(w - 1), c \in {0, 1} :
              /\ r + inc = c * w + s
              /\ q + c \in 0..(w - 1)
              /\ q * w + r + inc = (q + c) * w + s
              /\ c = 1 <=> s < inc
<1>1. \A k \in Nat : k * w < w * w => k < w
  <2>1. SUFFICES ASSUME NEW k \in Nat, w <= k PROVE w * w <= k * w
    BY SMT
  <2> QED BY <2>1, MulMono
<1>2. CASE r + inc < w
  <2>1. q * w < w * w /\ q * w \in Int
    BY SMT
  <2>2. q < w
    BY <1>1, <2>1
  <2>3. r + inc \in 0..(w - 1) /\ r + inc = 0 * w + (r + inc) /\ q + 0 = q /\ ~(r + inc < inc)
    BY <1>2
  <2>4. q * w + r + inc = (q + 0) * w + (r + inc)
    BY <2>3, <2>1
  <2> QED BY <2>2, <2>3, <2>4
<1>3. CASE w <= r + inc
  <2>1. PICK s \in 0..(w - 1) : r + inc = w + s /\ s < inc
    <3>1. r + inc - w \in 0..(w - 1) /\ r + inc = w + (r + inc - w) /\ r + inc - w < inc
      BY <1>3
    <3> QED BY <3>1
  <2>2. (q + 1) * w = q * w + w /\ q * w \in Int
    BY MulSucc
  <2>3. (q + 1) * w < w * w
    BY <2>2, <2>1
  <2>4. q + 1 < w /\ q + 1 \in Nat
    BY <1>1, <2>3
  <2>5. q * w + r + inc = (q + 1) * w + s
    BY <2>2, <2>1
  <2>6. r + inc = 1 * w + s
    BY <2>1
  <2> QED BY <2>1, <2>4, <2>5, <2>6
<1> QED BY <1>2, <1>3

\* Two words with the carry of compress (blake2b.cc, 143-144) count on as one
\* number does.
LEMMA CarryAdds ==
    ASSUME NEW x \in Nat, NEW inc \in 0..BlockBytes, x + inc < WordMax * WordMax,
           t0 = x % WordMax, t1 = x \div WordMax
    PROVE  Sum0(inc) = (x + inc) % WordMax /\ Sum1(inc) = (x + inc) \div WordMax
<1>0. WordMax \in Nat \ {0} /\ 0 \in Nat /\ inc \in 0..(WordMax - 1)
  BY WordAssumption
<1>1. PICK q \in Nat, r \in 0..(WordMax - 1) :
        x = q * WordMax + r /\ q = x \div WordMax /\ r = x % WordMax
  <2>1. /\ x = (x \div WordMax) * WordMax + (x % WordMax)
        /\ x \div WordMax \in Nat /\ x % WordMax \in 0..(WordMax - 1)
    BY <1>0, DivMod, Zenon
  <2> QED BY <2>1, Zenon
<1>2. q * WordMax + r + inc < WordMax * WordMax
  BY <1>1, Zenon
<1>3. PICK s \in 0..(WordMax - 1), c \in {0, 1} :
        /\ r + inc = c * WordMax + s
        /\ q + c \in 0..(WordMax - 1)
        /\ q * WordMax + r + inc = (q + c) * WordMax + s
        /\ c = 1 <=> s < inc
  BY <1>0, <1>2, WordsAdd, Zenon
<1>4. c \in Nat /\ q + c \in Nat
  BY <1>3
<1>5. (x + inc) \div WordMax = q + c /\ (x + inc) % WordMax = s
  <2>1. x + inc = (q + c) * WordMax + s
    BY <1>1, <1>3, Zenon
  <2>2. /\ ((q + c) * WordMax + s) \div WordMax = q + c
        /\ ((q + c) * WordMax + s) % WordMax = s
    BY <1>0, <1>4, DivModUnique, Zenon
  <2> QED BY <2>1, <2>2, Zenon
<1>6. Sum0(inc) = s
  <2>1. (r + inc) % WordMax = s
    BY <1>0, <1>3, <1>4, DivModUnique, ZenonT(60)
  <2> QED BY <2>1, <1>1, Zenon DEF Sum0
<1>7. Sum1(inc) = q + c
  <2>1. 0 * WordMax + (q + c) = q + c
    BY <1>0, <1>4, NoneOf, Zenon
  <2>2. (q + c) % WordMax = q + c
    <3>1. (0 * WordMax + (q + c)) % WordMax = q + c
      BY <1>0, <1>3, DivModUnique, Zenon
    <3> QED BY <3>1, <2>1, Zenon
  <2>3. (IF s < inc THEN 1 ELSE 0) = c
    BY <1>3, Zenon
  <2> QED BY <2>2, <2>3, <1>6, <1>1, Zenon DEF Sum1
<1> QED BY <1>5, <1>6, <1>7
------------------------------------------------------------------------------
Words == 0..(WordMax - 1)
Entry == [block : [1..BlockBytes -> Bytes], last : BOOLEAN, t0 : Words, t1 : Words]

\* The j-th byte of the i-th of n blocks is one of their bytes.
LEMMA ByteOfBlock ==
    ASSUME NEW w \in Nat \ {0}, NEW n \in Nat, NEW i \in 1..n, NEW j \in 1..w
    PROVE  (i - 1) * w + j \in 1..(n * w)
<1>1. i * w <= n * w /\ n * w \in Int /\ i * w \in Int
  BY MulMono
<1>2. (i - 1) * w = i * w - w
  BY MulSucc
<1>3. 0 * w <= (i - 1) * w /\ 0 * w = 0
  <2>1. 0 <= i - 1 /\ i - 1 \in Int
    OBVIOUS
  <2> QED BY <2>1, MulMono
<1> QED BY <1>1, <1>2, <1>3

\* What was compressed is a number of bytes.
LEMMA CompressedNat == TypeOK => Compressed \in Nat /\ Len(log) \in Nat
<1>1. SUFFICES ASSUME TypeOK PROVE Compressed \in Nat /\ Len(log) \in Nat
  OBVIOUS
<1>2. Len(log) \in Nat
  BY DEF TypeOK
<1>3. 0 * BlockBytes <= Len(log) * BlockBytes /\ 0 * BlockBytes = 0
  BY <1>2, MulMono, WordAssumption
<1> QED BY <1>2, <1>3, WordAssumption DEF Compressed

\* What a turn of compress does, given the next block of the message.
LEMMA CompressTurn ==
    ASSUME IInv, NEW b \in [1..BlockBytes -> Bytes],
           \A j \in 1..BlockBytes : b[j] = message[Compressed + j],
           Compressed + BlockBytes <= Len(message),
           Compress(b, BlockBytes), UNCHANGED message
    PROVE  /\ log' \in Seq(Entry) /\ t0' \in Words /\ t1' \in Words
           /\ Compressed' = Compressed + BlockBytes
           /\ LogIsPrefix' /\ Counted'
<1> DEFINE n == Len(log)
           e == [block |-> b, last |-> FALSE,
                 t0 |-> Sum0(BlockBytes), t1 |-> Sum1(BlockBytes)]
<1>1. Compressed \in Nat /\ n \in Nat /\ log \in Seq(Entry)
  BY CompressedNat DEF IInv, TypeOK, Entry, Words
<1>2. t0 \in Words /\ t1 \in Words /\ message \in Seq(Bytes) /\ Len(message) \in Nat
      /\ Len(message) <= MaxLength
  BY DEF IInv, TypeOK, Words
<1>3. (n + 1) * BlockBytes = Compressed + BlockBytes
  BY <1>1, MulSucc, WordAssumption DEF Compressed
<1>4. /\ Sum0(BlockBytes) = (Compressed + BlockBytes) % WordMax
      /\ Sum1(BlockBytes) = (Compressed + BlockBytes) \div WordMax
  <2>1. Compressed + BlockBytes < WordMax * WordMax
    <3>1. Compressed + BlockBytes <= MaxLength
      BY <1>1, <1>2, LengthAssumption, WordAssumption
    <3> QED BY <3>1, <1>1, LengthAssumption, WordAssumption
  <2>2. BlockBytes \in 0..BlockBytes
    BY WordAssumption
  <2>3. t0 = Compressed % WordMax /\ t1 = Compressed \div WordMax
    BY DEF IInv, Counted
  <2> QED BY <1>1, <2>1, <2>2, <2>3, CarryAdds, Zenon
<1>5. Sum0(BlockBytes) \in Words /\ Sum1(BlockBytes) \in Words
  BY <1>2, WordAssumption DEF Sum0, Sum1, Words
<1>6. e \in Entry
  BY <1>5 DEF Entry
<1>7. log' = Append(log, e) /\ t0' = Sum0(BlockBytes) /\ t1' = Sum1(BlockBytes)
  BY DEF Compress
<1>8. /\ log' \in Seq(Entry) /\ Len(log') = n + 1
      /\ \A i \in 1..n : log'[i] = log[i]
      /\ log'[n + 1] = e
  BY <1>1, <1>6, <1>7, AppendProperties
<1>9. Compressed' = Compressed + BlockBytes
  BY <1>8, <1>3 DEF Compressed
<1>10. Counted'
  BY <1>4, <1>7, <1>9 DEF Counted
<1>11. LogIsPrefix'
  <2>1. SUFFICES ASSUME NEW i \in 1..(n + 1)
                 PROVE  log'[i] = [block |-> [j \in 1..BlockBytes |-> message[(i - 1) * BlockBytes + j]],
                                   last |-> FALSE,
                                   t0 |-> (i * BlockBytes) % WordMax,
                                   t1 |-> (i * BlockBytes) \div WordMax]
    BY <1>8 DEF LogIsPrefix
  <2>2. CASE i \in 1..n
    BY <2>2, <1>8 DEF IInv, LogIsPrefix
  <2>3. CASE i = n + 1
    <3>1. i * BlockBytes = Compressed + BlockBytes /\ (i - 1) * BlockBytes = Compressed
      <4>1. i - 1 = n
        BY <2>3, <1>1
      <4> QED BY <4>1, <2>3, <1>3 DEF Compressed
    <3>2. b = [j \in 1..BlockBytes |-> message[(i - 1) * BlockBytes + j]]
      BY <3>1
    <3>3. log'[i] = e
      BY <2>3, <1>8
    <3> QED BY <3>1, <3>2, <3>3, <1>4
  <2> QED BY <2>2, <2>3, <1>1
<1> QED BY <1>5, <1>7, <1>8, <1>9, <1>10, <1>11
------------------------------------------------------------------------------
\* Data that were passed to update are the end of the message.
LEMMA UpdateKeeps ==
    ASSUME IInv, NEW data \in Data, Update(data)
    PROVE  IInv'
<1>1. /\ Compressed \in Nat /\ Compressed' = Compressed
      /\ log \in Seq(Entry) /\ Len(log) \in Nat
      /\ buflen \in 0..BlockBytes /\ message \in Seq(Bytes)
      /\ Len(message) = Compressed + buflen
      /\ data \in Seq(Bytes) /\ Len(data) \in Nat /\ Len(message) \in Nat
      /\ buflen = 0 => Len(message) = 0
  BY CompressedNat, DataAssumption
     DEF IInv, TypeOK, RestKept, BlockKeptBack, Update, Compressed, ctx, Entry, Words
<1>2. /\ message' = message \o data /\ in' = data
      /\ message' \in Seq(Bytes) /\ Len(message') = Len(message) + Len(data)
      /\ \A i \in 1..Len(message) : message'[i] = message[i]
      /\ \A i \in 1..Len(data) : message'[Len(message) + i] = data[i]
  <2>1. message' = message \o data /\ in' = data
    BY DEF Update
  <2>2. /\ message' \in Seq(Bytes) /\ Len(message') = Len(message) + Len(data)
        /\ \A i \in 1..(Len(message) + Len(data)) :
              message'[i] = IF i <= Len(message) THEN message[i] ELSE data[i - Len(message)]
    BY <1>1, <2>1, ConcatProperties
  <2> QED BY SMTT(40), <1>1, <2>1, <2>2
<1>3. TypeOK' /\ Len(message') <= MaxLength
  BY <1>1, <1>2 DEF IInv, TypeOK, Update, ctx
<1>4. LogIsPrefix'
  <2>1. ASSUME NEW i \in 1..Len(log), NEW j \in 1..BlockBytes
        PROVE  message'[(i - 1) * BlockBytes + j] = message[(i - 1) * BlockBytes + j]
    <3>1. (i - 1) * BlockBytes + j \in 1..Compressed
      BY <1>1, WordAssumption, ByteOfBlock DEF Compressed
    <3> QED BY <3>1, <1>1, <1>2
  <2>2. log' = log
    BY DEF Update, ctx
  <2> QED BY <2>1, <2>2 DEF IInv, LogIsPrefix
<1>5. Counted'
  BY <1>1 DEF IInv, Counted, Update, ctx
<1>6. RestKept'
  BY SMTT(40), <1>1, <1>2 DEF IInv, RestKept, Update, ctx
<1>7. BlockKeptBack'
  BY <1>1, <1>2, WordAssumption DEF IInv, BlockKeptBack, Update, Fill, ctx
<1> QED BY <1>3, <1>4, <1>5, <1>6, <1>7 DEF IInv

\* What is left of the input after its first n bytes.
LEMMA Rest ==
    ASSUME TypeOK, NEW n \in 0..Len(in)
    PROVE  /\ First(in, n) \in Seq(Bytes) /\ Len(First(in, n)) = n
           /\ \A j \in 1..n : First(in, n)[j] = in[j]
           /\ Without(in, n) \in Seq(Bytes) /\ Len(Without(in, n)) = Len(in) - n
           /\ \A j \in 1..(Len(in) - n) : Without(in, n)[j] = in[n + j]
<1>1. in \in Seq(Bytes) /\ Len(in) \in Nat /\ \A j \in 1..Len(in) : in[j] \in Bytes
  BY ElementOfSeq DEF TypeOK
<1>2. /\ SubSeq(in, 1, n) \in Seq(Bytes) /\ Len(SubSeq(in, 1, n)) = n
      /\ \A j \in 1..n : SubSeq(in, 1, n)[j] = in[j]
  <2>1. \A j \in 1..n : in[j] \in Bytes
    BY <1>1
  <2> QED BY <1>1, <2>1, SubSeqProperties
<1>3. /\ SubSeq(in, n + 1, Len(in)) \in Seq(Bytes)
      /\ Len(SubSeq(in, n + 1, Len(in))) = Len(in) - n
      /\ \A j \in 1..(Len(in) - n) : SubSeq(in, n + 1, Len(in))[j] = in[n + j]
  <2>1. \A j \in (n + 1)..Len(in) : in[j] \in Bytes
    BY <1>1
  <2> QED BY <1>1, <2>1, SubSeqProperties
<1> QED BY <1>2, <1>3 DEF First, Without

\* Filling the buffer, whose block is the next of the message.
LEMMA FillBufferKeeps ==
    ASSUME IInv, FillBuffer
    PROVE  IInv'
<1>1. /\ TypeOK /\ Compressed \in Nat /\ buflen \in 1..BlockBytes
      /\ in \in Seq(Bytes) /\ Len(in) \in Nat /\ Fill < Len(in) /\ Fill \in 0..Len(in)
      /\ Fill = BlockBytes - buflen /\ BlockBytes \in Nat \ {0}
      /\ Len(message) = Compressed + buflen + Len(in)
      /\ buf \in [1..BlockBytes -> Bytes]
  BY CompressedNat, WordAssumption DEF IInv, TypeOK, RestKept, BlockKeptBack, FillBuffer, Fill
<1>2. /\ buf' \in [1..BlockBytes -> Bytes]
      /\ \A j \in 1..BlockBytes : buf'[j] = message[Compressed + j]
  <2>1. /\ First(in, Fill) \in Seq(Bytes) /\ Len(First(in, Fill)) = Fill
        /\ \A j \in 1..Fill : First(in, Fill)[j] = in[j] /\ in[j] \in Bytes
    BY <1>1, Rest, ElementOfSeq
  <2>2. buf' = [i \in 1..BlockBytes |->
                  IF i \in (buflen + 1)..(buflen + Fill)
                  THEN First(in, Fill)[i - buflen] ELSE buf[i]]
    BY <2>1 DEF FillBuffer, Stored
  <2>3. ASSUME NEW j \in 1..BlockBytes
        PROVE  buf'[j] \in Bytes /\ buf'[j] = message[Compressed + j]
    <3>1. CASE j <= buflen
      BY <3>1, <2>2, <1>1 DEF IInv, RestKept
    <3>2. CASE j > buflen
      <4>1. j - buflen \in 1..Fill /\ j \in (buflen + 1)..(buflen + Fill)
            /\ j - buflen \in 1..Len(in) /\ Compressed + buflen + (j - buflen) = Compressed + j
        BY <3>2, <1>1
      <4>2. buf'[j] = in[j - buflen] /\ buf'[j] \in Bytes
        BY <4>1, <2>1, <2>2
      <4>3. in[j - buflen] = message[Compressed + buflen + (j - buflen)]
        BY <4>1 DEF IInv, RestKept
      <4> QED BY <4>1, <4>2, <4>3
    <3> QED BY <3>1, <3>2, <1>1
  <2> QED BY <2>2, <2>3
<1>3. /\ log' \in Seq(Entry) /\ t0' \in Words /\ t1' \in Words
      /\ Compressed' = Compressed + BlockBytes
      /\ LogIsPrefix' /\ Counted'
  <2>1. Compress(buf', BlockBytes) /\ UNCHANGED message
    BY DEF FillBuffer
  <2>2. Compressed + BlockBytes <= Len(message)
    BY <1>1
  <2> QED BY <1>2, <2>1, <2>2, CompressTurn
<1>4. /\ in' \in Seq(Bytes) /\ Len(in') = Len(in) - Fill
      /\ \A j \in 1..(Len(in) - Fill) : in'[j] = in[Fill + j]
  BY <1>1, Rest DEF FillBuffer
<1>5. TypeOK' /\ Len(message') <= MaxLength
  BY <1>1, <1>2, <1>3, <1>4 DEF IInv, TypeOK, FillBuffer, Entry, Words
<1>6. RestKept'
  <2>1. message' = message /\ buflen' = 0
    BY DEF FillBuffer
  <2>2. \A j \in 1..Len(in) : in[j] = message[Compressed + buflen + j]
    BY DEF IInv, RestKept
  <2>3. ASSUME NEW j \in 1..Len(in')
        PROVE  in'[j] = message[Compressed + BlockBytes + 0 + j]
    <3>1. Fill + j \in 1..Len(in) /\ j \in 1..(Len(in) - Fill)
          /\ Compressed + buflen + (Fill + j) = Compressed + BlockBytes + 0 + j
      BY <1>1, <1>4
    <3> QED BY <3>1, <2>2, <1>4
  <2>4. Len(message') = Compressed' + buflen' + Len(in')
    BY SMTT(40), <2>1, <1>1, <1>3, <1>4
  <2>5. \A j \in 1..Len(in') : in'[j] = message'[Compressed' + buflen' + j]
    BY <2>1, <2>3, <1>3
  <2>6. 1..buflen' = {}
    BY <2>1
  <2> QED BY <2>4, <2>5, <2>6 DEF RestKept
<1>7. BlockKeptBack'
  BY <1>1, <1>4 DEF BlockKeptBack, FillBuffer
<1> QED BY <1>3, <1>5, <1>6, <1>7 DEF IInv
\* The blocks but the last are whole, and one is left.
LEMMA BulkKeeps ==
    ASSUME IInv, Bulk
    PROVE  IInv'
<1>1. /\ buflen = 0 /\ Len(in) \in Nat \ {0} /\ BlockBytes \in Nat \ {0} /\ len \in Nat
      /\ Compressed' = Compressed
  BY WordAssumption DEF IInv, TypeOK, BlockKeptBack, Bulk, ctx, Compressed
<1>4. Len(message') <= MaxLength /\ LogIsPrefix' /\ Counted' /\ RestKept'
  <2>1. UNCHANGED <<log, t0, t1, buf, buflen, in, message>>
    BY DEF Bulk, ctx
  <2> QED BY <2>1, <1>1 DEF IInv, LogIsPrefix, Counted, RestKept
<1>2. CASE Len(in) > BlockBytes
  <2>1. len' = Len(in) - StashLen(Len(in)) /\ pc' = "compress"
    BY <1>2 DEF Bulk
  <2>2. PICK q \in Nat, r \in 0..(BlockBytes - 1) :
          Len(in) = q * BlockBytes + r /\ r = Len(in) % BlockBytes
    <3>1. /\ Len(in) = (Len(in) \div BlockBytes) * BlockBytes + (Len(in) % BlockBytes)
          /\ Len(in) \div BlockBytes \in Nat /\ Len(in) % BlockBytes \in 0..(BlockBytes - 1)
      <4>1. Len(in) \in Nat
        BY <1>1
      <4> QED BY <4>1, <1>1, DivMod, Zenon
    <3> QED BY <3>1, Zenon
  <2>3. q * BlockBytes \in Nat
    <3>1. 0 * BlockBytes <= q * BlockBytes /\ q * BlockBytes \in Int /\ 0 * BlockBytes = 0
      BY MulMono, <1>1
    <3> QED BY <3>1
  <2>4. len' > 0 /\ len' < Len(in) /\ Len(in) - len' <= BlockBytes /\ len' % BlockBytes = 0
    <3>1. CASE r = 0
      <4>1. StashLen(Len(in)) = BlockBytes
        BY <2>2, <3>1, Zenon DEF StashLen
      <4>2. (q - 1) * BlockBytes = q * BlockBytes - BlockBytes
        BY <1>1, MulSucc
      <4>a. Len(in) = q * BlockBytes + r
        BY <2>2, Zenon
      <4>b. len' = Len(in) - BlockBytes
        BY <4>1, <2>1, Zenon
      <4>3. len' = (q - 1) * BlockBytes /\ len' + BlockBytes = Len(in)
        BY <4>2, <4>a, <4>b, <2>3, <3>1, <1>1
      <4>4. q - 1 \in Nat
        <5>1. CASE q = 0
          <6>1. q * BlockBytes = 0
            BY <5>1, <1>1
          <6> QED BY <6>1, <2>2, <3>1, <1>1
        <5> QED BY <5>1
      <4>5. ((q - 1) * BlockBytes + 0) % BlockBytes = 0
        <5>1. 0 \in 0..(BlockBytes - 1)
          BY <1>1
        <5> QED BY <5>1, <4>4, <1>1, DivModUnique, Zenon
      <4>6. (q - 1) * BlockBytes + 0 = len'
        BY <4>3, <4>2, <2>3, <1>1
      <4>7. len' % BlockBytes = 0
        BY <4>5, <4>6, Zenon
      <4> QED BY <4>3, <4>7, <4>2, <2>3, <1>1, <1>2
    <3>2. CASE r # 0
      <4>1. StashLen(Len(in)) = r
        BY <2>2, <3>2, Zenon DEF StashLen
      <4>2. len' = q * BlockBytes /\ len' + r = Len(in)
        BY <4>1, <2>1, <2>2, <2>3
      <4>3. (q * BlockBytes + 0) % BlockBytes = 0
        <5>1. 0 \in 0..(BlockBytes - 1)
          BY <1>1
        <5> QED BY <5>1, <1>1, DivModUnique, Zenon
      <4>4. q * BlockBytes + 0 = len'
        BY <4>2, <2>3
      <4>5. len' % BlockBytes = 0
        BY <4>3, <4>4, Zenon
      <4> QED BY <4>2, <4>5, <2>3, <3>2, <1>1, <1>2
    <3> QED BY <3>1, <3>2
  <2>5. len' \in Nat
    <3>1. len' = q * BlockBytes + r - StashLen(Len(in)) /\ StashLen(Len(in)) \in Int
      BY <2>1, <2>2, <1>1 DEF StashLen
    <3> QED BY <3>1, <2>3, <2>4
  <2>6. BlockKeptBack'
    BY <2>1, <2>4, <1>1 DEF BlockKeptBack, Bulk, ctx
  <2>7. TypeOK'
    BY <2>1, <2>5 DEF IInv, TypeOK, Bulk, ctx
  <2> QED BY <2>6, <2>7, <1>4 DEF IInv
<1>3. CASE ~(Len(in) > BlockBytes)
  <2>1. pc' = "stash" /\ len' = len
    BY <1>3 DEF Bulk
  <2>2. BlockKeptBack'
    BY <2>1, <1>1, <1>3 DEF BlockKeptBack, Bulk, ctx
  <2>3. TypeOK'
    BY <2>1 DEF IInv, TypeOK, Bulk, ctx
  <2> QED BY <2>2, <2>3, <1>4 DEF IInv
<1> QED BY <1>2, <1>3

\* A block of the input is compressed, and another, or the rest, follows.
LEMMA CompressNextKeeps ==
    ASSUME IInv, CompressNext
    PROVE  IInv'
<1>1. /\ TypeOK /\ Compressed \in Nat /\ buflen = 0 /\ len \in Nat \ {0}
      /\ in \in Seq(Bytes) /\ Len(in) \in Nat /\ len < Len(in)
      /\ Len(in) - len <= BlockBytes
      /\ len % BlockBytes = 0 /\ BlockBytes \in Nat \ {0}
      /\ Len(message) = Compressed + Len(in)
      /\ buf \in [1..BlockBytes -> Bytes]
  BY CompressedNat, WordAssumption DEF IInv, TypeOK, RestKept, BlockKeptBack, CompressNext
<1>2. len - BlockBytes \in Nat /\ (len - BlockBytes) % BlockBytes = 0
  <2>1. PICK q \in Nat : len = q * BlockBytes + 0
    <3>1. /\ len = (len \div BlockBytes) * BlockBytes + (len % BlockBytes)
          /\ len \div BlockBytes \in Nat
      <4>1. len \in Nat
        BY <1>1
      <4> QED BY <4>1, <1>1, DivMod, Zenon
    <3> QED BY <3>1, <1>1, Zenon
  <2>2. q - 1 \in Nat
    <3>1. CASE q = 0
      <4>1. q * BlockBytes = 0
        BY <3>1, <1>1
      <4> QED BY <4>1, <2>1, <1>1
    <3> QED BY <3>1
  <2>3. (q - 1) * BlockBytes = q * BlockBytes - BlockBytes /\ q * BlockBytes \in Int
    BY <1>1, MulSucc
  <2>4. 0 * BlockBytes <= (q - 1) * BlockBytes /\ 0 * BlockBytes = 0
    BY <2>2, <1>1, MulMono
  <2>5. ((q - 1) * BlockBytes + 0) % BlockBytes = 0
    <3>1. 0 \in 0..(BlockBytes - 1)
      BY <1>1
    <3> QED BY <3>1, <2>2, <1>1, DivModUnique, Zenon
  <2>6. (q - 1) * BlockBytes + 0 = len - BlockBytes
    BY <2>1, <2>3, <1>1
  <2>7. (len - BlockBytes) % BlockBytes = 0
    BY <2>5, <2>6, Zenon
  <2> QED BY <2>7, <2>3, <2>4, <2>1, <1>1
<1>3. BlockBytes \in 0..Len(in) /\ Len(in) - BlockBytes > 0
  BY <1>1, <1>2
<1>4. /\ First(in, BlockBytes) \in Seq(Bytes) /\ Len(First(in, BlockBytes)) = BlockBytes
      /\ \A j \in 1..BlockBytes : First(in, BlockBytes)[j] = in[j]
      /\ in' \in Seq(Bytes) /\ Len(in') = Len(in) - BlockBytes
      /\ \A j \in 1..(Len(in) - BlockBytes) : in'[j] = in[BlockBytes + j]
  BY <1>1, <1>3, Rest DEF CompressNext
<1>5. \A j \in 1..Len(in) : in[j] = message[Compressed + j]
  <2>1. \A j \in 1..Len(in) : in[j] = message[Compressed + buflen + j]
    BY DEF IInv, RestKept
  <2> QED BY <2>1, <1>1
<1>6. /\ log' \in Seq(Entry) /\ t0' \in Words /\ t1' \in Words
      /\ Compressed' = Compressed + BlockBytes
      /\ LogIsPrefix' /\ Counted'
  <2>1. Compress(First(in, BlockBytes), BlockBytes) /\ UNCHANGED message
    BY DEF CompressNext
  <2>2. Compressed + BlockBytes <= Len(message)
    BY <1>1, <1>3
  <2>3. First(in, BlockBytes) \in [1..BlockBytes -> Bytes]
    BY <1>4
  <2>4. \A j \in 1..BlockBytes : First(in, BlockBytes)[j] = message[Compressed + j]
    <3>1. \A j \in 1..BlockBytes : j \in 1..Len(in)
      BY <1>1, <1>3
    <3> QED BY <1>4, <1>5, <3>1, Zenon
  <2> QED BY <2>1, <2>2, <2>3, <2>4, CompressTurn
<1>7. TypeOK' /\ Len(message') <= MaxLength
  <2>1. len' \in Nat
    BY <1>2 DEF CompressNext
  <2>2. pc' \in {"stash", "compress"}
    BY DEF CompressNext
  <2> QED BY <2>1, <2>2, <1>4, <1>6 DEF IInv, TypeOK, CompressNext, Entry, Words
<1>8. RestKept'
  <2>1. message' = message /\ buflen' = 0 /\ 1..0 = {}
    BY <1>1 DEF CompressNext
  <2>2. ASSUME NEW j \in 1..Len(in')
        PROVE  in'[j] = message[Compressed + BlockBytes + 0 + j]
    <3>1. BlockBytes + j \in 1..Len(in) /\ j \in 1..(Len(in) - BlockBytes)
          /\ Compressed + (BlockBytes + j) = Compressed + BlockBytes + 0 + j
      BY SMTT(40), <1>1, <1>3, <1>4
    <3> QED BY <3>1, <1>4, <1>5
  <2>3. Len(message') = Compressed' + buflen' + Len(in')
    BY <2>1, <1>1, <1>4, <1>6
  <2> QED BY <2>1, <2>2, <2>3, <1>6 DEF RestKept
<1>9. BlockKeptBack'
  BY <1>1, <1>2, <1>3, <1>4 DEF BlockKeptBack, CompressNext
<1> QED BY <1>6, <1>7, <1>8, <1>9 DEF IInv
\* The rest of the input joins what is kept back.
LEMMA StashKeeps ==
    ASSUME IInv, Stash
    PROVE  IInv'
<1>1. /\ Compressed \in Nat /\ Compressed' = Compressed
      /\ buflen \in Nat /\ in \in Seq(Bytes) /\ Len(in) \in Nat
      /\ buflen + Len(in) <= BlockBytes /\ BlockBytes \in Nat
      /\ buflen + Len(in) = 0 => Len(message) = 0
      /\ Len(message) = Compressed + buflen + Len(in)
      /\ buf \in [1..BlockBytes -> Bytes]
      /\ \A j \in 1..Len(in) : in[j] \in Bytes
  BY CompressedNat, WordAssumption, ElementOfSeq
     DEF IInv, TypeOK, RestKept, BlockKeptBack, Stash, Compressed
<1>2. /\ in' = << >> /\ Len(in') = 0 /\ buflen' = buflen + Len(in)
      /\ UNCHANGED <<log, t0, t1, len, message>> /\ pc' = "idle"
      /\ buf' = [i \in 1..BlockBytes |->
                    IF i \in (buflen + 1)..(buflen + Len(in)) THEN in[i - buflen] ELSE buf[i]]
  BY DEF Stash, Stored
<1>3. buf' \in [1..BlockBytes -> Bytes]
  <2>1. ASSUME NEW i \in 1..BlockBytes, i \in (buflen + 1)..(buflen + Len(in))
        PROVE  in[i - buflen] \in Bytes
    BY <2>1, <1>1
  <2> QED BY <2>1, <1>1, <1>2
<1>4. TypeOK'
  <2>1. buflen' \in 0..BlockBytes /\ in' \in Seq(Bytes)
    BY <1>1, <1>2
  <2> QED BY <2>1, <1>2, <1>3 DEF IInv, TypeOK
<1>5. Len(message') <= MaxLength /\ LogIsPrefix' /\ Counted'
  <2>1. log' = log /\ t0' = t0 /\ t1' = t1 /\ message' = message
    BY <1>2
  <2>2. LogIsPrefix'
    BY <2>1 DEF IInv, LogIsPrefix
  <2>3. Counted'
    BY <2>1, <1>1 DEF IInv, Counted
  <2> QED BY <2>1, <2>2, <2>3 DEF IInv
<1>6. RestKept'
  <2>1. ASSUME NEW j \in 1..(buflen + Len(in))
        PROVE  buf'[j] = message[Compressed + j]
    <3>1. CASE j <= buflen
      BY <3>1, <1>1, <1>2 DEF IInv, RestKept
    <3>2. CASE j > buflen
      <4>1. j - buflen \in 1..Len(in) /\ j \in (buflen + 1)..(buflen + Len(in))
            /\ j \in 1..BlockBytes /\ Compressed + buflen + (j - buflen) = Compressed + j
        BY <3>2, <1>1
      <4>2. buf'[j] = in[j - buflen]
        BY <4>1, <1>2
      <4>3. in[j - buflen] = message[Compressed + buflen + (j - buflen)]
        BY <4>1 DEF IInv, RestKept
      <4> QED BY <4>1, <4>2, <4>3
    <3> QED BY <3>1, <3>2, <1>1
  <2>2. Len(message') = Compressed' + buflen' + Len(in') /\ 1..Len(in') = {}
    BY <1>1, <1>2
  <2> QED BY <2>1, <2>2, <1>1, <1>2 DEF RestKept
<1>7. BlockKeptBack'
  BY <1>1, <1>2 DEF BlockKeptBack
<1> QED BY <1>4, <1>5, <1>6, <1>7 DEF IInv

------------------------------------------------------------------------------
\* A new hasher.
LEMMA InitIInv == Init => IInv
<1>1. SUFFICES ASSUME Init PROVE IInv
  OBVIOUS
<1>2. WordMax \in Nat \ {0} /\ BlockBytes \in Nat \ {0} /\ 0 \in 0..(WordMax - 1)
  BY WordAssumption
<1>3. TypeOK
  BY <1>1, <1>2, BytesAssumption DEF Init, TypeOK
<1>4. Len(log) = 0 /\ Len(message) = 0 /\ Len(in) = 0 /\ 1..0 = {} /\ Compressed = 0
  <2>1. Len(log) = 0 /\ Len(message) = 0 /\ Len(in) = 0 /\ 1..0 = {}
    BY <1>1 DEF Init
  <2> QED BY <2>1, <1>2 DEF Compressed
<1>5. Counted
  <2>1. (0 * WordMax + 0) % WordMax = 0 /\ (0 * WordMax + 0) \div WordMax = 0
    <3>1. 0 \in Nat
      OBVIOUS
    <3> QED BY <3>1, <1>2, DivModUnique, Zenon
  <2>2. 0 * WordMax + 0 = 0
    BY <1>2
  <2>3. 0 % WordMax = 0 /\ 0 \div WordMax = 0
    BY <2>1, <2>2, Zenon
  <2> QED BY <2>3, <1>1, <1>4, Zenon DEF Init, Counted
<1>6. RestKept /\ LogIsPrefix /\ Len(message) <= MaxLength
  BY <1>1, <1>4, LengthAssumption DEF Init, RestKept, LogIsPrefix
<1>7. BlockKeptBack
  BY <1>1, <1>4 DEF Init, BlockKeptBack
<1> QED BY <1>3, <1>5, <1>6, <1>7 DEF IInv

\* Every step keeps the invariant.
LEMMA NextIInv == IInv /\ [Next]_vars => IInv'
<1>1. SUFFICES ASSUME IInv, [Next]_vars PROVE IInv'
  OBVIOUS
<1>2. CASE FillBuffer
  BY <1>1, <1>2, FillBufferKeeps
<1>3. CASE Bulk
  BY <1>1, <1>3, BulkKeeps
<1>4. CASE CompressNext
  BY <1>1, <1>4, CompressNextKeeps
<1>5. CASE Stash
  BY <1>1, <1>5, StashKeeps
<1>6. ASSUME NEW data \in Data, Update(data) PROVE IInv'
  BY <1>1, <1>6, UpdateKeeps
<1>7. CASE UNCHANGED vars
  BY <1>1, <1>7 DEF vars, ctx, IInv, TypeOK, LogIsPrefix, Counted, RestKept, BlockKeptBack,
                    Compressed, Fill
<1> QED BY <1>1, <1>2, <1>3, <1>4, <1>5, <1>6, <1>7 DEF Next

\* The invariant the digest rests on: what was compressed, what is kept back
\* and what is still to be read are the message, in this order, and a block is
\* kept back for Final unless there is none.
THEOREM Invariance == Spec => []IInv
<1>1. Init => IInv
  BY InitIInv
<1>2. IInv /\ [Next]_vars => IInv'
  BY NextIInv
<1> QED BY <1>1, <1>2, PTL DEF Spec

\* The context keeps its types, the counters their width.
THEOREM TypeCorrect == Spec => []TypeOK
<1>1. IInv => TypeOK
  BY DEF IInv
<1> QED BY <1>1, Invariance, PTL

\* Neither the memcpys of Update nor the loop of compress leave buf and data,
\* and that loop ends (blake2b.cc, 138-140, 203, 243-245).
THEOREM NeverOutOfBounds == Spec => []InBounds
<1>1. IInv => InBounds
  <2>1. SUFFICES ASSUME IInv PROVE InBounds
    OBVIOUS
  <2>2. Len(in) \in Nat /\ len \in Nat /\ BlockBytes \in Nat \ {0} /\ Fill \in Int
    BY <2>1, WordAssumption DEF IInv, TypeOK, Fill
  <2>3. pc = "compress" => len >= BlockBytes
    <3>1. SUFFICES ASSUME pc = "compress" PROVE len >= BlockBytes
      OBVIOUS
    <3>2. len % BlockBytes = 0 /\ len > 0
      BY <2>1, <3>1 DEF IInv, BlockKeptBack
    <3>3. CASE len < BlockBytes
      <4>1. 0 * BlockBytes + len = len /\ len \in 0..(BlockBytes - 1) /\ 0 \in Nat
        BY <3>3, <2>2
      <4>2. (0 * BlockBytes + len) % BlockBytes = len
        BY <4>1, <2>2, DivModUnique, Zenon
      <4>3. len = 0
        BY <4>1, <4>2, <3>2, Zenon
      <4> QED BY <4>3, <3>2
    <3> QED BY <3>3, <2>2
  <2>4. pc = "fill" => Fill <= Len(in)
    BY <2>1, <2>2 DEF IInv, BlockKeptBack
  <2>5. pc = "compress" => len <= Len(in) /\ len % BlockBytes = 0
    BY <2>1, <2>2 DEF IInv, BlockKeptBack
  <2>6. pc = "stash" => buflen + Len(in) <= BlockBytes
    BY <2>1 DEF IInv, BlockKeptBack
  <2> QED BY <2>3, <2>4, <2>5, <2>6 DEF InBounds
<1> QED BY <1>1, Invariance, PTL
------------------------------------------------------------------------------
\* When Update has returned, BLAKE2 has one block more than was compressed.
LEMMA OneBlockKept ==
    ASSUME IInv, pc = "idle"
    PROVE  /\ Len(message) = Compressed + buflen
           /\ Blocks(Len(message)) = Len(log) + 1
           /\ buflen = 0 => Len(log) = 0
<1> DEFINE n == Len(log)
<1>1. /\ Compressed \in Nat /\ n \in Nat /\ Compressed = n * BlockBytes
      /\ buflen \in 0..BlockBytes /\ BlockBytes \in Nat \ {0}
  BY CompressedNat, WordAssumption DEF IInv, TypeOK, Compressed
<1>2. Len(message) = Compressed + buflen /\ (buflen = 0 => Len(message) = 0)
  BY <1>1 DEF IInv, BlockKeptBack, RestKept
<1>3. CASE buflen = 0
  <2>1. Compressed = 0
    BY <1>1, <1>2, <1>3
  <2>2. n = 0
    <3>1. SUFFICES ASSUME 1 <= n PROVE FALSE
      BY <1>1
    <3>2. 1 * BlockBytes <= n * BlockBytes
      BY <3>1, <1>1, MulMono
    <3>3. BlockBytes <= n * BlockBytes /\ n * BlockBytes = 0
      BY <3>2, <2>1, <1>1
    <3> QED BY <3>3, <1>1
  <2> QED BY <1>1, <1>2, <1>3, <2>2 DEF Blocks
<1>4. CASE buflen # 0
  <2>1. buflen - 1 \in 0..(BlockBytes - 1) /\ n + 1 \in Nat
    BY <1>1, <1>4
  <2>2. ((n + 1) * BlockBytes + (buflen - 1)) \div BlockBytes = n + 1
    BY <2>1, <1>1, DivModUnique, Zenon
  <2>3. (n + 1) * BlockBytes = n * BlockBytes + BlockBytes
    BY <1>1, MulSucc
  <2>4. (n + 1) * BlockBytes + (buflen - 1) = Len(message) + BlockBytes - 1
    BY <2>3, <1>1, <1>2
  <2>5. Len(message) # 0
    BY <1>1, <1>2, <1>4
  <2>6. (Len(message) + BlockBytes - 1) \div BlockBytes = n + 1
    BY <2>2, <2>4, Zenon
  <2> QED BY <2>5, <2>6, <1>2, <1>4, Zenon DEF Blocks
<1> QED BY <1>3, <1>4

\* Block by block, what Final compresses is what BLAKE2 compresses.
LEMMA FinalIsBlocks ==
    ASSUME IInv, pc = "idle"
    PROVE  Final = BlocksOf(message)
<1> DEFINE n == Len(log)
           last == [block |-> [i \in 1..BlockBytes |-> IF i <= buflen THEN buf[i] ELSE Zero],
                    last |-> TRUE, t0 |-> Sum0(buflen), t1 |-> Sum1(buflen)]
           ref(i) == [block |-> BlockOf(message, i), last |-> i = n + 1,
                      t0 |-> CountAt(message, i) % WordMax,
                      t1 |-> CountAt(message, i) \div WordMax]
<1>1. /\ Compressed \in Nat /\ n \in Nat /\ Compressed = n * BlockBytes
      /\ buflen \in 0..BlockBytes /\ BlockBytes \in Nat \ {0} /\ WordMax \in Nat \ {0}
      /\ log \in Seq(Entry) /\ buf \in [1..BlockBytes -> Bytes]
      /\ t0 \in Words /\ t1 \in Words /\ Len(message) <= MaxLength
  BY CompressedNat, WordAssumption DEF IInv, TypeOK, Compressed, Entry, Words
<1>2. /\ Len(message) = Compressed + buflen
      /\ Blocks(Len(message)) = n + 1
      /\ buflen = 0 => n = 0
  BY OneBlockKept
<1>3. Sum0(buflen) = Len(message) % WordMax /\ Sum1(buflen) = Len(message) \div WordMax
  <2>1. Compressed + buflen < WordMax * WordMax
    BY <1>1, <1>2, LengthAssumption
  <2>2. t0 = Compressed % WordMax /\ t1 = Compressed \div WordMax
    BY DEF IInv, Counted
  <2>3. /\ Sum0(buflen) = (Compressed + buflen) % WordMax
        /\ Sum1(buflen) = (Compressed + buflen) \div WordMax
    BY <2>1, <2>2, <1>1, CarryAdds, Zenon
  <2> QED BY <2>3, <1>2, Zenon
<1>4. last \in Entry
  <2>1. Sum0(buflen) \in Words /\ Sum1(buflen) \in Words
    BY <1>1 DEF Sum0, Sum1, Words
  <2> QED BY <2>1, <1>1, BytesAssumption DEF Entry
<1>5. /\ Final \in Seq(Entry) /\ Len(Final) = n + 1
      /\ \A i \in 1..n : Final[i] = log[i]
      /\ Final[n + 1] = last
  <2>1. Final = Append(log, last)
    BY DEF Final
  <2> HIDE DEF last
  <2> QED BY <2>1, <1>1, <1>4, AppendProperties
<1>6. ASSUME NEW i \in 1..n
      PROVE  log[i] = ref(i)
  <2>1. i * BlockBytes <= Compressed /\ i * BlockBytes \in Nat
    <3>1. i * BlockBytes <= n * BlockBytes /\ i * BlockBytes \in Int
      BY <1>1, MulMono
    <3>2. 0 * BlockBytes <= i * BlockBytes /\ 0 * BlockBytes = 0
      <4>1. 0 <= i
        OBVIOUS
      <4> QED BY <4>1, <1>1, MulMono
    <3> QED BY <3>1, <3>2, <1>1
  <2>2. CountAt(message, i) = i * BlockBytes
    BY <2>1, <1>1, <1>2 DEF CountAt
  <2>3. ASSUME NEW j \in 1..BlockBytes
        PROVE  (i - 1) * BlockBytes + j <= Len(message)
    <3>1. (i - 1) * BlockBytes + j \in 1..Compressed
      BY <1>1, ByteOfBlock
    <3> QED BY <3>1, <1>1, <1>2
  <2>4. BlockOf(message, i) = [j \in 1..BlockBytes |-> message[(i - 1) * BlockBytes + j]]
    BY <2>3 DEF BlockOf
  <2>5. log[i] = [block |-> [j \in 1..BlockBytes |-> message[(i - 1) * BlockBytes + j]],
                  last |-> FALSE,
                  t0 |-> (i * BlockBytes) % WordMax, t1 |-> (i * BlockBytes) \div WordMax]
    BY DEF IInv, LogIsPrefix
  <2>6. (i = n + 1) = FALSE
    BY <1>1
  <2> QED BY <2>2, <2>4, <2>5, <2>6
<1>7. last = ref(n + 1)
  <2>1. (n + 1) * BlockBytes = Compressed + BlockBytes
    BY <1>1, MulSucc
  <2>2. CountAt(message, n + 1) = Len(message)
    BY <2>1, <1>1, <1>2 DEF CountAt
  <2>3. BlockOf(message, n + 1)
          = [i \in 1..BlockBytes |-> IF i <= buflen THEN buf[i] ELSE Zero]
    <3>1. n + 1 - 1 = n
      BY <1>1
    <3>2. ASSUME NEW j \in 1..BlockBytes
          PROVE  (IF Compressed + j <= Len(message) THEN message[Compressed + j] ELSE Zero)
                   = (IF j <= buflen THEN buf[j] ELSE Zero)
      <4>1. Compressed + j <= Len(message) <=> j <= buflen
        BY <1>1, <1>2
      <4>2. j <= buflen => buf[j] = message[Compressed + j]
        BY <1>1 DEF IInv, RestKept
      <4> QED BY <4>1, <4>2, Zenon
    <3>3. BlockOf(message, n + 1) =
            [j \in 1..BlockBytes |-> IF Compressed + j <= Len(message)
                                     THEN message[Compressed + j] ELSE Zero]
      BY <3>1, <1>1 DEF BlockOf
    <3> QED BY <3>2, <3>3
  <2> QED BY <2>2, <2>3, <1>3
<1>8. BlocksOf(message) = [i \in 1..(n + 1) |-> ref(i)]
  BY <1>2 DEF BlocksOf
<1>9. \A i \in 1..(n + 1) : Final[i] = ref(i)
  <2>1. SUFFICES ASSUME NEW i \in 1..(n + 1) PROVE Final[i] = ref(i)
    OBVIOUS
  <2>2. CASE i \in 1..n
    BY <2>2, <1>5, <1>6
  <2>3. CASE i = n + 1
    BY <2>3, <1>5, <1>7
  <2> QED BY <2>2, <2>3, <1>1
<1>10. Final = [i \in 1..(n + 1) |-> Final[i]]
  <2>1. Final \in [1..Len(Final) -> Entry]
    BY <1>5, LenProperties
  <2> QED BY <2>1, <1>5
<1> HIDE DEF ref, n
<1> QED BY <1>8, <1>9, <1>10

\* A digest taken between two calls of update is that of the message, however
\* the calls split it.
THEOREM DigestCorrect == Spec => []DigestOfMessage
<1>1. IInv => DigestOfMessage
  BY FinalIsBlocks DEF DigestOfMessage
<1> QED BY <1>1, Invariance, PTL

------------------------------------------------------------------------------
(***************************************************************************)
(* Polynomials                                                             *)
(***************************************************************************)
Polynomials == SUBSET Nat

\* The sum of two, and the product with a power.
x ^^ y   == (x \ y) \cup (y \ x)
Up(x, n) == {i + n : i \in x}

\* The multiples of d, as the least set that d generates; with the powers in N
\* only, those by a polynomial that has no others.
Closed(S, d, N) == {} \in S /\ \A x \in S, n \in N : x ^^ Up(d, n) \in S

Generated(d, N) ==
    {z \in Polynomials : \A S \in SUBSET Polynomials : Closed(S, d, N) => z \in S}

Multiples(d) == Generated(d, Nat)

\* x and y leave the same remainder by d.
Same(x, y, d) == x ^^ y \in Multiples(d)

\* They form a group, in which everything is its own inverse.
LEMMA SumLaws ==
    ASSUME NEW x, NEW y, NEW z
    PROVE  /\ x ^^ {} = x /\ {} ^^ x = x /\ x ^^ x = {} /\ x ^^ y = y ^^ x
           /\ (x ^^ y) ^^ z = x ^^ (y ^^ z)
BY DEF ^^

\* A sum has no other powers than its terms.
LEMMA SumIn ==
    ASSUME NEW S, NEW x \in SUBSET S, NEW y \in SUBSET S
    PROVE  x ^^ y \in SUBSET S
BY DEF ^^

\* The sum of two polynomials is one.
LEMMA SumType ==
    ASSUME NEW x \in Polynomials, NEW y \in Polynomials
    PROVE  x ^^ y \in Polynomials
BY SumIn, Zenon DEF Polynomials

\* What is added twice goes away.
LEMMA SumTwice ==
    ASSUME NEW x, NEW y
    PROVE  (x ^^ y) ^^ y = x /\ x ^^ (x ^^ y) = y
BY DEF ^^

\* Terms of four sums.
LEMMA SumSwap ==
    ASSUME NEW a, NEW b, NEW c, NEW e
    PROVE  (a ^^ b) ^^ (c ^^ e) = (a ^^ c) ^^ (b ^^ e)
BY DEF ^^

\* A product by a power of x is a polynomial.
LEMMA UpType ==
    ASSUME NEW x \in Polynomials, NEW n \in Nat
    PROVE  Up(x, n) \in Polynomials
BY DEF Up, Polynomials

\* The power may be 0, and so may be the polynomial.
LEMMA UpNone ==
    ASSUME NEW x \in Polynomials, NEW n \in Nat
    PROVE  Up(x, 0) = x /\ Up({}, n) = {}
<1>1. \A i \in x : i \in Nat /\ i + 0 = i
    BY DEF Polynomials
<1> QED
    BY <1>1 DEF Up

\* The product distributes over the sum.
LEMMA UpSum ==
    ASSUME NEW x \in Polynomials, NEW y \in Polynomials, NEW n \in Nat
    PROVE  Up(x ^^ y, n) = Up(x, n) ^^ Up(y, n)
<1>1. \A i, j \in Nat : i + n = j + n => i = j
    OBVIOUS
<1> QED
    BY <1>1 DEF Up, Polynomials, ^^

\* Two powers multiply to one.
LEMMA UpTwice ==
    ASSUME NEW x \in Polynomials, NEW m \in Nat, NEW n \in Nat
    PROVE  Up(Up(x, m), n) = Up(x, m + n)
<1>1. \A i \in Nat : (i + m) + n = i + (m + n)
    OBVIOUS
<1> QED
    BY <1>1 DEF Up, Polynomials

\* What is generated is such a set itself.
LEMMA GeneratedClosed ==
    ASSUME NEW d \in Polynomials, NEW N \in SUBSET Nat
    PROVE  Closed(Generated(d, N), d, N) /\ Generated(d, N) \subseteq Polynomials
<1>1. {} \in Generated(d, N)
    BY DEF Generated, Closed, Polynomials
<1>2. ASSUME NEW x \in Generated(d, N), NEW n \in N PROVE x ^^ Up(d, n) \in Generated(d, N)
    <2>1. x ^^ Up(d, n) \in Polynomials
        BY UpType, UpNone, UpSum, UpTwice, SumType DEF Generated
    <2>2. ASSUME NEW S \in SUBSET Polynomials, Closed(S, d, N) PROVE x ^^ Up(d, n) \in S
        BY <2>2 DEF Generated, Closed
    <2> QED
        BY <2>1, <2>2 DEF Generated
<1> QED
    BY <1>1, <1>2 DEF Closed, Generated

\* So do all the multiples.
LEMMA MultiplesClosed ==
    ASSUME NEW d \in Polynomials
    PROVE  Closed(Multiples(d), d, Nat) /\ Multiples(d) \subseteq Polynomials
BY GeneratedClosed DEF Multiples

\* A set that is closed has them all.
LEMMA MultiplesIn ==
    ASSUME NEW d, NEW N, NEW S \in SUBSET Polynomials, Closed(S, d, N)
    PROVE  Generated(d, N) \subseteq S
BY DEF Generated

\* Powers of d are multiples.
LEMMA PowersAre ==
    ASSUME NEW d \in Polynomials, NEW n \in Nat
    PROVE  Up(d, n) \in Multiples(d)
<1>1. {} ^^ Up(d, n) \in Multiples(d)
    BY MultiplesClosed DEF Closed
<1> QED
    BY <1>1, SumLaws

\* So are sums of multiples,
LEMMA SumsAre ==
    ASSUME NEW d \in Polynomials, NEW x \in Multiples(d), NEW y \in Multiples(d)
    PROVE  x ^^ y \in Multiples(d)
<1> DEFINE S == {z \in Polynomials : z ^^ y \in Multiples(d)}
<1>1. {} \in S
    BY SumLaws DEF Polynomials
<1>2. ASSUME NEW z \in S, NEW n \in Nat PROVE z ^^ Up(d, n) \in S
    <2>1. z ^^ Up(d, n) \in Polynomials
        BY UpType, UpNone, UpSum, UpTwice, SumType
    <2>2. (z ^^ Up(d, n)) ^^ y = (z ^^ y) ^^ Up(d, n)
        BY SumLaws
    <2>3. (z ^^ y) ^^ Up(d, n) \in Multiples(d)
        BY MultiplesClosed DEF Closed
    <2> QED
        BY <2>1, <2>2, <2>3
<1>3. Closed(S, d, Nat) /\ S \in SUBSET Polynomials
    <2> HIDE DEF S
    <2> QED
        BY <1>1, <1>2 DEF Closed, S
<1> QED
    BY <1>3, MultiplesIn DEF Multiples

\* and products of a multiple and a power.
LEMMA ProductsAre ==
    ASSUME NEW d \in Polynomials, NEW x \in Multiples(d), NEW n \in Nat
    PROVE  Up(x, n) \in Multiples(d)
<1> DEFINE S == {z \in Polynomials : Up(z, n) \in Multiples(d)}
<1>1. {} \in S
    <2>1. {} \in Polynomials
        BY DEF Polynomials
    <2>2. Up({}, n) = {}
        BY DEF Up
    <2> QED
        BY <2>1, <2>2, MultiplesClosed DEF Closed
<1>2. ASSUME NEW z \in S, NEW m \in Nat PROVE z ^^ Up(d, m) \in S
    <2>1. z ^^ Up(d, m) \in Polynomials /\ Up(d, m) \in Polynomials
        BY UpType, UpNone, UpSum, UpTwice, SumType
    <2>2. Up(z ^^ Up(d, m), n) = Up(z, n) ^^ Up(d, m + n)
        BY <2>1, UpType, UpNone, UpSum, UpTwice
    <2>3. Up(z, n) ^^ Up(d, m + n) \in Multiples(d)
        BY MultiplesClosed DEF Closed
    <2> QED
        BY <2>1, <2>2, <2>3
<1>3. Closed(S, d, Nat) /\ S \in SUBSET Polynomials
    <2> HIDE DEF S
    <2> QED
        BY <1>1, <1>2 DEF Closed, S
<1> QED
    BY <1>3, MultiplesIn DEF Multiples

\* The least power that a multiple of d has.
Reaches(z, k) == z # {} => \E i \in z : i >= k

\* With the powers below n, a multiple has none above n + k and, unless it is
\* zero, one from k on: the last that was added stays.
LEMMA TopStays ==
    ASSUME NEW k \in Nat, NEW d \in SUBSET (0..k), k \in d
    PROVE  \A n \in Nat : \A z \in Generated(d, 0..(n - 1)) :
              z \in SUBSET (0..(k + n - 1)) /\ Reaches(z, k)
<1> DEFINE G(n) == Generated(d, 0..(n - 1))
           P(n) == \A z \in G(n) : z \in SUBSET (0..(k + n - 1)) /\ Reaches(z, k)
           V == {n \in Nat : P(n)}
<1>0. d \in Polynomials
    BY DEF Polynomials
<1>1. P(0)
    <2> DEFINE S == {{}}
    <2>1. Closed(S, d, 0..(0 - 1)) /\ S \in SUBSET Polynomials
        BY DEF Closed, Polynomials
    <2>2. G(0) \subseteq S
        BY <2>1, MultiplesIn
    <2> QED
        BY <2>2 DEF Reaches
<1>2. ASSUME NEW n \in Nat, P(n) PROVE P(n + 1)
    <2> DEFINE S == {z \in Polynomials : z \in G(n) \/ z ^^ Up(d, n) \in G(n)}
    <2>1. Up(d, n) \in Polynomials /\ Up(d, n) \in SUBSET (0..(k + n)) /\ k + n \in Up(d, n)
        BY <1>0 DEF Up, Polynomials
    <2>2. Closed(G(n), d, 0..(n - 1)) /\ G(n) \subseteq Polynomials
        BY <1>0, GeneratedClosed
    <2>3. Closed(S, d, 0..((n + 1) - 1))
        <3>1. {} \in S
            BY <2>2 DEF Closed, Polynomials
        <3>2. ASSUME NEW z \in S, NEW m \in 0..((n + 1) - 1) PROVE z ^^ Up(d, m) \in S
            <4>1. z \in Polynomials /\ m \in Nat /\ Up(d, m) \in Polynomials
                BY <1>0, UpType, UpNone, UpSum, UpTwice
            <4>2. z ^^ Up(d, m) \in Polynomials
                BY <4>1, SumType
            <4>3. CASE m = n
                <5>1. (z ^^ Up(d, n)) ^^ Up(d, n) = z
                    BY SumTwice
                <5> HIDE DEF G
                <5> QED
                    BY <4>2, <4>3, <5>1
            <4>4. CASE m \in 0..(n - 1)
                <5>1. (z ^^ Up(d, m)) ^^ Up(d, n) = (z ^^ Up(d, n)) ^^ Up(d, m)
                    BY SumLaws
                <5> QED
                    BY <2>2, <4>2, <4>4, <5>1 DEF Closed
            <4> QED
                BY <4>3, <4>4
        <3> QED
            <4> HIDE DEF S
            <4> QED
                BY <3>1, <3>2 DEF Closed
    <2>4. G(n + 1) \subseteq S
        BY <2>3, MultiplesIn
    <2> SUFFICES ASSUME NEW z \in G(n + 1)
                 PROVE  z \in SUBSET (0..(k + (n + 1) - 1)) /\ Reaches(z, k)
        OBVIOUS
    <2> HIDE DEF G
    <2>5. CASE z \in G(n)
        BY <1>2, <2>5
    <2>6. CASE z ^^ Up(d, n) \in G(n)
        <3> DEFINE y == z ^^ Up(d, n)
        <3>1. y \in SUBSET (0..(k + n - 1)) /\ z = y ^^ Up(d, n)
            BY <1>2, <2>6, SumTwice
        <3> HIDE DEF y
        <3>2. k + n \notin y /\ y \in SUBSET (0..(k + n))
            BY <3>1
        <3>3. z \in SUBSET (0..(k + n)) /\ k + n \in z
            <4>1. z \in SUBSET (0..(k + n))
                <5>1. y ^^ Up(d, n) \in SUBSET (0..(k + n))
                    <6> DEFINE I == 0..(k + n)
                    <6>1. y \in SUBSET I /\ Up(d, n) \in SUBSET I
                        BY <2>1, <3>2
                    <6> HIDE DEF I
                    <6>2. y ^^ Up(d, n) \in SUBSET I
                        BY <6>1, SumIn
                    <6> QED
                        BY <6>2 DEF I
                <5> QED
                    BY Zenon, <3>1, <5>1
            <4>2. k + n \in y ^^ Up(d, n)
                BY <2>1, <3>2 DEF ^^
            <4> QED
                BY <3>1, <4>1, <4>2
        <3>4. Reaches(z, k)
            BY <3>3 DEF Reaches
        <3> QED
            BY <3>3, <3>4
    <2> QED
        BY <2>4, <2>5, <2>6
<1>3. \A n \in Nat : n \in V
    <2>1. 0 \in V /\ \A n \in Nat : n \in V => n + 1 \in V
        <3> HIDE DEF P
        <3> QED
            BY <1>1, <1>2
    <2> HIDE DEF V
    <2> QED
        BY <2>1, Induction
<1> QED
    BY <1>3

\* A multiple of d without a power from that of d on is zero.
LEMMA SmallMultiple ==
    ASSUME NEW k \in Nat, NEW d \in SUBSET (0..k), k \in d,
           NEW z \in Multiples(d), z \in SUBSET (0..(k - 1))
    PROVE  z = {}
<1> DEFINE S == {y \in Polynomials : \E n \in Nat : y \in Generated(d, 0..(n - 1))}
<1>0. d \in Polynomials
    BY DEF Polynomials
<1>1. {} \in S
    <2>1. {} \in Generated(d, 0..(0 - 1)) /\ {} \in Polynomials
        BY DEF Generated, Closed, Polynomials
    <2> QED
        BY <2>1
<1>2. ASSUME NEW y \in S, NEW m \in Nat PROVE y ^^ Up(d, m) \in S
    <2>1. PICK n \in Nat : y \in Generated(d, 0..(n - 1))
        OBVIOUS
    <2> DEFINE N == n + m + 1
    <2>2. N \in Nat /\ 0..(n - 1) \subseteq 0..(N - 1) /\ m \in 0..(N - 1)
          /\ 0..(N - 1) \in SUBSET Nat
        OBVIOUS
    <2> HIDE DEF N
    <2>3. y \in Generated(d, 0..(N - 1))
        BY <2>1, <2>2 DEF Generated, Closed
    <2>4. y ^^ Up(d, m) \in Generated(d, 0..(N - 1)) /\ y ^^ Up(d, m) \in Polynomials
        BY <1>0, <2>2, <2>3, GeneratedClosed DEF Closed
    <2> QED
        BY <2>2, <2>4
<1>3. Closed(S, d, Nat) /\ S \in SUBSET Polynomials
    <2> HIDE DEF S
    <2> QED
        BY <1>1, <1>2 DEF Closed, S
<1>4. z \in S
    BY <1>3, MultiplesIn DEF Multiples
<1>5. Reaches(z, k)
    BY <1>4, TopStays
<1> QED
    BY <1>5 DEF Reaches

(***************************************************************************)
(* Remainders                                                              *)
(***************************************************************************)
LEMMA SameLaws ==
    ASSUME NEW d \in Polynomials, NEW x \in Polynomials, NEW y \in Polynomials,
           NEW z \in Polynomials
    PROVE  /\ Same(x, x, d)
           /\ Same(x, y, d) => Same(y, x, d)
           /\ Same(x, y, d) /\ Same(y, z, d) => Same(x, z, d)
<1>1. Same(x, x, d)
    BY SumLaws, MultiplesClosed DEF Same, Closed
<1>2. Same(x, y, d) => Same(y, x, d)
    BY SumLaws DEF Same
<1>3. ASSUME Same(x, y, d), Same(y, z, d) PROVE Same(x, z, d)
    <2>1. (x ^^ y) ^^ (y ^^ z) \in Multiples(d)
        BY <1>3, SumsAre DEF Same
    <2>2. (x ^^ y) ^^ (y ^^ z) = x ^^ z
        BY DEF ^^
    <2> QED
        BY <2>1, <2>2 DEF Same
<1> QED
    BY <1>1, <1>2, <1>3

\* Remainders of sums,
LEMMA SameSum ==
    ASSUME NEW d \in Polynomials, NEW x, NEW y, NEW z, NEW w,
           Same(x, y, d), Same(z, w, d)
    PROVE  Same(x ^^ z, y ^^ w, d)
<1>1. (x ^^ y) ^^ (z ^^ w) \in Multiples(d)
    BY SumsAre DEF Same
<1> QED
    BY <1>1, SumSwap DEF Same

\* of products with a power,
LEMMA SameUp ==
    ASSUME NEW d \in Polynomials, NEW x \in Polynomials, NEW y \in Polynomials,
           NEW n \in Nat, Same(x, y, d)
    PROVE  Same(Up(x, n), Up(y, n), d)
<1>1. Up(x ^^ y, n) \in Multiples(d)
    BY ProductsAre DEF Same
<1> QED
    BY <1>1, UpType, UpNone, UpSum, UpTwice DEF Same

\* and of sums with multiples.
LEMMA SameMultiple ==
    ASSUME NEW d \in Polynomials, NEW x, NEW m \in Multiples(d)
    PROVE  Same(x ^^ m, x, d)
<1>1. (x ^^ m) ^^ x = m
    BY DEF ^^
<1> QED
    BY <1>1 DEF Same

\* There is one remainder.
LEMMA Unique ==
    ASSUME NEW k \in Nat, NEW d \in SUBSET (0..k), k \in d,
           NEW x \in SUBSET (0..(k - 1)), NEW y \in SUBSET (0..(k - 1)), Same(x, y, d)
    PROVE  x = y
<1>1. x ^^ y \in SUBSET (0..(k - 1))
    BY Zenon, SumIn
<1>2. x ^^ y = {}
    BY <1>1, SmallMultiple DEF Same
<1> QED
    BY <1>2 DEF ^^

(***************************************************************************)
(* Loops                                                                   *)
(***************************************************************************)
\* What a FoldLeft whose steps are G computes for a set of positions.
Folds(f, b, n, G) ==
    f = [s \in SUBSET (1..n) |-> IF s = {} THEN b
                                 ELSE G[<<f[s \ {R!Max(s)}], R!Max(s)>>]]

\* The same for the positions up to m.
Partly(f, m, A, b, G) ==
    /\ f = [s \in SUBSET (1..m) |-> f[s]]
    /\ \A s \in SUBSET (1..m) :
          /\ f[s] \in A
          /\ f[s] = IF s = {} THEN b ELSE G[<<f[s \ {R!Max(s)}], R!Max(s)>>]

\* The highest bit of a word that holds n and nothing above it is n.
LEMMA MaxIs ==
    ASSUME NEW n \in Nat, NEW s \in SUBSET (0..n), n \in s
    PROVE  R!Max(s) = n
<1>1. \A x \in s : n >= x /\ (x >= n => x = n)
    OBVIOUS
<1>2. \E x \in s : \A y \in s : x >= y
    BY <1>1
<1> DEFINE x == CHOOSE x \in s : \A y \in s : x >= y
<1>3. x \in s /\ \A y \in s : x >= y
    BY <1>2
<1> HIDE DEF x
<1>4. x = n
    BY <1>1, <1>3
<1> QED
    BY <1>4 DEF R!Max, x

\* A set of positions has a highest one.
LEMMA MaxOf ==
    ASSUME NEW n \in Nat, NEW s \in SUBSET (1..n), s # {}
    PROVE  R!Max(s) \in s
<1> DEFINE V == {m \in Nat : n - m \in s}
<1>1. V \in SUBSET Nat /\ V # {}
    <2>1. PICK x \in s : TRUE
        OBVIOUS
    <2>2. n - x \in Nat /\ n - (n - x) = x
        BY <2>1
    <2> QED
        BY <2>2
<1>2. PICK m \in V : \A j \in V : m <= j
    <2> HIDE DEF V
    <2> QED
        BY <1>1, LeastNat
<1>3. n - m \in s /\ \A y \in s : n - m >= y
    BY <1>2
<1>4. \E x \in s : \A y \in s : x >= y
    BY <1>3
<1> QED
    BY <1>4 DEF R!Max

\* A loop over n positions whose steps stay in A has a function that computes
\* it: the one that FoldLeft chooses exists.
LEMMA FoldExists ==
    ASSUME NEW A, NEW b \in A, NEW n \in Nat, NEW G \in [A \X (1..n) -> A]
    PROVE  \E f : Folds(f, b, n, G) /\ \A s \in SUBSET (1..n) : f[s] \in A
<1> DEFINE P(m) == m <= n => \E f : Partly(f, m, A, b, G)
           V == {m \in Nat : P(m)}
<1>1. P(0)
    <2> DEFINE f == [s \in SUBSET (1..0) |-> b]
    <2>1. \A s \in SUBSET (1..0) : s = {} /\ f[s] = b
        OBVIOUS
    <2> QED
        BY <2>1 DEF Partly
<1>2. ASSUME NEW m \in Nat, P(m) PROVE P(m + 1)
    <2> SUFFICES ASSUME m + 1 <= n PROVE \E f : Partly(f, m + 1, A, b, G)
        OBVIOUS
    <2>0. PICK g : Partly(g, m, A, b, G)
        <3>1. m <= n
            OBVIOUS
        <3> QED
            BY <1>2, <3>1, Zenon
    <2>1. /\ g = [s \in SUBSET (1..m) |-> g[s]]
          /\ \A s \in SUBSET (1..m) :
                /\ g[s] \in A
                /\ g[s] = IF s = {} THEN b ELSE G[<<g[s \ {R!Max(s)}], R!Max(s)>>]
        BY <2>0, Zenon DEF Partly
    <2> DEFINE f == [s \in SUBSET (1..(m + 1)) |->
                       IF m + 1 \in s THEN G[<<g[s \ {m + 1}], m + 1>>] ELSE g[s]]
    <2>2. ASSUME NEW s \in SUBSET (1..(m + 1))
          PROVE  /\ f[s] \in A
                 /\ f[s] = IF s = {} THEN b ELSE G[<<f[s \ {R!Max(s)}], R!Max(s)>>]
        <3>1. CASE m + 1 \in s
            <4>1. s \ {m + 1} \in SUBSET (1..m) /\ s \ {m + 1} \in SUBSET (1..(m + 1))
                  /\ m + 1 \in 1..n /\ s # {} /\ m + 1 \notin s \ {m + 1}
                BY <3>1
            <4>2. R!Max(s) = m + 1
                <5>1. s \in SUBSET (0..(m + 1)) /\ m + 1 \in Nat
                    OBVIOUS
                <5> QED
                    BY <3>1, <5>1, MaxIs
            <4>3. f[s \ {m + 1}] = g[s \ {m + 1}] /\ f[s] = G[<<g[s \ {m + 1}], m + 1>>]
                BY <3>1, <4>1
            <4>4. g[s \ {m + 1}] \in A
                BY <2>1, <4>1
            <4> HIDE DEF f
            <4> QED
                BY <4>1, <4>2, <4>3, <4>4
        <3>2. CASE m + 1 \notin s
            <4>1. s \in SUBSET (1..m) /\ f[s] = g[s]
                BY <3>2
            <4>2. CASE s = {}
                BY <2>1, <4>1, <4>2
            <4>3. CASE s # {}
                <5> DEFINE x == R!Max(s)
                           t == s \ {x}
                <5> HIDE DEF x
                <5>1. t \in SUBSET (1..m) /\ m + 1 \notin t /\ t \in SUBSET (1..(m + 1))
                    <6>1. \A i \in s : i \in 1..m
                        BY <4>1
                    <6>2. \A i \in t : i \in s
                        OBVIOUS
                    <6> HIDE DEF t
                    <6>3. \A i \in t : i \in 1..m
                        BY <6>1, <6>2
                    <6>4. \A i \in t : i \in 1..(m + 1) /\ i # m + 1
                        BY <6>3
                    <6> QED
                        BY <6>3, <6>4, Zenon
                <5>2. f[t] = g[t]
                    BY <5>1
                <5> HIDE DEF f
                <5> QED
                    BY <2>1, <4>1, <4>3, <5>2 DEF x
            <4> QED
                BY <4>2, <4>3
        <3> QED
            BY <3>1, <3>2
    <2>3. f = [s \in SUBSET (1..(m + 1)) |-> f[s]]
        OBVIOUS
    <2> HIDE DEF f
    <2>4. Partly(f, m + 1, A, b, G)
        BY <2>2, <2>3, Zenon DEF Partly
    <2> QED
        BY <2>4
<1>3. \A m \in Nat : m \in V
    <2>1. 0 \in V /\ \A m \in Nat : m \in V => m + 1 \in V
        <3> HIDE DEF P
        <3> QED
            BY <1>1, <1>2
    <2> HIDE DEF V
    <2> QED
        BY <2>1, Induction
<1>4. PICK f : Partly(f, n, A, b, G)
    <2>1. P(n)
        BY <1>3
    <2> QED
        BY <2>1
<1>5. Folds(f, b, n, G) /\ \A s \in SUBSET (1..n) : f[s] \in A
    <2>1. \A s \in SUBSET (1..n) :
             f[s] = IF s = {} THEN b ELSE G[<<f[s \ {R!Max(s)}], R!Max(s)>>]
        BY <1>4, Zenon DEF Partly
    <2>2. f = [s \in SUBSET (1..n) |-> f[s]] /\ \A s \in SUBSET (1..n) : f[s] \in A
        BY <1>4, Zenon DEF Partly
    <2> QED
        BY <2>1, <2>2 DEF Folds
<1> QED
    BY <1>5

\* A loop after each of its turns.
Turns(f, n) == [m \in 0..n |-> f[1..m]]

Loop(f, b, n, step) == f = [s \in SUBSET (1..n) |-> IF s = {} THEN b ELSE step[s]]

Turn(f, n, step, m) ==
    /\ 1..m \in SUBSET (1..n)
    /\ R!Max(1..m) = m
    /\ Turns(f, n)[m] = step[1..m]
    /\ Turns(f, n)[m - 1] = f[(1..m) \ {m}]

\* They follow from one another.
LEMMA FoldTurns ==
    ASSUME NEW n \in Nat, NEW f, NEW b, NEW step, Loop(f, b, n, step)
    PROVE  /\ Turns(f, n)[0] = b /\ Turns(f, n)[n] = f[1..n]
           /\ \A m \in 1..n : Turn(f, n, step, m)
<1>1. ASSUME NEW m \in 1..n
      PROVE  /\ R!Max(1..m) = m /\ (1..m) \ {m} = 1..(m - 1)
             /\ 1..m # {} /\ 1..m \in SUBSET (1..n)
             /\ Turns(f, n)[m] = f[1..m] /\ Turns(f, n)[m - 1] = f[1..(m - 1)]
    <2>1. m \in Nat /\ 1..m \in SUBSET (0..m) /\ m \in 1..m
        OBVIOUS
    <2>2. R!Max(1..m) = m
        BY <2>1, MaxIs
    <2>3. m \in 0..n /\ m - 1 \in 0..n
        OBVIOUS
    <2>4. Turns(f, n)[m] = f[1..m] /\ Turns(f, n)[m - 1] = f[1..(m - 1)]
        BY <2>3 DEF Turns
    <2>5. (1..m) \ {m} = 1..(m - 1) /\ 1..m # {} /\ 1..m \in SUBSET (1..n)
        BY SMTT(60)
    <2> QED
        BY <2>2, <2>4, <2>5, Zenon
<1>2. 1..0 = {} /\ 1..0 \in SUBSET (1..n) /\ 0 \in 0..n /\ n \in 0..n
    OBVIOUS
<1>3. Turns(f, n)[0] = b /\ Turns(f, n)[n] = f[1..n]
    BY <1>2 DEF Turns, Loop
<1>4. ASSUME NEW m \in 1..n PROVE f[1..m] = step[1..m]
    BY <1>1 DEF Loop
<1> QED
    BY <1>1, <1>3, <1>4, Zenon DEF Turn

(***************************************************************************)
(* The four loops, as the functions that FoldLeft chooses                  *)
(***************************************************************************)
LowStep(dd, l, i) == IF i \in l THEN R!Xor(l, R!Shr(dd, R!Msb - i)) ELSE l

HighStep(dd, p, i) ==
    IF i \in p.h
    THEN [h |-> R!Xor(p.h, R!Shr(dd, R!Msb - i)), l |-> R!Xor(p.l, R!Shl(dd, i + 1))]
    ELSE p

TermStep(x, y, p, i) ==
    IF i \in x
    THEN [h |-> R!Xor(p.h, R!Shr(y, WordBits - i)), l |-> R!Xor(p.l, R!Shl(y, i))]
    ELSE p

ShiftStep(t, s, x) == R!AddByte(t, s, x, {})

LowLoop(dd, b, seq) ==
    (CHOOSE f : f = [s \in SUBSET (DOMAIN seq) |->
        IF s = {} THEN b ELSE LowStep(dd, f[s \ {R!Max(s)}], seq[R!Max(s)])])[DOMAIN seq]

LowRun(F, dd, b, seq, n) ==
    /\ F[0] = b /\ LowLoop(dd, b, seq) = F[n]
    /\ \A m \in 1..n : F[m] = LowStep(dd, F[m - 1], seq[m])

HighLoop(dd, b, seq) ==
    (CHOOSE f : f = [s \in SUBSET (DOMAIN seq) |->
        IF s = {} THEN b ELSE HighStep(dd, f[s \ {R!Max(s)}], seq[R!Max(s)])])[DOMAIN seq]

HighRun(F, dd, b, seq, n) ==
    /\ F[0] = b /\ HighLoop(dd, b, seq) = F[n]
    /\ \A m \in 1..n : F[m] = HighStep(dd, F[m - 1], seq[m])

TermLoop(x, y, b, seq) ==
    (CHOOSE f : f = [s \in SUBSET (DOMAIN seq) |->
        IF s = {} THEN b ELSE TermStep(x, y, f[s \ {R!Max(s)}], seq[R!Max(s)])])[DOMAIN seq]

TermRun(F, x, y, b, seq, n) ==
    /\ F[0] = b /\ TermLoop(x, y, b, seq) = F[n]
    /\ \A m \in 1..n : F[m] = TermStep(x, y, F[m - 1], seq[m])

ShiftLoop(t, u, b, seq) ==
    (CHOOSE f : f = [s \in SUBSET (DOMAIN seq) |->
        IF s = {} THEN b ELSE ShiftStep(t, u, f[s \ {R!Max(s)}])])[DOMAIN seq]

ShiftRun(F, t, u, b, seq, n) ==
    /\ F[0] = b /\ ShiftLoop(t, u, b, seq) = F[n]
    /\ \A m \in 1..n : F[m] = ShiftStep(t, u, F[m - 1])

\* d with its highest bit in that of a word; a word without that of dd.
Aligned(d)     == R!Shl(d, R!Msb - (R!fls64(d) - 1))
Topless(n, dd) == IF R!Msb \in n THEN R!Xor(n, dd) ELSE n

\* polymod is its two loops.
LEMMA PolymodLoops ==
    ASSUME NEW nh, NEW nl, NEW d
    PROVE  R!polymod(nh, nl, d) =
             LowLoop(Aligned(d),
                     HighLoop(Aligned(d), [h |-> Topless(nh, Aligned(d)), l |-> nl],
                              R!Down(R!Msb - 1, 0)).l,
                     R!Down(R!Msb, R!fls64(d) - 1))
BY DEF R!polymod, R!FoldLeft, R!MapThenFoldSet, LowLoop, HighLoop, LowStep, HighStep,
       Aligned, Topless

\* polymult is its loop.
LEMMA PolymultLoop ==
    ASSUME NEW x, NEW y
    PROVE  R!polymult(x, y) =
             TermLoop(x, y, [h |-> {}, l |-> IF 0 \in x THEN y ELSE {}],
                      [i \in 1..R!Msb |-> i])
BY DEF R!polymult, R!FoldLeft, R!MapThenFoldSet, TermLoop, TermStep

\* The constructor's table is made from what its loop leaves.
LEMMA SlideOutLoop ==
    ASSUME NEW t, NEW s, NEW p
    PROVE  R!SlideOutTable(t, s, p) =
             [i \in R!Byte |->
                R!polymmult(i, ShiftLoop(t, s, {0}, [j \in 1..(WindowSize - 1) |-> j]), p)]
BY DEF R!SlideOutTable, R!FoldLeft, R!MapThenFoldSet, ShiftLoop, ShiftStep

\* The turns of a loop, for each of the four: the value before the first turn
\* is the initial one, each turn is a step, and the last one leaves the result.
\* (One lemma for all four would take the step as an operator.)
LEMMA LowFold ==
    ASSUME NEW A, NEW dd, NEW b \in A, NEW seq, NEW n \in Nat, DOMAIN seq = 1..n,
           \A a \in A, m \in 1..n : LowStep(dd, a, seq[m]) \in A
    PROVE  \E F : LowRun(F, dd, b, seq, n)
<1> DEFINE iter == CHOOSE f : f = [s \in SUBSET (DOMAIN seq) |->
                IF s = {} THEN b ELSE LowStep(dd, f[s \ {R!Max(s)}], seq[R!Max(s)])]
           G == [q \in A \X (1..n) |-> LowStep(dd, q[1], seq[q[2]])]
<1>1. LowLoop(dd, b, seq) = iter[1..n]
    BY DEF LowLoop
<1>2. PICK f : Folds(f, b, n, G) /\ \A s \in SUBSET (1..n) : f[s] \in A
    <2>1. G \in [A \X (1..n) -> A]
        OBVIOUS
    <2> HIDE DEF G
    <2> QED
        BY <2>1, FoldExists
<1>3. f = [s \in SUBSET (DOMAIN seq) |->
              IF s = {} THEN b ELSE LowStep(dd, f[s \ {R!Max(s)}], seq[R!Max(s)])]
    <2>1. ASSUME NEW s \in SUBSET (1..n), s # {}
          PROVE  G[<<f[s \ {R!Max(s)}], R!Max(s)>>]
                     = LowStep(dd, f[s \ {R!Max(s)}], seq[R!Max(s)])
        <3>1. R!Max(s) \in 1..n
            BY <2>1, MaxOf
        <3> QED
            BY <1>2, <3>1
    <2> HIDE DEF G
    <2> QED
        BY <1>2, <2>1 DEF Folds
<1>4. iter = [s \in SUBSET (DOMAIN seq) |->
              IF s = {} THEN b ELSE LowStep(dd, iter[s \ {R!Max(s)}], seq[R!Max(s)])]
    BY <1>3
<1> HIDE DEF iter, G
<1> DEFINE step == [s \in SUBSET (1..n) |-> LowStep(dd, iter[s \ {R!Max(s)}], seq[R!Max(s)])]
           F == Turns(iter, n)
<1>5. Loop(iter, b, n, step)
    BY <1>4 DEF Loop
<1>6. ASSUME NEW s \in SUBSET (1..n)
      PROVE  step[s] = LowStep(dd, iter[s \ {R!Max(s)}], seq[R!Max(s)])
    OBVIOUS
<1> HIDE DEF step
<1>7. F[0] = b /\ F[n] = iter[1..n] /\ \A m \in 1..n : Turn(iter, n, step, m)
    BY <1>5, FoldTurns
<1>8. ASSUME NEW m \in 1..n PROVE F[m] = LowStep(dd, F[m - 1], seq[m])
    <2>1. Turn(iter, n, step, m)
        BY <1>7
    <2>2. /\ 1..m \in SUBSET (1..n) /\ R!Max(1..m) = m
          /\ F[m] = step[1..m] /\ F[m - 1] = iter[(1..m) \ {m}]
        BY <2>1, Zenon DEF Turn
    <2>3. step[1..m] = LowStep(dd, iter[(1..m) \ {m}], seq[m])
        BY <1>6, <2>2, Zenon
    <2> QED
        BY <2>2, <2>3, Zenon
<1> HIDE DEF F
<1> QED
    BY <1>1, <1>7, <1>8 DEF LowRun

\* The same for the loop over the high word.
LEMMA HighFold ==
    ASSUME NEW A, NEW dd, NEW b \in A, NEW seq, NEW n \in Nat, DOMAIN seq = 1..n,
           \A a \in A, m \in 1..n : HighStep(dd, a, seq[m]) \in A
    PROVE  \E F : HighRun(F, dd, b, seq, n)
<1> DEFINE iter == CHOOSE f : f = [s \in SUBSET (DOMAIN seq) |->
                IF s = {} THEN b ELSE HighStep(dd, f[s \ {R!Max(s)}], seq[R!Max(s)])]
           G == [q \in A \X (1..n) |-> HighStep(dd, q[1], seq[q[2]])]
<1>1. HighLoop(dd, b, seq) = iter[1..n]
    BY DEF HighLoop
<1>2. PICK f : Folds(f, b, n, G) /\ \A s \in SUBSET (1..n) : f[s] \in A
    <2>1. G \in [A \X (1..n) -> A]
        OBVIOUS
    <2> HIDE DEF G
    <2> QED
        BY <2>1, FoldExists
<1>3. f = [s \in SUBSET (DOMAIN seq) |->
              IF s = {} THEN b ELSE HighStep(dd, f[s \ {R!Max(s)}], seq[R!Max(s)])]
    <2>1. ASSUME NEW s \in SUBSET (1..n), s # {}
          PROVE  G[<<f[s \ {R!Max(s)}], R!Max(s)>>]
                     = HighStep(dd, f[s \ {R!Max(s)}], seq[R!Max(s)])
        <3>1. R!Max(s) \in 1..n
            BY <2>1, MaxOf
        <3> QED
            BY <1>2, <3>1
    <2> HIDE DEF G
    <2> QED
        BY <1>2, <2>1 DEF Folds
<1>4. iter = [s \in SUBSET (DOMAIN seq) |->
              IF s = {} THEN b ELSE HighStep(dd, iter[s \ {R!Max(s)}], seq[R!Max(s)])]
    BY <1>3
<1> HIDE DEF iter, G
<1> DEFINE step == [s \in SUBSET (1..n) |-> HighStep(dd, iter[s \ {R!Max(s)}], seq[R!Max(s)])]
           F == Turns(iter, n)
<1>5. Loop(iter, b, n, step)
    BY <1>4 DEF Loop
<1>6. ASSUME NEW s \in SUBSET (1..n)
      PROVE  step[s] = HighStep(dd, iter[s \ {R!Max(s)}], seq[R!Max(s)])
    OBVIOUS
<1> HIDE DEF step
<1>7. F[0] = b /\ F[n] = iter[1..n] /\ \A m \in 1..n : Turn(iter, n, step, m)
    BY <1>5, FoldTurns
<1>8. ASSUME NEW m \in 1..n PROVE F[m] = HighStep(dd, F[m - 1], seq[m])
    <2>1. Turn(iter, n, step, m)
        BY <1>7
    <2>2. /\ 1..m \in SUBSET (1..n) /\ R!Max(1..m) = m
          /\ F[m] = step[1..m] /\ F[m - 1] = iter[(1..m) \ {m}]
        BY <2>1, Zenon DEF Turn
    <2>3. step[1..m] = HighStep(dd, iter[(1..m) \ {m}], seq[m])
        BY <1>6, <2>2, Zenon
    <2> QED
        BY <2>2, <2>3, Zenon
<1> HIDE DEF F
<1> QED
    BY <1>1, <1>7, <1>8 DEF HighRun

\* The same for the loop of polymult.
LEMMA TermFold ==
    ASSUME NEW A, NEW x, NEW y, NEW b \in A, NEW seq, NEW n \in Nat, DOMAIN seq = 1..n,
           \A a \in A, m \in 1..n : TermStep(x, y, a, seq[m]) \in A
    PROVE  \E F : TermRun(F, x, y, b, seq, n)
<1> DEFINE iter == CHOOSE f : f = [s \in SUBSET (DOMAIN seq) |->
                IF s = {} THEN b ELSE TermStep(x, y, f[s \ {R!Max(s)}], seq[R!Max(s)])]
           G == [q \in A \X (1..n) |-> TermStep(x, y, q[1], seq[q[2]])]
<1>1. TermLoop(x, y, b, seq) = iter[1..n]
    BY DEF TermLoop
<1>2. PICK f : Folds(f, b, n, G) /\ \A s \in SUBSET (1..n) : f[s] \in A
    <2>1. G \in [A \X (1..n) -> A]
        OBVIOUS
    <2> HIDE DEF G
    <2> QED
        BY <2>1, FoldExists
<1>3. f = [s \in SUBSET (DOMAIN seq) |->
              IF s = {} THEN b ELSE TermStep(x, y, f[s \ {R!Max(s)}], seq[R!Max(s)])]
    <2>1. ASSUME NEW s \in SUBSET (1..n), s # {}
          PROVE  G[<<f[s \ {R!Max(s)}], R!Max(s)>>]
                     = TermStep(x, y, f[s \ {R!Max(s)}], seq[R!Max(s)])
        <3>1. R!Max(s) \in 1..n
            BY <2>1, MaxOf
        <3> QED
            BY <1>2, <3>1
    <2> HIDE DEF G
    <2> QED
        BY <1>2, <2>1 DEF Folds
<1>4. iter = [s \in SUBSET (DOMAIN seq) |->
              IF s = {} THEN b ELSE TermStep(x, y, iter[s \ {R!Max(s)}], seq[R!Max(s)])]
    BY <1>3
<1> HIDE DEF iter, G
<1> DEFINE step == [s \in SUBSET (1..n) |-> TermStep(x, y, iter[s \ {R!Max(s)}], seq[R!Max(s)])]
           F == Turns(iter, n)
<1>5. Loop(iter, b, n, step)
    BY <1>4 DEF Loop
<1>6. ASSUME NEW s \in SUBSET (1..n)
      PROVE  step[s] = TermStep(x, y, iter[s \ {R!Max(s)}], seq[R!Max(s)])
    OBVIOUS
<1> HIDE DEF step
<1>7. F[0] = b /\ F[n] = iter[1..n] /\ \A m \in 1..n : Turn(iter, n, step, m)
    BY <1>5, FoldTurns
<1>8. ASSUME NEW m \in 1..n PROVE F[m] = TermStep(x, y, F[m - 1], seq[m])
    <2>1. Turn(iter, n, step, m)
        BY <1>7
    <2>2. /\ 1..m \in SUBSET (1..n) /\ R!Max(1..m) = m
          /\ F[m] = step[1..m] /\ F[m - 1] = iter[(1..m) \ {m}]
        BY <2>1, Zenon DEF Turn
    <2>3. step[1..m] = TermStep(x, y, iter[(1..m) \ {m}], seq[m])
        BY <1>6, <2>2, Zenon
    <2> QED
        BY <2>2, <2>3, Zenon
<1> HIDE DEF F
<1> QED
    BY <1>1, <1>7, <1>8 DEF TermRun

\* The same for the loop of the constructor.
LEMMA ShiftFold ==
    ASSUME NEW A, NEW t, NEW u, NEW b \in A, NEW seq, NEW n \in Nat, DOMAIN seq = 1..n,
           \A a \in A, m \in 1..n : ShiftStep(t, u, a) \in A
    PROVE  \E F : ShiftRun(F, t, u, b, seq, n)
<1> DEFINE iter == CHOOSE f : f = [s \in SUBSET (DOMAIN seq) |->
                IF s = {} THEN b ELSE ShiftStep(t, u, f[s \ {R!Max(s)}])]
           G == [q \in A \X (1..n) |-> ShiftStep(t, u, q[1])]
<1>1. ShiftLoop(t, u, b, seq) = iter[1..n]
    BY DEF ShiftLoop
<1>2. PICK f : Folds(f, b, n, G) /\ \A s \in SUBSET (1..n) : f[s] \in A
    <2>1. G \in [A \X (1..n) -> A]
        OBVIOUS
    <2> HIDE DEF G
    <2> QED
        BY <2>1, FoldExists
<1>3. f = [s \in SUBSET (DOMAIN seq) |->
              IF s = {} THEN b ELSE ShiftStep(t, u, f[s \ {R!Max(s)}])]
    <2>1. ASSUME NEW s \in SUBSET (1..n), s # {}
          PROVE  G[<<f[s \ {R!Max(s)}], R!Max(s)>>]
                     = ShiftStep(t, u, f[s \ {R!Max(s)}])
        <3>1. R!Max(s) \in 1..n
            BY <2>1, MaxOf
        <3> QED
            BY <1>2, <3>1
    <2> HIDE DEF G
    <2> QED
        BY <1>2, <2>1 DEF Folds
<1>4. iter = [s \in SUBSET (DOMAIN seq) |->
              IF s = {} THEN b ELSE ShiftStep(t, u, iter[s \ {R!Max(s)}])]
    BY <1>3
<1> HIDE DEF iter, G
<1> DEFINE step == [s \in SUBSET (1..n) |-> ShiftStep(t, u, iter[s \ {R!Max(s)}])]
           F == Turns(iter, n)
<1>5. Loop(iter, b, n, step)
    BY <1>4 DEF Loop
<1>6. ASSUME NEW s \in SUBSET (1..n)
      PROVE  step[s] = ShiftStep(t, u, iter[s \ {R!Max(s)}])
    OBVIOUS
<1> HIDE DEF step
<1>7. F[0] = b /\ F[n] = iter[1..n] /\ \A m \in 1..n : Turn(iter, n, step, m)
    BY <1>5, FoldTurns
<1>8. ASSUME NEW m \in 1..n PROVE F[m] = ShiftStep(t, u, F[m - 1])
    <2>1. Turn(iter, n, step, m)
        BY <1>7
    <2>2. /\ 1..m \in SUBSET (1..n) /\ R!Max(1..m) = m
          /\ F[m] = step[1..m] /\ F[m - 1] = iter[(1..m) \ {m}]
        BY <2>1, Zenon DEF Turn
    <2>3. step[1..m] = ShiftStep(t, u, iter[(1..m) \ {m}])
        BY <1>6, <2>2, Zenon
    <2> QED
        BY <2>2, <2>3, Zenon
<1> HIDE DEF F
<1> QED
    BY <1>1, <1>7, <1>8 DEF ShiftRun

(***************************************************************************)
(* Words                                                                   *)
(***************************************************************************)
LEMMA RabinSizes ==
    /\ WordBits \in Nat /\ ByteBits \in 1..WordBits /\ WindowSize \in Nat \ {0}
    /\ R!Msb = WordBits - 1 /\ WordBits \in Nat \ {0} /\ R!Msb \in Nat
    /\ R!Word = SUBSET (0..R!Msb) /\ R!Byte = SUBSET (0..(ByteBits - 1))
<1>1. WordBits \in Nat /\ ByteBits \in 1..WordBits /\ WindowSize \in Nat \ {0}
    BY RabinAssumption DEF R!RabinAssumption
<1> QED
    BY <1>1 DEF R!Msb, R!Word, R!Byte

\* ^ of two words is the sum of polynomials.
LEMMA XorIs ==
    ASSUME NEW x, NEW y
    PROVE  R!Xor(x, y) = x ^^ y
BY DEF R!Xor, ^^

\* The highest power of a polynomial.
LEMMA Highest ==
    ASSUME NEW n \in Nat, NEW s \in SUBSET (0..n), s # {}
    PROVE  R!Max(s) \in s /\ R!Max(s) \in 0..n /\ s \in SUBSET (0..R!Max(s))
<1> DEFINE V == {m \in Nat : n - m \in s}
<1>1. V \in SUBSET Nat /\ V # {}
    <2>1. PICK x \in s : TRUE
        OBVIOUS
    <2>2. n - x \in Nat /\ n - (n - x) = x
        BY <2>1
    <2> QED
        BY <2>2
<1>2. PICK m \in V : \A j \in V : m <= j
    <2> HIDE DEF V
    <2> QED
        BY <1>1, LeastNat
<1>3. n - m \in s /\ \A y \in s : n - m >= y
    BY <1>2
<1>4. \E x \in s : \A y \in s : x >= y
    BY <1>3
<1>5. R!Max(s) \in s /\ \A y \in s : R!Max(s) >= y
    BY <1>4 DEF R!Max
<1>6. R!Max(s) \in 0..n /\ \A y \in s : y \in 0..R!Max(s)
    <2>1. \A y \in s : y \in 0..n
        OBVIOUS
    <2> DEFINE x == R!Max(s)
    <2>2. x \in 0..n /\ \A y \in s : x >= y
        BY <1>5, <2>1, Zenon
    <2> HIDE DEF x
    <2> QED
        BY <2>1, <2>2 DEF x
<1> QED
    BY <1>5, <1>6, Zenon

\* xshift of a polynomial is its degree, 8 at least.
LEMMA Degree ==
    ASSUME NEW d \in Polys
    PROVE  /\ R!xshift(d) \in ByteBits..R!Msb /\ R!xshift(d) \in d
           /\ d \in SUBSET (0..R!xshift(d)) /\ d \in R!Word /\ d \in Polynomials
           /\ R!fls64(d) - 1 = R!xshift(d) /\ R!Max(d) = R!xshift(d)
<1>1. d \in R!Word /\ \E i \in d : i >= ByteBits
    BY RabinAssumption DEF R!RabinAssumption
<1>2. PICK i \in d : i >= ByteBits
    BY <1>1
<1>3. d \in SUBSET (0..R!Msb) /\ R!Msb \in Nat
    BY <1>1, RabinSizes
<1>4. R!Max(d) \in d /\ R!Max(d) \in 0..R!Msb /\ d \in SUBSET (0..R!Max(d))
    BY <1>2, <1>3, Highest, Zenon
<1>5. R!Max(d) >= i
    BY <1>2, <1>4
<1>6. ByteBits \in Nat /\ i \in 0..R!Msb
    BY <1>2, <1>3, RabinSizes
<1>7. R!Max(d) \in ByteBits..R!Msb
    BY <1>2, <1>3, <1>4, <1>5, <1>6
<1>8. R!fls64(d) - 1 = R!Max(d) /\ R!xshift(d) = R!Max(d)
    BY <1>4 DEF R!fls64, R!xshift
<1>9. d \in Polynomials
    BY <1>3 DEF Polynomials
<1> QED
    BY <1>1, <1>4, <1>7, <1>8, <1>9

\* A shift of one word into two.
LEMMA ShiftWord ==
    ASSUME NEW y \in R!Word, NEW n \in 0..WordBits
    PROVE  /\ R!Shl(y, n) \in R!Word /\ R!Shr(y, WordBits - n) \in R!Word
           /\ Up(R!Shr(y, WordBits - n), WordBits) ^^ R!Shl(y, n) = Up(y, n)
<1>1. WordBits \in Nat /\ R!Msb = WordBits - 1 /\ y \in SUBSET (0..(WordBits - 1))
    BY RabinSizes
<1>2. R!Shl(y, n) = {z \in Up(y, n) : z < WordBits}
    BY <1>1 DEF R!Shl, Up
<1>3. R!Shr(y, WordBits - n) \in R!Word
    BY <1>1 DEF R!Shr, R!Word
<1>4. Up(R!Shr(y, WordBits - n), WordBits) = {z \in Up(y, n) : z >= WordBits}
    <2>1. ASSUME NEW z \in Up(R!Shr(y, WordBits - n), WordBits)
          PROVE  z \in Up(y, n) /\ z >= WordBits
        BY <1>1, <2>1 DEF R!Shr, Up
    <2>2. ASSUME NEW z \in Up(y, n), z >= WordBits
          PROVE  z \in Up(R!Shr(y, WordBits - n), WordBits)
        <3>1. PICK i \in y : z = i + n
            BY <2>2 DEF Up
        <3>2. i >= WordBits - n /\ i \in Nat /\ z = (i - (WordBits - n)) + WordBits
            BY <1>1, <2>2, <3>1
        <3>3. i - (WordBits - n) \in R!Shr(y, WordBits - n)
            BY <3>1, <3>2 DEF R!Shr
        <3> QED
            BY <3>2, <3>3 DEF Up
    <2> QED
        BY <2>1, <2>2
<1>5. \A z \in Up(y, n) : z \in Nat
    BY <1>1 DEF Up
<1>6. R!Shl(y, n) \in R!Word
    BY <1>1 DEF R!Shl, R!Word
<1>7. {z \in Up(y, n) : z >= WordBits} ^^ {z \in Up(y, n) : z < WordBits} = Up(y, n)
    <2>1. \A z \in Up(y, n) : ~(z >= WordBits) <=> z < WordBits
        BY <1>1, <1>5
    <2> QED
        BY <2>1 DEF ^^
<1> QED
    BY <1>2, <1>3, <1>4, <1>6, <1>7

\* What two polynomials of the same degree leave.
LEMMA Cancel ==
    ASSUME NEW i \in Nat, NEW x \in SUBSET (0..i), NEW y \in SUBSET (0..i), i \in x, i \in y
    PROVE  x ^^ y \in SUBSET (0..(i - 1))
<1>1. \A z \in x ^^ y : z \in 0..i /\ z # i
    BY DEF ^^
<1> QED
    BY <1>1

\* Without its highest bit a word is shorter.
LEMMA Below ==
    ASSUME NEW i \in Nat, NEW x \in SUBSET (0..i), i \notin x
    PROVE  x \in SUBSET (0..(i - 1))
<1>1. \A z \in x : z \in 0..i /\ z # i
    OBVIOUS
<1> QED
    BY <1>1

\* The divisor that polymod shifts to the top of the word, and each of the
\* words it takes from it.
LEMMA AlignedIs ==
    ASSUME NEW d \in Polys
    PROVE  /\ Aligned(d) = Up(d, R!Msb - R!xshift(d))
           /\ Aligned(d) \in R!Word /\ R!Msb \in Aligned(d)
           /\ \A i \in 0..R!Msb :
                 /\ R!Shr(Aligned(d), R!Msb - i) \in SUBSET (0..i)
                 /\ i \in R!Shr(Aligned(d), R!Msb - i)
                 /\ i >= R!xshift(d) => R!Shr(Aligned(d), R!Msb - i) = Up(d, i - R!xshift(d))
<1> DEFINE k == R!xshift(d)
           M == R!Msb
           A == Aligned(d)
<1>1. /\ k \in 1..M /\ k \in d /\ d \in SUBSET (0..k) /\ M \in Nat /\ R!fls64(d) - 1 = k
      /\ WordBits - 1 = M /\ R!Word = SUBSET (0..M)
    BY Degree, RabinSizes
<1>2. A = {i + (M - k) : i \in d} \cap 0..M
    BY <1>1 DEF Aligned, R!Shl
<1> HIDE DEF k, M, A
<1>3. \A i \in d : i + (M - k) \in 0..M
    BY <1>1
<1>4. A = {i + (M - k) : i \in d}
    BY <1>2, <1>3
<1>5. A \in R!Word /\ M \in A
    <2>1. k + (M - k) = M
        BY <1>1
    <2> QED
        BY <1>1, <1>2, <1>4, <2>1
<1>6. ASSUME NEW i \in 0..M
      PROVE  /\ R!Shr(A, M - i) \in SUBSET (0..i) /\ i \in R!Shr(A, M - i)
             /\ i >= k => R!Shr(A, M - i) = Up(d, i - k)
    <2>1. R!Shr(A, M - i) = {j - (M - i) : j \in {j \in A : j >= M - i}}
        BY DEF R!Shr
    <2>2. \A j \in A : j \in 0..M
        BY <1>1, <1>5
    <2>3. \A j \in A : j >= M - i => j - (M - i) \in 0..i
        BY <1>1, <2>2
    <2>4. i = M - (M - i) /\ M >= M - i
        BY <1>1
    <2>5. ASSUME i >= k
          PROVE  R!Shr(A, M - i) = Up(d, i - k)
        <3>1. \A j \in d : j + (M - k) >= M - i /\ (j + (M - k)) - (M - i) = j + (i - k)
            BY <1>1, <2>5
        <3> QED
            BY <1>4, <2>1, <3>1 DEF Up
    <2>6. R!Shr(A, M - i) \in SUBSET (0..i)
        BY <2>1, <2>3
    <2>7. i \in R!Shr(A, M - i)
        BY <1>5, <2>1, <2>4
    <2> QED
        BY <2>5, <2>6, <2>7
<1> QED
    BY <1>4, <1>5, <1>6 DEF k, M, A, Up

\* ^ of two words is a word.
LEMMA WordXor ==
    ASSUME NEW x \in R!Word, NEW y \in R!Word
    PROVE  x ^^ y \in R!Word
BY RabinSizes, SumIn, Zenon

(***************************************************************************)
(* polymod                                                                 *)
(***************************************************************************)
\* What two words stand for.
Value(p) == Up(p.h, WordBits) ^^ p.l

Pairs(n) == [h : SUBSET (0..n), l : R!Word]

\* The value of two words is a polynomial.
LEMMA ValueType ==
    ASSUME NEW n \in Int, NEW p \in Pairs(n)
    PROVE  Value(p) \in Polynomials /\ p.h \in Polynomials /\ p.l \in Polynomials
           /\ Up(p.h, WordBits) \in Polynomials
<1>1. p.h \in Polynomials /\ p.l \in Polynomials
    BY RabinSizes DEF Pairs, Polynomials
<1>2. Up(p.h, WordBits) \in Polynomials
    BY <1>1, UpType, RabinSizes
<1> QED
    BY <1>1, <1>2, SumType DEF Value

\* What a turn of the loops takes away is a multiple of d.
LEMMA TakenAway ==
    ASSUME NEW d \in Polys, NEW i \in 0..R!Msb
    PROVE  /\ Up(Aligned(d), i + 1) \in Multiples(d)
           /\ Up(R!Shr(Aligned(d), R!Msb - i), WordBits) ^^ R!Shl(Aligned(d), i + 1)
                  = Up(Aligned(d), i + 1)
           /\ R!Shl(Aligned(d), i + 1) \in R!Word
<1>1. d \in Polynomials /\ R!xshift(d) \in 0..R!Msb /\ R!Msb \in Nat /\ WordBits = R!Msb + 1
    BY Degree, RabinSizes
<1>2. Aligned(d) = Up(d, R!Msb - R!xshift(d)) /\ Aligned(d) \in R!Word
    BY AlignedIs
<1>3. R!Msb - R!xshift(d) \in Nat /\ i + 1 \in 0..WordBits /\ i + 1 \in Nat
      /\ WordBits - (i + 1) = R!Msb - i
    BY <1>1
<1>4. Up(Aligned(d), i + 1) = Up(d, (R!Msb - R!xshift(d)) + (i + 1))
    BY <1>1, <1>2, <1>3, UpTwice, ZenonT(60)
<1>5. (R!Msb - R!xshift(d)) + (i + 1) \in Nat
    BY <1>3
<1>6. Up(Aligned(d), i + 1) \in Multiples(d)
    BY <1>1, <1>4, <1>5, PowersAre
<1>7. /\ Up(R!Shr(Aligned(d), WordBits - (i + 1)), WordBits) ^^ R!Shl(Aligned(d), i + 1)
              = Up(Aligned(d), i + 1)
      /\ R!Shl(Aligned(d), i + 1) \in R!Word
    BY <1>2, <1>3, ShiftWord
<1> QED
    BY <1>3, <1>6, <1>7

\* A turn over the high word takes a multiple of d away, and the bit i.
LEMMA HighStepIs ==
    ASSUME NEW d \in Polys, NEW i \in 0..R!Msb, NEW p \in Pairs(i)
    PROVE  /\ HighStep(Aligned(d), p, i) \in Pairs(i - 1)
           /\ Same(Value(HighStep(Aligned(d), p, i)), Value(p), d)
<1> DEFINE s == R!Shr(Aligned(d), R!Msb - i)
           t == R!Shl(Aligned(d), i + 1)
           q == HighStep(Aligned(d), p, i)
<1>1. d \in Polynomials /\ i \in Nat /\ i \in Int
    BY Degree
<1>2. Value(p) \in Polynomials /\ p.h \in Polynomials /\ p.l \in Polynomials
    BY <1>1, ValueType
<1>3. CASE i \notin p.h
    <2>1. q = p
        BY <1>3 DEF HighStep
    <2>2. p.h \in SUBSET (0..(i - 1))
        BY <1>1, <1>3, Below DEF Pairs
    <2>3. p \in Pairs(i - 1)
        BY <2>2 DEF Pairs
    <2> QED
        BY <1>1, <1>2, <2>1, <2>3, SameLaws
<1>4. CASE i \in p.h
    <2>1. q = [h |-> p.h ^^ s, l |-> p.l ^^ t]
        BY <1>4, XorIs DEF HighStep
    <2>2. s \in SUBSET (0..i) /\ i \in s /\ Up(Aligned(d), i + 1) \in Multiples(d)
          /\ Up(s, WordBits) ^^ t = Up(Aligned(d), i + 1) /\ t \in R!Word
        BY AlignedIs, TakenAway
    <2> HIDE DEF s, t, q
    <2>3. p.h ^^ s \in SUBSET (0..(i - 1))
        BY <1>1, <1>4, <2>2, Cancel DEF Pairs
    <2>4. p.l ^^ t \in R!Word
        <3>1. p.l \in R!Word
            BY DEF Pairs
        <3> QED
            BY <2>2, <3>1, WordXor, Zenon
    <2>5. s \in Polynomials
        BY <1>1, <2>2 DEF Polynomials
    <2>6. Up(p.h ^^ s, WordBits) = Up(p.h, WordBits) ^^ Up(s, WordBits)
        <3>1. WordBits \in Nat
            BY RabinSizes
        <3> QED
            BY <1>2, <2>5, <3>1, UpSum, Zenon
    <2>7. Value(q) = Value(p) ^^ Up(Aligned(d), i + 1)
        BY <2>1, <2>2, <2>6, SumSwap DEF Value
    <2>8. q \in Pairs(i - 1)
        BY <2>1, <2>3, <2>4 DEF Pairs
    <2> QED
        BY <1>1, <2>2, <2>7, <2>8, SameMultiple DEF q
<1> QED
    BY <1>3, <1>4

\* So does a turn over the low word.
LEMMA LowStepIs ==
    ASSUME NEW d \in Polys, NEW i \in R!xshift(d)..R!Msb, NEW l \in SUBSET (0..i)
    PROVE  /\ LowStep(Aligned(d), l, i) \in SUBSET (0..(i - 1))
           /\ Same(LowStep(Aligned(d), l, i), l, d)
<1> DEFINE k == R!xshift(d)
           s == R!Shr(Aligned(d), R!Msb - i)
<1>1. d \in Polynomials /\ k \in Nat /\ R!Msb \in Nat /\ k \in 0..R!Msb
    BY Degree, RabinSizes
<1>2. i \in 0..R!Msb /\ i \in Nat /\ i >= k /\ i - k \in Nat /\ l \in Polynomials
    BY <1>1 DEF Polynomials
<1>3. CASE i \notin l
    BY <1>1, <1>2, <1>3, Below, SameLaws DEF LowStep
<1>4. CASE i \in l
    <2>1. LowStep(Aligned(d), l, i) = l ^^ s
        BY <1>4, XorIs DEF LowStep
    <2>2. s \in SUBSET (0..i) /\ i \in s /\ s = Up(d, i - k)
        BY <1>2, AlignedIs
    <2> HIDE DEF s, k
    <2>3. l ^^ s \in SUBSET (0..(i - 1))
        BY <1>2, <1>4, <2>2, Cancel
    <2>4. s \in Multiples(d)
        BY <1>1, <1>2, <2>2, PowersAre
    <2> QED
        BY <1>1, <2>1, <2>3, <2>4, SameMultiple
<1> QED
    BY <1>3, <1>4

\* The places that the loops visit.
LEMMA HighDown ==
    /\ DOMAIN R!Down(R!Msb - 1, 0) = 1..R!Msb
    /\ \A m \in 1..R!Msb : R!Down(R!Msb - 1, 0)[m] = R!Msb - m
<1>1. R!Msb \in Nat
    BY RabinSizes
<1>2. /\ (R!Msb - 1) - 0 + 1 = R!Msb
      /\ \A m \in 1..R!Msb : (R!Msb - 1) - m + 1 = R!Msb - m
    BY <1>1
<1> QED
    BY <1>2 DEF R!Down

\* The high word goes, and nothing but multiples of d with it.
LEMMA HighLoopIs ==
    ASSUME NEW d \in Polys, NEW p \in Pairs(R!Msb - 1)
    PROVE  LET q == HighLoop(Aligned(d), p, R!Down(R!Msb - 1, 0)) IN
           q \in Pairs(-1) /\ Same(Value(q), Value(p), d)
<1> DEFINE n == R!Msb
           seq == R!Down(R!Msb - 1, 0)
           A == Pairs(R!Msb)
           q == HighLoop(Aligned(d), p, seq)
<1>1. n \in Nat /\ d \in Polynomials
    BY RabinSizes, Degree
<1>2. DOMAIN seq = 1..n /\ \A m \in 1..n : seq[m] = n - m
    BY HighDown, Zenon
<1> HIDE DEF seq
<1>3. p \in A
    BY <1>1 DEF Pairs
<1>4. \A m \in 1..n : n - m \in 0..R!Msb /\ n - m \in 0..(n - 1)
    BY <1>1
<1>5. \A a \in A, m \in 1..n : HighStep(Aligned(d), a, seq[m]) \in A
    <2> SUFFICES ASSUME NEW a \in A, NEW m \in 1..n
                 PROVE  HighStep(Aligned(d), a, n - m) \in A
        BY <1>2
    <2> DEFINE s == R!Shr(Aligned(d), R!Msb - (n - m))
               t == R!Shl(Aligned(d), (n - m) + 1)
    <2>1. s \in SUBSET (0..(n - m)) /\ t \in R!Word
        BY <1>4, AlignedIs, TakenAway
    <2>2. s \in R!Word /\ a.h \in R!Word /\ a.l \in R!Word
        BY <1>1, <2>1, RabinSizes DEF Pairs
    <2> HIDE DEF s, t
    <2>3. a.h ^^ s \in R!Word /\ a.l ^^ t \in R!Word
        BY <2>1, <2>2, WordXor, Zenon
    <2>4. HighStep(Aligned(d), a, n - m) \in {a, [h |-> a.h ^^ s, l |-> a.l ^^ t]}
        BY XorIs DEF HighStep, s, t
    <2> QED
        BY <2>3, <2>4, RabinSizes DEF Pairs
<1> HIDE DEF A, n
<1>20. PICK F : HighRun(F, Aligned(d), p, seq, n)
    BY <1>1, <1>2, <1>3, <1>5, HighFold
<1>6. /\ F[0] = p /\ q = F[n]
      /\ \A m \in 1..n : F[m] = HighStep(Aligned(d), F[m - 1], seq[m])
    BY <1>20 DEF HighRun
<1> HIDE DEF q
<1> DEFINE V == {m \in Nat : m <= n => /\ F[m] \in Pairs((n - 1) - m)
                                       /\ Same(Value(F[m]), Value(p), d)}
<1>7. 0 \in V
    <2>1. Value(p) \in Polynomials
        BY <1>1, ValueType DEF n
    <2>2. (n - 1) - 0 = n - 1
        BY <1>1
    <2> QED
        BY <1>1, <1>6, <2>1, <2>2, SameLaws DEF n
<1>8. ASSUME NEW m \in Nat, m \in V PROVE m + 1 \in V
    <2> SUFFICES ASSUME m + 1 <= n
                 PROVE  /\ F[m + 1] \in Pairs((n - 1) - (m + 1))
                        /\ Same(Value(F[m + 1]), Value(p), d)
        OBVIOUS
    <2>1. /\ m + 1 \in 1..n /\ (m + 1) - 1 = m /\ n - (m + 1) \in 0..R!Msb
          /\ (n - 1) - m = n - (m + 1) /\ (n - 1) - (m + 1) = (n - (m + 1)) - 1
          /\ (n - 1) - (m + 1) \in Int
        BY <1>1, <1>4
    <2>2. F[m + 1] = HighStep(Aligned(d), F[m], n - (m + 1))
        BY <1>2, <1>6, <2>1
    <2>3. F[m] \in Pairs(n - (m + 1)) /\ Same(Value(F[m]), Value(p), d)
        <3>1. m <= n
            BY <1>1
        <3>2. F[m] \in Pairs((n - 1) - m) /\ Same(Value(F[m]), Value(p), d)
            BY <1>8, <3>1
        <3> QED
            BY <2>1, <3>2
    <2>4. F[m + 1] \in Pairs((n - 1) - (m + 1)) /\ Same(Value(F[m + 1]), Value(F[m]), d)
        BY <2>1, <2>2, <2>3, HighStepIs
    <2>5. Value(F[m + 1]) \in Polynomials /\ Value(F[m]) \in Polynomials /\ Value(p) \in Polynomials
        <3>1. n - (m + 1) \in Int /\ n - 1 \in Int
            BY <1>1
        <3> QED
            BY <2>1, <2>3, <2>4, <3>1, ValueType DEF n
    <2> QED
        BY <1>1, <2>3, <2>4, <2>5, SameLaws
<1>9. n \in V
    <2> HIDE DEF V
    <2> QED
        BY <1>1, <1>7, <1>8, Induction
<1>10. (n - 1) - n = -1 /\ n <= n
    BY <1>1
<1> QED
    BY <1>6, <1>9, <1>10 DEF q, seq

\* The positions of the second loop.
LEMMA LowDown ==
    ASSUME NEW k \in 0..R!Msb
    PROVE  /\ DOMAIN R!Down(R!Msb, k) = 1..(R!Msb - k + 1)
           /\ \A m \in 1..(R!Msb - k + 1) : R!Down(R!Msb, k)[m] = R!Msb - m + 1
BY DEF R!Down

\* Two remainders of the same polynomial.
LEMMA SameType ==
    ASSUME NEW d \in Polynomials, NEW x \in Polynomials, NEW y \in Polynomials, NEW z \in Polynomials,
           Same(x, y, d), Same(y, z, d)
    PROVE  Same(x, z, d) /\ Same(z, x, d)
<1>1. Same(x, z, d)
    BY SameLaws, Zenon
<1> QED
    BY <1>1, SameLaws

\* The bits of the low word that d can take away go as well.
LEMMA LowLoopIs ==
    ASSUME NEW d \in Polys, NEW l \in R!Word
    PROVE  LET q == LowLoop(Aligned(d), l, R!Down(R!Msb, R!xshift(d))) IN
           q \in SUBSET (0..(R!xshift(d) - 1)) /\ Same(q, l, d)
<1> DEFINE M == R!Msb
           k == R!xshift(d)
           n == M - k + 1
           seq == R!Down(M, k)
           q == LowLoop(Aligned(d), l, seq)
<1>1. M \in Nat /\ d \in Polynomials /\ k \in 0..M /\ n \in Nat /\ l \in SUBSET (0..M)
    BY RabinSizes, Degree
<1>2. DOMAIN seq = 1..n /\ \A m \in 1..n : seq[m] = M - m + 1
    BY <1>1, LowDown, Zenon
<1> HIDE DEF seq
<1>4. \A m \in 1..n : M - m + 1 \in 0..M /\ M - m + 1 \in k..M
    BY <1>1
<1>5. \A a \in R!Word, m \in 1..n : LowStep(Aligned(d), a, seq[m]) \in R!Word
    <2> SUFFICES ASSUME NEW a \in R!Word, NEW m \in 1..n
                 PROVE  LowStep(Aligned(d), a, M - m + 1) \in R!Word
        BY <1>2
    <2> DEFINE s == R!Shr(Aligned(d), M - (M - m + 1))
    <2>1. s \in SUBSET (0..(M - m + 1))
        BY <1>4, AlignedIs
    <2>2. s \in R!Word
        BY <1>1, <2>1, RabinSizes
    <2>3. a ^^ s \in R!Word
        BY <2>2, WordXor
    <2>4. LowStep(Aligned(d), a, M - m + 1) \in {a, a ^^ s}
        BY XorIs DEF LowStep
    <2> QED
        BY <2>3, <2>4, Zenon
<1> HIDE DEF n, M, k
<1>20. PICK F : LowRun(F, Aligned(d), l, seq, n)
    BY <1>1, <1>2, <1>5, LowFold
<1>6. /\ F[0] = l /\ q = F[n]
      /\ \A m \in 1..n : F[m] = LowStep(Aligned(d), F[m - 1], seq[m])
    BY <1>20 DEF LowRun
<1> HIDE DEF q
<1> DEFINE V == {m \in Nat : m <= n => F[m] \in SUBSET (0..(M - m)) /\ Same(F[m], l, d)}
<1>10. l \in Polynomials
    BY <1>1 DEF Polynomials
<1>7. 0 \in V
    <2>1. M - 0 = M
        BY <1>1
    <2> QED
        BY <1>1, <1>6, <1>10, <2>1, SameLaws
<1>8. ASSUME NEW m \in Nat, m \in V PROVE m + 1 \in V
    <2> SUFFICES ASSUME m + 1 <= n
                 PROVE  F[m + 1] \in SUBSET (0..(M - (m + 1))) /\ Same(F[m + 1], l, d)
        OBVIOUS
    <2>1. /\ m + 1 \in 1..n /\ (m + 1) - 1 = m /\ M - m \in k..M
          /\ M - (m + 1) + 1 = M - m /\ (M - m) - 1 = M - (m + 1) /\ m <= n
          /\ M - m \in Nat
        BY <1>1 DEF n
    <2>2. F[m + 1] = LowStep(Aligned(d), F[m], M - m)
        BY <1>2, <1>6, <2>1
    <2>3. F[m] \in SUBSET (0..(M - m)) /\ Same(F[m], l, d)
        BY <1>8, <2>1
    <2>4. F[m + 1] \in SUBSET (0..((M - m) - 1)) /\ Same(F[m + 1], F[m], d)
        BY <2>1, <2>2, <2>3, LowStepIs DEF M, k
    <2>5. F[m + 1] \in Polynomials /\ F[m] \in Polynomials
        BY <2>1, <2>3, <2>4 DEF Polynomials
    <2> QED
        BY <1>1, <1>10, <2>1, <2>3, <2>4, <2>5, SameType
<1>9. n \in V
    <2> HIDE DEF V
    <2> QED
        BY <1>1, <1>7, <1>8, Induction
<1>11. M - n = k - 1 /\ n <= n
    BY <1>1 DEF n
<1> QED
    BY <1>6, <1>9, <1>11 DEF q, seq, M, k

\* polymod returns the remainder of its two words.
LEMMA PolymodIs ==
    ASSUME NEW d \in Polys, NEW nh \in R!Word, NEW nl \in R!Word
    PROVE  /\ R!polymod(nh, nl, d) \in SUBSET (0..(R!xshift(d) - 1))
           /\ Same(R!polymod(nh, nl, d), Up(nh, WordBits) ^^ nl, d)
<1> DEFINE dd == Aligned(d)
           p0 == [h |-> nh, l |-> nl]
           p1 == [h |-> Topless(nh, dd), l |-> nl]
           p2 == HighLoop(dd, p1, R!Down(R!Msb - 1, 0))
           r == LowLoop(dd, p2.l, R!Down(R!Msb, R!xshift(d)))
<1>1. /\ R!Msb \in Nat /\ d \in Polynomials /\ R!Word = SUBSET (0..R!Msb)
      /\ R!fls64(d) - 1 = R!xshift(d) /\ R!xshift(d) \in Nat
    BY RabinSizes, Degree
<1>2. R!polymod(nh, nl, d) = r
    BY <1>1, PolymodLoops
<1>3. p1 \in Pairs(R!Msb - 1) /\ Same(Value(p1), Value(p0), d)
    <2>1. p0 \in Pairs(R!Msb)
        BY <1>1 DEF Pairs
    <2>2. CASE R!Msb \notin nh
        <3>1. p1 = p0 /\ nh \in SUBSET (0..(R!Msb - 1))
            BY <1>1, <2>2, Below DEF Topless
        <3>2. Value(p0) \in Polynomials
            BY <1>1, <2>1, ValueType
        <3> QED
            BY <1>1, <3>1, <3>2, SameLaws DEF Pairs
    <2>3. CASE R!Msb \in nh
        <3>1. p1 = [h |-> nh ^^ dd, l |-> nl]
            BY <2>3, XorIs DEF Topless
        <3>2. dd \in SUBSET (0..R!Msb) /\ R!Msb \in dd /\ dd \in Polynomials
            BY <1>1, AlignedIs DEF Polynomials
        <3>3. Up(dd, WordBits) \in Multiples(d)
            <4>1. R!Msb \in 0..R!Msb /\ R!Msb + 1 = WordBits
                BY <1>1, RabinSizes
            <4> QED
                BY <4>1, TakenAway
        <3> HIDE DEF dd
        <3>4. nh ^^ dd \in SUBSET (0..(R!Msb - 1))
            BY <1>1, <2>3, <3>2, Cancel
        <3>5. nh \in Polynomials /\ WordBits \in Nat
            BY <1>1, RabinSizes DEF Polynomials
        <3>6. Value(p1) = (Up(nh, WordBits) ^^ Up(dd, WordBits)) ^^ nl
            BY <3>1, <3>2, <3>5, UpSum DEF Value
        <3>7. Value(p1) = Value(p0) ^^ Up(dd, WordBits)
            BY <3>6 DEF Value, ^^
        <3> QED
            BY <1>1, <3>1, <3>3, <3>4, <3>7, SameMultiple DEF Pairs
    <2> QED
        BY <2>2, <2>3
<1> HIDE DEF p1
<1>4. p2 \in Pairs(-1) /\ Same(Value(p2), Value(p1), d)
    BY <1>3, HighLoopIs
<1> HIDE DEF p2
<1>5. p2.l \in R!Word /\ Value(p2) = p2.l
    <2>1. p2.h = {} /\ p2.l \in R!Word
        BY <1>4 DEF Pairs
    <2>2. Up({}, WordBits) = {}
        BY DEF Up
    <2> QED
        BY <2>1, <2>2 DEF Value, ^^
<1>6. r \in SUBSET (0..(R!xshift(d) - 1)) /\ Same(r, p2.l, d)
    BY <1>5, LowLoopIs
<1> HIDE DEF r
<1>7. /\ Value(p0) \in Polynomials /\ Value(p1) \in Polynomials /\ Value(p2) \in Polynomials
      /\ r \in Polynomials
    <2>1. p0 \in Pairs(R!Msb) /\ -1 \in Int /\ R!Msb - 1 \in Int /\ R!Msb \in Int
        BY <1>1 DEF Pairs
    <2> QED
        BY <1>1, <1>3, <1>4, <1>6, <2>1, ValueType DEF Polynomials
<1>8. Same(Value(p2), Value(p0), d)
    BY <1>1, <1>3, <1>4, <1>7, SameType
<1>9. Same(r, Value(p0), d)
    BY <1>1, <1>5, <1>6, <1>7, <1>8, SameType
<1>10. Value(p0) = Up(nh, WordBits) ^^ nl
    BY DEF Value
<1> QED
    BY <1>2, <1>6, <1>9, <1>10

(***************************************************************************)
(* polymult                                                                *)
(***************************************************************************)
\* The terms of x up to the i-th.
UpTo(x, i) == {j \in x : j <= i}

\* One more bit of x adds one more power.
LEMMA UpToNext ==
    ASSUME NEW x \in Polynomials, NEW i \in Nat, i > 0, NEW e \in Nat
    PROVE  Up(UpTo(x, i), e) = IF i \in x THEN Up(UpTo(x, i - 1), e) ^^ Up({e}, i)
                               ELSE Up(UpTo(x, i - 1), e)
<1>1. \A j \in x : j \in Nat
    BY DEF Polynomials
<1>2. CASE i \notin x
    <2>1. UpTo(x, i) = UpTo(x, i - 1)
        BY <1>1, <1>2 DEF UpTo
    <2> QED
        BY <1>2, <2>1
<1>3. CASE i \in x
    <2>0. \A j \in x : (j <= i <=> j <= i - 1 \/ j = i) /\ (j <= i - 1 => j < i)
        BY <1>1
    <2>1. UpTo(x, i) = UpTo(x, i - 1) \cup {i} /\ \A j \in UpTo(x, i - 1) : j \in Nat /\ j < i
        BY <1>1, <1>3, <2>0 DEF UpTo
    <2>2. Up({e}, i) = {i + e}
        BY DEF Up
    <2>3. Up(UpTo(x, i), e) = Up(UpTo(x, i - 1), e) \cup {i + e}
        BY <2>1 DEF Up
    <2>4. \A z \in Up(UpTo(x, i - 1), e) : z # i + e
        BY <2>1 DEF Up
    <2>5. Up(UpTo(x, i), e) = Up(UpTo(x, i - 1), e) ^^ {i + e}
        BY <2>3, <2>4 DEF ^^
    <2> QED
        BY <1>3, <2>2, <2>5
<1> QED
    BY <1>2, <1>3

\* A turn adds y times a power, if x has it.
LEMMA TermStepIs ==
    ASSUME NEW x \in R!Word, NEW y \in R!Word, NEW i \in 0..R!Msb, NEW p \in Pairs(R!Msb)
    PROVE  /\ TermStep(x, y, p, i) \in Pairs(R!Msb)
           /\ Value(TermStep(x, y, p, i)) = IF i \in x THEN Value(p) ^^ Up(y, i) ELSE Value(p)
<1> DEFINE s == R!Shr(y, WordBits - i)
           t == R!Shl(y, i)
           q == TermStep(x, y, p, i)
<1>1. i \in 0..WordBits /\ WordBits \in Nat /\ R!Word = SUBSET (0..R!Msb) /\ R!Msb \in Nat
    BY RabinSizes
<1>2. CASE i \notin x
    BY <1>2 DEF TermStep
<1>3. CASE i \in x
    <2>1. s \in R!Word /\ t \in R!Word /\ Up(s, WordBits) ^^ t = Up(y, i)
        BY <1>1, ShiftWord
    <2>2. q = [h |-> p.h ^^ s, l |-> p.l ^^ t]
        BY <1>3, XorIs DEF TermStep
    <2>3. p.h \in R!Word /\ p.l \in R!Word
        BY <1>1 DEF Pairs
    <2> HIDE DEF s, t, q
    <2>4. p.h ^^ s \in R!Word /\ p.l ^^ t \in R!Word
        BY <2>1, <2>3, WordXor, Zenon
    <2>5. s \in Polynomials /\ p.h \in Polynomials
        BY <1>1, <2>1, <2>3 DEF Polynomials
    <2>6. Up(p.h ^^ s, WordBits) = Up(p.h, WordBits) ^^ Up(s, WordBits)
        BY <1>1, <2>5, UpSum, Zenon
    <2>7. Value(q) = Value(p) ^^ Up(y, i)
        BY <2>1, <2>2, <2>6, SumSwap DEF Value
    <2>8. q \in Pairs(R!Msb)
        BY <1>1, <2>2, <2>4 DEF Pairs
    <2> QED
        BY <1>3, <2>7, <2>8 DEF q
<1> QED
    BY <1>2, <1>3

\* The product of x and a y that is the power e, but for multiples of d.
LEMMA PolymultIs ==
    ASSUME NEW d \in Polynomials, NEW x \in R!Word, NEW y \in R!Word, NEW e \in Nat,
           Same(y, {e}, d)
    PROVE  /\ R!polymult(x, y).h \in R!Word /\ R!polymult(x, y).l \in R!Word
           /\ Same(Value(R!polymult(x, y)), Up(x, e), d)
<1> DEFINE M == R!Msb
           A == Pairs(M)
           b == [h |-> {}, l |-> IF 0 \in x THEN y ELSE {}]
           seq == [i \in 1..M |-> i]
           q == TermLoop(x, y, b, seq)
<1>1. M \in Nat /\ R!Word = SUBSET (0..M) /\ {e} \in Polynomials
      /\ x \in Polynomials /\ y \in Polynomials
    BY RabinSizes DEF Polynomials
<1>2. DOMAIN seq = 1..M /\ \A m \in 1..M : seq[m] = m
    OBVIOUS
<1>3. b \in A
    BY <1>1 DEF Pairs
<1> HIDE DEF seq
<1>5. \A a \in A, m \in 1..M : TermStep(x, y, a, seq[m]) \in A
    <2> SUFFICES ASSUME NEW a \in A, NEW m \in 1..M
                 PROVE  TermStep(x, y, a, m) \in A
        BY <1>2
    <2>1. m \in 0..M
        BY <1>1
    <2> QED
        BY <2>1, TermStepIs
<1> HIDE DEF M, A, b
<1>20. PICK F : TermRun(F, x, y, b, seq, M)
    BY <1>1, <1>2, <1>3, <1>5, TermFold
<1>6. /\ F[0] = b /\ q = F[M]
      /\ \A m \in 1..M : F[m] = TermStep(x, y, F[m - 1], seq[m])
    BY <1>20 DEF TermRun
<1> HIDE DEF q
<1> DEFINE V == {m \in Nat : m <= M => F[m] \in A /\ Same(Value(F[m]), Up(UpTo(x, m), e), d)}
<1>7. 0 \in V
    <2>1. Value(b) = IF 0 \in x THEN y ELSE {}
        BY DEF Value, b, Up, ^^
    <2>2. UpTo(x, 0) = IF 0 \in x THEN {0} ELSE {}
        <3>1. \A j \in x : j \in Nat
            BY <1>1 DEF Polynomials
        <3> QED
            BY <3>1 DEF UpTo
    <2>3. Up({0}, e) = {e} /\ Up({}, e) = {}
        BY DEF Up
    <2>4. {} \in Polynomials
        BY DEF Polynomials
    <2>5. Same({}, {}, d)
        BY <2>4, SameLaws
    <2>6. Same(Value(b), Up(UpTo(x, 0), e), d)
        BY <2>1, <2>2, <2>3, <2>5
    <2> QED
        BY <1>3, <1>6, <2>6
<1>8. ASSUME NEW m \in Nat, m \in V PROVE m + 1 \in V
    <2> SUFFICES ASSUME m + 1 <= M
                 PROVE  F[m + 1] \in A /\ Same(Value(F[m + 1]), Up(UpTo(x, m + 1), e), d)
        OBVIOUS
    <2>1. m + 1 \in 1..M /\ (m + 1) - 1 = m /\ m <= M /\ m + 1 \in 0..M /\ m + 1 \in Nat /\ m + 1 > 0
        BY <1>1
    <2>2. F[m + 1] = TermStep(x, y, F[m], m + 1)
        BY <1>2, <1>6, <2>1
    <2>3. F[m] \in A /\ Same(Value(F[m]), Up(UpTo(x, m), e), d)
        BY <1>8, <2>1
    <2>4. /\ F[m + 1] \in A
          /\ Value(F[m + 1]) = IF m + 1 \in x THEN Value(F[m]) ^^ Up(y, m + 1) ELSE Value(F[m])
        BY <2>1, <2>2, <2>3, TermStepIs DEF A, M
    <2>5. Up(UpTo(x, m + 1), e) = IF m + 1 \in x THEN Up(UpTo(x, m), e) ^^ Up({e}, m + 1)
                                  ELSE Up(UpTo(x, m), e)
        BY <1>1, <2>1, UpToNext
    <2>6. Same(Up(y, m + 1), Up({e}, m + 1), d)
        BY <1>1, <2>1, SameUp, Zenon
    <2>7. CASE m + 1 \in x
        <3>1. Same(Value(F[m]) ^^ Up(y, m + 1), Up(UpTo(x, m), e) ^^ Up({e}, m + 1), d)
            BY <2>3, <2>6, SameSum
        <3> QED
            BY <2>4, <2>5, <2>7, <3>1
    <2>8. CASE m + 1 \notin x
        BY <2>3, <2>4, <2>5, <2>8
    <2> QED
        BY <2>7, <2>8
<1>9. M \in V
    <2> HIDE DEF V
    <2> QED
        BY <1>1, <1>7, <1>8, Induction
<1>10. UpTo(x, M) = x /\ M <= M
    <2>1. \A j \in x : j <= M
        BY <1>1
    <2>2. UpTo(x, M) = x
        BY <2>1 DEF UpTo
    <2> QED
        BY <1>1, <2>2
<1>11. R!polymult(x, y) = q
    BY PolymultLoop DEF q, b, seq, M
<1>12. q \in A /\ Same(Value(q), Up(x, e), d)
    BY <1>6, <1>9, <1>10
<1> QED
    BY <1>1, <1>11, <1>12 DEF A, Pairs

\* The product modulo d.
LEMMA PolymmultIs ==
    ASSUME NEW d \in Polys, NEW x \in R!Word, NEW y \in R!Word, NEW e \in Nat,
           Same(y, {e}, d)
    PROVE  /\ R!polymmult(x, y, d) \in SUBSET (0..(R!xshift(d) - 1))
           /\ Same(R!polymmult(x, y, d), Up(x, e), d)
<1> DEFINE p == R!polymult(x, y)
           r == R!polymod(p.h, p.l, d)
<1>1. d \in Polynomials /\ R!xshift(d) \in Nat /\ R!Word = SUBSET (0..R!Msb) /\ WordBits \in Nat
    BY Degree, RabinSizes
<1>2. p.h \in R!Word /\ p.l \in R!Word /\ Same(Value(p), Up(x, e), d)
    BY <1>1, PolymultIs
<1>3. r \in SUBSET (0..(R!xshift(d) - 1)) /\ Same(r, Value(p), d)
    BY <1>2, PolymodIs DEF Value
<1>4. R!polymmult(x, y, d) = r
    BY DEF R!polymmult
<1> HIDE DEF p, r
<1>5. r \in Polynomials /\ x \in Polynomials /\ p.h \in Polynomials /\ p.l \in Polynomials
    BY <1>1, <1>2, <1>3 DEF Polynomials
<1>6. Value(p) \in Polynomials /\ Up(x, e) \in Polynomials
    BY <1>1, <1>5, UpType, SumType DEF Value
<1> QED
    BY <1>1, <1>2, <1>3, <1>4, <1>5, <1>6, SameType

(***************************************************************************)
(* The tables                                                              *)
(***************************************************************************)
\* What an entry of T is for a byte that leaves the word: the bits that are
\* to go and what d makes of them.
Folded(d, j) == R!polymmult(j, R!polymod({}, R!Shl({0}, R!xshift(d)), d), d)

\* An entry of T takes the byte away that leaves the word and puts in its place
\* what d makes of it.
LEMMA LookupIs ==
    ASSUME NEW d \in Polys, NEW j \in R!Byte
    PROVE  /\ R!LookupTable(d)[j] = Folded(d, j) ^^ R!Shl(j, R!xshift(d))
           /\ Folded(d, j) \in SUBSET (0..(R!xshift(d) - 1))
           /\ Same(Folded(d, j), Up(j, R!xshift(d)), d)
<1> DEFINE k == R!xshift(d)
           T1 == R!polymod({}, R!Shl({0}, k), d)
<1>1. /\ k \in 0..R!Msb /\ k \in Nat /\ R!Msb \in Nat /\ R!Word = SUBSET (0..R!Msb)
      /\ d \in Polynomials /\ ByteBits \in 1..WordBits /\ R!Msb = WordBits - 1
      /\ R!Byte = SUBSET (0..(ByteBits - 1)) /\ WordBits \in Nat
    BY Degree, RabinSizes
<1> HIDE DEF k
<1>2. R!Shl({0}, k) = {k} /\ {k} \in R!Word /\ {} \in R!Word
    BY <1>1 DEF R!Shl
<1>3. Up({}, WordBits) ^^ {k} = {k}
    BY DEF Up, ^^
<1>4. T1 \in SUBSET (0..(k - 1)) /\ Same(T1, {k}, d)
    BY <1>2, <1>3, PolymodIs DEF k
<1> HIDE DEF T1
<1>5. T1 \in R!Word /\ j \in R!Word
    BY <1>1, <1>4
<1>6. Folded(d, j) = R!polymmult(j, T1, d)
    BY DEF Folded, T1, k
<1>7. Folded(d, j) \in SUBSET (0..(k - 1)) /\ Same(Folded(d, j), Up(j, k), d)
    BY ZenonT(60), <1>1, <1>4, <1>5, <1>6, PolymmultIs DEF k
<1>8. R!LookupTable(d)[j] = Folded(d, j) \cup R!Shl(j, k)
    BY <1>6 DEF R!LookupTable, T1, k
<1>9. \A i \in R!Shl(j, k) : i \notin Folded(d, j)
    <2>1. \A i \in j : i \in Nat /\ i + k >= k /\ i + k \notin 0..(k - 1)
        BY <1>1
    <2> QED
        BY <1>7, <2>1 DEF R!Shl
<1>10. Folded(d, j) \cup R!Shl(j, k) = Folded(d, j) ^^ R!Shl(j, k)
    BY <1>9 DEF ^^
<1> QED
    BY <1>7, <1>8, <1>10 DEF k

\* add_byte appends a byte to what the fingerprint is the remainder of.
LEMMA AddByteIs ==
    ASSUME NEW d \in Polys, NEW fp \in SUBSET (0..(R!xshift(d) - 1)), NEW m \in R!Byte
    PROVE  LET q == R!AddByte(R!LookupTable(d), R!LookupShift(d), fp, m) IN
           /\ q \in SUBSET (0..(R!xshift(d) - 1))
           /\ Same(q, Up(fp, ByteBits) ^^ m, d)
<1> DEFINE k == R!xshift(d)
           s == R!LookupShift(d)
           j == R!Shr(fp, s)
           lo == {i \in fp : i < s}
           g == Folded(d, j)
           q == R!AddByte(R!LookupTable(d), s, fp, m)
<1>1. /\ k \in ByteBits..R!Msb /\ k \in Nat /\ R!Msb \in Nat /\ R!Word = SUBSET (0..R!Msb)
      /\ d \in Polynomials /\ ByteBits \in Nat \ {0}
      /\ R!Byte = SUBSET (0..(ByteBits - 1))
    BY Degree, RabinSizes
<1>2. s = k - ByteBits
    BY DEF R!LookupShift
<1> HIDE DEF k, s
<1>3. \A i \in fp : i \in Nat /\ i < k
    BY <1>1 DEF k
<1>4. \A i \in m : i \in Nat /\ i < ByteBits /\ i < k
    BY <1>1
<1>5. j \in R!Byte /\ Up(j, k) = {i + ByteBits : i \in fp \ lo}
    <2>1. \A i \in fp : (i >= s <=> ~(i < s))
                        /\ (i >= s => i - s \in 0..(ByteBits - 1) /\ (i - s) + k = i + ByteBits)
        BY <1>1, <1>2, <1>3
    <2>2. j = {i - s : i \in fp \ lo}
        BY <2>1 DEF R!Shr
    <2>3. Up(j, k) = {i + ByteBits : i \in fp \ lo}
        BY <2>1, <2>2 DEF Up
    <2>4. j \in SUBSET (0..(ByteBits - 1))
        BY <2>1, <2>2
    <2> QED
        BY <1>1, <2>3, <2>4
<1>6. g \in SUBSET (0..(k - 1)) /\ Same(g, Up(j, k), d)
      /\ R!LookupTable(d)[j] = g ^^ R!Shl(j, k)
    BY <1>5, LookupIs DEF k
<1>7. /\ Up(lo, ByteBits) \in SUBSET (0..(k - 1))
      /\ \A i \in Up(lo, ByteBits) : i \in 0..R!Msb /\ i \notin m /\ i \notin Up(j, k)
    <2>1. \A i \in lo : /\ i + ByteBits \in 0..(k - 1) /\ i + ByteBits \in 0..R!Msb
                        /\ ~(i + ByteBits < ByteBits) /\ i + ByteBits < k
        BY <1>1, <1>2, <1>3
    <2>2. \A i \in fp \ lo : ~(i + ByteBits < k)
        BY <1>1, <1>2, <1>3
    <2> QED
        BY <1>4, <1>5, <2>1, <2>2 DEF Up
<1>8. R!Shl(fp, ByteBits) = Up(lo, ByteBits) \cup R!Shl(j, k)
    <2>1. Up(fp, ByteBits) = Up(lo, ByteBits) \cup Up(j, k)
        BY <1>5 DEF Up
    <2>2. R!Shl(fp, ByteBits) = Up(fp, ByteBits) \cap 0..R!Msb /\ R!Shl(j, k) = Up(j, k) \cap 0..R!Msb
        BY RabinSizes DEF R!Shl, Up
    <2> QED
        BY <1>7, <2>1, <2>2
<1>9. R!Shl(j, k) \subseteq Up(j, k) /\ \A i \in Up(j, k) : i \notin m
    <2>1. \A i \in fp \ lo : ~(i + ByteBits < k)
        BY <1>1, <1>2, <1>3
    <2>2. \A i \in Up(j, k) : i \notin m
        BY <1>4, <1>5, <2>1
    <2> QED
        BY <2>2 DEF R!Shl, Up
<1>10. q = ((Up(lo, ByteBits) \cup R!Shl(j, k)) \cup m) ^^ (g ^^ R!Shl(j, k))
    BY <1>6, <1>8, XorIs DEF R!AddByte
<1> HIDE DEF q, j, g
<1>11. q = (Up(lo, ByteBits) ^^ m) ^^ g
    <2> DEFINE a == Up(lo, ByteBits)
               c == R!Shl(j, k)
    <2>1. \A i \in a : i \notin m /\ i \notin c
        BY <1>7, <1>9
    <2>2. \A i \in c : i \notin m
        BY <1>9
    <2>3. q = ((a \cup c) \cup m) ^^ (g ^^ c)
        BY <1>10
    <2> HIDE DEF a, c
    <2>4. (a \cup c) \cup m = (a ^^ m) ^^ c
        BY <2>1, <2>2 DEF ^^
    <2>5. q = ((a ^^ m) ^^ c) ^^ (g ^^ c)
        BY <2>3, <2>4
    <2> DEFINE b == a ^^ m
    <2>6. (b ^^ c) ^^ (g ^^ c) = b ^^ g
        BY DEF ^^
    <2> QED
        BY <2>5, <2>6 DEF a
<1>12. Up(fp, ByteBits) ^^ m = (Up(lo, ByteBits) ^^ m) ^^ Up(j, k)
    <2>1. Up(fp, ByteBits) = Up(lo, ByteBits) \cup Up(j, k)
        BY <1>5 DEF Up
    <2> DEFINE a == Up(lo, ByteBits)
               c == Up(j, k)
    <2>2. \A i \in a : i \notin c
        BY <1>7
    <2> HIDE DEF a, c
    <2>3. a \cup c = a ^^ c
        BY <2>2 DEF ^^
    <2>4. (a ^^ c) ^^ m = (a ^^ m) ^^ c
        BY DEF ^^
    <2> QED
        BY <2>1, <2>3, <2>4 DEF a, c
<1>13. m \in SUBSET (0..(k - 1))
    BY <1>1, <1>4
<1>14. q \in SUBSET (0..(k - 1))
    <2> DEFINE S == 0..(k - 1)
               a == Up(lo, ByteBits)
               b == a ^^ m
    <2>1. a \in SUBSET S /\ m \in SUBSET S /\ g \in SUBSET S
        BY <1>6, <1>7, <1>13
    <2>2. q = b ^^ g
        BY <1>11
    <2>3. S = 0..(k - 1)
        OBVIOUS
    <2> HIDE DEF S, a
    <2>4. b \in SUBSET S
        BY <2>1, SumIn
    <2> HIDE DEF b
    <2>5. q \in SUBSET S
        BY <2>1, <2>2, <2>4, SumIn
    <2> QED
        BY <2>3, <2>5
<1>15. Up(lo, ByteBits) ^^ m \in Polynomials
    <2>1. Up(lo, ByteBits) \in Polynomials /\ m \in Polynomials
        BY <1>1, <1>7, <1>13 DEF Polynomials
    <2> QED
        BY <2>1, SumType
<1>16. Same(q, Up(fp, ByteBits) ^^ m, d)
    <2>1. Same(Up(lo, ByteBits) ^^ m, Up(lo, ByteBits) ^^ m, d)
        BY <1>1, <1>15, SameLaws
    <2> QED
        BY <1>1, <1>6, <1>11, <1>12, <2>1, SameSum
<1> QED
    BY <1>14, <1>16 DEF q, k, s

\* Shifting 1 by as many bytes as follow the oldest gives their power.
LEMMA SizeShiftIs ==
    ASSUME NEW d \in Polys
    PROVE  LET q == ShiftLoop(R!LookupTable(d), R!LookupShift(d), {0},
                              [j \in 1..(WindowSize - 1) |-> j]) IN
           /\ q \in SUBSET (0..(R!xshift(d) - 1))
           /\ Same(q, {ByteBits * (WindowSize - 1)}, d)
<1> DEFINE n == WindowSize - 1
           k == R!xshift(d)
           A == SUBSET (0..(k - 1))
           t == R!LookupTable(d)
           u == R!LookupShift(d)
           seq == [j \in 1..n |-> j]
           q == ShiftLoop(t, u, {0}, seq)
<1>1. n \in Nat /\ k \in Nat /\ d \in Polynomials /\ ByteBits \in Nat /\ 0 \in 0..(k - 1)
      /\ {} \in R!Byte
    BY RabinSizes, Degree
<1>2. DOMAIN seq = 1..n
    OBVIOUS
<1>3. {0} \in A
    BY <1>1
<1>4. ASSUME NEW a \in A
      PROVE  ShiftStep(t, u, a) \in A /\ Same(ShiftStep(t, u, a), Up(a, ByteBits), d)
    <2>1. Up(a, ByteBits) ^^ {} = Up(a, ByteBits)
        BY DEF ^^
    <2> QED
        BY <1>1, <2>1, AddByteIs DEF ShiftStep
<1> HIDE DEF seq, A, t, u, n
<1>5. PICK F : ShiftRun(F, t, u, {0}, seq, n)
    <2>1. \A a \in A, m \in 1..n : ShiftStep(t, u, a) \in A
        BY <1>4
    <2> QED
        BY <1>1, <1>2, <1>3, <2>1, ShiftFold
<1>6. F[0] = {0} /\ q = F[n] /\ \A m \in 1..n : F[m] = ShiftStep(t, u, F[m - 1])
    BY <1>5 DEF ShiftRun
<1> HIDE DEF q
<1> DEFINE V == {m \in Nat : m <= n => F[m] \in A /\ Same(F[m], {ByteBits * m}, d)}
<1>7. 0 \in V
    <2>1. ByteBits * 0 = 0 /\ {0} \in Polynomials
        BY <1>1 DEF Polynomials
    <2>2. Same({0}, {0}, d)
        BY <1>1, <2>1, SameLaws
    <2> QED
        BY <1>3, <1>6, <2>1, <2>2
<1>8. ASSUME NEW m \in Nat, m \in V PROVE m + 1 \in V
    <2> SUFFICES ASSUME m + 1 <= n
                 PROVE  F[m + 1] \in A /\ Same(F[m + 1], {ByteBits * (m + 1)}, d)
        OBVIOUS
    <2>1. m + 1 \in 1..n /\ (m + 1) - 1 = m /\ m <= n
        BY <1>1
    <2>2. F[m + 1] = ShiftStep(t, u, F[m])
        BY <1>6, <2>1
    <2>3. F[m] \in A /\ Same(F[m], {ByteBits * m}, d)
        BY <1>8, <2>1
    <2>4. F[m + 1] \in A /\ Same(F[m + 1], Up(F[m], ByteBits), d)
        BY <1>4, <2>2, <2>3
    <2>5. ByteBits * m \in Nat /\ ByteBits * m + ByteBits = ByteBits * (m + 1)
        BY <1>1
    <2>6. /\ {ByteBits * m} \in Polynomials /\ F[m] \in Polynomials /\ F[m + 1] \in Polynomials
          /\ {ByteBits * (m + 1)} \in Polynomials
        BY <1>1, <2>3, <2>4, <2>5 DEF A, Polynomials
    <2>7. Up({ByteBits * m}, ByteBits) = {ByteBits * (m + 1)}
        BY <2>5 DEF Up
    <2>8. Same(Up(F[m], ByteBits), {ByteBits * (m + 1)}, d)
        BY <1>1, <2>3, <2>6, <2>7, SameUp
    <2>9. Up(F[m], ByteBits) \in Polynomials
        BY <1>1, <2>6, UpType
    <2> QED
        BY <1>1, <2>4, <2>6, <2>8, <2>9, SameType
<1>9. n \in V
    <2> HIDE DEF V
    <2> QED
        BY <1>1, <1>7, <1>8, Induction
<1>10. q \in A /\ Same(q, {ByteBits * n}, d)
    BY <1>1, <1>6, <1>9
<1> QED
    BY <1>10 DEF q, A, t, u, n, seq

\* An entry of U is what its byte is worth when it is the oldest.
LEMMA SlideOutIs ==
    ASSUME NEW d \in Polys, NEW j \in R!Byte
    PROVE  LET u == R!SlideOutTable(R!LookupTable(d), R!LookupShift(d), d)[j] IN
           /\ u \in SUBSET (0..(R!xshift(d) - 1))
           /\ Same(u, Up(j, ByteBits * (WindowSize - 1)), d)
<1> DEFINE q == ShiftLoop(R!LookupTable(d), R!LookupShift(d), {0},
                          [i \in 1..(WindowSize - 1) |-> i])
           e == ByteBits * (WindowSize - 1)
<1>1. q \in SUBSET (0..(R!xshift(d) - 1)) /\ Same(q, {e}, d)
    BY SizeShiftIs
<1>2. R!SlideOutTable(R!LookupTable(d), R!LookupShift(d), d)[j] = R!polymmult(j, q, d)
    BY SlideOutLoop
<1> HIDE DEF q
<1>3. e \in Nat
    BY RabinSizes
<1> HIDE DEF e
<1>4. q \in R!Word /\ j \in R!Word
    <2>1. R!xshift(d) \in 0..R!Msb /\ R!Msb \in Nat /\ R!Word = SUBSET (0..R!Msb)
        BY Degree, RabinSizes
    <2>2. j \in SUBSET (0..(ByteBits - 1)) /\ ByteBits - 1 <= R!Msb /\ ByteBits \in Nat
        BY RabinSizes
    <2> QED
        BY <1>1, <2>1, <2>2
<1>5. /\ R!polymmult(j, q, d) \in SUBSET (0..(R!xshift(d) - 1))
      /\ Same(R!polymmult(j, q, d), Up(j, e), d)
    BY <1>1, <1>3, <1>4, PolymmultIs
<1> QED
    BY <1>2, <1>5 DEF e

(***************************************************************************)
(* Long division                                                           *)
(***************************************************************************)
\* Its turn: the highest term of x goes.
LEMMA Reduce ==
    ASSUME NEW d \in Polys, NEW n \in Nat, NEW x \in SUBSET (0..n), n \in x,
           n >= R!xshift(d)
    PROVE  /\ x ^^ Up(d, n - R!xshift(d)) \in SUBSET (0..(n - 1))
           /\ Same(x ^^ Up(d, n - R!xshift(d)), x, d)
<1> DEFINE k == R!xshift(d)
           y == Up(d, n - k)
<1>1. k \in Nat /\ k \in d /\ d \in SUBSET (0..k) /\ d \in Polynomials
    BY Degree, RabinSizes
<1> HIDE DEF k
<1>2. n - k \in Nat /\ \A i \in d : i + (n - k) \in 0..n
    BY <1>1 DEF k
<1>3. k + (n - k) = n
    BY <1>1
<1>4. y \in SUBSET (0..n) /\ n \in y
    BY <1>1, <1>2, <1>3 DEF Up
<1>5. y \in Multiples(d)
    BY <1>1, <1>2, PowersAre
<1> HIDE DEF y
<1> QED
    BY <1>1, <1>4, <1>5, Cancel, SameMultiple DEF y, k

\* What is left of x after one turn of the division by d, which Mod has not
\* ended.
Ends(x, d)  == x = {} \/ R!Max(x) < R!Max(d)
Less(x, d)  == R!Xor(x, {i + R!Max(x) - R!Max(d) : i \in d})

\* Long division goes on with less than it had and the same remainder.
LEMMA Divides ==
    ASSUME NEW d \in Polys, NEW N \in Nat, NEW x \in SUBSET (0..N)
    PROVE  /\ Ends(x, d) => x \in SUBSET (0..(R!xshift(d) - 1)) /\ Same(x, x, d)
           /\ ~Ends(x, d) => /\ R!Max(x) \in 0..N
                             /\ Less(x, d) \in SUBSET (0..(R!Max(x) - 1))
                             /\ Less(x, d) \in SUBSET (0..N)
                             /\ Same(Less(x, d), x, d)
<1> DEFINE k == R!xshift(d)
           n == R!Max(x)
<1>1. k \in Nat /\ d \in SUBSET Nat /\ d \in Polynomials /\ R!Max(d) = k
    BY Degree, RabinSizes DEF Polynomials
<1>2. x \in Polynomials
    BY DEF Polynomials
<1>3. x # {} => n \in x /\ n \in 0..N /\ x \in SUBSET (0..n)
    BY Highest
<1>4. Ends(x, d) <=> x = {} \/ n < k
    BY <1>1 DEF Ends
<1> HIDE DEF k, n
<1>5. ASSUME Ends(x, d)
      PROVE  x \in SUBSET (0..(k - 1)) /\ Same(x, x, d)
    <2>1. Same(x, x, d)
        BY <1>1, <1>2, SameLaws
    <2>2. CASE x = {}
        BY <2>1, <2>2
    <2>3. CASE x # {}
        <3>1. n < k /\ n \in 0..N /\ x \in SUBSET (0..n)
            BY <1>3, <1>4, <1>5, <2>3
        <3>2. 0..n \subseteq 0..(k - 1)
            BY <3>1, <1>1
        <3> QED
            BY <2>1, <3>1, <3>2
    <2> QED
        BY <2>2, <2>3
<1>6. ASSUME ~Ends(x, d)
      PROVE  /\ n \in 0..N /\ Less(x, d) \in SUBSET (0..(n - 1))
             /\ Less(x, d) \in SUBSET (0..N) /\ Same(Less(x, d), x, d)
    <2>1. n \in x /\ n \in 0..N /\ x \in SUBSET (0..n) /\ n >= k /\ n \in Nat
        BY <1>1, <1>3, <1>4, <1>6
    <2>2. \A i \in d : i + n - k = i + (n - k)
        BY <1>1, <2>1
    <2>3. Up(d, n - k) = {i + n - k : i \in d}
        BY <2>2 DEF Up
    <2>4. Less(x, d) = x ^^ Up(d, n - k)
        BY <1>1, <2>3, XorIs DEF Less, n
    <2>5. Less(x, d) \in SUBSET (0..(n - 1)) /\ Same(Less(x, d), x, d)
        BY <2>1, <2>4, Reduce DEF k
    <2>6. 0..(n - 1) \subseteq 0..N
        BY <2>1
    <2> QED
        BY <2>1, <2>5, <2>6
<1> QED
    BY <1>5, <1>6 DEF n, k

\* Every polynomial has a remainder.
HasRest(x, k, d) == \E y \in SUBSET (0..(k - 1)) : Same(y, x, d)
AllRest(n, k, d) == \A x \in SUBSET (0..(n - 1)) : HasRest(x, k, d)

\* By induction on the degree.
LEMMA RestExists ==
    ASSUME NEW d \in Polys, NEW N \in Nat, NEW x \in SUBSET (0..N)
    PROVE  HasRest(x, R!xshift(d), d)
<1> DEFINE k == R!xshift(d)
           L == {n \in Nat : AllRest(n, k, d)}
<1>1. k \in Nat /\ d \in Polynomials
    BY Degree, RabinSizes
<1> HIDE DEF k
<1>2. ASSUME NEW z \in Polynomials, z \in SUBSET (0..(k - 1))
      PROVE  HasRest(z, k, d)
    <2>1. Same(z, z, d)
        BY <1>1, SameLaws
    <2> QED
        BY <1>2, <2>1 DEF HasRest
<1>3. 0 \in L
    <2> SUFFICES ASSUME NEW z \in SUBSET (0..(0 - 1))
                 PROVE  HasRest(z, k, d)
        BY DEF AllRest
    <2>1. z = {}
        OBVIOUS
    <2>2. z \in Polynomials /\ z \in SUBSET (0..(k - 1))
        BY <2>1 DEF Polynomials
    <2> QED
        BY <1>2, <2>2
<1>4. ASSUME NEW n \in Nat, n \in L
      PROVE  n + 1 \in L
    <2>1. AllRest(n, k, d) /\ (n + 1) - 1 = n
        BY <1>4
    <2> HIDE DEF L
    <2> SUFFICES ASSUME NEW z \in SUBSET (0..n)
                 PROVE  HasRest(z, k, d)
        BY <2>1 DEF AllRest, L
    <2>2. CASE Ends(z, d)
        <3>1. z \in SUBSET (0..(k - 1)) /\ z \in Polynomials
            BY <2>2, Divides DEF k, Polynomials
        <3> QED
            BY <1>2, <3>1
    <2>3. CASE ~Ends(z, d)
        <3> DEFINE w == Less(z, d)
        <3>1. R!Max(z) \in 0..n /\ w \in SUBSET (0..(R!Max(z) - 1)) /\ Same(w, z, d)
              /\ w \in SUBSET (0..n)
            BY <2>3, Divides
        <3> HIDE DEF w
        <3>2. 0..(R!Max(z) - 1) \subseteq 0..(n - 1)
            BY <3>1
        <3>3. w \in SUBSET (0..(n - 1))
            BY <3>1, <3>2
        <3>4. HasRest(w, k, d)
            BY <2>1, <3>3 DEF AllRest
        <3>5. PICK y \in SUBSET (0..(k - 1)) : Same(y, w, d)
            BY <3>4 DEF HasRest
        <3>6. y \in Polynomials /\ w \in Polynomials /\ z \in Polynomials
            BY <3>1 DEF Polynomials
        <3>7. Same(y, z, d)
            BY <1>1, <3>1, <3>5, <3>6, SameType
        <3> QED
            BY <3>7 DEF HasRest
    <2> QED
        BY <2>2, <2>3
<1>5. \A n \in Nat : n \in L
    <2> HIDE DEF L
    <2> QED
        BY <1>3, <1>4, Induction
<1>6. AllRest(N + 1, k, d) /\ (N + 1) - 1 = N
    BY <1>5
<1> QED
    BY <1>6 DEF AllRest, k

\* The equation of Mod.
Division(f, d, D) == f = [x \in D |-> IF Ends(x, d) THEN x ELSE f[Less(x, d)]]

\* Mod chooses a solution of that equation.
LEMMA ModRest ==
    ASSUME NEW a, NEW d
    PROVE  R!Mod(a, d) = (CHOOSE f : Division(f, d, SUBSET (0..(ByteBits * WindowSize))))[a]
BY DEF R!Mod, Division, Ends, Less

\* There is one: the remainders solve it, as a remainder is unique.
LEMMA DivisionExists ==
    ASSUME NEW d \in Polys, NEW N \in Nat
    PROVE  \E f : Division(f, d, SUBSET (0..N))
<1> DEFINE k == R!xshift(d)
           D == SUBSET (0..N)
           f == [x \in D |-> CHOOSE y \in SUBSET (0..(k - 1)) : Same(y, x, d)]
<1>1. k \in Nat /\ d \in Polynomials /\ k \in d /\ d \in SUBSET (0..k)
    BY Degree, RabinSizes
<1>2. \A x \in D : f[x] \in SUBSET (0..(k - 1)) /\ Same(f[x], x, d) /\ x \in Polynomials
                   /\ f[x] \in Polynomials
    <2> TAKE x \in D
    <2>1. HasRest(x, k, d)
        BY RestExists
    <2>2. f[x] \in SUBSET (0..(k - 1)) /\ Same(f[x], x, d)
        BY <2>1 DEF HasRest
    <2> QED
        BY <2>2 DEF Polynomials
<1>3. \A x \in D : /\ Ends(x, d) => x \in SUBSET (0..(k - 1))
                   /\ ~Ends(x, d) => Less(x, d) \in D /\ Same(Less(x, d), x, d)
    BY Divides
<1> DEFINE S == SUBSET (0..(k - 1))
<1>4. \A y \in S, z \in S : Same(y, z, d) => y = z
    BY <1>1, Unique
<1>5. DOMAIN f = D /\ f = [x \in D |-> f[x]]
    OBVIOUS
<1> HIDE DEF f, D, k
<1>6. ASSUME NEW x \in D
      PROVE  f[x] = IF Ends(x, d) THEN x ELSE f[Less(x, d)]
    <2>1. CASE Ends(x, d)
        BY <1>2, <1>3, <1>4, <2>1
    <2>2. CASE ~Ends(x, d)
        <3> DEFINE z == Less(x, d)
        <3>1. z \in D /\ Same(z, x, d)
            BY <1>3, <2>2
        <3> HIDE DEF z
        <3>2. Same(f[z], z, d) /\ f[z] \in Polynomials /\ z \in Polynomials
              /\ f[x] \in Polynomials /\ x \in Polynomials /\ Same(f[x], x, d)
              /\ f[x] \in S /\ f[z] \in S
            BY <1>2, <3>1
        <3>3. Same(f[z], x, d)
            BY <1>1, <3>1, <3>2, SameType
        <3>4. Same(x, f[x], d)
            BY <1>1, <3>2, SameLaws
        <3>5. Same(f[z], f[x], d)
            BY <1>1, <3>2, <3>3, <3>4, SameType
        <3>6. f[x] = f[z]
            BY <1>4, <3>2, <3>5
        <3> QED
            BY <2>2, <3>6 DEF z
    <2> QED
        BY <2>1, <2>2
<1>7. Division(f, d, D)
    <2>1. [x \in D |-> f[x]] = [x \in D |-> IF Ends(x, d) THEN x ELSE f[Less(x, d)]]
        BY <1>6
    <2> QED
        BY <1>5, <2>1 DEF Division
<1> QED
    BY <1>7 DEF D

\* What every solution of the equation gives.
Divided(f, d, n, N) ==
    \A x \in SUBSET (0..(n - 1)) : x \in SUBSET (0..N) =>
        f[x] \in SUBSET (0..(R!xshift(d) - 1)) /\ Same(f[x], x, d)

\* By induction on the degree, a solution gives remainders.
LEMMA DivisionIs ==
    ASSUME NEW d \in Polys, NEW N \in Nat, NEW f, Division(f, d, SUBSET (0..N)),
           NEW a \in SUBSET (0..N)
    PROVE  f[a] \in SUBSET (0..(R!xshift(d) - 1)) /\ Same(f[a], a, d)
<1> DEFINE D == SUBSET (0..N)
           L == {n \in Nat : Divided(f, d, n, N)}
           S == SUBSET (0..(R!xshift(d) - 1))
<1>1. d \in Polynomials
    BY Degree
<1>2. \A x \in D : f[x] = IF Ends(x, d) THEN x ELSE f[Less(x, d)]
    <2> HIDE DEF D
    <2> QED
        BY DEF Division, D
<1>3. \A x \in D : /\ Ends(x, d) => x \in S /\ Same(x, x, d)
                   /\ ~Ends(x, d) => Less(x, d) \in D /\ Same(Less(x, d), x, d)
                                     /\ R!Max(x) \in 0..N
                                     /\ Less(x, d) \in SUBSET (0..(R!Max(x) - 1))
    BY Divides
<1>4. \A x \in D : Ends(x, d) => f[x] \in S /\ Same(f[x], x, d)
    <2> HIDE DEF D, S
    <2> QED
        BY <1>2, <1>3
<1>5. 0 \in L
    <2>1. \A x \in SUBSET (0..(0 - 1)) : x = {} /\ Ends(x, d)
        BY DEF Ends
    <2> QED
        BY <1>4, <2>1 DEF Divided
<1>6. ASSUME NEW n \in Nat, n \in L
      PROVE  n + 1 \in L
    <2>1. Divided(f, d, n, N) /\ (n + 1) - 1 = n
        BY <1>6
    <2> SUFFICES ASSUME NEW x \in SUBSET (0..n), x \in D
                 PROVE  f[x] \in S /\ Same(f[x], x, d)
        BY <2>1 DEF Divided
    <2>2. CASE Ends(x, d)
        BY <1>4, <2>2
    <2>3. CASE ~Ends(x, d)
        <3> DEFINE w == Less(x, d)
        <3>1. w \in D /\ Same(w, x, d) /\ f[x] = f[w]
            BY <1>2, <1>3, <2>3
        <3>2. w \in SUBSET (0..(R!Max(x) - 1)) /\ R!Max(x) \in 0..n
            BY <2>3, Divides
        <3>3. 0..(R!Max(x) - 1) \subseteq 0..(n - 1)
            BY <3>2
        <3>4. w \in SUBSET (0..(n - 1))
            BY <3>2, <3>3
        <3> HIDE DEF w
        <3>5. f[w] \in S /\ Same(f[w], w, d)
            BY <2>1, <3>1, <3>4 DEF Divided
        <3>6. f[w] \in Polynomials /\ w \in Polynomials /\ x \in Polynomials
            BY <3>1, <3>5 DEF Polynomials
        <3>7. Same(f[w], x, d)
            BY <1>1, <3>1, <3>5, <3>6, SameType
        <3> QED
            BY <3>1, <3>5, <3>7
    <2> QED
        BY <2>2, <2>3
<1>7. \A n \in Nat : n \in L
    <2> HIDE DEF L
    <2> QED
        BY <1>5, <1>6, Induction
<1>8. Divided(f, d, N + 1, N) /\ (N + 1) - 1 = N
    BY <1>7
<1> QED
    BY <1>8 DEF Divided

\* Mod is the remainder.
LEMMA ModIs ==
    ASSUME NEW d \in Polys, NEW a \in SUBSET (0..(ByteBits * WindowSize))
    PROVE  R!Mod(a, d) \in SUBSET (0..(R!xshift(d) - 1)) /\ Same(R!Mod(a, d), a, d)
<1> DEFINE N == ByteBits * WindowSize
           f == CHOOSE f : Division(f, d, SUBSET (0..N))
<1>1. N \in Nat
    BY RabinSizes
<1> HIDE DEF N
<1>2. Division(f, d, SUBSET (0..N))
    BY <1>1, DivisionExists
<1>3. R!Mod(a, d) = f[a]
    BY ModRest DEF N
<1>4. a \in SUBSET (0..N)
    BY DEF N
<1> HIDE DEF f
<1> QED
    BY <1>1, <1>2, <1>3, <1>4, DivisionIs

(***************************************************************************)
(* The window                                                              *)
(***************************************************************************)
\* Where the j-th byte of a window stands in its polynomial.
Place(j) == ByteBits * (WindowSize - j)

\* The bytes do not overlap, and fit in the window.
LEMMA Places ==
    /\ Place(WindowSize) = 0
    /\ \A j \in 1..WindowSize :
          /\ Place(j) \in Nat /\ Place(j) + ByteBits <= ByteBits * WindowSize
          /\ j > 1 => Place(j - 1) = Place(j) + ByteBits /\ Place(j) + ByteBits <= Place(1)
<1> DEFINE n == WindowSize
           b == ByteBits
<1>1. n \in Nat \ {0} /\ b \in Nat
    BY RabinSizes
<1> SUFFICES /\ b * (n - n) = 0
             /\ \A j \in 1..n :
                  /\ b * (n - j) \in Nat /\ b * (n - j) + b <= b * n
                  /\ j > 1 => b * (n - (j - 1)) = b * (n - j) + b
                              /\ b * (n - j) + b <= b * (n - 1)
    BY DEF Place
<1> HIDE DEF n, b
<1>2. b * (n - n) = 0
    BY <1>1
<1>3. ASSUME NEW j \in 1..n
      PROVE  /\ b * (n - j) \in Nat /\ b * (n - j) + b <= b * n
             /\ j > 1 => b * (n - (j - 1)) = b * (n - j) + b
                         /\ b * (n - j) + b <= b * (n - 1)
    <2> DEFINE r == n - j
    <2>1. r \in Nat /\ n - (j - 1) = r + 1 /\ r + 1 <= n /\ n \in Nat /\ n - 1 \in Int
          /\ (j > 1 => r + 1 <= n - 1)
        BY <1>1
    <2> HIDE DEF r
    <2>2. b * r \in Nat /\ b * (r + 1) = b * r + b
        BY <1>1, <2>1
    <2>3. \A s \in Int : r + 1 <= s => (r + 1) * b <= s * b
        BY <1>1, <2>1, MulMono
    <2>4. \A s \in Int : s * b = b * s
        BY <1>1
    <2>5. \A s \in Int : r + 1 <= s => b * (r + 1) <= b * s
        BY <2>1, <2>3, <2>4
    <2>6. b * r + b <= b * n /\ (j > 1 => b * r + b <= b * (n - 1))
        BY <2>1, <2>2, <2>5
    <2> QED
        BY <2>1, <2>2, <2>6 DEF r
<1> QED
    BY <1>2, <1>3

\* The terms of the bytes J.
Terms(w, J) == UNION {Up(w[j], Place(j)) : j \in J}
Windows     == [1..WindowSize -> R!Byte]

\* The term of the oldest byte is the highest: without it the others are left.
LEMMA TermsAre ==
    ASSUME NEW w \in Windows
    PROVE  /\ R!Polynomial(w) = Terms(w, 1..WindowSize)
           /\ R!Polynomial(w) \in SUBSET (0..(ByteBits * WindowSize))
           /\ Terms(w, 2..WindowSize) \in Polynomials
           /\ R!Polynomial(w) ^^ Up(w[1], Place(1)) = Terms(w, 2..WindowSize)
<1> DEFINE n == WindowSize
           W == Terms(w, 1..n)
           A == Terms(w, 2..n)
           H == Up(w[1], Place(1))
<1>1. n \in Nat \ {0} /\ ByteBits \in Nat \ {0} /\ R!Byte = SUBSET (0..(ByteBits - 1))
    BY RabinSizes
<1>2. R!Polynomial(w) = W
    BY DEF R!Polynomial, Terms, Up, Place
<1>3. \A j \in 1..n : w[j] \in SUBSET (0..(ByteBits - 1))
    BY <1>1 DEF Windows
<1>4. \A j \in 1..n : \A i \in w[j] :
         /\ i + Place(j) \in 0..(ByteBits * n) /\ i + Place(j) \in Nat
         /\ j > 1 => i + Place(j) < Place(1)
    <2> TAKE j \in 1..n
    <2> TAKE i \in w[j]
    <2>1. Place(j) \in Nat /\ Place(j) + ByteBits <= ByteBits * n
          /\ (j > 1 => Place(j) + ByteBits <= Place(1))
        BY Places
    <2>2. i \in 0..(ByteBits - 1) /\ Place(1) \in Nat /\ ByteBits * n \in Nat
        BY <1>1, <1>3, Places
    <2> DEFINE N == ByteBits * n
    <2> HIDE DEF N
    <2>3. Place(j) + ByteBits <= N /\ N \in Nat
        BY <2>1, <2>2 DEF N
    <2>4. i + Place(j) \in 0..N /\ i + Place(j) \in Nat
        BY <1>1, <2>1, <2>2, <2>3
    <2>5. j > 1 => i + Place(j) < Place(1)
        BY <1>1, <2>1, <2>2
    <2> QED
        BY <2>4, <2>5 DEF N
<1>5. \A i \in w[1] : ~(i + Place(1) < Place(1))
    BY <1>1, <1>3, Places
<1> HIDE DEF n
<1>6. W \in SUBSET (0..(ByteBits * n))
    BY <1>4 DEF Terms, Up
<1>7. \A j \in 2..n : j \in 1..n /\ j > 1
    BY <1>1
<1>8. A \in SUBSET Nat /\ \A i \in A : i < Place(1)
    BY <1>4, <1>7 DEF Terms, Up
<1>9. \A i \in H : ~(i < Place(1))
    BY <1>5 DEF Up
<1>10. W = A \cup H
    <2>1. 1..n = {1} \cup 2..n
        BY <1>1
    <2> QED
        BY <2>1 DEF Terms
<1> HIDE DEF A, H, W
<1>11. W ^^ H = A
    BY <1>8, <1>9, <1>10 DEF ^^
<1> QED
    BY <1>2, <1>6, <1>8, <1>11 DEF n, A, H, W, Polynomials

\* The window after one more byte.
Slid(w, m) == [i \in 1..WindowSize |-> IF i < WindowSize THEN w[i + 1] ELSE m]

\* They move up by a byte, and the new one comes last.
LEMMA SlidTerms ==
    ASSUME NEW w \in Windows, NEW m \in R!Byte
    PROVE  /\ Slid(w, m) \in Windows
           /\ R!Polynomial(Slid(w, m)) = Up(Terms(w, 2..WindowSize), ByteBits) ^^ m
<1> DEFINE n == WindowSize
           v == Slid(w, m)
           A == Terms(w, 2..n)
<1>1. n \in Nat \ {0} /\ ByteBits \in Nat \ {0} /\ R!Byte = SUBSET (0..(ByteBits - 1))
    BY RabinSizes
<1>2. v \in Windows
    <2>1. \A i \in 1..n : i < n => i + 1 \in 1..n
        BY <1>1
    <2> QED
        BY <2>1 DEF Windows, Slid
<1>3. R!Polynomial(v) = Terms(v, 1..n)
    BY <1>2, TermsAre
<1>4. Up(v[n], Place(n)) = m
    <2>1. v[n] = m /\ m \in Polynomials
        BY <1>1 DEF Slid, Polynomials
    <2>2. Place(n) = 0
        BY Places
    <2> QED
        BY <2>1, <2>2, UpNone
<1>5. \A j \in 2..n : j - 1 \in 1..(n - 1) /\ Up(v[j - 1], Place(j - 1)) = Up(Up(w[j], Place(j)), ByteBits)
    <2> TAKE j \in 2..n
    <2>1. j - 1 \in 1..n /\ j - 1 < n /\ (j - 1) + 1 = j /\ j \in 1..n /\ j > 1
        BY <1>1
    <2>2. v[j - 1] = w[j] /\ w[j] \in Polynomials
        BY <1>1, <2>1 DEF Slid, Windows, Polynomials
    <2>3. Place(j - 1) = Place(j) + ByteBits /\ Place(j) \in Nat
        BY <2>1, Places
    <2>4. Up(Up(w[j], Place(j)), ByteBits) = Up(w[j], Place(j) + ByteBits)
        BY <1>1, <2>2, <2>3, UpTwice
    <2> QED
        BY <1>1, <2>2, <2>3, <2>4
<1>6. \A j \in 1..(n - 1) : j + 1 \in 2..n /\ (j + 1) - 1 = j
    BY <1>1
<1> HIDE DEF v
<1>7. Terms(v, 1..(n - 1)) = Up(A, ByteBits)
    <2>1. Up(A, ByteBits) = UNION {Up(Up(w[j], Place(j)), ByteBits) : j \in 2..n}
        BY DEF Up, Terms
    <2>2. {Up(Up(w[j], Place(j)), ByteBits) : j \in 2..n} = {Up(v[j], Place(j)) : j \in 1..(n - 1)}
        BY <1>5, <1>6
    <2> QED
        BY <2>1, <2>2 DEF Terms
<1>8. Terms(v, 1..n) = Terms(v, 1..(n - 1)) \cup m
    <2>1. 1..n = 1..(n - 1) \cup {n}
        BY <1>1
    <2>2. Terms(v, 1..n) = Terms(v, 1..(n - 1)) \cup Up(v[n], Place(n))
        BY <2>1 DEF Terms
    <2> QED
        BY <1>4, <2>2
<1>9. \A i \in Up(A, ByteBits) : i \notin m
    <2>1. A \in Polynomials
        BY TermsAre
    <2>2. \A i \in A : i + ByteBits \notin 0..(ByteBits - 1)
        BY <1>1, <2>1 DEF Polynomials
    <2> QED
        BY <1>1, <2>2 DEF Up
<1> DEFINE a == Up(A, ByteBits)
<1>10. R!Polynomial(v) = a \cup m
    BY <1>3, <1>7, <1>8
<1> HIDE DEF a
<1>11. a \cup m = a ^^ m
    BY <1>9 DEF ^^, a
<1> QED
    BY <1>2, <1>10, <1>11 DEF v, a

(***************************************************************************)
(* The ring                                                                *)
(***************************************************************************)
\* The bytes from the place b of the ring r on: R!Window is From(ring, bufpos).
From(r, b) == [i \in 1..WindowSize |-> r[(b + i - 1) % WindowSize]]
NextPos(b) == IF b + 1 = WindowSize THEN 0 ELSE b + 1
Rings      == [0..(WindowSize - 1) -> R!Byte]

\* A place beyond the end of the ring is one at its start.
LEMMA Wraps ==
    ASSUME NEW b \in 0..(WindowSize - 1), NEW i \in 0..WindowSize
    PROVE  (b + i) % WindowSize = IF b + i < WindowSize THEN b + i ELSE b + i - WindowSize
<1> DEFINE n == WindowSize
<1>1. n \in Nat \ {0}
    BY RabinSizes
<1> HIDE DEF n
<1>2. b \in 0..(n - 1) /\ i \in 0..n
    BY DEF n
<1>3. CASE b + i < n
    <2>1. b + i \in 0..(n - 1)
        BY <1>1, <1>2, <1>3
    <2>2. (0 * n + (b + i)) % n = b + i
        BY <1>1, <2>1, DivModUnique
    <2>3. 0 * n + (b + i) = b + i
        BY <1>1, <1>2
    <2>4. (b + i) % n = b + i
        BY <2>2, <2>3
    <2> QED
        BY <1>3, <2>4 DEF n
<1>4. CASE ~(b + i < n)
    <2>1. b + i - n \in 0..(n - 1)
        BY <1>1, <1>2, <1>4
    <2>2. (1 * n + (b + i - n)) % n = b + i - n
        BY <1>1, <2>1, DivModUnique
    <2>3. 1 * n + (b + i - n) = b + i
        BY <1>1, <1>2
    <2>4. (b + i) % n = b + i - n
        BY <2>2, <2>3
    <2> QED
        BY <1>4, <2>4 DEF n
<1> QED
    BY <1>3, <1>4

\* A byte written over the oldest one is the newest of the next window.
LEMMA FromIs ==
    ASSUME NEW r \in Rings, NEW b \in 0..(WindowSize - 1)
    PROVE  /\ From(r, b) \in Windows
           /\ From(r, b)[1] = r[b]
           /\ \A m \in R!Byte : /\ From([r EXCEPT ![b] = m], NextPos(b)) = Slid(From(r, b), m)
                                /\ [r EXCEPT ![b] = m] \in Rings
                                /\ NextPos(b) \in 0..(WindowSize - 1)
<1> DEFINE n == WindowSize
           At(c, i) == IF c + i < n THEN c + i ELSE c + i - n
<1>1. n \in Nat \ {0}
    BY RabinSizes
<1>2. \A c \in 0..(n - 1) : \A i \in 1..n : (c + i - 1) % n = At(c, i - 1)
    <2> TAKE c \in 0..(n - 1)
    <2> TAKE i \in 1..n
    <2>1. i - 1 \in 0..n /\ c + i - 1 = c + (i - 1)
        BY <1>1
    <2> QED
        BY <2>1, Wraps
<1>3. \A s : \A c \in 0..(n - 1) : From(s, c) = [i \in 1..n |-> s[At(c, i - 1)]]
    BY <1>2 DEF From
<1> HIDE DEF n
<1>4. b \in 0..(n - 1)
    BY DEF n
<1>5. \A i \in 1..n : At(b, i - 1) \in 0..(n - 1)
    BY <1>1, <1>4
<1>6. From(r, b) \in Windows
    <2>1. From(r, b) = [i \in 1..n |-> r[At(b, i - 1)]]
        BY <1>3, <1>4
    <2>2. r \in [0..(n - 1) -> R!Byte] /\ Windows = [1..n -> R!Byte]
        BY DEF Rings, Windows, n
    <2> HIDE DEF At
    <2>3. \A i \in 1..n : r[At(b, i - 1)] \in R!Byte
        BY <1>5, <2>2
    <2> QED
        BY <2>1, <2>2, <2>3
<1>7. From(r, b)[1] = r[b]
    <2>1. At(b, 1 - 1) = b /\ 1 \in 1..n
        BY <1>1, <1>4
    <2>2. From(r, b) = [i \in 1..n |-> r[At(b, i - 1)]]
        BY <1>3, <1>4
    <2> HIDE DEF At
    <2>3. From(r, b)[1] = r[At(b, 1 - 1)]
        BY <2>1, <2>2
    <2> QED
        BY <2>1, <2>3
<1>8. NextPos(b) \in 0..(n - 1)
    BY <1>1, <1>4 DEF NextPos, n
<1>9. \A i \in 1..n : /\ i < n => /\ At(NextPos(b), i - 1) = At(b, (i + 1) - 1)
                                  /\ At(b, (i + 1) - 1) # b /\ i + 1 \in 1..n
                      /\ ~(i < n) => At(NextPos(b), i - 1) = b
    <2>1. NextPos(b) = IF b + 1 = n THEN 0 ELSE b + 1
        BY DEF NextPos, n
    <2> TAKE i \in 1..n
    <2>2. CASE b + 1 = n
        BY <1>1, <1>4, <2>1, <2>2
    <2>3. CASE b + 1 # n
        BY <1>1, <1>4, <2>1, <2>3
    <2> QED
        BY <2>2, <2>3
<1>10. ASSUME NEW m \in R!Byte
       PROVE  /\ From([r EXCEPT ![b] = m], NextPos(b)) = Slid(From(r, b), m)
              /\ [r EXCEPT ![b] = m] \in Rings
    <2> DEFINE s == [r EXCEPT ![b] = m]
    <2>1. r \in [0..(n - 1) -> R!Byte]
        BY DEF Rings, n
    <2>2. s[b] = m /\ \A c \in 0..(n - 1) : c # b => s[c] = r[c]
        BY <1>4, <2>1
    <2>3. s \in Rings
        BY <1>4, <2>1 DEF Rings, n
    <2> HIDE DEF s
    <2>4. From(s, NextPos(b)) = [i \in 1..n |-> s[At(NextPos(b), i - 1)]]
        BY <1>3, <1>8
    <2>5. From(r, b) = [i \in 1..n |-> r[At(b, i - 1)]]
        BY <1>3, <1>4
    <2>6. Slid(From(r, b), m) = [i \in 1..n |-> IF i < n THEN From(r, b)[i + 1] ELSE m]
        BY DEF Slid, n
    <2>7. \A i \in 1..n : s[At(NextPos(b), i - 1)] = IF i < n THEN From(r, b)[i + 1] ELSE m
        <3> TAKE i \in 1..n
        <3>1. CASE i < n
            <4>1. At(NextPos(b), i - 1) = At(b, (i + 1) - 1) /\ i + 1 \in 1..n
                  /\ At(b, (i + 1) - 1) # b
                BY <1>9, <3>1
            <4>2. At(b, (i + 1) - 1) \in 0..(n - 1)
                BY <1>5, <4>1
            <4> HIDE DEF At
            <4>3. s[At(NextPos(b), i - 1)] = r[At(b, (i + 1) - 1)]
                BY <2>2, <4>1, <4>2
            <4>4. From(r, b)[i + 1] = r[At(b, (i + 1) - 1)]
                BY <2>5, <4>1
            <4> QED
                BY <3>1, <4>3, <4>4
        <3>2. CASE ~(i < n)
            <4>1. At(NextPos(b), i - 1) = b
                BY <1>9, <3>2
            <4> QED
                BY <2>2, <3>2, <4>1
        <3> QED
            BY <3>1, <3>2
    <2>8. From(s, NextPos(b)) = Slid(From(r, b), m)
        BY <2>4, <2>6, <2>7
    <2> QED
        BY <2>3, <2>8 DEF s
<1> QED
    BY <1>6, <1>7, <1>8, <1>10 DEF n

\* A window that slides is a sequence that loses its first and gains a last.
LEMMA SlidIsAppend ==
    ASSUME NEW w \in Windows, NEW m
    PROVE  Append(Tail(w), m) = Slid(w, m)
<1> DEFINE n == WindowSize
           v == Append(Tail(w), m)
<1>1. n \in Nat \ {0}
    BY RabinSizes
<1> HIDE DEF n
<1>2. w \in [1..n -> R!Byte]
    BY DEF Windows, n
<1>3. w \in Seq(R!Byte) /\ Len(w) = n /\ w # <<>>
    BY <1>1, <1>2
<1> DEFINE t == Tail(w)
<1>4. t \in Seq(R!Byte) /\ Len(t) = n - 1 /\ \A i \in 1..(n - 1) : t[i] = w[i + 1]
    BY <1>1, <1>3
<1> HIDE DEF t
<1> DEFINE B == R!Byte \cup {m}
<1>5. t \in Seq(B) /\ m \in B
    <2>1. R!Byte \subseteq B
        OBVIOUS
    <2> HIDE DEF B
    <2>2. t \in [1..(n - 1) -> R!Byte]
        BY <1>1, <1>4
    <2>3. t \in [1..(n - 1) -> B]
        BY <2>1, <2>2
    <2>4. t \in Seq(B)
        BY <1>1, <2>3
    <2> QED
        BY <2>4 DEF B
<1> HIDE DEF B
<1>6. v \in Seq(B) /\ Len(v) = n /\ v[n] = m /\ \A i \in 1..(n - 1) : v[i] = t[i]
    BY <1>1, <1>4, <1>5, AppendProperties DEF t
<1> HIDE DEF v
<1>7. v = [i \in 1..n |-> v[i]]
    BY <1>1, <1>6
<1>8. \A i \in 1..n : v[i] = IF i < n THEN w[i + 1] ELSE m
    BY <1>1, <1>4, <1>6
<1> QED
    BY <1>7, <1>8 DEF Slid, n, v

(***************************************************************************)
(* The fingerprint                                                         *)
(***************************************************************************)
RabinOK ==
    /\ poly \in Polys
    /\ shift = R!LookupShift(poly)
    /\ T = R!LookupTable(poly)
    /\ U = R!SlideOutTable(T, shift, poly)
    /\ bufpos \in 0..(WindowSize - 1)
    /\ ring \in Rings
    /\ fingerprint \in SUBSET (0..(R!xshift(poly) - 1))
    /\ Same(fingerprint, R!Polynomial(From(ring, bufpos)), poly)

\* A window of zeros is the polynomial 0, and 0 its remainder.
LEMMA Empty ==
    ASSUME NEW b \in 0..(WindowSize - 1), NEW d \in Polys
    PROVE  LET r == [i \in 0..(WindowSize - 1) |-> {}] IN
           /\ r \in Rings /\ From(r, b) = [i \in 1..WindowSize |-> {}]
           /\ {} \in SUBSET (0..(R!xshift(d) - 1))
           /\ Same({}, R!Polynomial(From(r, b)), d)
<1> DEFINE r == [i \in 0..(WindowSize - 1) |-> {}]
<1>1. {} \in R!Byte /\ WindowSize \in Nat \ {0}
    BY RabinSizes
<1>2. r \in Rings
    BY <1>1 DEF Rings
<1>3. From(r, b) = [i \in 1..WindowSize |-> {}]
    <2>1. \A i \in 1..WindowSize : (b + i - 1) % WindowSize \in 0..(WindowSize - 1)
        <3> TAKE i \in 1..WindowSize
        <3>1. i - 1 \in 0..WindowSize /\ b + i - 1 = b + (i - 1)
            BY <1>1
        <3>2. (b + (i - 1)) % WindowSize = IF b + (i - 1) < WindowSize THEN b + (i - 1)
                                           ELSE b + (i - 1) - WindowSize
            BY <3>1, Wraps
        <3> QED
            BY <1>1, <3>1, <3>2
    <2> QED
        BY <2>1 DEF From
<1>4. R!Polynomial(From(r, b)) = {}
    <2>1. From(r, b) \in Windows
        BY <1>2, FromIs
    <2>2. R!Polynomial(From(r, b)) = Terms(From(r, b), 1..WindowSize)
        BY <2>1, TermsAre
    <2>3. \A j \in 1..WindowSize : Up(From(r, b)[j], Place(j)) = {}
        BY <1>3 DEF Up
    <2> QED
        BY <2>2, <2>3 DEF Terms
<1>5. Same({}, {}, d)
    BY Degree, SameLaws DEF Polynomials
<1> QED
    BY <1>2, <1>3, <1>4, <1>5

\* A new fingerprint is the remainder of a window of zeros.
LEMMA RabinInit == R!Init => RabinOK
<1> SUFFICES ASSUME R!Init
             PROVE  RabinOK
    OBVIOUS
<1>1. /\ poly \in Polys /\ shift = R!LookupShift(poly) /\ T = R!LookupTable(poly)
      /\ U = R!SlideOutTable(T, shift, poly) /\ bufpos = 0
      /\ ring = [i \in 0..(WindowSize - 1) |-> {}] /\ fingerprint = {}
    BY DEF R!Init
<1>2. 0 \in 0..(WindowSize - 1)
    BY RabinSizes
<1> QED
    BY <1>1, <1>2, Empty DEF RabinOK

\* One byte: the oldest leaves the polynomial, the others move up, the new one
\* comes in.
LEMMA ProcessKeeps ==
    ASSUME RabinOK, NEW m \in R!Byte, R!process_byte(m)
    PROVE  /\ RabinOK'
           /\ From(ring, bufpos)' = Slid(From(ring, bufpos), m)
<1> DEFINE k == R!xshift(poly)
           w == From(ring, bufpos)
           u == U[ring[bufpos]]
           f == fingerprint ^^ u
           A == Terms(w, 2..WindowSize)
<1>1. /\ poly \in Polys /\ shift = R!LookupShift(poly) /\ T = R!LookupTable(poly)
      /\ U = R!SlideOutTable(T, shift, poly) /\ bufpos \in 0..(WindowSize - 1)
      /\ ring \in Rings /\ fingerprint \in SUBSET (0..(k - 1))
      /\ Same(fingerprint, R!Polynomial(w), poly)
    BY DEF RabinOK
<1>2. /\ ring' = [ring EXCEPT ![bufpos] = m]
      /\ fingerprint' = R!AddByte(T, shift, f, m)
      /\ bufpos' = NextPos(bufpos)
      /\ poly' = poly /\ shift' = shift /\ T' = T /\ U' = U
    BY XorIs DEF R!process_byte, R!tables, NextPos
<1>3. /\ w \in Windows /\ w[1] = ring[bufpos] /\ From(ring', bufpos') = Slid(w, m)
      /\ ring' \in Rings /\ bufpos' \in 0..(WindowSize - 1)
    BY <1>1, <1>2, FromIs
<1>4. ring[bufpos] \in R!Byte /\ WindowSize \in Nat \ {0} /\ ByteBits \in Nat
    BY <1>1, RabinSizes DEF Rings
<1>5. u \in SUBSET (0..(k - 1)) /\ Same(u, Up(w[1], Place(1)), poly)
    BY <1>1, <1>3, <1>4, SlideOutIs DEF Place
<1>6. poly \in Polynomials
    BY <1>1, Degree
<1> DEFINE S == 0..(k - 1)
<1>7. fingerprint \in SUBSET S /\ u \in SUBSET S
    BY <1>1, <1>5
<1> HIDE DEF w, u, k
<1>8. Same(f, A, poly)
    <2>1. Same(f, R!Polynomial(w) ^^ Up(w[1], Place(1)), poly)
        BY <1>1, <1>5, <1>6, SameSum
    <2> QED
        BY <1>3, <2>1, TermsAre
<1>9. f \in SUBSET S
    <2> HIDE DEF S
    <2> QED
        BY <1>7, SumIn
<1>10. f \in Polynomials /\ A \in Polynomials /\ m \in Polynomials
    BY <1>3, <1>9, TermsAre, RabinSizes DEF Polynomials
<1> HIDE DEF f, A
<1> DEFINE q == R!AddByte(T, shift, f, m)
<1>11. q \in SUBSET (0..(k - 1)) /\ Same(q, Up(f, ByteBits) ^^ m, poly)
    BY <1>1, <1>9, AddByteIs DEF k
<1> HIDE DEF q
<1>12. Same(Up(f, ByteBits) ^^ m, Up(A, ByteBits) ^^ m, poly)
    <2>1. Same(Up(f, ByteBits), Up(A, ByteBits), poly)
        BY <1>4, <1>6, <1>8, <1>10, SameUp
    <2>2. Same(m, m, poly)
        BY <1>6, <1>10, SameLaws
    <2> QED
        BY <1>6, <2>1, <2>2, SameSum
<1>13. Same(q, Up(A, ByteBits) ^^ m, poly)
    <2>1. Up(f, ByteBits) ^^ m \in Polynomials /\ Up(A, ByteBits) ^^ m \in Polynomials
        BY <1>4, <1>10, UpType, SumType
    <2>2. q \in Polynomials
        BY <1>11 DEF Polynomials
    <2> QED
        BY <1>6, <1>11, <1>12, <2>1, <2>2, SameType
<1>14. R!Polynomial(Slid(w, m)) = Up(A, ByteBits) ^^ m
    BY <1>3, SlidTerms DEF A
<1>15. Same(fingerprint', R!Polynomial(From(ring', bufpos')), poly)
    BY <1>2, <1>3, <1>13, <1>14 DEF q
<1>16. fingerprint' \in SUBSET (0..(R!xshift(poly) - 1))
    BY <1>2, <1>11 DEF q, k
<1>17. From(ring, bufpos)' = From(ring', bufpos')
    BY DEF From
<1>18. RabinOK'
    BY <1>1, <1>2, <1>3, <1>15, <1>16, <1>17 DEF RabinOK
<1> QED
    BY <1>3, <1>17, <1>18 DEF w

\* reset empties the ring from any place on.
LEMMA ResetKeeps ==
    ASSUME RabinOK, R!reset
    PROVE  /\ RabinOK'
           /\ From(ring, bufpos)' = [i \in 1..WindowSize |-> {}]
<1>1. /\ poly \in Polys /\ shift = R!LookupShift(poly) /\ T = R!LookupTable(poly)
      /\ U = R!SlideOutTable(T, shift, poly) /\ bufpos \in 0..(WindowSize - 1)
    BY DEF RabinOK
<1>2. /\ ring' = [i \in 0..(WindowSize - 1) |-> {}] /\ fingerprint' = {}
      /\ bufpos' = bufpos /\ poly' = poly /\ shift' = shift /\ T' = T /\ U' = U
    BY DEF R!reset, R!tables
<1>3. /\ ring' \in Rings /\ From(ring', bufpos') = [i \in 1..WindowSize |-> {}]
      /\ fingerprint' \in SUBSET (0..(R!xshift(poly) - 1))
      /\ Same(fingerprint', R!Polynomial(From(ring', bufpos')), poly)
    BY <1>1, <1>2, Empty
<1>4. From(ring, bufpos)' = From(ring', bufpos')
    BY DEF From
<1> QED
    BY <1>1, <1>2, <1>3, <1>4 DEF RabinOK

\* The window of the specification.
LEMMA WindowFrom == R!Window = From(ring, bufpos) /\ R!Window' = From(ring, bufpos)'
BY DEF R!Window, From

\* Every step keeps the invariant, and slides the window or resets it.
LEMMA RabinNext == RabinOK /\ [HashesNext]_hashesVars => RabinOK' /\ [R!SW!Next]_(R!Window)
<1> SUFFICES ASSUME RabinOK, [HashesNext]_hashesVars
             PROVE  RabinOK' /\ [R!SW!Next]_(R!Window)
    OBVIOUS
<1>1. R!Next \/ UNCHANGED rabinVars
    BY DEF HashesNext, hashesVars
<1>2. CASE UNCHANGED rabinVars
    <2>1. RabinOK'
        BY <1>2 DEF RabinOK, rabinVars, From
    <2>2. UNCHANGED R!Window
        BY <1>2 DEF R!Window, rabinVars
    <2> QED
        BY <2>1, <2>2
<1>3. CASE R!reset
    <2>1. RabinOK' /\ From(ring, bufpos)' = [i \in 1..WindowSize |-> {}]
        BY <1>3, ResetKeeps
    <2>2. R!SW!Reset
        BY <2>1, WindowFrom DEF R!SW!Reset, R!SW!Zeros
    <2> QED
        BY <2>1, <2>2 DEF R!SW!Next
<1>4. ASSUME NEW m \in R!Byte, R!process_byte(m)
      PROVE  RabinOK' /\ [R!SW!Next]_(R!Window)
    <2>1. RabinOK' /\ From(ring, bufpos)' = Slid(From(ring, bufpos), m)
        BY <1>4, ProcessKeeps
    <2>2. From(ring, bufpos) \in Windows
        BY FromIs DEF RabinOK
    <2>3. R!SW!Process(m)
        BY <2>1, <2>2, WindowFrom, SlidIsAppend DEF R!SW!Process
    <2> QED
        BY <2>1, <2>3 DEF R!SW!Next
<1> QED
    BY <1>1, <1>2, <1>3, <1>4 DEF R!Next

\* The first window is one of zeros.
LEMMA WindowInit == R!Init => R!SW!Init
<1> SUFFICES ASSUME R!Init
             PROVE  R!SW!Init
    OBVIOUS
<1>1. ring = [i \in 0..(WindowSize - 1) |-> {}] /\ bufpos = 0 /\ poly \in Polys
    BY DEF R!Init
<1>2. 0 \in 0..(WindowSize - 1)
    BY RabinSizes
<1>3. From(ring, bufpos) = [i \in 1..WindowSize |-> {}]
    BY <1>1, <1>2, Empty
<1> QED
    BY <1>3, WindowFrom DEF R!SW!Init, R!SW!Zeros

\* The remainder is the only one.
LEMMA RabinValue == RabinOK => ValueIsWindow
<1> SUFFICES ASSUME RabinOK
             PROVE  ValueIsWindow
    OBVIOUS
<1> DEFINE k == R!xshift(poly)
           a == R!Polynomial(From(ring, bufpos))
<1>1. /\ poly \in Polys /\ fingerprint \in SUBSET (0..(k - 1)) /\ Same(fingerprint, a, poly)
      /\ From(ring, bufpos) \in Windows
    BY FromIs DEF RabinOK
<1>2. a \in SUBSET (0..(ByteBits * WindowSize))
    BY <1>1, TermsAre
<1>3. k \in Nat /\ k \in poly /\ poly \in SUBSET (0..k) /\ poly \in Polynomials
    BY <1>1, Degree, RabinSizes
<1>4. ByteBits * WindowSize \in Nat
    BY RabinSizes
<1> HIDE DEF a
<1>5. R!Mod(a, poly) \in SUBSET (0..(k - 1)) /\ Same(R!Mod(a, poly), a, poly)
    BY <1>1, <1>2, ModIs
<1> DEFINE y == R!Mod(a, poly)
           N == ByteBits * WindowSize
<1> HIDE DEF y, k, N
<1>6. fingerprint \in Polynomials /\ y \in Polynomials /\ a \in Polynomials
    <2>1. a \in SUBSET (0..N)
        BY <1>2 DEF N
    <2> QED
        BY <1>1, <1>5, <2>1 DEF y, Polynomials
<1>7. Same(a, y, poly)
    BY <1>3, <1>5, <1>6, SameLaws DEF y
<1>8. Same(fingerprint, y, poly)
    BY <1>1, <1>3, <1>6, <1>7, SameType
<1>9. fingerprint = y
    BY <1>1, <1>3, <1>5, <1>8, Unique DEF y
<1> QED
    BY <1>9, WindowFrom DEF ValueIsWindow, R!ValueIsWindow, y, a

\* The fingerprint, the tables and the ring stay what they should be
\* (rabin_fingerprint.h, 69-84).
THEOREM RabinInvariance == HashesSpec => []RabinOK
<1>1. HashesInit => RabinOK
    BY RabinInit DEF HashesInit
<1>2. RabinOK /\ [HashesNext]_hashesVars => RabinOK'
    BY RabinNext
<1> QED
    BY <1>1, <1>2, PTL DEF HashesSpec

\* After any number of bytes and resets the fingerprint is the remainder of the
\* window by the polynomial, for every polynomial of degree 8 at least, size of
\* a word, of a byte and of a window (rabin_fingerprint.h, 69-84).
THEOREM FingerprintCorrect == HashesSpec => []ValueIsWindow
BY RabinInvariance, RabinValue, PTL

\* The ring with its position is the window that ContentChunking slides over
\* the input (rabin_fingerprint.h, 69-84).
THEOREM SlidingWindowImplemented == HashesSpec => ImplementsWindow
<1>1. HashesInit => R!SW!Init
    BY WindowInit DEF HashesInit
<1>2. RabinOK /\ [HashesNext]_hashesVars => [R!SW!Next]_(R!Window)
    BY RabinNext
<1> QED
    BY <1>1, <1>2, RabinInvariance, PTL
       DEF HashesSpec, ImplementsWindow, R!ImplementsWindow, R!SW!Spec
==============================================================================

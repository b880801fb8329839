---------------------------- MODULE Revision_proofs ----------------------------
(***************************************************************************)
(* Proofs about Revision, for every set of ids, every length of a digest,  *)
(* every size of the buffers and every set of bundles: that threads are    *)
(* joined and buffers hold, that assign_blocks finds what is missing, and  *)
(* that a manifest parses if and only if it is complete, as far as writes  *)
(* that fail fail for good.                                                *)
(***************************************************************************)
EXTENDS Revision, SequenceLemmas, SequenceTheorems, TLAPS

USE LengthsAssumption, FailuresAssumption, BundlesAssumption

(***************************************************************************)
(* The writing stream                                                      *)
(***************************************************************************)
\* A part from the start of a sequence.
LEMMA PrefixType ==
    ASSUME NEW S, NEW s \in Seq(S), NEW n \in Int, n <= Len(s)
    PROVE  SubSeq(s, 1, n) \in Seq(S)
<1>1. \A i \in 1..n : s[i] \in S
  BY ElementOfSeq
<1> QED BY <1>1, SubSeqProperties

\* fwrite only makes the file longer.
LEMMA WrittenType ==
    ASSUME NEW data \in Seq(Chars), Written(data),
           file \in Seq(Chars), broken \in BOOLEAN
    PROVE  file' \in Seq(Chars) /\ Len(file) <= Len(file') /\ broken' \in BOOLEAN
<1>1. CASE file' = file \o data /\ UNCHANGED broken
  BY <1>1, ConcatProperties
<1>2. CASE UNCHANGED <<file, broken>>
  BY <1>2
<1>3. CASE \E kind \in Failures, n \in 0..(Len(data) - 1) :
              file' = file \o SubSeq(data, 1, n) /\ broken' = (kind = "lasting")
  <2>1. PICK kind \in Failures, n \in 0..(Len(data) - 1) :
              file' = file \o SubSeq(data, 1, n) /\ broken' = (kind = "lasting")
    BY <1>3
  <2>2. SubSeq(data, 1, n) \in Seq(Chars)
    BY PrefixType
  <2> QED BY <2>1, <2>2, ConcatProperties
<1> QED BY <1>1, <1>2, <1>3 DEF Written

\* The state of the writing stream.
StreamFine ==
    /\ wbuf \in Seq(Chars) /\ Len(wbuf) <= BufSize
    /\ file \in Seq(Chars) /\ broken \in BOOLEAN

\* A character has room.
LEMMA PutType ==
    ASSUME StreamFine, NEW c \in Chars, Put(c)
    PROVE  StreamFine' /\ Len(file) <= Len(file')
<1>1. CASE Len(wbuf) >= BufSize
  <2>1. Written(wbuf) /\ wbuf' = <<c>>
    BY <1>1 DEF Put
  <2>2. <<c>> \in Seq(Chars) /\ Len(<<c>>) = 1
    OBVIOUS
  <2> QED BY <2>1, <2>2, WrittenType DEF StreamFine
<1>2. CASE Len(wbuf) < BufSize
  <2>1. wbuf' = Append(wbuf, c) /\ UNCHANGED <<file, broken>>
    BY <1>2 DEF Put, StreamFine
  <2> QED BY <2>1, <1>2, AppendProperties DEF StreamFine
<1> QED BY <1>1, <1>2 DEF StreamFine

\* A digest has room, in an empty buffer if not beside what is there.
LEMMA PushType ==
    ASSUME StreamFine, NEW data \in Seq(Chars), Len(data) <= BufSize, Push(data)
    PROVE  StreamFine' /\ Len(file) <= Len(file')
<1>1. CASE Len(data) > BufSize - Len(wbuf)
  BY <1>1, WrittenType DEF Push, StreamFine
<1>2. CASE Len(data) <= BufSize - Len(wbuf)
  <2>1. wbuf' = wbuf \o data /\ UNCHANGED <<file, broken>>
    BY <1>2 DEF Push, StreamFine
  <2> QED BY <2>1, <1>2, ConcatProperties DEF StreamFine
<1> QED BY <1>1, <1>2 DEF StreamFine

\* What a flush leaves.
LEMMA FlushType ==
    ASSUME StreamFine, Flush
    PROVE  StreamFine' /\ Len(file) <= Len(file')
<1>1. CASE wbuf = << >>
  BY <1>1 DEF Flush, StreamFine
<1>2. CASE wbuf # << >>
  <2>1. Written(wbuf) /\ wbuf' = << >>
    BY <1>2 DEF Flush
  <2>2. Len(<< >>) = 0 /\ << >> \in Seq(Chars)
    OBVIOUS
  <2> QED BY <2>1, <2>2, WrittenType DEF StreamFine
<1> QED BY <1>1, <1>2

\* The marks and the digests are made of characters.
LEMMA CharsOfManifest ==
    /\ {LBracket, RBracket, Comma, Quote, Nul} \subseteq Chars
    /\ \A id \in Ids : Digest(id) \in Seq(Chars) /\ Len(Digest(id)) = DigestLen
<1>1. ASSUME NEW id \in Ids
      PROVE  Digest(id) \in Seq(Chars) /\ Len(Digest(id)) = DigestLen
  <2>1. \A i \in 1..DigestLen : <<id, i>> \in Chars
    BY DEF Chars, Digits
  <2>2. Digest(id) \in [1..DigestLen -> Chars]
    BY <2>1 DEF Digest
  <2> QED BY <2>2
<1> QED BY <1>1 DEF Chars

------------------------------------------------------------------------------
(***************************************************************************)
(* The steps of the writer and of the reader                               *)
(***************************************************************************)
Wpcs == {"start", "value", "quote", "digest", "end", "flush", "closed", "dead"}

\* What a step of the writer gives back.
WriterFine ==
    /\ ids \in Seq(Ids) /\ count \in 0..Len(ids)
    /\ wpc \in Wpcs
    /\ StreamFine
    /\ ArrayBegun

\* The reader never leaves its buffer, nor the file.
ReaderFine ==
    /\ eof_ \in BOOLEAN /\ early \in BOOLEAN
    /\ rbuf \in Seq(Chars) /\ Len(rbuf) <= BufSize
    /\ current \in 0..Len(rbuf) /\ count_ \in 0..Len(file)
    /\ rpc \in {"none", "array", "first", "string", "more", "element",
                "accepted", "rejected"}
    /\ str \in Seq(Chars) /\ parsed \in Seq(Seq(Chars))
    /\ ReaderPlaced

\* The two halves make up the stream's part of the invariant.
LEMMA Parts ==
    /\ IInv => WriterFine /\ ReaderFine
    /\ WriterFine /\ ReaderFine => StreamTypeOK /\ WithinBuffers /\ ReaderPlaced /\ ArrayBegun
  BY DEF IInv, TypeOK, StreamTypeOK, WithinBuffers, WriterFine, ReaderFine, StreamFine, Wpcs

\* The thread, and the calls that begin and end the array.
LEMMA WriterKeeps ==
    ASSUME WriterFine, ReaderFine,
           StartArray \/ Appending \/ EndArray \/ FinalFlush
    PROVE  WriterFine' /\ ReaderFine'
<1>1. StreamFine /\ ids \in Seq(Ids) /\ count \in 0..Len(ids)
  BY DEF WriterFine
<1>2. UNCHANGED <<ids, readerVars>>
  BY DEF StartArray, Appending, Prefix, OpenQuote, Hexlify, CloseQuote, EndArray,
         FinalFlush, Goto
<1>3. StreamFine' /\ Len(file) <= Len(file')
  <2>1. CASE StartArray
    BY <2>1, <1>1, PutType, CharsOfManifest DEF StartArray
  <2>2. CASE Prefix
    <3>1. CASE Put(Comma)
      BY <3>1, <1>1, PutType, CharsOfManifest
    <3>2. CASE UNCHANGED <<wbuf, file, broken>>
      BY <3>2, <1>1 DEF StreamFine
    <3> QED BY <2>2, <3>1, <3>2 DEF Prefix
  <2>3. CASE OpenQuote \/ CloseQuote
    BY <2>3, <1>1, PutType, CharsOfManifest DEF OpenQuote, CloseQuote
  <2>4. CASE Hexlify
    <3>1. ids[count] \in Ids
      <4>1. count \in 1..Len(ids)
        BY <2>4, <1>1 DEF Hexlify, WriterFine, ArrayBegun
      <4> QED BY <4>1, <1>1, ElementOfSeq
    <3>2. Digest(ids[count]) \in Seq(Chars) /\ Len(Digest(ids[count])) <= BufSize
      BY <3>1, CharsOfManifest
    <3> QED BY <3>2, <2>4, <1>1, PushType DEF Hexlify
  <2>5. CASE EndArray
    BY <2>5, <1>1, PutType, CharsOfManifest DEF EndArray
  <2>6. CASE FinalFlush
    BY <2>6, <1>1, FlushType DEF FinalFlush
  <2> QED BY <2>1, <2>2, <2>3, <2>4, <2>5, <2>6 DEF Appending
<1>4. WriterFine'
  <2>1. count' \in 0..Len(ids)
    BY <1>1 DEF StartArray, Appending, Prefix, OpenQuote, Hexlify, CloseQuote, EndArray,
                FinalFlush
  <2>2. wpc' \in Wpcs \ {"start"}
    BY DEF StartArray, Appending, Prefix, OpenQuote, Hexlify, CloseQuote, EndArray,
           FinalFlush, Goto, Wpcs
  <2>3. wpc' \in {"quote", "digest", "end"} => count' > 0
    BY <1>1 DEF StartArray, Appending, Prefix, OpenQuote, Hexlify, CloseQuote, EndArray,
                FinalFlush, Goto, WriterFine, ArrayBegun
  <2> QED BY <1>1, <1>2, <1>3, <2>1, <2>2, <2>3 DEF WriterFine, ArrayBegun
<1>5. ReaderFine'
  <2>1. Len(file) \in Nat /\ Len(file') \in Nat
    BY <1>3, <1>1 DEF StreamFine
  <2> QED BY <1>2, <1>3, <2>1 DEF ReaderFine, ReaderPlaced, readerVars, streamVars
<1> QED BY <1>4, <1>5

\* What fread brings fits, with the NUL behind it if it does not fill the
\* buffer, and there is a first character.
LEMMA RefillKeeps ==
    ASSUME WriterFine, ReaderFine, Refill
    PROVE  /\ rbuf' \in Seq(Chars) /\ Len(rbuf') <= BufSize
           /\ current' \in 1..Len(rbuf')
           /\ count_' \in 0..Len(file) /\ eof_' \in BOOLEAN
<1> DEFINE last == IF Len(file) - count_ < BufSize THEN Len(file) ELSE count_ + BufSize
<1>1. /\ file \in Seq(Chars) /\ Len(file) \in Nat /\ count_ \in 0..Len(file)
      /\ last \in Nat /\ count_ <= last /\ last <= Len(file) /\ last - count_ <= BufSize
  BY DEF WriterFine, ReaderFine, StreamFine
<1>2. Fetched \in Seq(Chars) /\ Len(Fetched) = last - count_
  <2>1. \A i \in (count_ + 1)..last : file[i] \in Chars
    BY <1>1, ElementOfSeq
  <2>2. /\ SubSeq(file, count_ + 1, last) \in Seq(Chars)
        /\ Len(SubSeq(file, count_ + 1, last)) = last - count_
    <3> HIDE DEF last
    <3> QED BY <2>1, <1>1, SubSeqProperties
  <2> QED BY <2>2 DEF Fetched
<1>3. CASE Len(Fetched) < BufSize
  <2>1. rbuf' = Append(Fetched, Nul)
    BY <1>3 DEF Refill
  <2>2. rbuf' \in Seq(Chars) /\ Len(rbuf') = Len(Fetched) + 1
    BY <2>1, <1>2, CharsOfManifest, AppendProperties
  <2> QED BY <2>2, <1>1, <1>2, <1>3 DEF Refill
<1>4. CASE Len(Fetched) = BufSize
  <2>1. rbuf' = Fetched
    BY <1>4 DEF Refill
  <2> QED BY <2>1, <1>1, <1>2, <1>4 DEF Refill
<1> QED BY <1>1, <1>2, <1>3, <1>4

\* The checkout that opens and parses the manifest.
LEMMA ReaderKeeps ==
    ASSUME WriterFine, ReaderFine, OpenManifest \/ Reader
    PROVE  WriterFine' /\ ReaderFine'
<1>1. UNCHANGED <<writerVars, file, broken>>
  BY DEF OpenManifest, Reader, Array, StringBegins, StringGoesOn, StringEnds, More,
         Done, Reject, Take
<1>2. WriterFine'
  BY <1>1 DEF WriterFine, StreamFine, ArrayBegun, writerVars
<1>3. ASSUME Advance, rpc # "none"
      PROVE  /\ rbuf' \in Seq(Chars) /\ Len(rbuf') <= BufSize
             /\ current' \in 1..Len(rbuf')
             /\ count_' \in 0..Len(file) /\ eof_' \in BOOLEAN
  <2>1. CASE Refill
    BY <2>1, RefillKeeps
  <2>2. CASE current < Len(rbuf) /\ current' = current + 1 /\ UNCHANGED <<rbuf, count_, eof_>>
    BY <2>2 DEF ReaderFine
  <2>3. CASE UNCHANGED streamVars
    BY <2>3, <1>3 DEF ReaderFine, ReaderPlaced, streamVars
  <2> QED BY <1>3, <2>1, <2>2, <2>3 DEF Advance
<1>4. CASE OpenManifest
  BY <1>4, <1>1, <1>2, RefillKeeps DEF OpenManifest, ReaderFine, ReaderPlaced
<1>5. CASE Reject
  BY <1>5, <1>1, <1>2 DEF Reject, ReaderFine, ReaderPlaced, streamVars
<1>6. CASE Reader /\ ~Reject
  <2>1. Advance /\ UNCHANGED early /\ rpc # "none"
        /\ rpc' \in {"first", "string", "more", "element", "accepted"}
    BY <1>6 DEF Reader, Array, StringBegins, StringGoesOn, StringEnds, More, Done, Take
  <2>2. rbuf[current] \in Chars
    <3>1. current \in 1..Len(rbuf) /\ rbuf \in Seq(Chars)
      BY <2>1 DEF ReaderFine, ReaderPlaced
    <3> QED BY <3>1, ElementOfSeq
  <2>3. str' \in Seq(Chars) /\ parsed' \in Seq(Seq(Chars))
    <3>1. CASE UNCHANGED <<str, parsed>>
      BY <3>1 DEF ReaderFine
    <3>2. CASE StringBegins
      BY <3>2 DEF StringBegins, ReaderFine
    <3>3. CASE StringGoesOn
      BY <3>3, <2>2, AppendProperties DEF StringGoesOn, Peek, ReaderFine
    <3>4. CASE StringEnds
      BY <3>4, AppendProperties DEF StringEnds, ReaderFine
    <3> QED BY <1>6, <3>1, <3>2, <3>3, <3>4 DEF Reader, Array, More, Done
  <2> QED BY <2>1, <2>3, <1>1, <1>2, <1>3 DEF ReaderFine, ReaderPlaced
<1> QED BY <1>2, <1>4, <1>5, <1>6

------------------------------------------------------------------------------
(***************************************************************************)
(* The invariant                                                           *)
(***************************************************************************)
Ats == {"ready", "stage", "query", "cleanup", "wait", "returned",
        "unwinding", "thrown", "closing", "closed", "dead"}

\* The state of the call.
CallFine ==
    /\ at \in Ats
    /\ bs \in Seq(Ids) /\ newrev \in Seq(Ids)

\* The parts of the invariant.
LEMMA IInvParts ==
    IInv <=> WriterFine /\ ReaderFine /\ CallFine /\ ThreadEndsFirst
  BY DEF IInv, TypeOK, StreamTypeOK, WithinBuffers, WriterFine, ReaderFine, StreamFine,
         CallFine, Wpcs, Ats

\* No manifest yet, no call.
LEMMA InitIInv == Init => IInv
<1>1. SUFFICES ASSUME Init PROVE WriterFine /\ ReaderFine /\ CallFine /\ ThreadEndsFirst
  BY IInvParts
<1>2. Len(<< >>) = 0 /\ \A S : << >> \in Seq(S)
  BY EmptySeq, Zenon
<1>3. WriterFine
  <2>1. ids \in Seq(Ids) /\ Len(ids) = 0 /\ wbuf \in Seq(Chars) /\ file \in Seq(Chars)
    BY <1>1, <1>2 DEF Init, StreamInit
  <2>2. Len(wbuf) = 0 /\ count = 0 /\ ids = << >> /\ wpc = "start"
    BY <1>1, <1>2 DEF Init, StreamInit
  <2>3. broken \in BOOLEAN
    BY <1>1, Zenon DEF Init, StreamInit
  <2> QED BY <2>1, <2>2, <2>3 DEF WriterFine, StreamFine, ArrayBegun, Wpcs
<1>4. ReaderFine
  <2>1. rbuf \in Seq(Chars) /\ str \in Seq(Chars) /\ parsed \in Seq(Seq(Chars))
    BY <1>1, <1>2 DEF Init, StreamInit
  <2>2. Len(rbuf) = 0 /\ Len(file) = 0 /\ current = 0 /\ count_ = 0 /\ rpc = "none"
    BY <1>1, <1>2 DEF Init, StreamInit
  <2>3. eof_ \in BOOLEAN /\ early \in BOOLEAN
    BY <1>1, Zenon DEF Init, StreamInit
  <2> QED BY <2>1, <2>2, <2>3 DEF ReaderFine, ReaderPlaced
<1>5. CallFine /\ ThreadEndsFirst
  BY <1>1, <1>2 DEF Init, StreamInit, CallFine, ThreadEndsFirst, Ats
<1> QED BY <1>3, <1>4, <1>5

\* Steps that leave the manifest and its reader alone.
LEMMA StreamsUntouched ==
    ASSUME WriterFine, ReaderFine, UNCHANGED vars
    PROVE  WriterFine' /\ ReaderFine'
  BY DEF vars, writerVars, readerVars, streamVars, WriterFine, ReaderFine, StreamFine,
         ArrayBegun, ReaderPlaced

\* Every step keeps the invariant.
LEMMA NextIInv == IInv /\ [Next]_allVars => IInv'
<1> SUFFICES ASSUME IInv, [Next]_allVars PROVE IInv'
  OBVIOUS
<1>1. WriterFine /\ ReaderFine /\ CallFine /\ ThreadEndsFirst
  BY IInvParts
<1> SUFFICES WriterFine' /\ ReaderFine' /\ CallFine' /\ ThreadEndsFirst'
  BY DEF IInv, TypeOK, StreamTypeOK, WithinBuffers, WriterFine, ReaderFine, StreamFine,
         CallFine, Wpcs, Ats
<1>2. CASE Construct
  <2>1. WriterFine' /\ ReaderFine'
    BY <1>1, <1>2, WriterKeeps DEF Construct
  <2>2. count = 0 /\ ids = << >> /\ UNCHANGED <<ids, count>> /\ wpc' = "value"
    BY <1>1, <1>2 DEF Construct, StartArray, Goto, WriterFine, ArrayBegun
  <2>3. ThreadEndsFirst'
    BY <2>2 DEF ThreadEndsFirst, ThreadDone
  <2> QED BY <2>1, <2>3, <1>1, <1>2 DEF Construct, callVars, CallFine
<1>3. CASE Assigning
  <2>1. WriterFine' /\ ReaderFine'
    BY <1>1, <1>3, WriterKeeps DEF Assigning
  <2>2. at \notin {"ready", "returned", "thrown"}
    BY <1>1, <1>3 DEF Assigning, Appending, Prefix, OpenQuote, Hexlify, CloseQuote,
                      ThreadEndsFirst, ThreadDone, WriterFine
  <2> QED BY <2>1, <2>2, <1>1, <1>3 DEF Assigning, callVars, CallFine, ThreadEndsFirst
<1>4. ASSUME NEW b \in Bundles, AssignBlocks(b)
      PROVE  WriterFine' /\ ReaderFine' /\ CallFine' /\ ThreadEndsFirst'
  <2>1. b \in Seq(Ids)
    BY DEF BundlesAssumption
  <2>2. ids' \in Seq(Ids) /\ Len(ids') = Len(ids) + Len(b)
    BY <1>1, <1>4, <2>1, ConcatProperties DEF AssignBlocks, WriterFine
  <2>3. WriterFine'
    BY <1>1, <1>4, <2>1, <2>2 DEF AssignBlocks, WriterFine, StreamFine, ArrayBegun
  <2>4. ReaderFine'
    BY <1>1, <1>4 DEF AssignBlocks, ReaderFine, ReaderPlaced, readerVars, streamVars
  <2> QED BY <2>1, <2>3, <2>4, <1>1, <1>4 DEF AssignBlocks, CallFine, ThreadEndsFirst, Ats
<1>5. CASE Stage \/ Query \/ Cleanup
  <2>1. WriterFine' /\ ReaderFine'
    BY <1>1, <1>5, StreamsUntouched DEF Stage, Query, Cleanup, CallStep
  <2>2. newrev' \in Seq(Ids)
    <3>1. newrev' = newrev \o bs \/ newrev' = newrev \/ newrev' = << >>
      BY <1>5 DEF Stage, Query, Cleanup
    <3>2. newrev \o bs \in Seq(Ids) /\ newrev \in Seq(Ids) /\ << >> \in Seq(Ids)
      BY <1>1, ConcatProperties, EmptySeq DEF CallFine
    <3> QED BY <3>1, <3>2
  <2> QED BY <2>1, <2>2, <1>1, <1>5
             DEF Stage, Query, Cleanup, CallStep, CallFine, ThreadEndsFirst, Ats
<1>6. CASE Return \/ Join
  <2>1. WriterFine' /\ ReaderFine'
    BY <1>1, <1>6, StreamsUntouched DEF Return, Join, CallStep
  <2>2. ThreadDone /\ UNCHANGED <<wpc, count, ids>>
    BY <1>6 DEF Return, Join, CallStep, vars, writerVars
  <2>3. ThreadEndsFirst'
    BY <2>2 DEF ThreadEndsFirst, ThreadDone
  <2> QED BY <2>1, <2>3, <1>1, <1>6 DEF Return, Join, CallStep, CallFine, Ats
<1>7. CASE SqlFails
  <2>1. WriterFine' /\ ReaderFine'
    BY <1>1, <1>7, StreamsUntouched DEF SqlFails, CallStep
  <2>2. newrev' \in Seq(Ids)
    <3>1. ASSUME NEW n \in 0..Len(bs) PROVE newrev \o SubSeq(bs, 1, n) \in Seq(Ids)
      <4>1. SubSeq(bs, 1, n) \in Seq(Ids)
        BY <1>1, PrefixType DEF CallFine
      <4> QED BY <4>1, <1>1, ConcatProperties DEF CallFine
    <3> QED BY <3>1, <1>1, <1>7 DEF SqlFails, CallFine
  <2> QED BY <2>1, <2>2, <1>1, <1>7 DEF SqlFails, CallStep, CallFine, ThreadEndsFirst, Ats
<1>8. CASE Merge
  <2>1. WriterFine' /\ ReaderFine'
    BY <1>1, <1>8, StreamsUntouched DEF Merge, CallStep
  <2>2. ThreadEndsFirst'
    <3>1. UNCHANGED <<wpc, count, ids>> /\ at = "returned"
      BY <1>8 DEF Merge, CallStep, vars, writerVars
    <3> QED BY <3>1, <1>1 DEF ThreadEndsFirst, ThreadDone
  <2> QED BY <2>1, <2>2, <1>1, <1>8 DEF Merge, CallStep, CallFine, Ats
<1>9. CASE Destroy
  <2>1. WriterFine' /\ ReaderFine'
    BY <1>1, <1>9, WriterKeeps DEF Destroy
  <2> QED BY <2>1, <1>1, <1>9 DEF Destroy, CallFine, ThreadEndsFirst, Ats
<1>10. CASE Destroyed
  <2>1. WriterFine' /\ ReaderFine'
    BY <1>1, <1>10, WriterKeeps DEF Destroyed
  <2> QED BY <2>1, <1>1, <1>10 DEF Destroyed, CallFine, ThreadEndsFirst, Ats
<1>11. CASE Killed
  <2>1. WriterFine'
    BY <1>1, <1>11 DEF Killed, Die, WriterFine, StreamFine, ArrayBegun, Wpcs
  <2>2. ReaderFine'
    BY <1>1, <1>11 DEF Killed, Die, ReaderFine, ReaderPlaced, readerVars, streamVars
  <2> QED BY <2>1, <2>2, <1>1, <1>11 DEF Killed, CallFine, ThreadEndsFirst, Ats
<1>12. CASE IndexedElsewhere
  <2>1. WriterFine' /\ ReaderFine'
    BY <1>1, <1>12, StreamsUntouched DEF IndexedElsewhere
  <2> QED BY <2>1, <1>1, <1>12 DEF IndexedElsewhere, CallFine, ThreadEndsFirst
<1>13. CASE (OpenManifest \/ Reader) /\ UNCHANGED callVars
  <2>1. WriterFine' /\ ReaderFine'
    BY <1>1, <1>13, ReaderKeeps
  <2>2. UNCHANGED writerVars
    BY <1>13 DEF OpenManifest, Reader, Array, StringBegins, StringGoesOn, StringEnds,
                 More, Done, Reject, Take
  <2> QED BY <2>1, <2>2, <1>1, <1>13 DEF callVars, writerVars, CallFine, ThreadEndsFirst, ThreadDone
<1>14. CASE UNCHANGED allVars
  <2>1. WriterFine' /\ ReaderFine'
    BY <1>1, <1>14, StreamsUntouched DEF allVars
  <2> QED BY <2>1, <1>1, <1>14
             DEF allVars, vars, writerVars, callVars, CallFine, ThreadEndsFirst, ThreadDone
<1> QED BY <1>2, <1>3, <1>4, <1>5, <1>6, <1>7, <1>8, <1>9, <1>10, <1>11, <1>12, <1>13, <1>14
           DEF Next, Committer

(***************************************************************************)
(* The theorems                                                            *)
(***************************************************************************)
\* The invariant holds of every run of a revision and of its reader.
THEOREM Invariance == Spec => []IInv
  BY InitIInv, NextIInv, PTL DEF Spec

\* No thread appends to the manifest, or reads the bundle, after the call that
\* started it was left (revision.cc, 58-61, 97).
THEOREM ThreadsAreJoined == Spec => []ThreadEndsFirst
<1>1. IInv => ThreadEndsFirst
  BY DEF IInv
<1> QED BY <1>1, Invariance, PTL

\* Neither stream writes past the end of its buffer, if a digest fits into an
\* empty one (filewritestream.h 81-90, filereadstream.h 81).
THEOREM BuffersHold == Spec => []WithinBuffers
<1>1. IInv => WithinBuffers
  BY DEF IInv
<1> QED BY <1>1, Invariance, PTL

------------------------------------------------------------------------------
(***************************************************************************)
(* What assign_blocks stages, and what it finds missing                    *)
(***************************************************************************)
\* What is staged, and what was missing.
Staged ==
    /\ at \in {"ready", "stage", "wait", "returned"} => newrev = << >>
    /\ MissingOfBundle

\* The rows that are selected are those of the first of each id, in order.
LEMMA FirstRows ==
    ASSUME newrev \in Seq(Ids)
    PROVE  \A id \in Rows :
              /\ FirstRow(id) \in DOMAIN newrev /\ newrev[FirstRow(id)] = id
<1> TAKE id \in Rows
<1> DEFINE T == {i \in DOMAIN newrev : newrev[i] = id}
<1>1. DOMAIN newrev = 1..Len(newrev) /\ Len(newrev) \in Nat
    OBVIOUS
<1>2. T \in SUBSET Nat /\ T # {}
    BY <1>1 DEF Rows
<1>3. PICK i \in T : \A j \in T : i <= j
    BY <1>2, LeastNat
<1>4. i \in DOMAIN newrev /\ newrev[i] = id /\ \A j \in 1..(i - 1) : newrev[j] # id
    <2>1. ASSUME NEW j \in 1..(i - 1) PROVE newrev[j] # id
        <3>1. j \in DOMAIN newrev /\ j \in Int /\ j < i /\ i \in Int
            BY <1>1, <1>3
        <3>2. ~(i <= j)
            BY <3>1
        <3> QED
            BY <1>3, <3>1, <3>2
    <2> QED
        BY <1>3, <2>1
<1> HIDE DEF T
<1>5. \E k \in DOMAIN newrev : newrev[k] = id /\ \A j \in 1..(k - 1) : newrev[j] # id
    BY <1>4
<1> QED
    BY <1>5 DEF FirstRow

\* v are the ids of b without a row, in order, each once.
FoundIn(b, v, rows) ==
    /\ \A i \in DOMAIN b : b[i] \in rows \/ \E n \in DOMAIN v : v[n] = b[i]
    /\ \E f \in [DOMAIN v -> DOMAIN b] :
          /\ \A n \in DOMAIN v : v[n] = b[f[n]]
          /\ \A m, n \in DOMAIN v : m < n => f[m] < f[n] /\ v[m] # v[n]

\* The invariant names it.
LEMMA StagedIs ==
    Staged <=> /\ at \in {"ready", "stage", "wait", "returned"} => newrev = << >>
               /\ at = "query" => newrev = bs
               /\ at \in {"cleanup", "wait", "returned"} => FoundIn(bs, missing, indexed)
BY DEF Staged, MissingOfBundle, FoundIn

\* And of the next state.
LEMMA StagedNext ==
    Staged' <=> /\ at' \in {"ready", "stage", "wait", "returned"} => newrev' = << >>
                /\ at' = "query" => newrev' = bs'
                /\ at' \in {"cleanup", "wait", "returned"} => FoundIn(bs', missing', indexed')
BY DEF Staged, MissingOfBundle, FoundIn

\* What Query finds missing.
LEMMA NotIndexedIs ==
    ASSUME newrev \in Seq(Ids)
    PROVE  FoundIn(newrev, NotIndexed, indexed)
<1> DEFINE S == {FirstRow(id) : id \in Rows \ indexed}
           f == Ascending(S)
           N == NotIndexed
           c == Cardinality(S)
<1>1. DOMAIN newrev = 1..Len(newrev) /\ Len(newrev) \in Nat
    OBVIOUS
<1>2. S \subseteq DOMAIN newrev /\ \A i \in S : i = FirstRow(newrev[i]) /\ newrev[i] \in Rows \ indexed
    BY FirstRows
<1>3. S \in SUBSET Nat /\ IsFiniteSet(S)
    <2>1. IsFiniteSet(1..Len(newrev))
        BY <1>1, FS_Interval
    <2> HIDE DEF S
    <2> QED
        BY <1>1, <1>2, <2>1, FS_Subset
<1>4. \A id \in Rows \ indexed : FirstRow(id) \in S
    OBVIOUS
<1>5. N = [n \in DOMAIN f |-> newrev[f[n]]]
    BY DEF NotIndexed
<1> HIDE DEF S
<1>6. /\ c \in Nat /\ f \in [1..c -> S] /\ Increasing(f, c)
      /\ \A x \in S : \E i \in 1..c : f[i] = x
    BY <1>3, AscendingLists
<1> HIDE DEF f, N, c
<1>7. DOMAIN N = 1..c /\ \A n \in 1..c : N[n] = newrev[f[n]] /\ f[n] \in S
    BY <1>5, <1>6
<1>8. ASSUME NEW i \in DOMAIN newrev PROVE newrev[i] \in indexed \/ \E n \in DOMAIN N : N[n] = newrev[i]
    <2>1. newrev[i] \in Rows
        BY DEF Rows
    <2>2. CASE newrev[i] \notin indexed
        <3>1. FirstRow(newrev[i]) \in S /\ newrev[FirstRow(newrev[i])] = newrev[i]
            BY <1>4, <2>1, <2>2, FirstRows
        <3>2. PICK n \in 1..c : f[n] = FirstRow(newrev[i])
            BY <1>6, <3>1
        <3> QED
            BY <1>7, <3>1, <3>2
    <2> QED
        BY <2>2
<1>9. f \in [DOMAIN N -> DOMAIN newrev]
    BY <1>2, <1>6, <1>7
<1>10. ASSUME NEW m \in 1..c, NEW n \in 1..c, m < n
       PROVE  f[m] < f[n] /\ N[m] # N[n]
    <2>1. f[m] < f[n]
        BY <1>6, <1>10 DEF Increasing
    <2>2. f[m] \in S /\ f[n] \in S /\ f[m] # f[n]
        <3>1. f[m] \in S /\ f[n] \in S
            BY <1>6
        <3>2. f[m] \in Nat /\ f[n] \in Nat
            BY <1>3, <3>1, Zenon
        <3> QED
            BY <2>1, <3>1, <3>2
    <2>3. f[m] = FirstRow(N[m]) /\ f[n] = FirstRow(N[n])
        BY <1>2, <1>7, <2>2
    <2> QED
        BY <2>1, <2>2, <2>3
<1> QED
    BY <1>7, <1>8, <1>9, <1>10 DEF N, FoundIn

\* Steps that are none of the call's.
LEMMA StagedStays ==
    ASSUME Staged, UNCHANGED <<at, bs, newrev, missing, indexed>>
    PROVE  Staged'
BY StagedIs, StagedNext

\* More ids have rows.
LEMMA MoreIndexed ==
    ASSUME Staged, UNCHANGED <<at, bs, newrev, missing>>, indexed \subseteq indexed'
    PROVE  Staged'
<1>1. FoundIn(bs, missing, indexed) => FoundIn(bs, missing, indexed')
    BY DEF FoundIn
<1> QED
    BY <1>1, StagedIs, StagedNext

\* Every step keeps what was staged and what was missing.
LEMMA NextStaged == IInv /\ Staged /\ [Next]_allVars => Staged'
<1> SUFFICES ASSUME IInv, Staged, [Next]_allVars PROVE Staged'
    OBVIOUS
<1>0. bs \in Seq(Ids) /\ newrev \in Seq(Ids)
    BY IInvParts DEF CallFine
<1>1. CASE Stage
    <2>1. newrev = << >> /\ newrev' = newrev \o bs /\ bs' = bs /\ at' = "query"
        BY <1>1 DEF Stage, CallStep, Staged
    <2>2. newrev' = bs
        BY <1>0, <2>1
    <2> QED
        BY <2>1, <2>2, StagedNext
<1>2. CASE Query
    <2>1. /\ at = "query" /\ at' = "cleanup" /\ missing' = NotIndexed
          /\ UNCHANGED <<bs, newrev, indexed>>
        BY <1>2 DEF Query, CallStep
    <2>2. newrev = bs
        BY <2>1, StagedIs
    <2>3. FoundIn(bs, missing', indexed)
        BY <1>0, <2>1, <2>2, NotIndexedIs
    <2> QED
        BY <2>1, <2>3, StagedNext
<1>3. CASE Cleanup
    <2>1. /\ at = "cleanup" /\ at' = "wait" /\ newrev' = << >> /\ UNCHANGED <<bs, missing, indexed>>
        BY <1>3 DEF Cleanup, CallStep
    <2> QED
        BY <2>1, StagedIs, StagedNext
<1>4. CASE Return
    <2>1. /\ at = "wait" /\ at' = "returned" /\ UNCHANGED <<bs, newrev, missing, indexed>>
        BY <1>4 DEF Return, CallStep
    <2> QED
        BY <2>1, StagedIs, StagedNext
<1>5. CASE Merge
    <2>1. at = "returned" /\ at' \in {"ready", "thrown"} /\ newrev' = newrev /\ newrev = << >>
        BY <1>5 DEF Merge, CallStep, Staged
    <2> QED
        BY <2>1, StagedNext
<1>6. ASSUME NEW b \in Bundles, AssignBlocks(b)
      PROVE  Staged'
    BY <1>6, StagedIs, StagedNext DEF AssignBlocks
<1>7. CASE SqlFails \/ Join \/ Destroy \/ Destroyed \/ Killed
    <2>1. at' \in {"unwinding", "thrown", "closing", "closed", "dead"}
        BY <1>7 DEF SqlFails, Join, Destroy, Destroyed, Killed, CallStep
    <2> QED
        BY <2>1, StagedNext
<1>8. CASE IndexedElsewhere
    BY <1>8, MoreIndexed DEF IndexedElsewhere
<1>9. CASE Construct \/ Assigning \/ ((OpenManifest \/ Reader) /\ UNCHANGED callVars) \/ UNCHANGED allVars
    <2>1. UNCHANGED callVars
        BY <1>9 DEF Construct, Assigning, allVars
    <2> QED
        BY <2>1, StagedStays DEF callVars
<1> QED
    BY <1>1, <1>2, <1>3, <1>4, <1>5, <1>6, <1>7, <1>8, <1>9 DEF Next, Committer

\* What assign_blocks finds missing is of its bundle, in order, once, and the
\* rest is indexed, however long the bundle is and whatever others index.
THEOREM MissingBlocks == Spec => []MissingOfBundle
<1>1. Init => Staged
    BY DEF Init, Staged, MissingOfBundle
<1>2. Staged => MissingOfBundle
    BY DEF Staged
<1> QED
    BY Invariance, <1>1, <1>2, NextStaged, PTL DEF Spec

------------------------------------------------------------------------------
(***************************************************************************)
(* The text of the manifest                                                *)
(*                                                                         *)
(* TextInv says of every character, written or still in the buffer, which  *)
(* one it is; where the writer stands in the text; that the reader holds a *)
(* part of the file; and how much of the text the parser has taken.  It    *)
(* holds if what fails to be written is the last of the file (Breaking):   *)
(* after a failure that passes, characters are lost from the middle, and   *)
(* what is left may parse.                                                 *)
(***************************************************************************)
\* The text of a manifest falls into pieces of one length: a mark, a quote, a
\* digest and a quote.  Character p is at Off(p) in the piece of id Id(p).
PieceLen == DigestLen + 3
Id(p)    == (p - 1) \div PieceLen + 1
Off(p)   == (p - 1) % PieceLen

Piece(p) ==
    IF p = 1 THEN LBracket
    ELSE IF Off(p) = 0 THEN Comma
    ELSE IF Off(p) \in {1, DigestLen + 2} THEN Quote
    ELSE <<ids[Id(p)], Off(p) - 1>>

\* Where the k-th value has ended and the next, or the end, follows.
After(p, k) == IF k = 0 THEN p = 2 ELSE Id(p) = k + 1 /\ Off(p) = 0

\* Character p is c, of a value that was begun, or it is the last.
Begun(p, c)  == c = Piece(p) /\ (p = 1 \/ Id(p) <= count)
Closes(p, c) == c = RBracket /\ After(p, Len(ids))

\* What was written, and how much of it the file will have.
Out     == Len(file) + Len(wbuf)
Char(p) == IF p <= Len(file) THEN file[p] ELSE wbuf[p - Len(file)]
Sent    == IF broken THEN Len(file) ELSE Out

Texted ==
    \A p \in 1..Sent :
        \/ Begun(p, Char(p))
        \/ p = Sent /\ ~broken /\ wpc \in {"flush", "closed"} /\ Closes(p, Char(p))

WriterAt ==
    ~broken =>
        /\ wpc = "start"  => Out = 0
        /\ wpc = "value"  => After(Out + 1, count)
        /\ wpc = "quote"  => Id(Out + 1) = count /\ Off(Out + 1) = 1
        /\ wpc = "digest" => Id(Out + 1) = count /\ Off(Out + 1) = 2
        /\ wpc = "end"    => Id(Out + 1) = count /\ Off(Out + 1) = DigestLen + 2
        /\ wpc = "flush"  => Len(file) < Out /\ Char(Out) = RBracket
        /\ wpc = "closed" => Out = Len(file) /\ Len(file) > 0 /\ file[Len(file)] = RBracket

Ended ==
    /\ wpc = "flush"  => at = "closing" /\ count = Len(ids)
    /\ wpc = "closed" => at = "closed" /\ count = Len(ids)

\* What rbuf holds of the file, and the character at hand.
Held == IF eof_ THEN Len(rbuf) - 1 ELSE Len(rbuf)
Pos  == count_ - Held + current

Holds ==
    rpc # "none" =>
        /\ Held <= count_
        /\ \A j \in 1..Held : rbuf[j] = file[count_ - Held + j]
        /\ eof_ => Len(rbuf) > 0 /\ rbuf[Len(rbuf)] = Nul
        /\ ~early => wpc = "closed" /\ (eof_ => count_ = Len(file))

Parsed ==
    /\ Len(parsed) <= count /\ \A i \in 1..Len(parsed) : parsed[i] = Digest(ids[i])
    /\ rpc \in {"none", "array", "first"} => parsed = << >>
    /\ rpc = "none" => count_ = 0
    /\ rpc = "array" => Pos = 1
    /\ rpc = "first" => Pos = 2
    /\ rpc = "string" =>
          /\ Len(parsed) < count /\ Id(Pos) = Len(parsed) + 1 /\ Off(Pos) = 2 + Len(str)
          /\ Len(str) <= DigestLen
          /\ \A i \in 1..Len(str) : str[i] = <<ids[Len(parsed) + 1], i>>
    /\ rpc = "more" => parsed # << >> /\ Id(Pos) = Len(parsed) + 1 /\ Off(Pos) = 0
    /\ rpc = "element" => parsed # << >> /\ Id(Pos) = Len(parsed) + 1 /\ Off(Pos) = 1
    /\ rpc \in {"first", "string", "more", "element"} => Pos > 1 /\ file[Pos - 1] # RBracket
    /\ rpc = "accepted" => Len(parsed) = Len(ids) /\ wpc = "closed"
    /\ rpc = "rejected" => early \/ broken \/ wpc = "dead"

TextInv == Texted /\ WriterAt /\ Ended /\ Holds /\ Parsed

\* Counting on by one in the base b.
LEMMA DivNext ==
    ASSUME NEW b \in Nat \ {0}, NEW n \in Nat
    PROVE  /\ n \div b \in Nat /\ n % b \in 0..(b - 1)
           /\ IF n % b < b - 1 THEN (n + 1) \div b = n \div b /\ (n + 1) % b = (n % b) + 1
              ELSE (n + 1) \div b = (n \div b) + 1 /\ (n + 1) % b = 0
OBVIOUS

\* Where characters stand in their pieces.
LEMMA Places ==
    /\ PieceLen \in Nat \ {0} /\ Id(1) = 1 /\ Off(1) = 0 /\ Id(2) = 1 /\ Off(2) = 1
    /\ \A p \in Nat \ {0} :
          /\ Id(p) \in Nat \ {0} /\ Off(p) \in 0..(DigestLen + 2)
          /\ IF Off(p) < DigestLen + 2 THEN Id(p + 1) = Id(p) /\ Off(p + 1) = Off(p) + 1
             ELSE Id(p + 1) = Id(p) + 1 /\ Off(p + 1) = 0
<1>1. DigestLen \in Nat \ {0}
    BY LengthsAssumption
<1> DEFINE b == PieceLen
<1>2. b \in Nat \ {0} /\ b = DigestLen + 3 /\ b > 1
    BY <1>1 DEF PieceLen
<1> HIDE DEF b
<1>3. 0 \div b = 0 /\ 0 % b = 0 /\ 1 \div b = 0 /\ 1 % b = 1
    BY <1>2
<1>4. Id(1) = 1 /\ Off(1) = 0 /\ Id(2) = 1 /\ Off(2) = 1
    BY <1>3 DEF Id, Off, b
<1>5. ASSUME NEW p \in Nat \ {0}
      PROVE  /\ Id(p) \in Nat \ {0} /\ Off(p) \in 0..(DigestLen + 2)
             /\ IF Off(p) < DigestLen + 2 THEN Id(p + 1) = Id(p) /\ Off(p + 1) = Off(p) + 1
                ELSE Id(p + 1) = Id(p) + 1 /\ Off(p + 1) = 0
    <2> DEFINE n == p - 1
    <2>1. n \in Nat /\ p + 1 - 1 = n + 1
        OBVIOUS
    <2> HIDE DEF n
    <2>2. /\ n \div b \in Nat /\ n % b \in 0..(b - 1)
          /\ IF n % b < b - 1 THEN (n + 1) \div b = n \div b /\ (n + 1) % b = (n % b) + 1
             ELSE (n + 1) \div b = (n \div b) + 1 /\ (n + 1) % b = 0
        BY <1>2, <2>1, DivNext, Zenon
    <2>3. Id(p) = (n \div b) + 1 /\ Off(p) = n % b /\ Id(p + 1) = (n + 1) \div b + 1 /\ Off(p + 1) = (n + 1) % b
        BY <2>1 DEF Id, Off, b, n
    <2> QED
        BY <1>1, <1>2, <2>2, <2>3
<1> QED
    BY <1>2, <1>4, <1>5 DEF b

\* The marks are told apart, and from digits.
LEMMA Marks ==
    /\ LBracket # RBracket /\ LBracket # Comma /\ LBracket # Quote /\ LBracket # Nul
    /\ RBracket # Comma /\ RBracket # Quote /\ RBracket # Nul
    /\ Comma # Quote /\ Comma # Nul /\ Quote # Nul
    /\ \A x : \A i \in Nat \ {0} : <<x, i>> \notin {LBracket, RBracket, Comma, Quote, Nul}
BY DEF LBracket, RBracket, Comma, Quote, Nul

\* What stands where in a piece.
LEMMA Pieces ==
    ASSUME NEW p \in Nat \ {0}
    PROVE  /\ Piece(p) \notin {RBracket, Nul}
           /\ Off(p) = 0 /\ p # 1 => Piece(p) = Comma
           /\ Off(p) = 1 => Piece(p) = Quote
           /\ Off(p) = DigestLen + 2 => Piece(p) = Quote
           /\ Off(p) \in 2..(DigestLen + 1) =>
                 Piece(p) = <<ids[Id(p)], Off(p) - 1>> /\ Piece(p) # Quote
<1>1. Off(p) \in 0..(DigestLen + 2) /\ DigestLen \in Nat \ {0} /\ (p = 1 => Off(p) = 0)
    BY Places, LengthsAssumption
<1>2. CASE p = 1
    BY <1>1, <1>2, Marks DEF Piece
<1>3. CASE p # 1 /\ Off(p) = 0
    BY <1>1, <1>3, Marks DEF Piece
<1>4. CASE Off(p) \in {1, DigestLen + 2}
    <2>1. Piece(p) = Quote
        BY <1>1, <1>4 DEF Piece
    <2> QED
        BY <1>1, <1>4, <2>1, Marks
<1>5. CASE Off(p) \in 2..(DigestLen + 1)
    <2>1. Piece(p) = <<ids[Id(p)], Off(p) - 1>> /\ Off(p) - 1 \in Nat \ {0}
        BY <1>1, <1>5 DEF Piece
    <2>2. Piece(p) \notin {LBracket, RBracket, Comma, Quote, Nul}
        BY <2>1, Marks, Zenon
    <2> QED
        BY <1>1, <1>5, <2>1, <2>2
<1> QED
    BY <1>1, <1>2, <1>3, <1>4, <1>5

------------------------------------------------------------------------------
\* data goes behind what was written; what fails is cut off, and nothing
\* follows it.
Emits(data) ==
    /\ broken' \in BOOLEAN
    /\ broken => broken' /\ file' = file
    /\ ~broken => /\ Len(file) <= Len(file') /\ Len(file') <= Out
                  /\ \A p \in 1..Len(file') : file'[p] = Char(p)
                  /\ broken' => Len(file') < Out
    /\ ~broken' => /\ Out' = Out + Len(data)
                   /\ \A p \in 1..Out' : Char(p)' = IF p <= Out THEN Char(p) ELSE data[p - Out]

Breaking == Failures \subseteq {"lasting"}

\* The types of the stream.
LEMMA StreamParts ==
    ASSUME StreamFine
    PROVE  /\ wbuf \in Seq(Chars) /\ Len(wbuf) \in Nat /\ file \in Seq(Chars) /\ Len(file) \in Nat
           /\ Out \in Nat /\ broken \in BOOLEAN /\ Len(file) <= Out
BY DEF StreamFine, Out

\* fwrite puts all of the buffer behind the file, or only some for good.
LEMMA WrittenEmits ==
    ASSUME StreamFine, Breaking, Written(wbuf), NEW data \in Seq(Chars), wbuf' = data
    PROVE  Emits(data)
<1>1. /\ wbuf \in Seq(Chars) /\ Len(wbuf) \in Nat /\ file \in Seq(Chars) /\ Len(file) \in Nat
      /\ broken \in BOOLEAN /\ Len(data) \in Nat /\ Out = Len(file) + Len(wbuf)
    BY StreamParts DEF Out
<1>2. CASE ~broken /\ file' = file \o wbuf /\ UNCHANGED broken
    <2>1. /\ Len(file') = Out /\ \A p \in 1..Len(file) : file'[p] = file[p]
          /\ \A p \in 1..Len(wbuf) : file'[Len(file) + p] = wbuf[p]
        <3>1. file \o wbuf \in Seq(Chars) /\ Len(file \o wbuf) = Len(file) + Len(wbuf)
            BY <1>1
        <3>2. \A p \in 1..Len(file) : (file \o wbuf)[p] = file[p]
            BY <1>1
        <3>3. \A p \in 1..Len(wbuf) : (file \o wbuf)[Len(file) + p] = wbuf[p]
            BY <1>1
        <3> QED
            BY <1>1, <1>2, <3>1, <3>2, <3>3, Zenon
    <2>2. ASSUME NEW p \in 1..Len(file') PROVE file'[p] = Char(p)
        <3>1. CASE p <= Len(file)
            <4>1. p \in 1..Len(file)
                BY <1>1, <3>1
            <4> QED
                BY <2>1, <3>1, <4>1 DEF Char
        <3>2. CASE ~(p <= Len(file))
            <4> DEFINE j == p - Len(file)
            <4>1. j \in 1..Len(wbuf) /\ Len(file) + j = p
                BY <1>1, <2>1, <3>2
            <4>2. Char(p) = wbuf[j]
                BY <3>2 DEF Char
            <4> HIDE DEF j
            <4> QED
                BY <2>1, <4>1, <4>2
        <3> QED
            BY <3>1, <3>2
    <2>3. Out' = Out + Len(data)
        BY <2>1 DEF Out
    <2>4. ASSUME NEW p \in 1..Out' PROVE Char(p)' = IF p <= Out THEN Char(p) ELSE data[p - Out]
        <3>1. Char(p)' = IF p <= Len(file') THEN file'[p] ELSE data[p - Len(file')]
            BY DEF Char
        <3> QED
            BY <1>1, <2>1, <2>2, <3>1
    <2>5. Len(file) <= Len(file') /\ Len(file') <= Out
        BY <1>1, <2>1
    <2>6. ~broken /\ ~broken' /\ broken' \in BOOLEAN
        BY <1>1, <1>2, Zenon
    <2> QED
        BY <2>2, <2>3, <2>4, <2>5, <2>6, Zenon DEF Emits
<1>3. CASE broken /\ UNCHANGED <<file, broken>>
    BY <1>3 DEF Emits
<1>4. CASE ~broken /\ \E kind \in Failures, n \in 0..(Len(wbuf) - 1) :
              file' = file \o SubSeq(wbuf, 1, n) /\ broken' = (kind = "lasting")
    <2>1. PICK kind \in Failures, n \in 0..(Len(wbuf) - 1) :
              file' = file \o SubSeq(wbuf, 1, n) /\ broken' = (kind = "lasting")
        BY <1>4
    <2>2. broken' = TRUE
        BY <2>1 DEF Breaking
    <2> DEFINE w == SubSeq(wbuf, 1, n)
    <2>3. w \in Seq(Chars) /\ Len(w) = n /\ \A j \in 1..n : w[j] = wbuf[j]
        BY <1>1
    <2>9. file' = file \o w /\ n \in Nat /\ n < Len(wbuf)
        BY <1>1, <2>1
    <2> HIDE DEF w
    <2>4. /\ Len(file') = Len(file) + n /\ \A p \in 1..Len(file) : file'[p] = file[p]
          /\ \A p \in 1..n : file'[Len(file) + p] = wbuf[p]
        <3>1. Len(file \o w) = Len(file) + n
            BY <1>1, <2>3, ConcatProperties, Zenon
        <3>2. \A p \in 1..Len(file) : (file \o w)[p] = file[p]
            BY <1>1, <2>3
        <3>3. \A p \in 1..Len(w) : (file \o w)[Len(file) + p] = w[p]
            BY <1>1, <2>3
        <3> QED
            BY <2>3, <2>9, <3>1, <3>2, <3>3, Zenon
    <2>5. ASSUME NEW p \in 1..Len(file') PROVE file'[p] = Char(p)
        <3>1. CASE p <= Len(file)
            <4>1. p \in 1..Len(file)
                BY <1>1, <3>1
            <4> QED
                BY <2>4, <3>1, <4>1 DEF Char
        <3>2. CASE ~(p <= Len(file))
            <4> DEFINE j == p - Len(file)
            <4>1. j \in 1..n /\ Len(file) + j = p
                BY <1>1, <2>4, <2>9, <3>2
            <4>2. Char(p) = wbuf[j]
                BY <3>2 DEF Char
            <4> HIDE DEF j
            <4> QED
                BY <2>4, <4>1, <4>2
        <3> QED
            BY <3>1, <3>2
    <2>6. Len(file) <= Len(file') /\ Len(file') < Out /\ Len(file') <= Out
        BY <1>1, <2>4, <2>9
    <2> QED
        BY <1>4, <2>2, <2>5, <2>6 DEF Emits
<1> QED
    BY <1>2, <1>3, <1>4 DEF Written

\* What the buffer takes.
LEMMA BufferEmits ==
    ASSUME StreamFine, NEW data \in Seq(Chars), wbuf' = wbuf \o data, UNCHANGED <<file, broken>>
    PROVE  Emits(data)
<1>1. /\ wbuf \in Seq(Chars) /\ Len(wbuf) \in Nat /\ file \in Seq(Chars) /\ Len(file) \in Nat
      /\ broken \in BOOLEAN /\ Len(data) \in Nat /\ Out = Len(file) + Len(wbuf)
    BY StreamParts DEF Out
<1>2. /\ Len(wbuf') = Len(wbuf) + Len(data) /\ \A j \in 1..Len(wbuf) : wbuf'[j] = wbuf[j]
      /\ \A j \in 1..Len(data) : wbuf'[Len(wbuf) + j] = data[j]
    <2>1. Len(wbuf \o data) = Len(wbuf) + Len(data)
        BY <1>1
    <2>2. \A j \in 1..Len(wbuf) : (wbuf \o data)[j] = wbuf[j]
        BY <1>1
    <2>3. \A j \in 1..Len(data) : (wbuf \o data)[Len(wbuf) + j] = data[j]
        BY <1>1
    <2> QED
        BY <2>1, <2>2, <2>3, Zenon
<1>3. Out' = Out + Len(data)
    BY <1>1, <1>2 DEF Out
<1>4. \A p \in 1..Len(file) : file[p] = Char(p)
    BY <1>1 DEF Char
<1>5. ASSUME NEW p \in 1..Out' PROVE Char(p)' = IF p <= Out THEN Char(p) ELSE data[p - Out]
    <2>1. Char(p)' = IF p <= Len(file) THEN file[p] ELSE wbuf'[p - Len(file)]
        BY DEF Char
    <2>2. CASE p <= Len(file)
        BY <1>1, <2>1, <2>2 DEF Char
    <2>3. CASE ~(p <= Len(file))
        <3> DEFINE j == p - Len(file)
        <3>1. j \in 1..(Len(wbuf) + Len(data)) /\ (p <= Out <=> j <= Len(wbuf))
              /\ p - Out = j - Len(wbuf)
            BY <1>1, <1>3, <2>3
        <3>2. Char(p)' = wbuf'[j] /\ Char(p) = wbuf[j]
            BY <2>1, <2>3 DEF Char
        <3> HIDE DEF j
        <3>3. CASE j <= Len(wbuf)
            <4>1. j \in 1..Len(wbuf)
                BY <1>1, <3>1, <3>3
            <4> QED
                BY <1>2, <3>1, <3>2, <3>3, <4>1
        <3>4. CASE ~(j <= Len(wbuf))
            <4> DEFINE i == j - Len(wbuf)
            <4>1. i \in 1..Len(data) /\ Len(wbuf) + i = j /\ p - Out = i
                BY <1>1, <3>1, <3>4
            <4> HIDE DEF i
            <4>2. wbuf'[j] = data[i]
                BY <1>2, <4>1
            <4> QED
                BY <3>1, <3>2, <3>4, <4>1, <4>2
        <3> QED
            BY <3>3, <3>4
    <2> QED
        BY <2>2, <2>3
<1>6. Len(file) <= Out
    BY <1>1
<1> QED
    BY <1>1, <1>3, <1>4, <1>5, <1>6 DEF Emits

\* A character.
LEMMA PutEmits ==
    ASSUME StreamFine, Breaking, NEW c \in Chars, Put(c)
    PROVE  Emits(<<c>>)
<1>1. <<c>> \in Seq(Chars) /\ wbuf \in Seq(Chars) /\ Len(wbuf) \in Nat
    BY StreamParts
<1>2. CASE Len(wbuf) >= BufSize
    BY <1>1, <1>2, WrittenEmits DEF Put
<1>3. CASE ~(Len(wbuf) >= BufSize)
    <2>1. wbuf' = Append(wbuf, c) /\ UNCHANGED <<file, broken>>
        BY <1>3 DEF Put
    <2>2. Append(wbuf, c) = wbuf \o <<c>>
        BY <1>1
    <2> QED
        BY <1>1, <2>1, <2>2, BufferEmits
<1> QED
    BY <1>2, <1>3

\* A digest.
LEMMA PushEmits ==
    ASSUME StreamFine, Breaking, NEW data \in Seq(Chars), Push(data)
    PROVE  Emits(data)
BY WrittenEmits, BufferEmits DEF Push

\* The last flush.
LEMMA FlushEmits ==
    ASSUME StreamFine, Breaking, Flush
    PROVE  Emits(<< >>) /\ wbuf' = << >>
<1>1. << >> \in Seq(Chars)
    OBVIOUS
<1>2. CASE wbuf = << >>
    <2>1. wbuf' = wbuf /\ UNCHANGED <<file, broken>> /\ wbuf \o << >> = << >>
        BY <1>2 DEF Flush
    <2> QED
        BY <1>1, <1>2, <2>1, BufferEmits
<1>3. CASE wbuf # << >>
    BY <1>1, <1>3, WrittenEmits DEF Flush
<1> QED
    BY <1>2, <1>3

------------------------------------------------------------------------------
\* A piece of an id whose value was begun is the same from then on.
LEMMA PieceStays ==
    ASSUME count \in Nat, \A i \in 1..count : ids'[i] = ids[i],
           NEW p \in Nat \ {0}, p = 1 \/ Id(p) <= count
    PROVE  Piece(p)' = Piece(p)
<1>1. p # 1 => Id(p) \in 1..count
    BY Places
<1> QED
    BY <1>1 DEF Piece

\* The file only grows.
LEMMA FileGrows ==
    ASSUME StreamFine, NEW data \in Seq(Chars), Emits(data)
    PROVE  Len(file) <= Len(file') /\ \A p \in 1..Len(file) : file'[p] = file[p]
<1>1. Len(file) \in Nat
    BY StreamParts
<1>2. CASE broken
    BY <1>1, <1>2 DEF Emits
<1>3. CASE ~broken
    <2>1. Len(file) <= Len(file') /\ \A p \in 1..Len(file') : file'[p] = Char(p)
        BY <1>3 DEF Emits
    <2>2. ASSUME NEW p \in 1..Len(file) PROVE file'[p] = file[p]
        <3>1. p <= Len(file) /\ (Len(file') \in Nat => p \in 1..Len(file'))
            BY <1>1, <2>1
        <3>2. Len(file') \in Nat
            BY <1>1, <1>3, StreamParts DEF Emits
        <3> QED
            BY <2>1, <3>1, <3>2 DEF Char
    <2> QED
        BY <2>1, <2>2
<1> QED
    BY <1>2, <1>3

\* What is written behind pieces are pieces, and then, once, the end.
LEMMA TextedOn ==
    ASSUME StreamFine, StreamFine', Texted, NEW data \in Seq(Chars), Emits(data),
           count \in Nat, count' \in Nat, count <= count', UNCHANGED ids,
           wpc # "closed", wpc = "flush" => data = << >> /\ wpc' = "closed",
           ~broken' => \A j \in 1..Len(data) :
               \/ Begun(Out + j, data[j])
               \/ data[j] = Piece(Out + j) /\ Id(Out + j) <= count'
               \/ Out + j = Out' /\ wpc' = "flush" /\ Closes(Out + j, data[j])
    PROVE  Texted'
<1>1. /\ Out \in Nat /\ Out' \in Nat /\ Len(file) \in Nat /\ Len(file') \in Nat
      /\ Len(file) <= Out /\ broken \in BOOLEAN /\ broken' \in BOOLEAN /\ Len(data) \in Nat
    <2>1. Len(file') \in Nat /\ Out' \in Nat /\ broken' \in BOOLEAN
        BY DEF StreamFine, Out
    <2> QED
        BY <2>1, StreamParts
<1>2. ASSUME NEW p \in Nat \ {0}, NEW c, Begun(p, c)
      PROVE  c = Piece(p)' /\ (p = 1 \/ Id(p) <= count')
    <2>1. c = Piece(p) /\ (p = 1 \/ Id(p) <= count)
        BY <1>2 DEF Begun
    <2>2. Piece(p)' = Piece(p)
        BY <2>1, PieceStays
    <2>3. Id(p) <= count => Id(p) <= count'
        BY Places
    <2> QED
        BY <2>1, <2>2, <2>3
<1>3. SUFFICES ASSUME NEW p \in 1..Sent'
               PROVE  \/ Char(p)' = Piece(p)' /\ (p = 1 \/ Id(p) <= count')
                      \/ p = Sent' /\ ~broken' /\ wpc' \in {"flush", "closed"}
                         /\ Char(p)' = RBracket /\ After(p, Len(ids'))
    BY DEF Texted, Begun, Closes, After
<1>4. p \in Nat \ {0}
    BY <1>1 DEF Sent
<1>5. CASE ~broken'
    <2>1. ~broken /\ Sent' = Out' /\ Sent = Out /\ Out' = Out + Len(data)
          /\ Char(p)' = IF p <= Out THEN Char(p) ELSE data[p - Out]
        BY <1>1, <1>3, <1>5 DEF Emits, Sent
    <2>2. CASE p <= Out
        <3>1. p \in 1..Sent /\ Char(p)' = Char(p)
            BY <1>1, <1>4, <2>1, <2>2
        <3>2. CASE Begun(p, Char(p))
            BY <1>2, <1>4, <3>1, <3>2
        <3>3. CASE ~Begun(p, Char(p))
            <4>1. p = Out /\ wpc \in {"flush", "closed"} /\ Closes(p, Char(p))
                BY <2>1, <3>1, <3>3 DEF Texted
            <4>2. Len(data) = 0 /\ wpc' = "closed"
                BY <4>1
            <4>3. p = Sent'
                BY <1>1, <2>1, <4>1, <4>2
            <4> QED
                BY <1>5, <3>1, <4>1, <4>2, <4>3 DEF Closes
        <3> QED
            BY <3>2, <3>3
    <2>3. CASE ~(p <= Out)
        <3> DEFINE j == p - Out
        <3>1. j \in 1..Len(data) /\ Out + j = p /\ Char(p)' = data[j]
            BY <1>1, <1>3, <2>1, <2>3
        <3> HIDE DEF j
        <3>2. CASE Begun(p, data[j])
            BY <1>2, <1>4, <3>1, <3>2
        <3>3. CASE data[j] = Piece(p) /\ Id(p) <= count'
            <4>1. Piece(p)' = Piece(p)
                BY DEF Piece
            <4> QED
                BY <3>1, <3>3, <4>1
        <3>4. CASE p = Out' /\ wpc' = "flush" /\ Closes(p, data[j])
            BY <1>5, <2>1, <3>1, <3>4 DEF Closes
        <3> QED
            BY <1>5, <3>1, <3>2, <3>3, <3>4
    <2> QED
        BY <2>2, <2>3
<1>6. CASE broken'
    <2>1. Sent' = Len(file') /\ Char(p)' = file'[p]
        BY <1>3, <1>6 DEF Sent, Char
    <2>2. p \in 1..Sent /\ Char(p)' = Char(p) /\ ~(p = Sent /\ ~broken)
        <3>1. CASE broken
            <4>1. file' = file /\ Sent = Len(file)
                BY <3>1 DEF Emits, Sent
            <4> QED
                BY <1>1, <1>3, <1>4, <2>1, <3>1, <4>1 DEF Char
        <3>2. CASE ~broken
            <4>1. Len(file') < Out /\ Sent = Out /\ file'[p] = Char(p)
                BY <1>3, <1>6, <2>1, <3>2 DEF Emits, Sent
            <4> QED
                BY <1>1, <1>3, <1>4, <2>1, <4>1
        <3> QED
            BY <3>1, <3>2
    <2>3. Begun(p, Char(p))
        BY <2>2 DEF Texted
    <2> QED
        BY <1>2, <1>4, <2>2, <2>3
<1> QED
    BY <1>5, <1>6

\* How far what is written reaches.
LEMMA EmitsOut ==
    ASSUME StreamFine, NEW data \in Seq(Chars), Emits(data), ~broken'
    PROVE  ~broken /\ Out' = Out + Len(data) /\ Len(file') <= Out
BY StreamParts DEF Emits

\* The same of one character.
LEMMA MarkOut ==
    ASSUME StreamFine, NEW c \in Chars, Emits(<<c>>), ~broken'
    PROVE  ~broken /\ Out' = Out + 1 /\ Len(file') <= Out
<1>1. <<c>> \in Seq(Chars) /\ Len(<<c>>) = 1
    OBVIOUS
<1>2. ~broken /\ Out' = Out + Len(<<c>>) /\ Len(file') <= Out
    BY <1>1, EmitsOut, Zenon
<1> QED
    BY <1>1, <1>2, Zenon

\* A mark behind pieces.
LEMMA TextedMark ==
    ASSUME StreamFine, StreamFine', Texted, NEW c \in Chars, Emits(<<c>>),
           count \in Nat, count' \in Nat, count <= count', UNCHANGED ids,
           wpc # "closed", wpc # "flush",
           ~broken' =>
               \/ Begun(Out + 1, c)
               \/ c = Piece(Out + 1) /\ Id(Out + 1) <= count'
               \/ Out + 1 = Out' /\ wpc' = "flush" /\ Closes(Out + 1, c)
    PROVE  Texted'
<1>1. PICK d : d = <<c>>
    OBVIOUS
<1>2. d \in Seq(Chars) /\ Len(d) = 1 /\ d[1] = c
    BY <1>1
<1>3. Emits(d)
    BY <1>1
<1>4. ~broken' => \A j \in 1..Len(d) :
               \/ Begun(Out + j, d[j])
               \/ d[j] = Piece(Out + j) /\ Id(Out + j) <= count'
               \/ Out + j = Out' /\ wpc' = "flush" /\ Closes(Out + j, d[j])
    <2>1. SUFFICES ASSUME ~broken', NEW j \in 1..Len(d)
                   PROVE  \/ Begun(Out + j, d[j])
                          \/ d[j] = Piece(Out + j) /\ Id(Out + j) <= count'
                          \/ Out + j = Out' /\ wpc' = "flush" /\ Closes(Out + j, d[j])
        OBVIOUS
    <2>2. j = 1
        BY <1>2
    <2> QED
        BY <1>2, <2>1, <2>2
<1> QED
    BY <1>2, <1>3, <1>4, TextedOn

\* Nothing behind pieces, but the array may have ended.
LEMMA TextedNothing ==
    ASSUME StreamFine, StreamFine', Texted, Emits(<< >>),
           count \in Nat, count' \in Nat, count <= count', UNCHANGED ids,
           wpc # "closed", wpc = "flush" => wpc' = "closed"
    PROVE  Texted' /\ (~broken' => ~broken /\ Out' = Out /\ Len(file') <= Out)
<1>1. PICK d : d = << >>
    OBVIOUS
<1>2. d \in Seq(Chars) /\ Len(d) = 0
    BY <1>1
<1>3. Emits(d)
    BY <1>1
<1>4. Texted'
    <2>1. \A j \in 1..Len(d) :
              \/ Begun(Out + j, d[j])
              \/ d[j] = Piece(Out + j) /\ Id(Out + j) <= count'
              \/ Out + j = Out' /\ wpc' = "flush" /\ Closes(Out + j, d[j])
        BY <1>2
    <2> QED
        BY <1>1, <1>2, <1>3, <2>1, TextedOn
<1>5. ~broken' => ~broken /\ Out' = Out + Len(d) /\ Len(file') <= Out
    BY <1>2, <1>3, EmitsOut
<1> QED
    BY <1>2, <1>4, <1>5, StreamParts

\* Further on in the same piece.
LEMMA DivWithin ==
    ASSUME NEW b \in Nat \ {0}, NEW n \in Nat, NEW k \in Nat, (n % b) + k <= b - 1
    PROVE  (n + k) \div b = n \div b /\ (n + k) % b = (n % b) + k
OBVIOUS

\* The same of characters.
LEMMA PlacesWithin ==
    ASSUME NEW p \in Nat \ {0}, NEW k \in Nat, Off(p) + k <= DigestLen + 2
    PROVE  Id(p + k) = Id(p) /\ Off(p + k) = Off(p) + k
<1> DEFINE b == PieceLen
           n == p - 1
<1>1. b \in Nat \ {0} /\ b - 1 = DigestLen + 2 /\ n \in Nat /\ p + k - 1 = n + k
    BY LengthsAssumption DEF PieceLen
<1>2. Id(p) = (n \div b) + 1 /\ Off(p) = n % b
    BY DEF Id, Off
<1> HIDE DEF n
<1>3. Id(p + k) = (n + k) \div b + 1 /\ Off(p + k) = (n + k) % b
    BY <1>1 DEF Id, Off
<1> HIDE DEF b
<1>4. (n + k) \div b = n \div b /\ (n + k) % b = (n % b) + k
    BY <1>1, <1>2, DivWithin
<1> QED
    BY <1>2, <1>3, <1>4

\* What the thread and the ends of the array write, and where it leaves them.
LEMMA WriterTexts ==
    ASSUME WriterFine, ReaderFine, Breaking, Texted, WriterAt,
           StartArray \/ Appending \/ EndArray \/ FinalFlush,
           EndArray => wpc = "value" /\ count = Len(ids)
    PROVE  Texted' /\ WriterAt' /\ \E data \in Seq(Chars) : Emits(data)
<1>1. /\ StreamFine /\ StreamFine' /\ ids \in Seq(Ids) /\ Len(ids) \in Nat
      /\ count \in Nat /\ count <= Len(ids) /\ UNCHANGED ids
    <2>1. WriterFine' /\ UNCHANGED ids
        BY WriterKeeps DEF StartArray, Appending, Prefix, OpenQuote, Hexlify, CloseQuote, EndArray,
                           FinalFlush, Goto
    <2> QED
        BY <2>1 DEF WriterFine
<1>2. /\ Out \in Nat /\ Out + 1 \in Nat \ {0} /\ Len(file) \in Nat /\ broken \in BOOLEAN
      /\ DigestLen \in Nat \ {0} /\ Out + 1 + 1 \in Nat \ {0}
    BY <1>1, StreamParts, LengthsAssumption
<1>3. ASSUME NEW c, c \in {LBracket, RBracket, Comma, Quote}
      PROVE  c \in Chars /\ <<c>> \in Seq(Chars) /\ Len(<<c>>) = 1 /\ <<c>>[1] = c
    BY <1>3, CharsOfManifest
<1>4. count' \in Nat /\ count <= count'
    BY <1>1 DEF StartArray, Appending, Prefix, OpenQuote, Hexlify, CloseQuote, EndArray, FinalFlush
<1>5. CASE StartArray
    <2>1. wpc = "start" /\ wpc' = "value" /\ count' = count /\ Put(LBracket)
        BY <1>5 DEF StartArray, Goto
    <2>2. Emits(<<LBracket>>)
        BY <1>1, <1>3, <2>1, PutEmits
    <2>3. count = 0
        BY <1>1, <2>1 DEF WriterFine, ArrayBegun
    <2>4. ~broken' => Out = 0 /\ Out' = 1
        BY <1>1, <1>3, <2>1, <2>2, MarkOut DEF WriterAt
    <2>5. ~broken' => Begun(Out + 1, LBracket)
        BY <2>4 DEF Begun, Piece
    <2>6. Texted'
        <3>1. wpc # "closed" /\ wpc # "flush" /\ LBracket \in Chars
            BY <1>3, <2>1
        <3>2. ~broken' =>
                  \/ Begun(Out + 1, LBracket)
                  \/ LBracket = Piece(Out + 1) /\ Id(Out + 1) <= count'
                  \/ Out + 1 = Out' /\ wpc' = "flush" /\ Closes(Out + 1, LBracket)
            BY <2>5
        <3> QED
            BY <1>1, <1>4, <2>2, <3>1, <3>2, TextedMark
    <2>7. WriterAt'
        BY <2>1, <2>3, <2>4 DEF WriterAt, After
    <2> QED
        BY <1>3, <2>2, <2>6, <2>7
<1>6. CASE Prefix
    <2>1. wpc = "value" /\ wpc' = "quote" /\ count' = count + 1
        BY <1>6 DEF Prefix, Goto
    <2>2. CASE count > 0
        <3>1. Emits(<<Comma>>)
            BY <1>1, <1>3, <1>6, <2>2, PutEmits DEF Prefix
        <3>2. ASSUME ~broken'
              PROVE  Out' = Out + 1 /\ Id(Out + 1) = count + 1 /\ Off(Out + 1) = 0
            BY <1>1, <1>3, <2>1, <2>2, <3>1, <3>2, MarkOut DEF WriterAt, After
        <3>3. ASSUME ~broken'
              PROVE  Comma = Piece(Out + 1) /\ Id(Out + 1) <= count'
            <4>1. Out + 1 # 1
                BY <1>1, <2>2, <3>2, <3>3, Places
            <4> QED
                BY <1>1, <1>2, <2>1, <3>2, <3>3, <4>1, Pieces
        <3>4. Texted'
            BY <1>1, <1>3, <1>4, <2>1, <3>1, <3>3, TextedMark
        <3>5. ~broken' => Id(Out' + 1) = count' /\ Off(Out' + 1) = 1
            BY <1>2, <2>1, <3>2, Places
        <3>6. WriterAt'
            BY <2>1, <3>5 DEF WriterAt
        <3> QED
            BY <1>3, <3>1, <3>4, <3>6
    <2>3. CASE ~(count > 0)
        <3>1. count = 0 /\ UNCHANGED <<wbuf, file, broken>>
            BY <1>1, <1>6, <2>3 DEF Prefix
        <3>2. << >> \in Seq(Chars) /\ wbuf' = wbuf \o << >> /\ Len(<< >>) = 0
            BY <1>1, <3>1, StreamParts
        <3>3. Emits(<< >>)
            BY <1>1, <3>1, <3>2, BufferEmits
        <3>4. Texted' /\ (~broken' => ~broken /\ Out' = Out /\ Len(file') <= Out)
            BY <1>1, <1>4, <2>1, <3>3, TextedNothing
        <3>5. ~broken' => Out' = Out /\ Out + 1 = 2
            BY <1>2, <2>1, <3>1, <3>4 DEF WriterAt, After
        <3>6. ~broken' => Id(Out' + 1) = count' /\ Off(Out' + 1) = 1
            BY <2>1, <3>1, <3>5, Places
        <3>7. WriterAt'
            BY <2>1, <3>6 DEF WriterAt
        <3> QED
            BY <3>2, <3>3, <3>4, <3>7
    <2> QED
        BY <2>2, <2>3
<1>7. CASE OpenQuote
    <2>1. wpc = "quote" /\ wpc' = "digest" /\ count' = count /\ Put(Quote)
        BY <1>7 DEF OpenQuote, Goto
    <2>2. Emits(<<Quote>>)
        BY <1>1, <1>3, <2>1, PutEmits
    <2>3. ~broken' => Out' = Out + 1 /\ Id(Out + 1) = count /\ Off(Out + 1) = 1
        BY <1>1, <1>3, <2>1, <2>2, MarkOut DEF WriterAt
    <2>4. ~broken' => Quote = Piece(Out + 1) /\ Id(Out + 1) <= count'
        BY <1>1, <1>2, <2>1, <2>3, Pieces
    <2>5. Texted'
        BY <1>1, <1>3, <1>4, <2>1, <2>2, <2>4, TextedMark
    <2>6. ~broken' => Id(Out' + 1) = count' /\ Off(Out' + 1) = 2
        BY <1>2, <2>1, <2>3, Places
    <2>7. WriterAt'
        BY <2>1, <2>6 DEF WriterAt
    <2> QED
        BY <1>3, <2>2, <2>5, <2>7
<1>8. CASE Hexlify
    <2> DEFINE d == Digest(ids[count])
    <2>1. wpc = "digest" /\ wpc' = "end" /\ count' = count /\ Push(d)
        BY <1>8 DEF Hexlify, Goto
    <2>2. d \in Seq(Chars) /\ Len(d) = DigestLen /\ \A j \in 1..DigestLen : d[j] = <<ids[count], j>>
        <3>1. count \in 1..Len(ids)
            BY <1>1, <2>1 DEF WriterFine, ArrayBegun
        <3>2. ids[count] \in Ids
            BY <1>1, <3>1
        <3>3. \A j \in 1..DigestLen : d[j] = <<ids[count], j>>
            BY DEF Digest
        <3> QED
            BY <3>2, <3>3, CharsOfManifest
    <2> HIDE DEF d
    <2>3. Emits(d)
        BY <1>1, <2>1, <2>2, PushEmits
    <2>4. ~broken' => Out' = Out + DigestLen /\ Id(Out + 1) = count /\ Off(Out + 1) = 2
        BY <1>1, <2>1, <2>2, <2>3, EmitsOut DEF WriterAt
    <2>5. ASSUME ~broken', NEW k \in 0..DigestLen
          PROVE  Id(Out + 1 + k) = count /\ Off(Out + 1 + k) = 2 + k
        <3>1. k \in Nat /\ Off(Out + 1) + k <= DigestLen + 2
            BY <1>2, <2>4, <2>5
        <3> QED
            BY <1>2, <2>4, <2>5, <3>1, PlacesWithin
    <2>6. ASSUME ~broken', NEW j \in 1..DigestLen
          PROVE  d[j] = Piece(Out + j) /\ Id(Out + j) <= count'
        <3>1. j - 1 \in 0..DigestLen /\ Out + 1 + (j - 1) = Out + j /\ Out + j \in Nat \ {0}
              /\ 2 + (j - 1) = j + 1 /\ j + 1 \in 2..(DigestLen + 1) /\ j + 1 - 1 = j
            BY <1>2
        <3>2. Id(Out + j) = count /\ Off(Out + j) = j + 1
            BY <2>5, <2>6, <3>1
        <3>3. Piece(Out + j) = <<ids[count], j>>
            BY <3>1, <3>2, Pieces
        <3> QED
            BY <1>1, <1>4, <2>2, <3>2, <3>3
    <2>7. Texted'
        BY <1>1, <1>4, <2>1, <2>2, <2>3, <2>6, TextedOn
    <2>8. ASSUME ~broken' PROVE Id(Out' + 1) = count' /\ Off(Out' + 1) = DigestLen + 2
        <3>1. DigestLen \in 0..DigestLen /\ Out + 1 + DigestLen = Out' + 1 /\ 2 + DigestLen = DigestLen + 2
            BY <1>2, <2>4, <2>8
        <3> QED
            BY <2>1, <2>5, <2>8, <3>1
    <2>9. WriterAt'
        BY <2>1, <2>8 DEF WriterAt
    <2> QED
        BY <2>2, <2>3, <2>7, <2>9
<1>9. CASE CloseQuote
    <2>1. wpc = "end" /\ wpc' = "value" /\ count' = count /\ Put(Quote) /\ count # 0
        BY <1>1, <1>9 DEF CloseQuote, Goto, WriterFine, ArrayBegun
    <2>2. Emits(<<Quote>>)
        BY <1>1, <1>3, <2>1, PutEmits
    <2>3. ~broken' => Out' = Out + 1 /\ Id(Out + 1) = count /\ Off(Out + 1) = DigestLen + 2
        BY <1>1, <1>3, <2>1, <2>2, MarkOut DEF WriterAt
    <2>4. ~broken' => Quote = Piece(Out + 1) /\ Id(Out + 1) <= count'
        BY <1>1, <1>2, <2>1, <2>3, Pieces
    <2>5. Texted'
        BY <1>1, <1>3, <1>4, <2>1, <2>2, <2>4, TextedMark
    <2>6. ~broken' => Id(Out' + 1) = count' + 1 /\ Off(Out' + 1) = 0
        BY <1>2, <2>1, <2>3, Places
    <2>7. WriterAt'
        BY <2>1, <2>6 DEF WriterAt, After
    <2> QED
        BY <1>3, <2>2, <2>5, <2>7
<1>10. CASE EndArray
    <2>1. wpc = "value" /\ count = Len(ids) /\ wpc' = "flush" /\ count' = count /\ Put(RBracket)
        BY <1>10 DEF EndArray, Goto
    <2>2. Emits(<<RBracket>>)
        BY <1>1, <1>3, <2>1, PutEmits
    <2>3. ~broken' => Out' = Out + 1 /\ After(Out + 1, count) /\ Len(file') < Out'
        <3>1. Len(file') \in Nat
            BY <1>1 DEF StreamFine
        <3> QED
            BY <1>1, <1>2, <1>3, <2>1, <2>2, <3>1, MarkOut DEF WriterAt
    <2>4. ~broken' => Out + 1 = Out' /\ Closes(Out + 1, RBracket)
        BY <2>1, <2>3 DEF Closes
    <2>5. Texted'
        BY <1>1, <1>3, <1>4, <2>1, <2>2, <2>4, TextedMark
    <2>6. ASSUME ~broken' PROVE Char(Out)' = RBracket
        <3>1. PICK p : p = Out'
            OBVIOUS
        <3>2. p \in 1..Out' /\ ~(p <= Out) /\ p - Out = 1
            BY <1>2, <2>3, <2>6, <3>1
        <3>3. Char(p)' = RBracket
            BY <1>3, <2>2, <2>6, <3>2 DEF Emits
        <3> QED
            BY <3>1, <3>3 DEF Char
    <2>7. WriterAt'
        BY <2>1, <2>3, <2>6 DEF WriterAt
    <2> QED
        BY <1>3, <2>2, <2>5, <2>7
<1>11. CASE FinalFlush
    <2>1. wpc = "flush" /\ wpc' = "closed" /\ count' = count /\ Flush
        BY <1>11 DEF FinalFlush, Goto
    <2>2. Emits(<< >>) /\ wbuf' = << >> /\ << >> \in Seq(Chars) /\ Len(<< >>) = 0
        BY <1>1, <2>1, FlushEmits
    <2>3. Texted' /\ (~broken' => ~broken /\ Out' = Out /\ Len(file') <= Out)
        BY <1>1, <1>4, <2>1, <2>2, TextedNothing
    <2>4. ASSUME ~broken'
          PROVE  Out' = Len(file') /\ Len(file') > 0 /\ file'[Len(file')] = RBracket
        <3>1. ~broken /\ Out' = Out /\ Len(file) < Out /\ Char(Out) = RBracket
            BY <2>1, <2>3, <2>4 DEF WriterAt
        <3>2. Out' = Len(file')
            BY <1>1, <2>2 DEF Out, StreamFine
        <3>3. PICK p : p = Out
            OBVIOUS
        <3>4. p \in 1..Out' /\ p <= Out
            BY <1>2, <3>1, <3>3
        <3>5. Char(p)' = RBracket
            BY <2>2, <2>4, <3>1, <3>3, <3>4 DEF Emits
        <3>6. file'[p] = RBracket
            BY <3>1, <3>2, <3>3, <3>4, <3>5 DEF Char
        <3>7. p = Len(file')
            BY <3>1, <3>2, <3>3
        <3>8. Len(file') > 0
            BY <1>2, <3>4, <3>7
        <3> QED
            BY <3>2, <3>6, <3>7, <3>8
    <2>5. WriterAt'
        BY <2>1, <2>4 DEF WriterAt
    <2> QED
        BY <2>2, <2>3, <2>5
<1> QED
    BY <1>5, <1>6, <1>7, <1>8, <1>9, <1>10, <1>11 DEF Appending

------------------------------------------------------------------------------
\* The character at hand is of the file, or the NUL behind it.
LEMMA AtHand ==
    ASSUME WriterFine, ReaderFine, Holds, rpc # "none"
    PROVE  /\ Held \in Nat /\ Pos \in Nat \ {0} /\ Pos <= count_ + 1 /\ Pos <= Len(file) + 1
           /\ Len(file) \in Nat /\ count_ \in Nat /\ count_ <= Len(file)
           /\ \/ Pos \in 1..Len(file) /\ Peek = file[Pos]
              \/ Pos = count_ + 1 /\ eof_ /\ Peek = Nul
<1>1. /\ current \in 1..Len(rbuf) /\ Len(rbuf) \in Nat /\ Len(file) \in Nat
      /\ count_ \in 0..Len(file) /\ eof_ \in BOOLEAN
    BY DEF ReaderFine, ReaderPlaced, WriterFine, StreamFine
<1>2. /\ Held <= count_ /\ \A j \in 1..Held : rbuf[j] = file[count_ - Held + j]
      /\ eof_ => rbuf[Len(rbuf)] = Nul
    BY DEF Holds
<1>3. Held \in Nat /\ (eof_ => Held = Len(rbuf) - 1) /\ (~eof_ => Held = Len(rbuf))
    BY <1>1 DEF Held
<1>4. Pos = count_ - Held + current
    BY DEF Pos
<1>5. Pos \in Nat \ {0} /\ Pos <= count_ + 1
    BY <1>1, <1>2, <1>3, <1>4
<1>6. CASE current \in 1..Held
    <2>1. Peek = file[Pos]
        BY <1>2, <1>4, <1>6 DEF Peek
    <2>2. Pos \in 1..Len(file)
        BY <1>1, <1>3, <1>4, <1>5, <1>6
    <2> QED
        BY <1>1, <1>3, <1>5, <2>1, <2>2
<1>7. CASE current \notin 1..Held
    <2>1. eof_ /\ current = Len(rbuf) /\ current = Held + 1
        BY <1>1, <1>3, <1>7
    <2>2. Peek = Nul
        BY <1>2, <2>1 DEF Peek
    <2>3. Pos = count_ + 1
        BY <1>1, <1>3, <1>4, <2>1
    <2> QED
        BY <1>1, <1>3, <1>5, <2>1, <2>2, <2>3
<1> QED
    BY <1>6, <1>7

\* What the reader keeps while the writer goes on.
LEMMA ReaderStays ==
    ASSUME WriterFine, ReaderFine, Holds, Parsed, UNCHANGED readerVars, wpc # "closed",
           Len(file) <= Len(file'), \A p \in 1..Len(file) : file'[p] = file[p],
           count' \in Nat, count <= count', \A i \in 1..count : ids'[i] = ids[i]
    PROVE  Holds' /\ Parsed'
<1>1. Held' = Held /\ Pos' = Pos /\ UNCHANGED <<rbuf, current, count_, eof_, rpc, str, parsed, early>>
    <2>1. UNCHANGED <<rbuf, current, count_, eof_, rpc, str, parsed, early>>
        BY DEF readerVars, streamVars
    <2>2. Held' = Held
        BY <2>1 DEF Held
    <2> QED
        BY <2>1, <2>2 DEF Pos
<1>2. count \in Nat /\ Len(parsed) \in Nat
    BY DEF WriterFine, ReaderFine
<1>3. CASE rpc = "none"
    <2>1. Holds'
        BY <1>1, <1>3 DEF Holds
    <2>2. Parsed'
        BY <1>1, <1>2, <1>3 DEF Parsed
    <2> QED
        BY <2>1, <2>2
<1>4. CASE rpc # "none"
    <2>1. early
        BY <1>4 DEF Holds
    <2>2. Held \in Nat /\ count_ \in Nat /\ count_ <= Len(file) /\ Len(file) \in Nat /\ Held <= count_
          /\ Pos \in Nat \ {0} /\ Pos <= Len(file) + 1
        BY <1>4, AtHand DEF Holds
    <2>3. ASSUME NEW j \in 1..Held PROVE rbuf[j] = file'[count_ - Held + j]
        <3>1. count_ - Held + j \in 1..Len(file)
            BY <2>2
        <3> QED
            BY <1>4, <3>1 DEF Holds
    <2>4. Holds'
        BY <1>1, <1>4, <2>1, <2>2, <2>3 DEF Holds
    <2>5. rpc \in {"first", "string", "more", "element"} => Pos > 1 /\ file'[Pos - 1] # RBracket
        <3>1. Pos > 1 => Pos - 1 \in 1..Len(file)
            BY <2>2
        <3> QED
            BY <3>1 DEF Parsed
    <2>6. /\ Len(parsed) <= count' /\ \A i \in 1..Len(parsed) : parsed[i] = Digest(ids'[i])
        <3>1. Len(parsed) <= count /\ \A i \in 1..Len(parsed) : parsed[i] = Digest(ids[i])
            BY DEF Parsed
        <3>2. \A i \in 1..Len(parsed) : i \in 1..count
            BY <1>2, <3>1
        <3> QED
            BY <1>2, <3>1, <3>2
    <2>7. rpc = "string" =>
              /\ Len(parsed) < count' /\ Id(Pos) = Len(parsed) + 1 /\ Off(Pos) = 2 + Len(str)
              /\ Len(str) <= DigestLen
              /\ \A i \in 1..Len(str) : str[i] = <<ids'[Len(parsed) + 1], i>>
        <3>1. SUFFICES ASSUME rpc = "string" 
                       PROVE  /\ Len(parsed) < count'
                              /\ \A i \in 1..Len(str) : str[i] = <<ids'[Len(parsed) + 1], i>>
            BY DEF Parsed
        <3>2. Len(parsed) < count /\ \A i \in 1..Len(str) : str[i] = <<ids[Len(parsed) + 1], i>>
            BY <3>1 DEF Parsed
        <3>3. Len(parsed) + 1 \in 1..count
            BY <1>2, <3>2
        <3> QED
            BY <1>2, <3>2, <3>3
    <2>8. rpc # "accepted"
        BY DEF Parsed
    <2>9. /\ rpc \in {"none", "array", "first"} => parsed = << >>
          /\ rpc = "none" => count_ = 0
          /\ rpc = "array" => Pos = 1
          /\ rpc = "first" => Pos = 2
          /\ rpc = "more" => parsed # << >> /\ Id(Pos) = Len(parsed) + 1 /\ Off(Pos) = 0
          /\ rpc = "element" => parsed # << >> /\ Id(Pos) = Len(parsed) + 1 /\ Off(Pos) = 1
        BY DEF Parsed
    <2>10. Id(Pos)' = Id(Pos) /\ Off(Pos)' = Off(Pos) /\ PieceLen' = PieceLen
        BY <1>1 DEF Id, Off
    <2>11. Parsed'
        BY <1>1, <2>1, <2>5, <2>6, <2>7, <2>8, <2>9, <2>10, Zenon DEF Parsed
    <2> QED
        BY <2>4, <2>11
<1> QED
    BY <1>3, <1>4

\* A character that is read is of a piece, or the last of a complete array.
LEMMA WhatIsRead ==
    ASSUME WriterFine, ReaderFine, TextInv, rpc # "none", Peek # Nul
    PROVE  /\ Pos \in 1..Len(file) /\ Peek = file[Pos]
           /\ \/ Begun(Pos, Peek) /\ Peek # RBracket
              \/ wpc = "closed" /\ Closes(Pos, Peek)
<1>1. /\ Pos \in 1..Len(file) /\ Peek = file[Pos] /\ Pos \in Nat \ {0} /\ Len(file) \in Nat
    BY AtHand DEF TextInv
<1>2. Len(file) <= Out /\ Out \in Nat
    BY StreamParts DEF WriterFine
<1>3. Pos \in 1..Sent /\ Char(Pos) = Peek
    BY <1>1, <1>2 DEF Sent, Char
<1>4. CASE Begun(Pos, Peek)
    <2>1. Peek # RBracket
        BY <1>1, <1>4, Pieces DEF Begun
    <2> QED
        BY <1>1, <1>4, <2>1
<1>5. CASE ~Begun(Pos, Peek)
    <2>1. Pos = Sent /\ ~broken /\ wpc \in {"flush", "closed"} /\ Closes(Pos, Peek)
        BY <1>3, <1>5 DEF TextInv, Texted
    <2>2. wpc # "flush"
        <3>1. ASSUME wpc = "flush" PROVE FALSE
            <4>1. Len(file) < Out /\ Sent = Out
                BY <2>1, <3>1 DEF TextInv, WriterAt, Sent
            <4> QED
                BY <1>1, <1>2, <2>1, <4>1
        <3> QED
            BY <3>1
    <2> QED
        BY <1>1, <2>1, <2>2
<1> QED
    BY <1>4, <1>5

\* What fread brings is of the file, and the last of it if the NUL follows.
LEMMA Refilled ==
    ASSUME WriterFine, ReaderFine, Refill, UNCHANGED <<file, wpc>>, rpc' # "none",
           ~early' => wpc = "closed"
    PROVE  Holds' /\ Pos' = count_ + 1
<1> DEFINE last == IF Len(file) - count_ < BufSize THEN Len(file) ELSE count_ + BufSize
           F == Fetched
           n == Len(F)
<1>1. /\ file \in Seq(Chars) /\ Len(file) \in Nat /\ count_ \in 0..Len(file) /\ count_ \in Nat
      /\ last \in Nat /\ count_ <= last /\ last <= Len(file) /\ last - count_ <= BufSize
      /\ BufSize \in Nat /\ (last - count_ < BufSize => last = Len(file))
    BY LengthsAssumption DEF WriterFine, ReaderFine, StreamFine
<1>2. F = SubSeq(file, count_ + 1, last)
    BY DEF Fetched
<1> HIDE DEF last, F
<1>3. /\ F \in Seq(Chars) /\ n = last - count_ /\ n \in Nat
      /\ \A j \in 1..n : F[j] = file[count_ + j]
    <2>1. \A i \in (count_ + 1)..last : file[i] \in Chars
        BY <1>1, ElementOfSeq
    <2>2. /\ SubSeq(file, count_ + 1, last) \in Seq(Chars)
          /\ Len(SubSeq(file, count_ + 1, last)) = last - count_
          /\ \A j \in 1..(last - count_) : SubSeq(file, count_ + 1, last)[j] = file[count_ + j]
        BY <2>1, <1>1, SubSeqProperties
    <2>3. /\ F \in Seq(Chars) /\ Len(F) = last - count_
          /\ \A j \in 1..(last - count_) : F[j] = file[count_ + j]
        BY <1>2, <2>2, Zenon
    <2>4. last - count_ \in Nat
        BY <1>1
    <2> QED
        BY <2>3, <2>4, Zenon
<1>4. /\ current' = 1 /\ count_' = count_ + n /\ eof_' \in BOOLEAN /\ (eof_' => n < BufSize)
      /\ eof_' => Len(rbuf') = n + 1 /\ rbuf'[n + 1] = Nul
      /\ ~eof_' => Len(rbuf') = n
      /\ \A j \in 1..n : rbuf'[j] = F[j]
    <2>1. /\ count_' = count_ + n /\ current' = 1
          /\ eof_' = (n < BufSize)
          /\ rbuf' = IF n < BufSize THEN Append(F, Nul) ELSE F
        BY DEF Refill, F
    <2>2. Len(Append(F, Nul)) = n + 1 /\ Append(F, Nul)[n + 1] = Nul /\ \A j \in 1..n : Append(F, Nul)[j] = F[j]
        BY <1>3
    <2>3. Len(F) = n
        OBVIOUS
    <2> HIDE DEF n
    <2>4. eof_' \in BOOLEAN /\ (eof_' <=> n < BufSize)
        <3>1. eof_' \in BOOLEAN
            BY RefillKeeps
        <3>2. eof_' <=> n < BufSize
            BY <2>1, Zenon
        <3> QED
            BY <3>1, <3>2
    <2>5. CASE n < BufSize
        <3>1. rbuf' = Append(F, Nul)
            BY <2>1, <2>5
        <3> QED
            BY <2>1, <2>2, <2>4, <2>5, <3>1, Zenon
    <2>6. CASE ~(n < BufSize)
        <3>1. rbuf' = F
            BY <2>1, <2>6
        <3> QED
            BY <2>1, <2>3, <2>4, <2>6, <3>1, Zenon
    <2> QED
        BY <2>5, <2>6
<1>5. Held' = n
    <2>1. Held' = IF eof_' THEN Len(rbuf') - 1 ELSE Len(rbuf')
        BY DEF Held
    <2> QED
        BY <1>3, <1>4, <2>1
<1>6. Pos' = count_ + 1
    <2>1. Pos' = count_' - Held' + current'
        BY DEF Pos
    <2> QED
        BY <1>1, <1>3, <1>4, <1>5, <2>1
<1>7. /\ Held' <= count_' /\ count_' - Held' = count_
      /\ eof_' => Len(rbuf') > 0 /\ rbuf'[Len(rbuf')] = Nul /\ count_' = Len(file)
    <2>1. Held' <= count_' /\ count_' - Held' = count_
        BY <1>1, <1>3, <1>4, <1>5
    <2>2. ASSUME eof_' PROVE Len(rbuf') > 0 /\ rbuf'[Len(rbuf')] = Nul /\ count_' = Len(file)
        <3>1. Len(rbuf') = n + 1 /\ rbuf'[n + 1] = Nul /\ n < BufSize
            BY <1>4, <2>2
        <3>2. n + 1 > 0 /\ count_ + n = Len(file)
            BY <1>1, <1>3, <3>1
        <3> QED
            BY <1>4, <3>1, <3>2
    <2> QED
        BY <2>1, <2>2
<1>8. \A j \in 1..Held' : rbuf'[j] = file[count_' - Held' + j]
    BY <1>3, <1>4, <1>5, <1>7
<1> QED
    BY <1>6, <1>7, <1>8 DEF Holds

\* The parser goes on by one character.
LEMMA Advanced ==
    ASSUME WriterFine, ReaderFine, Holds, rpc # "none", Peek # Nul, Advance,
           UNCHANGED <<file, wpc, early>>, rpc' # "none"
    PROVE  Holds' /\ Pos' = Pos + 1
<1>1. /\ current \in 1..Len(rbuf) /\ Len(rbuf) \in Nat /\ count_ \in Nat /\ eof_ \in BOOLEAN /\ Held \in Nat
    BY AtHand DEF ReaderFine, ReaderPlaced
<1>2. CASE current < Len(rbuf)
    <2>1. current' = current + 1 /\ UNCHANGED <<rbuf, count_, eof_>>
        BY <1>2 DEF Advance
    <2>2. Held' = Held
        BY <2>1 DEF Held
    <2>3. Holds'
        BY <2>1, <2>2 DEF Holds
    <2>4. Pos' = count_ - Held + (current + 1) /\ Pos = count_ - Held + current
        BY <2>1, <2>2 DEF Pos
    <2> HIDE DEF Holds
    <2> QED
        BY <1>1, <2>3, <2>4
<1>3. CASE ~(current < Len(rbuf))
    <2>1. current = Len(rbuf)
        BY <1>1, <1>3
    <2>2. ~eof_
        BY <2>1 DEF Holds, Peek
    <2>3. Refill
        BY <1>3, <2>2 DEF Advance
    <2>4. ~early' => wpc = "closed"
        BY DEF Holds
    <2>5. Holds' /\ Pos' = count_ + 1
        BY <2>3, <2>4, Refilled
    <2>6. Pos = count_
        <3>1. Held = Len(rbuf) /\ Pos = count_ - Held + current
            BY <2>2 DEF Held, Pos
        <3> QED
            BY <1>1, <2>1, <3>1
    <2> QED
        BY <2>5, <2>6
<1> QED
    BY <1>2, <1>3

\* The reader changes nothing of the writer's.
LEMMA ReaderReads ==
    ASSUME Reader
    PROVE  /\ UNCHANGED <<ids, count, wbuf, wpc, file, broken, early>> /\ rpc # "none" /\ rpc' # "none"
           /\ ~Reject => Advance
BY DEF Reader, Array, StringBegins, StringGoesOn, StringEnds, More, Done, Reject, Take, writerVars

\* What each step of the parser leaves behind.
LEMMA ReaderTexts ==
    ASSUME WriterFine, ReaderFine, TextInv, Reader
    PROVE  Holds' /\ Parsed'
<1>1. /\ UNCHANGED <<ids, count, wpc, file, broken, early>> /\ rpc # "none" /\ rpc' # "none"
      /\ count \in Nat /\ Len(parsed) \in Nat /\ Len(str) \in Nat /\ DigestLen \in Nat \ {0}
      /\ Pos \in Nat \ {0} /\ Len(ids) \in Nat /\ count <= Len(ids) /\ ids \in Seq(Ids)
      /\ parsed \in Seq(Seq(Chars)) /\ str \in Seq(Chars)
    BY ReaderReads, AtHand, LengthsAssumption DEF TextInv, WriterFine, ReaderFine
<1>2. Id(Pos) \in Nat \ {0} /\ Off(Pos) \in 0..(DigestLen + 2) /\ Id(2) = 1 /\ Off(2) = 1 /\ Id(1) = 1
    BY <1>1, Places
<1>3. ASSUME Peek # Nul, ~Reject
      PROVE  /\ Holds' /\ Pos' = Pos + 1 /\ Pos > 0 /\ Pos' - 1 = Pos /\ Pos' > 1
             /\ Peek = file[Pos]
             /\ \/ Begun(Pos, Peek) /\ Peek # RBracket
                \/ wpc = "closed" /\ Closes(Pos, Peek)
    <2>1. Holds' /\ Pos' = Pos + 1
        BY <1>1, <1>3, ReaderReads, Advanced DEF TextInv
    <2> QED
        BY <1>1, <1>3, <2>1, WhatIsRead
<1>4. /\ Len(parsed) <= count /\ \A i \in 1..Len(parsed) : parsed[i] = Digest(ids[i])
    BY DEF TextInv, Parsed
<1>5. ASSUME Closes(Pos, Peek)
      PROVE  Peek = RBracket /\ ((Pos = 2 /\ Len(ids) = 0) \/ (Id(Pos) = Len(ids) + 1 /\ Off(Pos) = 0))
    BY <1>1, <1>5 DEF Closes, After
<1>6. CASE Array
    <2>1. rpc = "array" /\ rpc' = "first" /\ Peek = LBracket /\ UNCHANGED <<str, parsed>> /\ ~Reject
        BY <1>6 DEF Array, Take, Reject
    <2>2. Peek # Nul /\ Peek # RBracket /\ Pos = 1 /\ parsed = << >>
        BY <2>1, Marks DEF TextInv, Parsed
    <2>3. Pos' = 2
        BY <1>3, <2>1, <2>2
    <2>4. Parsed'
        BY <1>1, <1>3, <1>4, <2>1, <2>2, <2>3 DEF Parsed
    <2> QED
        BY <1>3, <2>1, <2>2, <2>4
<1>7. CASE StringBegins
    <2>1. rpc \in {"first", "element"} /\ rpc' = "string" /\ Peek = Quote /\ str' = << >>
          /\ UNCHANGED parsed /\ ~Reject
        BY <1>7 DEF StringBegins, Take, Reject
    <2>2. Peek # Nul /\ Peek # RBracket
        BY <2>1, Marks
    <2>3. Begun(Pos, Peek)
        BY <1>3, <1>5, <2>1, <2>2
    <2>4. Off(Pos) = 1 /\ Id(Pos) = Len(parsed) + 1 /\ Pos # 1
        <3>1. rpc = "first" => Pos = 2 /\ Len(parsed) = 0
            BY DEF TextInv, Parsed
        <3> QED
            BY <1>1, <1>2, <2>1, <3>1 DEF TextInv, Parsed
    <2>5. Len(parsed) < count
        BY <1>1, <2>3, <2>4 DEF Begun
    <2>6. Id(Pos + 1) = Len(parsed) + 1 /\ Off(Pos + 1) = 2
        BY <1>1, <2>4, Places
    <2>7. PICK p : p = Pos + 1
        OBVIOUS
    <2>8. Pos' = p /\ Id(p) = Len(parsed) + 1 /\ Off(p) = 2 /\ Len(str') = 0 /\ p > 1 /\ p - 1 = Pos
        BY <1>3, <2>1, <2>2, <2>6, <2>7
    <2>9. Parsed'
        BY <1>1, <1>3, <1>4, <2>1, <2>2, <2>5, <2>8 DEF Parsed, Id, Off
    <2> QED
        BY <1>3, <2>1, <2>2, <2>9
<1>8. ASSUME rpc = "string", Peek # Nul, ~Reject
      PROVE  /\ Len(parsed) < count /\ Id(Pos) = Len(parsed) + 1 /\ Off(Pos) = 2 + Len(str)
             /\ Len(str) <= DigestLen /\ \A i \in 1..Len(str) : str[i] = <<ids[Len(parsed) + 1], i>>
             /\ Peek = Piece(Pos) /\ Peek # RBracket
             /\ Peek = Quote <=> Len(str) = DigestLen
             /\ Peek # Quote => Peek = <<ids[Len(parsed) + 1], Len(str) + 1>>
    <2>1. /\ Len(parsed) < count /\ Id(Pos) = Len(parsed) + 1 /\ Off(Pos) = 2 + Len(str)
          /\ Len(str) <= DigestLen /\ \A i \in 1..Len(str) : str[i] = <<ids[Len(parsed) + 1], i>>
        BY <1>8 DEF TextInv, Parsed
    <2>2. ~Closes(Pos, Peek)
        BY <1>1, <1>2, <1>5, <2>1
    <2>3. Peek = Piece(Pos) /\ Peek # RBracket
        BY <1>3, <1>8, <2>2 DEF Begun
    <2>4. CASE Len(str) = DigestLen
        BY <1>1, <2>1, <2>3, <2>4, Pieces
    <2>5. CASE Len(str) # DigestLen
        <3>1. Off(Pos) \in 2..(DigestLen + 1) /\ Off(Pos) - 1 = Len(str) + 1
            BY <1>1, <2>1, <2>5
        <3> QED
            BY <1>1, <2>1, <2>3, <2>5, <3>1, Pieces
    <2> QED
        BY <2>4, <2>5
<1>9. CASE StringGoesOn
    <2>1. /\ rpc = "string" /\ rpc' = "string" /\ Peek # Nul /\ Peek # Quote /\ ~Reject
          /\ str' = Append(str, Peek) /\ UNCHANGED parsed
        BY <1>9 DEF StringGoesOn, Take, Reject
    <2>2. /\ Len(str) < DigestLen /\ Off(Pos) = 2 + Len(str) /\ Id(Pos) = Len(parsed) + 1
          /\ Len(parsed) < count /\ Peek # RBracket
          /\ Peek = <<ids[Len(parsed) + 1], Len(str) + 1>>
          /\ \A i \in 1..Len(str) : str[i] = <<ids[Len(parsed) + 1], i>>
        BY <1>1, <1>8, <2>1
    <2>3. Id(Pos + 1) = Len(parsed) + 1 /\ Off(Pos + 1) = 2 + (Len(str) + 1)
        <3>1. Off(Pos) < DigestLen + 2 /\ 2 + Len(str) + 1 = 2 + (Len(str) + 1)
            BY <1>1, <2>2
        <3>2. Id(Pos + 1) = Id(Pos) /\ Off(Pos + 1) = Off(Pos) + 1
            BY <1>1, <3>1, Places
        <3> QED
            BY <2>2, <3>1, <3>2
    <2>4. Len(str') = Len(str) + 1 /\ \A i \in 1..Len(str') : str'[i] = <<ids[Len(parsed) + 1], i>>
        <3>1. PICK c : c = Peek
            OBVIOUS
        <3>2. str' = Append(str, c) /\ c = <<ids[Len(parsed) + 1], Len(str) + 1>>
            BY <2>1, <2>2, <3>1
        <3>3. /\ Len(Append(str, c)) = Len(str) + 1 /\ Append(str, c)[Len(str) + 1] = c
              /\ \A i \in 1..Len(str) : Append(str, c)[i] = str[i]
            BY <1>1
        <3>4. Len(str') = Len(str) + 1
            BY <3>2, <3>3, Zenon
        <3>5. ASSUME NEW i \in 1..(Len(str) + 1) PROVE str'[i] = <<ids[Len(parsed) + 1], i>>
            <4>1. CASE i \in 1..Len(str)
                BY <2>2, <3>2, <3>3, <4>1
            <4>2. CASE i \notin 1..Len(str)
                <5>1. i = Len(str) + 1
                    BY <1>1, <4>2
                <5> QED
                    BY <3>2, <3>3, <5>1, Zenon
            <4> QED
                BY <4>1, <4>2
        <3> QED
            BY <3>4, <3>5
    <2>5. PICK p : p = Pos + 1
        OBVIOUS
    <2>6. /\ Pos' = p /\ Id(p) = Len(parsed) + 1 /\ Off(p) = 2 + Len(str') /\ Len(str') <= DigestLen
          /\ p > 1 /\ p - 1 = Pos /\ file[p - 1] # RBracket
        <3>1. Pos' = Pos + 1 /\ Pos + 1 > 1 /\ Pos + 1 - 1 = Pos /\ Peek = file[Pos]
            BY <1>1, <1>3, <2>1
        <3>2. Len(str') <= DigestLen
            BY <1>1, <2>2, <2>4
        <3>3. Peek # RBracket
            BY <2>2
        <3>4. 2 + Len(str') = 2 + (Len(str) + 1)
            BY <2>4
        <3>5. Pos' = p /\ p > 1 /\ p - 1 = Pos
            BY <1>1, <2>5, <3>1
        <3>6. file[p - 1] # RBracket
            BY <3>1, <3>3, <3>5, Zenon
        <3>7. Id(p) = Len(parsed) + 1 /\ Off(p) = 2 + Len(str')
            BY <2>3, <2>5, <3>4, Zenon
        <3> QED
            BY <3>2, <3>5, <3>6, <3>7, Zenon
    <2>7. Parsed'
        BY <1>1, <1>4, <2>1, <2>2, <2>4, <2>6 DEF Parsed, Id, Off
    <2> QED
        BY <1>3, <2>1, <2>7
<1>10. CASE StringEnds
    <2>1. /\ rpc = "string" /\ rpc' = "more" /\ Peek = Quote /\ Peek # Nul /\ ~Reject
          /\ parsed' = Append(parsed, str)
        BY <1>10, Marks DEF StringEnds, Take, Reject
    <2>2. /\ Len(str) = DigestLen /\ Off(Pos) = DigestLen + 2 /\ Id(Pos) = Len(parsed) + 1
          /\ Len(parsed) < count /\ Peek # RBracket
          /\ \A i \in 1..Len(str) : str[i] = <<ids[Len(parsed) + 1], i>>
        BY <1>1, <1>8, <2>1
    <2>3. str = Digest(ids[Len(parsed) + 1])
        <3>1. str = [i \in 1..DigestLen |-> str[i]]
            BY <1>1, <2>2
        <3> QED
            BY <2>2, <3>1 DEF Digest
    <2>4. /\ Len(parsed') = Len(parsed) + 1 /\ parsed' # << >>
          /\ \A i \in 1..Len(parsed') : parsed'[i] = Digest(ids[i])
        <3>1. PICK s : s = str
            OBVIOUS
        <3>2. parsed' = Append(parsed, s) /\ s = Digest(ids[Len(parsed) + 1]) /\ s \in Seq(Chars)
            BY <1>1, <2>1, <2>3, <3>1
        <3>3. /\ Len(Append(parsed, s)) = Len(parsed) + 1 /\ Append(parsed, s)[Len(parsed) + 1] = s
              /\ \A i \in 1..Len(parsed) : Append(parsed, s)[i] = parsed[i]
              /\ Append(parsed, s) # << >>
            BY <1>1, <3>2
        <3>4. Len(parsed') = Len(parsed) + 1 /\ parsed' # << >>
            BY <3>2, <3>3, Zenon
        <3>5. ASSUME NEW i \in 1..(Len(parsed) + 1) PROVE parsed'[i] = Digest(ids[i])
            <4>1. CASE i \in 1..Len(parsed)
                BY <1>4, <3>2, <3>3, <4>1
            <4>2. CASE i \notin 1..Len(parsed)
                <5>1. i = Len(parsed) + 1
                    BY <1>1, <4>2
                <5> QED
                    BY <3>2, <3>3, <5>1, Zenon
            <4> QED
                BY <4>1, <4>2
        <3> QED
            BY <3>4, <3>5
    <2>5. Id(Pos + 1) = Len(parsed) + 1 + 1 /\ Off(Pos + 1) = 0
        <3>1. ~(Off(Pos) < DigestLen + 2)
            BY <1>1, <2>2
        <3>2. Id(Pos + 1) = Id(Pos) + 1 /\ Off(Pos + 1) = 0
            BY <1>1, <3>1, Places
        <3> QED
            BY <2>2, <3>2
    <2>6. PICK p : p = Pos + 1
        OBVIOUS
    <2>7. /\ Pos' = p /\ Id(p) = Len(parsed') + 1 /\ Off(p) = 0
          /\ p > 1 /\ p - 1 = Pos /\ file[p - 1] # RBracket /\ Len(parsed') <= count
        BY <1>1, <1>3, <2>1, <2>2, <2>4, <2>5, <2>6
    <2>8. Parsed'
        BY <1>1, <2>1, <2>4, <2>7 DEF Parsed, Id, Off
    <2> QED
        BY <1>3, <2>1, <2>8
<1>11. CASE More
    <2>1. rpc = "more" /\ rpc' = "element" /\ Peek = Comma /\ UNCHANGED <<str, parsed>> /\ ~Reject
        BY <1>11 DEF More, Take, Reject
    <2>2. Peek # Nul /\ Peek # RBracket
        BY <2>1, Marks
    <2>3. parsed # << >> /\ Id(Pos) = Len(parsed) + 1 /\ Off(Pos) = 0
        BY <2>1 DEF TextInv, Parsed
    <2>4. Id(Pos + 1) = Len(parsed) + 1 /\ Off(Pos + 1) = 1
        BY <1>1, <2>3, Places
    <2>5. PICK p : p = Pos + 1
        OBVIOUS
    <2>6. /\ Pos' = p /\ Id(p) = Len(parsed) + 1 /\ Off(p) = 1
          /\ p > 1 /\ p - 1 = Pos /\ file[p - 1] # RBracket
        BY <1>1, <1>3, <2>1, <2>2, <2>4, <2>5
    <2>7. Parsed'
        BY <1>1, <1>4, <2>1, <2>3, <2>6 DEF Parsed, Id, Off
    <2> QED
        BY <1>3, <2>1, <2>2, <2>7
<1>12. CASE Done
    <2>1. /\ rpc \in {"first", "more"} /\ rpc' = "accepted" /\ Peek = RBracket /\ UNCHANGED <<str, parsed>>
          /\ ~Reject
        BY <1>12 DEF Done, Take, Reject
    <2>2. Peek # Nul
        BY <2>1, Marks
    <2>3. wpc = "closed" /\ ((Pos = 2 /\ Len(ids) = 0) \/ (Id(Pos) = Len(ids) + 1 /\ Off(Pos) = 0))
        BY <1>3, <1>5, <2>1, <2>2
    <2>4. Len(parsed) = Len(ids)
        <3>1. rpc = "first" => Pos = 2 /\ Len(parsed) = 0
            BY DEF TextInv, Parsed
        <3>2. rpc = "more" => Id(Pos) = Len(parsed) + 1 /\ Off(Pos) = 0
            BY DEF TextInv, Parsed
        <3> QED
            BY <1>1, <1>2, <2>1, <2>3, <3>1, <3>2
    <2>5. Parsed'
        BY <1>1, <1>4, <2>1, <2>3, <2>4 DEF Parsed
    <2> QED
        BY <1>3, <2>1, <2>2, <2>5
<1>13. CASE Reject
    <2>1. rpc' = "rejected" /\ UNCHANGED <<rbuf, current, count_, eof_, str, parsed>>
        BY <1>13 DEF Reject, streamVars
    <2>2. Holds'
        <3>1. Held' = Held
            BY <2>1 DEF Held
        <3> QED
            BY <1>1, <2>1, <3>1 DEF TextInv, Holds
    <2>3. early \/ broken \/ wpc = "dead"
        <3>1. SUFFICES ASSUME ~early, ~broken PROVE FALSE
            OBVIOUS
        <3>2. wpc = "closed" /\ (eof_ => count_ = Len(file)) /\ Len(file) > 0 /\ file[Len(file)] = RBracket
            BY <1>1, <3>1 DEF TextInv, Holds, WriterAt
        <3>3. CASE Peek = Nul
            <4>1. Pos = Len(file) + 1 /\ Len(file) \in Nat
                <5>1. CASE Pos \in 1..Len(file) /\ Peek = file[Pos]
                    <6>1. Pos \in 1..Sent /\ Char(Pos) = Nul
                        BY <1>1, <3>1, <3>2, <3>3, <5>1, StreamParts DEF Sent, Char, WriterFine
                    <6>2. Begun(Pos, Nul) \/ Closes(Pos, Nul)
                        BY <6>1 DEF TextInv, Texted
                    <6> QED
                        BY <1>1, <6>2, Marks, Pieces DEF Begun, Closes
                <5> QED
                    BY <1>1, <3>2, <5>1, AtHand DEF TextInv
            <4>2. rpc \in {"array", "first", "string", "more", "element"}
                BY <1>13 DEF Reject
            <4>3. CASE rpc = "array"
                <5>1. Pos = 1
                    BY <4>3 DEF TextInv, Parsed
                <5> QED
                    BY <3>2, <4>1, <5>1
            <4>4. CASE rpc # "array"
                <5>1. file[Pos - 1] # RBracket
                    BY <4>2, <4>4 DEF TextInv, Parsed
                <5>2. Pos - 1 = Len(file)
                    BY <4>1
                <5> QED
                    BY <3>2, <5>1, <5>2
            <4> QED
                BY <4>3, <4>4
        <3>4. CASE Peek # Nul
            <4>1. Begun(Pos, Peek) \/ Closes(Pos, Peek)
                BY <1>1, <3>4, WhatIsRead
            <4>2. \/ Peek = Piece(Pos)
                  \/ Peek = RBracket /\ (Pos = 2 \/ (Off(Pos) = 0 /\ Id(Pos) = Len(ids) + 1 /\ Len(ids) # 0))
                BY <1>1, <4>1 DEF Begun, Closes, After
            <4>3. CASE rpc = "array" /\ Peek # LBracket
                <5>1. Pos = 1 /\ Piece(Pos) = LBracket
                    BY <4>3 DEF TextInv, Parsed, Piece
                <5> QED
                    BY <1>1, <1>2, <4>2, <4>3, <5>1
            <4>4. CASE rpc = "first" /\ Peek \notin {Quote, RBracket}
                <5>1. Pos = 2
                    BY <4>4 DEF TextInv, Parsed
                <5>2. Piece(Pos) = Quote
                    BY <1>1, <1>2, <5>1, Pieces
                <5> QED
                    BY <4>2, <4>4, <5>2
            <4>5. CASE rpc = "element" /\ Peek # Quote
                <5>1. Len(parsed) # 0 /\ Id(Pos) = Len(parsed) + 1 /\ Off(Pos) = 1
                    BY <1>1, <4>5 DEF TextInv, Parsed
                <5>2. Piece(Pos) = Quote
                    BY <1>1, <5>1, Pieces
                <5> QED
                    BY <1>1, <1>2, <4>2, <4>5, <5>1, <5>2
            <4>6. CASE rpc = "more" /\ Peek \notin {Comma, RBracket}
                <5>1. Off(Pos) = 0 /\ Pos > 1
                    BY <4>6 DEF TextInv, Parsed
                <5>2. Piece(Pos) = Comma
                    BY <1>1, <5>1, Pieces
                <5> QED
                    BY <4>2, <4>6, <5>2
            <4>7. CASE rpc = "string" /\ Peek = Quote /\ ~IsHex(str)
                <5>1. /\ Len(parsed) < count /\ Off(Pos) = 2 + Len(str) /\ Len(str) <= DigestLen
                      /\ \A i \in 1..Len(str) : str[i] = <<ids[Len(parsed) + 1], i>>
                    BY <4>7 DEF TextInv, Parsed
                <5>2. Peek = Piece(Pos)
                    BY <4>2, <4>7, Marks
                <5>3. Len(str) = DigestLen
                    <6>1. ASSUME Len(str) # DigestLen PROVE FALSE
                        <7>1. Off(Pos) \in 2..(DigestLen + 1)
                            BY <1>1, <5>1, <6>1
                        <7> QED
                            BY <1>1, <4>7, <5>2, <7>1, Pieces
                    <6> QED
                        BY <6>1
                <5>4. ids[Len(parsed) + 1] \in Ids
                    <6>1. Len(parsed) + 1 \in 1..Len(ids)
                        BY <1>1, <5>1
                    <6> QED
                        BY <1>1, <6>1
                <5>5. DOMAIN str = 1..DigestLen
                    BY <1>1, <5>3
                <5>6. \A i \in DOMAIN str : str[i] \in Digits
                    <6>1. ASSUME NEW i \in DOMAIN str PROVE str[i] \in Digits
                        <7>1. i \in 1..DigestLen /\ i \in 1..Len(str)
                            BY <5>3, <5>5
                        <7>2. str[i] = <<ids[Len(parsed) + 1], i>>
                            BY <5>1, <7>1
                        <7> HIDE DEF Pos
                        <7> QED
                            BY <5>4, <7>1, <7>2 DEF Digits
                    <6> QED
                        BY <6>1
                <5> QED
                    BY <4>7, <5>3, <5>6 DEF IsHex
            <4> QED
                BY <1>13, <3>4, <4>3, <4>4, <4>5, <4>6, <4>7 DEF Reject
        <3> QED
            BY <3>3, <3>4
    <2>4. Parsed'
        BY <1>1, <1>4, <2>1, <2>3 DEF Parsed
    <2> QED
        BY <2>2, <2>4
<1> QED
    BY <1>6, <1>7, <1>9, <1>10, <1>11, <1>12, <1>13 DEF Reader

------------------------------------------------------------------------------
\* The text, as long as nothing of it or of its reader changes.
LEMMA TextStays ==
    ASSUME WriterFine, ReaderFine, Texted, WriterAt, Holds, Parsed, UNCHANGED vars
    PROVE  Texted' /\ WriterAt' /\ Holds' /\ Parsed'
<1>1. UNCHANGED <<ids, count, wbuf, wpc, file, broken, rbuf, current, count_, eof_, rpc, str, parsed, early>>
    BY DEF vars, writerVars, readerVars, streamVars
<1>2. Texted' /\ WriterAt'
    BY <1>1 DEF Texted, WriterAt, Sent, Out, Char, Begun, Closes, After, Piece
<1>3. Holds' /\ Parsed'
    BY <1>1 DEF Holds, Parsed, Held, Pos
<1> QED
    BY <1>2, <1>3

\* The reader leaves the text alone.
LEMMA TextReadOnly ==
    ASSUME Texted, WriterAt, Ended, UNCHANGED <<ids, count, wbuf, wpc, file, broken, at>>
    PROVE  Texted' /\ WriterAt' /\ Ended'
<1>1. Texted'
    BY DEF Texted, Sent, Out, Char, Begun, Closes, After, Piece
<1>2. WriterAt'
    BY DEF WriterAt, Out, Char, After
<1> QED
    BY <1>1, <1>2 DEF Ended

\* Every step keeps what the text and its parse are known to be.
LEMMA NextText == Breaking /\ IInv /\ TextInv /\ [Next]_allVars => TextInv'
<1> SUFFICES ASSUME Breaking, IInv, TextInv, [Next]_allVars PROVE TextInv'
    OBVIOUS
<1>1. /\ WriterFine /\ ReaderFine /\ ThreadEndsFirst /\ StreamFine
      /\ Texted /\ WriterAt /\ Ended /\ Holds /\ Parsed
    BY IInvParts DEF TextInv, WriterFine
<1>2. count \in Nat /\ Len(ids) \in Nat /\ count <= Len(ids) /\ ids \in Seq(Ids)
    BY <1>1 DEF WriterFine
<1>3. CASE Construct \/ Assigning \/ Destroy \/ Destroyed
    <2>1. /\ StartArray \/ Appending \/ EndArray \/ FinalFlush
          /\ wpc # "closed" /\ UNCHANGED <<ids, readerVars>>
        BY <1>3 DEF Construct, Assigning, Destroy, Destroyed, StartArray, Appending, Prefix, OpenQuote,
                    Hexlify, CloseQuote, EndArray, FinalFlush, Goto
    <2>2. EndArray => wpc = "value" /\ count = Len(ids)
        <3>1. SUFFICES ASSUME EndArray PROVE wpc = "value" /\ count = Len(ids)
            OBVIOUS
        <3>2. wpc \in {"value", "quote", "digest", "end"} /\ wpc' = "flush"
            BY <3>1 DEF EndArray, Goto
        <3>3. Destroy
            BY <1>3, <3>2 DEF Construct, Assigning, Destroyed, StartArray, Appending, Prefix, OpenQuote,
                              Hexlify, CloseQuote, FinalFlush, Goto
        <3> QED
            BY <1>1, <3>2, <3>3 DEF Destroy, ThreadEndsFirst, ThreadDone
    <2>3. Texted' /\ WriterAt' /\ \E data \in Seq(Chars) : Emits(data)
        BY <1>1, <2>1, <2>2, WriterTexts
    <2>4. Len(file) <= Len(file') /\ \A p \in 1..Len(file) : file'[p] = file[p]
        BY <1>1, <2>3, FileGrows
    <2>5. count' \in Nat /\ count <= count'
        BY <1>2, <2>1 DEF StartArray, Appending, Prefix, OpenQuote, Hexlify, CloseQuote, EndArray, FinalFlush
    <2>6. Holds' /\ Parsed'
        BY <1>1, <2>1, <2>4, <2>5, ReaderStays
    <2>7. Ended'
        <3>1. CASE Construct \/ Assigning
            <4>1. wpc' \notin {"flush", "closed"}
                BY <3>1 DEF Construct, Assigning, StartArray, Appending, Prefix, OpenQuote, Hexlify,
                            CloseQuote, Goto
            <4> QED
                BY <4>1 DEF Ended
        <3>2. CASE Destroy
            BY <2>1, <2>2, <3>2 DEF Destroy, EndArray, Goto, Ended
        <3>3. CASE Destroyed
            BY <1>1, <2>1, <3>3 DEF Destroyed, FinalFlush, Goto, Ended
        <3> QED
            BY <1>3, <3>1, <3>2, <3>3
    <2> QED
        BY <2>3, <2>6, <2>7 DEF TextInv
<1>4. ASSUME NEW b \in Bundles, AssignBlocks(b)
      PROVE  TextInv'
    <2>1. /\ ids' = ids \o b /\ at = "ready" /\ at' = "stage"
          /\ UNCHANGED <<count, wbuf, wpc, file, broken, readerVars>>
        BY <1>4 DEF AssignBlocks
    <2>2. wpc # "flush" /\ wpc # "closed"
        BY <1>1, <2>1 DEF Ended
    <2>3. \A i \in 1..count : ids'[i] = ids[i]
        <3>1. b \in Seq(Ids)
            BY BundlesAssumption
        <3>2. \A i \in 1..Len(ids) : (ids \o b)[i] = ids[i]
            BY <1>2, <3>1
        <3>3. \A i \in 1..count : i \in 1..Len(ids)
            BY <1>2
        <3> QED
            BY <2>1, <3>2, <3>3, Zenon
    <2>4. Texted'
        <3>1. Sent' = Sent /\ \A p : Char(p)' = Char(p)
            BY <2>1 DEF Sent, Out, Char
        <3>2. SUFFICES ASSUME NEW p \in 1..Sent
                       PROVE  Char(p) = Piece(p)' /\ (p = 1 \/ Id(p) <= count)
            BY <2>1, <3>1 DEF Texted, Begun
        <3>3. Begun(p, Char(p)) /\ p \in Nat \ {0}
            BY <1>1, <2>2, StreamParts DEF Texted, Sent
        <3>4. Piece(p)' = Piece(p)
            BY <1>2, <2>3, <3>3, PieceStays DEF Begun
        <3> QED
            BY <3>3, <3>4 DEF Begun
    <2>5. WriterAt'
        BY <1>1, <2>1 DEF WriterAt, Out, Char, After
    <2>6. Ended'
        BY <2>1, <2>2 DEF Ended
    <2>7. Holds' /\ Parsed'
        <3>1. /\ Len(file) <= Len(file') /\ \A p \in 1..Len(file) : file'[p] = file[p]
              /\ count' \in Nat /\ count <= count' /\ UNCHANGED readerVars
            BY <1>1, <1>2, <2>1, StreamParts
        <3> QED
            BY <1>1, <2>2, <2>3, <3>1, ReaderStays
    <2> QED
        BY <2>4, <2>5, <2>6, <2>7 DEF TextInv
<1>5. CASE Killed
    <2>1. /\ wpc # "closed" /\ wpc' = "dead" /\ wbuf' = << >>
          /\ UNCHANGED <<ids, count, file, broken, readerVars>>
        BY <1>5 DEF Killed, Die
    <2>2. Len(file) \in Nat /\ Out \in Nat /\ Len(file) <= Out
        BY <1>1, StreamParts
    <2>3. Texted'
        <3>1. Sent' = Len(file)
            <4>1. Len(wbuf') = 0
                BY <2>1
            <4>2. Out' = Len(file)
                BY <2>1, <2>2, <4>1 DEF Out
            <4> QED
                BY <2>1, <4>2 DEF Sent
        <3>2. SUFFICES ASSUME NEW p \in 1..Len(file)
                       PROVE  Char(p)' = Piece(p)' /\ (p = 1 \/ Id(p) <= count)
            BY <2>1, <3>1 DEF Texted, Begun
        <3>3. Char(p)' = Char(p) /\ Piece(p)' = Piece(p) /\ p \in 1..Sent
            BY <2>1, <2>2 DEF Char, Piece, Sent
        <3>4. Begun(p, Char(p))
            <4>1. ASSUME p = Sent, ~broken, wpc = "flush" PROVE FALSE
                BY <1>1, <2>2, <4>1 DEF WriterAt, Sent
            <4> QED
                BY <1>1, <2>1, <3>3, <4>1 DEF Texted
        <3> QED
            BY <3>3, <3>4 DEF Begun
    <2>4. WriterAt' /\ Ended'
        BY <2>1 DEF WriterAt, Ended
    <2>5. Holds' /\ Parsed'
        BY <1>1, <1>2, <2>1, <2>2, ReaderStays
    <2> QED
        BY <2>3, <2>4, <2>5 DEF TextInv
<1>6. CASE (OpenManifest \/ Reader) /\ UNCHANGED callVars
    <2>1. UNCHANGED <<ids, count, wbuf, wpc, file, broken, at>>
        BY <1>6, ReaderReads DEF OpenManifest, writerVars, callVars
    <2>2. Texted' /\ WriterAt' /\ Ended'
        BY <1>1, <2>1, TextReadOnly
    <2>3. CASE OpenManifest
        <3>1. /\ rpc = "none" /\ rpc' = "array" /\ early' = (wpc # "closed") /\ Refill
              /\ UNCHANGED <<str, parsed>>
            BY <2>3 DEF OpenManifest
        <3>2. count_ = 0 /\ parsed = << >>
            BY <1>1, <3>1 DEF Parsed
        <3>3. Holds' /\ Pos' = count_ + 1
            BY <1>1, <2>1, <3>1, Refilled
        <3>4. Pos' = 1 /\ Len(parsed) = 0
            BY <3>2, <3>3
        <3>5. Parsed'
            BY <1>2, <2>1, <3>1, <3>2, <3>4 DEF Parsed
        <3> QED
            BY <2>2, <3>3, <3>5 DEF TextInv
    <2>4. CASE Reader
        <3>1. Holds' /\ Parsed'
            BY <1>1, <2>4, ReaderTexts DEF TextInv
        <3> QED
            BY <2>2, <3>1 DEF TextInv
    <2> QED
        BY <1>6, <2>3, <2>4
<1>7. CASE Stage \/ Query \/ Cleanup \/ Return \/ SqlFails \/ Join \/ Merge \/ IndexedElsewhere \/ UNCHANGED allVars
    <2>1. UNCHANGED vars
        BY <1>7 DEF Stage, Query, Cleanup, Return, SqlFails, Join, Merge, IndexedElsewhere, CallStep, allVars
    <2>2. Texted' /\ WriterAt' /\ Holds' /\ Parsed'
        BY <1>1, <2>1, TextStays
    <2>3. at' = at \/ at \notin {"closing", "closed"}
        BY <1>7 DEF Stage, Query, Cleanup, Return, SqlFails, Join, Merge, IndexedElsewhere, CallStep, allVars,
                    callVars
    <2>4. Ended'
        BY <1>1, <2>1, <2>3 DEF Ended, vars, writerVars
    <2> QED
        BY <2>2, <2>4 DEF TextInv
<1> QED
    BY <1>3, <1>4, <1>5, <1>6, <1>7 DEF Next, Committer

\* Nothing was written, and nothing was read.
LEMMA InitText == Init => TextInv
<1> SUFFICES ASSUME Init PROVE TextInv
    OBVIOUS
<1>1. /\ ids = << >> /\ count = 0 /\ wbuf = << >> /\ wpc = "start" /\ file = << >> /\ broken = FALSE
      /\ count_ = 0 /\ rpc = "none" /\ parsed = << >> /\ Len(<< >>) = 0
    BY DEF Init, StreamInit
<1>2. Out = 0 /\ Sent = 0
    BY <1>1 DEF Out, Sent
<1>3. Texted
    BY <1>2 DEF Texted
<1>4. WriterAt /\ Ended
    BY <1>1, <1>2 DEF WriterAt, Ended
<1>5. Holds
    BY <1>1 DEF Holds
<1>6. Parsed
    BY <1>1 DEF Parsed
<1> QED
    BY <1>3, <1>4, <1>5, <1>6 DEF TextInv

\* A file that cannot be written any more stays so: then the manifest, however
\* little of it reached the disk, parses only if it is complete.
THEOREM CompleteOrRejected ==
    ASSUME Failures \subseteq {"lasting"}
    PROVE  Spec => []ParsedIsAppended
<1>1. Breaking
    BY DEF Breaking
<1>2. IInv /\ TextInv => ParsedIsAppended
    <2>1. SUFFICES ASSUME IInv, TextInv, rpc = "accepted"
                   PROVE  parsed = [i \in 1..Len(ids) |-> Digest(ids[i])]
        BY DEF ParsedIsAppended
    <2>2. parsed \in Seq(Seq(Chars)) /\ Len(parsed) = Len(ids)
          /\ \A i \in 1..Len(parsed) : parsed[i] = Digest(ids[i])
        BY <2>1, IInvParts DEF TextInv, Parsed, ReaderFine
    <2>3. parsed = [i \in 1..Len(ids) |-> parsed[i]]
        BY <2>2
    <2> QED
        BY <2>2, <2>3
<1> QED
    BY <1>1, <1>2, InitText, NextText, Invariance, PTL DEF Spec

\* And a manifest that was closed without a failure parses.
THEOREM CompleteIsAccepted ==
    ASSUME Failures \subseteq {"lasting"}
    PROVE  Spec => []CompleteParses
<1>1. Breaking
    BY DEF Breaking
<1>2. TextInv => CompleteParses
    BY DEF TextInv, Parsed, CompleteParses
<1> QED
    BY <1>1, <1>2, InitText, NextText, Invariance, PTL DEF Spec
==============================================================================

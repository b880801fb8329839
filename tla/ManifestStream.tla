---------------------------- MODULE ManifestStream ----------------------------
(***************************************************************************)
(* The two ends of one manifest: manifest_creater, which writes ids to it  *)
(* through rapidjson's FileWriteStream, and manifest_parser, which reads   *)
(* it, at any time, through FileReadStream.  Both streams own a buffer of  *)
(* BufSize characters; the writer's is flushed when a character, or a      *)
(* whole digest (Push), finds no room.  Revision says when what is written.*)
(*                                                                         *)
(* A character is a pair: a mark of JSON, or <<id, i>>, the i-th digit of  *)
(* an id.  The buffer of stdio below the writer only delays what the file  *)
(* receives and is left out.                                               *)
(***************************************************************************)
EXTENDS Integers, Sequences

CONSTANTS Ids,          \* the ids of blocks
          DigestLen,    \* the digits of an id
          BufSize,      \* the size of either buffer
          Failures      \* how writing may fail: "lasting", "passing"

ASSUME LengthsAssumption ==
    /\ DigestLen \in Nat \ {0} /\ BufSize \in Nat
    /\ DigestLen <= BufSize /\ BufSize >= 4
ASSUME FailuresAssumption == Failures \subseteq {"lasting", "passing"}

VARIABLES ids,      \* the ids the manifest was given to append
          count,    \* how many of them it has begun to write
          wbuf,     \* FileWriteStream: from buffer_ to current_
          wpc,      \* where the writer stands
          file,     \* the manifest on disk
          broken,   \* nothing can be written any more
          rbuf,     \* FileReadStream: from buffer_ to bufferLast_
          current,  \* FileReadStream: the character at hand
          count_,   \* FileReadStream: how much of the file it has read
          eof_,     \* FileReadStream: the file ended
          rpc,      \* what the parser expects
          str,      \* the string it is in
          parsed,   \* the strings it gave to vfile::list
          early     \* history: reading began before the writer was done

writerVars == <<ids, count, wbuf, wpc>>
streamVars == <<rbuf, current, count_, eof_>>
readerVars == <<streamVars, rpc, str, parsed, early>>
vars       == <<writerVars, file, broken, readerVars>>

LBracket == <<"[", 0>>
RBracket == <<"]", 0>>
Comma    == <<",", 0>>
Quote    == <<"quote", 0>>
Nul      == <<"nul", 0>>

\* hexlify_to
Digest(id) == [i \in 1..DigestLen |-> <<id, i>>]
Digits     == Ids \X (1..DigestLen)
Chars      == Digits \cup {LBracket, RBracket, Comma, Quote, Nul}

StreamInit ==
    /\ ids = << >> /\ count = 0 /\ wbuf = << >> /\ wpc = "start"
    /\ file = << >> /\ broken = FALSE
    /\ rbuf = << >> /\ current = 0 /\ count_ = 0 /\ eof_ = FALSE
    /\ rpc = "none" /\ str = << >> /\ parsed = << >> /\ early = FALSE

------------------------------------------------------------------------------
(***************************************************************************)
(* The writer                                                              *)
(***************************************************************************)
\* fwrite.  A failure lasts (the disk stays full) or not; either way what
\* was not written is dropped, and nobody is told.
Written(data) ==
    \/ ~broken /\ file' = file \o data /\ UNCHANGED broken
    \/ broken /\ UNCHANGED <<file, broken>>
    \/ /\ ~broken
       /\ \E kind \in Failures, n \in 0..(Len(data) - 1) :
             /\ file' = file \o SubSeq(data, 1, n)
             /\ broken' = (kind = "lasting")

Flush ==
    IF wbuf = << >> THEN UNCHANGED <<wbuf, file, broken>>
    ELSE Written(wbuf) /\ wbuf' = << >>

Put(c) ==
    IF Len(wbuf) >= BufSize
    THEN Written(wbuf) /\ wbuf' = <<c>>
    ELSE wbuf' = Append(wbuf, c) /\ UNCHANGED <<file, broken>>

\* Mutant: the buffer is flushed only when nothing is left of it.
PushUnflushed(data) ==
    IF Len(wbuf) >= BufSize
    THEN Written(wbuf) /\ wbuf' = data
    ELSE wbuf' = wbuf \o data /\ UNCHANGED <<file, broken>>

\* Push hands out room for the whole of data, which is then filled in.
Push(data) ==
    IF Len(data) > BufSize - Len(wbuf)
    THEN Written(wbuf) /\ wbuf' = data
    ELSE wbuf' = wbuf \o data /\ UNCHANGED <<file, broken>>

Goto(pc) == wpc' = pc /\ UNCHANGED <<ids, readerVars>>

\* The revision's constructor.
StartArray ==
    /\ wpc = "start"
    /\ Put(LBracket)
    /\ Goto("value") /\ UNCHANGED count

\* Mutant: one id too many.
PrefixPastEnd ==
    /\ wpc = "value"
    /\ count <= Len(ids)
    /\ count' = count + 1
    /\ IF count > 0 THEN Put(Comma) ELSE UNCHANGED <<wbuf, file, broken>>
    /\ Goto("quote")

\* append: Prefix puts a comma unless the value is the first of the array.
Prefix ==
    /\ wpc = "value"
    /\ count < Len(ids)
    /\ count' = count + 1
    /\ IF count > 0 THEN Put(Comma) ELSE UNCHANGED <<wbuf, file, broken>>
    /\ Goto("quote")

\* Hexlify: quote, digest, quote.
OpenQuote  == wpc = "quote"  /\ Put(Quote) /\ Goto("digest") /\ UNCHANGED count
Hexlify    == wpc = "digest" /\ Push(Digest(ids[count])) /\ Goto("end") /\ UNCHANGED count
CloseQuote == wpc = "end"    /\ Put(Quote) /\ Goto("value") /\ UNCHANGED count

\* The destructor of manifest_creater closes the array, whatever a thread may
\* still want to append, and EndValue flushes the stream because it was the
\* outermost.
EndArray ==
    /\ wpc \in {"value", "quote", "digest", "end"}
    /\ Put(RBracket)
    /\ Goto("flush") /\ UNCHANGED count

FinalFlush ==
    /\ wpc = "flush"
    /\ Flush
    /\ Goto("closed") /\ UNCHANGED count

\* The process dies, and its buffer with it.
Die ==
    /\ wpc # "closed"
    /\ wpc' = "dead"
    /\ wbuf' = << >>
    /\ UNCHANGED <<ids, count, file, broken, readerVars>>

\* manifest_creater::append, step by step.
Appending == Prefix \/ OpenQuote \/ Hexlify \/ CloseQuote

------------------------------------------------------------------------------
(***************************************************************************)
(* The reader                                                              *)
(***************************************************************************)
\* fread: as much as the file has now, up to the size of the buffer.
Fetched ==
    SubSeq(file, count_ + 1, IF Len(file) - count_ < BufSize THEN Len(file)
                             ELSE count_ + BufSize)

\* Mutant: a full buffer is taken for the end of the file, too.
RefillEndsEarly ==
    /\ count_' = count_ + Len(Fetched)
    /\ eof_' = TRUE
    /\ rbuf' = Append(Fetched, Nul)
    /\ current' = 1

\* A buffer that fread did not fill ends with a NUL, and is the last.
Refill ==
    /\ count_' = count_ + Len(Fetched)
    /\ eof_' = (Len(Fetched) < BufSize)
    /\ rbuf' = IF Len(Fetched) < BufSize THEN Append(Fetched, Nul) ELSE Fetched
    /\ current' = 1

\* FileReadStream::Read: on to the next character; the NUL stays at hand.
Advance ==
    IF current < Len(rbuf) THEN current' = current + 1 /\ UNCHANGED <<rbuf, count_, eof_>>
    ELSE IF ~eof_ THEN Refill
    ELSE UNCHANGED streamVars

\* A checkout opens the manifest, which exists.
OpenManifest ==
    /\ rpc = "none"
    /\ Refill
    /\ rpc' = "array"
    /\ early' = (wpc # "closed")
    /\ UNCHANGED <<writerVars, file, broken, str, parsed>>

Peek == rbuf[current]

\* The parser takes the character at hand and then expects pc.
Take(pc) ==
    /\ Advance
    /\ rpc' = pc
    /\ UNCHANGED <<writerVars, file, broken, early>>

Array ==
    /\ rpc = "array" /\ Peek = LBracket
    /\ Take("first")
    /\ UNCHANGED <<str, parsed>>

StringBegins ==
    /\ rpc \in {"first", "element"} /\ Peek = Quote
    /\ str' = << >>
    /\ Take("string")
    /\ UNCHANGED parsed

\* Any character but the quote and control characters goes into the string.
StringGoesOn ==
    /\ rpc = "string" /\ Peek \notin {Quote, Nul}
    /\ str' = Append(str, Peek)
    /\ Take("string")
    /\ UNCHANGED parsed

IsHex(s) == Len(s) = DigestLen /\ \A i \in DOMAIN s : s[i] \in Digits

\* The handler's String: unhexlify takes digits, and exactly enough of them.
StringEnds ==
    /\ rpc = "string" /\ Peek = Quote
    /\ IsHex(str)
    /\ parsed' = Append(parsed, str)
    /\ Take("more")
    /\ UNCHANGED str

More ==
    /\ rpc = "more" /\ Peek = Comma
    /\ Take("element")
    /\ UNCHANGED <<str, parsed>>

\* Mutant: the end of the file will do for the end of the array.
DoneAtEnd ==
    /\ rpc \in {"first", "more"} /\ Peek \in {RBracket, Nul}
    /\ Take("accepted")
    /\ UNCHANGED <<str, parsed>>

\* The root value is complete, and parsing stops (kParseStopWhenDoneFlag).
Done ==
    /\ rpc \in {"first", "more"} /\ Peek = RBracket
    /\ Take("accepted")
    /\ UNCHANGED <<str, parsed>>

\* Mutant: nothing is wrong inside a string.
RejectNotInString ==
    /\ \/ rpc = "array" /\ Peek # LBracket
       \/ rpc = "first" /\ Peek \notin {Quote, RBracket}
       \/ rpc = "element" /\ Peek # Quote
       \/ rpc = "more" /\ Peek \notin {Comma, RBracket}
    /\ rpc' = "rejected"
    /\ UNCHANGED <<writerVars, file, broken, streamVars, str, parsed, early>>

\* Anything else is a syntax error, a root or an element of another type, or
\* a string that unhexlify refuses: parse throws.
Reject ==
    /\ \/ rpc = "array" /\ Peek # LBracket
       \/ rpc = "first" /\ Peek \notin {Quote, RBracket}
       \/ rpc = "element" /\ Peek # Quote
       \/ rpc = "string" /\ Peek = Nul
       \/ rpc = "string" /\ Peek = Quote /\ ~IsHex(str)
       \/ rpc = "more" /\ Peek \notin {Comma, RBracket}
    /\ rpc' = "rejected"
    /\ UNCHANGED <<writerVars, file, broken, streamVars, str, parsed, early>>

Reader ==
    \/ Array
    \/ StringBegins \/ StringGoesOn \/ StringEnds
    \/ More
    \/ Done \/ Reject

------------------------------------------------------------------------------
(***************************************************************************)
(* Properties                                                              *)
(***************************************************************************)
StreamTypeOK ==
    /\ ids \in Seq(Ids) /\ count \in 0..Len(ids)
    /\ wbuf \in Seq(Chars) /\ file \in Seq(Chars)
    /\ wpc \in {"start", "value", "quote", "digest", "end", "flush", "closed", "dead"}
    /\ broken \in BOOLEAN /\ eof_ \in BOOLEAN /\ early \in BOOLEAN
    /\ rbuf \in Seq(Chars) /\ current \in 0..Len(rbuf) /\ count_ \in 0..Len(file)
    /\ rpc \in {"none", "array", "first", "string", "more", "element",
                "accepted", "rejected"}
    /\ str \in Seq(Chars) /\ parsed \in Seq(Seq(Chars))

\* Neither Put nor Push writes behind the end of either buffer: Push lets a
\* digest in without looking again after it flushed, and the reader puts its
\* NUL behind what it read (filewritestream.h 81-90, filereadstream.h 81).
WithinBuffers == Len(wbuf) <= BufSize /\ Len(rbuf) <= BufSize

\* A manifest that parses is complete: it has every id its revision appended,
\* in order, although it may be read while it is written, its writer may die
\* with any part of it in a buffer, and its write errors go unnoticed.
ParsedIsAppended ==
    rpc = "accepted" => parsed = [i \in 1..Len(ids) |-> Digest(ids[i])]

\* The manifest of a revision that ended, with no write failing, parses.
CompleteParses ==
    rpc = "rejected" => early \/ broken \/ wpc = "dead"

\* A parse comes to an end, on a file of any length, be it a multiple of the
\* size of the buffer.
ParseEnds == rpc # "none" ~> rpc \in {"accepted", "rejected"}
==============================================================================

---------------------------- MODULE ContentChunking ----------------------------
(***************************************************************************)
(* How a commit cuts its input into blocks: managed_bundle of bundle.h     *)
(* with vvpkg::rabin_boundary, driven by the loop of                       *)
(* basic_repository::commit.  consume() fills a buffer from a reader,      *)
(* whatever the sizes of its reads, scans it byte by byte for boundaries,  *)
(* and keeps what follows the last boundary for the next call, which scans *)
(* it again, from its start, with the fingerprint as the first scan left it. *)
(*                                                                         *)
(* A fingerprint is a function of the window of the last WindowSize bytes  *)
(* processed, zeros before the first; Breaks are the windows whose value   *)
(* modulo avg_ is break_value.  Pointers are offsets from gbase().         *)
(***************************************************************************)
EXTENDS Integers, Sequences

CONSTANTS Bytes,        \* the values of a byte
          WindowSize,   \* rabin_fingerprint::window_size
          MinSize,      \* rabin_boundary::min_
          MaxSize,      \* rabin_boundary::max_
          Breaks,       \* the windows at which a block may end
          Capacity,     \* bundle::capacity()
          Slack,        \* 4096: consume is content with less room than that
          Inputs        \* what may be committed: sequences of bytes

ASSUME BytesAssumption == 0 \in Bytes
ASSUME SizesAssumption ==
    /\ WindowSize \in Nat \ {0} /\ MinSize \in Nat /\ MaxSize \in Nat
    /\ WindowSize < MinSize /\ MinSize < MaxSize
    /\ Slack \in Nat \ {0}
ASSUME CapacityAssumption == Capacity \in Nat /\ Capacity >= MaxSize + Slack - 1
ASSUME InputsAssumption == Inputs \subseteq Seq(Bytes)

VARIABLES input,    \* what the commit reads
          reader,   \* "descriptor": errors are negative; "stream": they are 0
          rpos,     \* how much of it was read
          buf,      \* the bytes from gbase() to epptr_
          pptr,     \* where the bytes not yet in a block start
          pos,      \* the blocks marked: where each ends, and its id
          window,   \* the state of algo_
          first,    \* split_into_blocks: the next byte to scan
          lbp,      \* split_into_blocks: the end of the last block
          eof,      \* consume: reached_eof
          pc,       \* where the commit stands
          stored    \* the blocks handed to merge

bundleVars == <<buf, pptr, pos, window>>
vars == <<input, reader, rpos, bundleVars, first, lbp, eof, pc, stored>>

Zeros == [i \in 1..WindowSize |-> 0]

Init ==
    /\ input = << >> /\ reader = "descriptor" /\ rpos = 0
    /\ buf = << >> /\ pptr = 0 /\ pos = << >> /\ window = Zeros
    /\ first = 0 /\ lbp = 0 /\ eof = FALSE
    /\ pc = "idle"
    /\ stored = << >>

------------------------------------------------------------------------------
\* bundle::size, the end of the last block.
BundleSize == IF pos = << >> THEN 0 ELSE pos[Len(pos)].end

Start(k) == IF k = 1 THEN 0 ELSE pos[k - 1].end
BlockAt(k) == SubSeq(buf, Start(k) + 1, pos[k].end)

Unused == Capacity - Len(buf)

\* Mutant: the whole window is exempt as well.
ExemptToMin == MinSize

ExemptSize == MinSize - WindowSize

\* Mutant: no byte slides out.
SlideNothingOut(w, byte) == Append(w, byte)

\* process_byte: the oldest byte slides out of the window.
Slide(w, byte) == Append(Tail(w), byte)

\* Mutant: no limit above.
ReachedUnlimited(size, w) == size >= MinSize /\ w \in Breaks

\* Mutant: one byte too many.
ReachedPastMax(size, w) == size > MaxSize \/ (size >= MinSize /\ w \in Breaks)

ReachedBoundary(size, w) == size = MaxSize \/ (size >= MinSize /\ w \in Breaks)

\* Mutant: the digest is taken from the start of what was left over.
MarkFromPptr(size) ==
    pos' = Append(pos, [end |-> BundleSize + size,
                        id  |-> SubSeq(buf, pptr + 1, pptr + size)])

\* mark_new_block: the id is the digest of the bytes after the last block.
\* A digest stands for the bytes it was computed from.
Mark(size) ==
    pos' = Append(pos, [end |-> BundleSize + size,
                        id  |-> SubSeq(buf, BundleSize + 1, BundleSize + size)])

------------------------------------------------------------------------------
\* A commit starts.  The bundle is the caller's, new or used by a commit that
\* returned.
Commit(in, r) ==
    /\ pc = "idle"
    /\ input' = in /\ reader' = r /\ rpos' = 0 /\ stored' = << >>
    /\ pc' = "consume"
    /\ UNCHANGED <<bundleVars, first, lbp, eof>>

\* consume: what is left over moves to the front of the buffer.
Consume ==
    /\ pc = "consume"
    /\ buf' = SubSeq(buf, pptr + 1, Len(buf)) /\ pptr' = 0
    /\ eof' = FALSE
    /\ pc' = "read"
    /\ UNCHANGED <<input, reader, rpos, pos, window, first, lbp, stored>>

\* Mutant: one read is enough.
ReadOnce(n) ==
    /\ pc = "read"
    /\ n <= Unused /\ rpos + n <= Len(input)
    /\ buf' = buf \o SubSeq(input, rpos + 1, rpos + n)
    /\ rpos' = rpos + n
    /\ pc' = "split" /\ first' = 0 /\ lbp' = 0
    /\ UNCHANGED <<input, reader, pptr, pos, window, eof, stored>>

\* The reader yields n bytes, n > 0, as many as it likes.
Read(n) ==
    /\ pc = "read"
    /\ n <= Unused /\ rpos + n <= Len(input)
    /\ buf' = buf \o SubSeq(input, rpos + 1, rpos + n)
    /\ rpos' = rpos + n
    /\ IF Unused - n < Slack
       THEN pc' = "split" /\ first' = 0 /\ lbp' = 0
       ELSE UNCHANGED <<pc, first, lbp>>
    /\ UNCHANGED <<input, reader, pptr, pos, window, eof, stored>>

\* Mutant: a read of 0 bytes is a short read.
ReadZeroAgain ==
    /\ pc = "read"
    /\ rpos = Len(input) \/ Unused = 0
    /\ IF Unused < Slack
       THEN pc' = "split" /\ first' = 0 /\ lbp' = 0
       ELSE UNCHANGED <<pc, first, lbp>>
    /\ UNCHANGED <<input, reader, rpos, bundleVars, eof, stored>>

\* The reader yields 0: its input has ended, or no room was offered.
ReadZero ==
    /\ pc = "read"
    /\ rpos = Len(input) \/ Unused = 0
    /\ eof' = TRUE
    /\ pc' = "split" /\ first' = 0 /\ lbp' = 0
    /\ UNCHANGED <<input, reader, rpos, bundleVars, stored>>

\* Mutant: the count is unsigned, as a stream's is.
ReadFailsUnsigned ==
    /\ pc = "read"
    /\ eof' = TRUE
    /\ pc' = "split" /\ first' = 0 /\ lbp' = 0
    /\ UNCHANGED <<input, reader, rpos, bundleVars, stored>>

\* The read fails.  A descriptor's count is negative then and consume throws;
\* a stream's is unsigned, and 0 for an error too.
ReadFails ==
    /\ pc = "read"
    /\ IF reader = "descriptor"
       THEN pc' = "thrown" /\ UNCHANGED <<first, lbp, eof>>
       ELSE eof' = TRUE /\ pc' = "split" /\ first' = 0 /\ lbp' = 0
    /\ UNCHANGED <<input, reader, rpos, bundleVars, stored>>

------------------------------------------------------------------------------
\* split_into_blocks looks at the byte `first`, the current_size-th since lbp.
CurrentSize == first + 1 - lbp
AtEnd       == eof /\ first + 1 = Len(buf)

Scanning == pc = "split" /\ first < Len(buf)

\* A block ends with this byte; the fingerprint starts anew.
NewBlock ==
    /\ Mark(CurrentSize)
    /\ lbp' = first + 1
    /\ window' = Zeros

\* Too close to the start of the block for a window to matter.
ScanExempt ==
    /\ Scanning
    /\ ~AtEnd
    /\ CurrentSize <= ExemptSize
    /\ first' = first + 1
    /\ UNCHANGED <<input, reader, rpos, bundleVars, lbp, eof, pc, stored>>

\* The byte is processed, and ends a block or not.
ScanByte ==
    /\ Scanning
    /\ ~AtEnd
    /\ ExemptSize < CurrentSize
    /\ first' = first + 1
    /\ LET w == Slide(window, buf[first + 1]) IN
       IF ReachedBoundary(CurrentSize, w)
       THEN NewBlock
       ELSE window' = w /\ UNCHANGED <<pos, lbp>>
    /\ UNCHANGED <<input, reader, rpos, buf, pptr, eof, pc, stored>>

\* The last byte of the input ends a block whatever its size.
ScanLast ==
    /\ Scanning
    /\ AtEnd
    /\ first' = first + 1
    /\ NewBlock
    /\ UNCHANGED <<input, reader, rpos, buf, pptr, eof, pc, stored>>

\* The buffer is scanned: consume returns, "full" unless the input ended.
SplitEnds ==
    /\ pc = "split"
    /\ first = Len(buf)
    /\ pptr' = lbp
    /\ first' = 0 /\ lbp' = 0
    /\ pc' = "loop"
    /\ UNCHANGED <<input, reader, rpos, buf, pos, window, eof, stored>>

------------------------------------------------------------------------------
\* The loop of commit: an empty bundle ends it; otherwise the blocks are
\* merged, the bundle is cleared, and a bundle that was not full ends it.
Merge ==
    /\ pc = "loop"
    /\ stored' = stored \o [k \in 1..Len(pos) |-> BlockAt(k)]
    /\ pos' = << >>
    /\ pc' = IF eof \/ pos = << >> THEN "idle" ELSE "consume"
    /\ UNCHANGED <<input, reader, rpos, buf, pptr, window, first, lbp, eof>>

\* assign_blocks or merge throws, out of commit.
MergeFails ==
    /\ pc = "loop"
    /\ pos # << >>
    /\ pc' = "thrown"
    /\ UNCHANGED <<input, reader, rpos, bundleVars, first, lbp, eof, stored>>

\* The caller gives up on the bundle, and makes another one.
Discard ==
    /\ pc = "thrown"
    /\ input' = << >> /\ rpos' = 0 /\ stored' = << >>
    /\ buf' = << >> /\ pptr' = 0 /\ pos' = << >> /\ window' = Zeros
    /\ first' = 0 /\ lbp' = 0 /\ eof' = FALSE
    /\ pc' = "idle"
    /\ UNCHANGED reader

\* What a commit, or its caller after an exception, does next.
Step ==
    \/ Consume
    \/ \E n \in 1..Capacity : Read(n)
    \/ ReadZero
    \/ ScanExempt \/ ScanByte \/ ScanLast
    \/ SplitEnds
    \/ Merge
    \/ Discard

Next ==
    \/ \E in \in Inputs, r \in {"descriptor", "stream"} : Commit(in, r)
    \/ Step
    \/ ReadFails
    \/ MergeFails

Spec == Init /\ [][Next]_vars

\* A commit that started runs on, and its reads return; none has to fail.
FairSpec == Spec /\ WF_vars(Step)

------------------------------------------------------------------------------
(***************************************************************************)
(* Reference: the blocks of s, cut with the whole of s in view.            *)
(***************************************************************************)
\* A block of s that starts after byte i may have n bytes.
CutsAt(s, i, n) ==
    \/ i + n = Len(s)
    \/ n = MaxSize
    \/ n >= MinSize /\ SubSeq(s, i + n - WindowSize + 1, i + n) \in Breaks

Chunks(s) ==
    LET Cut(i) == CHOOSE n \in 1..(Len(s) - i) :
                      CutsAt(s, i, n) /\ \A m \in 1..(n - 1) : ~CutsAt(s, i, m)
        from[i \in 0..Len(s)] ==
            IF i = Len(s) THEN << >>
            ELSE <<SubSeq(s, i + 1, i + Cut(i))>> \o from[i + Cut(i)]
    IN  from[0]

(***************************************************************************)
(* Properties                                                              *)
(***************************************************************************)
TypeOK ==
    /\ input \in Seq(Bytes)
    /\ reader \in {"descriptor", "stream"}
    /\ rpos \in Nat
    /\ buf \in Seq(Bytes)
    /\ pptr \in Nat
    /\ pos \in Seq([end : Nat, id : Seq(Bytes)])
    /\ window \in Seq(Bytes) /\ Len(window) = WindowSize
    /\ first \in Nat /\ lbp \in Nat /\ eof \in BOOLEAN
    /\ pc \in {"idle", "consume", "read", "split", "loop", "thrown"}

\* A commit that returned stored the blocks of what it read, cut by content
\* alone: neither the sizes of the reads, nor where the buffer ended, nor the
\* fingerprint an earlier scan or an earlier commit left (bundle.h, 131-133,
\* 168) moves a boundary.  Equal contents share their blocks only if so.  From a
\* descriptor, whose errors throw, it had read the whole input.
ChunksOfContent ==
    pc = "idle" => /\ stored = Chunks(SubSeq(input, 1, rpos))
                   /\ reader = "descriptor" => rpos = Len(input)

\* Each id is the digest of the bytes merge() stores under it, although they
\* are found through the ends of the blocks, first by mark_new_block and then
\* by block_at, and the buffer moves between two calls of consume.
IdsMatchData ==
    pc = "loop" => \A k \in 1..Len(pos) : pos[k].id = BlockAt(k)

\* A bundle that is full has a block: commit() takes an empty bundle for the
\* end of the input and would drop the rest (repository.h, 32-33).
FullHasBlocks == pc = "loop" /\ ~eof => pos # << >>

\* consume() finds room in the buffer: its assertion "buffer overflow"
\* (bundle.h, 140).
NotFull == pc = "consume" => Len(buf) - pptr < Capacity

\* No block is longer than max_, and only the last of the input is shorter
\* than min_.
BlockBounds ==
    \A k \in 1..Len(pos) :
        LET size == pos[k].end - Start(k) IN
        /\ size \in 1..MaxSize
        /\ size < MinSize => eof /\ k = Len(pos)

\* A commit ends, however short the reads are.
CommitEnds == pc # "idle" ~> pc = "idle"
------------------------------------------------------------------------------
(***************************************************************************)
(* The inductive invariant                                                 *)
(***************************************************************************)
\* No block could be made of what is left over, or it would have been.
LeftoverBounded ==
    pc \in {"idle", "consume", "loop"} => Len(buf) - pptr < MaxSize

\* The bundle is empty outside split_into_blocks and the loop's body.
Cleared == pc \in {"idle", "consume", "read"} => pos = << >>

\* The scan is where the marks say it is, and not past a block's end.
ScanPlaced ==
    pc = "split" => /\ BundleSize = lbp
                    /\ lbp <= first /\ first <= Len(buf)
                    /\ first - lbp < MaxSize
                    /\ \A k \in 1..Len(pos) :
                          pos[k].end - Start(k) < MinSize => lbp = Len(buf)

\* Unless the input ended, reading stops only with little room left.
BufferFilled ==
    pc \in {"split", "loop"} /\ ~eof => Len(buf) > Capacity - Slack

IInv ==
    /\ TypeOK
    /\ pptr <= Len(buf) /\ Len(buf) <= Capacity
    /\ pc = "loop" => BundleSize = pptr
    /\ LeftoverBounded
    /\ Cleared
    /\ ScanPlaced
    /\ BufferFilled
    /\ BlockBounds
==============================================================================

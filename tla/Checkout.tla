------------------------------- MODULE Checkout -------------------------------
(***************************************************************************)
(* `vv checkout` (src/demo/vv.cc) from its start to its exit code:         *)
(* basic_repository::checkout (include/vvpkg/repository.h), which copies   *)
(* the ranges that vfile::list computes (Segments) through a buffer to the *)
(* descriptor of the target.  The index does not change meanwhile: the     *)
(* rows a query sees are those of its snapshot.                            *)
(*                                                                         *)
(* The byte of vvpkg.bin at position a is modelled by a itself.            *)
(***************************************************************************)
EXTENDS Segments, SequencesExt

CONSTANTS Blocks,
          Indexes,      \* the indexes there may be: tables of block offsets
          MaxRows,      \* bound: no manifest has more ids (the code has none)
          BinLens,      \* how long vvpkg.bin may be when it is opened, 0 for absent
          BufLen,       \* buffer_size_for(fp)
          Old           \* what the target holds before

ASSUME CheckoutAssumption ==
    /\ BufLen \in Nat \ {0} /\ BinLens \subseteq Nat /\ MaxRows \in Nat
    /\ Size \in [Blocks -> Nat \ {0}] /\ NoOffset \notin Nat
    /\ Indexes \subseteq [Blocks -> Nat \cup {NoOffset}]
    /\ Old \in Seq(Nat)

VARIABLES cblocks, binLen,      \* the index and vvpkg.bin
          pc,
          newfile,      \* the rows of the temporary table
          segments,     \* the rows of the query that g() has not returned
          fpos, sz,     \* where fp reads next, and what is left of a range
          buf,          \* the bytes between buf.get() and p
          file_size,
          target,       \* what was written where the descriptor points
          status,       \* the exit code, or -1
          wanted        \* history: what the target is to hold in the end

disk == <<cblocks, binLen>>
vars == <<disk, pc, newfile, segments, fpos, sz, buf, file_size, target, status, wanted>>

Init ==
    /\ cblocks \in Indexes /\ binLen = 0
    /\ pc = "open" /\ newfile = << >> /\ segments = << >>
    /\ fpos = 0 /\ sz = 0 /\ buf = << >> /\ file_size = 0
    /\ target = Old /\ status = -1 /\ wanted = << >>

\* The bytes of the blocks the manifest lists, in its order, up to the first
\* block that is not indexed.
BytesOf(first, last) == [i \in 1..(last - first) |-> first + i - 1]
Listed(ids) ==
    FlattenSeq([j \in 1..Reached(cblocks, ids) |->
        BytesOf(OffStart(cblocks, ids, j), OffEnd(cblocks, ids, j))])

Goto(c) == pc' = c /\ UNCHANGED <<disk, status, wanted>>

\* An exception unwinds checkout(); main() prints it.
Throw == Goto("failed")

\* The file is created or truncated, before anything is known of the revision;
\* or it cannot be opened.
xopen_for_write ==
    \/ target' = << >> /\ Goto("staging")
    \/ UNCHANGED target /\ Throw

\* Standard output is left as it is.
xstdout_fileno == UNCHANGED target /\ Goto("staging")

OpenTarget ==
    /\ pc = "open"
    /\ xopen_for_write \/ xstdout_fileno
    /\ UNCHANGED <<newfile, segments, fpos, sz, buf, file_size>>

\* list(): the parser stages an id of the manifest.
Stage ==
    /\ pc = "staging"
    /\ Len(newfile) < MaxRows
    /\ \E b \in Blocks : newfile' = Append(newfile, b)
    /\ Goto("staging")
    /\ UNCHANGED <<segments, fpos, sz, buf, file_size, target>>

\* list(): there is no manifest, or it does not parse.
ListFails ==
    /\ pc = "staging"
    /\ Throw
    /\ UNCHANGED <<newfile, segments, fpos, sz, buf, file_size, target>>

\* list() runs the query and returns g; vvpkg.bin is opened, or there is none.
List ==
    /\ pc = "staging"
    /\ segments' = Ranges(cblocks, newfile)
    /\ wanted' = target \o Listed(newfile)
    /\ binLen' \in BinLens
    /\ pc' = IF binLen' = 0 THEN "failed" ELSE "range"
    /\ UNCHANGED <<cblocks, newfile, fpos, sz, buf, file_size, target, status>>

\* Mutant: only ranges that do not follow the one before are sought.
NextRangeUnsought ==
    /\ pc = "range" /\ segments # << >>
    /\ segments' = Tail(segments)
    /\ sz' = Head(segments).last - Head(segments).first
    /\ file_size' = file_size + sz'
    /\ Goto("read")
    /\ UNCHANGED <<newfile, fpos, buf, target>>

\* g() returns a range; xfseek.
NextRange ==
    /\ pc = "range" /\ segments # << >>
    /\ segments' = Tail(segments)
    /\ fpos' = Head(segments).first
    /\ sz' = Head(segments).last - Head(segments).first
    /\ file_size' = file_size + sz'
    /\ Goto("read")
    /\ UNCHANGED <<newfile, buf, target>>

\* g() is drained: it empties newfile and returns an empty range.
LastRange ==
    /\ pc = "range" /\ segments = << >>
    /\ newfile' = << >>
    /\ Goto("last")
    /\ UNCHANGED <<segments, fpos, sz, buf, file_size, target>>

\* What fread is asked for: at most the room that is left in the buffer.
ReadLen == LET room == BufLen - Len(buf) IN IF room < sz THEN room ELSE sz

AfterFlush == IF sz = 0 THEN "range" ELSE "read"

\* Mutant: the buffer is only flushed when it is full as a range ends.
FreadFlushLate ==
    /\ pc = "read"
    /\ fpos + ReadLen <= binLen
    /\ buf' = buf \o BytesOf(fpos, fpos + ReadLen)
    /\ fpos' = fpos + ReadLen
    /\ sz' = sz - ReadLen
    /\ Goto(IF sz' # 0 THEN "read" ELSE IF Len(buf') = BufLen THEN "flush" ELSE "range")
    /\ UNCHANGED <<newfile, segments, file_size, target>>

\* fread, which fills the buffer to its end or reads the range to its end.
Fread ==
    /\ pc = "read"
    /\ fpos + ReadLen <= binLen
    /\ buf' = buf \o BytesOf(fpos, fpos + ReadLen)
    /\ fpos' = fpos + ReadLen
    /\ sz' = sz - ReadLen
    /\ Goto(IF Len(buf') = BufLen THEN "flush" ELSE IF sz' = 0 THEN "range" ELSE "read")
    /\ UNCHANGED <<newfile, segments, file_size, target>>

\* A short read: vvpkg.bin ends inside the range, or cannot be read.
FreadFails ==
    /\ pc = "read"
    /\ Throw
    /\ UNCHANGED <<newfile, segments, fpos, sz, buf, file_size, target>>

\* do_flush, of a full buffer and, at the end, of what is left, be it nothing.
DoFlush ==
    /\ pc \in {"flush", "last"}
    /\ target' = target \o buf
    /\ buf' = << >>
    /\ Goto(IF pc = "last" THEN "returned" ELSE AfterFlush)
    /\ UNCHANGED <<newfile, segments, fpos, sz, file_size>>

\* Mutant: only a negative count is an error.
FlushFailsUnnoticed ==
    /\ pc \in {"flush", "last"}
    /\ \E n \in 0..(Len(buf) - 1) : target' = target \o SubSeq(buf, 1, n)
    /\ buf' = << >>
    /\ Goto(IF pc = "last" THEN "returned" ELSE AfterFlush)
    /\ UNCHANGED <<newfile, segments, fpos, sz, file_size>>

\* write fails or is short, which is an error, too, and not tried again.
FlushFails ==
    /\ pc \in {"flush", "last"}
    /\ \E n \in 0..(IF buf = << >> THEN 0 ELSE Len(buf) - 1) :
          target' = target \o SubSeq(buf, 1, n)
    /\ Throw
    /\ UNCHANGED <<newfile, segments, fpos, sz, buf, file_size>>

\* Mutant: main() prints what it caught and goes on to return.
ExitAlways0 ==
    /\ pc \in {"returned", "failed"}
    /\ pc' = "exited"
    /\ status' = 0
    /\ UNCHANGED <<disk, newfile, segments, fpos, sz, buf, file_size, target, wanted>>

\* The descriptor is closed, without a look at the result, and main() ends.
Exit ==
    /\ pc \in {"returned", "failed"}
    /\ pc' = "exited"
    /\ status' = IF pc = "returned" THEN 0 ELSE 1
    /\ UNCHANGED <<disk, newfile, segments, fpos, sz, buf, file_size, target, wanted>>

Progress ==
    \/ OpenTarget
    \/ NextRange \/ LastRange
    \/ Fread
    \/ DoFlush
    \/ Exit

Failure == ListFails \/ FreadFails \/ FlushFails

Next == Progress \/ Stage \/ List \/ Failure

Spec == Init /\ [][Next]_vars

\* list() is through with the manifest, one way or the other.
Parsed == pc = "staging" /\ pc' \in {"range", "failed"}

\* The program runs on, its manifest is finite, and it need not fail, except
\* that a file that is too short cannot be read.
FairSpec ==
    /\ Spec
    /\ WF_vars(Progress)
    /\ WF_pc(Parsed)
    /\ WF_vars(FreadFails /\ fpos + ReadLen > binLen)

------------------------------------------------------------------------------
(***************************************************************************)
(* Properties                                                              *)
(***************************************************************************)
\* Reading the ranges in order reads, byte for byte, the blocks the manifest
\* lists, up to the first that is not indexed, where the recursion ends:
\* grouping, min and max neither lose, repeat nor reorder a byte, repeated ids
\* included.
ReadsWhatIsListed ==
    pc = "staging" =>
        LET r == Ranges(cblocks, newfile)
        IN  FlattenSeq([i \in 1..Len(r) |-> BytesOf(r[i].first, r[i].last)])
              = Listed(newfile)

\* While ranges are copied, the target, the buffer and what is still to read
\* make up what is listed: no byte is lost or copied twice where the end of
\* the buffer, of a range and of the list meet (repository.h, 66-101).
NothingLost ==
    pc \in {"range", "read", "flush", "last"} =>
        target \o buf \o BytesOf(fpos, fpos + sz) \o
            FlattenSeq([i \in DOMAIN segments |->
                BytesOf(segments[i].first, segments[i].last)]) = wanted

\* The buffer takes what fread is asked for, and fread is asked for something.
BufferHasRoom ==
    /\ Len(buf) <= BufLen
    /\ pc = "read" => ReadLen > 0

\* Exit code 0 says that the target holds what list() returned, byte for byte,
\* and any other that it holds a prefix of it, once something was listed.  Of
\* a revision whose commit failed, list() may return less than its manifest.
ExitCodeHonest ==
    /\ status = 0 => target = wanted
    /\ status = 1 /\ wanted # << >> => IsPrefix(target, wanted)

\* Every run ends: no loop goes on without reading or writing.
Exits == <>(pc = "exited")
==============================================================================

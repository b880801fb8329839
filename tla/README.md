# vvpkg in TLA+

vvpkg is a C++14 library that keeps many binary files as revisions in one
directory. A file is cut into blocks, each block is stored once, and a revision
is the list of the ids of its blocks. This directory models the parts of the
library that decide whether a committed revision can be read back, checks the
models with TLC, and proves with TLAPS what the runs show of the index, the
listing, the checkout, chunking, manifests, the fingerprint, the digests and the
repository as a whole, up to the refinement of its abstract specification.

    vvpkg.db      SQLite (WAL): table cblocks(id, offset, size)
    vvpkg.bin     the bytes of all blocks
    <rev>.json    manifest of a revision: a JSON array of block ids

## 1. Inventory

| Component | Source | State | Operations | Hard behaviour |
|---|---|---|---|---|
| block index | `src/vfile.cc` | cblocks, open transaction, snapshot | merge, list | offsets read before the lock, errors that leave transactions open |
| block data | `include/vvpkg/sync_store.h`, `c_file_funcs.h` | vvpkg.bin, stdio stream | call, destructor | lazy open, buffering, truncation, ignored errors of fclose |
| listing | `src/vfile.cc` 136-199 | temporary table newfile | list and the function it returns | recursive SQL, rows left by an abandoned checkout |
| repository | `include/vvpkg/repository.h` | locals of commit and checkout | commit, checkout | order of destructors, exceptions at every step |
| revision | `src/revision.cc`, `manifest_creater.h` | manifest, table newrev, a future | constructor, assign_blocks, destructor | a thread beside SQL that may throw, a manifest closed by unwinding |
| manifest streams | `manifest_creater.h`, `manifest_parser.h`, rapidjson's file streams | buffer of 4096 bytes | append, close, parse | room for a digest in the buffer, ignored write errors |
| content chunking | `deuceclient/bundle.h`, `rabin_boundary.h` | buffer, marks, fingerprint | consume, add_block, clear | bytes left over between two calls, capacity, end of file |
| Rabin fingerprint | `src/rabin_fingerprint.cc`, `deuceclient/rabin_fingerprint.h` | two tables, a ring, value | process_byte, reset | polynomials wider than a word, tables that cancel bits, a ring that reset leaves anywhere |
| BLAKE2, hashlib | `src/blake2b.cc`, `blake2s.cc`, `hashlib.h` | chaining value, counter, buffer | Update, Final | the last block is kept back, a counter of two words, messages split anyhow |
| block_arrangement | `src/block_arrangement.cc` | JSON buffer | add, text, clear | not used by the library |
| readers and writers | `fd_funcs.h`, `stream_funcs.h`, `c_file_funcs.h` | - | read, write | errors that look like the end of a file |
| sqxx, SQLite | `3rdparty` | connection | - | external |
| demo programs | `demo` | a descriptor | vv commit, vv checkout, dump_blocks | a target that is truncated first, exit codes |
| stdex | `include/stdex` | - | - | language support |

How they interact. `commit` constructs a `revision` (its own connection, the
manifest opened exclusively) and a `sync_store`, then for each bundle asks
`assign_blocks` which blocks are missing and has `vfile::merge` write them:
merge calls the store for the bytes and SQLite for the row of each block. When
commit ends, by return or by exception, the store is destroyed (and flushed)
and then the revision (and its manifest closed). `checkout` asks `vfile::list`
for byte ranges and copies them from vvpkg.bin to a writer. Handles (repository
objects) of several threads or processes meet in the three kinds of files only.

What makes each component correct:

- index: rows tile vvpkg.bin, are never moved or removed, and the offset a merge
  computes is free;
- block data: what the index says is stored is in the file, or in a stream that
  will be flushed;
- listing: the ranges are, byte for byte, the blocks of the manifest in order;
- repository: a committed revision reads back exactly, for ever, whatever other
  calls run, fail or die; calls end and give the write lock back;
- revision and manifest: the manifest of a commit that returned lists what the
  reader yielded, is final, and parses only when its data is in the file;
- chunking: blocks concatenate to the input, boundaries depend on content only;
- fingerprint and digests: the value depends on the window, and on the message,
  alone.

## 2. Plan

Written, in this order:

1. `BlockIndex` (the index and its transactions), `BlockIndex_proofs`;
2. `SyncStore` (vvpkg.bin and streams), `Segments` (the query of list);
3. `Repository`, which instances the three and adds manifests, calls, faults;
   `RevisionStore`, the abstract specification it implements;
4. `ContentChunking` (managed_bundle over an abstract boundary, driven by the
   loop of commit), `ContentChunking_proofs`;
5. `ManifestStream` (both ends of one manifest) and `Revision`, which writes one
   through it: the constructor, assign_blocks with its thread, the destructor;
   `Revision_proofs`;
6. `Checkout`, over `Segments`: `vv checkout` from its start to its exit code;
7. `Words`, `Rabin` and `SlidingWindow`: the fingerprint, and the window that
   `ContentChunking` takes it for;
8. `Blake2Stream` over `Blake2Blocks`: how Update and Final cut a message;
   `Blake2`, `Blake2b`, `Blake2s`: what is computed of a block; `Hashes`, which
   has both this and `Rabin`, and `Hashes_proofs`;
9. `OrderBy` and `SequenceLemmas`, what the proofs share; `Segments_proofs`,
   `Checkout_proofs` over it, and `Repository_proofs` over both and over
   `BlockIndex_proofs`; the proofs of what chunks and manifests hold, in
   `ContentChunking_proofs` and `Revision_proofs`.

## 3. The modules

**BlockIndex.** `cblocks` maps every block to its offset, or to `NoOffset` when
it has no row. A handle's transaction is `none`; `begun` (a deferred begin
without a read, as list does); `reading` (a snapshot in `view[h]`); or `writing`
(the write lock, `view[h]` includes its inserts). `BeginMerge` is begin and
getsize: the snapshot is taken by the read, so the two are one step. `Feed` is
an insert, `FeedBusy` and `FeedConstraint` its exceptions; no busy handler is
installed, so nothing waits. Nothing rolls back but `Rollback`, the closing of
the connection, because merge has no handler of its own.

**SyncStore.** The file is a sequence of cells `<<block, i>>`; a byte nobody
wrote is `Hole`. `Accept` is the call operator: it opens with "wb" when `from`
is 0 and with "r+b" and a seek otherwise, only the first time, then appends to
the buffer, any prefix of which the C library may flush. `AcceptShort`,
`OpenFails`, `CloseFails` and `Lose` are the failures.

**Segments.** The operators of list's SQL: `Reached` is where the recursion
stops, `GroupOf` the column k, `Ranges` the final select. Its "order by", and
those of assign_blocks, are `Ascending` of **OrderBy**.

**Checkout.** One run of `vv checkout`: the target is opened and truncated
(`xopen_for_write`) or is standard output, the parser stages the ids of the
manifest (`Stage`), `List` runs the query, `NextRange`, `Fread` and `DoFlush`
are the copy loop with its buffer, `Exit` closes the target. The failures are a
manifest that is missing or does not parse (`ListFails`), a vvpkg.bin that is
absent, short or unreadable (`FreadFails`), and a write that fails or is short
(`FlushFails`), anywhere. The byte of vvpkg.bin at position a is modelled by a
itself, so that a byte copied from the wrong place shows. The index is fixed:
the query reads one snapshot. `wanted` is a history: what the target is to hold.
It is the bytes that `list` returns, which are those of the manifest's blocks up
to the first that has no row (`Reached`): exit code 0 says that the target holds
these. Every id of a commit that returned has a row (`CommittedIndexed`), so of
such a revision that is all of it; a revision whose commit failed may check out
short with exit code 0, as `FailedIsPrefix` says.
`Repository` copies a range in one step and lets other handles act between two
ranges; `Checkout` has the loop inside it, alone.

**Repository.** `job[h].pc` says where the call of h stands:

    commit    consume -> assign -> begin -> (emit -> feed)* -> consume ... -> close -> finish
    checkout  open -> copy* -> flush
    either    -> thrown -> idle

One action is one call of the code that other handles can observe. An exception
in commit goes to `close` with `throwing` set: the destructors of the store and
the revision run, as the language runs them. `Discard` destroys the object that
threw (its connection rolls back, its temporary table goes), which is what the
program `vv` does; `Keep` is a caller that goes on with it. A bundle is a
sequence of blocks; the end of the input stands for both exits of the loop.
`NewRevision` with a name that exists, and `checkout` of a name that does not,
throw before they change anything and are left out. A statement that throws
(`NewRevisionFails`, `AssignFails`) leaves a manifest that its destructor
closes: a revision that failed can be checked out, and `FailedIsPrefix` says
what that gives: as many bytes as a prefix of what was read has, and those bytes
but for blocks that were lost or that another revision has as well (`Shared`),
whose commit may have published their rows and not yet flushed their data.

The errors of SQL that have actions are those of the revision's statements
(fault "sql"), an insert that is refused (busy, read-only or a constraint), and a
begin inside an open transaction. Other errors throw as well and have no action;
what they leave behind is nearly what others leave:

- in merge (vfile.cc, 103-130), a begin that fails with nothing open leaves the
  handle as it was; a getsize that fails leaves the transaction open without the
  lock, as `EmitFails` before the first row; an insert that fails otherwise
  leaves what `FeedFails` leaves; a final commit that fails leaves the
  transaction open with the lock, as `EmitFails` after a row, or rolled back by
  SQLite. No row of that merge is published in any of them;
- in list (174-185), a begin that fails leaves the handle as it was; a staging
  or a commit that fails leaves the transaction open, as `ListUnparsable`; a
  query that fails leaves newfile filled and nothing open, as `CopyFails`;
- in the function list returns (191), a delete that fails leaves newfile filled
  at the end of the list, as `CopyFails` within it.

What is left ends with the object where callers drop one that threw
(`KeepAfterThrow` FALSE).

`content`, `outcome` and `lost` are history variables: what the reader yielded,
how a commit ended, and the blocks whose last written copy was in a buffer that
was dropped. No action reads them.

**ContentChunking.** Of the bundle the model keeps the bytes from gbase() to
epptr_ (`buf`), the mark of what is not in a block yet (`pptr`), the marked
blocks (`pos`) and the fingerprint; of the running consume() its `reached_eof`
and of split_into_blocks its scan pointer and `lbp`. `Consume` moves what is left
over, `Read` and `ReadZero` are one turn of the reading loop with any count the
reader may return, `ScanExempt`, `ScanByte` and `ScanLast` one turn of the
scanning loop, `SplitEnds` its return, `Merge` the body of commit's loop. A
fingerprint is a function of the window (`Breaks` are the windows at which it
equals break_value), because rabin_fingerprint keeps nothing else; a digest
stands for the bytes it was computed from. A reader is a "descriptor", whose
errors are negative and throw, or a "stream", whose errors are 0 and look like
the end of the input. (A streambuf whose sgetn throws, which stream_funcs.h, 13,
passes on, is for commit what the descriptor is: the exception leaves consume()
and commit().) A bundle passes from a commit that returned to the next
one; the bundle of a commit that threw is discarded, as `vv` does by ending.

**ManifestStream.** The two streams of one manifest. The writer follows the
calls of manifest_creater one character or digest at a time: `Put`, `Push`,
`Flush` of rapidjson's FileWriteStream; the reader follows manifest_parser over
FileReadStream (`Advance` is Read, `Refill` its fread and the NUL it adds).
`Die` stops the writer anywhere. `Written` is fwrite, whose result the stream
ignores: with "lasting" failures nothing is written after the first one; with
"passing" ones, writing resumes. The run has lasting ones (a full disk). With
passing ones `ParsedIsAppended` is false: Push flushes between two tokens, so
what is lost may be whole elements, and the manifest parses with ids missing.
That is listed as a hazard; nothing in the repository promises otherwise.
stdio's own buffer only delays the file and is left out.

**Revision.** The object that writes the manifest, and the caller that
destroys it. `at` is where the committing thread stands:

    ready -> stage -> query -> cleanup -> wait -> returned -> ready ... -> closing -> closed
    stage, query, cleanup -> unwinding -> thrown -> closing

`AssignBlocks` starts the thread, whose steps are those of the writer
(`Assigning`); `Return` is future::wait and `Join` the destructor of the future,
which an exception runs. The temporary table is private to the connection, so
the rows of a bundle are staged in one step, of which `SqlFails` may leave any
part. Others insert into cblocks meanwhile (`IndexedElsewhere`).

**Rabin.** Words are the sets of the positions of their bits (`Words`), so that
shifts, polynomial division and the tables T and U are those of the code at any
width. `ValueIsWindow` holds the value against long division of the whole
window; `ImplementsWindow` shows the ring, whose position reset() does not
reset, to be a plain sliding window (`SlidingWindow`), the thing
`ContentChunking` has.

**Blake2Stream.** The context of a hasher, with the record `log` of what was
compressed in the place of h: each block with its counter and flag. `Update` is
a call, `FillBuffer`, `Bulk`, `CompressNext` and `Stash` its parts; `Final` is an
operator, as digest() finishes a copy. `Blake2Blocks` says which blocks BLAKE2
compresses for a message; `DigestOfMessage` that Final leaves the same. What
compressing does to h is `Blake2`, for both variants, over the words of `Words`;
`Blake2b` and `Blake2s` hold their tables and parameters. `Hashes` puts this
and `Rabin` side by side and runs either, as `which` says: they share nothing.

`Repository` uses none of these: it takes a bundle to be a sequence of blocks,
which is what `ChunksOfContent` and `IdsMatchData` say of chunking; a manifest
to be unparsable until it is complete, which is what `ParsedIsAppended` and
`CompleteParses` say of the streams; and assign_blocks to append and to look up
in one step, because its thread has ended when it is left (`ThreadEndsFirst`)
and its answer is one of its own bundle (`MissingOfBundle`).

**RevisionStore.** The promise: a map from names to contents that only grows,
and checkouts that return what it holds. The refinement mapping computes
`stored` from manifest, index and file as they are, so bytes that are
overwritten later would show as a change of `stored`.

Abstractions. Digests of distinct blocks are distinct, and a manifest of another
origin is not considered. A process may die; a machine that loses power is not
modelled (nothing is ever synced to disk, so there even a commit that returned
may be lost). SQLite does what its documentation says of WAL mode. A handle is
opened on a directory whose tables exist. Reading a manifest is one step: it is
unparsable until its last byte is written and never changes after
(`ManifestStream` has it byte by byte).

The modules hold operators marked "Mutant": each changes one definition the way
a plausible bug would; a property is only kept if such a bug violates it.

## 4. The runs

| Run | Question | Instance |
|---|---|---|
| `index` | Does the index stay a growing tiling under every interleaving? | 3 blocks of 1, 2, 3 bytes, 2 writers, 1 handle "r" |
| `checkout` | Does the target get the blocks that list() returns, and does the exit code say so? | every index of 3 blocks of 1, 2, 2 bytes at offsets up to 3, up to 4 ids, buffer of 3, vvpkg.bin absent, short or whole |
| `manifest` | Is a manifest that parses the one that was appended, and what does assign_blocks leave behind? | 2 ids of 2 digits, bundles of 1 or 2, up to 3 ids, buffers of 4, failing SQL, a death, a full disk |
| `chunking` | Do blocks depend on the content alone, and fit? Does a commit end? | every input of up to 8 bytes over 2 values; window 2, blocks of 3 to 5 bytes, buffer of 6 |
| `hashes` | Is the fingerprint that of the window, the digest that of the message? | words of 8 bits, bytes of 3, window 3, 5 polynomials; messages of up to 9 bytes, blocks of 3, words below 5 |
| `serial` | Is the repository the map it promises to be? | 2 handles, 3 revisions, 3 inputs, no fault |
| `faults` | What do crashes, failing I/O and failing SQL spoil? | 2 handles, one "r", 2 revisions, all faults |
| `concurrent` | What survives two commits at once and objects used after they threw? Does every call end? | 2 handles, 2 revisions, blocks of 1 byte, failing writers |
| `stale_list`, `race`, `crash`, `empty` | Four ways in which a committed revision cannot be retrieved | as above |

The inputs are the empty file, one bundle that repeats a block, and two bundles
that overlap with each other and with the first. So a second commit finds some
blocks stored and some not, a bundle repeats an id, an input spans two merges
and a block of two bytes can be cut by a flush or a short write. Two handles are
enough for every race between a committer and another committer or a reader; a
second revision is enough to commit on top of damage, the third of `serial` to
commit on top of shared blocks twice. `concurrent` has blocks of one byte: what
it checks does not depend on a block being cut. `NewfileBound` bounds the rows
that abandoned checkouts pile up on one handle; it matters in `concurrent` and
`stale_list` only, where `Keep` is possible, and is not below the length of any
manifest of theirs. Deadlock is not checked in `concurrent`, which may stop at
that bound, and in `checkout` and `manifest`, whose program ends; everywhere else
it is.

In `checkout` the buffer is longer than one block, shorter than two and ends
within ranges, at their ends, and at the end of the list; the offsets leave gaps
and put blocks in any order, so ranges are joined and sought. The rows of one
index never overlap (`IndexTiled`), gaps are more than a commit leaves.

In `hashes` a window has nine bits and a word eight, so fingerprints wrap; the
polynomials have the highest degree a word can hold, as the code's has, the
lowest the tables allow, and some between. A message of nine bytes has three
blocks and a counter that carries at five; `Data` is everything up to nine bytes,
so every split is there, with calls of nothing. The compression functions run
with the real words and blocks on the messages of tests/test_hash.cc.

The sizes of `chunking` keep what distinguishes the real ones (a window of 128,
blocks of 12288 to 98304, 4096 bytes of slack): the window is shorter than the smallest block and
the buffer is exactly the smallest that CapacityAssumption allows, so that it is
full, has one byte of room or leaves the longest remainder. An input of 8 bytes
is longer than the buffer: it takes two calls of consume with bytes left over
between them, a block cut by its window, one cut at the maximum and a last short
one, and the next commit finds what the first left in the bundle. In `manifest`
an id takes up to five characters, with its quotes and comma, and the buffer
four, so Push finds every amount of room; three ids make 16 characters, four
full buffers, the case in which the reader learns of the end of the file from an
empty read, and two bundles, of which the second finds what the first left.

Fairness. In `Repository`, `FairSpec` assumes that a call that started, and the
destruction of an object that threw, is scheduled until it ends (weak fairness of
`Step(h)`). The code has no lock of its own and SQLite refuses instead of
blocking, so a thread that runs is all it takes. Nothing is assumed about calls
being started, or about faults. In `ContentChunking` a commit that started runs
on and its reads return; in `Revision` the committing thread, the one it starts
and the reading one run on. In `Checkout` the program runs on (`Progress`), parsing
ends, in a list or in an exception (`Parsed`, which is why `List` alone is not
in `Progress`: a manifest that does not parse never gets there), and fread fails
where the file has ended. None assumes that a read, a write or a process ever
fails, or does not.

What the passing runs show. With commits one at a time and no fault, the
repository implements `RevisionStore`, with checkouts at any moment. With
faults, exactly the blocks whose buffered data was dropped are damaged. A
checkout that returns, of a revision whose commit returned and which has no such
block, wrote it exactly. Not every such revision can be checked out: the last
bytes of a manifest are written by a destructor that reports nothing, and if
that fails (`CloseRevision`, fault "write"), commit returns, its manifest does
not parse, and a checkout throws. What a revision that
failed reads back as has the length of a prefix of its input and its bytes, but
for lost and shared blocks; the write lock is only held by a
call that runs or an object that threw. With commits at the same time, the index
stays a tiling, what a commit that returned listed is indexed, and calls end.

Chunks are a function of the content, whatever the sizes of the reads and
whatever state the fingerprint was left in; a commit never takes a full bundle
for the end of its input. The fingerprint and the digests are functions of the
window and of the message. A manifest that parses is complete, although it is
read while it is written and its write errors go unnoticed, provided that
failures last; no thread outlives the call that started it. A checkout writes
the blocks that list() returns byte for byte, stops with a prefix of them when
anything fails, and its exit code tells which. They are all the blocks of the
manifest when each of them has a row, which is so once the commit has returned.

What the violated ones show (see `findings` in PROJECT.json):

- `race`: with commits at the same time the *data* does not stay right. merge
  emits before it holds the write lock, so the loser has already overwritten, or
  truncated, the file when SQLite refuses its insert.
- `crash`: rows are committed before their data is flushed; a later commit takes
  them for stored blocks, and its revision is lost although it returned.
- `stale_list`: after a checkout failed in the writer, the next checkout of the
  same object returns the rows of both.
- `empty`: an empty first revision can be committed and not checked out.

## 5. The proofs

Every theorem holds for all values of the constants that satisfy the named
assumptions of its module; where it needs more, the README and its statement say
so. A theorem that names a property of a run is written theorem: `Property`.

`SequenceLemmas` is what the other modules share. The provers cannot instantiate
the library's induction theorems, so it takes induction as a fact about sets:
every nonempty set of naturals has a least element (`LeastNat`, from the
well-foundedness of <), hence a set that has 0 and every successor is everything
(`Induction`), and a claim is proved for all n by forming the set of the n that
satisfy it. In this way it shows what FlattenSeq, which is recursive, does to a
concatenation, and that `Ascending` lists a finite set in order, once each.

`BlockIndex_proofs` proves, for every set of blocks and handles and every
assignment of sizes:

| Theorem | States |
|---|---|
| `Invariance` | `IInv` is an invariant |
| `TypeCorrect` | `TypeOK`, a conjunct of `IInv` |
| `Tiling` | `IndexTiled`: no overlap, no gap |
| `RowsArePermanent` | `AppendOnly` |
| `FreshOffsets` | `OffsetFree`, when no block is empty |

Assumptions: sizes are naturals and `NoOffset` is not one. `IndexTiled` is not
inductive: what a commit publishes is a view, so the views have to be tiled too,
and up to the `offset` the merge has reached (`ViewsTiled`, `EndsAt`); and
publishing a view drops rows unless the writer has seen every published one
(`WriterUpToDate`), which holds because a first insert compares the snapshot and
because no other transaction writes (`OneWriter`). `GetSizeIsEnd` shows that
getsize finds the end of a tiling, `FeedTiled` that a row fed at the end extends
it; then there is one lemma or step for each action. `IInv` is checked by the
run `index` as well. The theorems use neither that sets are finite nor that
sizes are positive, except `FreshOffsets`.

`Segments_proofs` proves `RangesRead`: for every index, every list of ids and
every file, reading the ranges of list's query one after the other reads the
blocks of the rows the recursion reached, in order and byte for byte. The ranges
are the groups of consecutive rows that abut, so the proof is an induction over
the groups: the rows of one are contiguous in the file (`Piece`), its minimum and
maximum are the ends of its first and last row, and the groups in ascending order
partition the list. It does not assume that rows tile the file or that blocks
are not empty.

`Checkout_proofs` proves, for every size of the buffer, index, manifest, length
of vvpkg.bin and failure:

| Theorem | States |
|---|---|
| `Invariance` | `IInv` is an invariant |
| `ListingExact` | `ReadsWhatIsListed`, from `RangesRead` |
| `CopyLosesNothing` | `NothingLost` |
| `RoomInBuffer` | `BufferHasRoom` |
| `ExitCodeIsHonest` | `ExitCodeHonest` |

Assumptions: the buffer holds a byte and no block is empty. The argument is one
conserved quantity: while the loop runs, the target, the buffer, what is left of
the range being read and the ranges that are left are together what was wanted.
`AtLoop` places the loop (room in the buffer before each fread, nothing left of
the range behind the last), so that at the end the target alone is all of it;
`Outcome` remembers how it ended.

`ContentChunking_proofs` proves, for every window, minimum, maximum, capacity,
input and set of windows that are boundaries:

| Theorem | States |
|---|---|
| `Invariance` | `IInv` is an invariant |
| `TypeCorrect` | `TypeOK`, a conjunct of `IInv` |
| `NeverStalls` | `FullHasBlocks`: commit's loop never mistakes a full bundle for the end |
| `NeverOverflows` | `NotFull`: the assertion of consume() holds |
| `BlocksBounded` | `BlockBounds`, a conjunct of `IInv` |
| `CutByContent` | `IInv` and `CInv` are invariants |
| `DigestsMatch` | `IdsMatchData`: what is merged under an id has that digest |
| `SameContentSameBlocks` | `ChunksOfContent`: a commit stored `Chunks` of what it read |

Assumptions: the window is shorter than the smallest block, that is smaller than
the largest, and `Capacity >= MaxSize + Slack - 1`, which the buffer of `vv`
satisfies and which the code does not check (a smaller one loses data silently;
see the hazards). The argument: a scan never gets `MaxSize` bytes beyond the
last mark (`ScanPlaced`), because a block ends there at the latest; so less than
that is left over when the buffer is scanned (`LeftoverBounded`), and the next
read finds room. Reading stops only at the end of the input or when less than
`Slack` bytes are free (`BufferFilled`), so a buffer that is full holds at least
`MaxSize` bytes, more than can be left over: there is a block. `Cleared` is
needed because mark_new_block finds the bytes to hash by the end of the last
block, and that is where the scan starts only in an empty bundle.

`Chunks` cuts a whole sequence, by a recursive function; the bundle cuts what has
come so far, with reads of any size. Between them stands `Chain`: blocks that end
at the first byte where one may, or at the end of the input. `CInv` says that the
blocks stored and marked are a chain up to where the scan stands (`Returned`,
`Carried`, `Filled`: between commits, between two calls of consume, within one),
that no byte scanned since ends a block, and that the window has the last bytes
as far as they count (`Scanned`): what came before the minimum, or before a
commit, has been pushed out when the first boundary is asked for. `ChainIsChunks`,
by induction on the number of blocks, says that a chain of the whole input is
what `Chunks` computes.

`Hashes_proofs` proves of hashing, for every set of bytes, size of a block, size
of a word, bound on the message and set of data a call may bring:

| Theorem | States |
|---|---|
| `Invariance` | `IInv` is an invariant |
| `DigestCorrect` | `DigestOfMessage`: the digest is that of the message, however it was split |
| `NeverOutOfBounds` | `InBounds`: no memcpy leaves the buffer, compress reads whole blocks |
| `TypeCorrect` | `TypeOK`, a conjunct of `IInv` |

Assumptions: a block is at least a byte long and shorter than a word can count,
and no message is longer than two words can count, as with BLAKE2's 128 and 64
bits. The argument: what was compressed are the blocks of a prefix of the
message, none of them the last (`LogIsPrefix`); the counter, in two words with
the carry of the code, is the length of that prefix (`Counted`); the rest is in
the buffer and in what Update has not come to (`RestKept`). These do not suffice:
a buffer that was emptied at the end of a call would leave Final an empty last
block. `BlockKeptBack` says that, between calls, the buffer is empty for the
empty message only, and what each branch of Update needs for that.
`OneBlockKept` turns it into the number of blocks, `FinalIsBlocks` compares
entry by entry; `CarryAdds` is the arithmetic of the counter, and the small
lemmas at the start are what the provers lack about products and division.

And of the fingerprint, for every width of a word, every width of a byte that is
not more, every size of the window and every set of polynomials:

| Theorem | States |
|---|---|
| `RabinInvariance` | `RabinOK` is an invariant |
| `FingerprintCorrect` | `ValueIsWindow`: the fingerprint is the remainder of the window |
| `SlidingWindowImplemented` | `ImplementsWindow`: the ring is a plain sliding window |

Assumption: a polynomial is a word of degree ByteBits (8) at least, without which
the shift of rabin_polynomial would be negative. The argument: polynomials of any
degree are sets of exponents, and the multiples of d are the least set that has 0
and is closed under adding d times a power (`Multiples`). `Same`, that two
polynomials differ by a multiple, is compatible with sums and with products by a
power, and a polynomial shorter than d is the only one of its class (`Unique`,
because a multiple other than 0 keeps a term as high as d's: `TopStays`). The
loops of the code are folds; the functions they choose exist (`FoldExists`), so
that each loop is a run of steps (`LowFold` and its like), and each step of
polymod takes a multiple of d away and the highest bit that is left, first over
both words and then over the low one (`HighLoopIs`, `LowLoopIs`). Hence polymod is
a remainder (`PolymodIs`) and polymult a product (`PolymultIs`, with nothing lost
where it leaves the low word); T replaces the byte that leaves the word
(`LookupIs`, `AddByteIs`) and U holds what the oldest byte is worth
(`SlideOutIs`). `RabinOK` follows the window through this: the oldest byte's term
is taken away, the others move up by a byte, the new one is added (`TermsAre`,
`SlidTerms`); `FromIs` finds each byte of the window in the ring, wherever
bufpos stands. That long division, the reference, gives a remainder is
`ModIs`, by induction on the degree.

`Revision_proofs` proves, for every set of ids and bundles, length of a digest
and size of the buffers:

| Theorem | States |
|---|---|
| `Invariance` | `IInv` is an invariant |
| `ThreadsAreJoined` | `ThreadEndsFirst`: no thread outlives its call of assign_blocks |
| `BuffersHold` | `WithinBuffers`: neither stream leaves its buffer |
| `MissingBlocks` | `MissingOfBundle`: assign_blocks reports what the index lacks of its bundle |
| `CompleteOrRejected` | `ParsedIsAppended`, if failures last: a manifest that parses is complete |
| `CompleteIsAccepted` | `CompleteParses`, if failures last: one that was closed in full parses |

Assumptions: a digest fits into an empty buffer, which has room for four
characters (the code's have 4096, and a digest 40). The argument: `Return` and
`Join` need the thread to be done, a thread that is done has no step, and no step
but the next `AssignBlocks` gives it work; before the array begins there is
nothing to append (`ArrayBegun`). Push flushes, and so makes room, exactly when
there is too little; the reader's NUL goes behind a fread that did not fill the
buffer, and its next character is in the buffer because it begins with a refill
(`ReaderPlaced`). What is missing is left out of `TypeOK`: it comes of a sort,
and `MissingOfBundle` says more than its type.

`MissingBlocks` follows the rows of newrev through the statements (`Staged`): a
failure leaves any part of a bundle there and the next call would find it, but a
revision whose call threw is only destroyed. The theorems on the text assume
`Failures \subseteq {"lasting"}`; with failures that pass `ParsedIsAppended` is
false, as section 3 says. `TextInv` gives every character of the file and of the
writer's buffer by its position (`Texted`: pieces of one length, a mark, a quote,
a digest, a quote), places the writer in that text (`WriterAt`), says that
nothing follows the bracket (`Ended`), that the reader's buffer is a part of a
file that may have grown since (`Holds`) and how much of the text the parser has
taken (`Parsed`). A lasting failure leaves a prefix of the text, and only the
whole text ends in the bracket that the parser asks for.

`Repository_proofs` proves, for every set of blocks, handles, revisions and
inputs, for all faults and with any number of calls at once:

| Theorem | States |
|---|---|
| `Invariance` | `IInv` is an invariant |
| `TypeCorrect` | `TypeOK` |
| `TilingInUse` | `IndexTiled` |
| `RowsStayInUse` | `AppendOnly` of the index |
| `ManifestsAreFinal` | `ManifestFinal` |
| `CommitsAreIndexed` | `CommittedIndexed` |

and with the callers restricted as the table says:

| Theorem | States | Callers |
|---|---|---|
| `LockIsReleased` | `LockHeldByCall` | drop an object that threw |
| `BlocksOnDisk` | `CommittedOnDisk` | run one commit at a time |
| `DamageIsConfined` | `DamageConfined` | run one commit at a time |
| `CheckoutsAreExact` | `CheckoutExact` | both |
| `FailedCommitsArePrefixes` | `FailedIsPrefix` | both |
| `CheckoutsAreReadable` | `CheckoutReadable` | both |
| `PromiseKept` | `ImplementsPromise`, refinement of `RevisionStore` | both, and no crash or failing write |

The restrictions are those under which the runs pass, and needed: `race`,
`stale_list` and `crash` are what happens without them. That one commit runs at a
time is what tests/test_repository.cc does; that an object that threw is dropped
is what `vv` does.

The index first: every step of a repository is a step of `BlockIndex` or leaves
the index alone, so that the theorems of `BlockIndex_proofs` carry over (an
INSTANCE). `IInv` adds what a call owns: its revision's manifest (`Owned`), a
stream that is open only while it commits (`Streams`), and `Commits`: every id a
commit has read is in its manifest, and either indexed, by what the commit
publishes, or among those it has still to merge. That survives another commit
indexing an id between the query and the merge, since rows stay.

The data next. `SerialInv` says where the bytes of every row are: in the file, or
in the buffer of the one stream that is open (`Holds`, for the published index and
for the view of the merge that runs), unless a fault dropped them. It needs that
the one commit sees what is published (`Snapshot`), that its stream stands where
its next row points (`Position`), and that what commits before it stored lies
below anything it may write (`Settled`).

Checkouts last. `ReadInv` says that a checkout has written, and has yet to read,
the bytes of the first blocks of its revision (`Reads`), where a byte may differ
only if its block was lost or, for a revision that failed, shared; `RangesRead`
starts it, rows that never move carry it. `Clean` excludes rows of an earlier
checkout, `Below` an append that overwrites what is being read. For the
refinement, `Whole` adds that a commit that returned has read an input to its
end; then `stored` and `reading` of the mapping, which look at manifest, index
and file, are computed to be what was read, and every step is one of
`RevisionStore`'s or none: a commit takes effect in the step in which it returns.

`IInv` of the index, of chunking, of revisions and of hashing is also an
invariant of the module's run.

Only model-checked:

- of `Blake2` the known answers: nothing is said of its strength;
- liveness (`CallsEnd`, `CommitEnds`, `ParseEnds`, `Exits`), which is beyond the
  proof system used here, as is that the recursion of the SQL ends;
- what the four violated runs show: those are counterexamples.

`SyncStore` has no theorems of its own: what it promises, that bytes arrive where
the index says, is part of `SerialInv`.

## 6. Not modelled

- block_arrangement: a JSON writer that nothing in the repository calls.
- dump_blocks: the loop of commit over a bundle, which prints the digests.
- stdex (string_view, function signatures, defer): values without state of
  their own, used as the standard's would be.
- The wrappers of descriptors and streams do nothing but call the system; their
  one trap, that a read error looks like the end of the file, is in
  `ContentChunking` as the reader "stream". Their Windows branches are not
  modelled.
- What a system reports late: the result of closing the target of a checkout is
  ignored, and so is what the kernel does with bytes after write accepted them.
- `vfile`'s move constructor leaves `path_` a view of the moved-from string when
  that is short (vfile.h, 41). It is listed as a hazard: whether the view dangles
  depends on the standard library, and the only moves in the repository are of
  temporaries, which compilers elide (vv.cc, 38, 53).
- Hosts that are not little-endian: Final of BLAKE2b copies the words of h as
  they lie in memory (blake2b.cc, 263). The model has the little-endian result.
- SQL errors inside merge and list other than a refused insert and a begin in an
  open transaction: section 3, under Repository, says what each leaves behind.
- That an object whose transaction stayed open refuses every later call: the
  model has it (`MergeBegin`, `ListRefused`), and no property states it. What is
  checked is that the lock it may hold ends with the object (`LockHeldByCall`).
- Blocks of no bytes, which only unmanaged_bundle makes: sizes are positive.
- The hash functions of hashlib that are openssl's.
- `finalize_file`, `add_block`, `copy_block`: declared or defined without a
  caller.

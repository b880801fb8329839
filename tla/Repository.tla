------------------------------- MODULE Repository -------------------------------
(***************************************************************************)
(* A repository directory and the handles that use it: basic_repository    *)
(* (include/vvpkg/repository.h) over vfile, revision and sync_store.       *)
(*                                                                         *)
(*   vvpkg.db     the index of blocks            module BlockIndex         *)
(*   vvpkg.bin    the bytes of the blocks        module SyncStore          *)
(*   <rev>.json   a manifest: the ids of the blocks of one revision        *)
(*                                                                         *)
(* A handle runs one call at a time, commit or checkout; its job records   *)
(* how far the call is.  Handles interleave: they are repository objects   *)
(* of threads or processes that share the directory.  What cuts a revision *)
(* into blocks is external here: a commit is given its bundles.            *)
(***************************************************************************)
EXTENDS Integers, SequencesExt, OrderBy

CONSTANTS Blocks, Handles, ReadOnly, Size, NoOffset,    \* see BlockIndex
          Hole, NoFile,                                 \* see SyncStore
          Revs,            \* the names of revisions
          NoRev,           \* no revision
          Inputs,          \* what may be committed: sequences of bundles,
                           \* a bundle being a nonempty sequence of blocks
          Faults,          \* the faults the environment may inject
          SerialCommits,   \* callers run one commit at a time
          KeepAfterThrow,  \* callers may go on with a handle that threw
          NewfileBound     \* bound on the rows left in a handle's newfile

\* Byte i of block b.
Cells == UNION {{<<b, i>> : i \in 1..Size[b]} : b \in Blocks}

ASSUME IndexAssumption ==      \* a block is never empty
    /\ Size \in [Blocks -> Nat \ {0}] /\ NoOffset \notin Nat
    /\ ReadOnly \subseteq Handles
ASSUME InputsAssumption == Inputs \subseteq Seq(Seq(Blocks)) /\ NoRev \notin Revs
ASSUME NoFileAssumption == NoFile \notin Seq(Cells \cup {Hole})
ASSUME FaultsAssumption == Faults \subseteq {"crash", "write", "read", "copy", "sql"}
ASSUME FlagsAssumption  == {SerialCommits, KeepAfterThrow} \subseteq BOOLEAN

VARIABLES cblocks, view, txn, offset,    \* the index
          bin, fp,                       \* the block data
          manifest,    \* manifest[r]: its ids; open until its array is closed
          newfile,     \* newfile[h]: the rows of h's temporary table
          job,         \* job[h]: the call h is running
          content,     \* history: the blocks the reader of r has yielded
          outcome,     \* history: how the commit of r ended
          lost         \* history: blocks whose last written copy was dropped

indexVars == <<cblocks, view, txn, offset>>
storeVars == <<bin, fp>>
history   == <<content, outcome, lost>>
vars      == <<indexVars, storeVars, manifest, newfile, job, history>>

Index == INSTANCE BlockIndex
Store == INSTANCE SyncStore
Query == INSTANCE Segments

Data(b)    == [i \in 1..Size[b] |-> <<b, i>>]
Bytes(ids) == FlattenSeq([i \in 1..Len(ids) |-> Data(ids[i])])

\* pc: where the call stands.  A commit has its revision, the input it has
\* not consumed, the bundle bs, the missing ids merge() has not stored and
\* merge()'s cursor `it`; throwing while an exception unwinds it.  A checkout
\* has its revision, the ranges not yet read and what it wrote.
Idle == [pc |-> "idle", rev |-> NoRev, input |-> << >>, bs |-> << >>,
         missing |-> << >>, it |-> 1, throwing |-> FALSE,
         segments |-> << >>, out |-> << >>]

CommitPcs   == {"consume", "assign", "begin", "emit", "feed", "close", "finish"}
CheckoutPcs == {"open", "copy", "flush"}

Absent == [state |-> "absent", ids |-> << >>]

Init ==
    /\ Index!Init
    /\ Store!Init
    /\ manifest = [r \in Revs |-> Absent]
    /\ newfile = [h \in Handles |-> << >>]
    /\ job = [h \in Handles |-> Idle]
    /\ content = [r \in Revs |-> << >>]
    /\ outcome = [r \in Revs |-> "none"]
    /\ lost = {}

At(h, pc)   == job[h].pc = pc
Goto(h, pc) == job' = [job EXCEPT ![h].pc = pc]

\* An exception leaves commit(): its destructors run next.
Throw(h) == job' = [job EXCEPT ![h] = [Idle EXCEPT !.pc = "close", !.throwing = TRUE,
                                                   !.rev = job[h].rev]]

\* An exception has left the call.
Thrown(h) == job' = [job EXCEPT ![h] = [Idle EXCEPT !.pc = "thrown"]]

Committing(h) == job[h].pc \in CommitPcs

------------------------------------------------------------------------------
(***************************************************************************)
(* commit                                                                  *)
(***************************************************************************)
\* Mutant: the manifest is opened "wb", not "wxb".
NewRevisionOverwriting(h, r, input) ==
    /\ At(h, "idle")
    /\ SerialCommits => \A g \in Handles : ~Committing(g)
    /\ manifest' = [manifest EXCEPT ![r] = [state |-> "open", ids |-> << >>]]
    /\ job' = [job EXCEPT ![h] = [Idle EXCEPT !.pc = "consume", !.rev = r,
                                              !.input = input]]
    /\ outcome' = [outcome EXCEPT ![r] = "running"]
    /\ UNCHANGED <<indexVars, storeVars, newfile, content, lost>>

\* new_revision creates the manifest, exclusively; a name that exists throws
\* before anything changed.  The sync_store opens nothing yet.
NewRevision(h, r, input) ==
    /\ At(h, "idle")
    /\ SerialCommits => \A g \in Handles : ~Committing(g)
    /\ manifest[r].state = "absent"
    /\ manifest' = [manifest EXCEPT ![r].state = "open"]
    /\ job' = [job EXCEPT ![h] = [Idle EXCEPT !.pc = "consume", !.rev = r,
                                              !.input = input]]
    /\ outcome' = [outcome EXCEPT ![r] = "running"]
    /\ UNCHANGED <<indexVars, storeVars, newfile, content, lost>>

\* The constructor throws after it opened the manifest, as a statement cannot
\* be prepared: the manifest's destructor closes an empty array, which stays.
NewRevisionFails(h, r) ==
    /\ "sql" \in Faults
    /\ At(h, "idle")
    /\ SerialCommits => \A g \in Handles : ~Committing(g)
    /\ manifest[r].state = "absent"
    /\ manifest' = [manifest EXCEPT ![r].state = "closed"]
    /\ outcome' = [outcome EXCEPT ![r] = "failed"]
    /\ Thrown(h)
    /\ UNCHANGED <<indexVars, storeVars, newfile, content, lost>>

\* bs.consume, and the exits of the loop: an empty bundle, or one that was
\* not full, ends it; both are the end of the input here.
Consume(h) ==
    /\ At(h, "consume")
    /\ IF job[h].input = << >>
       THEN Goto(h, "close") /\ UNCHANGED content
       ELSE LET bs == Head(job[h].input) IN
            /\ job' = [job EXCEPT ![h].pc = "assign", ![h].bs = bs,
                                  ![h].input = Tail(@)]
            /\ content' = [content EXCEPT ![job[h].rev] = @ \o bs]
    /\ UNCHANGED <<indexVars, storeVars, manifest, newfile, outcome, lost>>

\* The caller's reader throws.
ConsumeFails(h) ==
    /\ "read" \in Faults
    /\ At(h, "consume")
    /\ Throw(h)
    /\ UNCHANGED <<indexVars, storeVars, manifest, newfile, history>>

\* select distinct id from newrev left join cblocks ... is null, in the order
\* of the bundle; revision has its own connection, so it sees what is
\* committed now.
Missing(bs) ==
    LET first == {i \in DOMAIN bs : /\ cblocks[bs[i]] = NoOffset
                                    /\ \A j \in 1..(i - 1) : bs[j] # bs[i]}
        at == Ascending(first)
    IN  [n \in DOMAIN at |-> bs[at[n]]]

\* Mutant: the ids that are not missing are not appended.
AssignMissingOnly(h) ==
    /\ At(h, "assign")
    /\ manifest' = [manifest EXCEPT ![job[h].rev].ids = @ \o Missing(job[h].bs)]
    /\ job' = [job EXCEPT ![h].pc = "begin", ![h].it = 1,
                          ![h].missing = Missing(job[h].bs)]
    /\ UNCHANGED <<indexVars, storeVars, newfile, history>>

\* assign_blocks: a thread appends the ids to the manifest, and is waited
\* for (Revision), while the missing blocks are looked up.
AssignBlocks(h) ==
    /\ At(h, "assign")
    /\ manifest' = [manifest EXCEPT ![job[h].rev].ids = @ \o job[h].bs]
    /\ job' = [job EXCEPT ![h].pc = "begin", ![h].it = 1,
                          ![h].missing = Missing(job[h].bs)]
    /\ UNCHANGED <<indexVars, storeVars, newfile, history>>

\* A statement of assign_blocks throws; its thread has appended every id.
AssignFails(h) ==
    /\ "sql" \in Faults
    /\ At(h, "assign")
    /\ manifest' = [manifest EXCEPT ![job[h].rev].ids = @ \o job[h].bs]
    /\ Throw(h)
    /\ UNCHANGED <<indexVars, storeVars, newfile, history>>

\* merge: "begin" and getsize.  "begin" throws in an open transaction.
MergeBegin(h) ==
    /\ At(h, "begin")
    /\ IF txn[h] = "none"
       THEN Index!BeginMerge(h) /\ Goto(h, "emit")
       ELSE Throw(h) /\ UNCHANGED indexVars
    /\ UNCHANGED <<storeVars, manifest, newfile, history>>

\* Mutant: the search starts after `it`.
FoundAfter(h) == {i \in DOMAIN job[h].bs : /\ i > job[h].it
                                          /\ job[h].missing # << >>
                                          /\ job[h].bs[i] = Head(job[h].missing)}

\* std::find_if from `it` on, which never moves back.
Found(h) == {i \in DOMAIN job[h].bs : /\ i >= job[h].it
                                      /\ job[h].missing # << >>
                                      /\ job[h].bs[i] = Head(job[h].missing)}

\* emit: the data of the next missing block goes to the store at `offset`,
\* before its row is fed and before the transaction holds the write lock.
Emit(h) ==
    /\ At(h, "emit")
    /\ Found(h) # {}
    /\ LET i == Min(Found(h)) IN
       /\ Store!Accept(h, offset[h], Data(job[h].bs[i]))
       /\ job' = [job EXCEPT ![h].pc = "feed", ![h].it = i]
    /\ lost' = lost \ {Head(job[h].missing)}
    /\ UNCHANGED <<indexVars, manifest, newfile, content, outcome>>

\* The store throws: it cannot open vvpkg.bin, or fwrite is short.
EmitFails(h) ==
    /\ At(h, "emit")
    /\ Found(h) # {}
    /\ \/ ~Store!CanOpen(h, offset[h]) /\ Store!OpenFails(h)
       \/ "write" \in Faults /\ Store!OpenFails(h)
       \/ "write" \in Faults
          /\ Store!AcceptShort(h, offset[h], Data(Head(job[h].missing)))
    /\ Throw(h)
    /\ UNCHANGED <<indexVars, manifest, newfile, history>>

\* feed.run() inserts the row.
Feed(h) ==
    /\ At(h, "feed")
    /\ Index!Feed(h, Head(job[h].missing))
    /\ job' = [job EXCEPT ![h].pc = "emit", ![h].missing = Tail(@)]
    /\ UNCHANGED <<storeVars, manifest, newfile, history>>

\* Mutant: the error is ignored and the merge goes on.
FeedFailsIgnored(h) ==
    /\ At(h, "feed")
    /\ Index!FeedBusy(h) \/ Index!FeedConstraint(h, Head(job[h].missing))
    /\ job' = [job EXCEPT ![h].pc = "emit", ![h].missing = Tail(@)]
    /\ UNCHANGED <<storeVars, manifest, newfile, history>>

\* Mutant: the insert is tried again until it succeeds.
FeedRetried(h) ==
    /\ At(h, "feed")
    /\ Index!FeedBusy(h) \/ Index!FeedConstraint(h, Head(job[h].missing))
    /\ UNCHANGED <<storeVars, manifest, newfile, job, history>>

\* feed.run() throws, out of merge(): the transaction stays open.
FeedFails(h) ==
    /\ At(h, "feed")
    /\ Index!FeedBusy(h) \/ Index!FeedConstraint(h, Head(job[h].missing))
    /\ Throw(h)
    /\ UNCHANGED <<storeVars, manifest, newfile, history>>

\* No id is missing any more, or find_if found none: "commit", and the loop
\* of commit() clears the bundle and goes on.
MergeCommit(h) ==
    /\ At(h, "emit")
    /\ Found(h) = {}
    /\ Index!Commit(h)
    /\ job' = [job EXCEPT ![h].pc = "consume", ![h].bs = << >>, ![h].missing = << >>]
    /\ UNCHANGED <<storeVars, manifest, newfile, history>>

BlocksIn(cells) == {cells[i][1] : i \in DOMAIN cells}

\* Mutant: a commit that throws drops the stream instead of closing it.
CloseStoreUnlessThrowing(h) ==
    /\ At(h, "close")
    /\ Goto(h, "finish")
    /\ IF job[h].throwing THEN Store!Lose(h) ELSE Store!Close(h)
    /\ UNCHANGED <<indexVars, manifest, newfile, content, outcome, lost>>

\* The sync_store is destroyed first: the stream is flushed and closed, in
\* full or, without a word to anyone, in part.
CloseStore(h) ==
    /\ At(h, "close")
    /\ Goto(h, "finish")
    /\ \/ Store!Close(h) /\ UNCHANGED lost
       \/ /\ "write" \in Faults
          /\ \E k \in 0..Len(fp[h].buf) :
                /\ Store!CloseFails(h, k)
                /\ lost' = lost \cup
                       BlocksIn(SubSeq(fp[h].buf, k + 1, Len(fp[h].buf)))
    /\ UNCHANGED <<indexVars, manifest, newfile, content, outcome>>

\* The revision is destroyed next: manifest_creater closes the array, during
\* unwinding too.  When the manifest cannot be flushed nobody is told, and
\* it stays unparsable.
CloseRevision(h) ==
    /\ At(h, "finish")
    /\ \/ manifest' = [manifest EXCEPT ![job[h].rev].state = "closed"]
       \/ "write" \in Faults /\ UNCHANGED manifest
    /\ IF job[h].throwing
       THEN /\ outcome' = [outcome EXCEPT ![job[h].rev] = "failed"]
            /\ Thrown(h)
       ELSE /\ outcome' = [outcome EXCEPT ![job[h].rev] = "ok"]
            /\ job' = [job EXCEPT ![h] = Idle]
    /\ UNCHANGED <<indexVars, storeVars, newfile, content, lost>>

------------------------------------------------------------------------------
(***************************************************************************)
(* checkout                                                                *)
(***************************************************************************)
StartsCheckout(h, r) ==
    /\ At(h, "idle")
    /\ manifest[r].state # "absent"
    /\ Len(newfile[h]) <= NewfileBound

\* vfile::list: the ids of a parsable manifest are staged after whatever
\* newfile holds, and the query computes the ranges from all its rows.
List(h, r) ==
    /\ StartsCheckout(h, r)
    /\ manifest[r].state = "closed"
    /\ txn[h] = "none"
    /\ LET rows == newfile[h] \o manifest[r].ids IN
       /\ newfile' = [newfile EXCEPT ![h] = rows]
       /\ job' = [job EXCEPT ![h] = [Idle EXCEPT !.pc = "open", !.rev = r,
                                         !.segments = Query!Ranges(cblocks, rows)]]
    /\ UNCHANGED <<indexVars, storeVars, manifest, history>>

\* The parser throws after "begin": the transaction stays open (the rows it
\* staged go when it is rolled back).
ListUnparsable(h, r) ==
    /\ StartsCheckout(h, r)
    /\ manifest[r].state = "open"
    /\ Index!Begin(h)
    /\ Thrown(h)
    /\ UNCHANGED <<storeVars, manifest, newfile, history>>

\* "begin" throws: an earlier call left a transaction open.
ListRefused(h, r) ==
    /\ StartsCheckout(h, r)
    /\ txn[h] # "none"
    /\ Thrown(h)
    /\ UNCHANGED <<indexVars, storeVars, manifest, newfile, history>>

\* xfopen of vvpkg.bin.
OpenBin(h) ==
    /\ At(h, "open")
    /\ IF bin = NoFile THEN Thrown(h) ELSE Goto(h, "copy")
    /\ UNCHANGED <<indexVars, storeVars, manifest, newfile, history>>

FirstRange(h)    == Head(job[h].segments)
RangeSize(h) == FirstRange(h).last - FirstRange(h).first

\* One range is read and copied out, whatever the sizes of the chunks.
CopyRange(h) ==
    /\ At(h, "copy")
    /\ job[h].segments # << >>
    /\ RangeSize(h) # 0
    /\ Store!Readable(FirstRange(h).first, RangeSize(h))
    /\ job' = [job EXCEPT ![h].segments = Tail(@),
                          ![h].out = @ \o Store!BytesAt(FirstRange(h).first, RangeSize(h))]
    /\ UNCHANGED <<indexVars, storeVars, manifest, newfile, history>>

\* The file ends inside the range, a read fails or the writer does: the
\* exception leaves the rows of newfile behind.
CopyFails(h) ==
    /\ At(h, "copy")
    /\ job[h].segments # << >>
    /\ RangeSize(h) # 0
    /\ "copy" \in Faults \/ ~Store!Readable(FirstRange(h).first, RangeSize(h))
    /\ Thrown(h)
    /\ UNCHANGED <<indexVars, storeVars, manifest, newfile, history>>

\* Mutant: "delete from newfile" is forgotten.
EndCopyKeepingRows(h) ==
    /\ At(h, "copy")
    /\ IF job[h].segments = << >> THEN TRUE ELSE RangeSize(h) = 0
    /\ Goto(h, "flush")
    /\ UNCHANGED <<indexVars, storeVars, manifest, newfile, history>>

\* The range (0, 0) ends the loop; list()'s function returned it because it
\* is drained, and then emptied newfile, or because a range is empty.
EndCopy(h) ==
    /\ At(h, "copy")
    /\ IF job[h].segments = << >>
       THEN newfile' = [newfile EXCEPT ![h] = << >>]
       ELSE RangeSize(h) = 0 /\ UNCHANGED newfile
    /\ Goto(h, "flush")
    /\ UNCHANGED <<indexVars, storeVars, manifest, history>>

\* The last do_flush: checkout returns, or the writer fails.
Flush(h) ==
    /\ At(h, "flush")
    /\ \/ job' = [job EXCEPT ![h] = Idle]
       \/ "copy" \in Faults /\ Thrown(h)
    /\ UNCHANGED <<indexVars, storeVars, manifest, newfile, history>>

------------------------------------------------------------------------------
(***************************************************************************)
(* What callers and processes do                                           *)
(***************************************************************************)
\* Mutant: the connection is leaked with its transaction.
DisconnectLeaking(h) == UNCHANGED indexVars

\* SQLite rolls back what the connection of h had open.
Disconnect(h) == IF txn[h] = "none" THEN UNCHANGED indexVars ELSE Index!Rollback(h)

\* Mutant: the connection that threw is used for the next object.
DiscardKeepingRows(h) ==
    /\ At(h, "thrown")
    /\ Disconnect(h)
    /\ job' = [job EXCEPT ![h] = Idle]
    /\ UNCHANGED <<storeVars, manifest, newfile, history>>

\* The repository object that threw is destroyed; h is a new one.
Discard(h) ==
    /\ At(h, "thrown")
    /\ Disconnect(h)
    /\ newfile' = [newfile EXCEPT ![h] = << >>]
    /\ job' = [job EXCEPT ![h] = Idle]
    /\ UNCHANGED <<storeVars, manifest, history>>

\* The caller catches the exception and goes on with the same object.
Keep(h) ==
    /\ KeepAfterThrow
    /\ At(h, "thrown")
    /\ job' = [job EXCEPT ![h] = Idle]
    /\ UNCHANGED <<indexVars, storeVars, manifest, newfile, history>>

\* The process dies in a call: the buffer of the stream is gone, and the
\* manifest is never closed.
Crash(h) ==
    /\ "crash" \in Faults
    /\ ~At(h, "idle")
    /\ Disconnect(h)
    /\ Store!Lose(h)
    /\ newfile' = [newfile EXCEPT ![h] = << >>]
    /\ job' = [job EXCEPT ![h] = Idle]
    /\ lost' = lost \cup BlocksIn(fp[h].buf)
    /\ outcome' = IF Committing(h) THEN [outcome EXCEPT ![job[h].rev] = "dead"]
                  ELSE outcome
    /\ UNCHANGED <<manifest, content>>

Start(h) ==
    \E r \in Revs : \/ \E input \in Inputs : NewRevision(h, r, input)
                    \/ NewRevisionFails(h, r)
                    \/ List(h, r)
                    \/ ListUnparsable(h, r)
                    \/ ListRefused(h, r)

\* The steps a call takes once it started, to its return or its exception.
Step(h) ==
    \/ Consume(h) \/ ConsumeFails(h)
    \/ AssignBlocks(h) \/ AssignFails(h)
    \/ MergeBegin(h)
    \/ Emit(h) \/ EmitFails(h)
    \/ Feed(h) \/ FeedFails(h)
    \/ MergeCommit(h)
    \/ CloseStore(h)
    \/ CloseRevision(h)
    \/ OpenBin(h)
    \/ CopyRange(h) \/ CopyFails(h)
    \/ EndCopy(h)
    \/ Flush(h)
    \/ Discard(h)

Next == \E h \in Handles : Start(h) \/ Step(h) \/ Keep(h) \/ Crash(h)

Spec == Init /\ [][Next]_vars

\* A call that started is scheduled until it returns.
FairSpec == Spec /\ \A h \in Handles : WF_vars(Step(h))

------------------------------------------------------------------------------
(***************************************************************************)
(* Properties                                                              *)
(***************************************************************************)
Ids(s) == {s[i] : i \in DOMAIN s}

TypeOK ==
    /\ Index!TypeOK
    /\ Store!TypeOK(Cells)
    /\ manifest \in [Revs -> [state : {"absent", "open", "closed"}, ids : Seq(Blocks)]]
    /\ newfile \in [Handles -> Seq(Blocks)]
    /\ \A h \in Handles :
          /\ job[h].pc \in {"idle", "thrown"} \cup CommitPcs \cup CheckoutPcs
          /\ job[h].rev \in Revs \cup {NoRev}
          /\ job[h].bs \in Seq(Blocks) /\ job[h].missing \in Seq(Blocks)
          /\ job[h].out \in Seq(Cells \cup {Hole})
    /\ content \in [Revs -> Seq(Blocks)]
    /\ outcome \in [Revs -> {"none", "running", "ok", "failed", "dead"}]
    /\ lost \subseteq Blocks

\* The committed rows tile vvpkg.bin although offsets are read, data emitted
\* and rows fed at different moments of merge() (vfile.cc, 103-130).
IndexTiled == Index!IndexTiled

\* No commit moves or drops a row that an earlier manifest relies on.
AppendOnly == Index!AppendOnly

\* The data of block b is in the file where the index says it is.
OnDisk(b) ==
    /\ Store!Readable(cblocks[b], Size[b])
    /\ Store!BytesAt(cblocks[b], Size[b]) = Data(b)

\* A commit that returned left a manifest of what its reader yielded, and
\* every id of it is indexed: what assign_blocks found missing was merged, by
\* this commit or by another that won the race for it.
CommittedIndexed ==
    \A r \in Revs : outcome[r] = "ok" =>
        /\ manifest[r].ids = content[r]
        /\ \A b \in Ids(content[r]) : cblocks[b] # NoOffset

\* Once a commit returned, its blocks are in the file, those it found stored
\* included, unless a fault dropped them: rows are committed before the data
\* is flushed, so this rests on what commit() destroys when it ends
\* (repository.h, 23-24), and in which order.
CommittedOnDisk ==
    \A r \in Revs : outcome[r] = "ok" =>
        \A b \in Ids(content[r]) : b \in lost \/ OnDisk(b)

\* Faults spoil the blocks whose data was dropped and no others: every other
\* indexed block is in the file, or will be when the stream that took it is
\* flushed.  In particular the offset later commits append at is right.
Pending(b) ==
    \E h \in Handles :
        /\ fp[h].open
        /\ LET f == Store!Flushed(bin, fp[h], Len(fp[h].buf)) IN
           /\ cblocks[b] + Size[b] <= Len(f)
           /\ SubSeq(f, cblocks[b] + 1, cblocks[b] + Size[b]) = Data(b)

DamageConfined ==
    \A b \in Blocks : cblocks[b] # NoOffset /\ b \notin lost => OnDisk(b) \/ Pending(b)

\* A checkout of a committed revision that is about to return wrote exactly
\* what the commit was given, unless a fault dropped a block of it.
CheckoutExact ==
    \A h \in Handles :
        LET r == job[h].rev IN
        At(h, "flush") /\ outcome[r] = "ok" /\ Ids(content[r]) \cap lost = {} =>
            job[h].out = Bytes(content[r])

\* The blocks of other revisions.
Shared(r) == UNION {Ids(content[q]) : q \in Revs \ {r}}

\* A commit that failed leaves a manifest that parses.  Its checkout, too, if
\* it returns, is as long as what the reader of the commit had yielded, up to
\* some block: the ids merge() did not come to are not indexed, and end the
\* list, or another commit has indexed them since (vfile.cc, 137-160).  Its
\* bytes are right but for the blocks a fault dropped and those another
\* revision has as well: that commit may have published their rows and not
\* flushed their data, and the range is read all the same.
FailedIsPrefix ==
    \A h \in Handles :
        LET r == job[h].rev IN
        At(h, "flush") /\ outcome[r] = "failed" =>
            \E n \in 0..Len(content[r]) :
                LET right == Bytes(SubSeq(content[r], 1, n)) IN
                /\ Len(job[h].out) = Len(right)
                /\ \A k \in DOMAIN right :
                      job[h].out[k] = right[k] \/ right[k][1] \in lost \cup Shared(r)

\* The same with no allowance for faults: "both can be retrieved" once both
\* are committed (tests/test_repository.cc, 81-119).
BothCanBeRetrieved ==
    \A h \in Handles :
        LET r == job[h].rev IN
        At(h, "flush") /\ outcome[r] = "ok" => job[h].out = Bytes(content[r])

\* A checkout of a committed revision never meets the end of vvpkg.bin, or
\* no vvpkg.bin, unless a fault dropped a block of it.
CheckoutReadable ==
    \A h \in Handles :
        LET r == job[h].rev IN
        job[h].pc \in {"open", "copy"} /\ outcome[r] = "ok"
            /\ content[r] # << >> /\ Ids(content[r]) \cap lost = {} =>
            \A i \in DOMAIN job[h].segments :
                LET s == job[h].segments[i] IN Store!Readable(s.first, s.last - s.first)

\* A committed revision, be it an empty one, can be retrieved: its checkout
\* finds a vvpkg.bin to open (tests/test_repository.cc, 43-50, 81-119).
CheckoutOpens ==
    \A h \in Handles : At(h, "open") /\ outcome[job[h].rev] = "ok" => bin # NoFile

\* A manifest only grows while its own commit runs, and is final after it,
\* whether the commit returned, threw or died.
ManifestFinal ==
    [][\A r \in Revs : manifest'[r] # manifest[r] =>
          \/ manifest[r].state = "absent"
          \/ /\ manifest[r].state = "open"
             /\ \E h \in Handles : job[h].rev = r /\ Committing(h)]_vars

\* Every call ends, by returning or by throwing: no call waits for another.
CallsEnd == \A h \in Handles : ~At(h, "idle") ~> At(h, "idle")

\* The write lock of the database is held inside a merge, and by an object
\* that threw until its owner destroys it: none is left behind that would
\* keep other handles from committing for ever.
LockHeldByCall ==
    \A h \in Handles : txn[h] = "writing" =>
        job[h].pc \in {"emit", "feed", "thrown"} \/ job[h].throwing

(***************************************************************************)
(* The promise a repository implements.  stored is computed from the three *)
(* kinds of files as checkout would, never from the history variables.     *)
(***************************************************************************)
Retrieved(ids) ==
    FlattenSeq([i \in DOMAIN ids |->
        IF Store!Readable(cblocks[ids[i]], Size[ids[i]])
        THEN Store!BytesAt(cblocks[ids[i]], Size[ids[i]])
        ELSE << >>])

StoredContents  == [r \in Revs |-> IF outcome[r] = "ok" THEN Retrieved(manifest[r].ids)
                                   ELSE NoFile]
ReadingContents == [h \in Handles |->
                       IF At(h, "flush") /\ outcome[job[h].rev] = "ok" THEN job[h].out
                       ELSE NoFile]

Promise == INSTANCE RevisionStore WITH
    Contents <- {Bytes(FlattenSeq(input)) : input \in Inputs},
    None     <- NoFile,
    stored   <- StoredContents,
    reading  <- ReadingContents

\* The repository is the map RevisionStore describes: a commit takes effect
\* in one step, at its end, and what it stored reads the same ever after.
ImplementsPromise == Promise!Spec
==============================================================================

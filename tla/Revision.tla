------------------------------- MODULE Revision -------------------------------
(***************************************************************************)
(* One revision object (src/src/revision.cc), from its constructor to its  *)
(* destructor, and its manifest (ManifestStream).  assign_blocks starts a  *)
(* thread that appends the ids of the bundle to the manifest, and runs SQL *)
(* beside it: the ids are staged in the temporary table newrev, and those  *)
(* without a row in cblocks are selected.  Statements may throw, and then  *)
(* the future of the thread is what waits for it.                          *)
(*                                                                         *)
(* The caller is basic_repository::commit, which merges what was missing,  *)
(* clears the bundle the thread read from, and goes on with the next.      *)
(***************************************************************************)
EXTENDS ManifestStream, OrderBy

CONSTANTS Bundles,      \* the ids of what may be assigned in one call
          MaxIds        \* bound: no revision has more ids (the code has none)

ASSUME BundlesAssumption ==
    Bundles \subseteq Seq(Ids) \ {<< >>} /\ MaxIds \in Nat

VARIABLES at,           \* where the thread that commits stands
          bs,           \* the bundle
          newrev,       \* the rows of the temporary table
          missing,      \* v
          indexed       \* the ids with a row in cblocks

callVars == <<at, bs, newrev, missing, indexed>>
allVars  == <<vars, callVars>>

Init ==
    /\ StreamInit
    /\ at = "ready" /\ bs = << >> /\ newrev = << >> /\ missing = << >>
    /\ indexed = {}

\* The constructor, and the thread: no other step appends.
Construct == at = "ready" /\ StartArray /\ UNCHANGED callVars
Assigning == Appending /\ UNCHANGED callVars

\* The thread, if there is one, has appended every id it was given.
ThreadDone == wpc = "value" /\ count = Len(ids)

------------------------------------------------------------------------------
\* assign_blocks is called: std::async.
AssignBlocks(b) ==
    /\ at = "ready" /\ wpc \notin {"start", "dead"}
    /\ Len(ids) + Len(b) <= MaxIds
    /\ ids' = ids \o b
    /\ bs' = b
    /\ at' = "stage"
    /\ UNCHANGED <<count, wbuf, wpc, file, broken, readerVars, newrev, missing, indexed>>

CallStep(pc) == at' = pc /\ UNCHANGED vars

\* begin, a row for each block of the bundle, commit.
Stage ==
    /\ at = "stage"
    /\ newrev' = newrev \o bs
    /\ CallStep("query")
    /\ UNCHANGED <<bs, missing, indexed>>

Rows == {newrev[i] : i \in DOMAIN newrev}

FirstRow(id) == CHOOSE i \in DOMAIN newrev :
    newrev[i] = id /\ \A j \in 1..(i - 1) : newrev[j] # id

NotIndexed ==
    LET firsts == Ascending({FirstRow(id) : id \in Rows \ indexed})
    IN  [n \in DOMAIN firsts |-> newrev[firsts[n]]]

\* Mutant: select id, not select distinct id.
QueryNotDistinct ==
    /\ at = "query"
    /\ missing' = SelectSeq(newrev, LAMBDA id : id \notin indexed)
    /\ CallStep("cleanup")
    /\ UNCHANGED <<bs, newrev, indexed>>

\* select distinct id ... where cblocks.id is null order by newrev.rowid.
Query ==
    /\ at = "query"
    /\ missing' = NotIndexed
    /\ CallStep("cleanup")
    /\ UNCHANGED <<bs, newrev, indexed>>

\* Mutant: the rows stay.
CleanupForgotten ==
    /\ at = "cleanup"
    /\ CallStep("wait")
    /\ UNCHANGED <<bs, newrev, missing, indexed>>

\* delete from newrev.
Cleanup ==
    /\ at = "cleanup"
    /\ newrev' = << >>
    /\ CallStep("wait")
    /\ UNCHANGED <<bs, missing, indexed>>

\* Mutant: nobody waits.
ReturnDetached ==
    /\ at = "wait"
    /\ CallStep("returned")
    /\ UNCHANGED <<bs, newrev, missing, indexed>>

\* assigning.wait(), and assign_blocks returns.
Return ==
    /\ at = "wait" /\ ThreadDone
    /\ CallStep("returned")
    /\ UNCHANGED <<bs, newrev, missing, indexed>>

\* A statement throws; the rows staged so far stay.
SqlFails ==
    /\ at \in {"stage", "query", "cleanup"}
    /\ IF at = "stage"
       THEN \E n \in 0..Len(bs) : newrev' = newrev \o SubSeq(bs, 1, n)
       ELSE UNCHANGED newrev
    /\ CallStep("unwinding")
    /\ UNCHANGED <<bs, missing, indexed>>

\* Mutant: the exception does not wait for the thread.
JoinDetached ==
    /\ at = "unwinding"
    /\ CallStep("thrown")
    /\ UNCHANGED <<bs, newrev, missing, indexed>>

\* The destructor of the future waits for the thread, before the exception
\* leaves assign_blocks.
Join ==
    /\ at = "unwinding" /\ ThreadDone
    /\ CallStep("thrown")
    /\ UNCHANGED <<bs, newrev, missing, indexed>>

------------------------------------------------------------------------------
(***************************************************************************)
(* The caller, and others                                                  *)
(***************************************************************************)
\* vfile::merge stores what is missing and bs.clear() follows, or it throws.
Merge ==
    /\ at = "returned"
    /\ \/ indexed' = indexed \cup {missing[i] : i \in DOMAIN missing} /\ CallStep("ready")
       \/ UNCHANGED indexed /\ CallStep("thrown")
    /\ bs' = << >> /\ missing' = << >>
    /\ UNCHANGED newrev

\* Another handle merges; it matters while assign_blocks runs.
IndexedElsewhere ==
    /\ at \in {"stage", "query", "cleanup"}
    /\ \E id \in Ids \ indexed : indexed' = indexed \cup {id}
    /\ UNCHANGED <<vars, at, bs, newrev, missing>>

\* commit() ends, by returning or by throwing, and destroys the revision.
Destroy ==
    /\ at \in {"ready", "thrown"}
    /\ EndArray
    /\ at' = "closing"
    /\ UNCHANGED <<bs, newrev, missing, indexed>>

Destroyed ==
    /\ at = "closing"
    /\ FinalFlush
    /\ at' = "closed"
    /\ UNCHANGED <<bs, newrev, missing, indexed>>

Killed == Die /\ at' = "dead" /\ UNCHANGED <<bs, newrev, missing, indexed>>

Committer ==
    \/ Construct
    \/ \E b \in Bundles : AssignBlocks(b)
    \/ Stage \/ Query \/ Cleanup \/ Return
    \/ SqlFails \/ Join
    \/ Merge
    \/ Destroy \/ Destroyed

Next ==
    \/ Committer
    \/ Assigning
    \/ Killed
    \/ IndexedElsewhere
    \/ (OpenManifest \/ Reader) /\ UNCHANGED callVars

Spec == Init /\ [][Next]_allVars

\* The threads that write, and the one that reads once it began, run on.
FairSpec ==
    /\ Spec
    /\ WF_allVars(Committer) /\ WF_allVars(Assigning)
    /\ WF_allVars(Reader /\ UNCHANGED callVars)

------------------------------------------------------------------------------
(***************************************************************************)
(* Properties                                                              *)
(***************************************************************************)
\* What is missing are ids of the bundle, as MissingOfBundle says.
TypeOK ==
    /\ StreamTypeOK
    /\ at \in {"ready", "stage", "query", "cleanup", "wait", "returned",
               "unwinding", "thrown", "closing", "closed", "dead"}
    /\ bs \in Seq(Ids) /\ newrev \in Seq(Ids)

\* When assign_blocks is left, by its return or by an exception out of any of
\* its statements, its thread has ended: nothing appends to the manifest while
\* the caller clears the bundle the thread reads, starts the next thread or
\* destroys the revision (revision.cc, 58-61, 97).
ThreadEndsFirst ==
    at \in {"returned", "ready", "thrown"} /\ wpc # "start" => ThreadDone

\* What assign_blocks finds missing are ids of its own bundle, each of them
\* once and in the order of the bundle, as merge() needs them (vfile.cc, 111),
\* and the others are indexed, whatever others index meanwhile.
MissingOfBundle ==
    /\ at = "query" => newrev = bs
    /\ at \in {"cleanup", "wait", "returned"} =>
          /\ \A i \in DOMAIN bs :
                bs[i] \in indexed \/ \E n \in DOMAIN missing : missing[n] = bs[i]
          /\ \E f \in [DOMAIN missing -> DOMAIN bs] :
                /\ \A n \in DOMAIN missing : missing[n] = bs[f[n]]
                /\ \A m, n \in DOMAIN missing : m < n =>
                      f[m] < f[n] /\ missing[m] # missing[n]
------------------------------------------------------------------------------
(***************************************************************************)
(* The inductive invariant                                                 *)
(***************************************************************************)
\* The parser has a character at hand.
ReaderPlaced == rpc # "none" => current > 0

\* Nothing is appended before the array begins, nor outside the ids.
ArrayBegun ==
    /\ wpc = "start" => ids = << >>
    /\ wpc \in {"quote", "digest", "end"} => count > 0

IInv ==
    /\ TypeOK
    /\ WithinBuffers
    /\ ReaderPlaced
    /\ ArrayBegun
    /\ ThreadEndsFirst
==============================================================================

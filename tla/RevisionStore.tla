----------------------------- MODULE RevisionStore -----------------------------
(***************************************************************************)
(* What a repository promises, with no blocks, no index and no files: a    *)
(* map from the names of revisions to contents.  A commit adds a name that *)
(* was free; nothing ever changes or removes what a name stands for; a     *)
(* checkout of a committed revision returns its content, whatever else is  *)
(* committed or checked out meanwhile.                                     *)
(*                                                                         *)
(* Repository implements it as long as callers run one commit at a time    *)
(* and no fault drops data.                                                *)
(***************************************************************************)
CONSTANTS Revs, Handles,
          Contents,    \* what may be committed
          None         \* no content: not in Contents

VARIABLES stored,      \* stored[r]: the content of revision r, or None
          reading      \* reading[h]: what h's checkout returns, or None

vars == <<stored, reading>>

TypeOK ==
    /\ stored \in [Revs -> Contents \cup {None}]
    /\ reading \in [Handles -> Contents \cup {None}]

Init ==
    /\ stored = [r \in Revs |-> None]
    /\ reading = [h \in Handles |-> None]

Commit(r, c) ==
    /\ stored[r] = None
    /\ stored' = [stored EXCEPT ![r] = c]
    /\ UNCHANGED reading

Checkout(h, r) ==
    /\ reading[h] = None
    /\ stored[r] # None
    /\ reading' = [reading EXCEPT ![h] = stored[r]]
    /\ UNCHANGED stored

Return(h) ==
    /\ reading[h] # None
    /\ reading' = [reading EXCEPT ![h] = None]
    /\ UNCHANGED stored

Next ==
    \/ \E r \in Revs, c \in Contents : Commit(r, c)
    \/ \E h \in Handles, r \in Revs : Checkout(h, r)
    \/ \E h \in Handles : Return(h)

Spec == Init /\ [][Next]_vars
==============================================================================

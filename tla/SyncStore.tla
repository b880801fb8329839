------------------------------- MODULE SyncStore -------------------------------
(***************************************************************************)
(* The block data of a repository: the file vvpkg.bin, and the sync_store  *)
(* objects (include/vvpkg/sync_store.h) through which commits write it.    *)
(* A sync_store opens the file at its first call, at the offset that call  *)
(* names; every later call writes where the stdio stream stands, whatever  *)
(* offset it is given.  The stream is buffered: what was accepted reaches  *)
(* the file in order, at moments the C library chooses, and all of it when *)
(* the stream is closed.  No call ever syncs, so a process that dies loses *)
(* what its buffer held.                                                   *)
(*                                                                         *)
(* A byte is a cell <<b, i>>: byte i of block b, or Hole for a byte nobody *)
(* wrote.  A killed process is modelled, a machine that loses power is not.*)
(***************************************************************************)
EXTENDS Integers, Sequences

CONSTANTS Handles,   \* the repositories, each with one sync_store at a time
          Hole,      \* a byte inside the file that was never written
          NoFile     \* vvpkg.bin does not exist

VARIABLES bin,       \* the bytes of vvpkg.bin, or NoFile
          fp         \* fp[h]: h's stream: position of its buffer, and buffer

Closed == [open |-> FALSE, pos |-> 0, buf |-> << >>]

Init == bin = NoFile /\ fp = [h \in Handles |-> Closed]

\* File f after `data` is written over it at position pos.
WriteAt(f, pos, data) ==
    IF data = << >> THEN f
    ELSE LET end == pos + Len(data) IN
         [i \in 1..(IF end > Len(f) THEN end ELSE Len(f)) |->
             IF pos < i /\ i <= end THEN data[i - pos]
             ELSE IF i <= Len(f) THEN f[i] ELSE Hole]

\* The first k buffered bytes of stream s reach file f.
Flushed(f, s, k) == WriteAt(f, s.pos, SubSeq(s.buf, 1, k))
Rest(s, k) == [s EXCEPT !.pos = @ + k, !.buf = SubSeq(@, k + 1, Len(@))]

\* fopen succeeds: "wb" creates or truncates, "r+b" needs the file.
CanOpen(h, from) == fp[h].open \/ from = 0 \/ bin # NoFile

\* Mutant: no seek after opening.
AcceptUnsought(h, from, data) ==
    LET file == IF ~fp[h].open /\ from = 0 THEN << >> ELSE bin
        s    == [fp[h] EXCEPT !.open = TRUE, !.buf = @ \o data]
    IN  /\ CanOpen(h, from)
        /\ \E k \in 0..Len(s.buf) :
              /\ bin' = Flushed(file, s, k)
              /\ fp' = [fp EXCEPT ![h] = Rest(s, k)]

\* Mutant: "wb" whatever the offset, so that opening always truncates.
AcceptTruncating(h, from, data) ==
    LET at == IF fp[h].open THEN fp[h].pos ELSE from
        s  == [open |-> TRUE, pos |-> at, buf |-> fp[h].buf \o data]
    IN  \E k \in 0..Len(s.buf) :
            /\ bin' = Flushed(IF fp[h].open THEN bin ELSE << >>, s, k)
            /\ fp' = [fp EXCEPT ![h] = Rest(s, k)]

\* The call operator of sync_store, accepting `data`; any part of the
\* buffer may be flushed on the way.
Accept(h, from, data) ==
    LET file == IF ~fp[h].open /\ from = 0 THEN << >> ELSE bin
        at   == IF fp[h].open THEN fp[h].pos ELSE from
        s    == [open |-> TRUE, pos |-> at, buf |-> fp[h].buf \o data]
    IN  /\ CanOpen(h, from)
        /\ \E k \in 0..Len(s.buf) :
              /\ bin' = Flushed(file, s, k)
              /\ fp' = [fp EXCEPT ![h] = Rest(s, k)]

\* A short fwrite: only a proper prefix of `data` is accepted, and the call
\* throws.
AcceptShort(h, from, data) ==
    \E n \in 0..(Len(data) - 1) : Accept(h, from, SubSeq(data, 1, n))

\* Mutant: the stream counts as open although fopen failed.
OpenFailsUnnoticed(h) ==
    ~fp[h].open /\ fp' = [fp EXCEPT ![h].open = TRUE] /\ UNCHANGED bin

\* fopen fails, and the call throws with nothing done.
OpenFails(h) == ~fp[h].open /\ UNCHANGED <<bin, fp>>

\* Mutant: the stream is dropped, not closed.
CloseUnflushed(h) == fp' = [fp EXCEPT ![h] = Closed] /\ UNCHANGED bin

\* The destructor: fclose flushes the buffer.
Close(h) ==
    /\ bin' = IF fp[h].open THEN Flushed(bin, fp[h], Len(fp[h].buf)) ELSE bin
    /\ fp' = [fp EXCEPT ![h] = Closed]

\* fclose writes only the first k buffered bytes; c_file_deleter ignores its
\* result.
CloseFails(h, k) ==
    /\ k < Len(fp[h].buf)
    /\ bin' = Flushed(bin, fp[h], k)
    /\ fp' = [fp EXCEPT ![h] = Closed]

\* The process dies: the buffer is gone.
Lose(h) == fp' = [fp EXCEPT ![h] = Closed] /\ UNCHANGED bin

\* fread of n bytes at `off` finds them all.
Readable(off, n) == bin # NoFile /\ off + n <= Len(bin)
BytesAt(off, n)  == SubSeq(bin, off + 1, off + n)

TypeOK(Cells) ==
    /\ bin \in Seq(Cells \cup {Hole}) \cup {NoFile}
    /\ fp \in [Handles -> [open : BOOLEAN, pos : Nat, buf : Seq(Cells)]]
    /\ \A h \in Handles : fp[h].open => bin # NoFile
==============================================================================

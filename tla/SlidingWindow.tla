----------------------------- MODULE SlidingWindow -----------------------------
(***************************************************************************)
(* What content chunking counts on: a fingerprint depends on the last      *)
(* WindowSize bytes processed since the last reset, zeros before the       *)
(* first, and on nothing else.  ContentChunking keeps such a window.       *)
(***************************************************************************)
EXTENDS Naturals, Sequences

CONSTANTS Bytes, Zero, WindowSize

VARIABLE window

Zeros == [i \in 1..WindowSize |-> Zero]

Init == window = Zeros

Process(byte) == window' = Append(Tail(window), byte)

Reset == window' = Zeros

Next == Reset \/ \E byte \in Bytes : Process(byte)

Spec == Init /\ [][Next]_window
==============================================================================

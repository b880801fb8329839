--------------------------------- MODULE Hashes ---------------------------------
(***************************************************************************)
(* The two functions a bundle computes over what it reads: the fingerprint *)
(* that finds the ends of blocks (Rabin) and the digest that names them    *)
(* (Blake2Stream).  They share nothing, so a behaviour runs one of them,   *)
(* `which`.                                                                *)
(***************************************************************************)
EXTENDS Blake2Stream

CONSTANTS WordBits, ByteBits, WindowSize, Polys    \* see Rabin

VARIABLES which, poly, shift, T, U, bufpos, ring, fingerprint

rabinVars == <<poly, shift, T, U, bufpos, ring, fingerprint>>
hashesVars == <<which, rabinVars, vars>>

R == INSTANCE Rabin WITH buf <- ring

ASSUME RabinAssumption == R!RabinAssumption

HashesInit ==
    /\ which \in {"rabin", "blake2"}
    /\ R!Init /\ Init

HashesNext ==
    /\ UNCHANGED which
    /\ \/ which = "rabin"  /\ R!Next /\ UNCHANGED vars
       \/ which = "blake2" /\ Next   /\ UNCHANGED rabinVars

HashesSpec == HashesInit /\ [][HashesNext]_hashesVars

\* The fingerprint is that of the window (Rabin.ValueIsWindow).
ValueIsWindow == R!ValueIsWindow

\* The ring and its tables are a sliding window (Rabin.ImplementsWindow).
ImplementsWindow == R!ImplementsWindow
==============================================================================

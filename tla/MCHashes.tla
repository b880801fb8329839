------------------------------- MODULE MCHashes -------------------------------
(* Rabin: words of eight bits, bytes of three and a window of three, so       *)
(* that a window has more bits than a word.  The polynomials have the highest *)
(* degree a word can hold, as the one vvpkg uses has, the lowest, and some    *)
(* between.                                                                   *)
(*                                                                            *)
(* BLAKE2: every message of up to nine bytes over two values, in every split, *)
(* with blocks of three bytes and words that carry at five; and the known     *)
(* answers of tests/test_hash.cc, with the blocks and words of the code.      *)
EXTENDS Hashes

MCPolys == {{0, 6, 7}, {0, 2, 3, 4, 5, 7}, {0, 1, 3, 4, 6}, {0, 1, 3}, {1, 5}}

MCBytes == {0, 1}
MCData  == UNION {[1..n -> MCBytes] : n \in 0..9}

B == INSTANCE Blake2b
S == INSTANCE Blake2s

\* "Hello world\n"
Hello == <<72, 101, 108, 108, 111, 32, 119, 111, 114, 108, 100, 10>>

\* Evaluated once, while nothing was hashed.
New == which = "blake2" /\ message = << >> /\ pc = "idle"

\* hashlib::blake2b_160 and blake2s_160 (tests/test_hash.cc, 8-24): the tables,
\* the rounds and the byte orders are those of BLAKE2.
KnownAnswers == New =>
    /\ B!digest(<< >>) =
        <<\H33, \H45, \H52, \H4a, \Hbf, \H6b, \Hbe, \H18, \H09, \H44,
          \H92, \H24, \Hb5, \H97, \H2c, \H41, \H79, \H0b, \H6c, \Hf2>>
    /\ B!digest(Hello) =
        <<\Hdd, \H0d, \Hb1, \H35, \H45, \Hcd, \Ha2, \H80, \Hd0, \Hb1,
          \H60, \H87, \H1b, \H91, \Hcb, \Hd7, \H87, \H12, \Hb8, \H06>>
    /\ S!digest(<< >>) =
        <<\H35, \H4c, \H9c, \H33, \Hf7, \H35, \H96, \H24, \H18, \Hbd,
          \Hac, \Hb9, \H47, \H98, \H73, \H42, \H9c, \H34, \H91, \H6f>>
    /\ S!digest(Hello) =
        <<\H44, \Ha1, \H4f, \H7e, \H45, \Hc6, \H9d, \Hfa, \H7c, \Hfc,
          \H7f, \H26, \Hd9, \H35, \H55, \Hc9, \Ha7, \Hb8, \Hed, \H26>>

\* The polynomial of a behaviour that hashes is of no account: one is enough.
MCInit == HashesInit /\ (which = "blake2" => poly = {1, 5})
MCSpec == MCInit /\ [][HashesNext]_hashesVars
==============================================================================

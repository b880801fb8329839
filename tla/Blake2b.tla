-------------------------------- MODULE Blake2b --------------------------------
(* BLAKE2b with the digests of 20 bytes that hashlib::blake2b_160 takes. *)
EXTENDS Integers, Sequences

blake2b_IV ==
    << <<\Hc908, \Hf3bc, \He667, \H6a09>>,
      <<\Ha73b, \H84ca, \Hae85, \Hbb67>>,
      <<\Hf82b, \Hfe94, \Hf372, \H3c6e>>,
      <<\H36f1, \H5f1d, \Hf53a, \Ha54f>>,
      <<\H82d1, \Hade6, \H527f, \H510e>>,
      <<\H6c1f, \H2b3e, \H688c, \H9b05>>,
      <<\Hbd6b, \Hfb41, \Hd9ab, \H1f83>>,
      <<\H2179, \H137e, \Hcd19, \H5be0>> >>

blake2b_sigma ==
    << << 0,  1,  2,  3,  4,  5,  6,  7,  8,  9, 10, 11, 12, 13, 14, 15>>,
      <<14, 10,  4,  8,  9, 15, 13,  6,  1, 12,  0,  2, 11,  7,  5,  3>>,
      <<11,  8, 12,  0,  5,  2, 15, 13, 10, 14,  3,  6,  7,  1,  9,  4>>,
      << 7,  9,  3,  1, 13, 12, 11, 14,  2,  6,  5, 10,  4,  0, 15,  8>>,
      << 9,  0,  5,  7,  2,  4, 10, 15, 14,  1, 11, 12,  6,  8,  3, 13>>,
      << 2, 12,  6, 10,  0, 11,  8,  3,  4, 13,  7,  5, 15, 14,  1,  9>>,
      <<12,  5,  1, 15, 14, 13,  4, 10,  0,  7,  6,  3,  9,  2,  8, 11>>,
      <<13, 11,  7, 14, 12,  1,  3,  9,  5,  0, 15,  4,  8,  6,  2, 10>>,
      << 6, 15, 14,  9, 11,  3,  0,  8, 12,  2, 13,  7,  1,  4, 10,  5>>,
      <<10,  2,  8,  4,  7,  6,  1,  5, 15, 11,  9, 14,  3, 12, 13,  0>>,
      << 0,  1,  2,  3,  4,  5,  6,  7,  8,  9, 10, 11, 12, 13, 14, 15>>,
      <<14, 10,  4,  8,  9, 15, 13,  6,  1, 12,  0,  2, 11,  7,  5,  3>> >>

BLAKE2B_BLOCKBYTES == 128

digest_size == 20

Zeros(n) == [i \in 1..n |-> 0]

INSTANCE Blake2 WITH
    WordBits <- 64, IV <- blake2b_IV, Sigma <- blake2b_sigma,
    Rotations <- <<32, 24, 16, 63>>

INSTANCE Blake2Blocks WITH
    Bytes <- 0..255, Zero <- 0, BlockBytes <- BLAKE2B_BLOCKBYTES, WordMax <- 2 ^ 30

\* BLAKE2b_Init: the parameter block.
param(outlen) == <<outlen, 0, 1, 1>> \o Zeros(60)

\* BLAKE2b_Final copies the memory of h: its bytes are little-endian only on a
\* little-endian host, which is what is modelled.
BLAKE2b_Final(h, outlen) == SubSeq(output(h), 1, outlen)

\* init0 and init_param, and one turn of the loop of compress, with words of
\* 64 bits.
blake2b_init_param(outlen) == init_param(param(outlen))
blake2b_compress(h, e)     == compress(h, e)

digest(message) ==
    BLAKE2b_Final(FoldLeft(blake2b_compress, blake2b_init_param(digest_size),
                           BlocksOf(message)),
                  digest_size)
==============================================================================

---------------------------- MODULE MCStateCipher ----------------------------
(* Constant values for model checking StateCipher.                         *)
EXTENDS StateCipher

CONSTANTS k1, k2

Repeated(b, n) == [i \in 1..n |-> b]

\* Lengths about the block size; bytes that are no padding, and bytes that are.
SomeTexts ==
  {Repeated(b, n) : b \in {0, 1, 16, 200}, n \in {0, 1, 4, 15, 16, 17, 20, 24, 32}}
    \cup {Repeated(200, 24 - n) \o Repeated(61, n) : n \in {1, 2}}

\* Letters of base64 in fours: null, and longer ones; and some that end in one =
\* or two, of which 24 characters are 17 bytes or a block.
SomeBase64Texts ==
  {Repeated(200, n) : n \in {4, 16, 20, 24, 32}}
    \cup {Repeated(200, 24 - n) \o Repeated(61, n) : n \in {1, 2}}

=============================================================================

------------------------------- MODULE BitNumbers -------------------------------
(***************************************************************************)
(* Numbers as bits, most significant first, the way every stream of        *)
(* DigiAsset Core is read and written.                                     *)
(***************************************************************************)
EXTENDS Integers, SequencesExt

Bit == {0, 1}

\* the number the bits b spell
Number(b) == FoldLeft(LAMBDA n, d : 2 * n + d, 0, b)

\* v in n bits
BitsOf(v, n) == [i \in 1..n |-> (v \div 2^(n - i)) % 2]

================================================================================

------------------------------ MODULE BitSequence ------------------------------
(***************************************************************************)
(* What the class BitIO promises (the comments over its functions): a      *)
(* sequence of bits with a pointer into it.  Reading moves the pointer and *)
(* throws past the end; writing overwrites and extends; appending leaves   *)
(* the pointer alone; inserting shifts what follows back.  Nothing is said *)
(* of how the bits are stored: BitStream is the implementation.            *)
(***************************************************************************)
EXTENDS Integers, SequencesExt, BitNumbers

CONSTANTS Values,      \* the numbers written, among those any call may pass
          Widths,      \* the numbers of bits asked for
          Pieces,      \* the bit sequences written from another BitIO
          Multiples,   \* the arguments of padWidth
          Word,        \* the largest number of bits one call moves
          MaxLength    \* bound: no operation grows the sequence past this

VARIABLES bits,        \* the bits, first one first
          pointer,     \* how many of them are behind the pointer
          answer       \* what the last call returned, <<"none">> or <<"threw">>

vars == <<bits, pointer, answer>>

\* the sequence with the bits b written at position at, extended as needed
Overwritten(at, b) ==
  SubSeq(bits, 1, at) \o b \o SubSeq(bits, at + Len(b) + 1, Len(bits))

Inserted(at, b) == SubSeq(bits, 1, at) \o b \o SubSeq(bits, at + 1, Len(bits))

\* a width a call accepts, and a number that fits in it
Width(n) == n \in 1..Word
Fits(v, n) == Width(n) /\ v < 2^n

Answer(a) == answer' = a

Throw == /\ Answer(<<"threw">>)
         /\ UNCHANGED <<bits, pointer>>

Init == bits = <<>> /\ pointer = 0 /\ answer = <<"none">>

Get(n) ==
  IF Width(n) /\ pointer + n <= Len(bits)
  THEN /\ Answer(<<"number", Number(SubSeq(bits, pointer + 1, pointer + n))>>)
       /\ pointer' = pointer + n
       /\ bits' = bits
  ELSE Throw

Copy(n) ==
  IF pointer + n <= Len(bits)
  THEN /\ Answer(<<"bits", SubSeq(bits, pointer + 1, pointer + n)>>)
       /\ pointer' = pointer + n
       /\ bits' = bits
  ELSE /\ Answer(<<"threw">>)
       /\ bits' = bits
       /\ pointer' \in pointer..Len(bits)      \* how far it got is not said

\* "does not throw any errors", but for a width it does not accept of bits that are there
Check(v, n) ==
  \/ /\ Width(n) \/ pointer + n > Len(bits)
     /\ Answer(<<"is", /\ pointer + n <= Len(bits) /\ Fits(v, n)
                       /\ SubSeq(bits, pointer + 1, pointer + n) = BitsOf(v, n)>>)
     /\ UNCHANGED <<bits, pointer>>
  \/ /\ ~Width(n) /\ pointer + n <= Len(bits)
     /\ Throw

Set(v, n) ==
  IF Fits(v, n)
  THEN /\ bits' = Overwritten(pointer, BitsOf(v, n))
       /\ pointer' = pointer + n
       /\ Answer(<<"none">>)
  ELSE Throw

Append2(v, n) ==
  IF Fits(v, n)
  THEN /\ bits' = bits \o BitsOf(v, n)
       /\ pointer' = pointer
       /\ Answer(<<"none">>)
  ELSE Throw

Insert(v, n) ==
  IF Fits(v, n)
  THEN /\ bits' = Inserted(pointer, BitsOf(v, n))
       /\ pointer' = pointer + n
       /\ Answer(<<"none">>)
  ELSE Throw

Write(new, to) == bits' = new /\ pointer' = to /\ Answer(<<"none">>)

SetPiece(b)    == Write(Overwritten(pointer, b), pointer + Len(b))
AppendPiece(b) == Write(bits \o b, pointer)
InsertPiece(b) == Write(Inserted(pointer, b), pointer + Len(b))
Zeros(n)       == Write(bits \o [i \in 1..n |-> 0], pointer)

\* padWidth: bits of any kind up to the next multiple of m; 0 counts as 1
Pad(m) ==
  LET step == IF m = 0 THEN 1 ELSE m
  IN \E b \in UNION {[1..k -> Bit] : k \in 0..(step - 1)} :
       /\ (Len(bits) + Len(b)) % step = 0
       /\ Write(bits \o b, pointer)

MoveTo(p) ==
  IF p \in 0..Len(bits)
  THEN Write(bits, p)
  ELSE Throw

Next ==
  \/ \E n \in Widths : Get(n) \/ Copy(n) \/ Zeros(n)
  \/ \E v \in Values, n \in Widths :
       Check(v, n) \/ Set(v, n) \/ Append2(v, n) \/ Insert(v, n)
  \/ \E b \in Pieces : SetPiece(b) \/ AppendPiece(b) \/ InsertPiece(b)
  \/ \E m \in Multiples : Pad(m)
  \/ \E p \in -1..(MaxLength + 1) : MoveTo(p)

Spec == Init /\ [][Next]_vars

================================================================================

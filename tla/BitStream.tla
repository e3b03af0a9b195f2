------------------------------- MODULE BitStream -------------------------------
(***************************************************************************)
(* The class BitIO (BitIO.cpp): bits packed into an array of machine words *)
(* ("longs") by shifts and masks, with a length and a pointer in bits.     *)
(* Every stream of asset, rule and KYC data is read and written through it *)
(* and the off-by-ones live at the word boundaries.  The real word has 64  *)
(* bits; W is a parameter, so that a small word has every boundary.        *)
(*                                                                         *)
(* A shift right is a division, a shift left a product cut to W bits and a *)
(* mask of the low bits a remainder, all on unsigned words.                *)
(***************************************************************************)
EXTENDS Integers, SequencesExt, Bitwise

CONSTANTS W,           \* BITIO_SIZEOF_LONG
          MaxLength,   \* bound: no operation grows the stream past this
          Values,      \* numbers passed to the calls
          Widths,      \* bit counts passed to the calls
          Pieces,      \* the contents of the other streams that are written
          Multiples    \* arguments of padWidth

ASSUME WordAssumption ==
  W \in Nat \ {0} /\ Values \subseteq 0..(2^W - 1)

VARIABLES longs,       \* _bits
          length,      \* _length
          position,    \* _position
          answer       \* what the last call returned, "none" or "threw"

streamVars == <<longs, length, position, answer>>

Stream == [longs |-> longs, length |-> length, position |-> position]
Empty  == [longs |-> <<>>, length |-> 0, position |-> 0]

--------------------------------------------------------------------------------
(* Words and indexes                                                       *)

Least(a, b) == IF a < b THEN a ELSE b

ShiftRight(x, n) == x \div 2^n
ShiftLeft(x, n) == (x * 2^n) % 2^W

RightMask(n) == 2^n - 1
\* seeded fault: the mask of n bits k up, without the shift
WideMask(n, k) == RightMask(n + k)
CenterMask(n, k) == ShiftLeft(RightMask(n), k)
LeftMask(n) == 2^W - 1 - RightMask(W - n)
Except(x, mask) == x - (x & mask)                    \* x & ~mask

LongIndex(s) == s.position \div W
BitIndex(s) == s.position % W
EndIndex(s) == Len(s.longs) - 1
EndBit(s) == s.length % W

\* _bits[i]; an index past the array reads and writes elsewhere in memory
At(s, i) == s.longs[i + 1]
Put(s, i, x) == [s EXCEPT !.longs = IF i < Len(s.longs) THEN [s.longs EXCEPT ![i + 1] = x] ELSE s.longs]

Pushed(s, x) == [s EXCEPT !.longs = Append(s.longs, x)]

\* _length = n; resizeIfNeeded(): whole words, new ones zero
Resized(s, n) ==
  LET words == (n + W - 1) \div W
      new   == [i \in 1..(words - Len(s.longs)) |-> 0]
  IN [s EXCEPT !.length = n, !.longs = SubSeq(s.longs, 1, Least(words, Len(s.longs))) \o new]

\* checkLength and checkValueSize
Checked(n) == n \in 1..W
Sized(v, n) == n # 0 /\ (n = W \/ v < 2^n)

--------------------------------------------------------------------------------
(* Reading                                                                 *)

Readable(s, n) == Checked(n) /\ s.position + n <= s.length

\* the value of getBits when it does not throw
Bits(s, n) ==
  LET left  == W - BitIndex(s)
      took  == Least(left, n)
      first == ShiftRight(At(s, LongIndex(s)), left - took) & RightMask(took)
      rest  == n - took
  IN IF took = n
     THEN first
     ELSE ShiftLeft(first, rest) | ShiftRight(At(s, LongIndex(s) + 1), W - rest)

\* the bits the words spell
BitsHeld(s) == [i \in 1..s.length |-> ShiftRight(At(s, (i - 1) \div W), W - 1 - ((i - 1) % W)) % 2]

Moved(s, n) == [s EXCEPT !.position = @ + n]

\* the blocks in which total bits are moved when the first has at most first bits
Blocks(total, first) ==
  LET one == Least(total, first)
      n   == (total - one + W - 1) \div W
  IN IF total = 0 THEN <<>>
     ELSE <<one>> \o [i \in 1..n |-> Least(W, total - one - (i - 1) * W)]

--------------------------------------------------------------------------------
(* Writing                                                                 *)

\* setBits(value, length)
SetBits(s, v, n) ==
  LET at   == LongIndex(s)
      left == W - BitIndex(s)
      set  == Least(left, n)
      rest == n - set
      grow(t, i) == IF Len(t.longs) = i THEN Pushed(t, 0) ELSE t
      s1   == [s EXCEPT !.length = IF @ > s.position + n THEN @ ELSE s.position + n,
                        !.position = @ + n]
      s2   == grow(s1, at)
      head == IF set = n THEN ShiftLeft(v, left - set) ELSE ShiftRight(v, rest)
      s3   == Put(s2, at, Except(At(s2, at), CenterMask(set, left - set)) | head)
      s4   == grow(s3, at + 1)
      tail == Except(At(s4, at + 1), CenterMask(rest, W - rest)) | ShiftLeft(v, W - rest)
  IN CASE left = W /\ n = W -> Put(s1, at, v)          \* no word is added here
       [] set = n           -> s3
       [] OTHER             -> Put(s4, at + 1, tail)

\* appendBits(value, length)
AppendBits(s, v, n) ==
  LET left == W - EndBit(s)
      last == EndIndex(s)
      s1   == [s EXCEPT !.length = @ + n]
      over == n - left
  IN CASE left = W  -> Pushed(s1, ShiftLeft(v, W - n))
       [] n <= left -> Put(s1, last, At(s1, last) | ShiftLeft(v, left - n))
       [] OTHER     -> Pushed(Put(s1, last, At(s1, last) | ShiftRight(v, over)),
                              ShiftLeft(v, W - over))

\* the loop that shifts every word after from back by n bits, last word first
ShiftedBack(s, from, n) ==
  LET word(i) == ShiftRight(At(s, i), n) | ShiftLeft(At(s, i - 1), W - n)
  IN [s EXCEPT !.longs = SubSeq(s.longs, 1, from + 1)
                         \o [i \in 1..(EndIndex(s) - from) |-> word(from + i)]]

\* the loop that moves every word from from on back by k words
JumpedBack(s, from, k) ==
  [s EXCEPT !.longs = SubSeq(s.longs, 1, from + k)
                      \o SubSeq(s.longs, from + 1, Len(s.longs) - k)]

\* seeded fault: the word that receives an insertion keeps all it had
AllStaying(x, b) == x

\* what of the word x stays before bit b, and what of it moves back n bits
Staying(x, b) == IF b = 0 THEN 0 ELSE x & LeftMask(b)
Moving(x, b, n) == IF b + n > W THEN 0 ELSE ShiftRight(x, n) & RightMask(W - b - n)

\* insertBits(value, length)
InsertBits(s, v, n) ==
  LET s1   == Resized(s, s.length + n)
      at   == LongIndex(s)
      s2   == IF n = W
              THEN JumpedBack(s1, at, 1)
              ELSE LET t == ShiftedBack(s1, at, n)
                   IN Put(t, at, Staying(At(t, at), BitIndex(s)) | Moving(At(t, at), BitIndex(s), n))
  IN SetBits(s2, v, n)

--------------------------------------------------------------------------------
(* Writing another stream, block by block                                  *)

FromBits(b) == FoldLeft(LAMBDA s, d : AppendBits(s, d, 1), Empty, b)

\* read o in blocks from its start and hand each block to write
EachBlock(s, o, write(_, _, _)) ==
  FoldLeft(LAMBDA p, n : <<write(p[1], Bits(p[2], n), n), Moved(p[2], n)>>,
           <<s, [o EXCEPT !.position = 0]>>,
           Blocks(o.length, W - EndBit(s)))[1]

SetStream(s, o) ==
  LET end == s.position + o.length
  IN EachBlock(IF s.length < end THEN Resized(s, end) ELSE s, o, SetBits)

AppendStream(s, o) == EachBlock(s, o, AppendBits)

InsertStream(s, o) ==
  LET s1   == Resized(s, s.length + o.length)
      at   == LongIndex(s)
      jump == o.length \div W
      rest == o.length % W
      b    == BitIndex(s)
      s2   == JumpedBack(s1, at, jump)
      s3   == ShiftedBack(s2, at + jump, rest)
      old  == At(s3, at + jump)
      s4   == IF jump = 0
              THEN Put(s3, at, Staying(old, b) | Moving(old, b, rest))
              ELSE Put(Put(s3, at, Staying(old, b)), at + jump, Moving(old, b, rest))
  IN SetStream(IF rest = 0 THEN s2 ELSE s4, o)

\* padWidth, with the word fill[i] as the mask of the i-th word it changes
Padded(s, m, fill) ==
  LET need  == m - (s.length % m)
      t     == Resized(s, s.length + need)
      first == s.length \div W
      left  == W - (s.length % W)
      now   == Least(need, left)
      word(i) == LET k == need - now - (i - first - 1) * W
                 IN IF k >= W THEN fill[i] ELSE LeftMask(k) & fill[i]
  IN IF m <= 1 \/ s.length % m = 0
     THEN s
     ELSE [t EXCEPT !.longs = [i \in DOMAIN t.longs |->
            CASE i - 1 < first -> t.longs[i]
              [] i - 1 = first -> t.longs[i] | (CenterMask(now, left - now) & fill[i - 1])
              [] OTHER         -> word(i - 1)]]

--------------------------------------------------------------------------------
(* The calls                                                               *)

StreamInit ==
  /\ longs = <<>> /\ length = 0 /\ position = 0
  /\ answer = <<"none">>

Becomes(s, a) ==
  /\ longs' = s.longs /\ length' = s.length /\ position' = s.position
  /\ answer' = a

Throw == Becomes(Stream, <<"threw">>)

Get(n) ==
  IF Readable(Stream, n)
  THEN Becomes(Moved(Stream, n), <<"number", Bits(Stream, n)>>)
  ELSE Throw

\* checkBits: FALSE where too few bits are left, and otherwise getBits, whose checkLength
\* throws
Check(v, n) ==
  IF length - position < n
  THEN Becomes(Stream, <<"is", FALSE>>)
  ELSE IF Checked(n) THEN Becomes(Stream, <<"is", Bits(Stream, n) = v>>) ELSE Throw

\* copyBits: whole words and a rest, read one by one; a throw leaves the pointer
\* behind the words read before it
Copy(n) ==
  LET blocks == Blocks(n, W)
      whole  == [i \in 0..Len(blocks) |-> FoldLeft(+, 0, SubSeq(blocks, 1, i))]
      copied == FoldLeft(LAMBDA p, k : <<AppendBits(p[1], Bits(p[2], k), k), Moved(p[2], k)>>,
                         <<Empty, Stream>>, blocks)
      reach  == {i \in 0..Len(blocks) : position + whole[i] <= length}
      far    == CHOOSE i \in reach : \A j \in reach : j <= i
  IN IF position + n <= length
     THEN Becomes(copied[2], <<"bits", BitsHeld(copied[1])>>)
     ELSE Becomes(Moved(Stream, whole[far]), <<"threw">>)

\* At the end of a stream of whole words, setBits of a whole word writes past the
\* array (the shortcut comes before the array grows): undefined, and no caller does it
Set(v, n) ==
  /\ position + n <= MaxLength
  /\ ~(n = W /\ position = length /\ length % W = 0)
  /\ IF Checked(n) /\ Sized(v, n) THEN Becomes(SetBits(Stream, v, n), <<"none">>) ELSE Throw

Append2(v, n) ==
  /\ length + n <= MaxLength
  /\ IF Checked(n) /\ Sized(v, n) THEN Becomes(AppendBits(Stream, v, n), <<"none">>) ELSE Throw

Insert(v, n) ==
  /\ length + n <= MaxLength /\ n <= W
  /\ IF Sized(v, n) THEN Becomes(InsertBits(Stream, v, n), <<"none">>) ELSE Throw

SetPiece(b) ==
  /\ position + Len(b) <= MaxLength
  /\ Becomes(SetStream(Stream, FromBits(b)), <<"none">>)

AppendPiece(b) ==
  /\ length + Len(b) <= MaxLength
  /\ Becomes(AppendStream(Stream, FromBits(b)), <<"none">>)

InsertPiece(b) ==
  /\ length + Len(b) <= MaxLength
  /\ Becomes(InsertStream(Stream, FromBits(b)), <<"none">>)

\* appendZeros
Zeros(n) ==
  /\ length + n <= MaxLength
  /\ Becomes(Resized(Stream, length + n), <<"none">>)

\* padWidth with zeros, ones, or a random word per word
Pad(m) ==
  /\ length + m <= MaxLength + 1
  /\ \E fill \in [0..(MaxLength \div W) -> {0, 2^W - 1}] :
       Becomes(Padded(Stream, m, fill), <<"none">>)

\* movePositionTo, movePositionBy, movePositionToBeginning and movePositionToEnd
MoveTo(p) ==
  IF p \in 0..length
  THEN Becomes([Stream EXCEPT !.position = p], <<"none">>)
  ELSE Throw

StreamNext ==
  \/ \E n \in Widths : Get(n) \/ Copy(n) \/ Zeros(n)
  \/ \E v \in Values, n \in Widths :
       Check(v, n) \/ Set(v, n) \/ Append2(v, n) \/ Insert(v, n)
  \/ \E b \in Pieces : SetPiece(b) \/ AppendPiece(b) \/ InsertPiece(b)
  \/ \E m \in Multiples : Pad(m)
  \/ \E p \in -1..(MaxLength + 1) : MoveTo(p)

StreamSpec == StreamInit /\ [][StreamNext]_streamVars

--------------------------------------------------------------------------------
(* Properties                                                              *)

\* Type invariant: there are exactly the words the length needs, and the pointer
\* is inside the stream (BitIO.cpp resizeIfNeeded, checkPosition)
TypeOK ==
  /\ longs \in Seq(0..(2^W - 1))
  /\ length \in 0..(MaxLength + W)
  /\ position \in 0..length
  /\ Len(longs) = (length + W - 1) \div W

\* The bits behind the end of the stream in its last word are zero: appendBits
\* ORs new bits in without clearing the place (BitIO.cpp appendBits)
NothingBehindTheEnd ==
  length % W # 0 => longs[Len(longs)] % 2^(W - EndBit(Stream)) = 0

\* Every call does to the bits what the class promises, whatever words they lie in
\* (BitIO.cpp, all of getBits to appendZeros)
Promise == INSTANCE BitSequence WITH bits <- BitsHeld(Stream), pointer <- position, Word <- W

ImplementsBits == Promise!Spec

================================================================================

--------------------------------- MODULE Codecs ---------------------------------
(***************************************************************************)
(* The encodings DigiAsset Core reads from and writes to its streams: texts *)
(* in four alphabets, numbers of 1 to 7 bytes, prefix codes and script data *)
(* (BitIO.cpp), byte strings in base 58 and hex (Base58.cpp, Blob.cpp) and  *)
(* lists in the database (serialize.h).  A value is encoded, the wire may   *)
(* lose its tail, and what is left is decoded.                              *)
(*                                                                         *)
(* A character is its byte.  An encoder returns [ok, bits], ok being FALSE  *)
(* where the code throws; a decoder takes the bits from a reader [bits, at] *)
(* and returns the value with the reader after it, or ok FALSE.  The 2-to-4 *)
(* and 5-to-6 byte numbers of getFixedPrecision are told by the size of a   *)
(* byte and the radix, which are constants: 8 and 10 in the code.           *)
(***************************************************************************)
EXTENDS BitNumbers

CONSTANTS Texts,        \* byte strings given to makeBestString
          Numbers,      \* given to makeFixedPrecision
          Keys,         \* <<depth, key, xBitLength>> given to makeXBit
          ScriptSizes,  \* numbers of bytes given to makeBitcoin
          Bytes,        \* byte strings given to Base58, Blob and serialize
          ByteBits,     \* bits of a byte of a fixed precision number (8)
          Radix,        \* of its exponent (10)
          LengthBits    \* lengthBits of makeBestString

ASSUME CodecsAssumption == ByteBits > 3 /\ Radix > 1 /\ LengthBits > 0

VARIABLES kind,     \* the codec in use, "none" before
          given,    \* <<the value encoded>>, or <<>>
          wire,     \* [ok, bits] the encoder's result
          cut,      \* has the wire lost bits?
          got       \* <<TRUE, the value decoded>>, <<FALSE>> if it threw, or <<>>

codecVars == <<kind, given, wire, cut, got>>

Wire(b)  == [ok |-> TRUE, bits |-> b]
Refused  == [ok |-> FALSE, bits |-> <<>>]

--------------------------------------------------------------------------------
(* Reading: a reader is [ok, bits, at, value]; a read past the end throws,   *)
(* and nothing is read after a throw.                                       *)

Reader(b) == [ok |-> TRUE, bits |-> b, at |-> 0, value |-> 0]
Thrown(r) == [r EXCEPT !.ok = FALSE, !.value = 0]
With(r, v) == [r EXCEPT !.value = v]

\* seeded fault: what is missing reads as zeros
TakeZeros(r, n) ==
  LET b == r.bits \o [i \in 1..(r.at + n) |-> 0]
  IN [r EXCEPT !.at = @ + n, !.value = Number(SubSeq(b, r.at + 1, r.at + n))]

Take(r, n) ==
  IF r.ok /\ n > 0 /\ r.at + n <= Len(r.bits)
  THEN [r EXCEPT !.at = @ + n, !.value = Number(SubSeq(r.bits, r.at + 1, r.at + n))]
  ELSE Thrown(r)

\* read(r, 1), ..., read(r, n), collecting what each returns
TakeEach(r, n, read(_, _)) ==
  FoldLeft(LAMBDA x, i : LET y == read(x, i)
                         IN With(y, IF y.ok THEN x.value \o y.value ELSE <<>>),
           With(r, <<>>), [i \in 1..n |-> i])

--------------------------------------------------------------------------------
(* Texts in an alphabet: groups of characters as one number                  *)

Run(from, n) == [i \in 1..n |-> from + i - 1]
DigitsAndLetters == Run(48, 10) \o Run(97, 26)

\* BITIO_CHARSET_ALPHA, BITIO_CHARSET_3B40, BITIO_CHARSET_HEX
AlphaSet == DigitsAndLetters \o <<32, 36, 37, 42, 43, 45, 46, 47, 58>>
B40Set   == DigitsAndLetters \o <<35, 36, 38, 46>>
HexSet   == SubSeq(DigitsAndLetters, 1, 16)

\* the bits in which groups of 1, 2, ... characters are written
AlphaSizes == <<6, 11>>
B40Sizes   == <<5, 11, 16>>
HexSizes   == <<4>>

\* text cut in groups of at most n
Groups(text, n) ==
  [i \in 1..((Len(text) + n - 1) \div n) |->
     SubSeq(text, (i - 1) * n + 1, IF i * n < Len(text) THEN i * n ELSE Len(text))]

Position(set, c) == (CHOOSE i \in DOMAIN set : set[i] = c) - 1
GroupNumber(g, set) == FoldLeft(LAMBDA n, c : n * Len(set) + Position(set, c), 0, g)

\* makeAlphaString, make3B40String and makeHexString: a character outside the set and
\* a group its bits do not hold throw
MakeString(text, set, sizes) ==
  LET parts == Groups(text, Len(sizes))
      fits(g) == ToSet(g) \subseteq ToSet(set) /\ GroupNumber(g, set) < 2^sizes[Len(g)]
  IN IF \A i \in DOMAIN parts : fits(parts[i])
     THEN Wire(FlattenSeq([i \in DOMAIN parts |->
                 BitsOf(GroupNumber(parts[i], set), sizes[Len(parts[i])])]))
     ELSE Refused

\* the n characters a number spells; past the set it is the terminator of the C string
Spelled(v, n, set) ==
  [i \in 1..n |-> LET k == IF i = 1 THEN v \div Len(set)^(n - 1)
                           ELSE (v \div Len(set)^(n - i)) % Len(set)
                  IN IF k < Len(set) THEN set[k + 1] ELSE 0]

\* getAlphaString, get3B40String and getHexString of length characters
GetString(r, length, set, sizes) ==
  LET parts == Groups([i \in 1..length |-> i], Len(sizes))
      one(x, i) == LET n == Len(parts[i])
                       y == Take(x, sizes[n])
                   IN With(y, Spelled(y.value, n, set))
  IN TakeEach(r, Len(parts), one)

--------------------------------------------------------------------------------
(* UTF-8: the payload bits of each character after a prefix of its length    *)

Low(byte, n) == byte % 2^n

\* what the first byte of a character says: the bytes that follow, the width written
\* and the bits kept of the first byte; the comparisons are those of the code, which
\* take the last byte of a class (0xdf, 0xef) for the first of the next
Lead(byte) ==
  CASE byte < 223 -> [more |-> 1, width |-> 13, block |-> Low(byte, 7)]
    [] byte >= 223 /\ byte < 239 -> [more |-> 2, width |-> 19, block |-> Low(byte, 7)]
    [] byte >= 239 /\ byte < 247 -> [more |-> 3, width |-> 24, block |-> 56 + Low(byte, 3)]
    [] OTHER -> [more |-> -1, width |-> 0, block |-> 0]

\* makeUTF8String byte by byte: the wire so far and the character begun.  A character
\* begun and not ended is dropped
Utf8Byte(x, byte) ==
  LET c    == x.char
      grown == [c EXCEPT !.more = @ - 1, !.block = @ * 64 + Low(byte, 6)]
      new  == Lead(byte)
      bad  == [x EXCEPT !.wire = Refused]
      done(v, n) == [wire |-> Wire(x.wire.bits \o BitsOf(v, n)), char |-> [c EXCEPT !.more = 0]]
  IN CASE ~x.wire.ok -> x
       [] x.wire.ok /\ byte < 128 -> IF c.more = 0 THEN done(byte, 8) ELSE bad
       [] x.wire.ok /\ byte >= 128 /\ c.more = 0 ->
            IF new.more = -1 THEN bad ELSE [x EXCEPT !.char = new]
       [] OTHER -> IF grown.more > 0 THEN [x EXCEPT !.char = grown]
                   ELSE done(grown.block, c.width)

MakeUTF8(text) ==
  FoldLeft(Utf8Byte, [wire |-> Wire(<<>>), char |-> [more |-> 0, width |-> 0, block |-> 0]],
           text).wire

\* getUTF8String: the prefix 0, 10, 110 or 111, the bits of the first byte and six of
\* each byte that follows
GetCharacter(r, i) ==
  LET one   == Take(r, 1)
      two   == Take(one, 1)
      three == Take(two, 1)
      long  == CASE two.value = 0 -> <<192, 5, 1>>
                 [] two.value = 1 /\ three.value = 0 -> <<224, 4, 2>>
                 [] OTHER -> <<240, 3, 3>>
      head  == Take(IF long[3] = 1 THEN two ELSE three, long[2])
      tail  == TakeEach(head, long[3], LAMBDA x, k : LET y == Take(x, 6)
                                                     IN With(y, <<128 + y.value>>))
      short == Take(one, 7)
  IN IF ~one.ok \/ one.value = 0
     THEN With(short, <<short.value>>)
     ELSE With(tail, <<long[1] + head.value>> \o tail.value)

GetUTF8(r, length) == TakeEach(r, length, GetCharacter)

--------------------------------------------------------------------------------
(* Prefix codes                                                              *)

\* xBitValue::verify and makeXBit
MakeXBit(x) ==
  IF x[2] = 0 \/ x[3] = 0 \/ x[2] >= 2^x[3]
  THEN Refused
  ELSE Wire([i \in 1..(x[1] * x[3]) |-> 0] \o BitsOf(x[2], x[3]))

\* getXBit: groups of x bits until one is not zero
GetXBit(r, x) ==
  LET read  == TakeEach(r, (Len(r.bits) - r.at) \div x, LAMBDA y, i : LET z == Take(y, x)
                                                       IN With(z, <<z.value>>)).value
      depth == CHOOSE d \in 0..Len(read) :
                 /\ d = Len(read) \/ read[d + 1] # 0
                 /\ \A e \in 1..d : read[e] = 0
  IN IF depth = Len(read)
     THEN Thrown(r)
     ELSE With([r EXCEPT !.at = @ + (depth + 1) * x], <<depth, read[depth + 1], x>>)

--------------------------------------------------------------------------------
(* The shortest of four encodings                                            *)

\* defaultHeaderOptions, in order
Encoders == <<"alpha", "3b40", "utf8", "hex">>
HeaderOf(e) == (CASE e = "alpha" -> <<0, 1, 2>> [] e = "3b40" -> <<0, 2, 2>>
                  [] e = "utf8" -> <<0, 3, 2>> [] OTHER -> <<1, 1, 2>>)

ToLower(c) == IF c \in 65..90 THEN c + 32 ELSE c

\* stringLength: bytes that do not continue a character
Characters(text) == Len(SelectSeq(text, LAMBDA c : c \div 64 # 2))

EncodedBy(e, text) ==
  CASE e = "alpha" -> MakeString(text, AlphaSet, AlphaSizes)
    [] e = "3b40"  -> MakeString(text, B40Set, B40Sizes)
    [] e = "utf8"  -> MakeUTF8(text)
    [] OTHER       -> MakeString([i \in DOMAIN text |-> ToLower(text[i])], HexSet, HexSizes)

Accepting(text) == SelectSeq(Encoders, LAMBDA e : EncodedBy(e, text).ok)

\* header, number of characters, encoded characters
Framed(e, text) ==
  MakeXBit(HeaderOf(e)).bits \o BitsOf(Characters(text), LengthBits) \o EncodedBy(e, text).bits

\* makeBestString: the first of the shortest
MakeBest(text) ==
  LET shorter(best, e) ==
        IF ~best.ok \/ Len(Framed(e, text)) < Len(best.bits) THEN Wire(Framed(e, text)) ELSE best
  IN IF Characters(text) >= 2^LengthBits
     THEN Refused
     ELSE FoldLeft(shorter, Refused, Accepting(text))

\* getBestString
GetBest(r) ==
  LET header == GetXBit(r, 2)
      length == Take(header, LengthBits)
      chosen == SelectSeq(Encoders, LAMBDA e : HeaderOf(e) = header.value)
      n      == length.value
  IN IF ~length.ok \/ chosen = <<>> THEN Thrown(r)
     ELSE CASE Head(chosen) = "alpha" -> GetString(length, n, AlphaSet, AlphaSizes)
            [] Head(chosen) = "3b40"  -> GetString(length, n, B40Set, B40Sizes)
            [] Head(chosen) = "utf8"  -> GetUTF8(length, n)
            [] OTHER                  -> GetString(length, n, HexSet, HexSizes)

--------------------------------------------------------------------------------
(* Numbers of 1 to 7 bytes: the size, a mantissa, an exponent of the radix   *)

\* bits of the mantissa and of the exponent of a number of n bytes
Mantissa(n) == CASE n = 1 -> ByteBits - 3
                 [] n \in 2..4 -> n * ByteBits - 7
                 [] n \in 5..6 -> n * ByteBits - 6
                 [] OTHER -> 7 * ByteBits - 2
Exponent(n) == CASE n \in 2..4 -> 4 [] n \in 5..6 -> 3 [] OTHER -> 0
MaxMantissa(n) == 2^Mantissa(n) - 1

\* how often the radix divides v, v > 0
Trailing(v) == CHOOSE e \in 0..31 : v % Radix^e = 0 /\ v % Radix^(e + 1) # 0

\* the exponent makeFixedPrecision ends with: none past the six byte mantissa, at most
\* 7 past the four byte one
ExponentOf(v) ==
  LET e == Trailing(v)
      m == v \div Radix^e
  IN CASE m > MaxMantissa(6) -> 0
       [] m <= MaxMantissa(6) /\ m > MaxMantissa(4) /\ e > 7 -> 7
       [] OTHER -> e

\* the bytes a number takes: the fewest whose mantissa holds it
SizeOf(m) == CHOOSE n \in 2..7 : m <= MaxMantissa(n) /\ (n = 2 \/ m > MaxMantissa(n - 1))

MakeNumber(v) ==
  LET e == ExponentOf(v)
      m == v \div Radix^e
      n == SizeOf(m)
  IN CASE v > MaxMantissa(7) -> Refused
       [] v <= MaxMantissa(1) -> Wire(BitsOf(v, ByteBits))
       [] OTHER -> IF n = 7 THEN Wire(<<1, 1>> \o BitsOf(m, Mantissa(7)))
                   ELSE IF e < 2^Exponent(n)
                   THEN Wire(BitsOf(n - 1, 3) \o BitsOf(m, Mantissa(n)) \o BitsOf(e, Exponent(n)))
                   ELSE Refused

GetNumber(r) ==
  LET head == Take(r, 3)
      n    == IF head.value >= 6 THEN 7 ELSE head.value + 1
      mant == Take(IF n = 7 THEN [head EXCEPT !.at = @ - 1] ELSE head, Mantissa(n))
      expo == Take(mant, Exponent(n))
  IN IF n \in {1, 7} THEN mant
     ELSE With(expo, mant.value * Radix^expo.value)

--------------------------------------------------------------------------------
(* Script data: an opcode and a size, then that many bytes                   *)

\* makeBitcoin of size bytes (the bytes are 0)
ScriptData(size) ==
  LET head == CASE size > 65535 -> BitsOf(78, 8) \o <<0>> \o BitsOf(size, 31)
                [] size \in 256..65535 -> BitsOf(77, 8) \o BitsOf(size, 16)
                [] size \in 76..255 -> BitsOf(76, 8) \o BitsOf(size, 8)
                [] OTHER -> BitsOf(size, 8)
  IN Wire(head \o [i \in 1..(8 * size) |-> 0])

\* makeBitcoin of a number
ScriptNumber(v) ==
  IF v \in -1..16 THEN Wire(BitsOf(IF v = 0 THEN 0 ELSE v + 80, 8)) ELSE Refused

\* getBitcoinDataHeader: a number is read, data (-2) is left to be read
GetHeader(r) ==
  LET op == Take(r, 8)
  IN CASE op.value = 0 -> op
       [] op.value \in 79..96 \ {80} -> With(op, op.value - 80)
       [] op.value \in 1..78 -> With(IF op.ok THEN r ELSE op, -2)
       [] OTHER -> Thrown(op)

\* getBitcoinData and copyBitcoinData: the size of the data and the reader after it
GetData(r) ==
  LET op   == Take(r, 8)
      size == CASE op.value = 76 -> Take(op, 8)
                [] op.value = 77 -> Take(op, 16)
                [] op.value = 78 -> Take(op, 32)
                [] OTHER -> op
  IN IF op.value \in 1..78 /\ size.at + 8 * size.value <= Len(r.bits)
     THEN [size EXCEPT !.at = @ + 8 * size.value]
     ELSE Thrown(size)

--------------------------------------------------------------------------------
(* Byte strings: base 58, hex and lists in the database                      *)

\* the digits of c in base b, least significant first
RECURSIVE Digits(_, _)
Digits(c, b) == IF c = 0 THEN <<>> ELSE <<c % b>> \o Digits(c \div b, b)

\* one round of Base58::encode and decode: digits in base b, least first, become
\* digits * times + carry
Shifted(digits, times, carry, b) ==
  LET step(x, d) == LET c == x.carry + d * times
                    IN [out |-> Append(x.out, c % b), carry |-> c \div b]
      x == FoldLeft(step, [out |-> <<>>, carry |-> carry], digits)
  IN x.out \o Digits(x.carry, b)

Leading(s, c) == SelectInSeq(SubSeq(s, 1, Len(s) - 1), LAMBDA x : x # c)

LeadCount(s, c) == IF Leading(s, c) = 0 THEN Len(s) - 1 ELSE Leading(s, c) - 1

\* from base `from` to base `to`, most significant first, a leading zero kept for each
\* but the last: encode is Rebased(data, 256, 58), decode Rebased(digits, 58, 256)
Rebased(s, from, to) ==
  [i \in 1..LeadCount(s, 0) |-> 0]
  \o Reverse(FoldLeft(LAMBDA d, c : Shifted(d, from, c, to), <<0>>, s))

\* the room both reserve for the digits: size * 138 / 100 + 1
Room(s) == (Len(s) * 138) \div 100 + 1

\* Blob(hex) and toHex
ToHex(bytes) == FlattenSeq([i \in DOMAIN bytes |-> <<HexSet[(bytes[i] \div 16) + 1],
                                                     HexSet[(bytes[i] % 16) + 1]>>])
FromHex(text) == [i \in 1..(Len(text) \div 2) |->
                    16 * Position(HexSet, text[2 * i - 1]) + Position(HexSet, text[2 * i])]

\* serialize.h: a 64 bit number, high byte first; a string and a vector begin with
\* their size.  A vector of strings stands for the nested lists of the rules
Stored(n) == [i \in 1..40 |-> 0] \o BitsOf(n, 24)
StoredText(text) == Stored(Len(text)) \o FlattenSeq([i \in DOMAIN text |-> BitsOf(text[i], 8)])
Serialized(list) == Stored(Len(list)) \o FlattenSeq([i \in DOMAIN list |-> StoredText(list[i])])

Load(r) == LET high == Take(r, 40)
               low  == Take(high, 24)
           IN low
LoadText(r) == LET n == Load(r)
               IN TakeEach(n, n.value, LAMBDA x, i : LET y == Take(x, 8)
                                                     IN With(y, <<y.value>>))
Deserialized(r) == LET n == Load(r)
                   IN TakeEach(n, n.value, LAMBDA x, i : LET y == LoadText(x)
                                                         IN With(y, <<y.value>>))

--------------------------------------------------------------------------------
(* A value is encoded, the wire may lose its tail, the rest is decoded       *)

CodecInit ==
  /\ kind = "none" /\ given = <<>> /\ wire = Refused
  /\ cut = FALSE /\ got = <<>>

Encode(k, v, w) ==
  /\ kind = "none"
  /\ kind' = k /\ given' = <<v>> /\ wire' = w
  /\ UNCHANGED <<cut, got>>

EncodeText   == \E t \in Texts : Encode("text", t, MakeBest(t))
EncodeNumber == \E v \in Numbers : Encode("number", v, MakeNumber(v))
EncodeKey    == \E x \in Keys : Encode("key", x, MakeXBit(x))
EncodeData   == \E n \in ScriptSizes : Encode("data", n, ScriptData(n))
EncodeOpcode == \E v \in -2..17 : Encode("opcode", v, ScriptNumber(v))
EncodeList   == \E a, b \in Bytes : Encode("list", <<a, b>>, Wire(Serialized(<<a, b>>)))
EncodeBase58 == \E a, b \in Bytes : a \o b # <<>> /\ Encode("base58", a \o b, Wire(Rebased(a \o b, 256, 58)))
EncodeHex    == \E a \in Bytes : Encode("hex", a, Wire(ToHex(a)))

\* the tail of a stream is missing: a shorter script, a truncated row
Cut ==
  /\ kind \in {"text", "number", "key", "data", "list"} /\ got = <<>> /\ wire.ok /\ ~cut
  /\ Len(wire.bits) > 0
  /\ \E n \in {0, Len(wire.bits) \div 2, Len(wire.bits) - 1} :
       wire' = Wire(SubSeq(wire.bits, 1, n))
  /\ cut' = TRUE
  /\ UNCHANGED <<kind, given, got>>

Answer(r) == IF r.ok THEN <<TRUE, r.value>> ELSE <<FALSE>>

Decoded(r) ==
  CASE kind = "text"   -> Answer(GetBest(r))
    [] kind = "number" -> Answer(GetNumber(r))
    [] kind = "key"    -> Answer(GetXBit(r, given[1][3]))
    [] kind = "data"   -> Answer(GetData(r))
    [] kind = "opcode" -> Answer(GetHeader(r))
    [] kind = "list"   -> Answer(Deserialized(r))
    [] kind = "base58" -> <<TRUE, Rebased(wire.bits, 58, 256)>>
    [] OTHER           -> <<TRUE, FromHex(wire.bits)>>

Decode ==
  /\ kind # "none" /\ wire.ok /\ got = <<>>
  /\ got' = Decoded(Reader(wire.bits))
  /\ UNCHANGED <<kind, given, wire, cut>>

Reset ==
  /\ kind # "none" /\ (wire.ok => got # <<>>)
  /\ kind' = "none" /\ given' = <<>> /\ wire' = Refused
  /\ cut' = FALSE /\ got' = <<>>

CodecNext ==
  \/ EncodeText \/ EncodeNumber \/ EncodeKey \/ EncodeData \/ EncodeOpcode
  \/ EncodeList \/ EncodeBase58 \/ EncodeHex
  \/ Cut \/ Decode \/ Reset

CodecSpec == CodecInit /\ [][CodecNext]_codecVars

--------------------------------------------------------------------------------
(* Properties                                                              *)

\* A text with a character that makeUTF8String takes to be a byte longer than it is:
\* U+07C0 to U+07FF, led by 0xdf, and U+F000 to U+FFFF, led by 0xef.
Mistaken(text) == ToSet(text) \cap {223, 239} # {}

Unmistaken == kind = "text" => ~Mistaken(given[1])

\* What was encoded is what is decoded (BitIO.cpp, Base58.cpp, Blob.cpp, serialize.h),
\* but for the texts with a mistaken character, none of which is: BitIO.cpp:806 and 814
\* ask for less than 0xdf and 0xef, so the character swallows the byte after it.
ReadsBack == ~cut /\ got # <<>> => (got = <<TRUE, given[1]>> <=> Unmistaken)

\* A stream that lost its tail is refused, never read as another value: every decoder
\* reaches a read past the end (BitIO.cpp checkAvailableBits, serialize.h)
CutIsNoticed == cut /\ got # <<>> /\ Unmistaken => got = <<FALSE>>

\* Whatever arrives is the value that was encoded, or nothing; a text with a mistaken
\* character never arrives.
NothingIsMisread == ReadsBack /\ CutIsNoticed

\* A number takes 1 to 7 whole bytes (the streams after it stay aligned), and the digits
\* of a byte string fit the room reserved for them (BitIO.cpp makeFixedPrecision,
\* Base58.cpp encode and decode write behind the array otherwise)
FitsRoom ==
  /\ kind = "number" /\ wire.ok /\ ~cut => Len(wire.bits) \in {n * ByteBits : n \in 1..7}
  /\ kind = "base58" =>
       /\ Len(Rebased(given[1], 256, 58)) <= Room(given[1]) + LeadCount(given[1], 0)
       /\ Len(Rebased(wire.bits, 58, 256)) <= Room(wire.bits) + LeadCount(wire.bits, 0)

================================================================================

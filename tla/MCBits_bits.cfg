SPECIFICATION Spec
CONSTANTS
  W = 3
  MaxLength = 7
  Values <- MCValues
  Widths <- MCWidths
  Pieces <- MCPieces
  Multiples <- MCMultiples
  Texts <- MCTexts
  Numbers <- MCNumbers
  Keys <- MCKeys
  ScriptSizes <- MCScriptSizes
  Bytes <- MCBytes
  ByteBits = 4
  Radix = 3
  LengthBits = 4
  V = V
  Z = Z
  P = P
  Person = {V, Z, P}
  Bare = Bare
  Verifier = {V}
  Watch = {Z}
  Shape <- MCShape
  Plain = Plain
  SpecialInputs = 1
  MaxDataTxs = 3
  MaxForks = 1
INVARIANT EncodingInv
INVARIANT NothingIsMisread
INVARIANT RecordsInv
INVARIANT AuthorsOnly
PROPERTY ImplementsBits
CHECK_DEADLOCK FALSE

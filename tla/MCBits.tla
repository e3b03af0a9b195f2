--------------------------------- MODULE MCBits ---------------------------------
(* The bit streams, what is encoded in them, and what the data of an OP_RETURN *)
(* makes of a transaction.  They share no state, so a behaviour is one of them. *)
EXTENDS BitStream, Codecs, DataTransactions, FiniteSetsExt

CONSTANTS V, Z, P

VARIABLE part

\* Words of 3 bits: values up to a full word, widths up to one past it, other streams
\* shorter than a word, of a word and a bit, and of two words.
MCValues    == {0, 1, 5, 7}
MCWidths    == 0..4
MCPieces    == {<<1>>, <<1, 1, 0, 1>>, <<1, 0, 1, 1, 0, 1>>}
MCMultiples == {0, 2, 4}

\* Texts of every alphabet and of characters of 1 to 4 bytes; numbers at each change of
\* size with each exponent; byte strings with leading zeros and full bytes.
\* 0 9 a f g w space # (no upper case hex digit: it is read back in lower case)
MCLetters == {<<48>>, <<57>>, <<97>>, <<102>>, <<103>>, <<119>>, <<32>>, <<35>>, <<90>>}
\* The first, one in the midst and the last character of two, of three and of four bytes;
\* U+07C0 and U+F000, the first that are taken for one byte longer, and U+07FF and U+FFFF,
\* the last.
MCWide    == {<<194, 128>>, <<195, 169>>, <<222, 191>>, <<223, 128>>, <<223, 191>>,
              <<224, 160, 128>>, <<226, 130, 172>>, <<238, 191, 191>>, <<239, 128, 128>>,
              <<239, 191, 191>>, <<240, 144, 128, 128>>, <<240, 159, 152, 128>>,
              <<244, 143, 191, 191>>}
MCTexts   == {<<>>} \cup MCLetters \cup MCWide
             \cup {a \o b : a, b \in MCLetters \cup MCWide}
             \cup {a \o b \o c : a \in MCLetters, b \in {<<97>>, <<35>>, <<103>>}, c \in MCLetters}

\* bytes of 4 bits: mantissas of 1, 1, 5, 9, 14, 18 and 26 bits, radix 3
MCMantissas == {1, 2, 4, 5, 31, 32, 511, 512, 16383, 16384, 16385, 262142, 262143, 262144,
                262145, 67108862}
MCNumbers   == {0, 67108863, 67108864}
               \cup {n \in {m * 3^e : m \in MCMantissas, e \in 0..3} : n < 67108864}
               \cup {n \in {m * 3^e : m \in {1, 2, 4, 32, 512, 514, 517}, e \in 4..10} : n < 67108864}

MCKeys        == {<<d, k, x>> : d \in 0..2, k \in 0..3, x \in 1..2}
MCScriptSizes == {1, 75, 76, 255, 256}
MCBytes       == {<<>>, <<0>>, <<0, 0>>, <<1>>, <<57>>, <<58>>, <<255>>, <<0, 255>>,
                  <<255, 255>>, <<1, 0, 0>>, <<255, 255, 255>>}

\* A verifier V, an address Z of exchange rates, somebody else P.
Pays(a, n) == [address |-> a, value |-> n, data |-> Plain]
Says(x) == [address |-> Bare, value |-> 0, data |-> x]
MCShape ==
    {<<Pays(P, 600), Says("kyc"), Pays(V, 1)>>, <<Pays(V, 601), Says("kyc")>>,
     <<Says("rates"), Pays(Z, 1)>>, <<Pays(P, 650), Says("text")>>,
     <<Pays(P, 1), Says("issue")>>, <<Says("text"), Pays(Bare, 1), Says("move")>>,
     <<Pays(Z, 1), Pays(P, 1)>>}

Init == part \in {"stream", "codecs", "data"} /\ StreamInit /\ CodecInit /\ DataInit

Next == \/ part = "stream" /\ StreamNext /\ UNCHANGED <<codecVars, dataVars, part>>
        \/ part = "codecs" /\ CodecNext /\ UNCHANGED <<streamVars, dataVars, part>>
        \/ part = "data" /\ DataNext /\ UNCHANGED <<streamVars, codecVars, part>>

\* What the three keep in order for the next call: no bit behind the end of a stream, no
\* digit behind the room reserved for it, no record of a block that a node has not seen.
EncodingInv == TypeOK /\ NothingBehindTheEnd /\ FitsRoom /\ DataTypeOK

Spec == Init /\ [][Next]_<<streamVars, codecVars, dataVars, part>>
================================================================================

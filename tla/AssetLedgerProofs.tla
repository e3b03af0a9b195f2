------------------------- MODULE AssetLedgerProofs -------------------------
(***************************************************************************)
(* Theorems about AssetLedger: what the tables say of each other after every *)
(* transaction, that rules which cannot be rewritten stay, that no           *)
(* transaction makes assets out of nothing or loses one without a report,    *)
(* and that a transfer only gives to whom the rules of the asset allow.      *)
(*                                                                         *)
(* A transfer moves holdings with folds over sequences.  Their definition is  *)
(* recursive, so the first part shows that the functions they name exist and   *)
(* that they stay in a set their step does not leave; the provers have no      *)
(* induction over data, and both are argued from a least counterexample.       *)
(***************************************************************************)
EXTENDS AssetLedger, TLAPS, FiniteSetTheorems, WellFoundedInduction, NaturalsInduction, SequenceTheorems

-----------------------------------------------------------------------------
(* The inductive invariant                                                  *)

Outs(indexes) == [address : Address \cup {NoAddress}, value : Nat, holds : Seq(Holdings(indexes))]

\* A transfer that moves assets of the given indexes.
Moves(indexes) ==
    [left : Seq(Seq(Holdings(indexes))), index : Nat \ {0}, allowSkip : BOOLEAN,
     outs : Seq(Outs(indexes)) \ {<< >>}, stopped : BOOLEAN,
     burnt : Seq(Holdings(indexes)), wrapped : BOOLEAN]

\* The new asset of an issuance has index 0 unless its id has a row.
Indexes(t) == IF t.type = "issuance" THEN 0 .. Len(rows) ELSE 1 .. Len(rows)

\* handleRulesConflict has seen the row the issuance will update.
RowHeeded(asset) ==
    Updates(asset) =>
        LET old == rows[IndexAdded(asset)].rules
        IN ~old.none /\ ~old.rewritable => asset.rules = old

IsTx(t) ==
    /\ t = [type |-> t.type, legacy |-> t.legacy, ins |-> t.ins, given |-> t.given, asset |-> t.asset,
            read |-> t.read, move |-> t.move]
    /\ t.type \in {"issuance", "transfer", "burn"}
    /\ t.read \in 0 .. MaxInstructions
    /\ Holding(t.given) \in Seq(Seq(Holdings(Indexes(t))))
    /\ t.move \in Moves(Indexes(t))
    /\ t.type = "issuance" => /\ t.asset.id.kind = t.asset.kind /\ t.asset.id.locked = t.asset.locked
                              /\ RowHeeded(t.asset)

\* A table of assets at height h.
TableOK(table, h) ==
    /\ table \in Seq(Range(table))
    /\ \A k \in 1..Len(table) : IsRow(table[k]) /\ table[k].updated <= h
    /\ \A j, k \in 1..Len(table) :
          table[j].id = table[k].id /\ table[j].kind = "aggregable" /\ ~table[j].locked => j = k

RowsOK == TableOK(rows, height)

CoinsOK ==
    /\ coins \subseteq CoinsOf(made, Len(rows))
    /\ \A c \in coins : c.issued => HoldsOne(c)

CountsOK ==
    /\ made \in 0 .. MaxTx /\ height \in 1 .. MaxHeight
    /\ stuck \in {"no", "feed", "index", "kyc", "short"}
    /\ DOMAIN votes \subseteq (DOMAIN rows) \X Address

TxOK == tx # NoTx => IsTx(tx) /\ made < MaxTx

IInv == RowsOK /\ CoinsOK /\ CountsOK /\ TxOK
-----------------------------------------------------------------------------
(* Folds and recursive functions                                             *)

\* A set of naturals that is not empty has a least one.
LEMMA Least ==
    ASSUME NEW S \in SUBSET Nat, S # {}
    PROVE  \E n \in S : \A m \in S : n <= m
<1>1. PICK n \in S : \A m \in S : <<m, n>> \notin OpToRel(<, Nat)
  BY NatLessThanWellFounded, WFMin
<1>2. ASSUME NEW m \in S PROVE n <= m
  <2>1. n \in Nat /\ m \in Nat /\ <<m, n>> \notin OpToRel(<, Nat)
    BY <1>1
  <2>2. ~(m < n)
    BY <2>1 DEF OpToRel
  <2>3. n \in Nat /\ m \in Nat
    OBVIOUS
  <2> QED BY <2>2, <2>3
<1> QED BY <1>2

\* A set that has 0, and with every number below n the next one, has all up to n.
LEMMA Climb ==
    ASSUME NEW n \in Nat, NEW P, 0 \in P,
           \A m \in 1..n : m - 1 \in P => m \in P
    PROVE  \A m \in 0..n : m \in P
<1> DEFINE Bad == {m \in 0..n : m \notin P}
<1>1. SUFFICES ASSUME Bad # {} PROVE FALSE
  OBVIOUS
<1>2. Bad \in SUBSET Nat
  OBVIOUS
<1>3. PICK m \in Bad : \A k \in Bad : m <= k
  BY <1>1, <1>2, Least
<1>4. m \in 0..n /\ m \notin P /\ m # 0
  BY <1>3
<1>5. m - 1 \in 0..n /\ ~(m <= m - 1)
  BY <1>4
<1>6. m - 1 \in P
  BY <1>3, <1>5
<1> QED BY <1>4, <1>6

\* The values r of a recursion over 0 .. n: the first, and each from the one before.
Recursion(r, n, base, G) ==
    /\ r[0] = base
    /\ \A m \in 1..n : r[m] = G[<<r[m - 1], m>>]

\* A recursion has values.
LEMMA RecursionExists ==
    ASSUME NEW n \in Nat, NEW A, NEW base \in A, NEW G \in [A \X (1..n) -> A]
    PROVE  \E r \in [0..n -> A] : Recursion(r, n, base, G)
<1> DEFINE P == {m \in 0..n : \E r \in [0..m -> A] : Recursion(r, m, base, G)}
<1>1. 0 \in P
  <2> DEFINE r == [m \in 0..0 |-> base]
  <2>1. r \in [0..0 -> A] /\ Recursion(r, 0, base, G)
    BY DEF Recursion
  <2> QED BY <2>1
<1>2. ASSUME NEW m \in 1..n, m - 1 \in P PROVE m \in P
  <2>1. PICK r \in [0..(m - 1) -> A] : Recursion(r, m - 1, base, G)
    BY <1>2
  <2> DEFINE q == [k \in 0..m |-> IF k = m THEN G[<<r[m - 1], m>>] ELSE r[k]]
  <2>2. q \in [0..m -> A]
    <3>1. <<r[m - 1], m>> \in A \X (1..n)
      BY <2>1
    <3> QED BY <2>1, <3>1
  <2>3. Recursion(q, m, base, G)
    <3>1. q[0] = base
      BY <2>1 DEF Recursion
    <3>2. ASSUME NEW k \in 1..m PROVE q[k] = G[<<q[k - 1], k>>]
      <4>1. q[k - 1] = r[k - 1]
        OBVIOUS
      <4>2. CASE k = m
        <5>1. q[m] = G[<<r[m - 1], m>>]
          OBVIOUS
        <5> HIDE DEF q
        <5> QED BY <4>1, <4>2, <5>1
      <4>3. CASE k # m
        <5>1. k \in 1..(m - 1) /\ q[k] = r[k]
          BY <4>3
        <5>2. r[k] = G[<<r[k - 1], k>>]
          BY <2>1, <5>1 DEF Recursion
        <5> QED BY <4>1, <5>1, <5>2
      <4> QED BY <4>2, <4>3
    <3> QED BY <3>1, <3>2 DEF Recursion
  <2> HIDE DEF q
  <2> QED BY <2>2, <2>3
<1> HIDE DEF P
<1>3. n \in P
  BY <1>1, <1>2, Climb
<1> QED BY <1>3 DEF P

\* The greatest number of a part of 1 .. m that has m.
LEMMA MaxOfUpTo ==
    ASSUME NEW m \in Nat, NEW s \in SUBSET (1..m), m \in s
    PROVE  Max(s) = m
<1>1. \A x \in s : m >= x
  OBVIOUS
<1>2. \A y : y \in s /\ (\A x \in s : y >= x) => y = m
  OBVIOUS
<1> QED BY <1>1, <1>2 DEF Max

\* The greatest number of a part of 1 .. n is one of it.
LEMMA MaxInside ==
    ASSUME NEW n \in Nat, NEW s \in SUBSET (1..n), s # {}
    PROVE  Max(s) \in s /\ Max(s) \in 1..n
<1> DEFINE P == {n - x : x \in s}
<1>1. P \in SUBSET Nat /\ P # {}
  <2>1. \A x \in s : n - x \in Nat
    OBVIOUS
  <2> QED BY <2>1
<1>2. PICK p \in P : \A q \in P : p <= q
  BY <1>1, Least
<1>3. PICK y \in s : p = n - y
  BY <1>2
<1>4. ASSUME NEW x \in s PROVE y >= x
  <2>1. n - x \in P
    OBVIOUS
  <2>2. n - y <= n - x
    BY <1>2, <1>3, <2>1
  <2> QED BY <2>2
<1> QED BY <1>3, <1>4 DEF Max

\* The parts of 1 .. n a fold over n elements asks for.
LEMMA UpTo ==
    ASSUME NEW n \in Nat, NEW m \in 1..n
    PROVE  /\ 1..m \in SUBSET (1..n) /\ 1..m # {}
           /\ Max(1..m) = m /\ (1..m) \ {m} = 1..(m - 1)
<1>1. 1..m \in SUBSET (1..n) /\ m \in 1..m /\ m \in Nat
  OBVIOUS
<1>2. Max(1..m) = m
  BY <1>1, MaxOfUpTo
<1>3. (1..m) \ {m} = 1..(m - 1)
  OBVIOUS
<1> QED BY <1>1, <1>2, <1>3

\* A fold's recursive function, on the parts of 1 .. n.
Folding(g, n, base, G) ==
    \A s \in SUBSET (1..n) : g[s] = IF s = {} THEN base ELSE G[<<g[s \ {Max(s)}], Max(s)>>]

\* It exists.
LEMMA FoldExists ==
    ASSUME NEW n \in Nat, NEW A, NEW base \in A, NEW G \in [A \X (1..n) -> A]
    PROVE  \E g \in [SUBSET (1..n) -> A] : Folding(g, n, base, G)
<1> DEFINE P == {m \in 0..n : \E g \in [SUBSET (1..m) -> A] : Folding(g, m, base, G)}
<1>1. 0 \in P
  <2> DEFINE g == [s \in SUBSET (1..0) |-> base]
  <2>1. g \in [SUBSET (1..0) -> A]
    OBVIOUS
  <2>2. Folding(g, 0, base, G)
    BY DEF Folding
  <2> QED BY <2>1, <2>2
<1>2. ASSUME NEW m \in 1..n, m - 1 \in P PROVE m \in P
  <2>1. PICK g \in [SUBSET (1..(m - 1)) -> A] : Folding(g, m - 1, base, G)
    BY <1>2
  <2> DEFINE h == [s \in SUBSET (1..m) |-> IF m \in s THEN G[<<g[s \ {m}], m>>] ELSE g[s]]
  <2>2. ASSUME NEW s \in SUBSET (1..m), m \in s
        PROVE  s \ {m} \in SUBSET (1..(m - 1)) /\ Max(s) = m /\ h[s] = G[<<g[s \ {m}], m>>]
    <3>1. Max(s) = m
      BY <2>2, MaxOfUpTo
    <3> QED BY <2>2, <3>1
  <2>3. ASSUME NEW s \in SUBSET (1..m), m \notin s
        PROVE  s \in SUBSET (1..(m - 1)) /\ h[s] = g[s]
    BY <2>3
  <2>4. h \in [SUBSET (1..m) -> A]
    <3> SUFFICES ASSUME NEW s \in SUBSET (1..m) PROVE h[s] \in A
      OBVIOUS
    <3>1. CASE m \in s
      <4>1. g[s \ {m}] \in A
        BY <3>1, <2>2
      <4> HIDE DEF h
      <4>2. <<g[s \ {m}], m>> \in A \X (1..n)
        BY <4>1
      <4> QED BY <3>1, <2>2, <4>2
    <3>2. CASE m \notin s
      BY <3>2, <2>3
    <3> QED BY <3>1, <3>2
  <2>5. Folding(h, m, base, G)
    <3> SUFFICES ASSUME NEW s \in SUBSET (1..m)
                 PROVE  h[s] = IF s = {} THEN base ELSE G[<<h[s \ {Max(s)}], Max(s)>>]
      BY DEF Folding
    <3>1. CASE m \in s
      <4>1. m \notin s \ {m} /\ s \ {m} \in SUBSET (1..m)
        OBVIOUS
      <4>2. h[s \ {m}] = g[s \ {m}]
        BY <4>1, <2>3
      <4> HIDE DEF h
      <4> QED BY <3>1, <4>2, <2>2
    <3>2. CASE s = {}
      <4>1. h[s] = g[s] /\ s \in SUBSET (1..(m - 1))
        BY <3>2, <2>3
      <4> HIDE DEF h
      <4> QED BY <3>2, <2>1, <4>1 DEF Folding
    <3>3. CASE m \notin s /\ s # {}
      <4>1. h[s] = g[s] /\ s \in SUBSET (1..(m - 1))
        BY <3>3, <2>3
      <4>2. m \notin s \ {Max(s)} /\ s \ {Max(s)} \in SUBSET (1..m)
        BY <3>3
      <4>3. h[s \ {Max(s)}] = g[s \ {Max(s)}]
        BY <4>2, <2>3
      <4>4. g[s] = G[<<g[s \ {Max(s)}], Max(s)>>]
        BY <3>3, <2>1, <4>1 DEF Folding
      <4> HIDE DEF h
      <4> QED BY <3>3, <4>1, <4>3, <4>4
    <3> QED BY <3>1, <3>2, <3>3
  <2>6. m \in 0..n
    OBVIOUS
  <2> HIDE DEF h
  <2> QED BY <2>4, <2>5, <2>6
<1> HIDE DEF P
<1>3. n \in P
  BY <1>1, <1>2, Climb
<1> QED BY <1>3 DEF P

StaysIn(g, n, A) ==
    /\ g[{}] \in A
    /\ \A s \in SUBSET (1..n) : s # {} /\ g[s \ {Max(s)}] \in A => g[s] \in A

\* What a fold's function has for the first m elements stays where a step stays.
LEMMA FoldStays ==
    ASSUME NEW n \in Nat, NEW A, NEW g, StaysIn(g, n, A)
    PROVE  \A m \in 0..n : g[1..m] \in A
<1> DEFINE P == {m \in 0..n : g[1..m] \in A}
<1>1. 0 \in P
  <2>1. 1..0 = {}
    OBVIOUS
  <2> QED BY <2>1 DEF StaysIn
<1>2. ASSUME NEW m \in 1..n, m - 1 \in P PROVE m \in P
  <2>1. Max(1..m) = m /\ 1..m # {} /\ 1..m \in SUBSET (1..n) /\ (1..m) \ {m} = 1..(m - 1)
    BY UpTo
  <2>2. g[(1..m) \ {Max(1..m)}] \in A
    BY <1>2, <2>1
  <2>3. g[1..m] \in A
    BY <2>1, <2>2 DEF StaysIn
  <2> QED BY <2>3
<1> HIDE DEF P
<1>3. \A m \in 0..n : m \in P
  BY <1>1, <1>2, Climb
<1> QED BY <1>3 DEF P

-----------------------------------------------------------------------------
(* The rules in the table                                                    *)

\* A part kept when it is there.
Kept(present, value, default) == IF present THEN value ELSE default

\* What the table gives back for rules that are there: signers nobody requires
\* are gone, all else is as stated.
KeptRules(r) ==
    [none       |-> FALSE,
     rewritable |-> r.rewritable, movable |-> r.movable, ban |-> r.ban,
     required   |-> Kept(r.required > 0, r.required, 0),
     signers    |-> Kept(r.required > 0, r.signers, << >>),
     royalties  |-> Kept(r.royalties # << >>, r.royalties, << >>),
     countries  |-> Kept(r.countries # << >>, r.countries, << >>),
     options    |-> Kept(r.options # << >>, r.options, << >>),
     expiry     |-> Kept(r.expiry # Never, r.expiry, Never),
     deflate    |-> Kept(r.deflate # 0, r.deflate, 0),
     currency   |-> Kept(r.currency # NoCurrency, r.currency, NoCurrency),
     labels     |-> Kept(r.labels, TRUE, FALSE)]

LEMMA GivenBack ==
    ASSUME NEW r, ~r.none
    PROVE  Deserialize(Serialize(r)) = KeptRules(r)
<1> DEFINE q == Serialize(r)
<1>1. /\ q.flags = << <<r.rewritable, r.movable, r.ban>> >>
      /\ q.signers = Part(r.required > 0, <<r.required, r.signers>>)
      /\ q.royalties = Part(r.royalties # << >>, r.royalties)
      /\ q.countries = Part(r.countries # << >>, r.countries)
      /\ q.options = Part(r.options # << >>, r.options)
      /\ q.expiry = Part(r.expiry # Never, r.expiry)
      /\ q.deflate = Part(r.deflate # 0, r.deflate)
      /\ q.currency = Part(r.currency # NoCurrency, r.currency)
      /\ q.labels = Part(r.labels, TRUE)
  BY DEF Serialize, Part
<1> HIDE DEF q
<1>2. \A x : <<x>>[1] = x /\ <<x>> # << >>
  OBVIOUS
<1>3. q.flags # << >> /\ q.flags[1] = <<r.rewritable, r.movable, r.ban>>
  BY <1>1
<1>4. q.flags[1][1] = r.rewritable /\ q.flags[1][2] = r.movable /\ q.flags[1][3] = r.ban
  BY <1>3
<1>5. /\ Read(q.signers, <<0, << >>>>)[1] = Kept(r.required > 0, r.required, 0)
      /\ Read(q.signers, <<0, << >>>>)[2] = Kept(r.required > 0, r.signers, << >>)
  <2>1. CASE r.required > 0
    BY <1>1, <2>1 DEF Read, Part, Kept
  <2>2. CASE ~(r.required > 0)
    BY <1>1, <2>2 DEF Read, Part, Kept
  <2> QED BY <2>1, <2>2
<1>6. /\ Read(q.royalties, << >>) = Kept(r.royalties # << >>, r.royalties, << >>)
      /\ Read(q.countries, << >>) = Kept(r.countries # << >>, r.countries, << >>)
      /\ Read(q.options, << >>) = Kept(r.options # << >>, r.options, << >>)
      /\ Read(q.expiry, Never) = Kept(r.expiry # Never, r.expiry, Never)
      /\ Read(q.deflate, 0) = Kept(r.deflate # 0, r.deflate, 0)
      /\ Read(q.currency, NoCurrency) = Kept(r.currency # NoCurrency, r.currency, NoCurrency)
      /\ Read(q.labels, FALSE) = Kept(r.labels, TRUE, FALSE)
  <2>1. Read(q.royalties, << >>) = Kept(r.royalties # << >>, r.royalties, << >>)
    BY <1>1, <1>2 DEF Read, Part, Kept
  <2>2. Read(q.countries, << >>) = Kept(r.countries # << >>, r.countries, << >>)
    BY <1>1, <1>2 DEF Read, Part, Kept
  <2>3. Read(q.options, << >>) = Kept(r.options # << >>, r.options, << >>)
    BY <1>1, <1>2 DEF Read, Part, Kept
  <2>4. Read(q.expiry, Never) = Kept(r.expiry # Never, r.expiry, Never)
    BY <1>1, <1>2 DEF Read, Part, Kept
  <2>5. Read(q.deflate, 0) = Kept(r.deflate # 0, r.deflate, 0)
    BY <1>1, <1>2 DEF Read, Part, Kept
  <2>6. Read(q.currency, NoCurrency) = Kept(r.currency # NoCurrency, r.currency, NoCurrency)
    BY <1>1, <1>2 DEF Read, Part, Kept
  <2>7. Read(q.labels, FALSE) = Kept(r.labels, TRUE, FALSE)
    BY <1>1, <1>2 DEF Read, Part, Kept
  <2> QED BY <2>1, <2>2, <2>3, <2>4, <2>5, <2>6, <2>7
<1> DEFINE Rec(c, d, e, f, g, h, i, j, k, l, m, n) ==
             [none |-> FALSE, rewritable |-> c, movable |-> d, ban |-> e, required |-> f, signers |-> g,
              royalties |-> h, countries |-> i, options |-> j, expiry |-> k, deflate |-> l,
              currency |-> m, labels |-> n]
<1>7. Deserialize(q) =
        Rec(q.flags[1][1], q.flags[1][2], q.flags[1][3],
            Read(q.signers, <<0, << >>>>)[1], Read(q.signers, <<0, << >>>>)[2],
            Read(q.royalties, << >>), Read(q.countries, << >>), Read(q.options, << >>),
            Read(q.expiry, Never), Read(q.deflate, 0), Read(q.currency, NoCurrency), Read(q.labels, FALSE))
  BY <1>3, Zenon DEF Deserialize
<1>8. KeptRules(r) =
        Rec(r.rewritable, r.movable, r.ban, Kept(r.required > 0, r.required, 0),
            Kept(r.required > 0, r.signers, << >>), Kept(r.royalties # << >>, r.royalties, << >>),
            Kept(r.countries # << >>, r.countries, << >>), Kept(r.options # << >>, r.options, << >>),
            Kept(r.expiry # Never, r.expiry, Never), Kept(r.deflate # 0, r.deflate, 0),
            Kept(r.currency # NoCurrency, r.currency, NoCurrency), Kept(r.labels, TRUE, FALSE))
  BY Zenon DEF KeptRules
<1> HIDE DEF Rec
<1>9. Deserialize(q) = KeptRules(r)
  BY <1>4, <1>5, <1>6, <1>7, <1>8, ZenonT(40)
<1> QED BY <1>9 DEF q

\* Rules read from the table are stored as they are.
LEMMA KeptTwice ==
    ASSUME NEW r
    PROVE  LET kept == Deserialize(Serialize(r)) IN kept = Deserialize(Serialize(kept))
<1> DEFINE kept == Deserialize(Serialize(r))
<1>1. CASE r.none
  <2>1. kept = NoRules
    BY <1>1 DEF Serialize, Deserialize, Part
  <2>2. Deserialize(Serialize(NoRules)) = NoRules
    BY DEF Serialize, Deserialize, Part, NoRules
  <2> QED BY <2>1, <2>2
<1>2. CASE ~r.none
  <2>1. kept = KeptRules(r)
    BY <1>2, GivenBack
  <2> HIDE DEF kept
  <2>2. ~kept.none
    BY <2>1 DEF KeptRules
  <2>3. Deserialize(Serialize(kept)) = KeptRules(kept)
    BY <2>2, GivenBack
  <2>4. KeptRules(kept) = KeptRules(r)
    <3>1. /\ kept.rewritable = r.rewritable /\ kept.movable = r.movable /\ kept.ban = r.ban
          /\ kept.required = Kept(r.required > 0, r.required, 0)
          /\ kept.signers = Kept(r.required > 0, r.signers, << >>)
          /\ kept.royalties = Kept(r.royalties # << >>, r.royalties, << >>)
          /\ kept.countries = Kept(r.countries # << >>, r.countries, << >>)
      BY <2>1 DEF KeptRules
    <3>2. /\ kept.options = Kept(r.options # << >>, r.options, << >>)
          /\ kept.expiry = Kept(r.expiry # Never, r.expiry, Never)
          /\ kept.deflate = Kept(r.deflate # 0, r.deflate, 0)
          /\ kept.currency = Kept(r.currency # NoCurrency, r.currency, NoCurrency)
          /\ kept.labels = Kept(r.labels, TRUE, FALSE)
      BY <2>1 DEF KeptRules
    <3>3. /\ Kept(kept.required > 0, kept.required, 0) = Kept(r.required > 0, r.required, 0)
          /\ Kept(kept.required > 0, kept.signers, << >>) = Kept(r.required > 0, r.signers, << >>)
      <4>1. CASE r.required > 0
        BY <3>1, <4>1 DEF Kept
      <4>2. CASE ~(r.required > 0)
        BY <3>1, <4>2 DEF Kept
      <4> QED BY <4>1, <4>2
    <3>4. /\ Kept(kept.royalties # << >>, kept.royalties, << >>) = Kept(r.royalties # << >>, r.royalties, << >>)
          /\ Kept(kept.countries # << >>, kept.countries, << >>) = Kept(r.countries # << >>, r.countries, << >>)
      BY <3>1 DEF Kept
    <3>5. /\ Kept(kept.options # << >>, kept.options, << >>) = Kept(r.options # << >>, r.options, << >>)
          /\ Kept(kept.expiry # Never, kept.expiry, Never) = Kept(r.expiry # Never, r.expiry, Never)
          /\ Kept(kept.deflate # 0, kept.deflate, 0) = Kept(r.deflate # 0, r.deflate, 0)
      BY <3>2 DEF Kept
    <3>6. /\ Kept(kept.currency # NoCurrency, kept.currency, NoCurrency)
               = Kept(r.currency # NoCurrency, r.currency, NoCurrency)
          /\ Kept(kept.labels, TRUE, FALSE) = Kept(r.labels, TRUE, FALSE)
      BY <3>2 DEF Kept
    <3> QED BY <3>1, <3>3, <3>4, <3>5, <3>6, Zenon DEF KeptRules
  <2>5. Deserialize(Serialize(kept)) = kept
    BY <2>1, <2>3, <2>4
  <2> QED BY <2>5 DEF kept
<1> QED BY <1>1, <1>2

\* serialize and deserialize: the rules that bind a transfer are those the table
\* gives back, whatever it leaves out.  checkRulesPass throws for the rules stored
\* exactly what it throws for the rules stated.
THEOREM StoredRulesDemandTheSame ==
    ASSUME NEW r, NEW ins, NEW outs, NEW index, NEW h, NEW time, NEW certified, NEW rates
    PROVE  CheckRulesPass(Deserialize(Serialize(r)), ins, outs, index, h, time, certified, rates)
             = CheckRulesPass(r, ins, outs, index, h, time, certified, rates)
<1> DEFINE kept == Deserialize(Serialize(r))
<1>1. CASE r.none
  <2>1. kept = NoRules
    BY <1>1 DEF Serialize, Deserialize, Part
  <2>2. kept.none
    BY <2>1 DEF NoRules
  <2> HIDE DEF kept
  <2>3. CheckRulesPass(kept, ins, outs, index, h, time, certified, rates) = "none"
    BY <2>2 DEF CheckRulesPass
  <2>4. CheckRulesPass(r, ins, outs, index, h, time, certified, rates) = "none"
    BY <1>1 DEF CheckRulesPass
  <2> QED BY <2>3, <2>4 DEF kept
<1>2. CASE ~r.none
  <2>1. kept = KeptRules(r)
    BY <1>2, GivenBack
  <2> HIDE DEF kept
  <2>2. /\ kept.movable = r.movable /\ kept.ban = r.ban /\ ~kept.none
        /\ kept.required = Kept(r.required > 0, r.required, 0)
        /\ kept.signers = Kept(r.required > 0, r.signers, << >>)
    BY <2>1 DEF KeptRules
  <2>3. kept.royalties = r.royalties /\ kept.countries = r.countries /\ kept.options = r.options
    BY <2>1 DEF KeptRules, Kept
  <2>4. kept.expiry = r.expiry /\ kept.deflate = r.deflate /\ kept.currency = r.currency
    BY <2>1 DEF KeptRules, Kept
  <2>5. SignersPass(kept, ins) <=> SignersPass(r, ins)
    <3>1. CASE r.required > 0
      BY <2>2, <3>1 DEF Kept, SignersPass, SignedWeight
    <3>2. CASE ~(r.required > 0)
      <4>1. ~(kept.required > 0)
        BY <2>2, <3>2 DEF Kept
      <4> QED BY <3>2, <4>1 DEF SignersPass
    <3> QED BY <3>1, <3>2
  <2>6. \A rate : RoyaltiesPass(kept, outs, index, rate) <=> RoyaltiesPass(r, outs, index, rate)
    BY <2>3 DEF RoyaltiesPass
  <2>7. KycPasses(kept, Receivers(ins, outs, index), certified)
          <=> KycPasses(r, Receivers(ins, outs, index), certified)
    BY <2>2, <2>3 DEF KycPasses, GeoFenced, CountryAllowed
  <2>8. /\ Expired(kept, h, time) <=> Expired(r, h, time)
        /\ VotePasses(kept, Receivers(ins, outs, index)) <=> VotePasses(r, Receivers(ins, outs, index))
        /\ DeflationPasses(kept, ins, outs, index) <=> DeflationPasses(r, ins, outs, index)
    BY <2>2, <2>3, <2>4 DEF Expired, VotePasses, ValidVoteAddress, DeflationPasses
  <2>9. CheckRulesPass(kept, ins, outs, index, h, time, certified, rates)
          = CheckRulesPass(r, ins, outs, index, h, time, certified, rates)
    BY <1>2, <2>2, <2>3, <2>4, <2>5, <2>6, <2>7, <2>8 DEF CheckRulesPass
  <2> QED BY <2>9 DEF kept
<1> QED BY <1>1, <1>2

-----------------------------------------------------------------------------
(* Sequences of sequences                                                    *)

\* FlattenSeq appends one sequence after the other.
LEMMA FlattenSteps ==
    ASSUME NEW S, NEW q \in Seq(Seq(S))
    PROVE  \E r \in [0..Len(q) -> Seq(S)] :
              /\ r[0] = << >> /\ FlattenSeq(q) = r[Len(q)]
              /\ \A m \in 1..Len(q) : r[m] = r[m - 1] \o q[m]
<1> DEFINE n == Len(q)
           Step(f, i) == IF i = 1 THEN q[i] ELSE f[i - 1] \o q[i]
           It(f) == f = [i \in 1..n |-> Step(f, i)]
           it == CHOOSE f : It(f)
           G == [p \in Seq(S) \X (1..n) |-> p[1] \o q[p[2]]]
<1>1. n \in Nat /\ G \in [Seq(S) \X (1..n) -> Seq(S)] /\ << >> \in Seq(S)
  OBVIOUS
<1>2. FlattenSeq(q) = IF n = 0 THEN q ELSE it[n]
  BY DEF FlattenSeq
<1>3. \A i \in 1..n : q[i] \in Seq(S)
  OBVIOUS
<1>4. \A x \in Seq(S), m \in 1..n : G[<<x, m>>] = x \o q[m]
  OBVIOUS
<1>5. n = 0 => q = << >>
  OBVIOUS
<1> HIDE DEF n, G
<1>6. PICK r \in [0..n -> Seq(S)] : Recursion(r, n, << >>, G)
  BY <1>1, RecursionExists
<1>7. r[0] = << >>
  BY <1>6 DEF Recursion
<1>8. ASSUME NEW m \in 1..n PROVE r[m] = r[m - 1] \o q[m] /\ r[m - 1] \in Seq(S)
  <2>1. m - 1 \in 0..n
    BY <1>1
  <2>2. r[m] = G[<<r[m - 1], m>>] /\ r[m - 1] \in Seq(S)
    BY <1>6, <2>1 DEF Recursion
  <2> QED BY <1>4, <2>2
<1>9. 1 \in 1..n => r[1] = q[1]
  <2>1. SUFFICES ASSUME 1 \in 1..n PROVE r[1] = q[1]
    OBVIOUS
  <2>2. r[1] = r[1 - 1] \o q[1] /\ q[1] \in Seq(S)
    BY <1>3, <1>8, <2>1
  <2>3. 1 - 1 = 0
    OBVIOUS
  <2>4. r[1] = << >> \o q[1]
    BY <1>7, <2>2, <2>3
  <2> QED BY <2>2, <2>4
<1>10. FlattenSeq(q) = r[n]
  <2>1. CASE n = 0
    BY <1>2, <1>5, <1>7, <2>1
  <2>2. CASE n # 0
    <3> DEFINE f == [i \in 1..n |-> r[i]]
    <3>1. ASSUME NEW i \in 1..n PROVE f[i] = Step(f, i)
      <4>1. CASE i = 1
        BY <1>9, <4>1
      <4>2. CASE i # 1
        <5>1. i - 1 \in 1..n
          BY <1>1, <4>2
        <5>2. f[i - 1] = r[i - 1] /\ f[i] = r[i]
          BY <5>1
        <5> HIDE DEF f
        <5> QED BY <1>8, <4>2, <5>2
      <4> QED BY <4>1, <4>2
    <3>2. It(f)
      <4> HIDE DEF Step
      <4> QED BY <3>1
    <3>3. It(it)
      <4> HIDE DEF It, f
      <4> QED BY <3>2
    <3>4. \A i \in 1..n : it[i] = IF i = 1 THEN q[i] ELSE it[i - 1] \o q[i]
      <4> HIDE DEF it
      <4> QED BY <3>3
    <3> HIDE DEF it, It, f
    <3> DEFINE P == {m \in 0..n : m = 0 \/ it[m] = r[m]}
    <3>5. 0 \in P
      BY <1>1
    <3>6. ASSUME NEW m \in 1..n, m - 1 \in P PROVE m \in P
      <4>1. CASE m = 1
        BY <1>9, <3>4, <4>1
      <4>2. CASE m # 1
        <5>1. it[m - 1] = r[m - 1] /\ m \in 0..n
          BY <1>1, <3>6, <4>2
        <5>2. it[m] = it[m - 1] \o q[m]
          BY <3>4, <4>2
        <5>3. it[m] = r[m]
          BY <1>8, <5>1, <5>2
        <5> QED BY <5>1, <5>3
      <4> QED BY <4>1, <4>2
    <3>7. n \in P
      <4> HIDE DEF P
      <4>1. \A m \in 0..n : m \in P
        BY <1>1, <3>5, <3>6, Climb
      <4> QED BY <1>1, <4>1
    <3> QED BY <1>2, <2>2, <3>7
  <2> QED BY <2>1, <2>2
<1> QED BY <1>6, <1>7, <1>8, <1>10 DEF n

LEMMA FlattenTyped ==
    ASSUME NEW S, NEW q \in Seq(Seq(S))
    PROVE  FlattenSeq(q) \in Seq(S)
<1>1. PICK r \in [0..Len(q) -> Seq(S)] : FlattenSeq(q) = r[Len(q)]
  BY FlattenSteps
<1> QED BY <1>1

-----------------------------------------------------------------------------
(* Holdings stay holdings                                                    *)

\* What Take carries from holding to holding.
TakeStates(indexes) ==
    [left : Seq(Seq(Holdings(indexes))), index : Nat \ {0}, allowSkip : BOOLEAN, need : Nat, bad : BOOLEAN]

LEMMA TakeOn ==
    ASSUME NEW I, NEW p \in TakeStates(I), NEW l \in Seq(Seq(Holdings(I))),
           NEW k \in Nat \ {0}, NEW n \in Nat, NEW b \in BOOLEAN
    PROVE  [p EXCEPT !.need = n, !.left = l, !.index = k, !.allowSkip = b] \in TakeStates(I)
<1> DEFINE L == Seq(Seq(Holdings(I)))
           N == Nat \ {0}
           B == BOOLEAN
           M == Nat
<1>1. p \in [left : L, index : N, allowSkip : B, need : M, bad : B] /\ l \in L /\ k \in N /\ n \in M /\ b \in B
  BY DEF TakeStates
<1> HIDE DEF L, N, B, M
<1>2. [p EXCEPT !.need = n, !.left = l, !.index = k, !.allowSkip = b] \in [left : L, index : N, allowSkip : B, need : M, bad : B]
  BY <1>1
<1> QED BY <1>2 DEF TakeStates, L, N, B, M

LEMMA TakeHere ==
    ASSUME NEW I, NEW p \in TakeStates(I), NEW l \in Seq(Seq(Holdings(I))),
           NEW n \in Nat, NEW b \in BOOLEAN
    PROVE  [p EXCEPT !.left = l, !.need = n, !.allowSkip = b] \in TakeStates(I)
<1> DEFINE L == Seq(Seq(Holdings(I)))
           N == Nat \ {0}
           B == BOOLEAN
           M == Nat
<1>1. p \in [left : L, index : N, allowSkip : B, need : M, bad : B] /\ l \in L /\ n \in M /\ b \in B
  BY DEF TakeStates
<1> HIDE DEF L, N, B, M
<1>2. [p EXCEPT !.left = l, !.need = n, !.allowSkip = b] \in [left : L, index : N, allowSkip : B, need : M, bad : B]
  BY <1>1
<1> QED BY <1>2 DEF TakeStates, L, N, B, M

LEMMA TakeOneTyped ==
    ASSUME NEW I, NEW p \in TakeStates(I), NEW wanted
    PROVE  TakeOne(p, wanted) \in TakeStates(I)
<1>1. CASE p.index > Len(p.left) \/ p.left[p.index] = << >>
  BY <1>1 DEF TakeOne, TakeStates
<1>2. CASE ~(p.index > Len(p.left) \/ p.left[p.index] = << >>)
  <2> DEFINE h == p.left[p.index][1]
             emptied == Len(p.left[p.index]) = 1
  <2>1. /\ p.left \in Seq(Seq(Holdings(I))) /\ p.index \in Nat \ {0} /\ p.allowSkip \in BOOLEAN
        /\ p.need \in Nat /\ p.bad \in BOOLEAN
        /\ p = [left |-> p.left, index |-> p.index, allowSkip |-> p.allowSkip, need |-> p.need, bad |-> p.bad]
    BY DEF TakeStates
  <2>2. p.index \in 1..Len(p.left)
    BY <1>2, <2>1
  <2>3. p.left[p.index] \in Seq(Holdings(I)) /\ p.left[p.index] # << >>
    BY <1>2, <2>1, <2>2
  <2>4. h \in Holdings(I) /\ 1 \in 1..Len(p.left[p.index]) /\ Tail(p.left[p.index]) \in Seq(Holdings(I))
    BY <2>3
  <2>5. h.count \in Nat /\ h.index \in I /\ h.kind \in Kinds
    BY <2>4 DEF Holdings
  <2>6. CASE h.index # wanted.index \/ (h.count < p.need /\ h.kind = "hybrid")
    <3>1. TakeOne(p, wanted) = [p EXCEPT !.bad = TRUE]
      BY <1>2, <2>6 DEF TakeOne
    <3> QED BY <3>1 DEF TakeStates
  <2>7. CASE ~(h.index # wanted.index \/ (h.count < p.need /\ h.kind = "hybrid")) /\ h.count <= p.need
    <3> DEFINE q == [p EXCEPT !.need = @ - h.count, !.left[p.index] = Tail(@),
                        !.index = IF emptied THEN @ + 1 ELSE @, !.allowSkip = ~emptied]
    <3>1. TakeOne(p, wanted) = q
      BY <1>2, <2>7 DEF TakeOne
    <3>2. p.need - h.count \in Nat
      <4> HIDE DEF h, q
      <4> QED BY <2>1, <2>5, <2>7
    <3>3. [p.left EXCEPT ![p.index] = Tail(@)] \in Seq(Seq(Holdings(I)))
      BY <2>1, <2>2, <2>4, ExceptSeq
    <3>4. (IF emptied THEN p.index + 1 ELSE p.index) \in Nat \ {0} /\ (~emptied) \in BOOLEAN
      BY <2>1
    <3> DEFINE n == p.need - h.count
               l == [p.left EXCEPT ![p.index] = Tail(@)]
               k == IF emptied THEN p.index + 1 ELSE p.index
               b == ~emptied
    <3>5. q = [p EXCEPT !.need = n, !.left = l, !.index = k, !.allowSkip = b]
      <4> HIDE DEF h, emptied
      <4> QED BY <2>1
    <3>6. n \in Nat /\ l \in Seq(Seq(Holdings(I))) /\ k \in Nat \ {0} /\ b \in BOOLEAN
      <4> HIDE DEF q, h, emptied
      <4> QED BY <3>2, <3>3, <3>4
    <3> HIDE DEF q, n, l, k, b
    <3>7. [p EXCEPT !.need = n, !.left = l, !.index = k, !.allowSkip = b] \in TakeStates(I)
      BY <3>6, TakeOn
    <3> QED BY <3>1, <3>5, <3>7
  <2>8. CASE ~(h.index # wanted.index \/ (h.count < p.need /\ h.kind = "hybrid")) /\ ~(h.count <= p.need)
    <3> DEFINE q == [p EXCEPT !.left[p.index][1].count = @ - p.need, !.need = 0, !.allowSkip = TRUE]
               g == [h EXCEPT !.count = @ - p.need]
               l == [p.left[p.index] EXCEPT ![1] = g]
    <3>1. TakeOne(p, wanted) = q
      BY <1>2, <2>8 DEF TakeOne
    <3>2. g \in Holdings(I)
      <4> HIDE DEF h, q
      <4>1. h.count - p.need \in Nat
        BY <2>1, <2>5, <2>8
      <4> QED BY <2>4, <4>1 DEF Holdings
    <3>3. l \in Seq(Holdings(I))
      <4> HIDE DEF g
      <4> QED BY <2>3, <2>4, <3>2, ExceptSeq
    <3>4. [p.left EXCEPT ![p.index] = l] \in Seq(Seq(Holdings(I)))
      <4> HIDE DEF l
      <4> QED BY <2>1, <2>2, <3>3, ExceptSeq
    <3> DEFINE m == [p.left EXCEPT ![p.index] = l]
    <3>5. q = [p EXCEPT !.left = m, !.need = 0, !.allowSkip = TRUE]
      BY <2>1
    <3>6. m \in Seq(Seq(Holdings(I)))
      BY <3>4
    <3> HIDE DEF q, l, m
    <3>7. [p EXCEPT !.left = m, !.need = 0, !.allowSkip = TRUE] \in TakeStates(I)
      BY <3>6, TakeHere
    <3> QED BY <3>1, <3>5, <3>7
  <2> QED BY <2>6, <2>7, <2>8
<1> QED BY <1>1, <1>2

\* Where Take starts, and one turn of its loop.
TakeStart(t, amount) ==
    [left |-> t.left, index |-> t.index, allowSkip |-> t.allowSkip, need |-> amount, bad |-> FALSE]

TakeTurn(p, wanted) == IF p.need = 0 \/ p.bad THEN p ELSE TakeOne(p, wanted)

\* r is what n turns leave of t.
Taking(r, n, t, wanted, amount) ==
    /\ n = Len(FlattenSeq(t.left)) + 1
    /\ r[0] = TakeStart(t, amount) /\ Take(t, wanted, amount) = r[n]
    /\ \A m \in 1..n : r[m] = TakeTurn(r[m - 1], wanted)

\* Take turns once for every holding, and once more.
LEMMA TakeSteps ==
    ASSUME NEW I, NEW t \in Moves(I), NEW wanted, NEW amount \in Nat
    PROVE  \E n \in Nat : \E r \in [0..n -> TakeStates(I)] : Taking(r, n, t, wanted, amount)
<1> DEFINE n == Len(FlattenSeq(t.left)) + 1
           A == TakeStates(I)
           base == TakeStart(t, amount)
           Step(f, k) == IF k = 0 THEN base ELSE TakeTurn(f[k - 1], wanted)
           It(f) == f = [k \in 0..n |-> Step(f, k)]
           it == CHOOSE f : It(f)
           G == [p \in A \X (1..n) |-> TakeTurn(p[1], wanted)]
<1>1. n \in Nat
  <2>1. t.left \in Seq(Seq(Holdings(I)))
    BY DEF Moves
  <2>2. FlattenSeq(t.left) \in Seq(Holdings(I))
    BY <2>1, FlattenTyped
  <2> QED BY <2>2
<1>2. base \in A
  BY DEF TakeStart, TakeStates, Moves
<1>3. \A p \in A : TakeTurn(p, wanted) \in A
  BY TakeOneTyped DEF TakeTurn
<1>4. Take(t, wanted, amount) = it[n]
  BY DEF Take, TakeTurn, TakeStart
<1> HIDE DEF n, A, base
<1>5. G \in [A \X (1..n) -> A]
  BY <1>3
<1>6. \A x \in A, m \in 1..n : G[<<x, m>>] = TakeTurn(x, wanted)
  OBVIOUS
<1> HIDE DEF G
<1>7. PICK r \in [0..n -> A] : Recursion(r, n, base, G)
  BY <1>1, <1>2, <1>5, RecursionExists
<1>8. r[0] = base
  BY <1>7 DEF Recursion
<1>9. ASSUME NEW m \in 1..n PROVE r[m] = TakeTurn(r[m - 1], wanted)
  <2>1. m - 1 \in 0..n
    BY <1>1
  <2>2. r[m] = G[<<r[m - 1], m>>] /\ r[m - 1] \in A
    BY <1>7, <2>1 DEF Recursion
  <2> QED BY <1>6, <2>2
<1>10. It(r)
  <2>1. ASSUME NEW k \in 0..n PROVE r[k] = Step(r, k)
    <3>1. CASE k = 0
      BY <1>8, <3>1
    <3>2. CASE k # 0
      <4>1. k \in 1..n
        BY <1>1, <3>2
      <4> QED BY <1>9, <3>2, <4>1
    <3> QED BY <3>1, <3>2
  <2> HIDE DEF Step
  <2> QED BY <1>7, <2>1
<1>11. It(it)
  <2> HIDE DEF It
  <2> QED BY <1>10
<1>12. \A k \in 0..n : it[k] = IF k = 0 THEN base ELSE TakeTurn(it[k - 1], wanted)
  <2> HIDE DEF it
  <2> QED BY <1>11
<1> HIDE DEF it, It
<1>13. it[n] = r[n]
  <2> DEFINE P == {m \in 0..n : it[m] = r[m]}
  <2>1. 0 \in P
    BY <1>1, <1>8, <1>12
  <2>2. ASSUME NEW m \in 1..n, m - 1 \in P PROVE m \in P
    <3>1. it[m - 1] = r[m - 1] /\ m \in 0..n /\ m # 0
      BY <1>1, <2>2
    <3>2. it[m] = TakeTurn(it[m - 1], wanted)
      BY <1>12, <3>1
    <3>3. it[m] = r[m]
      BY <1>9, <3>1, <3>2
    <3> QED BY <3>1, <3>3
  <2> HIDE DEF P
  <2>3. \A m \in 0..n : m \in P
    BY <1>1, <2>1, <2>2, Climb
  <2>4. n \in P
    BY <1>1, <2>3
  <2> QED BY <2>4 DEF P
<1>14. Taking(r, n, t, wanted, amount)
  BY <1>4, <1>8, <1>9, <1>13 DEF n, base, Taking
<1> QED BY <1>1, <1>7, <1>14 DEF A

LEMMA TakeTyped ==
    ASSUME NEW I, NEW t \in Moves(I), NEW wanted, NEW amount \in Nat
    PROVE  Take(t, wanted, amount) \in TakeStates(I)
<1>1. PICK n \in Nat : \E r \in [0..n -> TakeStates(I)] : Taking(r, n, t, wanted, amount)
  BY TakeSteps
<1>2. PICK r \in [0..n -> TakeStates(I)] : Taking(r, n, t, wanted, amount)
  BY <1>1
<1>3. n \in 0..n
  OBVIOUS
<1> QED BY <1>2, <1>3 DEF Taking

\* A holding put on an output leaves holdings there.
LEMMA AddTyped ==
    ASSUME NEW I, NEW out \in Outs(I), NEW h \in Holdings(I)
    PROVE  AddAssetToOutput(out, h) \in Outs(I)
<1> DEFINE same == {k \in DOMAIN out.holds : out.holds[k].index = h.index}
           c == CHOOSE x \in same : \A y \in same : x <= y
<1>1. out.holds \in Seq(Holdings(I)) /\ h.count \in Nat
  BY DEF Outs, Holdings
<1>2. CASE h.kind = "aggregable" /\ same # {}
  <2>1. c \in same
    <3>1. same \in SUBSET Nat
      BY <1>1
    <3>2. \E x \in same : \A y \in same : x <= y
      <4> HIDE DEF same
      <4> QED BY <1>2, <3>1, Least
    <3> HIDE DEF same
    <3> QED BY <3>2
  <2>2. c \in 1..Len(out.holds)
    BY <1>1, <2>1
  <2> HIDE DEF c
  <2> DEFINE g == [out.holds[c] EXCEPT !.count = @ + h.count]
             l == [out.holds EXCEPT ![c] = g]
  <2>3. out.holds[c] \in Holdings(I)
    BY <1>1, <2>2
  <2>4. g \in Holdings(I)
    <3>1. out.holds[c].count + h.count \in Nat
      BY <1>1, <2>3 DEF Holdings
    <3> QED BY <2>3, <3>1 DEF Holdings
  <2>5. l \in Seq(Holdings(I))
    <3> HIDE DEF g
    <3> QED BY <1>1, <2>2, <2>4, ExceptSeq
  <2>6. AddAssetToOutput(out, h) = [out EXCEPT !.holds[c].count = @ + h.count]
    BY <1>2 DEF AddAssetToOutput, c
  <2>7. [out EXCEPT !.holds[c].count = @ + h.count] = [out EXCEPT !.holds = l]
    OBVIOUS
  <2> HIDE DEF l
  <2> QED BY <2>5, <2>6, <2>7 DEF Outs
<1>3. CASE ~(h.kind = "aggregable" /\ same # {})
  <2>1. AddAssetToOutput(out, h) = [out EXCEPT !.holds = Append(@, h)]
    BY <1>3 DEF AddAssetToOutput
  <2>2. Append(out.holds, h) \in Seq(Holdings(I))
    BY <1>1
  <2> QED BY <2>1, <2>2 DEF Outs
<1> QED BY <1>2, <1>3

LEMMA GiveTyped ==
    ASSUME NEW I, NEW outs \in Seq(Outs(I)), outs # << >>, NEW i, NEW h \in Holdings(I)
    PROVE  Give(outs, i, h) \in Seq(Outs(I)) /\ Give(outs, i, h) # << >>
<1> DEFINE g == Give(outs, i, h)
           n == Len(outs)
<1>1. n \in Nat /\ n # 0 /\ DOMAIN outs = 1..n
  OBVIOUS
<1>2. g = [k \in 1..n |-> IF k - 1 \in Targets(i) THEN AddAssetToOutput(outs[k], h) ELSE outs[k]]
  BY <1>1 DEF Give
<1>3. ASSUME NEW k \in 1..n PROVE g[k] \in Outs(I)
  <2>1. outs[k] \in Outs(I)
    OBVIOUS
  <2>2. AddAssetToOutput(outs[k], h) \in Outs(I)
    BY <2>1, AddTyped
  <2> QED BY <1>2, <2>1, <2>2
<1> HIDE DEF g, n
<1>4. g \in [1..n -> Outs(I)]
  BY <1>2, <1>3
<1>5. g \in Seq(Outs(I)) /\ Len(g) = n
  BY <1>1, <1>4
<1> QED BY <1>1, <1>5 DEF g

\* The inputs that hold something hold what the inputs hold.
LEMMA HoldingTyped ==
    ASSUME NEW I, NEW n \in Nat, NEW txos, DOMAIN txos = 1..n,
           \A k \in 1..n : txos[k].holds \in Seq(Holdings(I))
    PROVE  Holding(txos) \in Seq(Seq(Holdings(I)))
<1> DEFINE H == Seq(Holdings(I))
           f == [k \in DOMAIN txos |-> IF txos[k].holds = << >> THEN << >> ELSE <<txos[k].holds>>]
<1>1. \A h \in H : <<h>> \in Seq(H)
  OBVIOUS
<1>2. << >> \in Seq(H)
  OBVIOUS
<1> HIDE DEF H
<1>3. \A k \in 1..n : f[k] \in Seq(H)
  BY <1>1, <1>2 DEF H
<1>4. f \in [1..n -> Seq(H)]
  <2>1. f = [k \in 1..n |-> f[k]]
    OBVIOUS
  <2> HIDE DEF f
  <2> QED BY <1>3, <2>1
<1>5. Holding(txos) = FlattenSeq(f)
  BY DEF Holding
<1> HIDE DEF f
<1>6. f \in Seq(Seq(H))
  BY <1>4
<1> QED BY <1>5, <1>6, FlattenTyped DEF H

\* What the search for a holding to join leaves, and one turn of its loop.
Changes(indexes) == [outs : Seq(Outs(indexes)) \ {<< >>}, unknown : BOOLEAN]

ChangeTurn(acc, h) ==
    IF acc.unknown \/ h.count = 0 THEN acc
    ELSE IF NeedsIndex(acc.outs, h) THEN [acc EXCEPT !.unknown = TRUE]
    ELSE [acc EXCEPT !.outs[Len(acc.outs)] = AddAssetToOutput(@, h)]

LEMMA ChangeTurnTyped ==
    ASSUME NEW I, NEW acc \in Changes(I), NEW h \in Holdings(I)
    PROVE  ChangeTurn(acc, h) \in Changes(I)
<1>1. acc.outs \in Seq(Outs(I)) /\ acc.outs # << >> /\ acc.unknown \in BOOLEAN
  BY DEF Changes
<1>2. CASE acc.unknown \/ h.count = 0
  BY <1>2 DEF ChangeTurn
<1>3. CASE ~(acc.unknown \/ h.count = 0) /\ NeedsIndex(acc.outs, h)
  <2>1. ChangeTurn(acc, h) = [acc EXCEPT !.unknown = TRUE]
    BY <1>3 DEF ChangeTurn
  <2> QED BY <2>1 DEF Changes
<1>4. CASE ~(acc.unknown \/ h.count = 0) /\ ~NeedsIndex(acc.outs, h)
  <2> DEFINE n == Len(acc.outs)
             o == AddAssetToOutput(acc.outs[n], h)
             l == [acc.outs EXCEPT ![n] = o]
  <2>1. n \in 1..Len(acc.outs) /\ acc.outs[n] \in Outs(I)
    BY <1>1
  <2>2. o \in Outs(I)
    <3> HIDE DEF n
    <3> QED BY <2>1, AddTyped
  <2>3. l \in Seq(Outs(I)) /\ Len(l) = Len(acc.outs)
    <3> HIDE DEF n, o
    <3> QED BY <1>1, <2>1, <2>2, ExceptSeq
  <2>4. l # << >>
    <3> HIDE DEF l
    <3> QED BY <1>1, <2>3
  <2>5. ChangeTurn(acc, h) = [acc EXCEPT !.outs[n] = AddAssetToOutput(@, h)]
    BY <1>4 DEF ChangeTurn
  <2>6. [acc EXCEPT !.outs[n] = AddAssetToOutput(@, h)] = [acc EXCEPT !.outs = l]
    OBVIOUS
  <2> HIDE DEF l, n
  <2> QED BY <2>3, <2>4, <2>5, <2>6 DEF Changes
<1> QED BY <1>2, <1>3, <1>4

\* GiveChange takes the holdings left one after the other.
LEMMA ChangeSteps ==
    ASSUME NEW I, NEW t \in Moves(I)
    PROVE  LET q == Remaining(t) IN
           /\ q \in Seq(Holdings(I))
           /\ \E r \in [0..Len(q) -> Changes(I)] :
                 /\ r[0] = [outs |-> t.outs, unknown |-> FALSE] /\ GiveChange(t) = r[Len(q)]
                 /\ \A m \in 1..Len(q) : r[m] = ChangeTurn(r[m - 1], q[m])
<1> DEFINE q == Remaining(t)
           n == Len(q)
           A == Changes(I)
           base == [outs |-> t.outs, unknown |-> FALSE]
           It(f) == f = [s \in SUBSET (1..n) |-> IF s = {} THEN base ELSE ChangeTurn(f[s \ {Max(s)}], q[Max(s)])]
           it == CHOOSE f : It(f)
           G == [p \in A \X (1..n) |-> ChangeTurn(p[1], q[p[2]])]
           r == [m \in 0..n |-> it[1..m]]
<1>1. q \in Seq(Holdings(I))
  BY FlattenTyped DEF Remaining, Moves
<1>2. n \in Nat /\ DOMAIN q = 1..n /\ \A m \in 1..n : q[m] \in Holdings(I)
  <2> HIDE DEF q
  <2> QED BY <1>1
<1>3. base \in A
  BY DEF Changes, Moves
<1>4. \A acc \in A, m \in 1..n : ChangeTurn(acc, q[m]) \in A
  <2> HIDE DEF q, n
  <2> QED BY <1>2, ChangeTurnTyped
<1>5. GiveChange(t) = it[1..n]
  <2>1. GiveChange(t) = (CHOOSE f : f = [s \in SUBSET (DOMAIN q) |->
                            IF s = {} THEN base ELSE ChangeTurn(f[s \ {Max(s)}], q[Max(s)])])[DOMAIN q]
    BY DEF GiveChange, FoldLeft, MapThenFoldSet, ChangeTurn
  <2> HIDE DEF base, q, n
  <2> QED BY <1>2, <2>1
<1> HIDE DEF q, n, A, base
<1>6. G \in [A \X (1..n) -> A]
  BY <1>4
<1>7. \A x \in A, m \in 1..n : G[<<x, m>>] = ChangeTurn(x, q[m])
  OBVIOUS
<1> HIDE DEF G
<1>8. It(it)
  <2>1. PICK g \in [SUBSET (1..n) -> A] : Folding(g, n, base, G)
    BY <1>2, <1>3, <1>6, FoldExists
  <2>2. ASSUME NEW s \in SUBSET (1..n), s # {}
        PROVE  g[s] = ChangeTurn(g[s \ {Max(s)}], q[Max(s)])
    <3>1. Max(s) \in 1..n
      BY <1>2, <2>2, MaxInside
    <3>2. g[s] = G[<<g[s \ {Max(s)}], Max(s)>>] /\ g[s \ {Max(s)}] \in A
      BY <2>1, <2>2 DEF Folding
    <3> QED BY <1>7, <3>1, <3>2
  <2>3. g[{}] = base
    BY <2>1 DEF Folding
  <2>4. It(g)
    BY <2>1, <2>2, <2>3
  <2> HIDE DEF It
  <2> QED BY <2>4
<1> HIDE DEF it
<1>9. ASSUME NEW s \in SUBSET (1..n), s # {}
      PROVE  it[s] = ChangeTurn(it[s \ {Max(s)}], q[Max(s)])
  BY <1>8, <1>9
<1>10. it[{}] = base
  BY <1>8
<1> HIDE DEF It, r
<1>11. StaysIn(it, n, A)
  <2>1. ASSUME NEW s \in SUBSET (1..n), s # {}, it[s \ {Max(s)}] \in A PROVE it[s] \in A
    <3>1. Max(s) \in 1..n
      BY <1>2, <2>1, MaxInside
    <3>2. it[s] = ChangeTurn(it[s \ {Max(s)}], q[Max(s)])
      BY <1>9, <2>1
    <3> QED BY <1>4, <2>1, <3>1, <3>2
  <2> QED BY <1>3, <1>10, <2>1 DEF StaysIn
<1>12. \A m \in 0..n : it[1..m] \in A
  BY <1>2, <1>11, FoldStays
<1>13. ASSUME NEW m \in 1..n PROVE it[1..m] = ChangeTurn(it[1..(m - 1)], q[m])
  <2>1. (1..m) \ {m} = 1..(m - 1) /\ 1..m # {} /\ 1..m \in SUBSET (1..n) /\ Max(1..m) = m
    BY <1>2, UpTo
  <2>2. it[1..m] = ChangeTurn(it[(1..m) \ {Max(1..m)}], q[Max(1..m)])
    BY <1>9, <2>1
  <2> QED BY <2>1, <2>2
<1>14. r \in [0..n -> A] /\ r[0] = base /\ r[n] = it[1..n]
  <2>1. 1..0 = {}
    OBVIOUS
  <2> QED BY <1>2, <1>10, <1>12, <2>1 DEF r
<1>15. \A m \in 1..n : r[m] = ChangeTurn(r[m - 1], q[m])
  BY <1>2, <1>13 DEF r
<1> QED BY <1>1, <1>5, <1>14, <1>15 DEF q, n, A, base

LEMMA ChangeTyped ==
    ASSUME NEW I, NEW t \in Moves(I)
    PROVE  GiveChange(t) \in Changes(I)
<1> DEFINE q == Remaining(t)
<1>1. q \in Seq(Holdings(I)) /\ \E r \in [0..Len(q) -> Changes(I)] : GiveChange(t) = r[Len(q)]
  BY ChangeSteps
<1> HIDE DEF q
<1> QED BY <1>1

LEMMA StrippedTyped ==
    ASSUME NEW I, NEW outs \in Seq(Outs(I)), outs # << >>
    PROVE  Stripped(outs) \in Seq(Outs(I)) /\ Stripped(outs) # << >>
<1> DEFINE g == Stripped(outs)
           n == Len(outs)
<1>1. n \in Nat /\ n # 0 /\ DOMAIN outs = 1..n
  OBVIOUS
<1>2. g = [k \in 1..n |-> [outs[k] EXCEPT !.holds = << >>]]
  BY <1>1 DEF Stripped
<1>3. ASSUME NEW k \in 1..n PROVE g[k] \in Outs(I)
  <2>1. outs[k] \in Outs(I) /\ << >> \in Seq(Holdings(I))
    OBVIOUS
  <2>2. [outs[k] EXCEPT !.holds = << >>] \in Outs(I)
    BY <2>1 DEF Outs
  <2> QED BY <1>2, <2>2
<1> HIDE DEF g, n
<1>4. g \in [1..n -> Outs(I)]
  BY <1>2, <1>3
<1>5. g \in Seq(Outs(I)) /\ Len(g) = n
  BY <1>1, <1>4
<1> QED BY <1>1, <1>5 DEF g

LEMMA UndoneTyped ==
    ASSUME NEW I, NEW t \in Moves(I), NEW ins, Holding(ins) \in Seq(Seq(Holdings(I)))
    PROVE  Undone(t, ins) \in Moves(I)
<1> DEFINE L == Seq(Seq(Holdings(I)))
           N == Nat \ {0}
           B == BOOLEAN
           O == Seq(Outs(I)) \ {<< >>}
           U == Seq(Holdings(I))
           S == Stripped(t.outs)
           J == Holding(ins)
           E == << >>
           T == TRUE
<1>1. t \in [left : L, index : N, allowSkip : B, outs : O, stopped : B, burnt : U, wrapped : B]
  BY DEF Moves
<1>2. S \in O
  BY StrippedTyped DEF Moves
<1>3. J \in L /\ E \in U /\ T \in B
  OBVIOUS
<1>4. Undone(t, ins) = [t EXCEPT !.outs = S, !.left = J, !.stopped = T, !.burnt = E]
  BY DEF Undone
<1> HIDE DEF L, N, B, O, U, S, J, E, T
<1>5. Undone(t, ins) \in [left : L, index : N, allowSkip : B, outs : O, stopped : B, burnt : U, wrapped : B]
  BY <1>1, <1>2, <1>3, <1>4
<1> QED BY <1>5 DEF Moves, L, N, B, O, U

LEMMA SkipTyped ==
    ASSUME NEW I, NEW t \in Moves(I), NEW i \in Instructions
    PROVE  Skip(t, i) \in Moves(I)
<1>1. t.index \in Nat \ {0} /\ t.allowSkip \in BOOLEAN /\ i.skip \in BOOLEAN
  BY LedgerAssumption DEF Moves
<1> DEFINE k == IF i.skip /\ t.allowSkip THEN t.index + 1 ELSE t.index
           b == t.allowSkip \/ i.skip
<1>2. k \in Nat \ {0} /\ b \in BOOLEAN
  BY <1>1
<1>3. Skip(t, i) = [t EXCEPT !.index = k, !.allowSkip = b]
  BY DEF Skip
<1> HIDE DEF k, b
<1> QED BY <1>2, <1>3 DEF Moves

LEMMA AmountTyped ==
    ASSUME NEW I, NEW t \in Moves(I), Available(t), NEW i \in Instructions
    PROVE  /\ AmountOf(t, i) \in Nat /\ t.left[t.index][1] \in Holdings(I)
           /\ i.output \in Nat /\ i.range \in BOOLEAN
<1>1. t.left \in Seq(Seq(Holdings(I))) /\ t.index \in Nat \ {0}
  BY DEF Moves
<1>2. t.index \in 1..Len(t.left) /\ t.left[t.index] # << >>
  BY <1>1 DEF Available
<1>3. t.left[t.index] \in Seq(Holdings(I))
  BY <1>1, <1>2
<1>4. t.left[t.index][1] \in Holdings(I)
  BY <1>2, <1>3
<1>5. t.left[t.index][1].count \in Nat
  BY <1>4 DEF Holdings
<1>6. i.amount \in Nat /\ i.output \in Nat /\ i.range \in BOOLEAN
  BY LedgerAssumption
<1> DEFINE c == t.left[t.index][1].count
<1>7. ((c * (i.amount + 1)) % AmountWidth) \div 256 \in Nat
  <2>1. c \in Nat
    BY <1>5
  <2> HIDE DEF c
  <2>2. c * (i.amount + 1) \in Nat
    BY <1>6, <2>1
  <2>3. (c * (i.amount + 1)) % AmountWidth \in Nat
    BY <2>2, TransferAssumption
  <2> QED BY <2>3
<1>8. AmountOf(t, i) \in Nat
  BY <1>6, <1>7 DEF AmountOf
<1> QED BY <1>4, <1>6, <1>8

\* One transfer instruction moves holdings of the indexes there are.
LEMMA InstructTyped ==
    ASSUME NEW I, NEW t \in Moves(I), NEW i \in Instructions, NEW type, NEW ins,
           Holding(ins) \in Seq(Seq(Holdings(I)))
    PROVE  Instruct(t, i, type, ins) \in Moves(I)
<1> DEFINE amount == AmountOf(t, i)
           exact  == IF i.range THEN (i.output + 1) * amount ELSE amount
           total  == exact % AmountWidth
           wanted == t.left[t.index][1]
           taken  == Take(t, wanted, total)
           after  == [t EXCEPT !.left = taken.left, !.index = taken.index, !.allowSkip = taken.allowSkip,
                               !.wrapped = @ \/ exact # total]
           burnt  == [after EXCEPT !.burnt = Append(@, [wanted EXCEPT !.count = total])]
           given  == [after EXCEPT !.outs = Give(@, i, [wanted EXCEPT !.count = amount])]
<1>1. Undone(t, ins) \in Moves(I)
  BY UndoneTyped
<1>2. CASE ~Available(t)
  BY <1>1, <1>2 DEF Instruct
<1>3. CASE Available(t)
  <2>1. amount \in Nat /\ wanted \in Holdings(I) /\ i.output \in Nat /\ i.range \in BOOLEAN
    BY <1>3, AmountTyped
  <2>2. total \in Nat
    <3> HIDE DEF amount
    <3>1. exact \in Nat
      BY <2>1
    <3> HIDE DEF exact
    <3> QED BY <3>1, TransferAssumption
  <2>3. taken \in TakeStates(I)
    <3> HIDE DEF total, wanted
    <3> QED BY <2>1, <2>2, TakeTyped
  <2>4. Instruct(t, i, type, ins) \in {Undone(t, ins), Skip(after, i), Skip(burnt, i), Skip(given, i)}
    <3>1. Instruct(t, i, type, ins) =
            CASE taken.bad -> Undone(t, ins)
              [] ~taken.bad /\ total = 0 -> Skip(after, i)
              [] ~taken.bad /\ total > 0 /\ Burns(type, i) -> Skip(burnt, i)
              [] ~taken.bad /\ total > 0 /\ ~Burns(type, i) ->
                   IF i.output >= Len(t.outs) THEN Undone(t, ins) ELSE Skip(given, i)
      BY <1>3 DEF Instruct
    <3> HIDE DEF taken, total, exact, amount, wanted, after, burnt, given
    <3>2. CASE taken.bad
      BY <3>1, <3>2, <2>2
    <3>3. CASE ~taken.bad /\ total = 0
      BY <3>1, <3>3, <2>2
    <3>4. CASE ~taken.bad /\ total > 0 /\ Burns(type, i)
      BY <3>1, <3>4, <2>2
    <3>5. CASE ~taken.bad /\ total > 0 /\ ~Burns(type, i)
      BY <3>1, <3>5, <2>2
    <3> QED BY <2>2, <3>2, <3>3, <3>4, <3>5
  <2> HIDE DEF taken, total, exact, amount, wanted
  <2>5. after \in Moves(I)
    <3>1. /\ taken.left \in Seq(Seq(Holdings(I))) /\ taken.index \in Nat \ {0}
          /\ taken.allowSkip \in BOOLEAN
      BY <2>3 DEF TakeStates
    <3> DEFINE l == taken.left
               k == taken.index
               a == taken.allowSkip
               w == t.wrapped \/ exact # total
    <3>2. l \in Seq(Seq(Holdings(I))) /\ k \in Nat \ {0} /\ a \in BOOLEAN /\ w \in BOOLEAN
      BY <3>1 DEF Moves
    <3>3. after = [t EXCEPT !.left = l, !.index = k, !.allowSkip = a, !.wrapped = w]
      OBVIOUS
    <3> HIDE DEF l, k, a, w
    <3> DEFINE L == Seq(Seq(Holdings(I)))
               N == Nat \ {0}
               B == BOOLEAN
               O == Seq(Outs(I)) \ {<< >>}
               U == Seq(Holdings(I))
    <3>4. t \in [left : L, index : N, allowSkip : B, outs : O, stopped : B, burnt : U, wrapped : B]
      BY DEF Moves
    <3>5. l \in L /\ k \in N /\ a \in B /\ w \in B
      BY <3>2
    <3> HIDE DEF L, N, B, O, U, after
    <3>6. after \in [left : L, index : N, allowSkip : B, outs : O, stopped : B, burnt : U, wrapped : B]
      BY <3>3, <3>4, <3>5
    <3> QED BY <3>6 DEF Moves, L, N, B, O, U
  <2> HIDE DEF after
  <2>6. burnt \in Moves(I)
    <3>1. [wanted EXCEPT !.count = total] \in Holdings(I)
      BY <2>1, <2>2 DEF Holdings
    <3>2. Append(after.burnt, [wanted EXCEPT !.count = total]) \in Seq(Holdings(I))
      BY <2>5, <3>1 DEF Moves
    <3> QED BY <2>5, <3>2 DEF Moves
  <2>7. given \in Moves(I)
    <3> DEFINE h == [wanted EXCEPT !.count = amount]
               g == Give(after.outs, i, h)
    <3>1. h \in Holdings(I)
      BY <2>1 DEF Holdings
    <3> HIDE DEF h
    <3>2. after.outs \in Seq(Outs(I)) /\ after.outs # << >>
      BY <2>5 DEF Moves
    <3>3. g \in Seq(Outs(I)) /\ g # << >>
      BY <3>1, <3>2, GiveTyped
    <3>4. given = [after EXCEPT !.outs = g]
      BY DEF h
    <3> HIDE DEF g, given
    <3> QED BY <2>5, <3>3, <3>4 DEF Moves
  <2> HIDE DEF burnt, given
  <2> QED BY <1>1, <2>4, <2>5, <2>6, <2>7, SkipTyped
<1> QED BY <1>2, <1>3

-----------------------------------------------------------------------------
(* The steps of a transaction                                                *)

\* What the outputs of a transaction must be to be stored when the table has n rows.
Storable(outs, n, one) ==
    /\ outs \in Seq([address : Address \cup {NoAddress}, value : Nat, holds : Seq(Holdings(0 .. n))])
    /\ \A k \in DOMAIN outs : outs[k].address # NoAddress =>
          outs[k].holds \in Seq(Holdings(1..n)) /\ (one => HoldsOne(outs[k]))

LEMMA HoldingsGrow ==
    ASSUME NEW I, NEW J, I \subseteq J
    PROVE  Seq(Holdings(I)) \subseteq Seq(Holdings(J))
<1>1. Holdings(I) \subseteq Holdings(J)
  BY DEF Holdings
<1> HIDE DEF Holdings
<1> QED BY <1>1

LEMMA CoinsGrow ==
    ASSUME NEW m \in Nat, NEW n \in Nat, NEW k \in Nat, n <= k, NEW c \in CoinsOf(m, n)
    PROVE  c \in CoinsOf(m + 1, k)
<1>1. Seq(Holdings(1..n)) \subseteq Seq(Holdings(1..k))
  <2>1. 1..n \subseteq 1..k
    OBVIOUS
  <2> QED BY <2>1, HoldingsGrow
<1>2. 0..m \subseteq 0..(m + 1)
  OBVIOUS
<1> DEFINE S == Seq(Holdings(1..n))
           T == Seq(Holdings(1..k))
           M == 0..m
           N == 0..(m + 1)
<1>3. S \subseteq T /\ M \subseteq N
  BY <1>1, <1>2
<1>4. c \in [tx : M, n : Nat, address : Address, value : Nat, holds : S, issued : BOOLEAN, spent : BOOLEAN]
  BY DEF CoinsOf
<1> HIDE DEF S, T, M, N
<1>5. c \in [tx : N, n : Nat, address : Address, value : Nat, holds : T, issued : BOOLEAN, spent : BOOLEAN]
  BY <1>3, <1>4
<1> QED BY <1>5 DEF S, T, M, N, CoinsOf

LEMMA SpentTyped ==
    ASSUME NEW m, NEW n, NEW c \in CoinsOf(m, n), NEW b \in BOOLEAN
    PROVE  /\ [c EXCEPT !.spent = b] \in CoinsOf(m, n)
           /\ [c EXCEPT !.spent = b].issued = c.issued /\ [c EXCEPT !.spent = b].holds = c.holds
<1> DEFINE S == Seq(Holdings(1..n))
           M == 0..m
<1>1. c \in [tx : M, n : Nat, address : Address, value : Nat, holds : S, issued : BOOLEAN, spent : BOOLEAN]
  BY DEF CoinsOf
<1> HIDE DEF S, M
<1>2. [c EXCEPT !.spent = b]
        \in [tx : M, n : Nat, address : Address, value : Nat, holds : S, issued : BOOLEAN, spent : BOOLEAN]
  BY <1>1
<1>3. [c EXCEPT !.spent = b].issued = c.issued /\ [c EXCEPT !.spent = b].holds = c.holds
  BY <1>1
<1> QED BY <1>2, <1>3 DEF S, M, CoinsOf

\* A transaction saved leaves tables that agree.
LEMMA SaveKeeps ==
    ASSUME IInv, made < MaxTx, NEW type, NEW unintended, NEW ins, NEW outs, NEW table,
           TableOK(table, height), Len(rows) <= Len(table),
           Storable(outs, Len(table), type = "issuance"),
           Save(type, unintended, ins, outs, table)
    PROVE  IInv'
<1> DEFINE n == Len(rows)
           k == Len(table)
<1>1. /\ rows' = table /\ coins' = Spend(ins) \cup Create(outs, type = "issuance") /\ made' = made + 1
      /\ DOMAIN votes' = (DOMAIN table) \X Address /\ tx' = NoTx /\ height' = height /\ stuck' = stuck
  BY DEF Save
<1>2. n \in Nat /\ k \in Nat /\ n <= k /\ made \in Nat /\ table \in Seq(Range(table))
  <2>1. rows \in Seq(Range(rows)) /\ table \in Seq(Range(table)) /\ made \in 0 .. MaxTx
    BY DEF IInv, RowsOK, CountsOK, TableOK
  <2> QED BY <2>1, LedgerAssumption
<1> HIDE DEF n, k
<1>3. RowsOK'
  BY <1>1 DEF RowsOK
<1>4. ASSUME NEW c \in Spend(ins) PROVE c \in CoinsOf(made + 1, k) /\ (c.issued => HoldsOne(c))
  <2>1. PICK d \in coins : c = [d EXCEPT !.spent = @ \/ d \in ToSet(ins)]
    BY DEF Spend
  <2>2. d \in CoinsOf(made, n) /\ (d.issued => HoldsOne(d))
    BY DEF IInv, CoinsOK, n
  <2> DEFINE b == d.spent \/ d \in ToSet(ins)
  <2>3. b \in BOOLEAN
    BY <2>2 DEF CoinsOf
  <2>4. c = [d EXCEPT !.spent = b]
    BY <2>1
  <2> HIDE DEF b
  <2>5. c \in CoinsOf(made, n) /\ c.issued = d.issued /\ c.holds = d.holds
    BY <2>2, <2>3, <2>4, SpentTyped
  <2>6. c \in CoinsOf(made + 1, k)
    BY <1>2, <2>5, CoinsGrow
  <2> QED BY <2>2, <2>5, <2>6 DEF HoldsOne
<1>5. ASSUME NEW c \in Create(outs, type = "issuance")
      PROVE  c \in CoinsOf(made + 1, k) /\ (c.issued => HoldsOne(c))
  <2>1. PICK j \in DOMAIN outs :
          /\ outs[j].address # NoAddress
          /\ c = [tx |-> made + 1, n |-> j - 1, address |-> outs[j].address, value |-> outs[j].value,
                  holds |-> outs[j].holds, issued |-> type = "issuance", spent |-> FALSE]
    BY DEF Create
  <2>2. /\ outs \in Seq([address : Address \cup {NoAddress}, value : Nat, holds : Seq(Holdings(0 .. k))])
        /\ outs[j].holds \in Seq(Holdings(1..k)) /\ (type = "issuance" => HoldsOne(outs[j]))
    BY <2>1 DEF Storable, k
  <2>3. j \in 1..Len(outs) /\ Len(outs) \in Nat
    BY <2>2
  <2>4. outs[j].address \in Address /\ outs[j].value \in Nat /\ j - 1 \in Nat
    <3>1. outs[j] \in [address : Address \cup {NoAddress}, value : Nat, holds : Seq(Holdings(0 .. k))]
      <4> DEFINE R == [address : Address \cup {NoAddress}, value : Nat, holds : Seq(Holdings(0 .. k))]
      <4>1. outs \in Seq(R)
        BY <2>2
      <4> HIDE DEF R
      <4>2. outs[j] \in R
        BY <2>3, <4>1
      <4> QED BY <4>2 DEF R
    <3>2. j - 1 \in Nat
      BY <2>3
    <3>3. outs[j].address \in Address \cup {NoAddress} /\ outs[j].value \in Nat
      BY <3>1
    <3> QED BY <2>1, <3>2, <3>3
  <2>5. made + 1 \in 0..(made + 1)
    BY <1>2
  <2> DEFINE S == Seq(Holdings(1..k))
             M == 0..(made + 1)
             a == outs[j].address
             v == outs[j].value
             h == outs[j].holds
             i == type = "issuance"
             q == j - 1
             t == made + 1
             f == FALSE
  <2>6. a \in Address /\ v \in Nat /\ h \in S /\ i \in BOOLEAN /\ q \in Nat /\ t \in M /\ f \in BOOLEAN
    BY <2>2, <2>4, <2>5
  <2>7. c = [tx |-> t, n |-> q, address |-> a, value |-> v, holds |-> h, issued |-> i, spent |-> f]
    BY <2>1
  <2>8. i => \A x, y \in DOMAIN h : h[x].index = h[y].index
    BY <2>2 DEF HoldsOne
  <2> HIDE DEF S, M, a, v, h, i, q, t, f
  <2>9. c \in [tx : M, n : Nat, address : Address, value : Nat, holds : S, issued : BOOLEAN, spent : BOOLEAN]
    BY <2>6, <2>7
  <2>10. c.issued = i /\ c.holds = h
    BY <2>7
  <2> QED BY <2>8, <2>9, <2>10 DEF S, M, CoinsOf, HoldsOne
<1>6. CoinsOK'
  <2>1. coins' \subseteq CoinsOf(made', Len(rows')) /\ \A c \in coins' : c.issued => HoldsOne(c)
    BY <1>1, <1>4, <1>5 DEF k
  <2> QED BY <2>1 DEF CoinsOK, HoldsOne, CoinsOf, Holdings
<1>7. CountsOK'
  <2>1. made + 1 \in 0 .. MaxTx
    BY <1>2, LedgerAssumption
  <2> QED BY <1>1, <2>1 DEF CountsOK, IInv
<1>8. TxOK'
  BY <1>1 DEF TxOK
<1> QED BY <1>3, <1>6, <1>7, <1>8 DEF IInv

\* An exception leaves the tables as they are.
LEMMA StopKeeps ==
    ASSUME IInv, NEW why \in {"feed", "index", "kyc", "short"}, Stop(why)
    PROVE  IInv'
<1>1. /\ rows' = rows /\ coins' = coins /\ votes' = votes /\ height' = height /\ made' = made
      /\ tx' = NoTx /\ stuck' = why
  BY DEF Stop
<1>2. RowsOK'
  BY <1>1 DEF IInv, RowsOK
<1>3. CoinsOK'
  BY <1>1 DEF IInv, CoinsOK, CoinsOf
<1>4. CountsOK'
  BY <1>1 DEF IInv, CountsOK
<1>5. TxOK'
  BY <1>1 DEF TxOK
<1> QED BY <1>2, <1>3, <1>4, <1>5 DEF IInv

\* The transaction being decoded goes on, and the tables stay.
LEMMA DecodingKeeps ==
    ASSUME IInv, made < MaxTx, NEW t, IsTx(t), tx' = t,
           UNCHANGED <<rows, coins, kyc, votes, watched, height, made, stuck, last>>
    PROVE  IInv'
<1>1. RowsOK'
  BY DEF IInv, RowsOK
<1>2. CoinsOK'
  BY DEF IInv, CoinsOK, CoinsOf
<1>3. CountsOK'
  BY DEF IInv, CountsOK
<1>4. Indexes(t)' = Indexes(t) /\ \A asset : RowHeeded(asset)' <=> RowHeeded(asset)
  BY DEF Indexes, RowHeeded, Updates, IndexAdded, RowsWith
<1>5. IsTx(tx)'
  BY <1>4 DEF IsTx, Moves, Outs
<1>6. TxOK'
  BY <1>5 DEF TxOK
<1> QED BY <1>1, <1>2, <1>3, <1>6 DEF IInv

\* The outputs of a transaction before anything is given to them.
LEMMA OutputsTyped ==
    ASSUME NEW I, NEW layout \in Layouts
    PROVE  /\ Outputs(layout) \in Seq(Outs(I)) /\ Outputs(layout) # << >>
           /\ \A k \in DOMAIN Outputs(layout) : Outputs(layout)[k].holds = << >>
<1> DEFINE g == Outputs(layout)
           n == Len(layout)
<1>1. layout \in Seq([address : Address \cup {NoAddress}, value : Nat]) /\ layout # << >>
  BY LedgerAssumption
<1>2. n \in Nat /\ n # 0 /\ DOMAIN layout = 1..n
  BY <1>1
<1>3. g = [k \in 1..n |-> [address |-> layout[k].address, value |-> layout[k].value, holds |-> << >>]]
  BY <1>2 DEF Outputs
<1>4. ASSUME NEW k \in 1..n PROVE g[k] \in Outs(I) /\ g[k].holds = << >>
  <2>1. layout[k] \in [address : Address \cup {NoAddress}, value : Nat]
    <3> DEFINE R == [address : Address \cup {NoAddress}, value : Nat]
    <3>1. layout \in Seq(R) /\ k \in 1..Len(layout)
      BY <1>1
    <3> HIDE DEF R
    <3>2. layout[k] \in R
      BY <3>1
    <3> QED BY <3>2 DEF R
  <2>2. layout[k].address \in Address \cup {NoAddress} /\ layout[k].value \in Nat /\ << >> \in Seq(Holdings(I))
    BY <2>1
  <2>3. g[k] = [address |-> layout[k].address, value |-> layout[k].value, holds |-> << >>]
    BY <1>3
  <2> QED BY <2>2, <2>3 DEF Outs
<1> HIDE DEF g, n
<1>5. g \in [1..n -> Outs(I)]
  BY <1>3, <1>4
<1>6. g \in Seq(Outs(I)) /\ Len(g) = n /\ DOMAIN g = 1..n
  BY <1>2, <1>5
<1> QED BY <1>2, <1>4, <1>6 DEF g

\* Outputs that hold what the table has rows for are stored.
LEMMA StorableOuts ==
    ASSUME NEW n \in Nat, NEW outs \in Seq(Outs(1..n))
    PROVE  Storable(outs, n, FALSE)
<1> DEFINE A == Address \cup {NoAddress}
           S == Seq(Holdings(1..n))
           T == Seq(Holdings(0..n))
<1>1. S \subseteq T
  <2>1. 1..n \subseteq 0..n
    OBVIOUS
  <2> QED BY <2>1, HoldingsGrow
<1>2. outs \in Seq([address : A, value : Nat, holds : S])
  BY DEF Outs
<1> HIDE DEF A, S, T
<1> DEFINE R == [address : A, value : Nat, holds : S]
           Q == [address : A, value : Nat, holds : T]
<1>3. R \subseteq Q /\ \A r \in R : r.holds \in S
  BY <1>1
<1>4. outs \in Seq(R)
  BY <1>2
<1> HIDE DEF R, Q
<1>5. outs \in Seq(Q) /\ \A k \in DOMAIN outs : outs[k].holds \in S
  BY <1>3, <1>4
<1>6. outs \in Seq([address : A, value : Nat, holds : T])
  BY <1>5 DEF Q
<1> QED BY <1>5, <1>6 DEF Storable, A, S, T

\* Outputs that hold nothing are stored.
LEMMA StorableEmpty ==
    ASSUME NEW n \in Nat, NEW layout \in Layouts, NEW one \in BOOLEAN
    PROVE  Storable(Outputs(layout), n, one)
<1> DEFINE outs == Outputs(layout)
<1>1. outs \in Seq(Outs(1..n)) /\ \A k \in DOMAIN outs : outs[k].holds = << >>
  BY OutputsTyped
<1> HIDE DEF outs
<1>2. Storable(outs, n, FALSE)
  BY <1>1, StorableOuts
<1>3. \A k \in DOMAIN outs : HoldsOne(outs[k])
  BY <1>1 DEF HoldsOne
<1> QED BY <1>2, <1>3 DEF Storable, outs

\* The inputs of a transaction are outputs of the table.
LEMMA InputsTyped ==
    ASSUME IInv, NEW ins \in Inputs
    PROVE  Holding(ins) \in Seq(Seq(Holdings(1..Len(rows))))
<1>1. PICK n \in 1..MaxInputs : ins \in [1..n -> {c \in coins : ~c.spent}]
  BY DEF Inputs
<1>2. n \in Nat
  BY <1>1, LedgerAssumption
<1>3. ASSUME NEW k \in 1..n PROVE ins[k].holds \in Seq(Holdings(1..Len(rows)))
  <2>1. ins[k] \in CoinsOf(made, Len(rows))
    BY <1>1 DEF IInv, CoinsOK
  <2> QED BY <2>1 DEF CoinsOf
<1>4. DOMAIN ins = 1..n
  BY <1>1
<1> QED BY <1>2, <1>3, <1>4, HoldingTyped

\* What FixedRulesStay says of a table that becomes another.
Stays(old, new) ==
    \A k \in DOMAIN old :
        /\ k \in DOMAIN new
        /\ new[k].id = old[k].id /\ new[k].created = old[k].created
        /\ ~old[k].rules.none /\ ~old[k].rules.rewritable => new[k].rules = old[k].rules

\* addAsset: a row changed.
LEMMA RowUpdated ==
    ASSUME IInv, NEW asset, RowHeeded(asset), Updates(asset)
    PROVE  /\ TableOK(AddAsset(asset), height) /\ Len(AddAsset(asset)) = Len(rows)
           /\ IndexAdded(asset) \in 1..Len(rows)
           /\ Stays(rows, AddAsset(asset))
<1> DEFINE k == IndexAdded(asset)
           x == Deserialize(Serialize(asset.rules))
           row == [rows[k] EXCEPT !.updated = height, !.rules = x]
           table == [rows EXCEPT ![k] = row]
           n == Len(rows)
<1>1. /\ rows \in Seq(Range(rows)) /\ \A j \in 1..n : IsRow(rows[j]) /\ rows[j].updated <= height
      /\ \A j, l \in 1..n : rows[j].id = rows[l].id /\ rows[j].kind = "aggregable" /\ ~rows[j].locked => j = l
  BY DEF IInv, RowsOK, TableOK
<1>2. k \in 1..n /\ n \in Nat /\ DOMAIN rows = 1..n
  <2>1. k \in RowsWith(asset.id)
    BY DEF Updates, IndexAdded
  <2> QED BY <1>1, <2>1 DEF RowsWith
<1>3. AddAsset(asset) = table
  BY DEF AddAsset
<1>4. height \in Nat
  BY LedgerAssumption DEF IInv, CountsOK
<1>5. x = Deserialize(Serialize(x))
  BY KeptTwice
<1>6. ~rows[k].rules.none /\ ~rows[k].rules.rewritable => x = rows[k].rules
  BY <1>1, <1>2 DEF RowHeeded, IsRow
<1> HIDE DEF k, x
<1>7. /\ IsRow(row) /\ row.id = rows[k].id /\ row.kind = rows[k].kind /\ row.locked = rows[k].locked
      /\ row.created = rows[k].created /\ row.updated = height /\ row.rules = x
  <2> DEFINE r == rows[k]
  <2>1. IsRow(r) /\ r.updated <= height
    BY <1>1, <1>2
  <2> HIDE DEF r
  <2>2. r = [id |-> r.id, kind |-> r.kind, locked |-> r.locked, rules |-> r.rules,
            created |-> r.created, updated |-> r.updated]
    BY <2>1 DEF IsRow
  <2> DEFINE q == [r EXCEPT !.updated = height, !.rules = x]
  <2>3. /\ DOMAIN q = {"id", "kind", "locked", "rules", "created", "updated"}
        /\ q.id = r.id /\ q.kind = r.kind /\ q.locked = r.locked /\ q.created = r.created
        /\ q.updated = height /\ q.rules = x /\ q = [i \in DOMAIN q |-> q[i]]
    BY <2>2
  <2> HIDE DEF q
  <2>4. q = [id |-> q.id, kind |-> q.kind, locked |-> q.locked, rules |-> q.rules,
            created |-> q.created, updated |-> q.updated]
    BY <2>3
  <2>5. /\ r.id.kind = r.kind /\ r.id.locked = r.locked
        /\ r.created \in Nat /\ r.updated \in Nat /\ r.created <= r.updated
    BY <2>1 DEF IsRow
  <2>6. q.created <= q.updated /\ q.updated \in Nat /\ q.created \in Nat
    BY <1>4, <2>1, <2>3, <2>5
  <2>7. IsRow(q)
    BY <1>5, <2>3, <2>4, <2>5, <2>6 DEF IsRow
  <2> QED BY <2>3, <2>7 DEF q, r
<1> HIDE DEF row
<1> DEFINE S == Range(rows) \cup {row}
<1>8. rows \in Seq(S) /\ row \in S
  BY <1>1
<1>9. /\ table \in Seq(S) /\ Len(table) = n
      /\ \A j \in 1..n : table[j] = IF j = k THEN row ELSE rows[j]
  <2> HIDE DEF S
  <2> QED BY <1>2, <1>8, ExceptSeq
<1>10. table \in Seq(Range(table)) /\ DOMAIN table = 1..n
  <2> HIDE DEF table, S
  <2> QED BY <1>9, SeqOfRange
<1> HIDE DEF table, S
<1>11. \A j \in 1..n : IsRow(table[j]) /\ table[j].updated <= height
  <2> SUFFICES ASSUME NEW j \in 1..n PROVE IsRow(table[j]) /\ table[j].updated <= height
    OBVIOUS
  <2>1. CASE j = k
    BY <1>4, <1>7, <1>9, <2>1
  <2>2. CASE j # k
    BY <1>1, <1>9, <2>2
  <2> QED BY <2>1, <2>2
<1>12. \A j \in 1..n : /\ table[j].id = rows[j].id /\ table[j].kind = rows[j].kind
                       /\ table[j].locked = rows[j].locked /\ table[j].created = rows[j].created
  BY <1>7, <1>9
<1>13. TableOK(table, height)
  BY <1>1, <1>9, <1>10, <1>11, <1>12 DEF TableOK
<1>14. \A j \in 1..n : ~rows[j].rules.none /\ ~rows[j].rules.rewritable => table[j].rules = rows[j].rules
  BY <1>6, <1>7, <1>9
<1>15. Stays(rows, table)
  BY <1>2, <1>10, <1>12, <1>14 DEF Stays
<1> QED BY <1>2, <1>3, <1>9, <1>13, <1>15 DEF k, n

\* addAsset: a row added.
LEMMA RowAdded ==
    ASSUME IInv, NEW asset, asset.id.kind = asset.kind, asset.id.locked = asset.locked, ~Updates(asset)
    PROVE  /\ TableOK(AddAsset(asset), height) /\ Len(AddAsset(asset)) = Len(rows) + 1
           /\ IndexAdded(asset) = Len(rows) + 1
           /\ Stays(rows, AddAsset(asset))
<1> DEFINE row == [id |-> asset.id, kind |-> asset.kind, locked |-> asset.locked,
                   rules |-> Deserialize(Serialize(asset.rules)), created |-> height, updated |-> height]
           table == Append(rows, row)
           n == Len(rows)
<1>1. /\ rows \in Seq(Range(rows)) /\ \A j \in 1..n : IsRow(rows[j]) /\ rows[j].updated <= height
      /\ \A j, l \in 1..n : rows[j].id = rows[l].id /\ rows[j].kind = "aggregable" /\ ~rows[j].locked => j = l
  BY DEF IInv, RowsOK, TableOK
<1>2. n \in Nat /\ DOMAIN rows = 1..n
  BY <1>1
<1>3. AddAsset(asset) = table /\ IndexAdded(asset) = n + 1
  BY DEF AddAsset, IndexAdded
<1>4. height \in Nat
  BY LedgerAssumption DEF IInv, CountsOK
<1>5. IsRow(row) /\ row.id = asset.id /\ row.kind = asset.kind /\ row.locked = asset.locked /\ row.updated = height
  <2>1. \A x : x = Deserialize(Serialize(asset.rules)) => x = Deserialize(Serialize(x))
    BY KeptTwice
  <2> QED BY <1>4, <2>1 DEF IsRow
<1> HIDE DEF row
<1> DEFINE S == Range(rows) \cup {row}
<1>6. rows \in Seq(S) /\ row \in S
  BY <1>1
<1>7. /\ table \in Seq(S) /\ Len(table) = n + 1
      /\ \A j \in 1..n : table[j] = rows[j]
      /\ table[n + 1] = row
  <2> HIDE DEF S
  <2> QED BY <1>2, <1>6, AppendProperties
<1>8. table \in Seq(Range(table)) /\ DOMAIN table = 1..(n + 1)
  <2> HIDE DEF table, S
  <2> QED BY <1>7, SeqOfRange
<1> HIDE DEF table, S
<1>9. \A j \in 1..(n + 1) : j \in 1..n \/ j = n + 1
  BY <1>2
<1>10. \A j \in 1..(n + 1) : IsRow(table[j]) /\ table[j].updated <= height
  BY <1>1, <1>4, <1>5, <1>7, <1>9
<1>11. ASSUME NEW j \in 1..n, row.id = rows[j].id, row.kind = "aggregable" \/ rows[j].kind = "aggregable",
              ~row.locked \/ ~rows[j].locked
       PROVE  FALSE
  <2>1. rows[j].id.kind = rows[j].kind /\ rows[j].id.locked = rows[j].locked
    BY <1>1 DEF IsRow
  <2>2. row.kind = rows[j].kind /\ row.locked = rows[j].locked
    BY <1>5, <1>11, <2>1
  <2>3. j \in RowsWith(asset.id)
    BY <1>2, <1>5, <1>11 DEF RowsWith
  <2> QED BY <1>5, <1>11, <2>2, <2>3 DEF Updates
<1>12. ASSUME NEW j \in 1..(n + 1), NEW l \in 1..(n + 1),
              table[j].id = table[l].id, table[j].kind = "aggregable", ~table[j].locked
       PROVE  j = l
  <2>1. CASE j \in 1..n /\ l \in 1..n
    BY <1>1, <1>7, <1>12, <2>1
  <2>2. CASE j \in 1..n /\ l = n + 1
    BY <1>7, <1>11, <1>12, <2>2
  <2>3. CASE j = n + 1 /\ l \in 1..n
    BY <1>7, <1>11, <1>12, <2>3
  <2>4. CASE j = n + 1 /\ l = n + 1
    BY <2>4
  <2> QED BY <1>9, <2>1, <2>2, <2>3, <2>4
<1>13. TableOK(table, height)
  BY <1>7, <1>8, <1>10, <1>12 DEF TableOK
<1>14. Stays(rows, table)
  <2>1. \A j \in 1..n : j \in 1..(n + 1)
    BY <1>2
  <2> QED BY <1>2, <1>7, <1>8, <2>1 DEF Stays
<1> QED BY <1>3, <1>7, <1>13, <1>14 DEF n

\* Outputs that are data lose what they hold.
LEMMA WithoutDataTyped ==
    ASSUME NEW I, NEW outs \in Seq(Outs(I))
    PROVE  WithoutData(outs, NoAddress) \in Seq(Outs(I))
<1> DEFINE g == WithoutData(outs, NoAddress)
           n == Len(outs)
<1>1. n \in Nat /\ DOMAIN outs = 1..n
  OBVIOUS
<1>2. g = [k \in 1..n |-> IF outs[k].address = NoAddress THEN [outs[k] EXCEPT !.holds = << >>] ELSE outs[k]]
  BY <1>1 DEF WithoutData
<1>3. ASSUME NEW k \in 1..n PROVE g[k] \in Outs(I)
  <2>1. outs[k] \in Outs(I) /\ << >> \in Seq(Holdings(I))
    OBVIOUS
  <2>2. [outs[k] EXCEPT !.holds = << >>] \in Outs(I)
    BY <2>1 DEF Outs
  <2> QED BY <1>2, <2>1, <2>2
<1> HIDE DEF g, n
<1>4. g \in [1..n -> Outs(I)]
  BY <1>2, <1>3
<1>5. g \in Seq(Outs(I))
  BY <1>1, <1>4
<1> QED BY <1>5 DEF g

\* Holdings given the index of the new asset are of one asset.
LEMMA HoldsIndexed ==
    ASSUME NEW I, NEW holds \in Seq(Holdings(I)), NEW k
    PROVE  LET l == [j \in DOMAIN holds |-> [holds[j] EXCEPT !.index = k]]
           IN l \in Seq(Holdings({k})) /\ \A x \in DOMAIN l : l[x].index = k
<1> DEFINE n == Len(holds)
           l == [j \in DOMAIN holds |-> [holds[j] EXCEPT !.index = k]]
<1>1. n \in Nat /\ DOMAIN holds = 1..n
  OBVIOUS
<1>2. l = [j \in 1..n |-> [holds[j] EXCEPT !.index = k]]
  BY <1>1
<1>3. ASSUME NEW j \in 1..n PROVE l[j] \in Holdings({k}) /\ l[j].index = k
  <2>1. holds[j] \in Holdings(I)
    <3> DEFINE H == Holdings(I)
    <3>1. holds \in Seq(H) /\ j \in 1..Len(holds)
      OBVIOUS
    <3> HIDE DEF H
    <3>2. holds[j] \in H
      BY <3>1
    <3> QED BY <3>2 DEF H
  <2>2. [holds[j] EXCEPT !.index = k] \in Holdings({k}) /\ [holds[j] EXCEPT !.index = k].index = k
    BY <2>1 DEF Holdings
  <2> QED BY <1>2, <2>2
<1> HIDE DEF l, n
<1>4. l \in [1..n -> Holdings({k})] /\ DOMAIN l = 1..n
  BY <1>2, <1>3
<1>5. l \in Seq(Holdings({k}))
  <2> DEFINE H == Holdings({k})
  <2>1. l \in [1..n -> H]
    BY <1>4
  <2> HIDE DEF H
  <2>2. l \in Seq(H)
    BY <1>1, <2>1
  <2> QED BY <2>2 DEF H
<1> QED BY <1>3, <1>4, <1>5 DEF l

\* The outputs of an issuance hold its asset and no other.
LEMMA StorableIndexed ==
    ASSUME NEW I, NEW outs \in Seq(Outs(I)), NEW n \in Nat, NEW k \in 1..n
    PROVE  Storable(Indexed(outs, k), n, TRUE)
<1> DEFINE g == Indexed(outs, k)
           m == Len(outs)
           A == Address \cup {NoAddress}
           S == Seq(Holdings({k}))
<1>1. m \in Nat /\ DOMAIN outs = 1..m
  OBVIOUS
<1>2. S \subseteq Seq(Holdings(1..n)) /\ S \subseteq Seq(Holdings(0..n))
  <2>1. {k} \subseteq 1..n /\ {k} \subseteq 0..n
    OBVIOUS
  <2> QED BY <2>1, HoldingsGrow
<1>3. g = [x \in 1..m |->
            [outs[x] EXCEPT !.holds = [j \in DOMAIN outs[x].holds |-> [outs[x].holds[j] EXCEPT !.index = k]]]]
  BY <1>1 DEF Indexed
<1>4. ASSUME NEW x \in 1..m PROVE g[x] \in [address : A, value : Nat, holds : S] /\ HoldsOne(g[x])
  <2> DEFINE o == outs[x]
             l == [j \in DOMAIN o.holds |-> [o.holds[j] EXCEPT !.index = k]]
  <2>1. o \in Outs(I)
    <3> DEFINE O == Outs(I)
    <3>1. outs \in Seq(O) /\ x \in 1..Len(outs)
      OBVIOUS
    <3> HIDE DEF O
    <3>2. outs[x] \in O
      BY <3>1
    <3> QED BY <3>2 DEF O
  <2>2. g[x] = [o EXCEPT !.holds = l]
    BY <1>3
  <2>3. o \in [address : A, value : Nat, holds : Seq(Holdings(I))]
    BY <2>1 DEF Outs
  <2>4. o.holds \in Seq(Holdings(I))
    BY <2>3
  <2>5. l \in S /\ \A y \in DOMAIN l : l[y].index = k
    BY <2>4, HoldsIndexed
  <2> HIDE DEF o, l, g, S, A
  <2>6. g[x] \in [address : A, value : Nat, holds : S] /\ g[x].holds = l
    BY <2>2, <2>3, <2>5
  <2> QED BY <2>5, <2>6 DEF HoldsOne
<1> DEFINE R == [address : A, value : Nat, holds : S]
           Q == [address : A, value : Nat, holds : Seq(Holdings(0..n))]
<1>5. R \subseteq Q /\ \A r \in R : r.holds \in Seq(Holdings(1..n))
  <2> DEFINE T == Seq(Holdings(0..n))
             U == Seq(Holdings(1..n))
  <2>1. S \subseteq T /\ S \subseteq U
    BY <1>2
  <2> HIDE DEF S, T, U, A
  <2>2. [address : A, value : Nat, holds : S] \subseteq [address : A, value : Nat, holds : T]
    BY <2>1
  <2>3. \A r \in [address : A, value : Nat, holds : S] : r.holds \in U
    BY <2>1
  <2> QED BY <2>2, <2>3 DEF T, U
<1>6. \A x \in 1..m : g[x] \in R
  BY <1>4
<1> HIDE DEF g, m, S, A, R, Q
<1>7. g \in [1..m -> Q] /\ DOMAIN g = 1..m
  BY <1>3, <1>5, <1>6
<1>8. g \in Seq(Q)
  BY <1>1, <1>7
<1>9. \A x \in DOMAIN g : g[x].holds \in Seq(Holdings(1..n)) /\ HoldsOne(g[x])
  BY <1>4, <1>5, <1>6, <1>7
<1> QED BY <1>8, <1>9 DEF Storable, Q, A, g

\* Outputs whose addresses hold nothing are stored, whatever the data hold.
LEMMA StorableUnindexed ==
    ASSUME NEW n \in Nat, NEW outs \in Seq(Outs(0..n)),
           \A k \in DOMAIN outs : outs[k].address # NoAddress => outs[k].holds = << >>
    PROVE  Storable(outs, n, FALSE)
<1>1. << >> \in Seq(Holdings(1..n))
  OBVIOUS
<1>2. outs \in Seq([address : Address \cup {NoAddress}, value : Nat, holds : Seq(Holdings(0 .. n))])
  BY DEF Outs
<1> QED BY <1>1, <1>2 DEF Storable

\* What a transfer begins with.
LEMMA StartedTyped ==
    ASSUME NEW I, NEW given, Holding(given) \in Seq(Seq(Holdings(I))), NEW layout \in Layouts
    PROVE  Started(given, Outputs(layout)) \in Moves(I)
<1> DEFINE L == Seq(Seq(Holdings(I)))
           N == Nat \ {0}
           O == Seq(Outs(I)) \ {<< >>}
           U == Seq(Holdings(I))
           g == Holding(given)
           o == Outputs(layout)
           e == << >>
<1>1. g \in L /\ 1 \in N /\ o \in O /\ e \in U
  BY OutputsTyped
<1>2. Started(given, Outputs(layout)) =
        [left |-> g, index |-> 1, allowSkip |-> TRUE, outs |-> o, stopped |-> FALSE, burnt |-> e, wrapped |-> FALSE]
  BY DEF Started
<1> HIDE DEF L, N, O, U, g, o, e
<1>3. Started(given, Outputs(layout))
        \in [left : L, index : N, allowSkip : BOOLEAN, outs : O, stopped : BOOLEAN, burnt : U, wrapped : BOOLEAN]
  BY <1>1, <1>2
<1> QED BY <1>3 DEF L, N, O, U, Moves

-----------------------------------------------------------------------------
(* The actions                                                              *)

\* A transaction stored without touching the table of assets.
LEMMA SaveSameKeeps ==
    ASSUME IInv, made < MaxTx, NEW type, type # "issuance", NEW unintended, NEW ins, NEW outs,
           Storable(outs, Len(rows), FALSE), Save(type, unintended, ins, outs, rows)
    PROVE  IInv'
<1>1. TableOK(rows, height) /\ Len(rows) \in Nat
  BY DEF IInv, RowsOK, TableOK
<1>2. Storable(outs, Len(rows), type = "issuance")
  BY DEF Storable
<1>3. Len(rows) <= Len(rows)
  BY <1>1
<1> QED BY <1>1, <1>2, <1>3, SaveKeeps

LEMMA PlainKeeps == IInv /\ Plain => IInv'
<1> SUFFICES ASSUME IInv, Plain PROVE IInv'
  OBVIOUS
<1>1. made < MaxTx
  BY DEF Plain
<1>2. PICK ins \in Inputs, layout \in Layouts :
        Standard(ins, layout) \/ VerifyKyc(ins, layout) \/ RevokeKyc(ins, layout)
  BY DEF Plain
<1>3. Storable(Outputs(layout), Len(rows), FALSE)
  <2>1. Len(rows) \in Nat
    BY DEF IInv, RowsOK, TableOK
  <2> QED BY <2>1, StorableEmpty
<1>4. CASE Standard(ins, layout)
  <2>1. Save("standard", FALSE, ins, Outputs(layout), rows)
    BY <1>4 DEF Standard
  <2> QED BY <1>1, <1>3, <2>1, SaveSameKeeps
<1>5. CASE VerifyKyc(ins, layout)
  <2>1. Save("special", FALSE, ins, Outputs(layout), rows)
    BY <1>5 DEF VerifyKyc
  <2> QED BY <1>1, <1>3, <2>1, SaveSameKeeps
<1>6. CASE RevokeKyc(ins, layout)
  <2>1. Stop("kyc") \/ Save("special", FALSE, ins, Outputs(layout), rows)
    BY <1>6 DEF RevokeKyc
  <2> QED BY <1>1, <1>3, <2>1, SaveSameKeeps, StopKeeps
<1> QED BY <1>2, <1>4, <1>5, <1>6

\* An amount an issuance may create is a natural number.
LEMMA ScaledTyped ==
    ASSUME NEW i \in Issuances
    PROVE  Scaled(i) \in Nat
<1>1. i.amount \in Nat /\ 10 ^ i.decimals \in Nat \ {0}
  BY LedgerAssumption
<1> DEFINE d == 10 ^ i.decimals
<1>2. i.amount \div d \in Nat
  <2>1. d \in Nat \ {0}
    BY <1>1
  <2> HIDE DEF d
  <2> QED BY <1>1, <2>1
<1> QED BY <1>1, <1>2 DEF Scaled

\* The asset an issuance creates or adds to.
LEMMA IssuingTyped ==
    ASSUME IInv, NEW i \in Issuances, i.kind # "invalid", NEW ins, NEW stated
    PROVE  LET asset == Issuing(i, ins, stated) IN
           /\ asset.index \in 0 .. Len(rows) /\ asset.kind \in Kinds /\ asset.count \in Nat
           /\ asset.id.kind = asset.kind /\ asset.id.locked = asset.locked
           /\ RowHeeded(asset)
<1> DEFINE draft == [id |-> AssetId(i, ins), kind |-> i.kind, locked |-> i.locked]
           asset == Issuing(i, ins, stated)
<1>1. asset = [id |-> draft.id, kind |-> i.kind, locked |-> i.locked, count |-> Scaled(i),
               index |-> IF Updates(draft) THEN IndexAdded(draft) ELSE 0, rules |-> RulesOf(draft, stated)]
  BY DEF Issuing
<1>2. draft.id.kind = i.kind /\ draft.id.locked = i.locked /\ draft.kind = i.kind /\ draft.locked = i.locked
  BY DEF AssetId
<1> HIDE DEF draft, asset
<1>3. /\ asset.id = draft.id /\ asset.kind = i.kind /\ asset.locked = i.locked /\ asset.count = Scaled(i)
      /\ asset.index = (IF Updates(draft) THEN IndexAdded(draft) ELSE 0)
      /\ asset.rules = RulesOf(draft, stated)
  BY <1>1
<1>4. (Updates(asset) <=> Updates(draft)) /\ (Updates(draft) => IndexAdded(asset) = IndexAdded(draft))
  BY <1>2, <1>3 DEF Updates, IndexAdded
<1>5. Updates(draft) => IndexAdded(draft) \in 0..Len(rows)
  <2>1. DOMAIN rows = 1..Len(rows) /\ Len(rows) \in Nat
    BY DEF IInv, RowsOK, TableOK
  <2>2. Updates(draft) => IndexAdded(draft) \in RowsWith(draft.id)
    BY DEF Updates, IndexAdded
  <2> QED BY <2>1, <2>2 DEF RowsWith
<1>6. asset.index \in 0..Len(rows)
  <2>1. Len(rows) \in Nat
    BY DEF IInv, RowsOK, TableOK
  <2> QED BY <1>3, <1>5, <2>1
<1>7. RowHeeded(asset)
  BY <1>3, <1>4 DEF RowHeeded, RulesOf, Prevailing
<1>8. asset.kind \in Kinds /\ asset.count \in Nat
  BY <1>3, ScaledTyped, LedgerAssumption
<1> QED BY <1>2, <1>3, <1>6, <1>7, <1>8 DEF asset

\* The new asset is one holding.
LEMMA SupplyTyped ==
    ASSUME NEW I, NEW asset, asset.index \in I, asset.kind \in Kinds, asset.count \in Nat
    PROVE  Holding(Supply(asset)) \in Seq(Seq(Holdings(I)))
<1> DEFINE h == [index |-> asset.index, kind |-> asset.kind, count |-> asset.count]
           s == Supply(asset)
<1>1. h \in Holdings(I)
  BY DEF Holdings
<1>2. DOMAIN s = 1..1 /\ s[1].holds = <<h>>
  BY DEF Supply
<1>3. <<h>> \in Seq(Holdings(I))
  <2> HIDE DEF h
  <2> QED BY <1>1
<1> HIDE DEF h, s
<1>4. \A k \in 1..1 : s[k].holds \in Seq(Holdings(I))
  <2>1. \A k \in 1..1 : k = 1
    OBVIOUS
  <2> QED BY <1>2, <1>3, <2>1
<1>5. Holding(s) \in Seq(Seq(Holdings(I)))
  BY <1>2, <1>4, HoldingTyped
<1> QED BY <1>5 DEF s

LEMMA IssueKeeps == IInv /\ Issue => IInv'
<1> SUFFICES ASSUME IInv, Issue PROVE IInv'
  OBVIOUS
<1>1. made < MaxTx
  BY DEF Issue
<1>2. PICK ins \in Inputs, layout \in Layouts, i \in Issuances :
        LET decoded == DecodeRules(i.opcode, i.statements, layout, watched)
            asset   == Issuing(i, ins, decoded.rules)
            invalid == i.kind = "invalid" \/ ~ValidCount(i)
        IN \/ /\ invalid \/ decoded.fault = "range"
              /\ Save("standard", Found(ins), ins, Outputs(layout), rows)
              /\ UNCHANGED kyc
           \/ ~invalid /\ decoded.fault = "insert" /\ Stop("feed") /\ UNCHANGED watched
           \/ /\ ~invalid /\ decoded.fault = "none"
              /\ tx' = [type |-> "issuance", legacy |-> FALSE, ins |-> ins, given |-> Supply(asset),
                        asset |-> asset, read |-> 0, move |-> Started(Supply(asset), Outputs(layout))]
              /\ UNCHANGED <<rows, coins, kyc, votes, watched, height, made, stuck, last>>
  BY DEF Issue
<1> DEFINE decoded == DecodeRules(i.opcode, i.statements, layout, watched)
           asset   == Issuing(i, ins, decoded.rules)
           invalid == i.kind = "invalid" \/ ~ValidCount(i)
           t == [type |-> "issuance", legacy |-> FALSE, ins |-> ins, given |-> Supply(asset),
                 asset |-> asset, read |-> 0, move |-> Started(Supply(asset), Outputs(layout))]
           Same == UNCHANGED <<rows, coins, kyc, votes, watched, height, made, stuck, last>>
<1>3. CASE Save("standard", Found(ins), ins, Outputs(layout), rows)
  <2>1. Len(rows) \in Nat
    BY DEF IInv, RowsOK, TableOK
  <2>2. Storable(Outputs(layout), Len(rows), FALSE)
    BY <2>1, StorableEmpty
  <2> QED BY <1>1, <1>3, <2>2, SaveSameKeeps
<1>4. CASE Stop("feed")
  BY <1>4, StopKeeps
<1>5. CASE ~invalid /\ tx' = t /\ Same
  <2>1. tx' = t /\ Same
    BY <1>5
  <2>2. /\ asset.index \in 0 .. Len(rows) /\ asset.kind \in Kinds /\ asset.count \in Nat
        /\ asset.id.kind = asset.kind /\ asset.id.locked = asset.locked /\ RowHeeded(asset)
    <3>1. i.kind # "invalid"
      BY <1>5
    <3> HIDE DEF decoded
    <3> QED BY <3>1, IssuingTyped
  <2> DEFINE given == Supply(asset)
             move == Started(given, Outputs(layout))
  <2> HIDE DEF asset
  <2>3. Holding(given) \in Seq(Seq(Holdings(0..Len(rows))))
    BY <2>2, SupplyTyped
  <2>4. move \in Moves(0..Len(rows))
    <3> HIDE DEF given
    <3> QED BY <2>3, StartedTyped
  <2>5. IsTx(t)
    <3>1. t = [type |-> "issuance", legacy |-> FALSE, ins |-> ins, given |-> given, asset |-> asset,
               read |-> 0, move |-> move]
      OBVIOUS
    <3> HIDE DEF given, move, t
    <3>2. /\ t.type = "issuance" /\ t.given = given /\ t.asset = asset /\ t.read = 0 /\ t.move = move
          /\ t = [type |-> t.type, legacy |-> t.legacy, ins |-> t.ins, given |-> t.given, asset |-> t.asset,
                  read |-> t.read, move |-> t.move]
      BY <3>1
    <3>3. Indexes(t) = 0..Len(rows)
      BY <3>2 DEF Indexes
    <3>4. 0 \in 0..MaxInstructions
      BY LedgerAssumption
    <3> QED BY <2>2, <2>3, <2>4, <3>2, <3>3, <3>4 DEF IsTx
  <2> HIDE DEF t
  <2> QED BY <1>1, <2>1, <2>5, DecodingKeeps
<1> QED BY <1>2, <1>3, <1>4, <1>5

LEMMA MoveKeeps == IInv /\ Move => IInv'
<1> SUFFICES ASSUME IInv, Move PROVE IInv'
  OBVIOUS
<1>1. made < MaxTx /\ UNCHANGED <<rows, coins, kyc, votes, watched, height, made, stuck, last>>
  BY DEF Move
<1>2. PICK ins \in Inputs, layout \in Layouts, type \in {"transfer", "burn"}, v \in Versions :
        tx' = [type |-> type, legacy |-> Legacy(v, ins), ins |-> ins, given |-> ins, asset |-> << >>,
               read |-> 0, move |-> Started(ins, Outputs(layout))]
  BY DEF Move
<1> DEFINE move == Started(ins, Outputs(layout))
           t == [type |-> type, legacy |-> Legacy(v, ins), ins |-> ins, given |-> ins, asset |-> << >>,
                 read |-> 0, move |-> move]
<1>3. Holding(ins) \in Seq(Seq(Holdings(1..Len(rows))))
  BY InputsTyped
<1>4. move \in Moves(1..Len(rows))
  BY <1>3, StartedTyped
<1>5. tx' = t
  BY <1>2
<1> HIDE DEF move
<1>6. IsTx(t)
  <2>1. /\ t.type = type /\ t.given = ins /\ t.read = 0 /\ t.move = move
        /\ t = [type |-> t.type, legacy |-> t.legacy, ins |-> t.ins, given |-> t.given, asset |-> t.asset,
                read |-> t.read, move |-> t.move]
    OBVIOUS
  <2> HIDE DEF t
  <2>2. t.type \in {"transfer", "burn"} /\ t.type # "issuance" /\ Indexes(t) = 1..Len(rows)
    BY <2>1 DEF Indexes
  <2>3. 0 \in 0..MaxInstructions
    BY LedgerAssumption
  <2> QED BY <1>3, <1>4, <2>1, <2>2, <2>3 DEF IsTx
<1> HIDE DEF t
<1> QED BY <1>1, <1>5, <1>6, DecodingKeeps

\* The transaction after an instruction.
WithMove(t, move) == [t EXCEPT !.read = @ + 1, !.move = move]

LEMMA WithMoveTyped ==
    ASSUME NEW t, IsTx(t), t.read < MaxInstructions, NEW move \in Moves(Indexes(t))
    PROVE  IsTx(WithMove(t, move))
<1> DEFINE q == WithMove(t, move)
<1>1. /\ t = [type |-> t.type, legacy |-> t.legacy, ins |-> t.ins, given |-> t.given, asset |-> t.asset,
              read |-> t.read, move |-> t.move]
      /\ t.read \in 0..MaxInstructions
  BY DEF IsTx
<1>2. /\ DOMAIN q = {"type", "legacy", "ins", "given", "asset", "read", "move"}
      /\ q.type = t.type /\ q.legacy = t.legacy /\ q.ins = t.ins /\ q.given = t.given /\ q.asset = t.asset
      /\ q.read = t.read + 1 /\ q.move = move /\ q = [i \in DOMAIN q |-> q[i]]
  BY <1>1 DEF WithMove
<1> HIDE DEF q
<1>3. q = [type |-> q.type, legacy |-> q.legacy, ins |-> q.ins, given |-> q.given, asset |-> q.asset,
           read |-> q.read, move |-> q.move]
  BY <1>2
<1>4. q.read \in 0..MaxInstructions
  BY <1>1, <1>2, LedgerAssumption
<1>5. Indexes(q) = Indexes(t)
  BY <1>2 DEF Indexes
<1>6. IsTx(q)
  BY <1>2, <1>3, <1>4, <1>5 DEF IsTx
<1> QED BY <1>6 DEF q

LEMMA ReadInstructionKeeps == IInv /\ ReadInstruction => IInv'
<1> SUFFICES ASSUME IInv, ReadInstruction PROVE IInv'
  OBVIOUS
<1>1. /\ tx # NoTx /\ tx.read < MaxInstructions
      /\ UNCHANGED <<rows, coins, kyc, votes, watched, height, made, stuck, last>>
  BY DEF ReadInstruction
<1>2. IsTx(tx) /\ made < MaxTx
  BY <1>1 DEF IInv, TxOK
<1>3. PICK i \in Instructions :
        tx' = [tx EXCEPT !.read = @ + 1,
                         !.move = IF tx.legacy THEN [@ EXCEPT !.stopped = TRUE]
                                               ELSE Instruct(@, i, tx.type, tx.given)]
  BY DEF ReadInstruction
<1>4. tx.move \in Moves(Indexes(tx)) /\ Holding(tx.given) \in Seq(Seq(Holdings(Indexes(tx))))
  BY <1>2 DEF IsTx
<1> DEFINE stopped == [tx.move EXCEPT !.stopped = TRUE]
           told == Instruct(tx.move, i, tx.type, tx.given)
           move == IF tx.legacy THEN stopped ELSE told
<1>5. tx' = WithMove(tx, move)
  BY <1>3 DEF WithMove
<1>6. stopped \in Moves(Indexes(tx))
  BY <1>4 DEF Moves
<1>7. told \in Moves(Indexes(tx))
  BY <1>4, InstructTyped
<1> HIDE DEF stopped, told
<1>8. move \in Moves(Indexes(tx))
  BY <1>6, <1>7
<1> HIDE DEF move
<1>9. IsTx(WithMove(tx, move))
  BY <1>1, <1>2, <1>8, WithMoveTyped
<1> DEFINE t == WithMove(tx, move)
<1>10. tx' = t /\ IsTx(t)
  BY <1>5, <1>9
<1> HIDE DEF t
<1> QED BY <1>1, <1>2, <1>10, DecodingKeeps

\* A transfer that is refused, or one that is not an issuance's to refuse.
LEMMA RefuseKeeps ==
    ASSUME IInv, made < MaxTx, NEW outs \in Seq(Outs(1..Len(rows))), outs # << >>, NEW fault, Refuse(fault, outs)
    PROVE  IInv'
<1> DEFINE stored == IF fault = "rule" THEN Stripped(outs) ELSE outs
<1>1. Save("standard", fault = "rule", tx.ins, stored, rows)
  BY DEF Refuse
<1>2. stored \in Seq(Outs(1..Len(rows)))
  BY StrippedTyped
<1>3. Len(rows) \in Nat
  BY DEF IInv, RowsOK, TableOK
<1> HIDE DEF stored
<1>4. Storable(stored, Len(rows), FALSE)
  BY <1>2, <1>3, StorableOuts
<1> QED BY <1>1, <1>4, SaveSameKeeps

LEMMA CutShortKeeps == IInv /\ CutShort => IInv'
<1> SUFFICES ASSUME IInv, CutShort PROVE IInv'
  OBVIOUS
<1>1. tx # NoTx
  BY DEF CutShort
<1>2. IsTx(tx) /\ made < MaxTx
  BY <1>1 DEF IInv, TxOK
<1>3. CASE tx.type = "issuance"
  <2>1. Stop("short")
    BY <1>3 DEF CutShort
  <2> QED BY <2>1, StopKeeps
<1>4. CASE tx.type # "issuance"
  <2>1. Refuse("range", tx.move.outs)
    BY <1>4 DEF CutShort
  <2>2. tx.move \in Moves(1..Len(rows))
    BY <1>2, <1>4 DEF IsTx, Indexes
  <2>3. tx.move.outs \in Seq(Outs(1..Len(rows))) /\ tx.move.outs # << >>
    BY <2>2 DEF Moves
  <2> QED BY <1>2, <2>1, <2>3, RefuseKeeps
<1> QED BY <1>3, <1>4

\* addAsset keeps the table, and what its rules fix.
LEMMA AssetAdded ==
    ASSUME IInv, NEW asset, RowHeeded(asset), asset.id.kind = asset.kind, asset.id.locked = asset.locked
    PROVE  /\ TableOK(AddAsset(asset), height) /\ Len(rows) <= Len(AddAsset(asset)) /\ Len(AddAsset(asset)) \in Nat
           /\ IndexAdded(asset) \in 1..Len(AddAsset(asset))
           /\ Stays(rows, AddAsset(asset))
<1>1. Len(rows) \in Nat
  BY DEF IInv, RowsOK, TableOK
<1>2. CASE Updates(asset)
  <2>1. /\ TableOK(AddAsset(asset), height) /\ Len(AddAsset(asset)) = Len(rows)
        /\ IndexAdded(asset) \in 1..Len(rows) /\ Stays(rows, AddAsset(asset))
    BY <1>2, RowUpdated
  <2> QED BY <1>1, <2>1
<1>3. CASE ~Updates(asset)
  <2>1. /\ TableOK(AddAsset(asset), height) /\ Len(AddAsset(asset)) = Len(rows) + 1
        /\ IndexAdded(asset) = Len(rows) + 1 /\ Stays(rows, AddAsset(asset))
    BY <1>3, RowAdded
  <2> QED BY <1>1, <2>1
<1> QED BY <1>2, <1>3

LEMMA FinishKeeps == IInv /\ Finish => IInv'
<1> SUFFICES ASSUME IInv, Finish PROVE IInv'
  OBVIOUS
<1> DEFINE change == GiveChange(tx.move)
           outs   == WithoutData(change.outs, NoAddress)
           burnt  == HoldsOnData(change.outs, NoAddress)
           fault  == Fault(change.outs)
           n == Len(rows)
<1>1. tx # NoTx
  BY DEF Finish
<1>2. IsTx(tx) /\ made < MaxTx /\ n \in Nat
  BY <1>1 DEF IInv, TxOK, RowsOK, TableOK
<1>3. change \in Changes(Indexes(tx))
  BY <1>2, ChangeTyped DEF IsTx
<1>4. change.outs \in Seq(Outs(Indexes(tx))) /\ change.outs # << >>
  <2> HIDE DEF change
  <2> QED BY <1>3 DEF Changes
<1>5. CASE tx.type = "issuance" /\ change.unknown
  <2>1. Unindexed(change.outs)
    BY <1>5 DEF Finish
  <2>2. Indexes(tx) = 0..n
    BY <1>5 DEF Indexes
  <2>3. CASE \E k \in DOMAIN change.outs : change.outs[k].address # NoAddress /\ change.outs[k].holds # << >>
    <3>1. Stop("index")
      BY <2>1, <2>3 DEF Unindexed
    <3> QED BY <3>1, StopKeeps
  <2>4. CASE ~\E k \in DOMAIN change.outs : change.outs[k].address # NoAddress /\ change.outs[k].holds # << >>
    <3>1. Save("standard", Found(tx.ins), tx.ins, change.outs, rows)
      BY <2>1, <2>4 DEF Unindexed
    <3> HIDE DEF change
    <3>2. Storable(change.outs, n, FALSE)
      BY <1>2, <1>4, <2>2, <2>4, StorableUnindexed
    <3> QED BY <1>2, <3>1, <3>2, SaveSameKeeps
  <2> QED BY <2>3, <2>4
<1>6. CASE tx.type = "issuance" /\ ~change.unknown
  <2> DEFINE table == AddAsset(tx.asset)
             stored == Indexed(outs, IndexAdded(tx.asset))
             lost == burnt \/ Found(tx.ins)
  <2>1. Save("issuance", lost, tx.ins, stored, table)
    BY <1>6 DEF Finish
  <2>2. outs \in Seq(Outs(Indexes(tx)))
    <3> HIDE DEF change
    <3> QED BY <1>4, WithoutDataTyped
  <2>3. tx.asset.id.kind = tx.asset.kind /\ tx.asset.id.locked = tx.asset.locked /\ RowHeeded(tx.asset)
    BY <1>2, <1>6 DEF IsTx
  <2>4. /\ TableOK(table, height) /\ n <= Len(table) /\ Len(table) \in Nat
        /\ IndexAdded(tx.asset) \in 1..Len(table)
    BY <2>3, AssetAdded
  <2> HIDE DEF table, outs
  <2>5. Storable(stored, Len(table), TRUE)
    BY <2>2, <2>4, StorableIndexed
  <2> HIDE DEF stored, lost
  <2>6. Storable(stored, Len(table), "issuance" = "issuance")
    BY <2>5 DEF Storable
  <2> QED BY <1>2, <2>1, <2>4, <2>6, SaveKeeps
<1>7. CASE tx.type # "issuance"
  <2>1. Indexes(tx) = 1..n
    BY <1>7 DEF Indexes
  <2>2. CASE fault = "none"
    <3>1. Save(tx.type, burnt, tx.ins, outs, rows)
      BY <1>7, <2>2 DEF Finish
    <3>2. outs \in Seq(Outs(1..n))
      <4> HIDE DEF change
      <4> QED BY <1>4, <2>1, WithoutDataTyped
    <3> HIDE DEF outs, burnt
    <3>3. Storable(outs, n, FALSE)
      BY <1>2, <3>2, StorableOuts
    <3> QED BY <1>2, <1>7, <3>1, <3>3, SaveSameKeeps
  <2>3. CASE fault # "none"
    <3>1. Refuse(fault, change.outs)
      BY <1>7, <2>3 DEF Finish
    <3> HIDE DEF change, fault
    <3> QED BY <1>2, <1>4, <2>1, <3>1, RefuseKeeps
  <2> QED BY <2>2, <2>3
<1> QED BY <1>5, <1>6, <1>7

LEMMA NextBlockKeeps == IInv /\ NextBlock => IInv'
<1> SUFFICES ASSUME IInv, NextBlock PROVE IInv'
  OBVIOUS
<1>1. /\ tx = NoTx /\ height < MaxHeight /\ height' = height + 1
      /\ UNCHANGED <<rows, coins, kyc, votes, watched, made, tx, stuck, last>>
  BY DEF NextBlock, Idle
<1>2. height \in 1..MaxHeight /\ height' \in 1..MaxHeight /\ height \in Nat /\ MaxHeight \in Nat
  BY <1>1, LedgerAssumption DEF IInv, CountsOK
<1>3. RowsOK'
  <2>1. \A k \in 1..Len(rows) : rows[k].updated \in Nat /\ rows[k].updated <= height
    BY DEF IInv, RowsOK, TableOK, IsRow
  <2>2. \A k \in 1..Len(rows) : rows[k].updated <= height'
    BY <1>1, <1>2, <2>1
  <2> QED BY <1>1, <2>2 DEF IInv, RowsOK, TableOK
<1>4. CoinsOK'
  BY <1>1 DEF IInv, CoinsOK, CoinsOf
<1>5. CountsOK'
  BY <1>1, <1>2 DEF IInv, CountsOK
<1>6. TxOK'
  BY <1>1 DEF TxOK
<1> QED BY <1>3, <1>4, <1>5, <1>6 DEF IInv

LEMMA IInvInit == Init => IInv
<1> SUFFICES ASSUME Init PROVE IInv
  OBVIOUS
<1>1. PICK g \in Genesis : rows = g.rows /\ coins = g.coins /\ made = g.made /\ height = g.height
  BY DEF Init
<1>2. /\ g.made \in 0 .. MaxTx /\ g.height \in 1 .. MaxHeight
      /\ g.rows \in Seq(Range(g.rows)) /\ g.coins \subseteq CoinsOf(g.made, Len(g.rows))
      /\ \A k \in DOMAIN g.rows : IsRow(g.rows[k]) /\ g.rows[k].updated <= g.height
      /\ \A j, k \in DOMAIN g.rows :
            g.rows[j].id = g.rows[k].id /\ g.rows[j].kind = "aggregable" /\ ~g.rows[j].locked => j = k
      /\ \A c \in g.coins : ~c.spent /\ (c.issued => HoldsOne(c))
  BY GenesisAssumption
<1>3. DOMAIN rows = 1..Len(rows)
  BY <1>1, <1>2
<1>4. RowsOK
  BY <1>1, <1>2, <1>3 DEF RowsOK, TableOK
<1>5. CoinsOK
  BY <1>1, <1>2 DEF CoinsOK
<1>6. CountsOK
  BY <1>1, <1>2 DEF CountsOK, Init
<1>7. TxOK
  BY DEF Init, TxOK
<1> QED BY <1>4, <1>5, <1>6, <1>7 DEF IInv

LEMMA IInvNext == IInv /\ [Next]_vars => IInv'
<1> SUFFICES ASSUME IInv, [Next]_vars PROVE IInv'
  OBVIOUS
<1>1. CASE UNCHANGED vars
  <2>1. /\ rows' = rows /\ coins' = coins /\ votes' = votes /\ height' = height /\ made' = made
        /\ tx' = tx /\ stuck' = stuck
    BY <1>1 DEF vars
  <2>2. RowsOK'
    BY <2>1 DEF IInv, RowsOK
  <2>3. CoinsOK'
    BY <2>1 DEF IInv, CoinsOK, CoinsOf
  <2>4. CountsOK'
    BY <2>1 DEF IInv, CountsOK
  <2>5. TxOK'
    BY <2>1, ZenonT(60) DEF IInv, TxOK, IsTx, Moves, Outs, Indexes, RowHeeded, Updates, IndexAdded, RowsWith
  <2> QED BY <2>2, <2>3, <2>4, <2>5 DEF IInv
<1> QED BY <1>1, PlainKeeps, IssueKeeps, MoveKeeps, ReadInstructionKeeps, FinishKeeps, CutShortKeeps,
           NextBlockKeeps DEF Next

LEMMA IInvHolds == Spec => []IInv
<1> QED BY IInvInit, IInvNext, PTL DEF Spec

-----------------------------------------------------------------------------
(* What follows                                                             *)

\* Of a row that shares its id the table finds the one the output holds, and
\* no other.
LEMMA FoundByOutput ==
    ASSUME IInv, NEW c \in coins, c.issued, NEW j \in DOMAIN c.holds
    PROVE  GetAssetIndex(rows[c.holds[j].index].id, c) = {c.holds[j].index}
<1> DEFINE k == c.holds[j].index
           R == RowsWith(rows[k].id)
<1>1. c \in CoinsOf(made, Len(rows)) /\ HoldsOne(c)
  BY DEF IInv, CoinsOK
<1>2. c.holds \in Seq(Holdings(1..Len(rows)))
  BY <1>1 DEF CoinsOf
<1>3. k \in 1..Len(rows)
  <2> DEFINE H == Holdings(1..Len(rows))
             h == c.holds
  <2>1. h \in Seq(H) /\ j \in DOMAIN h
    BY <1>2
  <2> HIDE DEF H, h
  <2>2. h[j] \in H
    BY <2>1
  <2> QED BY <2>2 DEF H, h, Holdings
<1>4. DOMAIN rows = 1..Len(rows) /\ Len(rows) \in Nat
  BY DEF IInv, RowsOK, TableOK
<1>5. k \in R /\ R \subseteq 1..Len(rows)
  BY <1>3, <1>4 DEF RowsWith
<1>6. \A x \in DOMAIN c.holds : c.holds[x].index = k
  BY <1>1 DEF HoldsOne
<1>7. GetAssetIndex(rows[k].id, c) =
        IF Cardinality(R) = 1 THEN R ELSE {x \in R : \E y \in DOMAIN c.holds : c.holds[y].index = x}
  BY DEF GetAssetIndex
<1>8. Cardinality(R) = 1 => R = {k}
  <2> HIDE DEF k, R
  <2> SUFFICES ASSUME Cardinality(R) = 1 PROVE R = {k}
    OBVIOUS
  <2>1. IsFiniteSet(R)
    <3>1. IsFiniteSet(1..Len(rows))
      BY <1>4, FS_Interval
    <3> QED BY <1>5, <3>1, FS_Subset
  <2>2. PICK x : R = {x}
    BY <2>1, FS_Singleton
  <2> QED BY <1>5, <2>2
<1> HIDE DEF k, R
<1>9. {x \in R : \E y \in DOMAIN c.holds : c.holds[y].index = x} = {k}
  BY <1>5, <1>6 DEF k
<1> QED BY <1>7, <1>8, <1>9 DEF k

LEMMA LedgerInvFollows == IInv => LedgerInv
<1> SUFFICES ASSUME IInv PROVE LedgerInv
  OBVIOUS
<1>1. /\ DOMAIN rows = 1..Len(rows) /\ Len(rows) \in Nat
      /\ \A k \in DOMAIN rows : rows[k].created <= rows[k].updated /\ rows[k].updated <= height
      /\ OneRowPerAsset
  <2>1. DOMAIN rows = 1..Len(rows) /\ Len(rows) \in Nat
    BY DEF IInv, RowsOK, TableOK
  <2>2. ASSUME NEW k \in 1..Len(rows)
        PROVE  rows[k].created <= rows[k].updated /\ rows[k].updated <= height
    <3>1. IsRow(rows[k]) /\ rows[k].updated <= height
      BY DEF IInv, RowsOK, TableOK
    <3> QED BY <3>1 DEF IsRow
  <2>3. OneRowPerAsset
    BY <2>1 DEF IInv, RowsOK, TableOK, OneRowPerAsset
  <2> QED BY <2>1, <2>2, <2>3
<1>2. ASSUME NEW c \in coins PROVE c.address \in Address /\ c.tx \in 0 .. made /\ Amounts(c.holds)
  <2>1. c \in CoinsOf(made, Len(rows))
    BY DEF IInv, CoinsOK
  <2>2. c.address \in Address /\ c.tx \in 0..made /\ c.holds \in Seq(Holdings(1..Len(rows)))
    BY <2>1 DEF CoinsOf
  <2>3. ASSUME NEW j \in DOMAIN c.holds PROVE c.holds[j].index \in 1..Len(rows) /\ c.holds[j].count \in Nat
    <3> DEFINE H == Holdings(1..Len(rows))
               h == c.holds
    <3>1. h \in Seq(H) /\ j \in DOMAIN h
      BY <2>2
    <3> HIDE DEF H, h
    <3>2. h[j] \in H
      BY <3>1
    <3> QED BY <3>2 DEF H, h, Holdings
  <2> QED BY <2>2, <2>3 DEF Amounts
<1>3. tx # NoTx => tx.type \in {"issuance", "transfer", "burn"} /\ tx.read \in 0 .. MaxInstructions
  BY DEF IInv, TxOK, IsTx
<1>4. TypeOK
  BY <1>1, <1>2, <1>3 DEF TypeOK, IInv, CountsOK
<1>5. IssuancesAreFound
  BY FoundByOutput DEF IssuancesAreFound
<1> QED BY <1>1, <1>4, <1>5 DEF LedgerInv

\* What the tables say of each other after every transaction: a holding has the
\* index of a row, an asset that grows has one row however often it is issued
\* (addAsset), and lookupAssetIndexes finds of an issuance's output the asset it
\* holds.
THEOREM LedgerInvHolds == Spec => []LedgerInv
<1> QED BY IInvHolds, LedgerInvFollows, PTL

LEMMA SameStays == Stays(rows, rows)
BY DEF Stays

\* Of the actions only the end of an issuance changes the table of assets.
LEMMA TableChange ==
    ASSUME IInv, Next
    PROVE  \/ rows' = rows
           \/ /\ tx # NoTx /\ tx.type = "issuance"
              /\ rows' = AddAsset(tx.asset)
<1>1. CASE Plain
  BY <1>1 DEF Plain, Standard, VerifyKyc, RevokeKyc, Save, Stop
<1>2. CASE Issue
  BY <1>2 DEF Issue, Save, Stop
<1>3. CASE Move
  BY <1>3 DEF Move
<1>4. CASE ReadInstruction
  BY <1>4 DEF ReadInstruction
<1>5. CASE Finish
  BY <1>5 DEF Finish, Unindexed, Refuse, Save, Stop
<1>6. CASE CutShort
  BY <1>6 DEF CutShort, Refuse, Save, Stop
<1>7. CASE NextBlock
  BY <1>7 DEF NextBlock
<1> QED BY <1>1, <1>2, <1>3, <1>4, <1>5, <1>6, <1>7 DEF Next

LEMMA FixedStep == IInv /\ [Next]_vars => Stays(rows, rows')
<1> SUFFICES ASSUME IInv, [Next]_vars PROVE Stays(rows, rows')
  OBVIOUS
<1>1. CASE rows' = rows
  BY <1>1, SameStays
<1>2. CASE tx # NoTx /\ tx.type = "issuance" /\ rows' = AddAsset(tx.asset)
  <2>1. RowHeeded(tx.asset) /\ tx.asset.id.kind = tx.asset.kind /\ tx.asset.id.locked = tx.asset.locked
    BY <1>2 DEF IInv, TxOK, IsTx
  <2>2. Stays(rows, AddAsset(tx.asset))
    BY <2>1, AssetAdded
  <2> QED BY <1>2, <2>2
<1> QED BY <1>1, <1>2, TableChange DEF vars

\* handleRulesConflict and addAsset over every order of issuances: the rules of
\* an asset that are not rewritable are the ones the row keeps, as its id and the
\* height it was created at.
THEOREM FixedRulesStayHolds == Spec => FixedRulesStay
<1> DEFINE Step ==
      \A k \in DOMAIN rows :
          /\ k \in DOMAIN rows'
          /\ rows'[k].id = rows[k].id /\ rows'[k].created = rows[k].created
          /\ ~rows[k].rules.none /\ ~rows[k].rules.rewritable => rows'[k].rules = rows[k].rules
<1>1. IInv /\ [Next]_vars => [Step]_vars
  <2>1. Stays(rows, rows') => Step
    BY DEF Stays
  <2> HIDE DEF Step
  <2> QED BY <2>1, FixedStep
<1> QED BY <1>1, IInvHolds, PTL DEF Spec, FixedRulesStay

-----------------------------------------------------------------------------
(* Sums over finite sets                                                    *)

\* Of sets of elements of a finite set, one is smallest.
LEMMA Smallest ==
    ASSUME NEW S, IsFiniteSet(S), NEW B \in SUBSET (SUBSET S), B # {}
    PROVE  \E s \in B : \A t \in B : Cardinality(s) <= Cardinality(t)
<1> DEFINE N == {Cardinality(s) : s \in B}
<1>1. N \in SUBSET Nat /\ N # {}
  BY FS_Subset, FS_CardinalityType
<1>2. PICK n \in N : \A m \in N : n <= m
  BY <1>1, Least
<1> QED BY <1>2

\* What an output holds of asset i.
Worth(c, i) == Total(c.holds, i)

\* Finitely many outputs that hold amounts of it.
Countable(S, i) == IsFiniteSet(S) /\ \A r \in S : Worth(r, i) \in Nat

Picked(s) == CHOOSE r \in s : TRUE

\* The recursion of a sum, on the sets of D.
Summing(g, D, i) == \A s \in D : g[s] = IF s = {} THEN 0 ELSE Worth(Picked(s), i) + g[s \ {Picked(s)}]

\* An output is picked from a set that has one.
LEMMA PickedInside ==
    ASSUME NEW s, s # {}
    PROVE  Picked(s) \in s
BY DEF Picked

\* What is left of a finite set without the output that is picked.
LEMMA LessPicked ==
    ASSUME NEW S, IsFiniteSet(S), NEW s \in SUBSET S, s # {}
    PROVE  /\ Picked(s) \in s /\ s \ {Picked(s)} \in SUBSET S
           /\ Cardinality(s) \in Nat /\ Cardinality(s \ {Picked(s)}) = Cardinality(s) - 1
           /\ Cardinality(s) # 0
<1>1. Picked(s) \in s
  BY PickedInside
<1>2. IsFiniteSet(s)
  BY FS_Subset
<1>3. Cardinality(s) \in Nat /\ Cardinality(s \ {Picked(s)}) = Cardinality(s) - 1
  BY <1>1, <1>2, FS_RemoveElement, FS_CardinalityType
<1>4. Cardinality(s) # 0
  BY <1>2, FS_EmptySet
<1> QED BY <1>1, <1>3, <1>4

\* The function a sum names exists.
LEMMA SummingExists ==
    ASSUME NEW i, NEW S, Countable(S, i)
    PROVE  \E g \in [SUBSET S -> Nat] : Summing(g, SUBSET S, i)
<1> DEFINE Within(n) == {s \in SUBSET S : Cardinality(s) <= n}
           Bad == {n \in Nat : ~ \E g \in [Within(n) -> Nat] : Summing(g, Within(n), i)}
<1>0. IsFiniteSet(S) /\ \A r \in S : Worth(r, i) \in Nat
  BY DEF Countable
<1>1. Bad = {}
  <2> SUFFICES ASSUME Bad # {} PROVE FALSE
    OBVIOUS
  <2>1. PICK n \in Bad : \A m \in Bad : n <= m
    <3>1. Bad \in SUBSET Nat
      OBVIOUS
    <3> HIDE DEF Bad
    <3> QED BY <3>1, Least
  <2>2. n \in Nat /\ ~ \E g \in [Within(n) -> Nat] : Summing(g, Within(n), i)
    OBVIOUS
  <2>3. CASE n = 0
    <3> DEFINE g == [s \in Within(0) |-> 0]
    <3>1. \A s \in Within(0) : s = {}
      <4>1. ASSUME NEW s \in Within(0) PROVE s = {}
        <5>1. IsFiniteSet(s) /\ Cardinality(s) \in Nat
          BY <1>0, FS_Subset, FS_CardinalityType
        <5>2. Cardinality(s) = 0
          BY <5>1
        <5> QED BY <5>1, <5>2, FS_EmptySet
      <4> QED BY <4>1
    <3>2. g \in [Within(0) -> Nat]
      OBVIOUS
    <3>3. Summing(g, Within(0), i)
      BY <3>1 DEF Summing
    <3> HIDE DEF g
    <3> QED BY <2>2, <2>3, <3>2, <3>3
  <2>4. CASE n # 0
    <3>1. n - 1 \in Nat /\ ~(n <= n - 1)
      BY <2>2, <2>4
    <3>2. PICK g \in [Within(n - 1) -> Nat] : Summing(g, Within(n - 1), i)
      BY <2>1, <3>1
    <3> DEFINE h == [s \in Within(n) |-> IF s = {} THEN 0 ELSE Worth(Picked(s), i) + g[s \ {Picked(s)}]]
    <3>3. ASSUME NEW s \in Within(n), s # {}
          PROVE  s \ {Picked(s)} \in Within(n - 1) /\ Worth(Picked(s), i) \in Nat
      <4>1. /\ Picked(s) \in s /\ s \ {Picked(s)} \in SUBSET S
            /\ Cardinality(s) \in Nat /\ Cardinality(s \ {Picked(s)}) = Cardinality(s) - 1
        BY <1>0, <3>3, LessPicked
      <4>2. Worth(Picked(s), i) \in Nat
        BY <1>0, <4>1
      <4> QED BY <2>2, <4>1, <4>2
    <3>4. ASSUME NEW s \in Within(n - 1) PROVE s \in Within(n) /\ h[s] = g[s]
      <4>1. IsFiniteSet(s) /\ Cardinality(s) \in Nat
        BY <1>0, FS_Subset, FS_CardinalityType
      <4>2. s \in Within(n)
        BY <2>2, <4>1
      <4>3. h[s] = IF s = {} THEN 0 ELSE Worth(Picked(s), i) + g[s \ {Picked(s)}]
        BY <4>2
      <4>4. g[s] = IF s = {} THEN 0 ELSE Worth(Picked(s), i) + g[s \ {Picked(s)}]
        BY <3>2 DEF Summing
      <4> QED BY <4>2, <4>3, <4>4
    <3>5. h \in [Within(n) -> Nat]
      <4> SUFFICES ASSUME NEW s \in Within(n) PROVE h[s] \in Nat
        OBVIOUS
      <4>1. CASE s = {}
        BY <4>1
      <4>2. CASE s # {}
        <5>1. s \ {Picked(s)} \in Within(n - 1) /\ Worth(Picked(s), i) \in Nat
          BY <3>3, <4>2
        <5>2. g[s \ {Picked(s)}] \in Nat
          BY <5>1, <3>2
        <5>3. h[s] = Worth(Picked(s), i) + g[s \ {Picked(s)}]
          BY <4>2
        <5> QED BY <5>1, <5>2, <5>3
      <4> QED BY <4>1, <4>2
    <3>6. ASSUME NEW s \in Within(n)
          PROVE  h[s] = IF s = {} THEN 0 ELSE Worth(Picked(s), i) + h[s \ {Picked(s)}]
      <4>1. h[s] = IF s = {} THEN 0 ELSE Worth(Picked(s), i) + g[s \ {Picked(s)}]
        OBVIOUS
      <4>2. s # {} => h[s \ {Picked(s)}] = g[s \ {Picked(s)}]
        BY <3>3, <3>4
      <4> HIDE DEF h
      <4> QED BY <4>1, <4>2
    <3> HIDE DEF h
    <3>7. Summing(h, Within(n), i)
      BY <3>6 DEF Summing
    <3> QED BY <2>2, <3>5, <3>7
  <2> QED BY <2>3, <2>4
<1>2. Cardinality(S) \in Nat /\ Within(Cardinality(S)) = SUBSET S
  <2>1. Cardinality(S) \in Nat
    BY <1>0, FS_CardinalityType
  <2>2. \A s \in SUBSET S : Cardinality(s) <= Cardinality(S)
    BY <1>0, FS_Subset
  <2> QED BY <2>1, <2>2
<1>3. \E g \in [Within(Cardinality(S)) -> Nat] : Summing(g, Within(Cardinality(S)), i)
  BY <1>1, <1>2
<1> HIDE DEF Within, Bad
<1> QED BY <1>2, <1>3

\* What the counts of a set of outputs add up to.
Amount(S, i) == MapThenSumSet(LAMBDA c : Total(c.holds, i), S)

\* A sum is the value of its function.
LEMMA SumNamed ==
    ASSUME NEW i, NEW S, Countable(S, i)
    PROVE  \E g \in [SUBSET S -> Nat] : Summing(g, SUBSET S, i) /\ Amount(S, i) = g[S]
<1> DEFINE It(f) == f = [s \in SUBSET S |-> IF s = {} THEN 0 ELSE Worth(Picked(s), i) + f[s \ {Picked(s)}]]
           it == CHOOSE f : It(f)
<1>1. Amount(S, i) = it[S]
  BY DEF Amount, Worth, MapThenSumSet, MapThenFoldSet, Picked
<1> HIDE DEF it
<1>2. PICK g \in [SUBSET S -> Nat] : Summing(g, SUBSET S, i)
  BY SummingExists
<1>3. It(g)
  BY <1>2 DEF Summing
<1> HIDE DEF It
<1>4. It(it)
  BY <1>3 DEF it
<1>5. it \in [SUBSET S -> Nat] /\ Summing(it, SUBSET S, i)
  <2>1. it = [s \in SUBSET S |-> IF s = {} THEN 0 ELSE Worth(Picked(s), i) + it[s \ {Picked(s)}]]
    BY <1>4 DEF It
  <2>2. DOMAIN it = SUBSET S
    BY <2>1
  <2>3. Summing(it, SUBSET S, i)
    BY <2>1 DEF Summing
  <2>4. \A s \in SUBSET S : it[s] = g[s]
    <3> DEFINE B == {s \in SUBSET S : it[s] # g[s]}
    <3> SUFFICES ASSUME B # {} PROVE FALSE
      OBVIOUS
    <3>1. IsFiniteSet(S)
      BY DEF Countable
    <3>2. PICK s \in B : \A t \in B : Cardinality(s) <= Cardinality(t)
      <4>1. B \in SUBSET (SUBSET S)
        OBVIOUS
      <4> HIDE DEF B
      <4> QED BY <3>1, <4>1, Smallest
    <3>3. s \in SUBSET S /\ it[s] # g[s]
      OBVIOUS
    <3>4. s # {}
      BY <1>2, <2>3, <3>3 DEF Summing
    <3>5. /\ s \ {Picked(s)} \in SUBSET S
          /\ Cardinality(s) \in Nat /\ Cardinality(s \ {Picked(s)}) = Cardinality(s) - 1
      BY <3>1, <3>3, <3>4, LessPicked
    <3>6. it[s \ {Picked(s)}] = g[s \ {Picked(s)}]
      <4>1. ~(Cardinality(s) <= Cardinality(s \ {Picked(s)}))
        BY <3>5
      <4> QED BY <3>2, <3>5, <4>1
    <3> QED BY <1>2, <2>3, <3>3, <3>4, <3>6 DEF Summing
  <2>5. it = [s \in SUBSET S |-> it[s]]
    BY <2>1
  <2>6. it \in [SUBSET S -> Nat]
    BY <2>4, <2>5
  <2> QED BY <2>3, <2>6
<1> QED BY <1>1, <1>5

\* So a sum follows its recursion, from one set of outputs to the next.
LEMMA SumSteps ==
    ASSUME NEW i, NEW S, Countable(S, i)
    PROVE  /\ Amount(S, i) \in Nat
           /\ S = {} => Amount(S, i) = 0
           /\ S # {} => Amount(S, i) = Worth(Picked(S), i) + Amount(S \ {Picked(S)}, i)
<1>1. PICK g \in [SUBSET S -> Nat] : Summing(g, SUBSET S, i) /\ Amount(S, i) = g[S]
  BY SumNamed
<1>2. Amount(S, i) \in Nat /\ (S = {} => Amount(S, i) = 0)
  BY <1>1 DEF Summing
<1>3. ASSUME S # {} PROVE Amount(S, i) = Worth(Picked(S), i) + Amount(S \ {Picked(S)}, i)
  <2> DEFINE T == S \ {Picked(S)}
  <2>1. Countable(T, i) /\ IsFiniteSet(T) /\ T \in SUBSET S
    BY FS_Subset DEF Countable
  <2>2. PICK f \in [SUBSET T -> Nat] : Summing(f, SUBSET T, i) /\ Amount(T, i) = f[T]
    <3> HIDE DEF T
    <3> QED BY <2>1, SumNamed
  <2>3. \A s \in SUBSET T : f[s] = g[s]
    <3> DEFINE B == {s \in SUBSET T : f[s] # g[s]}
    <3> SUFFICES ASSUME B # {} PROVE FALSE
      OBVIOUS
    <3> HIDE DEF T
    <3>2. PICK s \in B : \A t \in B : Cardinality(s) <= Cardinality(t)
      <4>1. B \in SUBSET (SUBSET T)
        OBVIOUS
      <4> HIDE DEF B
      <4> QED BY <2>1, <4>1, Smallest
    <3>3. s \in SUBSET T /\ s \in SUBSET S /\ f[s] # g[s]
      BY <2>1
    <3>4. s # {}
      BY <1>1, <2>2, <3>3 DEF Summing
    <3>5. /\ s \ {Picked(s)} \in SUBSET T
          /\ Cardinality(s) \in Nat /\ Cardinality(s \ {Picked(s)}) = Cardinality(s) - 1
      BY <2>1, <3>3, <3>4, LessPicked
    <3>6. f[s \ {Picked(s)}] = g[s \ {Picked(s)}]
      <4>1. ~(Cardinality(s) <= Cardinality(s \ {Picked(s)}))
        BY <3>5
      <4> QED BY <3>2, <3>5, <4>1
    <3> QED BY <1>1, <2>2, <3>3, <3>4, <3>6 DEF Summing
  <2>4. Amount(T, i) = g[T]
    BY <2>2, <2>3
  <2>5. g[S] = Worth(Picked(S), i) + g[T]
    BY <1>1, <1>3 DEF Summing
  <2> QED BY <1>1, <2>4, <2>5
<1> QED BY <1>2, <1>3

\* One output more.
LEMMA SumAdd ==
    ASSUME NEW i, NEW S, NEW y, Countable(S, i), y \notin S, Worth(y, i) \in Nat
    PROVE  Amount(S \cup {y}, i) = Worth(y, i) + Amount(S, i)
<1> DEFINE U == S \cup {y}
           B == {T \in SUBSET U : \E z \in U \ T : Amount(T \cup {z}, i) # Worth(z, i) + Amount(T, i)}
<1>1. Countable(U, i) /\ IsFiniteSet(U)
  BY FS_AddElement DEF Countable
<1>2. \A T \in SUBSET U : Countable(T, i) /\ IsFiniteSet(T)
  BY <1>1, FS_Subset DEF Countable
<1>3. B = {}
  <2> SUFFICES ASSUME B # {} PROVE FALSE
    OBVIOUS
  <2> HIDE DEF U
  <2>1. PICK T \in B : \A R \in B : Cardinality(T) <= Cardinality(R)
    <3>1. B \in SUBSET (SUBSET U)
      OBVIOUS
    <3> HIDE DEF B
    <3> QED BY <1>1, <3>1, Smallest
  <2>2. PICK z \in U \ T : Amount(T \cup {z}, i) # Worth(z, i) + Amount(T, i)
    OBVIOUS
  <2>3. T \in SUBSET U /\ T \cup {z} \in SUBSET U /\ T \cup {z} # {}
    OBVIOUS
  <2> DEFINE p == Picked(T \cup {z})
             R == T \ {p}
  <2>4. p \in T \cup {z} /\ Amount(T \cup {z}, i) = Worth(p, i) + Amount((T \cup {z}) \ {p}, i)
    <3>1. Countable(T \cup {z}, i)
      BY <1>2, <2>3
    <3> QED BY <2>3, <3>1, SumSteps, PickedInside
  <2> HIDE DEF p
  <2>5. p \in T
    <3>1. p = z => (T \cup {z}) \ {p} = T
      OBVIOUS
    <3> QED BY <2>2, <2>4, <3>1
  <2>6. R \in SUBSET U /\ R \notin B
    <3>1. Cardinality(R) = Cardinality(T) - 1 /\ Cardinality(T) \in Nat
      BY <1>2, <2>3, <2>5, FS_RemoveElement, FS_CardinalityType
    <3>2. ~(Cardinality(T) <= Cardinality(R))
      BY <3>1
    <3> HIDE DEF B
    <3> QED BY <2>1, <2>3, <3>2
  <2>7. p \in U \ R /\ z \in U \ R /\ R \cup {p} = T /\ R \cup {z} = (T \cup {z}) \ {p}
    BY <2>2, <2>3, <2>5
  <2>8. Amount(T, i) = Worth(p, i) + Amount(R, i) /\ Amount((T \cup {z}) \ {p}, i) = Worth(z, i) + Amount(R, i)
    <3>1. \A q \in U \ R : Amount(R \cup {q}, i) = Worth(q, i) + Amount(R, i)
      BY <2>6
    <3> HIDE DEF R, B
    <3> QED BY <2>7, <3>1
  <2>9. Worth(p, i) \in Nat /\ Worth(z, i) \in Nat /\ Amount(R, i) \in Nat
    <3>1. Countable(R, i)
      BY <1>2, <2>6
    <3>2. Amount(R, i) \in Nat
      BY <3>1, SumSteps
    <3> QED BY <1>1, <2>7, <3>2 DEF Countable
  <2> HIDE DEF R, B
  <2> QED BY <2>2, <2>4, <2>8, <2>9
<1>4. S \in SUBSET U /\ y \in U \ S
  OBVIOUS
<1> QED BY <1>3, <1>4

\* The outputs of two sets that share none.
LEMMA SumUnion ==
    ASSUME NEW i, NEW S, NEW T, Countable(S, i), Countable(T, i), S \cap T = {}
    PROVE  /\ Countable(S \cup T, i)
           /\ Amount(S \cup T, i) = Amount(S, i) + Amount(T, i)
<1> DEFINE B == {R \in SUBSET T : Amount(S \cup R, i) # Amount(S, i) + Amount(R, i)}
<1>1. IsFiniteSet(T) /\ IsFiniteSet(S)
  BY DEF Countable
<1>2. \A R \in SUBSET T : Countable(R, i) /\ IsFiniteSet(R) /\ Countable(S \cup R, i)
  BY <1>1, FS_Subset, FS_Union DEF Countable
<1>3. B = {}
  <2> SUFFICES ASSUME B # {} PROVE FALSE
    OBVIOUS
  <2>1. PICK R \in B : \A Q \in B : Cardinality(R) <= Cardinality(Q)
    <3>1. B \in SUBSET (SUBSET T)
      OBVIOUS
    <3> HIDE DEF B
    <3> QED BY <1>1, <3>1, Smallest
  <2>2. R \in SUBSET T /\ Amount(S \cup R, i) # Amount(S, i) + Amount(R, i)
    OBVIOUS
  <2>3. Amount(S, i) \in Nat /\ Amount(R, i) \in Nat
    BY <1>2, <2>2, SumSteps
  <2>4. R # {}
    <3>1. ASSUME R = {} PROVE FALSE
      <4>1. Amount(R, i) = 0 /\ S \cup R = S
        BY <1>2, <2>2, <3>1, SumSteps
      <4>2. Amount(S \cup R, i) # Amount(S, i) + Amount(R, i)
        BY <2>2
      <4> HIDE DEF B
      <4>3. Amount(S \cup R, i) = Amount(S, i)
        BY <4>1
      <4> QED BY <2>3, <4>1, <4>2, <4>3
    <3> QED BY <3>1
  <2>5. PICK z \in R : TRUE
    BY <2>4
  <2> DEFINE Q == R \ {z}
  <2>6. Q \in SUBSET T /\ Q \notin B
    <3>1. Cardinality(Q) = Cardinality(R) - 1 /\ Cardinality(R) \in Nat
      BY <1>2, <2>2, <2>5, FS_RemoveElement, FS_CardinalityType
    <3>2. ~(Cardinality(R) <= Cardinality(Q))
      BY <3>1
    <3> HIDE DEF B
    <3> QED BY <2>1, <2>2, <3>2
  <2>7. Amount(S \cup Q, i) = Amount(S, i) + Amount(Q, i)
    BY <2>6
  <2>8. Q \cup {z} = R /\ (S \cup Q) \cup {z} = S \cup R /\ z \notin Q /\ z \notin S \cup Q
    BY <2>2, <2>5
  <2>9. Worth(z, i) \in Nat
    BY <2>2, <2>5 DEF Countable
  <2> HIDE DEF B
  <2>10. Countable(Q, i) /\ Countable(S \cup Q, i)
    BY <1>2, <2>6
  <2> HIDE DEF Q
  <2>11. Amount(Q \cup {z}, i) = Worth(z, i) + Amount(Q, i)
    BY <2>8, <2>9, <2>10, SumAdd
  <2>12. Amount((S \cup Q) \cup {z}, i) = Worth(z, i) + Amount(S \cup Q, i)
    BY <2>8, <2>9, <2>10, SumAdd
  <2>13. Amount(Q, i) \in Nat
    BY <2>10, SumSteps
  <2>14. Amount(R, i) = Worth(z, i) + Amount(Q, i) /\ Amount(S \cup R, i) = Worth(z, i) + Amount(S \cup Q, i)
    BY <2>8, <2>11, <2>12
  <2>15. Amount(S \cup R, i) = Amount(S, i) + Amount(R, i)
    BY <2>3, <2>7, <2>9, <2>13, <2>14
  <2> QED BY <2>2, <2>15
<1>4. T \in SUBSET T
  OBVIOUS
<1> QED BY <1>2, <1>3, <1>4

-----------------------------------------------------------------------------
(* Sums over sequences                                                       *)

\* f[1] + ... + f[n].
SumUp(f, n) == LET sum[k \in 0 .. n] == IF k = 0 THEN 0 ELSE sum[k - 1] + f[k] IN sum[n]

Numbers(f, n) == \A k \in 1..n : f[k] \in Int

\* A sum is the last value of the recursion that adds the elements.
LEMMA SumUpNamed ==
    ASSUME NEW n \in Nat, NEW f, Numbers(f, n), NEW r \in [0..n -> Int],
           r[0] = 0, \A m \in 1..n : r[m] = r[m - 1] + f[m],
           NEW k \in 0..n
    PROVE  SumUp(f, k) = r[k]
<1> DEFINE Step(g, j) == IF j = 0 THEN 0 ELSE g[j - 1] + f[j]
           It(g) == g = [j \in 0..k |-> Step(g, j)]
           it == CHOOSE g : It(g)
           q == [j \in 0..k |-> r[j]]
<1>1. SumUp(f, k) = it[k]
  BY DEF SumUp
<1>2. \A j \in 0..k : j \in 0..n /\ (j # 0 => j \in 1..n /\ j - 1 \in 0..k)
  OBVIOUS
<1>3. It(q)
  <2>1. ASSUME NEW j \in 0..k PROVE q[j] = Step(q, j)
    <3>1. CASE j = 0
      BY <3>1
    <3>2. CASE j # 0
      <4>1. q[j] = r[j] /\ q[j - 1] = r[j - 1] /\ r[j] = r[j - 1] + f[j]
        BY <1>2, <3>2
      <4> HIDE DEF q
      <4> QED BY <3>2, <4>1
    <3> QED BY <3>1, <3>2
  <2>2. q = [j \in 0..k |-> q[j]]
    OBVIOUS
  <2> HIDE DEF Step, q
  <2> QED BY <2>1, <2>2
<1>4. It(it)
  <2> HIDE DEF It, q
  <2> QED BY <1>3
<1>5. \A j \in 0..k : it[j] = IF j = 0 THEN 0 ELSE it[j - 1] + f[j]
  <2> HIDE DEF it
  <2> QED BY <1>4
<1> HIDE DEF it, It, q
<1> DEFINE P == {j \in 0..k : it[j] = r[j]}
<1>6. k \in Nat /\ 0 \in P
  BY <1>5
<1>7. ASSUME NEW m \in 1..k, m - 1 \in P PROVE m \in P
  <2>1. m \in 0..k /\ m # 0 /\ m \in 1..n
    BY <1>6
  <2>2. it[m] = it[m - 1] + f[m] /\ r[m] = r[m - 1] + f[m]
    BY <1>5, <2>1
  <2> QED BY <1>7, <2>1, <2>2
<1> HIDE DEF P
<1>8. \A m \in 0..k : m \in P
  BY <1>6, <1>7, Climb
<1>9. k \in P
  BY <1>6, <1>8
<1> QED BY <1>1, <1>9 DEF P

\* So it adds them one after the other.
LEMMA SumUpSteps ==
    ASSUME NEW n \in Nat, NEW f, Numbers(f, n)
    PROVE  /\ SumUp(f, 0) = 0
           /\ \A m \in 0..n : SumUp(f, m) \in Int
           /\ \A m \in 1..n : SumUp(f, m) = SumUp(f, m - 1) + f[m]
<1> DEFINE G == [p \in Int \X (1..n) |-> p[1] + f[p[2]]]
<1>1. G \in [Int \X (1..n) -> Int]
  BY DEF Numbers
<1>2. \A x \in Int, m \in 1..n : G[<<x, m>>] = x + f[m]
  OBVIOUS
<1> HIDE DEF G
<1>3. PICK r \in [0..n -> Int] : Recursion(r, n, 0, G)
  <2>1. 0 \in Int
    OBVIOUS
  <2> QED BY <1>1, <2>1, RecursionExists
<1>4. r[0] = 0
  BY <1>3 DEF Recursion
<1>5. ASSUME NEW m \in 1..n PROVE r[m] = r[m - 1] + f[m]
  <2>1. m - 1 \in 0..n
    OBVIOUS
  <2>2. r[m] = G[<<r[m - 1], m>>] /\ r[m - 1] \in Int
    BY <1>3, <2>1 DEF Recursion
  <2> QED BY <1>2, <2>2
<1>6. \A k \in 0..n : SumUp(f, k) = r[k]
  BY <1>4, <1>5, SumUpNamed
<1>7. 0 \in 0..n /\ \A m \in 1..n : m \in 0..n /\ m - 1 \in 0..n
  OBVIOUS
<1> QED BY <1>4, <1>5, <1>6, <1>7

\* What holds of the sums of f, g and h up to each place.
Adding(f, g, h, n) ==
    /\ Numbers(f, n) /\ Numbers(g, n) /\ Numbers(h, n)
    /\ \A k \in 1..n : h[k] = f[k] + g[k]

\* The sum of sums.
LEMMA SumUpAdds ==
    ASSUME NEW n \in Nat, NEW f, NEW g, NEW h, Adding(f, g, h, n)
    PROVE  SumUp(h, n) = SumUp(f, n) + SumUp(g, n)
<1> DEFINE P == {m \in 0..n : SumUp(h, m) = SumUp(f, m) + SumUp(g, m)}
<1>1. /\ SumUp(f, 0) = 0 /\ SumUp(g, 0) = 0 /\ SumUp(h, 0) = 0
      /\ \A m \in 0..n : SumUp(f, m) \in Int /\ SumUp(g, m) \in Int /\ SumUp(h, m) \in Int
      /\ \A m \in 1..n : /\ SumUp(f, m) = SumUp(f, m - 1) + f[m]
                         /\ SumUp(g, m) = SumUp(g, m - 1) + g[m]
                         /\ SumUp(h, m) = SumUp(h, m - 1) + h[m]
  BY SumUpSteps DEF Adding
<1>2. 0 \in P
  BY <1>1
<1>3. ASSUME NEW m \in 1..n, m - 1 \in P PROVE m \in P
  <2>1. f[m] \in Int /\ g[m] \in Int /\ h[m] = f[m] + g[m] /\ m \in 0..n /\ m - 1 \in 0..n
    BY DEF Adding, Numbers
  <2>2. /\ SumUp(f, m) = SumUp(f, m - 1) + f[m] /\ SumUp(g, m) = SumUp(g, m - 1) + g[m]
        /\ SumUp(h, m) = SumUp(h, m - 1) + h[m] /\ SumUp(h, m - 1) = SumUp(f, m - 1) + SumUp(g, m - 1)
        /\ SumUp(f, m - 1) \in Int /\ SumUp(g, m - 1) \in Int
    BY <1>1, <1>3, <2>1
  <2>3. SumUp(h, m) = SumUp(f, m) + SumUp(g, m)
    BY <2>1, <2>2
  <2> QED BY <2>1, <2>3
<1> HIDE DEF P
<1>4. \A m \in 0..n : m \in P
  BY <1>2, <1>3, Climb
<1>5. n \in P
  BY <1>4
<1> QED BY <1>5 DEF P

\* A sum of what is nowhere greater.
LEMMA SumUpLess ==
    ASSUME NEW n \in Nat, NEW f, NEW g, Numbers(f, n), Numbers(g, n),
           \A k \in 1..n : f[k] <= g[k]
    PROVE  SumUp(f, n) <= SumUp(g, n)
<1> DEFINE P == {m \in 0..n : SumUp(f, m) <= SumUp(g, m)}
<1>1. /\ SumUp(f, 0) = 0 /\ SumUp(g, 0) = 0
      /\ \A m \in 0..n : SumUp(f, m) \in Int /\ SumUp(g, m) \in Int
      /\ \A m \in 1..n : /\ SumUp(f, m) = SumUp(f, m - 1) + f[m]
                         /\ SumUp(g, m) = SumUp(g, m - 1) + g[m]
  BY SumUpSteps
<1>2. 0 \in P
  BY <1>1
<1>3. ASSUME NEW m \in 1..n, m - 1 \in P PROVE m \in P
  <2>1. f[m] \in Int /\ g[m] \in Int /\ f[m] <= g[m] /\ m \in 0..n /\ m - 1 \in 0..n
    BY DEF Numbers
  <2>2. /\ SumUp(f, m) = SumUp(f, m - 1) + f[m] /\ SumUp(g, m) = SumUp(g, m - 1) + g[m]
        /\ SumUp(f, m - 1) <= SumUp(g, m - 1)
        /\ SumUp(f, m - 1) \in Int /\ SumUp(g, m - 1) \in Int
    BY <1>1, <1>3, <2>1
  <2>3. SumUp(f, m) <= SumUp(g, m)
    BY <2>1, <2>2
  <2> QED BY <2>1, <2>3
<1> HIDE DEF P
<1>4. \A m \in 0..n : m \in P
  BY <1>2, <1>3, Climb
<1>5. n \in P
  BY <1>4
<1> QED BY <1>5 DEF P

\* Sums of the same numbers.
LEMMA SumUpSame ==
    ASSUME NEW n \in Nat, NEW f, NEW g, Numbers(f, n), \A k \in 1..n : g[k] = f[k]
    PROVE  SumUp(g, n) = SumUp(f, n)
<1>1. Numbers(g, n) /\ (\A k \in 1..n : g[k] <= f[k]) /\ (\A k \in 1..n : f[k] <= g[k])
  BY DEF Numbers
<1>2. SumUp(f, n) <= SumUp(g, n) /\ SumUp(g, n) <= SumUp(f, n)
  BY <1>1, SumUpLess
<1>3. SumUp(f, n) \in Int /\ SumUp(g, n) \in Int
  <2>1. n \in 0..n
    OBVIOUS
  <2> QED BY <1>1, <2>1, SumUpSteps
<1> QED BY <1>2, <1>3

\* The sum of numbers that are 0 but for one.
LEMMA SumUpOne ==
    ASSUME NEW n \in Nat, NEW f, Numbers(f, n), NEW k \in 1..n,
           \A m \in 1..n : m # k => f[m] = 0
    PROVE  SumUp(f, n) = f[k]
<1> DEFINE P == {m \in 0..n : SumUp(f, m) = IF m < k THEN 0 ELSE f[k]}
<1>1. /\ SumUp(f, 0) = 0
      /\ \A m \in 0..n : SumUp(f, m) \in Int
      /\ \A m \in 1..n : SumUp(f, m) = SumUp(f, m - 1) + f[m]
  BY SumUpSteps
<1>2. 0 \in P
  BY <1>1
<1>3. ASSUME NEW m \in 1..n, m - 1 \in P PROVE m \in P
  <2>1. f[m] \in Int /\ f[k] \in Int /\ m \in 0..n /\ m - 1 \in 0..n
    BY DEF Numbers
  <2>2. SumUp(f, m) = SumUp(f, m - 1) + f[m] /\ SumUp(f, m - 1) = IF m - 1 < k THEN 0 ELSE f[k]
    BY <1>1, <1>3
  <2>3. CASE m < k
    BY <2>1, <2>2, <2>3
  <2>4. CASE m = k
    BY <2>1, <2>2, <2>4
  <2>5. CASE m > k
    BY <2>1, <2>2, <2>5
  <2> QED BY <2>3, <2>4, <2>5
<1> HIDE DEF P
<1>4. \A m \in 0..n : m \in P
  BY <1>2, <1>3, Climb
<1>5. n \in P
  BY <1>4
<1> QED BY <1>5 DEF P

\* A sum in which one number changes.
LEMMA SumUpChange ==
    ASSUME NEW n \in Nat, NEW f, NEW g, Numbers(f, n), NEW k \in 1..n, g[k] \in Int,
           \A m \in 1..n : m # k => g[m] = f[m]
    PROVE  SumUp(g, n) = SumUp(f, n) + (g[k] - f[k])
<1> DEFINE d == [m \in 1..n |-> g[m] - f[m]]
<1>1. Adding(f, d, g, n)
  BY DEF Adding, Numbers
<1>2. d[k] = g[k] - f[k] /\ \A m \in 1..n : m # k => d[m] = 0
  BY DEF Numbers
<1> HIDE DEF d
<1>3. SumUp(g, n) = SumUp(f, n) + SumUp(d, n)
  BY <1>1, SumUpAdds
<1>4. SumUp(d, n) = d[k]
  BY <1>1, <1>2, SumUpOne DEF Adding
<1> QED BY <1>2, <1>3, <1>4

\* Numbers g after numbers f.
Joining(f, m, g, n, h) ==
    /\ Numbers(f, m) /\ Numbers(g, n)
    /\ (\A k \in 1..m : h[k] = f[k]) /\ (\A k \in 1..n : h[m + k] = g[k])

\* The sum of one sequence of numbers after the other.
LEMMA SumUpJoin ==
    ASSUME NEW m \in Nat, NEW n \in Nat, NEW f, NEW g, NEW h, Joining(f, m, g, n, h)
    PROVE  SumUp(h, m + n) = SumUp(f, m) + SumUp(g, n)
<1>0. /\ Numbers(f, m) /\ Numbers(g, n)
      /\ (\A k \in 1..m : h[k] = f[k]) /\ (\A k \in 1..n : h[m + k] = g[k])
  BY DEF Joining
<1> DEFINE P == {k \in 0..n : SumUp(h, m + k) = SumUp(f, m) + SumUp(g, k)}
<1>1. Numbers(h, m + n) /\ m + n \in Nat
  <2>1. ASSUME NEW k \in 1..(m + n) PROVE h[k] \in Int
    <3>1. CASE k \in 1..m
      BY <1>0, <3>1 DEF Numbers
    <3>2. CASE k \notin 1..m
      <4>1. k - m \in 1..n /\ m + (k - m) = k
        BY <3>2
      <4>2. h[m + (k - m)] = g[k - m] /\ g[k - m] \in Int
        BY <1>0, <4>1 DEF Numbers
      <4> QED BY <4>1, <4>2
    <3> QED BY <3>1, <3>2
  <2> QED BY <2>1 DEF Numbers
<1>2. /\ SumUp(g, 0) = 0 /\ \A k \in 0..n : SumUp(g, k) \in Int
      /\ \A k \in 1..n : SumUp(g, k) = SumUp(g, k - 1) + g[k]
  BY <1>0, SumUpSteps
<1>3. /\ \A k \in 0..(m + n) : SumUp(h, k) \in Int
      /\ \A k \in 1..(m + n) : SumUp(h, k) = SumUp(h, k - 1) + h[k]
  BY <1>1, SumUpSteps
<1>4. SumUp(f, m) \in Int /\ SumUp(h, m) = SumUp(f, m)
  <2>1. m \in 0..m
    OBVIOUS
  <2> QED BY <1>0, <2>1, SumUpSteps, SumUpSame
<1>5. 0 \in P
  <2>1. m + 0 = m
    OBVIOUS
  <2> QED BY <1>2, <1>4, <2>1
<1>6. ASSUME NEW k \in 1..n, k - 1 \in P PROVE k \in P
  <2>1. /\ m + k \in 1..(m + n) /\ (m + k) - 1 = m + (k - 1) /\ k \in 0..n /\ k - 1 \in 0..n
        /\ h[m + k] = g[k] /\ g[k] \in Int
    BY <1>0 DEF Numbers
  <2>2. SumUp(h, m + k) = SumUp(h, (m + k) - 1) + h[m + k]
    BY <1>3, <2>1
  <2>3. SumUp(h, m + (k - 1)) = SumUp(f, m) + SumUp(g, k - 1)
    BY <1>6
  <2>4. SumUp(g, k) = SumUp(g, k - 1) + g[k] /\ SumUp(g, k - 1) \in Int
    BY <1>2, <2>1
  <2>5. SumUp(h, m + k) = SumUp(f, m) + SumUp(g, k)
    BY <1>4, <2>1, <2>2, <2>3, <2>4
  <2> QED BY <2>1, <2>5
<1> HIDE DEF P
<1>7. \A k \in 0..n : k \in P
  BY <1>5, <1>6, Climb
<1>8. n \in P
  BY <1>7
<1> QED BY <1>8 DEF P

\* A sum of natural numbers, each of which is part of it.
LEMMA SumUpNat ==
    ASSUME NEW n \in Nat, NEW f, \A k \in 1..n : f[k] \in Nat
    PROVE  Numbers(f, n) /\ SumUp(f, n) \in Nat /\ \A k \in 1..n : f[k] <= SumUp(f, n)
<1>1. Numbers(f, n)
  BY DEF Numbers
<1>2. n \in 0..n
  OBVIOUS
<1>3. SumUp(f, n) \in Int
  BY <1>1, <1>2, SumUpSteps
<1>4. SumUp(f, n) >= 0
  <2> DEFINE z == [k \in 1..n |-> 0]
  <2>1. Adding(z, z, z, n) /\ \A k \in 1..n : z[k] <= f[k]
    BY DEF Adding, Numbers
  <2> HIDE DEF z
  <2>2. SumUp(z, n) = SumUp(z, n) + SumUp(z, n) /\ SumUp(z, n) <= SumUp(f, n) /\ SumUp(z, n) \in Int
    BY <1>1, <1>2, <2>1, SumUpAdds, SumUpLess, SumUpSteps DEF Adding
  <2> QED BY <1>3, <2>2
<1>5. ASSUME NEW k \in 1..n PROVE f[k] <= SumUp(f, n)
  <2> DEFINE g == [m \in 1..n |-> IF m = k THEN f[k] ELSE 0]
  <2>1. Numbers(g, n) /\ g[k] = f[k] /\ (\A m \in 1..n : m # k => g[m] = 0) /\ \A m \in 1..n : g[m] <= f[m]
    BY DEF Numbers
  <2> HIDE DEF g
  <2>2. SumUp(g, n) = g[k]
    BY <2>1, SumUpOne
  <2>3. SumUp(g, n) <= SumUp(f, n)
    BY <1>1, <2>1, SumUpLess
  <2> QED BY <2>1, <2>2, <2>3
<1> QED BY <1>1, <1>3, <1>4, <1>5

\* A fold that adds has its function,
LEMMA SumFoldExists ==
    ASSUME NEW n \in Nat, NEW f, Numbers(f, n)
    PROVE  \E g \in [SUBSET (1..n) -> Int] :
              /\ g[{}] = 0
              /\ \A s \in SUBSET (1..n) : s # {} => g[s] = g[s \ {Max(s)}] + f[Max(s)]
<1> DEFINE G == [p \in Int \X (1..n) |-> p[1] + f[p[2]]]
<1>1. G \in [Int \X (1..n) -> Int] /\ 0 \in Int
  BY DEF Numbers
<1>2. \A x \in Int, m \in 1..n : G[<<x, m>>] = x + f[m]
  OBVIOUS
<1> HIDE DEF G
<1>3. PICK g \in [SUBSET (1..n) -> Int] : Folding(g, n, 0, G)
  BY <1>1, FoldExists
<1>4. g[{}] = 0
  BY <1>3 DEF Folding
<1>5. ASSUME NEW s \in SUBSET (1..n), s # {} PROVE g[s] = g[s \ {Max(s)}] + f[Max(s)]
  <2>1. Max(s) \in 1..n
    BY <1>5, MaxInside
  <2>2. g[s] = G[<<g[s \ {Max(s)}], Max(s)>>] /\ g[s \ {Max(s)}] \in Int
    BY <1>3, <1>5 DEF Folding
  <2> QED BY <1>2, <2>1, <2>2
<1> QED BY <1>4, <1>5

\* and computes the sum.
LEMMA FoldSum ==
    ASSUME NEW n \in Nat, NEW f, Numbers(f, n), NEW g, g[{}] = 0,
           \A s \in SUBSET (1..n) : s # {} /\ g[s \ {Max(s)}] \in Int => g[s] = g[s \ {Max(s)}] + f[Max(s)]
    PROVE  g[1..n] = SumUp(f, n)
<1> DEFINE P == {m \in 0..n : g[1..m] = SumUp(f, m)}
<1>1. /\ SumUp(f, 0) = 0
      /\ \A m \in 0..n : SumUp(f, m) \in Int
      /\ \A m \in 1..n : SumUp(f, m) = SumUp(f, m - 1) + f[m]
  BY SumUpSteps
<1>2. 0 \in P
  <2>1. 1..0 = {}
    OBVIOUS
  <2> QED BY <1>1, <2>1
<1>3. ASSUME NEW m \in 1..n, m - 1 \in P PROVE m \in P
  <2>1. Max(1..m) = m /\ 1..m # {} /\ 1..m \in SUBSET (1..n) /\ (1..m) \ {m} = 1..(m - 1)
    BY UpTo
  <2>2. g[1..(m - 1)] = SumUp(f, m - 1) /\ m - 1 \in 0..n /\ m \in 0..n
    BY <1>3
  <2>3. g[1..(m - 1)] \in Int
    BY <1>1, <2>2
  <2>4. g[1..m] = g[1..(m - 1)] + f[m]
    BY <2>1, <2>3
  <2> QED BY <1>1, <2>2, <2>4
<1> HIDE DEF P
<1>4. \A m \in 0..n : m \in P
  BY <1>2, <1>3, Climb
<1>5. n \in P
  BY <1>4
<1> QED BY <1>5 DEF P

-----------------------------------------------------------------------------
(* Amounts                                                                   *)

\* What each holding counts for asset i.
Parts(holds, i) == [k \in 1..Len(holds) |-> IF holds[k].index = i THEN holds[k].count ELSE 0]

Counting(holds) == \A k \in 1..Len(holds) : holds[k].count \in Nat

LEMMA HoldingsCount ==
    ASSUME NEW I, NEW holds \in Seq(Holdings(I))
    PROVE  /\ Counting(holds) /\ Len(holds) \in Nat /\ DOMAIN holds = 1..Len(holds)
           /\ \A k \in 1..Len(holds) : holds[k].index \in I /\ holds[k] \in Holdings(I)
<1> DEFINE H == Holdings(I)
<1>1. \A h \in H : h.count \in Nat /\ h.index \in I
  BY DEF Holdings
<1>2. holds \in Seq(H)
  OBVIOUS
<1> HIDE DEF H
<1>3. Len(holds) \in Nat /\ DOMAIN holds = 1..Len(holds) /\ \A k \in 1..Len(holds) : holds[k] \in H
  BY <1>2
<1>4. Counting(holds) /\ \A k \in 1..Len(holds) : holds[k].index \in I
  BY <1>1, <1>3 DEF Counting
<1> QED BY <1>3, <1>4 DEF H

LEMMA PartsNumbers ==
    ASSUME NEW holds, Len(holds) \in Nat, Counting(holds), NEW i
    PROVE  /\ Numbers(Parts(holds, i), Len(holds))
           /\ \A k \in 1..Len(holds) : Parts(holds, i)[k] \in Nat
BY DEF Numbers, Parts, Counting

\* Total adds them.
LEMMA TotalSum ==
    ASSUME NEW holds, Len(holds) \in Nat, DOMAIN holds = 1..Len(holds), Counting(holds), NEW i
    PROVE  Total(holds, i) = SumUp(Parts(holds, i), Len(holds)) /\ Total(holds, i) \in Nat
<1> DEFINE n == Len(holds)
           f == Parts(holds, i)
           Add(x, k) == IF holds[k].index = i THEN x + holds[k].count ELSE x
           It(g) == g = [s \in SUBSET (1..n) |-> IF s = {} THEN 0 ELSE Add(g[s \ {Max(s)}], Max(s))]
           it == CHOOSE g : It(g)
<1>1. Total(holds, i) = it[1..n]
  BY DEF Total, FoldLeft, MapThenFoldSet
<1>2. \A x \in Int, k \in 1..n : Add(x, k) = x + f[k]
  BY DEF Parts, Counting
<1>3. Numbers(f, n) /\ \A k \in 1..n : f[k] \in Nat
  BY PartsNumbers
<1> HIDE DEF f, Add
<1>4. n \in Nat
  OBVIOUS
<1> HIDE DEF n
<1>5. PICK g \in [SUBSET (1..n) -> Int] :
        g[{}] = 0 /\ \A s \in SUBSET (1..n) : s # {} => g[s] = g[s \ {Max(s)}] + f[Max(s)]
  BY <1>3, <1>4, SumFoldExists
<1>6. It(g)
  <2>1. ASSUME NEW s \in SUBSET (1..n), s # {} PROVE g[s] = Add(g[s \ {Max(s)}], Max(s))
    <3>1. Max(s) \in 1..n /\ g[s \ {Max(s)}] \in Int
      BY <1>4, <2>1, MaxInside
    <3> QED BY <1>2, <1>5, <2>1, <3>1
  <2> QED BY <1>5, <2>1
<1> HIDE DEF It
<1>7. It(it)
  BY <1>6
<1> HIDE DEF it
<1>8. it[{}] = 0 /\ \A s \in SUBSET (1..n) : s # {} => it[s] = Add(it[s \ {Max(s)}], Max(s))
  BY <1>7 DEF It
<1>9. ASSUME NEW s \in SUBSET (1..n), s # {}, it[s \ {Max(s)}] \in Int
      PROVE  it[s] = it[s \ {Max(s)}] + f[Max(s)]
  <2>1. Max(s) \in 1..n
    BY <1>4, <1>9, MaxInside
  <2> QED BY <1>2, <1>8, <1>9, <2>1
<1>10. it[1..n] = SumUp(f, n)
  BY <1>3, <1>4, <1>8, <1>9, FoldSum
<1>11. SumUp(f, n) \in Nat
  BY <1>3, <1>4, SumUpNat
<1> QED BY <1>1, <1>10, <1>11 DEF f, n

\* What each output counts for asset i, if its address is one of B.
Shares(txos, B, i) == [k \in 1..Len(txos) |-> IF txos[k].address \in B THEN Total(txos[k].holds, i) ELSE 0]

\* What the outputs of the addresses B hold of it.
TotalOf(txos, B, i) == SumUp(Shares(txos, B, i), Len(txos))

\* Outputs that hold amounts, of assets of the indexes I.
Outputting(txos, I) ==
    /\ Len(txos) \in Nat /\ DOMAIN txos = 1..Len(txos)
    /\ \A k \in 1..Len(txos) : txos[k].holds \in Seq(Holdings(I))

LEMMA SharesNumbers ==
    ASSUME NEW txos, NEW I, Outputting(txos, I), NEW B, NEW i
    PROVE  /\ Numbers(Shares(txos, B, i), Len(txos))
           /\ \A k \in 1..Len(txos) : Total(txos[k].holds, i) \in Nat /\ Shares(txos, B, i)[k] \in Nat
           /\ TotalOf(txos, B, i) \in Nat
<1>1. ASSUME NEW k \in 1..Len(txos) PROVE Total(txos[k].holds, i) \in Nat /\ Shares(txos, B, i)[k] \in Nat
  <2> DEFINE h == txos[k].holds
  <2>1. h \in Seq(Holdings(I))
    BY DEF Outputting
  <2> HIDE DEF h
  <2>2. Total(h, i) \in Nat
    BY <2>1, HoldingsCount, TotalSum
  <2> QED BY <2>2 DEF h, Shares
<1>2. Len(txos) \in Nat
  BY DEF Outputting
<1> QED BY <1>1, <1>2, SumUpNat DEF TotalOf

\* TotalIn adds what every output holds,
LEMMA TotalInSum ==
    ASSUME NEW txos, NEW I, Outputting(txos, I), NEW B, \A k \in 1..Len(txos) : txos[k].address \in B, NEW i
    PROVE  TotalIn(txos, i) = TotalOf(txos, B, i)
<1> DEFINE n == Len(txos)
           f == Shares(txos, B, i)
           Add(x, k) == x + Total(txos[k].holds, i)
           It(g) == g = [s \in SUBSET (1..n) |-> IF s = {} THEN 0 ELSE Add(g[s \ {Max(s)}], Max(s))]
           it == CHOOSE g : It(g)
<1>0. n \in Nat /\ DOMAIN txos = 1..n
  BY DEF Outputting
<1>1. TotalIn(txos, i) = it[1..n]
  BY <1>0 DEF TotalIn, FoldLeft, MapThenFoldSet
<1>2. \A x \in Int, k \in 1..n : Add(x, k) = x + f[k]
  BY DEF Shares
<1>3. Numbers(f, n)
  BY SharesNumbers
<1>4. TotalOf(txos, B, i) = SumUp(f, n)
  BY DEF TotalOf
<1> HIDE DEF f, Add, n
<1>5. PICK g \in [SUBSET (1..n) -> Int] :
        g[{}] = 0 /\ \A s \in SUBSET (1..n) : s # {} => g[s] = g[s \ {Max(s)}] + f[Max(s)]
  BY <1>0, <1>3, SumFoldExists
<1>6. It(g)
  <2>1. ASSUME NEW s \in SUBSET (1..n), s # {} PROVE g[s] = Add(g[s \ {Max(s)}], Max(s))
    <3>1. Max(s) \in 1..n /\ g[s \ {Max(s)}] \in Int
      BY <1>0, <2>1, MaxInside
    <3> QED BY <1>2, <1>5, <2>1, <3>1
  <2> QED BY <1>5, <2>1
<1> HIDE DEF It
<1>7. It(it)
  BY <1>6
<1> HIDE DEF it
<1>8. it[{}] = 0 /\ \A s \in SUBSET (1..n) : s # {} => it[s] = Add(it[s \ {Max(s)}], Max(s))
  BY <1>7 DEF It
<1>9. ASSUME NEW s \in SUBSET (1..n), s # {}, it[s \ {Max(s)}] \in Int
      PROVE  it[s] = it[s \ {Max(s)}] + f[Max(s)]
  <2>1. Max(s) \in 1..n
    BY <1>0, <1>9, MaxInside
  <2> QED BY <1>2, <1>8, <1>9, <2>1
<1>10. it[1..n] = SumUp(f, n)
  BY <1>0, <1>3, <1>8, <1>9, FoldSum
<1> QED BY <1>1, <1>4, <1>10

\* and TotalAt what the outputs of one address hold.
LEMMA TotalAtSum ==
    ASSUME NEW txos, NEW I, Outputting(txos, I), NEW a, NEW i
    PROVE  TotalAt(txos, a, i) = TotalOf(txos, {a}, i)
<1> DEFINE n == Len(txos)
           f == Shares(txos, {a}, i)
           Add(x, k) == IF txos[k].address = a THEN x + Total(txos[k].holds, i) ELSE x
           It(g) == g = [s \in SUBSET (1..n) |-> IF s = {} THEN 0 ELSE Add(g[s \ {Max(s)}], Max(s))]
           it == CHOOSE g : It(g)
<1>0. n \in Nat /\ DOMAIN txos = 1..n
  BY DEF Outputting
<1>1. TotalAt(txos, a, i) = it[1..n]
  BY <1>0 DEF TotalAt, FoldLeft, MapThenFoldSet
<1>2. \A x \in Int, k \in 1..n : Add(x, k) = x + f[k]
  BY DEF Shares
<1>3. Numbers(f, n)
  BY SharesNumbers
<1>4. TotalOf(txos, {a}, i) = SumUp(f, n)
  BY DEF TotalOf
<1> HIDE DEF f, Add, n
<1>5. PICK g \in [SUBSET (1..n) -> Int] :
        g[{}] = 0 /\ \A s \in SUBSET (1..n) : s # {} => g[s] = g[s \ {Max(s)}] + f[Max(s)]
  BY <1>0, <1>3, SumFoldExists
<1>6. It(g)
  <2>1. ASSUME NEW s \in SUBSET (1..n), s # {} PROVE g[s] = Add(g[s \ {Max(s)}], Max(s))
    <3>1. Max(s) \in 1..n /\ g[s \ {Max(s)}] \in Int
      BY <1>0, <2>1, MaxInside
    <3> QED BY <1>2, <1>5, <2>1, <3>1
  <2> QED BY <1>5, <2>1
<1> HIDE DEF It
<1>7. It(it)
  BY <1>6
<1> HIDE DEF it
<1>8. it[{}] = 0 /\ \A s \in SUBSET (1..n) : s # {} => it[s] = Add(it[s \ {Max(s)}], Max(s))
  BY <1>7 DEF It
<1>9. ASSUME NEW s \in SUBSET (1..n), s # {}, it[s \ {Max(s)}] \in Int
      PROVE  it[s] = it[s \ {Max(s)}] + f[Max(s)]
  <2>1. Max(s) \in 1..n
    BY <1>0, <1>9, MaxInside
  <2> QED BY <1>2, <1>8, <1>9, <2>1
<1>10. it[1..n] = SumUp(f, n)
  BY <1>0, <1>3, <1>8, <1>9, FoldSum
<1> QED BY <1>1, <1>4, <1>10

\* No holding counts nothing.
LEMMA TotalEmpty ==
    ASSUME NEW i
    PROVE  Total(<< >>, i) = 0
<1>1. Counting(<< >>) /\ Len(<< >>) = 0 /\ Len(<< >>) \in Nat /\ DOMAIN << >> = 1..Len(<< >>)
  BY DEF Counting
<1> DEFINE e == << >>
<1>2. Counting(e) /\ Len(e) = 0 /\ Len(e) \in Nat /\ DOMAIN e = 1..Len(e)
  BY <1>1
<1> HIDE DEF e
<1>3. Total(e, i) = SumUp(Parts(e, i), Len(e)) /\ Numbers(Parts(e, i), Len(e))
  BY <1>2, TotalSum, PartsNumbers
<1>4. SumUp(Parts(e, i), 0) = 0
  BY <1>2, <1>3, SumUpSteps
<1> QED BY <1>2, <1>3, <1>4 DEF e

\* Holdings after others.
LEMMA TotalJoin ==
    ASSUME NEW I, NEW a \in Seq(Holdings(I)), NEW b \in Seq(Holdings(I)), NEW i
    PROVE  Total(a \o b, i) = Total(a, i) + Total(b, i)
<1> DEFINE H == Holdings(I)
           c == a \o b
           m == Len(a)
           n == Len(b)
<1>1. a \in Seq(H) /\ b \in Seq(H)
  OBVIOUS
<1> HIDE DEF H
<1>2. /\ c \in Seq(H) /\ Len(c) = m + n /\ m \in Nat /\ n \in Nat
      /\ (\A k \in 1..m : c[k] = a[k]) /\ (\A k \in 1..n : c[m + k] = b[k])
  BY <1>1
<1>3. a \in Seq(Holdings(I)) /\ b \in Seq(Holdings(I)) /\ c \in Seq(Holdings(I))
  BY <1>1, <1>2 DEF H
<1> HIDE DEF c, m, n
<1>4. /\ Counting(a) /\ DOMAIN a = 1..Len(a)
      /\ Counting(b) /\ DOMAIN b = 1..Len(b)
      /\ Counting(c) /\ DOMAIN c = 1..Len(c) /\ Len(c) \in Nat
  BY <1>3, HoldingsCount
<1>5. /\ Total(a, i) = SumUp(Parts(a, i), m) /\ Total(b, i) = SumUp(Parts(b, i), n)
      /\ Total(c, i) = SumUp(Parts(c, i), m + n)
      /\ Numbers(Parts(a, i), m) /\ Numbers(Parts(b, i), n)
  BY <1>2, <1>4, TotalSum, PartsNumbers DEF m, n
<1>6. (\A k \in 1..m : Parts(c, i)[k] = Parts(a, i)[k]) /\ (\A k \in 1..n : Parts(c, i)[m + k] = Parts(b, i)[k])
  <2>1. \A k \in 1..m : k \in 1..(m + n) /\ k \in 1..Len(a)
    BY <1>2 DEF m
  <2>2. \A k \in 1..n : m + k \in 1..(m + n) /\ k \in 1..Len(b)
    BY <1>2 DEF n
  <2> QED BY <1>2, <2>1, <2>2 DEF Parts
<1>7. SumUp(Parts(c, i), m + n) = SumUp(Parts(a, i), m) + SumUp(Parts(b, i), n)
  <2> DEFINE f == Parts(a, i)
             g == Parts(b, i)
             h == Parts(c, i)
  <2>1. Joining(f, m, g, n, h) /\ m \in Nat /\ n \in Nat
    BY <1>2, <1>5, <1>6 DEF Joining
  <2> HIDE DEF f, g, h
  <2>2. SumUp(h, m + n) = SumUp(f, m) + SumUp(g, n)
    BY <2>1, SumUpJoin
  <2> QED BY <2>2 DEF f, g, h
<1> QED BY <1>5, <1>7 DEF c

\* One holding.
LEMMA TotalOne ==
    ASSUME NEW I, NEW h \in Holdings(I), NEW i
    PROVE  Total(<<h>>, i) = IF h.index = i THEN h.count ELSE 0
<1> DEFINE e == <<h>>
<1>1. e \in Seq(Holdings(I)) /\ Len(e) = 1 /\ e[1] = h
  <2> DEFINE H == Holdings(I)
  <2>1. h \in H
    OBVIOUS
  <2> HIDE DEF H
  <2>2. e \in Seq(H)
    BY <2>1
  <2> QED BY <2>2 DEF H
<1> HIDE DEF e
<1>2. Counting(e) /\ DOMAIN e = 1..Len(e) /\ Len(e) \in Nat
  BY <1>1, HoldingsCount
<1>3. Total(e, i) = SumUp(Parts(e, i), 1) /\ Numbers(Parts(e, i), 1)
  BY <1>1, <1>2, TotalSum, PartsNumbers
<1>4. SumUp(Parts(e, i), 1) = Parts(e, i)[1]
  <2>1. 1 \in 1..1 /\ 1 \in Nat /\ \A m \in 1..1 : m # 1 => Parts(e, i)[m] = 0
    OBVIOUS
  <2> QED BY <1>3, <2>1, SumUpOne
<1>5. Parts(e, i)[1] = IF h.index = i THEN h.count ELSE 0
  BY <1>1 DEF Parts
<1> QED BY <1>3, <1>4, <1>5 DEF e

\* A holding more at the end, and one that changes.
LEMMA TotalAppend ==
    ASSUME NEW I, NEW holds \in Seq(Holdings(I)), NEW h \in Holdings(I), NEW i
    PROVE  Total(Append(holds, h), i) = Total(holds, i) + (IF h.index = i THEN h.count ELSE 0)
<1>1. <<h>> \in Seq(Holdings(I)) /\ Append(holds, h) = holds \o <<h>>
  <2> DEFINE H == Holdings(I)
  <2>1. h \in H /\ holds \in Seq(H)
    OBVIOUS
  <2> HIDE DEF H
  <2>2. <<h>> \in Seq(H) /\ Append(holds, h) = holds \o <<h>>
    BY <2>1
  <2> QED BY <2>2 DEF H
<1>2. Total(holds \o <<h>>, i) = Total(holds, i) + Total(<<h>>, i)
  <2> DEFINE e == <<h>>
  <2>1. e \in Seq(Holdings(I))
    BY <1>1
  <2> HIDE DEF e
  <2>2. Total(holds \o e, i) = Total(holds, i) + Total(e, i)
    BY <2>1, TotalJoin
  <2> QED BY <2>2 DEF e
<1>3. Total(<<h>>, i) = IF h.index = i THEN h.count ELSE 0
  BY TotalOne
<1> QED BY <1>1, <1>2, <1>3

LEMMA TotalTail ==
    ASSUME NEW I, NEW holds \in Seq(Holdings(I)), holds # << >>, NEW i
    PROVE  Total(holds, i) = (IF holds[1].index = i THEN holds[1].count ELSE 0) + Total(Tail(holds), i)
<1>1. holds[1] \in Holdings(I) /\ <<holds[1]>> \in Seq(Holdings(I)) /\ Tail(holds) \in Seq(Holdings(I))
      /\ holds = <<holds[1]>> \o Tail(holds)
  <2> DEFINE H == Holdings(I)
  <2>1. holds \in Seq(H)
    OBVIOUS
  <2> HIDE DEF H
  <2>2. 1 \in 1..Len(holds)
    BY <2>1
  <2>3. holds[1] \in H /\ <<holds[1]>> \in Seq(H) /\ Tail(holds) \in Seq(H)
    BY <2>1, <2>2
  <2>4. holds = <<holds[1]>> \o Tail(holds)
    BY <2>1, <2>2, <2>3
  <2> QED BY <2>3, <2>4 DEF H
<1> DEFINE e == <<holds[1]>>
           r == Tail(holds)
<1>2. e \in Seq(Holdings(I)) /\ r \in Seq(Holdings(I)) /\ holds = e \o r
  BY <1>1
<1>3. Total(e, i) = IF holds[1].index = i THEN holds[1].count ELSE 0
  BY <1>1, TotalOne
<1> HIDE DEF e, r
<1>4. Total(e \o r, i) = Total(e, i) + Total(r, i)
  BY <1>2, TotalJoin
<1> QED BY <1>2, <1>3, <1>4 DEF r

\* A holding that counts something else.
LEMMA TotalChange ==
    ASSUME NEW I, NEW holds \in Seq(Holdings(I)), NEW k \in 1..Len(holds), NEW h \in Holdings(I),
           h.index = holds[k].index, NEW i
    PROVE  Total([holds EXCEPT ![k] = h], i) =
             Total(holds, i) + (IF h.index = i THEN h.count - holds[k].count ELSE 0)
<1> DEFINE c == [holds EXCEPT ![k] = h]
           n == Len(holds)
<1>1. c \in Seq(Holdings(I)) /\ Len(c) = n /\ n \in Nat /\ \A m \in 1..n : c[m] = IF m = k THEN h ELSE holds[m]
  <2> DEFINE H == Holdings(I)
  <2>1. holds \in Seq(H) /\ h \in H
    OBVIOUS
  <2> HIDE DEF H
  <2>2. c \in Seq(H) /\ Len(c) = n /\ n \in Nat /\ \A m \in 1..n : c[m] = IF m = k THEN h ELSE holds[m]
    BY <2>1
  <2> QED BY <2>2 DEF H
<1> HIDE DEF c
<1>2. /\ Counting(holds) /\ DOMAIN holds = 1..n
      /\ Counting(c) /\ DOMAIN c = 1..Len(c) /\ Len(c) \in Nat
  BY <1>1, HoldingsCount
<1>3. /\ Total(holds, i) = SumUp(Parts(holds, i), n) /\ Total(c, i) = SumUp(Parts(c, i), n)
      /\ Numbers(Parts(holds, i), n) /\ Numbers(Parts(c, i), n)
  BY <1>1, <1>2, TotalSum, PartsNumbers
<1>4. \A m \in 1..n : m # k => Parts(c, i)[m] = Parts(holds, i)[m]
  BY <1>1 DEF Parts
<1>5. /\ Parts(c, i)[k] = IF h.index = i THEN h.count ELSE 0
      /\ Parts(holds, i)[k] = IF h.index = i THEN holds[k].count ELSE 0
  BY <1>1 DEF Parts
<1>6. holds[k].count \in Nat /\ h.count \in Nat
  BY <1>2 DEF Counting, Holdings
<1> HIDE DEF n
<1>7. SumUp(Parts(c, i), n) = SumUp(Parts(holds, i), n) + (Parts(c, i)[k] - Parts(holds, i)[k])
  <2>1. k \in 1..n /\ n \in Nat /\ Parts(c, i)[k] \in Int
    BY <1>1, <1>5, <1>6 DEF n
  <2> QED BY <1>3, <1>4, <2>1, SumUpChange
<1>8. SumUp(Parts(holds, i), n) \in Int
  <2>1. n \in 0..n
    BY <1>1
  <2> QED BY <1>1, <1>3, <2>1, SumUpSteps
<1>9. CASE h.index = i
  BY <1>3, <1>5, <1>6, <1>7, <1>8, <1>9 DEF c
<1>10. CASE h.index # i
  BY <1>3, <1>5, <1>6, <1>7, <1>8, <1>10 DEF c
<1> QED BY <1>9, <1>10

-----------------------------------------------------------------------------
(* What is left of the inputs                                                *)

\* What the sequences of q hold of asset i, and how many holdings they are.
Left(q, i) == Total(FlattenSeq(q), i)
Many(q) == Len(FlattenSeq(q))

Heaps(q, i) == [k \in 1..Len(q) |-> Total(q[k], i)]
Lengths(q) == [k \in 1..Len(q) |-> Len(q[k])]

LEMMA HeapsTyped ==
    ASSUME NEW I, NEW q \in Seq(Seq(Holdings(I)))
    PROVE  /\ Len(q) \in Nat /\ DOMAIN q = 1..Len(q)
           /\ \A k \in 1..Len(q) : q[k] \in Seq(Holdings(I)) /\ Len(q[k]) \in Nat
           /\ \A k \in 1..Len(q) : Lengths(q)[k] = Len(q[k])
           /\ \A i : \A k \in 1..Len(q) : Heaps(q, i)[k] = Total(q[k], i) /\ Total(q[k], i) \in Nat
           /\ Numbers(Lengths(q), Len(q)) /\ \A i : Numbers(Heaps(q, i), Len(q))
<1> DEFINE H == Seq(Holdings(I))
<1>1. \A h \in H : Len(h) \in Nat
  OBVIOUS
<1>2. q \in Seq(H)
  OBVIOUS
<1> HIDE DEF H
<1>3. Len(q) \in Nat /\ DOMAIN q = 1..Len(q) /\ \A k \in 1..Len(q) : q[k] \in H /\ Len(q[k]) \in Nat
  BY <1>1, <1>2
<1>4. ASSUME NEW i, NEW k \in 1..Len(q) PROVE Total(q[k], i) \in Nat
  <2> DEFINE h == q[k]
  <2>1. h \in Seq(Holdings(I))
    BY <1>3 DEF H
  <2> HIDE DEF h
  <2>2. Total(h, i) \in Nat
    BY <2>1, HoldingsCount, TotalSum
  <2> QED BY <2>2 DEF h
<1> QED BY <1>3, <1>4 DEF H, Numbers, Lengths, Heaps

\* They are sums over the sequences.
LEMMA LeftSum ==
    ASSUME NEW I, NEW q \in Seq(Seq(Holdings(I))), NEW i
    PROVE  /\ Left(q, i) = SumUp(Heaps(q, i), Len(q)) /\ Left(q, i) \in Nat
           /\ Many(q) = SumUp(Lengths(q), Len(q)) /\ Many(q) \in Nat
<1> DEFINE n == Len(q)
           f == Heaps(q, i)
           g == Lengths(q)
<1>1. PICK r \in [0..n -> Seq(Holdings(I))] :
        /\ r[0] = << >> /\ FlattenSeq(q) = r[n]
        /\ \A m \in 1..n : r[m] = r[m - 1] \o q[m]
  BY FlattenSteps
<1>2. n \in Nat /\ \A k \in 1..n : q[k] \in Seq(Holdings(I)) /\ f[k] = Total(q[k], i) /\ g[k] = Len(q[k])
  BY HeapsTyped
<1>3. Numbers(f, n) /\ Numbers(g, n)
  BY HeapsTyped
<1> HIDE DEF n, f, g
<1>4. /\ SumUp(f, 0) = 0 /\ SumUp(g, 0) = 0
      /\ \A m \in 1..n : SumUp(f, m) = SumUp(f, m - 1) + f[m] /\ SumUp(g, m) = SumUp(g, m - 1) + g[m]
  BY <1>2, <1>3, SumUpSteps
<1> DEFINE P == {m \in 0..n : Total(r[m], i) = SumUp(f, m) /\ Len(r[m]) = SumUp(g, m)}
<1>5. 0 \in P
  <2>1. Len(<< >>) = 0 /\ 0 \in 0..n
    BY <1>2
  <2> QED BY <1>1, <1>4, <2>1, TotalEmpty
<1>6. ASSUME NEW m \in 1..n, m - 1 \in P PROVE m \in P
  <2> DEFINE a == r[m - 1]
             b == q[m]
  <2>0. m \in 0..n /\ m - 1 \in 0..n
    BY <1>2
  <2>1. /\ m \in 0..n /\ m - 1 \in 0..n /\ a \in Seq(Holdings(I)) /\ b \in Seq(Holdings(I)) /\ r[m] = a \o b
        /\ f[m] = Total(b, i) /\ g[m] = Len(b) /\ Total(a, i) = SumUp(f, m - 1) /\ Len(a) = SumUp(g, m - 1)
    BY <1>1, <1>2, <1>6, <2>0
  <2> HIDE DEF a, b
  <2>2. Total(a \o b, i) = Total(a, i) + Total(b, i)
    BY <2>1, TotalJoin
  <2>3. Len(a \o b) = Len(a) + Len(b)
    <3> DEFINE H == Holdings(I)
    <3>1. a \in Seq(H) /\ b \in Seq(H)
      BY <2>1
    <3> HIDE DEF H
    <3> QED BY <3>1
  <2> QED BY <1>4, <2>1, <2>2, <2>3
<1> HIDE DEF P
<1>7. \A m \in 0..n : m \in P
  BY <1>2, <1>5, <1>6, Climb
<1>8. n \in P
  BY <1>2, <1>7
<1>9. Total(FlattenSeq(q), i) = SumUp(f, n) /\ Len(FlattenSeq(q)) = SumUp(g, n)
  BY <1>1, <1>8 DEF P
<1>10. FlattenSeq(q) \in Seq(Holdings(I))
  BY FlattenTyped
<1>11. Total(FlattenSeq(q), i) \in Nat /\ Len(FlattenSeq(q)) \in Nat
  <2> DEFINE a == FlattenSeq(q)
  <2>1. a \in Seq(Holdings(I))
    BY <1>10
  <2> HIDE DEF a
  <2>2. Total(a, i) \in Nat /\ Len(a) \in Nat
    BY <2>1, HoldingsCount, TotalSum
  <2> QED BY <2>2 DEF a
<1> QED BY <1>9, <1>11 DEF f, g, n, Left, Many

\* One of the sequences changes.
LEMMA LeftChange ==
    ASSUME NEW I, NEW q \in Seq(Seq(Holdings(I))), NEW k \in 1..Len(q), NEW s \in Seq(Holdings(I)), NEW i
    PROVE  LET p == [q EXCEPT ![k] = s] IN
           /\ Left(p, i) = Left(q, i) + (Total(s, i) - Total(q[k], i))
           /\ Many(p) = Many(q) + (Len(s) - Len(q[k]))
<1> DEFINE p == [q EXCEPT ![k] = s]
           n == Len(q)
           f == Heaps(q, i)
           g == Lengths(q)
           fp == Heaps(p, i)
           gp == Lengths(p)
<1>1. p \in Seq(Seq(Holdings(I))) /\ Len(p) = n /\ n \in Nat /\ \A m \in 1..n : p[m] = IF m = k THEN s ELSE q[m]
  <2> DEFINE H == Seq(Holdings(I))
  <2>1. q \in Seq(H) /\ s \in H
    OBVIOUS
  <2> HIDE DEF H
  <2>2. p \in Seq(H) /\ Len(p) = n /\ n \in Nat /\ \A m \in 1..n : p[m] = IF m = k THEN s ELSE q[m]
    BY <2>1
  <2> QED BY <2>2 DEF H
<1> HIDE DEF p
<1>2. /\ Left(p, i) = SumUp(fp, n) /\ Many(p) = SumUp(gp, n)
      /\ Left(q, i) = SumUp(f, n) /\ Many(q) = SumUp(g, n)
  BY <1>1, LeftSum
<1>3. /\ \A m \in 1..n : f[m] = Total(q[m], i) /\ g[m] = Len(q[m])
      /\ Numbers(f, n) /\ Numbers(g, n)
  BY HeapsTyped
<1>4. /\ \A m \in 1..n : fp[m] = Total(p[m], i) /\ gp[m] = Len(p[m])
      /\ Numbers(fp, n) /\ Numbers(gp, n)
  BY <1>1, HeapsTyped
<1> HIDE DEF f, g, fp, gp
<1>5. k \in 1..n /\ fp[k] = Total(s, i) /\ f[k] = Total(q[k], i) /\ gp[k] = Len(s) /\ g[k] = Len(q[k])
  BY <1>1, <1>3, <1>4
<1>6. \A m \in 1..n : m # k => fp[m] = f[m] /\ gp[m] = g[m]
  BY <1>1, <1>3, <1>4
<1> HIDE DEF n
<1>7. SumUp(fp, n) = SumUp(f, n) + (fp[k] - f[k]) /\ SumUp(gp, n) = SumUp(g, n) + (gp[k] - g[k])
  <2>1. fp[k] \in Int /\ gp[k] \in Int
    BY <1>4, <1>5 DEF Numbers
  <2>2. SumUp(fp, n) = SumUp(f, n) + (fp[k] - f[k])
    BY <1>1, <1>3, <1>5, <1>6, <2>1, SumUpChange, ZenonT(40)
  <2>3. SumUp(gp, n) = SumUp(g, n) + (gp[k] - g[k])
    BY <1>1, <1>3, <1>5, <1>6, <2>1, SumUpChange, ZenonT(40)
  <2> QED BY <2>2, <2>3
<1> QED BY <1>2, <1>5, <1>7 DEF p

\* Sequences after others, none, and one.
LEMMA LeftJoin ==
    ASSUME NEW I, NEW a \in Seq(Seq(Holdings(I))), NEW b \in Seq(Seq(Holdings(I))), NEW i
    PROVE  Left(a \o b, i) = Left(a, i) + Left(b, i)
<1> DEFINE H == Seq(Holdings(I))
           c == a \o b
           m == Len(a)
           n == Len(b)
           f == Heaps(a, i)
           g == Heaps(b, i)
           h == Heaps(c, i)
<1>1. a \in Seq(H) /\ b \in Seq(H)
  OBVIOUS
<1> HIDE DEF H
<1>2. /\ c \in Seq(H) /\ Len(c) = m + n /\ m \in Nat /\ n \in Nat
      /\ (\A k \in 1..m : c[k] = a[k]) /\ (\A k \in 1..n : c[m + k] = b[k])
  BY <1>1
<1>3. c \in Seq(Seq(Holdings(I)))
  BY <1>2 DEF H
<1> HIDE DEF c
<1>4. Left(a, i) = SumUp(f, m) /\ Left(b, i) = SumUp(g, n) /\ Left(c, i) = SumUp(h, m + n)
  BY <1>2, <1>3, LeftSum
<1>5. Numbers(f, m) /\ Numbers(g, n) /\ (\A k \in 1..m : f[k] = Total(a[k], i)) /\ (\A k \in 1..n : g[k] = Total(b[k], i))
  BY HeapsTyped
<1>6. \A k \in 1..(m + n) : h[k] = Total(c[k], i)
  <2>1. \A k \in 1..Len(c) : h[k] = Total(c[k], i)
    BY <1>3, HeapsTyped
  <2> HIDE DEF h, m, n
  <2> QED BY <1>2, <2>1
<1> HIDE DEF m, n, f, g, h
<1>7. Joining(f, m, g, n, h)
  <2>1. \A k \in 1..m : k \in 1..(m + n)
    BY <1>2
  <2>2. \A k \in 1..n : m + k \in 1..(m + n)
    BY <1>2
  <2> QED BY <1>2, <1>5, <1>6, <2>1, <2>2 DEF Joining
<1>8. SumUp(h, m + n) = SumUp(f, m) + SumUp(g, n)
  BY <1>2, <1>7, SumUpJoin
<1> QED BY <1>4, <1>8 DEF c

LEMMA LeftNone ==
    ASSUME NEW i
    PROVE  Left(<< >>, i) = 0
<1>1. FlattenSeq(<< >>) = << >>
  BY DEF FlattenSeq
<1> QED BY <1>1, TotalEmpty DEF Left

LEMMA LeftOne ==
    ASSUME NEW I, NEW s \in Seq(Holdings(I)), NEW i
    PROVE  Left(<<s>>, i) = Total(s, i)
<1> DEFINE e == <<s>>
<1>1. e \in Seq(Seq(Holdings(I))) /\ Len(e) = 1 /\ e[1] = s
  <2> DEFINE H == Seq(Holdings(I))
  <2>1. s \in H
    OBVIOUS
  <2> HIDE DEF H
  <2>2. e \in Seq(H) /\ Len(e) = 1
    BY <2>1
  <2> QED BY <2>2 DEF H
<1> HIDE DEF e
<1>2. Left(e, i) = SumUp(Heaps(e, i), 1) /\ Numbers(Heaps(e, i), 1) /\ Heaps(e, i)[1] = Total(s, i)
  <2>1. 1 \in 1..Len(e)
    BY <1>1
  <2> QED BY <1>1, <2>1, LeftSum, HeapsTyped
<1>3. SumUp(Heaps(e, i), 1) = Heaps(e, i)[1]
  <2>1. 1 \in 1..1 /\ 1 \in Nat /\ \A m \in 1..1 : m # 1 => Heaps(e, i)[m] = 0
    OBVIOUS
  <2> QED BY <1>2, <2>1, SumUpOne
<1> QED BY <1>2, <1>3 DEF e

\* What the inputs that hold something hold is what the inputs hold.
LEMMA LeftHolding ==
    ASSUME NEW txos, NEW I, Outputting(txos, I), NEW B, \A k \in 1..Len(txos) : txos[k].address \in B, NEW i
    PROVE  Left(Holding(txos), i) = TotalOf(txos, B, i)
<1> DEFINE n == Len(txos)
           H == Seq(Holdings(I))
           f == [k \in DOMAIN txos |-> IF txos[k].holds = << >> THEN << >> ELSE <<txos[k].holds>>]
           w == Shares(txos, B, i)
<1>1. n \in Nat /\ DOMAIN txos = 1..n /\ \A k \in 1..n : txos[k].holds \in H
  BY DEF Outputting
<1>2. \A k \in 1..n : f[k] \in Seq(H) /\ Left(f[k], i) = w[k]
  <2> SUFFICES ASSUME NEW k \in 1..n PROVE f[k] \in Seq(H) /\ Left(f[k], i) = w[k]
    OBVIOUS
  <2> DEFINE h == txos[k].holds
  <2>1. h \in H /\ f[k] = (IF h = << >> THEN << >> ELSE <<h>>) /\ w[k] = Total(h, i)
    BY <1>1 DEF Shares
  <2> HIDE DEF h, f, w, H
  <2>2. << >> \in Seq(H) /\ <<h>> \in Seq(H)
    BY <2>1
  <2>3. Left(<<h>>, i) = Total(h, i)
    BY <2>1, LeftOne DEF H
  <2>4. CASE h = << >>
    BY <2>1, <2>2, <2>4, LeftNone, TotalEmpty
  <2>5. CASE h # << >>
    BY <2>1, <2>2, <2>3, <2>5
  <2> QED BY <2>4, <2>5
<1>3. Numbers(w, n) /\ TotalOf(txos, B, i) = SumUp(w, n)
  BY SharesNumbers DEF TotalOf
<1>4. Holding(txos) = FlattenSeq(f)
  BY DEF Holding
<1>5. f \in [1..n -> Seq(H)]
  <2>1. DOMAIN f = 1..n /\ f = [k \in 1..n |-> f[k]]
    BY <1>1
  <2> HIDE DEF f, H, n
  <2> QED BY <1>2, <2>1
<1> HIDE DEF f, w, n
<1>6. f \in Seq(Seq(H)) /\ Len(f) = n
  <2> HIDE DEF H
  <2> QED BY <1>1, <1>5
<1>7. PICK r \in [0..n -> Seq(H)] :
        r[0] = << >> /\ FlattenSeq(f) = r[n] /\ \A m \in 1..n : r[m] = r[m - 1] \o f[m]
  <2> HIDE DEF H
  <2> QED BY <1>6, FlattenSteps
<1>8. /\ SumUp(w, 0) = 0
      /\ \A m \in 1..n : SumUp(w, m) = SumUp(w, m - 1) + w[m]
  BY <1>1, <1>3, SumUpSteps
<1> DEFINE P == {m \in 0..n : Left(r[m], i) = SumUp(w, m)}
<1>9. 0 \in P
  BY <1>1, <1>7, <1>8, LeftNone
<1>10. ASSUME NEW m \in 1..n, m - 1 \in P PROVE m \in P
  <2> DEFINE a == r[m - 1]
             b == f[m]
  <2>1. m \in 0..n /\ m - 1 \in 0..n
    BY <1>1
  <2>2. a \in Seq(H) /\ b \in Seq(H) /\ r[m] = a \o b /\ Left(b, i) = w[m] /\ Left(a, i) = SumUp(w, m - 1)
    BY <1>2, <1>7, <1>10, <2>1
  <2> HIDE DEF a, b
  <2>3. Left(a \o b, i) = Left(a, i) + Left(b, i)
    BY <2>2, LeftJoin
  <2> QED BY <1>8, <2>1, <2>2, <2>3
<1> HIDE DEF P
<1>11. \A m \in 0..n : m \in P
  BY <1>1, <1>9, <1>10, Climb
<1>12. n \in P
  BY <1>1, <1>11
<1> QED BY <1>3, <1>4, <1>7, <1>12 DEF P

-----------------------------------------------------------------------------
(* Instructions move what they take                                          *)

\* What is left of asset i, but for what is still to be taken of it.
Owing(p, wanted, i) == Left(p.left, i) - (IF wanted.index = i THEN p.need ELSE 0)

LEMMA OwingTyped ==
    ASSUME NEW I, NEW p \in TakeStates(I), NEW wanted, NEW i
    PROVE  /\ p.left \in Seq(Seq(Holdings(I))) /\ p.need \in Nat /\ p.bad \in BOOLEAN
           /\ Left(p.left, i) \in Nat /\ Many(p.left) \in Nat /\ Owing(p, wanted, i) \in Int
<1>1. p.left \in Seq(Seq(Holdings(I))) /\ p.need \in Nat /\ p.bad \in BOOLEAN
  BY DEF TakeStates
<1>2. Left(p.left, i) \in Nat /\ Many(p.left) \in Nat
  BY <1>1, LeftSum
<1> QED BY <1>1, <1>2 DEF Owing

\* A turn of the loop that goes on takes a holding or finishes.
LEMMA TakeOneMoves ==
    ASSUME NEW I, NEW p \in TakeStates(I), NEW wanted, NEW i, ~p.bad, p.need # 0
    PROVE  LET q == TakeOne(p, wanted) IN
           /\ Owing(q, wanted, i) = Owing(p, wanted, i)
           /\ q.bad \/ q.need = 0 \/ Many(q.left) = Many(p.left) - 1
<1> DEFINE t == TakeOne(p, wanted)
<1>0. /\ p.left \in Seq(Seq(Holdings(I))) /\ p.index \in Nat \ {0} /\ p.allowSkip \in BOOLEAN
      /\ p.need \in Nat /\ p.bad \in BOOLEAN
      /\ p = [left |-> p.left, index |-> p.index, allowSkip |-> p.allowSkip, need |-> p.need, bad |-> p.bad]
  BY DEF TakeStates
<1>1. ASSUME t = [p EXCEPT !.bad = TRUE] PROVE Owing(t, wanted, i) = Owing(p, wanted, i) /\ t.bad
  <2> HIDE DEF t
  <2>1. t.left = p.left /\ t.need = p.need /\ t.bad
    BY <1>0, <1>1
  <2> QED BY <2>1 DEF Owing
<1>2. CASE p.index > Len(p.left) \/ p.left[p.index] = << >>
  <2>1. t = [p EXCEPT !.bad = TRUE]
    BY <1>2 DEF TakeOne
  <2> QED BY <1>1, <2>1
<1>3. CASE ~(p.index > Len(p.left) \/ p.left[p.index] = << >>)
  <2> DEFINE x == p.index
             s == p.left[x]
             h == s[1]
             emptied == Len(s) = 1
  <2>1. x \in 1..Len(p.left) /\ s # << >>
    BY <1>0, <1>3
  <2>2. s \in Seq(Holdings(I))
    BY <1>0, <2>1
  <2>3. h \in Holdings(I) /\ 1 \in 1..Len(s) /\ Tail(s) \in Seq(Holdings(I)) /\ Len(Tail(s)) = Len(s) - 1
        /\ Len(s) \in Nat
    <3> HIDE DEF s
    <3> QED BY <2>1, <2>2
  <2>4. h.count \in Nat /\ h.index \in I
    BY <2>3 DEF Holdings
  <2>5. Total(s, i) \in Nat /\ Left(p.left, i) \in Nat /\ Many(p.left) \in Nat
    <3>1. Total(s, i) \in Nat
      <4> HIDE DEF s
      <4> QED BY <2>2, HoldingsCount, TotalSum
    <3> QED BY <1>0, <3>1, LeftSum
  <2>6. CASE h.index # wanted.index \/ (h.count < p.need /\ h.kind = "hybrid")
    <3>1. t = [p EXCEPT !.bad = TRUE]
      BY <1>3, <2>6 DEF TakeOne
    <3> QED BY <1>1, <3>1
  <2>7. CASE ~(h.index # wanted.index \/ (h.count < p.need /\ h.kind = "hybrid")) /\ h.count <= p.need
    <3> DEFINE l == [p.left EXCEPT ![x] = Tail(s)]
               n == p.need - h.count
               k == IF emptied THEN x + 1 ELSE x
               b == ~emptied
    <3>1. t = [p EXCEPT !.need = @ - h.count, !.left[p.index] = Tail(@),
                        !.index = IF emptied THEN @ + 1 ELSE @, !.allowSkip = ~emptied]
      BY <1>3, <2>7 DEF TakeOne
    <3>2. t = [p EXCEPT !.need = n, !.left = l, !.index = k, !.allowSkip = b]
      BY <3>1, <1>0
    <3>3. n \in Nat
      <4> HIDE DEF h
      <4> QED BY <1>0, <2>4, <2>7
    <3> HIDE DEF l, n, k, b, t
    <3>4. t.left = l /\ t.need = n
      BY <1>0, <3>2
    <3> DEFINE r == Tail(s)
    <3>5. r \in Seq(Holdings(I)) /\ Len(r) = Len(s) - 1 /\ l = [p.left EXCEPT ![x] = r]
      BY <2>3 DEF l
    <3>6. Total(s, i) = (IF h.index = i THEN h.count ELSE 0) + Total(r, i)
      <4> HIDE DEF s
      <4> QED BY <2>1, <2>2, TotalTail DEF r
    <3>7. Total(r, i) \in Nat
      <4> HIDE DEF r
      <4> QED BY <3>5, HoldingsCount, TotalSum
    <3> HIDE DEF x, r
    <3>8. Left(l, i) = Left(p.left, i) + (Total(r, i) - Total(s, i)) /\ Many(l) = Many(p.left) + (Len(r) - Len(s))
      <4>1. /\ Left([p.left EXCEPT ![x] = r], i) = Left(p.left, i) + (Total(r, i) - Total(p.left[x], i))
            /\ Many([p.left EXCEPT ![x] = r]) = Many(p.left) + (Len(r) - Len(p.left[x]))
        <5> DEFINE Q == p.left
        <5>1. Q \in Seq(Seq(Holdings(I))) /\ x \in 1..Len(Q) /\ r \in Seq(Holdings(I))
          BY <1>0, <2>1, <3>5
        <5> HIDE DEF Q, s
        <5>2. /\ Left([Q EXCEPT ![x] = r], i) = Left(Q, i) + (Total(r, i) - Total(Q[x], i))
              /\ Many([Q EXCEPT ![x] = r]) = Many(Q) + (Len(r) - Len(Q[x]))
          BY <5>1, LeftChange
        <5> QED BY <5>2 DEF Q
      <4> QED BY <3>5, <4>1
    <3> HIDE DEF s, h
    <3>9. Many(l) = Many(p.left) - 1
      BY <2>3, <2>5, <3>5, <3>8
    <3>10. Owing(t, wanted, i) = Owing(p, wanted, i)
      <4>1. h.index = wanted.index
        BY <2>7
      <4>2. CASE wanted.index = i
        <5>1. Total(s, i) = h.count + Total(r, i)
          BY <3>6, <4>1, <4>2
        <5>2. Left(l, i) = Left(p.left, i) - h.count
          BY <2>4, <2>5, <3>7, <3>8, <5>1
        <5>3. Owing(t, wanted, i) = Left(l, i) - (p.need - h.count) /\ Owing(p, wanted, i) = Left(p.left, i) - p.need
          BY <3>4, <4>2 DEF Owing, n
        <5> QED BY <1>0, <2>4, <2>5, <5>2, <5>3
      <4>3. CASE wanted.index # i
        BY <1>0, <2>4, <2>5, <3>3, <3>4, <3>6, <3>7, <3>8, <4>1, <4>3 DEF Owing, n
      <4> QED BY <4>2, <4>3
    <3> QED BY <3>4, <3>9, <3>10 DEF t
  <2>8. CASE ~(h.index # wanted.index \/ (h.count < p.need /\ h.kind = "hybrid")) /\ ~(h.count <= p.need)
    <3> DEFINE g == [h EXCEPT !.count = @ - p.need]
               r == [s EXCEPT ![1] = g]
               l == [p.left EXCEPT ![x] = r]
    <3>1. t = [p EXCEPT !.left[p.index][1].count = @ - p.need, !.need = 0, !.allowSkip = TRUE]
      BY <1>3, <2>8 DEF TakeOne
    <3>2. t = [p EXCEPT !.left = l, !.need = 0, !.allowSkip = TRUE]
      BY <3>1, <1>0
    <3>3. g \in Holdings(I) /\ g.index = h.index /\ g.count = h.count - p.need
      <4> HIDE DEF h, t
      <4>1. h.count - p.need \in Nat
        BY <1>0, <2>4, <2>8
      <4> QED BY <2>3, <4>1 DEF Holdings
    <3> HIDE DEF g
    <3>4. r \in Seq(Holdings(I))
      <4> HIDE DEF s, t
      <4> QED BY <2>2, <2>3, <3>3, ExceptSeq
    <3>5. Total(r, i) = Total(s, i) + (IF g.index = i THEN g.count - h.count ELSE 0)
      <4> DEFINE k == 1
      <4>1. k \in 1..Len(s) /\ g.index = s[k].index /\ g \in Holdings(I) /\ s \in Seq(Holdings(I))
        BY <2>2, <2>3, <3>3
      <4> HIDE DEF s, t, k
      <4>2. Total([s EXCEPT ![k] = g], i) = Total(s, i) + (IF g.index = i THEN g.count - s[k].count ELSE 0)
        BY <4>1, TotalChange
      <4> QED BY <4>2 DEF k
    <3> HIDE DEF l, t
    <3>6. t.left = l /\ t.need = 0
      BY <1>0, <3>2
    <3> HIDE DEF x, r
    <3>7. Left(l, i) = Left(p.left, i) + (Total(r, i) - Total(s, i))
      <4>1. Left([p.left EXCEPT ![x] = r], i) = Left(p.left, i) + (Total(r, i) - Total(p.left[x], i))
        <5> DEFINE Q == p.left
        <5>1. Q \in Seq(Seq(Holdings(I))) /\ x \in 1..Len(Q) /\ r \in Seq(Holdings(I))
          BY <1>0, <2>1, <3>4
        <5> HIDE DEF Q, s
        <5>2. Left([Q EXCEPT ![x] = r], i) = Left(Q, i) + (Total(r, i) - Total(Q[x], i))
          BY <5>1, LeftChange
        <5> QED BY <5>2 DEF Q
      <4> QED BY <4>1 DEF l
    <3> HIDE DEF s, h
    <3>8. Owing(t, wanted, i) = Owing(p, wanted, i)
      <4>1. h.index = wanted.index
        BY <2>8
      <4>2. CASE wanted.index = i
        BY <1>0, <2>4, <2>5, <3>3, <3>5, <3>6, <3>7, <4>1, <4>2 DEF Owing
      <4>3. CASE wanted.index # i
        BY <1>0, <2>4, <2>5, <3>3, <3>5, <3>6, <3>7, <4>1, <4>3 DEF Owing
      <4> QED BY <4>2, <4>3
    <3> QED BY <3>6, <3>8 DEF t
  <2> QED BY <2>6, <2>7, <2>8
<1> QED BY <1>2, <1>3

Taken(t, q, wanted, amount, i) ==
    ~q.bad => Left(t.left, i) = Left(q.left, i) + (IF wanted.index = i THEN amount ELSE 0)

\* An amount that can be taken is taken, and from the asset that is wanted.
LEMMA TakeMoves ==
    ASSUME NEW I, NEW t \in Moves(I), NEW wanted, NEW amount \in Nat, NEW i
    PROVE  Taken(t, Take(t, wanted, amount), wanted, amount, i)
<1> DEFINE q == Take(t, wanted, amount)
<1>1. PICK n \in Nat : \E r \in [0..n -> TakeStates(I)] : Taking(r, n, t, wanted, amount)
  BY TakeSteps
<1>2. PICK r \in [0..n -> TakeStates(I)] :
        /\ n = Many(t.left) + 1
        /\ r[0] = TakeStart(t, amount) /\ q = r[n]
        /\ \A m \in 1..n : r[m] = TakeTurn(r[m - 1], wanted)
  BY <1>1, Zenon DEF Taking, Many
<1> DEFINE a == IF wanted.index = i THEN amount ELSE 0
           P == {m \in 0..n : /\ Owing(r[m], wanted, i) = Left(t.left, i) - a
                              /\ r[m].bad \/ r[m].need = 0 \/ Many(r[m].left) + m = Many(t.left)}
<1>3. Left(t.left, i) \in Nat /\ Many(t.left) \in Nat
  <2>1. t.left \in Seq(Seq(Holdings(I)))
    BY DEF Moves
  <2> QED BY <2>1, LeftSum
<1>4. 0 \in P
  <2>1. r[0].left = t.left /\ r[0].need = amount
    BY <1>2 DEF TakeStart
  <2> QED BY <1>3, <2>1 DEF Owing
<1> HIDE DEF a
<1>5. ASSUME NEW m \in 1..n, m - 1 \in P PROVE m \in P
  <2> DEFINE x == r[m - 1]
             y == r[m]
  <2>1. /\ m \in 0..n /\ m - 1 \in 0..n /\ x \in TakeStates(I) /\ y \in TakeStates(I)
        /\ y = TakeTurn(x, wanted)
        /\ Owing(x, wanted, i) = Left(t.left, i) - a
        /\ x.bad \/ x.need = 0 \/ Many(x.left) + (m - 1) = Many(t.left)
    BY <1>2, <1>5
  <2> HIDE DEF x, y
  <2>2. x.bad \in BOOLEAN /\ Many(x.left) \in Nat /\ Many(y.left) \in Nat
    BY <2>1, OwingTyped
  <2>3. CASE x.need = 0 \/ x.bad
    BY <2>1, <2>3 DEF TakeTurn, y
  <2>4. CASE ~(x.need = 0 \/ x.bad)
    <3>1. y = TakeOne(x, wanted)
      BY <2>1, <2>4 DEF TakeTurn
    <3>2. Owing(y, wanted, i) = Owing(x, wanted, i) /\ (y.bad \/ y.need = 0 \/ Many(y.left) = Many(x.left) - 1)
      BY <2>1, <2>4, <3>1, TakeOneMoves
    <3>3. y.bad \/ y.need = 0 \/ Many(y.left) + m = Many(t.left)
      BY <2>1, <2>2, <2>4, <3>2
    <3> QED BY <2>1, <3>2, <3>3 DEF y
  <2> QED BY <2>3, <2>4
<1> HIDE DEF P
<1>6. \A m \in 0..n : m \in P
  BY <1>4, <1>5, Climb
<1>7. n \in P
  BY <1>6
<1>8. /\ q \in TakeStates(I) /\ Owing(q, wanted, i) = Left(t.left, i) - a
      /\ q.bad \/ q.need = 0 \/ Many(q.left) + n = Many(t.left)
  BY <1>2, <1>7 DEF P
<1> HIDE DEF q
<1>9. /\ Left(q.left, i) \in Nat /\ Many(q.left) \in Nat /\ q.need \in Nat
  BY <1>8, OwingTyped
<1>10. q.bad \/ q.need = 0
  <2>1. Many(q.left) + n # Many(t.left)
    BY <1>2, <1>3, <1>9
  <2> QED BY <1>8, <2>1
<1>11. ~q.bad => Left(q.left, i) = Left(t.left, i) - a
  BY <1>8, <1>9, <1>10 DEF Owing
<1>12. a \in Nat
  BY DEF a
<1>13. ~q.bad => Left(t.left, i) = Left(q.left, i) + a
  BY <1>3, <1>9, <1>11, <1>12
<1> QED BY <1>13 DEF a, q, Taken

-----------------------------------------------------------------------------
(* The outputs get what is moved                                             *)

\* Every place a holding may be at: an address, or an output that is data.
Everywhere == Address \cup {NoAddress}

LEMMA OutsTyped ==
    ASSUME NEW I, NEW outs \in Seq(Outs(I))
    PROVE  /\ Outputting(outs, I) /\ Len(outs) \in Nat
           /\ \A k \in 1..Len(outs) : /\ outs[k].address \in Everywhere /\ outs[k] \in Outs(I)
                                      /\ outs[k].holds \in Seq(Holdings(I))
<1> DEFINE S == Outs(I)
<1>0. outs \in Seq(S)
  OBVIOUS
<1>1. Len(outs) \in Nat /\ DOMAIN outs = 1..Len(outs) /\ \A k \in 1..Len(outs) : outs[k] \in S
  <2> HIDE DEF S
  <2> QED BY <1>0
<1>2. \A o \in S : o.address \in Everywhere /\ o.holds \in Seq(Holdings(I))
  BY DEF Outs, Everywhere
<1> HIDE DEF S
<1>3. \A k \in 1..Len(outs) : outs[k].address \in Everywhere /\ outs[k].holds \in Seq(Holdings(I))
  BY <1>1, <1>2
<1> QED BY <1>1, <1>3 DEF Outputting, S

\* Outputs that hold nothing.
LEMMA TotalNone ==
    ASSUME NEW outs, Len(outs) \in Nat, \A k \in 1..Len(outs) : outs[k].holds = << >>, NEW B, NEW x
    PROVE  TotalOf(outs, B, x) = 0
<1> DEFINE f == Shares(outs, B, x)
           n == Len(outs)
           P == {m \in 0..n : SumUp(f, m) = 0}
<1>1. \A k \in 1..n : f[k] = 0
  BY TotalEmpty DEF Shares
<1>2. TotalOf(outs, B, x) = SumUp(f, n)
  BY DEF TotalOf
<1> HIDE DEF f, n
<1>3. n \in Nat /\ Numbers(f, n)
  BY <1>1 DEF Numbers, n
<1>4. SumUp(f, 0) = 0 /\ \A m \in 1..n : SumUp(f, m) = SumUp(f, m - 1) + f[m]
  BY <1>3, SumUpSteps
<1>5. 0 \in P
  BY <1>3, <1>4
<1>6. \A m \in 1..n : m - 1 \in P => m \in P
  BY <1>1, <1>3, <1>4
<1> HIDE DEF P
<1>7. \A m \in 0..n : m \in P
  BY <1>3, <1>5, <1>6, Climb
<1>8. n \in P
  BY <1>3, <1>7
<1> QED BY <1>2, <1>8 DEF P

LEMMA AddMoves ==
    ASSUME NEW I, NEW out \in Outs(I), NEW h \in Holdings(I), NEW x
    PROVE  /\ AddAssetToOutput(out, h).address = out.address
           /\ Total(AddAssetToOutput(out, h).holds, x) = Total(out.holds, x) + (IF h.index = x THEN h.count ELSE 0)
<1> DEFINE same == {k \in DOMAIN out.holds : out.holds[k].index = h.index}
           c == CHOOSE y \in same : \A z \in same : y <= z
<1>1. /\ out.holds \in Seq(Holdings(I)) /\ h.count \in Nat
      /\ out = [address |-> out.address, value |-> out.value, holds |-> out.holds]
  BY DEF Outs, Holdings
<1>2. CASE h.kind = "aggregable" /\ same # {}
  <2>1. c \in same
    <3>1. same \in SUBSET Nat
      BY <1>1
    <3>2. \E y \in same : \A z \in same : y <= z
      <4> HIDE DEF same
      <4> QED BY <1>2, <3>1, Least
    <3> HIDE DEF same
    <3> QED BY <3>2
  <2>2. c \in 1..Len(out.holds) /\ out.holds[c].index = h.index
    BY <1>1, <2>1
  <2> HIDE DEF c
  <2> DEFINE g == [out.holds[c] EXCEPT !.count = @ + h.count]
             l == [out.holds EXCEPT ![c] = g]
  <2>3. out.holds[c] \in Holdings(I)
    BY <1>1, <2>2
  <2>4. g \in Holdings(I) /\ g.index = out.holds[c].index /\ g.count = out.holds[c].count + h.count
        /\ out.holds[c].count \in Nat
    <3>1. out.holds[c].count + h.count \in Nat /\ out.holds[c].count \in Nat
      BY <1>1, <2>3 DEF Holdings
    <3> QED BY <2>3, <3>1 DEF Holdings
  <2>5. Total(l, x) = Total(out.holds, x) + (IF g.index = x THEN g.count - out.holds[c].count ELSE 0)
    <3> DEFINE H == out.holds
    <3>1. H \in Seq(Holdings(I)) /\ c \in 1..Len(H) /\ g.index = H[c].index
      BY <1>1, <2>2, <2>4
    <3> HIDE DEF H, g
    <3>2. Total([H EXCEPT ![c] = g], x) = Total(H, x) + (IF g.index = x THEN g.count - H[c].count ELSE 0)
      BY <2>4, <3>1, TotalChange
    <3> QED BY <3>2 DEF H
  <2>6. AddAssetToOutput(out, h) = [out EXCEPT !.holds[c].count = @ + h.count]
    BY <1>2 DEF AddAssetToOutput, c
  <2>7. [out EXCEPT !.holds[c].count = @ + h.count] = [out EXCEPT !.holds = l]
    OBVIOUS
  <2> HIDE DEF l, g
  <2>8. AddAssetToOutput(out, h).holds = l /\ AddAssetToOutput(out, h).address = out.address
    BY <1>1, <2>6, <2>7
  <2>9. Total(l, x) = Total(out.holds, x) + (IF h.index = x THEN h.count ELSE 0)
    BY <1>1, <2>2, <2>4, <2>5
  <2> QED BY <2>8, <2>9
<1>3. CASE ~(h.kind = "aggregable" /\ same # {})
  <2>1. AddAssetToOutput(out, h) = [out EXCEPT !.holds = Append(@, h)]
    BY <1>3 DEF AddAssetToOutput
  <2>2. AddAssetToOutput(out, h).holds = Append(out.holds, h) /\ AddAssetToOutput(out, h).address = out.address
    BY <1>1, <2>1
  <2>3. Total(Append(out.holds, h), x) = Total(out.holds, x) + (IF h.index = x THEN h.count ELSE 0)
    BY <1>1, TotalAppend
  <2> QED BY <2>2, <2>3
<1> QED BY <1>2, <1>3

\* The same amount in each of the first m places.
LEMMA SumUpRange ==
    ASSUME NEW n \in Nat, NEW m \in 0..n, NEW a \in Nat, NEW f,
           \A k \in 1..n : f[k] = IF k <= m THEN a ELSE 0
    PROVE  SumUp(f, n) = m * a
<1> DEFINE P == {k \in 0..n : SumUp(f, k) = (IF k <= m THEN k ELSE m) * a}
<1>1. Numbers(f, n)
  BY DEF Numbers
<1>2. SumUp(f, 0) = 0 /\ \A k \in 1..n : SumUp(f, k) = SumUp(f, k - 1) + f[k]
  BY <1>1, SumUpSteps
<1>3. 0 \in P
  BY <1>2
<1>4. ASSUME NEW k \in 1..n, k - 1 \in P PROVE k \in P
  <2>1. k \in 0..n /\ SumUp(f, k) = SumUp(f, k - 1) + f[k]
    BY <1>2
  <2>2. CASE k <= m
    <3>1. SumUp(f, k - 1) = (k - 1) * a /\ f[k] = a
      BY <1>4, <2>2
    <3>2. (k - 1) * a + a = k * a
      OBVIOUS
    <3> QED BY <2>1, <2>2, <3>1, <3>2
  <2>3. CASE ~(k <= m)
    <3>1. SumUp(f, k - 1) = m * a /\ f[k] = 0
      <4>1. (IF k - 1 <= m THEN k - 1 ELSE m) = m
        BY <2>3
      <4> QED BY <1>4, <2>3, <4>1
    <3>2. m * a \in Int
      OBVIOUS
    <3> QED BY <2>1, <2>3, <3>1, <3>2
  <2> QED BY <2>2, <2>3
<1> HIDE DEF P
<1>5. \A k \in 0..n : k \in P
  BY <1>3, <1>4, Climb
<1>6. n \in P
  BY <1>5
<1>7. (IF n <= m THEN n ELSE m) = m
  OBVIOUS
<1> QED BY <1>6, <1>7 DEF P

\* An instruction gives its amount to one output, or to each of a range.
LEMMA GiveMoves ==
    ASSUME NEW I, NEW outs \in Seq(Outs(I)), NEW i, i.output \in Nat, i.output < Len(outs),
           NEW h \in Holdings(I), NEW x
    PROVE  TotalOf(Give(outs, i, h), Everywhere, x) = TotalOf(outs, Everywhere, x)
             + (IF h.index = x THEN (IF i.range THEN (i.output + 1) * h.count ELSE h.count) ELSE 0)
<1> DEFINE g == Give(outs, i, h)
           n == Len(outs)
           a == IF h.index = x THEN h.count ELSE 0
           e == [k \in 1..n |-> IF k - 1 \in Targets(i) THEN a ELSE 0]
           fo == Shares(outs, Everywhere, x)
           fg == Shares(g, Everywhere, x)
<1>1. n \in Nat /\ DOMAIN outs = 1..n /\ outs # << >>
  OBVIOUS
<1>2. g = [k \in 1..n |-> IF k - 1 \in Targets(i) THEN AddAssetToOutput(outs[k], h) ELSE outs[k]]
  BY <1>1 DEF Give
<1>3. g \in Seq(Outs(I))
  BY <1>1, GiveTyped
<1>4. Outputting(outs, I) /\ Outputting(g, I) /\ a \in Nat
  BY <1>3, OutsTyped DEF Holdings
<1> HIDE DEF g, n
<1>5. Len(g) = n
  BY <1>1, <1>2
<1>6. /\ Numbers(fo, n) /\ TotalOf(outs, Everywhere, x) = SumUp(fo, n)
      /\ Numbers(fg, n) /\ TotalOf(g, Everywhere, x) = SumUp(fg, n)
      /\ SumUp(fo, n) \in Nat
  BY <1>4, <1>5, SharesNumbers DEF TotalOf, n
<1>7. Numbers(e, n)
  BY <1>4 DEF Numbers
<1>8. ASSUME NEW k \in 1..n PROVE fg[k] = fo[k] + e[k]
  <2>1. outs[k].address \in Everywhere /\ outs[k] \in Outs(I) /\ Total(outs[k].holds, x) \in Nat
    BY <1>4, OutsTyped, SharesNumbers DEF n
  <2>2. fo[k] = Total(outs[k].holds, x)
    BY <2>1 DEF Shares, n
  <2>3. CASE k - 1 \in Targets(i)
    <3>1. g[k] = AddAssetToOutput(outs[k], h)
      BY <1>2, <2>3
    <3>2. g[k].address = outs[k].address /\ Total(g[k].holds, x) = Total(outs[k].holds, x) + a
      <4> DEFINE o == outs[k]
      <4>1. o \in Outs(I) /\ g[k] = AddAssetToOutput(o, h)
        BY <2>1, <3>1
      <4> HIDE DEF o
      <4>2. /\ AddAssetToOutput(o, h).address = o.address
            /\ Total(AddAssetToOutput(o, h).holds, x) = Total(o.holds, x) + a
        BY <4>1, AddMoves, ZenonT(40)
      <4> QED BY <4>1, <4>2, Zenon DEF o
    <3>3. fg[k] = Total(g[k].holds, x)
      BY <1>5, <2>1, <3>2 DEF Shares
    <3> QED BY <2>2, <2>3, <3>2, <3>3
  <2>4. CASE k - 1 \notin Targets(i)
    <3>1. g[k] = outs[k]
      BY <1>2, <2>4
    <3>2. fg[k] = Total(g[k].holds, x)
      BY <1>5, <2>1, <3>1 DEF Shares
    <3> QED BY <2>1, <2>2, <2>4, <3>1, <3>2
  <2> QED BY <2>3, <2>4
<1>9. \A k \in 1..n : e[k] = IF k - 1 \in Targets(i) THEN a ELSE 0
  OBVIOUS
<1> HIDE DEF a, e, fo, fg
<1>10. SumUp(fg, n) = SumUp(fo, n) + SumUp(e, n)
  <2>1. Adding(fo, e, fg, n)
    BY <1>6, <1>7, <1>8 DEF Adding
  <2> QED BY <1>1, <2>1, SumUpAdds
<1>11. SumUp(e, n) = IF i.range THEN (i.output + 1) * a ELSE a
  <2>1. CASE i.range
    <3> DEFINE m == i.output + 1
    <3>1. m \in 0..n
      BY <1>1 DEF n
    <3>2. \A k \in 1..n : e[k] = IF k <= m THEN a ELSE 0
      <4>1. Targets(i) = 0..i.output
        BY <2>1 DEF Targets
      <4> QED BY <1>1, <1>9, <4>1
    <3> HIDE DEF m
    <3>3. SumUp(e, n) = m * a
      BY <1>1, <1>4, <3>1, <3>2, SumUpRange, ZenonT(40)
    <3> QED BY <2>1, <3>3 DEF m
  <2>2. CASE ~i.range
    <3> DEFINE k == i.output + 1
    <3>1. Targets(i) = {i.output}
      BY <2>2 DEF Targets
    <3>2. k \in 1..n /\ e[k] = a
      BY <1>1, <1>9, <3>1 DEF n
    <3>3. \A m \in 1..n : m # k => e[m] = 0
      BY <1>1, <1>9, <3>1
    <3> HIDE DEF k
    <3>4. SumUp(e, n) = e[k]
      BY <1>1, <1>7, <3>2, <3>3, SumUpOne
    <3> QED BY <2>2, <3>2, <3>4
  <2> QED BY <2>1, <2>2
<1>12. (i.output + 1) * 0 = 0
  OBVIOUS
<1>13. TotalOf(g, Everywhere, x) = TotalOf(outs, Everywhere, x) + (IF i.range THEN (i.output + 1) * a ELSE a)
  BY <1>6, <1>10, <1>11
<1> QED BY <1>12, <1>13 DEF a, g

\* The outputs with one of them replaced.
LEMMA TotalOfChange ==
    ASSUME NEW I, NEW outs \in Seq(Outs(I)), NEW k \in 1..Len(outs), NEW o \in Outs(I), NEW x
    PROVE  LET p == [outs EXCEPT ![k] = o] IN
           /\ p \in Seq(Outs(I)) /\ Len(p) = Len(outs)
           /\ TotalOf(p, Everywhere, x)
                = TotalOf(outs, Everywhere, x) + (Total(o.holds, x) - Total(outs[k].holds, x))
<1> DEFINE p == [outs EXCEPT ![k] = o]
           n == Len(outs)
           f == Shares(outs, Everywhere, x)
           g == Shares(p, Everywhere, x)
<1>1. p \in Seq(Outs(I)) /\ Len(p) = n
  <2> DEFINE S == Outs(I)
  <2>1. outs \in Seq(S) /\ o \in S
    OBVIOUS
  <2> HIDE DEF S
  <2>2. p \in Seq(S) /\ Len(p) = n
    BY <2>1, ExceptSeq
  <2> QED BY <2>2 DEF S
<1>2. n \in Nat /\ DOMAIN outs = 1..n
  OBVIOUS
<1>3. p[k] = o /\ \A m \in 1..n : m # k => p[m] = outs[m]
  BY <1>2
<1> HIDE DEF p
<1>4. Outputting(outs, I) /\ Outputting(p, I)
  BY <1>1, OutsTyped
<1>5. \A m \in 1..n : outs[m].address \in Everywhere /\ p[m].address \in Everywhere
  BY <1>1, OutsTyped
<1>6. /\ Numbers(f, n) /\ TotalOf(outs, Everywhere, x) = SumUp(f, n)
      /\ Numbers(g, n) /\ TotalOf(p, Everywhere, x) = SumUp(g, n)
      /\ \A m \in 1..n : Total(outs[m].holds, x) \in Nat /\ Total(p[m].holds, x) \in Nat
  BY <1>1, <1>4, SharesNumbers DEF TotalOf
<1>7. \A m \in 1..n : f[m] = Total(outs[m].holds, x) /\ g[m] = Total(p[m].holds, x)
  BY <1>1, <1>5 DEF Shares
<1>k. k \in 1..n
  OBVIOUS
<1> HIDE DEF f, g, n
<1>8. g[k] \in Int /\ \A m \in 1..n : m # k => g[m] = f[m]
  <2>1. g[k] \in Int
    BY <1>6, <1>k DEF Numbers
  <2>2. ASSUME NEW m \in 1..n, m # k PROVE g[m] = f[m]
    BY <1>3, <1>7, <2>2
  <2> QED BY <2>1, <2>2
<1>9. SumUp(g, n) = SumUp(f, n) + (g[k] - f[k])
  BY <1>2, <1>6, <1>8, <1>k, SumUpChange
<1>10. g[k] = Total(o.holds, x) /\ f[k] = Total(outs[k].holds, x)
  BY <1>3, <1>7, <1>k
<1> QED BY <1>1, <1>6, <1>9, <1>10 DEF p, n

\* A holding of the change goes to the last output, unless it is not joined for
\* want of an index.
LEMMA ChangeOneMoves ==
    ASSUME NEW I, NEW acc \in Changes(I), NEW h \in Holdings(I), NEW x
    PROVE  LET c == ChangeTurn(acc, h)
               a == IF h.index = x THEN h.count ELSE 0
           IN /\ TotalOf(c.outs, Everywhere, x) <= TotalOf(acc.outs, Everywhere, x) + a
              /\ ~c.unknown => ~acc.unknown /\ TotalOf(c.outs, Everywhere, x) = TotalOf(acc.outs, Everywhere, x) + a
              /\ 0 \notin I /\ ~acc.unknown => ~c.unknown
<1> DEFINE c == ChangeTurn(acc, h)
           a == IF h.index = x THEN h.count ELSE 0
<1>1. /\ acc.outs \in Seq(Outs(I)) /\ acc.outs # << >> /\ acc.unknown \in BOOLEAN
      /\ acc = [outs |-> acc.outs, unknown |-> acc.unknown]
  BY DEF Changes
<1>2. h.count \in Nat /\ h.index \in I
  BY DEF Holdings
<1>3. a \in Nat /\ TotalOf(acc.outs, Everywhere, x) \in Nat
  <2>1. a \in Nat
    BY <1>2
  <2> DEFINE O == acc.outs
  <2>2. O \in Seq(Outs(I))
    BY <1>1
  <2> HIDE DEF O
  <2>3. TotalOf(O, Everywhere, x) \in Nat
    BY <2>2, OutsTyped, SharesNumbers
  <2> QED BY <2>1, <2>3 DEF O
<1>4. CASE acc.unknown \/ h.count = 0
  <2>1. c = acc
    BY <1>4 DEF ChangeTurn
  <2>2. h.count = 0 => a = 0
    OBVIOUS
  <2> HIDE DEF c, a
  <2>3. ~acc.unknown => TotalOf(acc.outs, Everywhere, x) = TotalOf(acc.outs, Everywhere, x) + a
    BY <1>3, <1>4, <2>2
  <2> QED BY <1>3, <2>1, <2>3 DEF c, a
<1>5. CASE ~(acc.unknown \/ h.count = 0) /\ NeedsIndex(acc.outs, h)
  <2>1. c = [acc EXCEPT !.unknown = TRUE]
    BY <1>5 DEF ChangeTurn
  <2>2. c.outs = acc.outs /\ c.unknown
    BY <1>1, <2>1
  <2>3. h.index = 0
    BY <1>5 DEF NeedsIndex
  <2> HIDE DEF c, a
  <2> QED BY <1>2, <1>3, <2>2, <2>3 DEF c, a
<1>6. CASE ~(acc.unknown \/ h.count = 0) /\ ~NeedsIndex(acc.outs, h)
  <2> DEFINE O == acc.outs
             n == Len(O)
             p == O[n]
             o == AddAssetToOutput(p, h)
             l == [O EXCEPT ![n] = o]
  <2>1. O \in Seq(Outs(I)) /\ n \in 1..Len(O)
    BY <1>1
  <2>2. p \in Outs(I)
    <3> HIDE DEF O, n
    <3> QED BY <2>1, OutsTyped
  <2>3. o \in Outs(I) /\ Total(o.holds, x) = Total(p.holds, x) + a
    <3> HIDE DEF p
    <3> QED BY <2>2, AddTyped, AddMoves
  <2>4. c = [acc EXCEPT !.outs[n] = AddAssetToOutput(@, h)]
    BY <1>6 DEF ChangeTurn
  <2>5. [acc EXCEPT !.outs[n] = AddAssetToOutput(@, h)] = [acc EXCEPT !.outs = l]
    OBVIOUS
  <2> HIDE DEF n, o
  <2>6. TotalOf(l, Everywhere, x) = TotalOf(O, Everywhere, x) + (Total(o.holds, x) - Total(O[n].holds, x))
    <3> HIDE DEF O
    <3> QED BY <2>1, <2>3, TotalOfChange
  <2> HIDE DEF l, c
  <2>7. c.outs = l /\ c.unknown = acc.unknown
    BY <1>1, <2>4, <2>5
  <2>8. Total(p.holds, x) \in Nat
    <3>1. p.holds \in Seq(Holdings(I))
      BY <2>2 DEF Outs
    <3> HIDE DEF p
    <3> DEFINE hs == p.holds
    <3>2. hs \in Seq(Holdings(I))
      BY <3>1
    <3> HIDE DEF hs
    <3>3. Total(hs, x) \in Nat
      BY <3>2, HoldingsCount, TotalSum
    <3> QED BY <3>3 DEF hs
  <2> HIDE DEF a
  <2>9. TotalOf(l, Everywhere, x) = TotalOf(acc.outs, Everywhere, x) + a
    BY <1>3, <2>3, <2>6, <2>8
  <2> QED BY <1>3, <1>6, <2>7, <2>9 DEF c, a
<1> QED BY <1>4, <1>5, <1>6

\* What the change makes of what is left.
ChangeDone(c, t, total, x, I) ==
    /\ TotalOf(c.outs, Everywhere, x) <= TotalOf(t.outs, Everywhere, x) + total
    /\ ~c.unknown => TotalOf(c.outs, Everywhere, x) = TotalOf(t.outs, Everywhere, x) + total
    /\ 0 \notin I => ~c.unknown

LEMMA ChangeMoves ==
    ASSUME NEW I, NEW t \in Moves(I), NEW x
    PROVE  ChangeDone(GiveChange(t), t, Left(t.left, x), x, I)
<1> DEFINE q == Remaining(t)
           n == Len(q)
           f == Parts(q, x)
<1>1. q \in Seq(Holdings(I)) /\ \E r \in [0..n -> Changes(I)] :
           /\ r[0] = [outs |-> t.outs, unknown |-> FALSE] /\ GiveChange(t) = r[n]
           /\ \A m \in 1..n : r[m] = ChangeTurn(r[m - 1], q[m])
  BY ChangeSteps
<1>2. PICK r \in [0..n -> Changes(I)] :
           /\ r[0] = [outs |-> t.outs, unknown |-> FALSE] /\ GiveChange(t) = r[n]
           /\ \A m \in 1..n : r[m] = ChangeTurn(r[m - 1], q[m])
  BY <1>1
<1>3. Left(t.left, x) = Total(q, x)
  BY DEF Left, Remaining
<1>a. t.outs \in Seq(Outs(I))
  BY DEF Moves
<1> HIDE DEF q
<1>4. n \in Nat /\ \A m \in 1..n : q[m] \in Holdings(I)
  BY <1>1, HoldingsCount
<1>5. Total(q, x) = SumUp(f, n) /\ Numbers(f, n)
  BY <1>1, HoldingsCount, TotalSum, PartsNumbers
<1>6. \A m \in 1..n : f[m] = IF q[m].index = x THEN q[m].count ELSE 0
  BY DEF Parts
<1> HIDE DEF f, n
<1>7. SumUp(f, 0) = 0 /\ \A m \in 1..n : SumUp(f, m) = SumUp(f, m - 1) + f[m] /\ SumUp(f, m - 1) \in Int /\ f[m] \in Int
  <2>1. \A m \in 1..n : m - 1 \in 0..n /\ f[m] \in Int
    BY <1>4, <1>5 DEF Numbers
  <2> QED BY <1>4, <1>5, <2>1, SumUpSteps
<1>8. TotalOf(t.outs, Everywhere, x) \in Nat
  <2> DEFINE O == t.outs
  <2>1. O \in Seq(Outs(I))
    BY <1>a
  <2> HIDE DEF O
  <2>2. TotalOf(O, Everywhere, x) \in Nat
    BY <2>1, OutsTyped, SharesNumbers
  <2> QED BY <2>2 DEF O
<1> DEFINE P == {m \in 0..n : ChangeDone(r[m], t, SumUp(f, m), x, I)}
<1>9. 0 \in P
  <2>1. r[0].outs = t.outs /\ ~r[0].unknown
    BY <1>2
  <2> QED BY <1>4, <1>7, <1>8, <2>1 DEF ChangeDone
<1>10. ASSUME NEW m \in 1..n, m - 1 \in P PROVE m \in P
  <2> DEFINE c == r[m - 1]
             d == r[m]
             h == q[m]
             a == IF h.index = x THEN h.count ELSE 0
  <2>1. m \in 0..n /\ m - 1 \in 0..n
    BY <1>4
  <2>2. c \in Changes(I) /\ d \in Changes(I) /\ h \in Holdings(I) /\ d = ChangeTurn(c, h) /\ f[m] = a
    BY <1>2, <1>4, <1>6, <2>1
  <2>3. ChangeDone(c, t, SumUp(f, m - 1), x, I)
    BY <1>10
  <2> HIDE DEF c, h
  <2>4. /\ TotalOf(d.outs, Everywhere, x) <= TotalOf(c.outs, Everywhere, x) + a
        /\ ~d.unknown => ~c.unknown /\ TotalOf(d.outs, Everywhere, x) = TotalOf(c.outs, Everywhere, x) + a
        /\ 0 \notin I /\ ~c.unknown => ~d.unknown
    <3> HIDE DEF d
    <3>1. d = ChangeTurn(c, h)
      BY <2>2
    <3> HIDE DEF a
    <3>2. /\ TotalOf(ChangeTurn(c, h).outs, Everywhere, x) <= TotalOf(c.outs, Everywhere, x) + a
          /\ ~ChangeTurn(c, h).unknown => ~c.unknown
               /\ TotalOf(ChangeTurn(c, h).outs, Everywhere, x) = TotalOf(c.outs, Everywhere, x) + a
          /\ 0 \notin I /\ ~c.unknown => ~ChangeTurn(c, h).unknown
      BY <2>2, ChangeOneMoves DEF a
    <3> QED BY <3>1, <3>2
  <2>5. TotalOf(c.outs, Everywhere, x) \in Nat /\ TotalOf(d.outs, Everywhere, x) \in Nat
    <3>1. \A b \in Changes(I) : b.outs \in Seq(Outs(I))
      BY DEF Changes
    <3>2. \A O \in Seq(Outs(I)) : TotalOf(O, Everywhere, x) \in Nat
      BY OutsTyped, SharesNumbers
    <3> HIDE DEF d
    <3> QED BY <2>2, <3>1, <3>2
  <2> HIDE DEF d, a
  <2>6. ChangeDone(d, t, SumUp(f, m), x, I)
    <3>1. SumUp(f, m) = SumUp(f, m - 1) + a /\ SumUp(f, m - 1) \in Int /\ a \in Int
      BY <1>7, <2>2
    <3> QED BY <1>8, <2>3, <2>4, <2>5, <3>1 DEF ChangeDone
  <2> QED BY <2>1, <2>6 DEF d
<1> HIDE DEF P
<1>11. \A m \in 0..n : m \in P
  BY <1>4, <1>9, <1>10, Climb
<1>12. n \in P
  BY <1>4, <1>11
<1> QED BY <1>2, <1>3, <1>5, <1>12 DEF P

-----------------------------------------------------------------------------
(* What is given is left, moved or burnt                                     *)

Balance(m, given, x) ==
    Left(m.left, x) + TotalOf(m.outs, Everywhere, x) + Total(m.burnt, x) = TotalOf(given, Everywhere, x)

\* A source of holdings: the inputs, or the asset that is issued.
Source(given, I) == Outputting(given, I) /\ \A k \in 1..Len(given) : given[k].address \in Everywhere

LEMMA MovesTotals ==
    ASSUME NEW I, NEW m \in Moves(I), NEW x
    PROVE  /\ Left(m.left, x) \in Nat /\ TotalOf(m.outs, Everywhere, x) \in Nat /\ Total(m.burnt, x) \in Nat
           /\ m.outs \in Seq(Outs(I)) /\ m.left \in Seq(Seq(Holdings(I))) /\ m.burnt \in Seq(Holdings(I))
<1> DEFINE O == m.outs
           Q == m.left
           U == m.burnt
<1>1. O \in Seq(Outs(I)) /\ Q \in Seq(Seq(Holdings(I))) /\ U \in Seq(Holdings(I))
  BY DEF Moves
<1> HIDE DEF O, Q, U
<1>2. TotalOf(O, Everywhere, x) \in Nat
  BY <1>1, OutsTyped, SharesNumbers
<1>3. Left(Q, x) \in Nat
  BY <1>1, LeftSum
<1>4. Total(U, x) \in Nat
  BY <1>1, HoldingsCount, TotalSum
<1> QED BY <1>1, <1>2, <1>3, <1>4 DEF O, Q, U

LEMMA SourceTyped ==
    ASSUME NEW I, NEW given, Source(given, I), NEW x
    PROVE  /\ Holding(given) \in Seq(Seq(Holdings(I))) /\ TotalOf(given, Everywhere, x) \in Nat
           /\ Left(Holding(given), x) = TotalOf(given, Everywhere, x)
<1>1. Outputting(given, I)
  BY DEF Source
<1>2. Holding(given) \in Seq(Seq(Holdings(I)))
  BY <1>1, HoldingTyped DEF Outputting
<1>3. TotalOf(given, Everywhere, x) \in Nat
  BY <1>1, SharesNumbers
<1>4. Left(Holding(given), x) = TotalOf(given, Everywhere, x)
  BY <1>1, LeftHolding DEF Source
<1> QED BY <1>2, <1>3, <1>4

LEMMA StrippedNone ==
    ASSUME NEW I, NEW outs \in Seq(Outs(I)), NEW B, NEW x
    PROVE  TotalOf(Stripped(outs), B, x) = 0
<1>1. Len(outs) \in Nat /\ DOMAIN outs = 1..Len(outs)
  OBVIOUS
<1>2. Stripped(outs) = [k \in 1..Len(outs) |-> [outs[k] EXCEPT !.holds = << >>]]
  BY <1>1 DEF Stripped
<1>3. \A k \in 1..Len(outs) : outs[k] = [address |-> outs[k].address, value |-> outs[k].value, holds |-> outs[k].holds]
  <2>1. \A o \in Outs(I) : o = [address |-> o.address, value |-> o.value, holds |-> o.holds]
    BY DEF Outs
  <2>2. \A k \in 1..Len(outs) : outs[k] \in Outs(I)
    BY OutsTyped
  <2> QED BY <2>1, <2>2
<1>4. Len(Stripped(outs)) = Len(outs)
  BY <1>1, <1>2
<1>5. ASSUME NEW k \in 1..Len(outs) PROVE Stripped(outs)[k].holds = << >>
  <2> DEFINE o == outs[k]
  <2>1. Stripped(outs)[k] = [o EXCEPT !.holds = << >>]
    BY <1>2
  <2>2. o = [address |-> o.address, value |-> o.value, holds |-> o.holds]
    BY <1>3
  <2> HIDE DEF o
  <2> QED BY <2>1, <2>2
<1> QED BY <1>1, <1>4, <1>5, TotalNone

\* Nothing is moved where what was given is all of it left.
LEMMA UndoneBalances ==
    ASSUME NEW I, NEW t \in Moves(I), NEW given, Source(given, I), NEW x
    PROVE  /\ Balance(Undone(t, given), given, x)
           /\ Undone(t, given).burnt = << >> /\ Undone(t, given).wrapped = t.wrapped
<1> DEFINE u == Undone(t, given)
<1>1. u.outs = Stripped(t.outs) /\ u.left = Holding(given) /\ u.burnt = << >> /\ u.wrapped = t.wrapped
  BY DEF Undone, Moves
<1>2. TotalOf(Stripped(t.outs), Everywhere, x) = 0
  <2> DEFINE O == t.outs
  <2>1. O \in Seq(Outs(I))
    BY MovesTotals
  <2> HIDE DEF O
  <2>2. TotalOf(Stripped(O), Everywhere, x) = 0
    BY <2>1, StrippedNone
  <2> QED BY <2>2 DEF O
<1> HIDE DEF u
<1>3. Balance(u, given, x)
  BY <1>1, <1>2, SourceTyped, TotalEmpty DEF Balance
<1> QED BY <1>1, <1>3 DEF u

LEMMA SkipMovesNothing ==
    ASSUME NEW I, NEW t \in Moves(I), NEW i
    PROVE  /\ Skip(t, i).left = t.left /\ Skip(t, i).outs = t.outs
           /\ Skip(t, i).burnt = t.burnt /\ Skip(t, i).wrapped = t.wrapped
BY DEF Skip, Moves

\* What one instruction may do of a transfer t, when no total wraps.
InstructionOf(t, i, type, given, a, taken, after) ==
    \/ Instruct(t, i, type, given) = Undone(t, given)
    \/ taken.bad = FALSE /\ a.total = 0 /\ Instruct(t, i, type, given) = Skip(after, i)
    \/ /\ taken.bad = FALSE /\ type = "burn"
       /\ Instruct(t, i, type, given)
            = Skip([after EXCEPT !.burnt = Append(@, [a.wanted EXCEPT !.count = a.total])], i)
    \/ /\ taken.bad = FALSE /\ i.output < Len(t.outs)
       /\ Instruct(t, i, type, given)
            = Skip([after EXCEPT !.outs = Give(@, i, [a.wanted EXCEPT !.count = a.amount])], i)

AfterTaking(t, taken, w) ==
    [t EXCEPT !.left = taken.left, !.index = taken.index, !.allowSkip = taken.allowSkip, !.wrapped = w]

Asked(t, i) ==
    LET amount == AmountOf(t, i)
        exact  == IF i.range THEN (i.output + 1) * amount ELSE amount
    IN [amount |-> amount, exact |-> exact, total |-> exact % AmountWidth, wanted |-> t.left[t.index][1]]

LEMMA AskedTyped ==
    ASSUME NEW I, NEW t \in Moves(I), Available(t), NEW i \in Instructions
    PROVE  LET a == Asked(t, i) IN
           /\ a.amount \in Nat /\ a.exact \in Nat /\ a.total \in Nat /\ a.wanted \in Holdings(I)
           /\ a.exact = IF i.range THEN (i.output + 1) * a.amount ELSE a.amount
           /\ i.output \in Nat /\ i.range \in BOOLEAN
<1> DEFINE amount == AmountOf(t, i)
           exact  == IF i.range THEN (i.output + 1) * amount ELSE amount
           total  == exact % AmountWidth
           wanted == t.left[t.index][1]
<1>1. amount \in Nat /\ wanted \in Holdings(I) /\ i.output \in Nat /\ i.range \in BOOLEAN
  BY AmountTyped
<1> HIDE DEF amount, wanted
<1>2. exact \in Nat
  BY <1>1
<1>e. exact = IF i.range THEN (i.output + 1) * amount ELSE amount
  OBVIOUS
<1> HIDE DEF exact
<1>3. total \in Nat
  BY <1>2, TransferAssumption
<1> HIDE DEF total
<1>4. Asked(t, i) = [amount |-> amount, exact |-> exact, total |-> total, wanted |-> wanted]
  BY DEF Asked, amount, exact, total, wanted
<1> QED BY <1>1, <1>2, <1>e, <1>3, <1>4

LEMMA InstructOutcomes ==
    ASSUME NEW I, NEW t \in Moves(I), NEW i \in Instructions, NEW type, NEW given
    PROVE  LET a == Asked(t, i)
               taken == Take(t, a.wanted, a.total)
               w == t.wrapped \/ a.exact # a.total
           IN \/ Instruct(t, i, type, given) = Undone(t, given)
              \/ Available(t) /\ InstructionOf(t, i, type, given, a, taken, AfterTaking(t, taken, w))
<1>1. CASE ~Available(t)
  BY <1>1 DEF Instruct
<1>2. CASE Available(t)
  <2> DEFINE amount == AmountOf(t, i)
             exact  == IF i.range THEN (i.output + 1) * amount ELSE amount
             total  == exact % AmountWidth
             wanted == t.left[t.index][1]
             taken  == Take(t, wanted, total)
             w      == t.wrapped \/ exact # total
             after  == AfterTaking(t, taken, w)
             burnt  == [after EXCEPT !.burnt = Append(@, [wanted EXCEPT !.count = total])]
             moved  == [after EXCEPT !.outs = Give(@, i, [wanted EXCEPT !.count = amount])]
             a      == Asked(t, i)
  <2>1. a = [amount |-> amount, exact |-> exact, total |-> total, wanted |-> wanted]
    BY DEF Asked
  <2>2. a.total \in Nat /\ i.output \in Nat
    BY <1>2, AskedTyped
  <2>3. a.amount = amount /\ a.exact = exact /\ a.total = total /\ a.wanted = wanted
    BY <2>1
  <2>4. taken \in TakeStates(I)
    <3>1. a.wanted \in Holdings(I)
      BY <1>2, AskedTyped
    <3> HIDE DEF wanted, total, a
    <3> QED BY <2>2, <2>3, <3>1, TakeTyped
  <2>5. taken.bad \in BOOLEAN /\ Len(t.outs) \in Nat
    <3>1. taken.bad \in BOOLEAN
      <4> HIDE DEF taken
      <4> QED BY <2>4 DEF TakeStates
    <3>2. t.outs \in Seq(Outs(I))
      BY MovesTotals
    <3> QED BY <3>1, <3>2
  <2>6. Instruct(t, i, type, given) =
          CASE taken.bad -> Undone(t, given)
            [] ~taken.bad /\ total = 0 -> Skip(after, i)
            [] ~taken.bad /\ total > 0 /\ Burns(type, i) -> Skip(burnt, i)
            [] ~taken.bad /\ total > 0 /\ ~Burns(type, i) ->
                 IF i.output >= Len(t.outs) THEN Undone(t, given) ELSE Skip(moved, i)
    BY <1>2 DEF Instruct, AfterTaking
  <2>7. total \in Nat
    BY <2>2, <2>3
  <2> HIDE DEF taken, total, exact, amount, wanted, after, w, a
  <2>8. \/ Instruct(t, i, type, given) = Undone(t, given)
        \/ taken.bad = FALSE /\ total = 0 /\ Instruct(t, i, type, given) = Skip(after, i)
        \/ taken.bad = FALSE /\ type = "burn" /\ Instruct(t, i, type, given) = Skip(burnt, i)
        \/ taken.bad = FALSE /\ i.output < Len(t.outs) /\ Instruct(t, i, type, given) = Skip(moved, i)
    <3> HIDE DEF burnt, moved
    <3>2. CASE taken.bad
      BY <2>6, <3>2, <2>5
    <3>3. CASE ~taken.bad /\ total = 0
      BY <2>6, <3>3, <2>5, <2>7
    <3>4. CASE ~taken.bad /\ total > 0 /\ Burns(type, i)
      BY <2>6, <3>4, <2>5, <2>7 DEF Burns
    <3>5. CASE ~taken.bad /\ total > 0 /\ ~Burns(type, i)
      BY <2>2, <2>6, <3>5, <2>5, <2>7
    <3>6. total = 0 \/ total > 0
      BY <2>7
    <3> QED BY <3>2, <3>3, <3>4, <3>5, <3>6, Zenon
  <2>9. InstructionOf(t, i, type, given, a, taken, after)
    BY <2>3, <2>8 DEF InstructionOf
  <2>10. after = AfterTaking(t, Take(t, a.wanted, a.total), t.wrapped \/ a.exact # a.total)
         /\ taken = Take(t, a.wanted, a.total)
    BY <2>3 DEF after, taken, w
  <2> QED BY <1>2, <2>9, <2>10 DEF a
<1> QED BY <1>1, <1>2

LEMMA AfterTakingKeeps ==
    ASSUME NEW I, NEW t \in Moves(I), NEW taken \in TakeStates(I), NEW w \in BOOLEAN
    PROVE  LET after == AfterTaking(t, taken, w) IN
           /\ after \in Moves(I) /\ after.left = taken.left /\ after.outs = t.outs
           /\ after.burnt = t.burnt /\ after.wrapped = w
<1> DEFINE l == taken.left
           k == taken.index
           a == taken.allowSkip
           after == AfterTaking(t, taken, w)
           L == Seq(Seq(Holdings(I)))
           N == Nat \ {0}
           B == BOOLEAN
           O == Seq(Outs(I)) \ {<< >>}
           U == Seq(Holdings(I))
<1>1. l \in L /\ k \in N /\ a \in B /\ w \in B
  BY DEF TakeStates
<1>2. t \in [left : L, index : N, allowSkip : B, outs : O, stopped : B, burnt : U, wrapped : B]
  BY DEF Moves
<1>3. after = [t EXCEPT !.left = l, !.index = k, !.allowSkip = a, !.wrapped = w]
  BY DEF AfterTaking
<1> HIDE DEF L, N, B, O, U, after, l, k, a
<1>4. /\ after \in [left : L, index : N, allowSkip : B, outs : O, stopped : B, burnt : U, wrapped : B]
      /\ after.left = l /\ after.outs = t.outs /\ after.burnt = t.burnt /\ after.wrapped = w
  BY <1>1, <1>2, <1>3
<1> QED BY <1>4 DEF Moves, L, N, B, O, U, l, after

\* One instruction moves what it takes: to outputs, or out of the world.
LEMMA InstructBalances ==
    ASSUME NEW I, NEW t \in Moves(I), NEW i \in Instructions, NEW type, NEW given, Source(given, I), NEW x
    PROVE  LET u == Instruct(t, i, type, given) IN
           /\ (~t.wrapped => Balance(t, given, x)) => (~u.wrapped => Balance(u, given, x))
           /\ type # "burn" /\ t.burnt = << >> => u.burnt = << >>
<1> DEFINE Was == ~t.wrapped => Balance(t, given, x)
           u == Instruct(t, i, type, given)
           a == Asked(t, i)
           taken == Take(t, a.wanted, a.total)
           w == t.wrapped \/ a.exact # a.total
           after == AfterTaking(t, taken, w)
<1>1. u = Undone(t, given) \/ (Available(t) /\ InstructionOf(t, i, type, given, a, taken, after))
  BY InstructOutcomes
<1>2. CASE u = Undone(t, given)
  <2> HIDE DEF u
  <2> QED BY <1>2, UndoneBalances DEF u
<1>3. CASE Available(t) /\ InstructionOf(t, i, type, given, a, taken, after)
  <2>1. /\ a.amount \in Nat /\ a.exact \in Nat /\ a.total \in Nat /\ a.wanted \in Holdings(I)
        /\ a.exact = IF i.range THEN (i.output + 1) * a.amount ELSE a.amount
        /\ i.output \in Nat /\ i.range \in BOOLEAN
    BY <1>3, AskedTyped
  <2> HIDE DEF a
  <2> DEFINE wanted == a.wanted
             total == a.total
             n == IF wanted.index = x THEN total ELSE 0
  <2>2. wanted \in Holdings(I) /\ total \in Nat /\ wanted.index \in I
    BY <2>1 DEF Holdings
  <2>3. taken = Take(t, wanted, total)
    OBVIOUS
  <2> HIDE DEF wanted, total
  <2>4. n \in Nat
    BY <2>2
  <2>5. taken \in TakeStates(I) /\ (~taken.bad => Left(t.left, x) = Left(taken.left, x) + n)
    <3> HIDE DEF taken
    <3>1. Take(t, wanted, total) \in TakeStates(I)
      BY <2>2, TakeTyped
    <3> HIDE DEF u, after, w
    <3>2. ~Take(t, wanted, total).bad => Left(t.left, x) = Left(Take(t, wanted, total).left, x) + n
      <4>1. Taken(t, Take(t, wanted, total), wanted, total, x)
        BY <2>2, TakeMoves
      <4> QED BY <4>1 DEF Taken
    <3> HIDE DEF n
    <3> QED BY <2>3, <3>1, <3>2
  <2> HIDE DEF taken
  <2>6. w \in BOOLEAN
    BY DEF Moves
  <2> HIDE DEF w
  <2>7. after \in Moves(I) /\ after.left = taken.left /\ after.outs = t.outs /\ after.burnt = t.burnt /\ after.wrapped = w
    BY <2>5, <2>6, AfterTakingKeeps
  <2> HIDE DEF after
  <2>8. /\ Left(t.left, x) \in Nat /\ TotalOf(t.outs, Everywhere, x) \in Nat /\ Total(t.burnt, x) \in Nat
        /\ Left(after.left, x) \in Nat
        /\ after.outs \in Seq(Outs(I)) /\ after.burnt \in Seq(Holdings(I)) /\ after.outs # << >>
    BY <2>7, MovesTotals DEF Moves
  <2>9. ~w => ~t.wrapped /\ a.exact = total
    BY DEF w, total
  <2>10. CASE u = Undone(t, given)
    BY <1>2, <2>10
  <2>11. CASE taken.bad = FALSE /\ a.total = 0 /\ u = Skip(after, i)
    <3>1. u.left = after.left /\ u.outs = after.outs /\ u.burnt = after.burnt /\ u.wrapped = after.wrapped
      BY <2>7, <2>11, SkipMovesNothing
    <3>2. n = 0
      BY <2>11 DEF total
    <3> HIDE DEF u, n
    <3>3. Was => (~u.wrapped => Balance(u, given, x))
      BY <2>5, <2>7, <2>8, <2>9, <2>11, <3>1, <3>2 DEF Balance
    <3> QED BY <2>7, <3>1, <3>3 DEF u
  <2>12. CASE /\ taken.bad = FALSE /\ type = "burn"
              /\ u = Skip([after EXCEPT !.burnt = Append(@, [a.wanted EXCEPT !.count = a.total])], i)
    <3> DEFINE h == [wanted EXCEPT !.count = total]
               b == Append(after.burnt, h)
               m == [after EXCEPT !.burnt = b]
    <3>1. h \in Holdings(I) /\ h.index = wanted.index /\ h.count = total
      BY <2>2 DEF Holdings
    <3>2. u = Skip(m, i)
      BY <2>12 DEF wanted, total
    <3> HIDE DEF h
    <3>3. b \in Seq(Holdings(I)) /\ Total(b, x) = Total(after.burnt, x) + n
      <4> DEFINE H == after.burnt
      <4>1. H \in Seq(Holdings(I))
        BY <2>8
      <4> HIDE DEF H
      <4>2. Append(H, h) \in Seq(Holdings(I))
        BY <3>1, <4>1
      <4>3. Total(Append(H, h), x) = Total(H, x) + (IF h.index = x THEN h.count ELSE 0)
        BY <3>1, <4>1, TotalAppend
      <4> QED BY <3>1, <4>2, <4>3 DEF H
    <3> HIDE DEF b
    <3>4. m \in Moves(I) /\ m.left = after.left /\ m.outs = after.outs /\ m.burnt = b /\ m.wrapped = after.wrapped
      BY <2>7, <3>3 DEF Moves
    <3> HIDE DEF m
    <3>5. u.left = after.left /\ u.outs = after.outs /\ u.burnt = b /\ u.wrapped = w
      BY <2>7, <3>2, <3>4, SkipMovesNothing
    <3> HIDE DEF u, n
    <3>6. Was => (~u.wrapped => Balance(u, given, x))
      BY <2>4, <2>5, <2>7, <2>8, <2>9, <2>12, <3>3, <3>5 DEF Balance
    <3> QED BY <2>12, <3>6 DEF u
  <2>13. CASE /\ taken.bad = FALSE /\ i.output < Len(t.outs)
              /\ u = Skip([after EXCEPT !.outs = Give(@, i, [a.wanted EXCEPT !.count = a.amount])], i)
    <3> DEFINE amount == a.amount
               h == [wanted EXCEPT !.count = amount]
               g == Give(after.outs, i, h)
               m == [after EXCEPT !.outs = g]
    <3>1. h \in Holdings(I) /\ h.index = wanted.index /\ h.count = amount
      BY <2>1, <2>2 DEF Holdings
    <3>2. u = Skip(m, i)
      BY <2>13 DEF wanted
    <3> HIDE DEF h
    <3>3. g \in Seq(Outs(I)) /\ g # << >>
      BY <2>8, <3>1, GiveTyped
    <3>4. TotalOf(g, Everywhere, x) = TotalOf(after.outs, Everywhere, x)
             + (IF h.index = x THEN (IF i.range THEN (i.output + 1) * h.count ELSE h.count) ELSE 0)
      <4> DEFINE O == after.outs
      <4>1. O \in Seq(Outs(I)) /\ i.output < Len(O)
        BY <2>7, <2>8, <2>13
      <4> HIDE DEF O
      <4>2. TotalOf(Give(O, i, h), Everywhere, x) = TotalOf(O, Everywhere, x)
             + (IF h.index = x THEN (IF i.range THEN (i.output + 1) * h.count ELSE h.count) ELSE 0)
        BY <2>1, <3>1, <4>1, GiveMoves
      <4> QED BY <4>2 DEF O
    <3>5. ~w => TotalOf(g, Everywhere, x) = TotalOf(after.outs, Everywhere, x) + n
      <4> HIDE DEF g
      <4>1. ASSUME ~w PROVE total = IF i.range THEN (i.output + 1) * h.count ELSE h.count
        BY <2>1, <2>9, <3>1, <4>1
      <4> QED BY <3>1, <3>4, <4>1
    <3> HIDE DEF g
    <3>6. m \in Moves(I) /\ m.left = after.left /\ m.outs = g /\ m.burnt = after.burnt /\ m.wrapped = after.wrapped
      BY <2>7, <3>3 DEF Moves
    <3> HIDE DEF m
    <3>7. u.left = after.left /\ u.outs = g /\ u.burnt = after.burnt /\ u.wrapped = w
      BY <2>7, <3>2, <3>6, SkipMovesNothing
    <3> HIDE DEF u, n
    <3>8. Was => (~u.wrapped => Balance(u, given, x))
      BY <2>4, <2>5, <2>7, <2>8, <2>9, <2>13, <3>5, <3>7 DEF Balance
    <3> QED BY <2>7, <3>7, <3>8 DEF u
  <2> HIDE DEF u
  <2> QED BY <1>3, <2>10, <2>11, <2>12, <2>13 DEF InstructionOf, u
<1> HIDE DEF u, a, taken, after, w
<1> QED BY <1>1, <1>2, <1>3 DEF u

-----------------------------------------------------------------------------
(* What a transaction does to the outputs                                    *)

\* The outputs of the first m of a sequence that B has.
Among(s, m, B) == {s[k] : k \in {j \in 1..m : s[j].address \in B}}

\* No output is there twice.
Apart(s, n, B) ==
    \A j, k \in 1..n : s[j].address \in B /\ s[k].address \in B /\ s[j] = s[k] => j = k

LEMMA SetSum ==
    ASSUME NEW s, NEW n \in Nat, Len(s) = n, NEW B, Apart(s, n, B), NEW i,
           \A k \in 1..n : Total(s[k].holds, i) \in Nat
    PROVE  Countable(Among(s, n, B), i) /\ Amount(Among(s, n, B), i) = TotalOf(s, B, i)
<1> DEFINE f == Shares(s, B, i)
           P == {m \in 0..n : Countable(Among(s, m, B), i) /\ Amount(Among(s, m, B), i) = SumUp(f, m)}
<1>1. \A k \in 1..n : f[k] = IF s[k].address \in B THEN Total(s[k].holds, i) ELSE 0
  BY DEF Shares
<1>2. TotalOf(s, B, i) = SumUp(f, n)
  BY DEF TotalOf
<1> HIDE DEF f
<1>3. Numbers(f, n)
  BY <1>1 DEF Numbers
<1>4. SumUp(f, 0) = 0 /\ \A m \in 1..n : SumUp(f, m) = SumUp(f, m - 1) + f[m] /\ SumUp(f, m - 1) \in Int
  <2>1. \A m \in 1..n : m - 1 \in 0..n
    OBVIOUS
  <2> QED BY <1>3, <2>1, SumUpSteps
<1>5. 0 \in P
  <2>1. Among(s, 0, B) = {}
    BY DEF Among
  <2>2. Countable({}, i)
    BY FS_EmptySet DEF Countable
  <2>3. Amount({}, i) = 0
    BY <2>2, SumSteps
  <2> DEFINE V == Among(s, 0, B)
  <2>4. Countable(V, i) /\ Amount(V, i) = 0
    BY <2>1, <2>2, <2>3
  <2> HIDE DEF V
  <2>5. 0 \in 0..n /\ Amount(V, i) = SumUp(f, 0)
    BY <1>4, <2>4
  <2> QED BY <2>4, <2>5 DEF V
<1>6. ASSUME NEW m \in 1..n, m - 1 \in P PROVE m \in P
  <2> DEFINE y == s[m]
             V == Among(s, m - 1, B)
  <2>1. m \in 0..n /\ Countable(V, i) /\ Amount(V, i) = SumUp(f, m - 1)
    BY <1>6
  <2>2. CASE y.address \in B
    <3>1. Among(s, m, B) = V \cup {y}
      BY <2>2 DEF Among
    <3>2. y \notin V
      <4>1. ASSUME y \in V PROVE FALSE
        <5>1. PICK k \in 1..(m - 1) : s[k].address \in B /\ s[k] = y
          BY <4>1 DEF Among
        <5>2. k \in 1..n /\ k # m
          OBVIOUS
        <5> QED BY <2>2, <5>1, <5>2 DEF Apart
      <4> QED BY <4>1
    <3>3. Worth(y, i) \in Nat /\ f[m] = Worth(y, i)
      BY <1>1, <2>2 DEF Worth
    <3> HIDE DEF y, V
    <3>4. Amount(V \cup {y}, i) = Worth(y, i) + Amount(V, i)
      BY <2>1, <3>2, <3>3, SumAdd
    <3>5. Countable(V \cup {y}, i)
      <4>1. IsFiniteSet(V \cup {y})
        BY <2>1, FS_AddElement DEF Countable
      <4> QED BY <2>1, <3>3, <4>1 DEF Countable
    <3>6. Amount(Among(s, m, B), i) = SumUp(f, m)
      <4>1. SumUp(f, m) = SumUp(f, m - 1) + f[m] /\ SumUp(f, m - 1) \in Int
        BY <1>4
      <4> QED BY <2>1, <3>1, <3>3, <3>4, <4>1
    <3> QED BY <2>1, <3>1, <3>5, <3>6
  <2>3. CASE y.address \notin B
    <3>1. Among(s, m, B) = V
      BY <2>3 DEF Among
    <3>2. SumUp(f, m) = SumUp(f, m - 1)
      <4>1. f[m] = 0
        BY <1>1, <2>3
      <4>2. SumUp(f, m) = SumUp(f, m - 1) + f[m] /\ SumUp(f, m - 1) \in Int
        BY <1>4
      <4> QED BY <4>1, <4>2
    <3> QED BY <2>1, <3>1, <3>2
  <2> QED BY <2>2, <2>3
<1> HIDE DEF P
<1>7. \A m \in 0..n : m \in P
  BY <1>5, <1>6, Climb
<1>8. n \in P
  BY <1>7
<1> QED BY <1>2, <1>8 DEF P

\* Both have the same addresses and holdings.
LEMMA TotalOfSame ==
    ASSUME NEW I, NEW s, NEW t, Outputting(s, I), Len(t) = Len(s),
           \A k \in 1..Len(s) : t[k].address = s[k].address /\ t[k].holds = s[k].holds,
           NEW B, NEW i
    PROVE  TotalOf(t, B, i) = TotalOf(s, B, i)
<1> DEFINE f == Shares(s, B, i)
           g == Shares(t, B, i)
           n == Len(s)
<1>1. n \in Nat /\ Numbers(f, n)
  BY SharesNumbers DEF Outputting
<1>2. \A k \in 1..n : g[k] = f[k]
  BY DEF Shares
<1> HIDE DEF f, g, n
<1>3. SumUp(g, n) = SumUp(f, n)
  BY <1>1, <1>2, SumUpSame
<1> QED BY <1>3 DEF TotalOf, f, g, n

\* The outputs of a set of addresses that are not spent.
Unspent(S, B) == {c \in S : ~c.spent /\ c.address \in B}

HeldIn(B, i) == Amount(Unspent(coins, B), i)

CoinsFinite == IsFiniteSet(coins)

LEMMA UnspentCountable ==
    ASSUME IInv, CoinsFinite, NEW B, NEW S \in SUBSET coins, NEW i
    PROVE  Countable(S, i)
<1>1. IsFiniteSet(S)
  BY FS_Subset DEF CoinsFinite
<1>2. ASSUME NEW c \in S PROVE Worth(c, i) \in Nat
  <2> DEFINE h == c.holds
  <2>1. h \in Seq(Holdings(1..Len(rows)))
    BY DEF IInv, CoinsOK, CoinsOf
  <2> HIDE DEF h
  <2>2. Total(h, i) \in Nat
    BY <2>1, HoldingsCount, TotalSum
  <2> QED BY <2>2 DEF Worth, h
<1> QED BY <1>1, <1>2 DEF Countable

\* The inputs of a transaction.
LEMMA InputsAre ==
    ASSUME IInv, NEW ins \in Inputs
    PROVE  /\ Outputting(ins, 1..Len(rows)) /\ Source(ins, 1..Len(rows)) /\ Len(ins) \in Nat
           /\ \A k \in 1..Len(ins) : ins[k] \in coins /\ ~ins[k].spent /\ ins[k].address \in Address
           /\ \A j, k \in 1..Len(ins) : ins[j] = ins[k] => j = k
           /\ ToSet(ins) = {ins[k] : k \in 1..Len(ins)}
<1>1. PICK n \in 1..MaxInputs : ins \in [1..n -> {c \in coins : ~c.spent}]
  BY DEF Inputs
<1>2. \A j, k \in 1..n : ins[j] = ins[k] => j = k
  BY <1>1 DEF Inputs
<1>3. Len(ins) = n /\ n \in Nat /\ DOMAIN ins = 1..n
  BY <1>1, LedgerAssumption
<1>4. \A k \in 1..n : ins[k] \in coins /\ ~ins[k].spent
  BY <1>1
<1>5. \A c \in coins : c.address \in Address /\ c.holds \in Seq(Holdings(1..Len(rows)))
  BY DEF IInv, CoinsOK, CoinsOf
<1>6. Outputting(ins, 1..Len(rows))
  BY <1>3, <1>4, <1>5 DEF Outputting
<1>7. Source(ins, 1..Len(rows))
  BY <1>3, <1>4, <1>5, <1>6 DEF Source, Everywhere
<1>8. ToSet(ins) = {ins[k] : k \in 1..n}
  BY <1>3 DEF ToSet
<1> QED BY <1>2, <1>3, <1>4, <1>5, <1>6, <1>7, <1>8

\* Spending takes the inputs out of what is not spent.
LEMMA SpentSum ==
    ASSUME IInv, CoinsFinite, NEW ins \in Inputs, NEW B, NEW i
    PROVE  LET U == Unspent(Spend(ins), B) IN
           /\ Countable(U, i) /\ Amount(U, i) \in Nat
           /\ HeldIn(B, i) = Amount(U, i) + TotalOf(ins, B, i)
           /\ U \subseteq coins
<1> DEFINE U == Unspent(Spend(ins), B)
           n == Len(ins)
           V == Among(ins, n, B)
           X == ToSet(ins)
<1>1. /\ \A c \in coins : c = [tx |-> c.tx, n |-> c.n, address |-> c.address, value |-> c.value,
                                 holds |-> c.holds, issued |-> c.issued, spent |-> c.spent] /\ c.spent \in BOOLEAN
  BY DEF IInv, CoinsOK, CoinsOf
<1>2. /\ Outputting(ins, 1..Len(rows)) /\ n \in Nat
      /\ \A k \in 1..n : ins[k] \in coins /\ ~ins[k].spent /\ ins[k].address \in Address
      /\ \A j, k \in 1..n : ins[j] = ins[k] => j = k
      /\ X = {ins[k] : k \in 1..n}
  BY InputsAre
<1>3. V = {c \in X : c.address \in B} /\ V \subseteq coins
  BY <1>2 DEF Among
<1>4. U = {c \in coins : ~c.spent /\ c.address \in B /\ c \notin X}
  <2>1. ASSUME NEW c \in coins
        PROVE  /\ [c EXCEPT !.spent = @ \/ c \in X].spent = (c.spent \/ c \in X)
               /\ [c EXCEPT !.spent = @ \/ c \in X].address = c.address
               /\ ~(c.spent \/ c \in X) => [c EXCEPT !.spent = @ \/ c \in X] = c
    <3> DEFINE b == c.spent \/ c \in X
    <3>1. [c EXCEPT !.spent = @ \/ c \in X] = [c EXCEPT !.spent = b]
      OBVIOUS
    <3>2. b \in BOOLEAN /\ (~b => b = c.spent)
      BY <1>1
    <3> HIDE DEF b
    <3>3. /\ [c EXCEPT !.spent = b].spent = b /\ [c EXCEPT !.spent = b].address = c.address
          /\ ~b => [c EXCEPT !.spent = b] = c
      BY <1>1, <3>2
    <3> QED BY <3>1, <3>3 DEF b
  <2>2. Spend(ins) = {[c EXCEPT !.spent = @ \/ c \in X] : c \in coins}
    BY DEF Spend
  <2>3. ASSUME NEW u \in U PROVE u \in coins /\ ~u.spent /\ u.address \in B /\ u \notin X
    <3>1. PICK c \in coins : u = [c EXCEPT !.spent = @ \/ c \in X]
      BY <2>2 DEF Unspent
    <3>2. ~u.spent /\ u.address \in B
      BY DEF Unspent
    <3> HIDE DEF U, X
    <3> QED BY <2>1, <3>1, <3>2
  <2>4. ASSUME NEW c \in coins, ~c.spent, c.address \in B, c \notin X PROVE c \in U
    <3>1. [c EXCEPT !.spent = @ \/ c \in X] = c
      BY <2>1, <2>4
    <3>2. c \in Spend(ins)
      BY <2>2, <3>1
    <3> QED BY <2>4, <3>2 DEF Unspent
  <2> HIDE DEF U, X
  <2> QED BY <2>3, <2>4
<1>5. Unspent(coins, B) = U \cup V /\ U \cap V = {} /\ U \subseteq coins
  <2>1. \A c \in X : c \in coins /\ ~c.spent
    BY <1>2
  <2> HIDE DEF U, V, X
  <2> QED BY <1>3, <1>4, <2>1 DEF Unspent
<1>6. Countable(U, i) /\ Countable(V, i)
  <2> HIDE DEF U, V
  <2> QED BY <1>3, <1>5, UnspentCountable
<1>7. Amount(V, i) = TotalOf(ins, B, i)
  <2>1. Apart(ins, n, B)
    BY <1>2 DEF Apart
  <2>2. \A k \in 1..n : Total(ins[k].holds, i) \in Nat
    BY <1>2, SharesNumbers
  <2> QED BY <1>2, <2>1, <2>2, SetSum
<1> HIDE DEF U, V, X, n
<1>8. Amount(U \cup V, i) = Amount(U, i) + Amount(V, i)
  BY <1>5, <1>6, SumUnion
<1>9. Amount(U, i) \in Nat
  BY <1>6, SumSteps
<1> QED BY <1>5, <1>6, <1>7, <1>8, <1>9 DEF HeldIn, U

\* The outputs that are made hold what the transaction's do.
LEMMA CreatedSum ==
    ASSUME IInv, NEW I, NEW outs \in Seq(Outs(I)), NEW issued, NEW B \in SUBSET Address, NEW i
    PROVE  LET C == Unspent(Create(outs, issued), B) IN
           /\ Countable(C, i) /\ Amount(C, i) = TotalOf(outs, B, i)
           /\ \A c \in C : c.tx = made + 1
<1> DEFINE n == Len(outs)
           New(k) == [tx |-> made + 1, n |-> k - 1, address |-> outs[k].address, value |-> outs[k].value,
                      holds |-> outs[k].holds, issued |-> issued, spent |-> FALSE]
           s == [k \in 1..n |-> New(k)]
           C == Unspent(Create(outs, issued), B)
<1>1. n \in Nat /\ DOMAIN outs = 1..n /\ Outputting(outs, I)
  BY OutsTyped
<1>2. \A k \in 1..n : /\ s[k].address = outs[k].address /\ s[k].holds = outs[k].holds /\ s[k].n = k - 1
                      /\ ~s[k].spent /\ s[k].tx = made + 1 /\ s[k] = New(k)
  OBVIOUS
<1>3. Len(s) = n
  BY <1>1
<1>4. C = Among(s, n, B)
  <2>1. Create(outs, issued) = {New(k) : k \in {j \in DOMAIN outs : outs[j].address # NoAddress}}
    BY DEF Create
  <2> HIDE DEF New
  <2>2. Create(outs, issued) = {s[k] : k \in {j \in 1..n : outs[j].address # NoAddress}}
    BY <1>1, <1>2, <2>1
  <2> HIDE DEF s
  <2>3. NoAddress \notin B
    BY LedgerAssumption
  <2>4. ASSUME NEW c \in C PROVE c \in Among(s, n, B)
    <3>1. PICK k \in 1..n : c = s[k]
      BY <2>2 DEF Unspent
    <3>2. c.address \in B
      BY DEF Unspent
    <3> QED BY <3>1, <3>2 DEF Among
  <2>5. ASSUME NEW c \in Among(s, n, B) PROVE c \in C
    <3>1. PICK k \in 1..n : c = s[k] /\ s[k].address \in B
      BY DEF Among
    <3>2. c \in Create(outs, issued) /\ ~c.spent /\ c.address \in B
      BY <1>2, <2>2, <2>3, <3>1
    <3> QED BY <3>2 DEF Unspent
  <2> HIDE DEF C
  <2> QED BY <2>4, <2>5
<1> HIDE DEF New, s
<1>5. Apart(s, n, B)
  <2>1. ASSUME NEW j \in 1..n, NEW k \in 1..n, s[j] = s[k] PROVE j = k
    <3>1. j - 1 = k - 1
      BY <1>2, <2>1
    <3> QED BY <1>1, <3>1
  <2> QED BY <2>1 DEF Apart
<1>6. \A k \in 1..n : Total(s[k].holds, i) \in Nat
  BY <1>1, <1>2, SharesNumbers
<1> HIDE DEF C, n
<1>7. Countable(C, i) /\ Amount(C, i) = TotalOf(s, B, i)
  BY <1>1, <1>3, <1>4, <1>5, <1>6, SetSum
<1>8. TotalOf(s, B, i) = TotalOf(outs, B, i)
  BY <1>1, <1>2, <1>3, TotalOfSame DEF n
<1>9. \A c \in C : c.tx = made + 1
  BY <1>2, <1>4 DEF Among
<1> QED BY <1>7, <1>8, <1>9 DEF C

\* A transaction takes what its inputs hold from the addresses that had it, and
\* gives what its outputs hold.
LEMMA SaveMoves ==
    ASSUME IInv, CoinsFinite, NEW type, NEW unintended, NEW ins \in Inputs, NEW I, NEW outs \in Seq(Outs(I)), NEW table,
           Save(type, unintended, ins, outs, table), NEW B \in SUBSET Address, NEW i
    PROVE  /\ HeldIn(B, i)' = Amount(Unspent(coins', B), i)
           /\ HeldIn(B, i) \in Nat /\ TotalOf(ins, B, i) \in Nat /\ TotalOf(outs, B, i) \in Nat
           /\ TotalOf(ins, B, i) <= HeldIn(B, i)
           /\ HeldIn(B, i)' = (HeldIn(B, i) - TotalOf(ins, B, i)) + TotalOf(outs, B, i)
<1> DEFINE U == Unspent(Spend(ins), B)
           C == Unspent(Create(outs, type = "issuance"), B)
<1>1. HeldIn(B, i)' = Amount(Unspent(coins', B), i)
  BY DEF HeldIn
<1>2. coins' = Spend(ins) \cup Create(outs, type = "issuance")
  BY DEF Save
<1>3. Unspent(coins', B) = U \cup C
  BY <1>2 DEF Unspent
<1>4. Countable(U, i) /\ Amount(U, i) \in Nat /\ HeldIn(B, i) = Amount(U, i) + TotalOf(ins, B, i) /\ U \subseteq coins
  BY SpentSum
<1>5. Countable(C, i) /\ Amount(C, i) = TotalOf(outs, B, i) /\ \A c \in C : c.tx = made + 1
  BY CreatedSum
<1>6. U \cap C = {}
  <2>1. \A c \in coins : c.tx \in 0..made
    BY DEF IInv, CoinsOK, CoinsOf
  <2>2. made \in Nat
    BY LedgerAssumption DEF IInv, CountsOK
  <2> HIDE DEF U, C
  <2> QED BY <1>4, <1>5, <2>1, <2>2
<1> HIDE DEF U, C
<1>7. Amount(U \cup C, i) = Amount(U, i) + Amount(C, i)
  BY <1>4, <1>5, <1>6, SumUnion
<1>8. TotalOf(ins, B, i) \in Nat /\ TotalOf(outs, B, i) \in Nat
  <2>1. TotalOf(ins, B, i) \in Nat
    BY InputsAre, SharesNumbers
  <2>2. TotalOf(outs, B, i) \in Nat
    BY OutsTyped, SharesNumbers
  <2> QED BY <2>1, <2>2
<1> QED BY <1>1, <1>3, <1>4, <1>5, <1>7, <1>8

-----------------------------------------------------------------------------
(* The balance of the transaction being decoded                               *)

HeldIndexes(txos) == UNION {{txos[k].holds[j].index : j \in DOMAIN txos[k].holds} : k \in DOMAIN txos}

TxBalanced(t) ==
    /\ t.ins \in Inputs
    /\ t.given = IF t.type = "issuance" THEN Supply(t.asset) ELSE t.ins
    /\ t.type = "issuance" => t.asset.index \in 0 .. Len(rows) /\ t.asset.kind \in Kinds /\ t.asset.count \in Nat
    /\ t.move \in Moves(HeldIndexes(t.given))
    /\ t.type # "burn" => t.move.burnt = << >>
    /\ ~t.move.wrapped => \A x \in Indexes(t) : Balance(t.move, t.given, x)

BalanceOK == tx # NoTx => TxBalanced(tx)

BInv == IInv /\ CoinsFinite /\ BalanceOK

\* Holdings are of the indexes they hold.
LEMMA HeldTyped ==
    ASSUME NEW I, NEW txos, Source(txos, I)
    PROVE  Source(txos, HeldIndexes(txos)) /\ HeldIndexes(txos) \subseteq I
<1> DEFINE J == HeldIndexes(txos)
<1>1. Len(txos) \in Nat /\ DOMAIN txos = 1..Len(txos)
  BY DEF Source, Outputting
<1>2. ASSUME NEW k \in 1..Len(txos) PROVE txos[k].holds \in Seq(Holdings(J)) /\ \A j \in DOMAIN txos[k].holds : txos[k].holds[j].index \in I
  <2> DEFINE h == txos[k].holds
  <2>1. h \in Seq(Holdings(I))
    BY DEF Source, Outputting
  <2>2. \A j \in DOMAIN h : h[j].index \in J
    BY <1>1 DEF HeldIndexes
  <2> HIDE DEF h, J
  <2>3. Len(h) \in Nat /\ DOMAIN h = 1..Len(h) /\ \A j \in 1..Len(h) : h[j].index \in I /\ h[j] \in Holdings(I)
    BY <2>1, HoldingsCount
  <2>4. \A j \in 1..Len(h) : h[j] \in Holdings(J)
    BY <2>2, <2>3 DEF Holdings
  <2>5. h = [j \in 1..Len(h) |-> h[j]]
    BY <2>1, <2>3
  <2> DEFINE H == Holdings(J)
  <2> HIDE DEF H
  <2>6. h \in [1..Len(h) -> H]
    BY <2>4, <2>5 DEF H
  <2>7. h \in Seq(H)
    BY <2>3, <2>6
  <2> QED BY <2>3, <2>7 DEF h, H
<1>3. ASSUME NEW x \in J PROVE x \in I
  <2>1. PICK k \in DOMAIN txos : x \in {txos[k].holds[j].index : j \in DOMAIN txos[k].holds}
    BY DEF HeldIndexes
  <2>2. PICK j \in DOMAIN txos[k].holds : x = txos[k].holds[j].index
    BY <2>1
  <2> QED BY <1>1, <1>2, <2>2
<1> HIDE DEF J
<1> QED BY <1>1, <1>2, <1>3 DEF J, Source, Outputting

\* An asset that is issued is the source its transfer draws on.
LEMMA SupplySource ==
    ASSUME NEW asset, asset.kind \in Kinds, asset.count \in Nat, NEW I, asset.index \in I
    PROVE  /\ Source(Supply(asset), I) /\ HeldIndexes(Supply(asset)) = {asset.index}
           /\ \A x : TotalOf(Supply(asset), Everywhere, x) = IF asset.index = x THEN asset.count ELSE 0
<1> DEFINE h == [index |-> asset.index, kind |-> asset.kind, count |-> asset.count]
           s == Supply(asset)
           hs == <<h>>
<1>1. s = << [address |-> NoAddress, value |-> 0, holds |-> hs] >>
  BY DEF Supply
<1>2. h \in Holdings(I) /\ h.index = asset.index /\ h.count = asset.count
  BY DEF Holdings
<1> HIDE DEF h
<1>3. hs \in Seq(Holdings(I)) /\ DOMAIN hs = {1} /\ hs[1] = h
  BY <1>2
<1>4. \A x : Total(hs, x) = IF h.index = x THEN h.count ELSE 0
  BY <1>2, TotalOne
<1> HIDE DEF hs, s
<1>5. Len(s) = 1 /\ DOMAIN s = 1..1 /\ s[1].address = NoAddress /\ s[1].holds = hs
  BY <1>1
<1>6. \A k \in 1..1 : k = 1
  OBVIOUS
<1>7. Source(s, I)
  BY <1>3, <1>5, <1>6 DEF Source, Outputting, Everywhere
<1>8. HeldIndexes(s) = {h.index}
  <2>1. DOMAIN s = {1}
    BY <1>5, <1>6
  <2> QED BY <1>3, <1>5, <2>1 DEF HeldIndexes
<1>9. ASSUME NEW x PROVE TotalOf(s, Everywhere, x) = IF h.index = x THEN h.count ELSE 0
  <2> DEFINE f == Shares(s, Everywhere, x)
  <2>1. f[1] = Total(hs, x)
    <3>1. NoAddress \in Everywhere /\ 1 \in 1..1
      BY DEF Everywhere
    <3> QED BY <1>5, <3>1 DEF Shares
  <2>2. Numbers(f, 1)
    BY <1>5, <1>7, SharesNumbers DEF Source
  <2>3. TotalOf(s, Everywhere, x) = SumUp(f, 1)
    BY <1>5 DEF TotalOf
  <2> HIDE DEF f
  <2>4. SumUp(f, 1) = f[1]
    BY <1>6, <2>2, SumUpOne
  <2> QED BY <1>4, <2>1, <2>3, <2>4
<1> QED BY <1>2, <1>7, <1>8, <1>9 DEF s

\* Outputs without holdings.
LEMMA OutputsNone ==
    ASSUME NEW layout \in Layouts, NEW B, NEW x
    PROVE  Outputs(layout) \in Seq(Outs({})) /\ TotalOf(Outputs(layout), B, x) = 0
<1> DEFINE o == Outputs(layout)
<1>1. o \in Seq(Outs({})) /\ \A k \in DOMAIN o : o[k].holds = << >>
  BY OutputsTyped
<1> HIDE DEF o
<1>2. Len(o) \in Nat /\ DOMAIN o = 1..Len(o)
  BY <1>1
<1> QED BY <1>1, <1>2, TotalNone DEF o

\* A transfer begins with all of it left.
LEMMA StartedBalances ==
    ASSUME NEW I, NEW given, Source(given, I), NEW layout \in Layouts
    PROVE  LET m == Started(given, Outputs(layout)) IN
           /\ m \in Moves(HeldIndexes(given)) /\ m.burnt = << >>
           /\ \A x : Balance(m, given, x)
<1> DEFINE J == HeldIndexes(given)
           m == Started(given, Outputs(layout))
<1>1. Source(given, J)
  BY HeldTyped
<1>2. m \in Moves(J)
  BY <1>1, SourceTyped, StartedTyped
<1>3. m.left = Holding(given) /\ m.outs = Outputs(layout) /\ m.burnt = << >>
  BY DEF Started
<1> HIDE DEF m, J
<1>4. ASSUME NEW x PROVE Balance(m, given, x)
  <2>1. Left(m.left, x) = TotalOf(given, Everywhere, x) /\ TotalOf(given, Everywhere, x) \in Nat
    BY <1>1, <1>3, SourceTyped
  <2>2. TotalOf(m.outs, Everywhere, x) = 0
    BY <1>3, OutputsNone
  <2>3. Total(m.burnt, x) = 0
    BY <1>3, TotalEmpty
  <2> QED BY <2>1, <2>2, <2>3 DEF Balance
<1> QED BY <1>2, <1>3, <1>4 DEF m, J

LEMMA SaveFinite ==
    ASSUME CoinsFinite, NEW type, NEW unintended, NEW ins, NEW outs, Len(outs) \in Nat, DOMAIN outs = 1..Len(outs),
           NEW table, Save(type, unintended, ins, outs, table)
    PROVE  CoinsFinite' /\ BalanceOK'
<1> DEFINE After(c) == [c EXCEPT !.spent = @ \/ c \in ToSet(ins)]
           New(k) == [tx |-> made + 1, n |-> k - 1, address |-> outs[k].address, value |-> outs[k].value,
                      holds |-> outs[k].holds, issued |-> (type = "issuance"), spent |-> FALSE]
           D == {j \in DOMAIN outs : outs[j].address # NoAddress}
           S == Spend(ins)
           C == Create(outs, type = "issuance")
           f == [c \in coins |-> After(c)]
           g == [k \in D |-> New(k)]
<1>1. S = {After(c) : c \in coins} /\ C = {New(k) : k \in D}
  BY DEF Spend, Create
<1> HIDE DEF After, New
<1>2. f \in Surjection(coins, S) /\ g \in Surjection(D, C)
  BY <1>1 DEF Surjection
<1>3. IsFiniteSet(D)
  <2>1. IsFiniteSet(1..Len(outs))
    BY FS_Interval
  <2>2. D \subseteq 1..Len(outs)
    OBVIOUS
  <2> HIDE DEF D
  <2> QED BY <2>1, <2>2, FS_Subset
<1> HIDE DEF D, S, C, f, g
<1>4. IsFiniteSet(S) /\ IsFiniteSet(C)
  <2>1. IsFiniteSet(coins)
    BY DEF CoinsFinite
  <2> QED BY <1>2, <1>3, <2>1, FS_Surjection
<1>5. IsFiniteSet(S \cup C)
  BY <1>4, FS_Union
<1>6. coins' = S \cup C /\ tx' = NoTx
  BY DEF Save, S, C
<1>7. CoinsFinite'
  BY <1>5, <1>6 DEF CoinsFinite
<1>8. BalanceOK'
  BY <1>6 DEF BalanceOK
<1> QED BY <1>7, <1>8

\* A step that only goes on decoding keeps what the coins and the rows say.
LEMMA DecodingBalanced ==
    ASSUME CoinsFinite, NEW t, TxBalanced(t), tx' = t, rows' = rows, coins' = coins
    PROVE  CoinsFinite' /\ BalanceOK'
<1>1. CoinsFinite'
  BY DEF CoinsFinite
<1>2. Inputs' = Inputs
  BY DEF Inputs
<1>3. TxBalanced(tx)'
  <2>1. (tx.ins \in Inputs)'
    BY <1>2 DEF TxBalanced
  <2>2. (tx.given = IF tx.type = "issuance" THEN Supply(tx.asset) ELSE tx.ins)'
    BY DEF TxBalanced
  <2>3. (tx.type = "issuance" => tx.asset.index \in 0 .. Len(rows) /\ tx.asset.kind \in Kinds /\ tx.asset.count \in Nat)'
    BY DEF TxBalanced
  <2>4. (tx.move \in Moves(HeldIndexes(tx.given)))'
    <3>1. t.move \in Moves(HeldIndexes(t.given))
      BY DEF TxBalanced
    <3> QED BY <3>1
  <2>5. (tx.type # "burn" => tx.move.burnt = << >>)'
    BY DEF TxBalanced
  <2>6. (~tx.move.wrapped => \A x \in Indexes(tx) : Balance(tx.move, tx.given, x))'
    <3>1. Indexes(tx)' = Indexes(t)
      BY DEF Indexes
    <3>2. ~t.move.wrapped => \A x \in Indexes(t) : Balance(t.move, t.given, x)
      BY DEF TxBalanced
    <3>3. \A x : Balance(tx.move, tx.given, x)' = Balance(t.move, t.given, x)
      BY DEF Balance
    <3> QED BY <3>1, <3>2, <3>3
  <2> QED BY <2>1, <2>2, <2>3, <2>4, <2>5, <2>6 DEF TxBalanced
<1> QED BY <1>1, <1>3 DEF BalanceOK

LEMMA StoppedBalanced ==
    ASSUME CoinsFinite, tx' = NoTx, coins' = coins
    PROVE  CoinsFinite' /\ BalanceOK'
BY DEF CoinsFinite, BalanceOK

LEMMA IssueBalanced ==
    ASSUME IInv, CoinsFinite, Issue
    PROVE  CoinsFinite' /\ BalanceOK'
<1>2. PICK ins \in Inputs, layout \in Layouts, i \in Issuances :
        LET decoded == DecodeRules(i.opcode, i.statements, layout, watched)
            asset   == Issuing(i, ins, decoded.rules)
            invalid == i.kind = "invalid" \/ ~ValidCount(i)
        IN \/ /\ invalid \/ decoded.fault = "range"
              /\ Save("standard", Found(ins), ins, Outputs(layout), rows)
              /\ UNCHANGED kyc
           \/ ~invalid /\ decoded.fault = "insert" /\ Stop("feed") /\ UNCHANGED watched
           \/ /\ ~invalid /\ decoded.fault = "none"
              /\ tx' = [type |-> "issuance", legacy |-> FALSE, ins |-> ins, given |-> Supply(asset),
                        asset |-> asset, read |-> 0, move |-> Started(Supply(asset), Outputs(layout))]
              /\ UNCHANGED <<rows, coins, kyc, votes, watched, height, made, stuck, last>>
  BY DEF Issue
<1> DEFINE decoded == DecodeRules(i.opcode, i.statements, layout, watched)
           asset   == Issuing(i, ins, decoded.rules)
           invalid == i.kind = "invalid" \/ ~ValidCount(i)
           given   == Supply(asset)
           move    == Started(given, Outputs(layout))
           t == [type |-> "issuance", legacy |-> FALSE, ins |-> ins, given |-> given,
                 asset |-> asset, read |-> 0, move |-> move]
<1>3. CASE Save("standard", Found(ins), ins, Outputs(layout), rows)
  <2> DEFINE o == Outputs(layout)
  <2>1. o \in Seq(Outs({}))
    BY OutputsNone
  <2>2. Len(o) \in Nat /\ DOMAIN o = 1..Len(o)
    <3> HIDE DEF o
    <3> QED BY <2>1
  <2> QED BY <1>3, <2>2, SaveFinite
<1>4. CASE Stop("feed")
  BY <1>4, StoppedBalanced DEF Stop
<1>5. CASE ~invalid /\ tx' = t /\ rows' = rows /\ coins' = coins
  <2>1. asset.index \in 0 .. Len(rows) /\ asset.kind \in Kinds /\ asset.count \in Nat
    <3>1. i.kind # "invalid"
      BY <1>5
    <3> HIDE DEF decoded
    <3> QED BY <3>1, IssuingTyped
  <2>2. tx' = t /\ rows' = rows /\ coins' = coins
    BY <1>5
  <2> HIDE DEF asset
  <2>3. Source(given, 0..Len(rows))
    BY <2>1, SupplySource
  <2> HIDE DEF given
  <2>4. move \in Moves(HeldIndexes(given)) /\ move.burnt = << >> /\ \A x : Balance(move, given, x)
    BY <2>3, StartedBalances
  <2> HIDE DEF move
  <2>5. TxBalanced(t)
    <3>1. /\ t.type = "issuance" /\ t.ins = ins /\ t.given = given /\ t.asset = asset /\ t.move = move
      OBVIOUS
    <3> HIDE DEF t
    <3> QED BY <2>1, <2>4, <3>1 DEF TxBalanced, given
  <2> HIDE DEF t
  <2> QED BY <2>2, <2>5, DecodingBalanced
<1> QED BY <1>2, <1>3, <1>4, <1>5

LEMMA MoveBalanced ==
    ASSUME IInv, CoinsFinite, Move
    PROVE  CoinsFinite' /\ BalanceOK'
<1>1. rows' = rows /\ coins' = coins
  BY DEF Move
<1>2. PICK ins \in Inputs, layout \in Layouts, type \in {"transfer", "burn"}, v \in Versions :
        tx' = [type |-> type, legacy |-> Legacy(v, ins), ins |-> ins, given |-> ins, asset |-> << >>,
               read |-> 0, move |-> Started(ins, Outputs(layout))]
  BY DEF Move
<1> DEFINE move == Started(ins, Outputs(layout))
           t == [type |-> type, legacy |-> Legacy(v, ins), ins |-> ins, given |-> ins, asset |-> << >>,
                 read |-> 0, move |-> move]
<1>3. Source(ins, 1..Len(rows))
  BY InputsAre
<1>4. move \in Moves(HeldIndexes(ins)) /\ move.burnt = << >> /\ \A x : Balance(move, ins, x)
  BY <1>3, StartedBalances
<1>5. tx' = t
  BY <1>2
<1> HIDE DEF move
<1>6. TxBalanced(t)
  <2>1. t.type = type /\ t.ins = ins /\ t.given = ins /\ t.move = move /\ type # "issuance"
    OBVIOUS
  <2> HIDE DEF t
  <2> QED BY <1>4, <2>1 DEF TxBalanced
<1> HIDE DEF t
<1> QED BY <1>1, <1>5, <1>6, DecodingBalanced

\* What a transaction that is being decoded draws on.
LEMMA GivenSource ==
    ASSUME IInv, NEW t, IsTx(t), TxBalanced(t)
    PROVE  /\ Source(t.given, HeldIndexes(t.given)) /\ HeldIndexes(t.given) \subseteq Indexes(t)
           /\ t.type = "issuance" => HeldIndexes(t.given) = {t.asset.index}
<1>1. CASE t.type = "issuance"
  <2>1. t.given = Supply(t.asset) /\ t.asset.index \in 0..Len(rows) /\ t.asset.kind \in Kinds /\ t.asset.count \in Nat
    BY <1>1 DEF TxBalanced
  <2> DEFINE a == t.asset
             g == t.given
  <2>2. g = Supply(a) /\ a.index \in 0..Len(rows) /\ a.kind \in Kinds /\ a.count \in Nat
    BY <2>1
  <2> HIDE DEF a, g
  <2>3. Source(g, 0..Len(rows)) /\ HeldIndexes(g) = {a.index}
    BY <2>2, SupplySource
  <2>4. Source(g, HeldIndexes(g)) /\ HeldIndexes(g) \subseteq 0..Len(rows)
    BY <2>3, HeldTyped
  <2> QED BY <1>1, <2>3, <2>4 DEF Indexes, a, g
<1>2. CASE t.type # "issuance"
  <2> DEFINE g == t.given
  <2>1. g \in Inputs
    BY <1>2 DEF TxBalanced
  <2> HIDE DEF g
  <2>2. Source(g, 1..Len(rows))
    BY <2>1, InputsAre
  <2>3. Source(g, HeldIndexes(g)) /\ HeldIndexes(g) \subseteq 1..Len(rows)
    BY <2>2, HeldTyped
  <2> QED BY <1>2, <2>3 DEF Indexes, g
<1> QED BY <1>1, <1>2

LEMMA ReadInstructionBalanced ==
    ASSUME BInv, ReadInstruction
    PROVE  CoinsFinite' /\ BalanceOK'
<1>1. tx # NoTx /\ tx.read < MaxInstructions /\ rows' = rows /\ coins' = coins
  BY DEF ReadInstruction
<1>2. IsTx(tx) /\ TxBalanced(tx) /\ IInv /\ CoinsFinite
  BY <1>1 DEF BInv, IInv, TxOK, BalanceOK
<1>3. PICK i \in Instructions :
        tx' = [tx EXCEPT !.read = @ + 1,
                         !.move = IF tx.legacy THEN [@ EXCEPT !.stopped = TRUE]
                                               ELSE Instruct(@, i, tx.type, tx.given)]
  BY DEF ReadInstruction
<1> DEFINE J == HeldIndexes(tx.given)
           given == tx.given
           m == tx.move
           stopped == [m EXCEPT !.stopped = TRUE]
           told == Instruct(m, i, tx.type, given)
           move == IF tx.legacy THEN stopped ELSE told
           t == WithMove(tx, move)
           Right(q) == /\ q \in Moves(J)
                       /\ tx.type # "burn" => q.burnt = << >>
                       /\ ~q.wrapped => \A x \in Indexes(tx) : Balance(q, given, x)
<1>4. tx' = t
  BY <1>3 DEF WithMove
<1>5. Source(given, J)
  BY <1>2, GivenSource
<1>6. Right(m)
  BY <1>2 DEF TxBalanced
<1>7. m \in Moves(J) /\ Holding(given) \in Seq(Seq(Holdings(J)))
  BY <1>5, <1>6, SourceTyped
<1> HIDE DEF J, given, m
<1>8. Right(stopped)
  <2>1. /\ stopped \in Moves(J) /\ stopped.left = m.left /\ stopped.outs = m.outs /\ stopped.burnt = m.burnt
        /\ stopped.wrapped = m.wrapped
    BY <1>7 DEF Moves
  <2> HIDE DEF stopped
  <2> QED BY <1>6, <2>1 DEF Balance
<1>9. Right(told)
  <2>1. told \in Moves(J)
    BY <1>7, InstructTyped
  <2>2. ASSUME NEW x
        PROVE  /\ (~m.wrapped => Balance(m, given, x)) => (~told.wrapped => Balance(told, given, x))
               /\ tx.type # "burn" /\ m.burnt = << >> => told.burnt = << >>
    BY <1>5, <1>7, InstructBalances
  <2> HIDE DEF told, stopped, move, t
  <2>b. tx.type # "burn" /\ m.burnt = << >> => told.burnt = << >>
    BY <2>2, Zenon
  <2>m. /\ tx.type # "burn" => m.burnt = << >>
        /\ ~m.wrapped => \A x \in Indexes(tx) : Balance(m, given, x)
    BY <1>6
  <2> HIDE DEF Right
  <2>3. tx.type # "burn" => told.burnt = << >>
    BY <2>b, <2>m
  <2>4. ASSUME ~told.wrapped, NEW x \in Indexes(tx) PROVE Balance(told, given, x)
    <3>1. ~m.wrapped => Balance(m, given, x)
      BY <2>m
    <3>2. (~m.wrapped => Balance(m, given, x)) => (~told.wrapped => Balance(told, given, x))
      BY <2>2
    <3> QED BY <2>4, <3>1, <3>2
  <2> QED BY <2>1, <2>3, <2>4 DEF Right
<1> HIDE DEF stopped, told
<1>10. Right(move)
  BY <1>8, <1>9
<1> HIDE DEF move
<1>11. TxBalanced(t)
  <2>1. /\ t.type = tx.type /\ t.ins = tx.ins /\ t.given = tx.given /\ t.asset = tx.asset /\ t.move = move
    BY <1>2 DEF IsTx, WithMove
  <2>2. Indexes(t) = Indexes(tx)
    BY <2>1 DEF Indexes
  <2> HIDE DEF t
  <2> QED BY <1>2, <1>10, <2>1, <2>2 DEF TxBalanced, J, given
<1> HIDE DEF t
<1> QED BY <1>1, <1>2, <1>4, <1>11, DecodingBalanced

\* Outputs that are stored, whatever they hold.
LEMMA SaveOuts ==
    ASSUME CoinsFinite, NEW type, NEW unintended, NEW ins, NEW I, NEW outs \in Seq(Outs(I)), NEW table,
           Save(type, unintended, ins, outs, table)
    PROVE  CoinsFinite' /\ BalanceOK'
<1>1. Len(outs) \in Nat /\ DOMAIN outs = 1..Len(outs)
  BY OutsTyped DEF Outputting
<1> QED BY <1>1, SaveFinite

LEMMA StopFinite ==
    ASSUME CoinsFinite, NEW why, Stop(why)
    PROVE  CoinsFinite' /\ BalanceOK'
BY StoppedBalanced DEF Stop

LEMMA PlainBalanced ==
    ASSUME CoinsFinite, Plain
    PROVE  CoinsFinite' /\ BalanceOK'
<1>1. PICK ins \in Inputs, layout \in Layouts :
        Standard(ins, layout) \/ VerifyKyc(ins, layout) \/ RevokeKyc(ins, layout)
  BY DEF Plain
<1> DEFINE outs == Outputs(layout)
<1>2. outs \in Seq(Outs({}))
  BY OutputsNone
<1>3. \/ Save("standard", FALSE, ins, outs, rows)
      \/ Save("special", FALSE, ins, outs, rows)
      \/ Stop("kyc")
  BY <1>1 DEF Standard, VerifyKyc, RevokeKyc
<1> HIDE DEF outs
<1> QED BY <1>2, <1>3, SaveOuts, StopFinite

\* A transaction that is refused is stored with what it had.
LEMMA RefuseBalanced ==
    ASSUME CoinsFinite, NEW fault, NEW I, NEW outs \in Seq(Outs(I)), Refuse(fault, outs)
    PROVE  CoinsFinite' /\ BalanceOK'
<1> DEFINE s == IF fault = "rule" THEN Stripped(outs) ELSE outs
<1>1. Len(outs) \in Nat /\ DOMAIN outs = 1..Len(outs)
  BY OutsTyped DEF Outputting
<1>2. Len(s) \in Nat /\ DOMAIN s = 1..Len(s)
  BY <1>1 DEF Stripped
<1>3. Save("standard", fault = "rule", tx.ins, s, rows)
  BY DEF Refuse
<1> HIDE DEF s
<1> QED BY <1>2, <1>3, SaveFinite

\* The outputs of a transfer, its change and what is stored of them.
LEMMA FinishOuts ==
    ASSUME NEW I, NEW t \in Moves(I)
    PROVE  /\ t.outs \in Seq(Outs(I)) /\ GiveChange(t).outs \in Seq(Outs(I))
           /\ WithoutData(GiveChange(t).outs, NoAddress) \in Seq(Outs(I))
<1>1. t.outs \in Seq(Outs(I))
  BY DEF Moves
<1> DEFINE c == GiveChange(t)
<1>2. c \in Changes(I)
  BY ChangeTyped
<1> HIDE DEF c
<1>3. c.outs \in Seq(Outs(I))
  BY <1>2 DEF Changes
<1> DEFINE O == c.outs
<1>4. O \in Seq(Outs(I))
  BY <1>3
<1> HIDE DEF O
<1>5. WithoutData(O, NoAddress) \in Seq(Outs(I))
  BY <1>4, WithoutDataTyped
<1> QED BY <1>1, <1>4, <1>5 DEF O, c

LEMMA CutShortBalanced ==
    ASSUME BInv, CutShort
    PROVE  CoinsFinite' /\ BalanceOK'
<1>1. tx # NoTx /\ CoinsFinite /\ tx.move \in Moves(HeldIndexes(tx.given))
  BY DEF CutShort, BInv, BalanceOK, TxBalanced
<1>2. Stop("short") \/ Refuse("range", tx.move.outs)
  BY DEF CutShort
<1> DEFINE m == tx.move
           J == HeldIndexes(tx.given)
           o == m.outs
<1>3. m \in Moves(J)
  BY <1>1
<1> HIDE DEF m, J
<1>4. o \in Seq(Outs(J))
  BY <1>3, FinishOuts
<1>5. Stop("short") \/ Refuse("range", o)
  BY <1>2 DEF m
<1> HIDE DEF o
<1> QED BY <1>1, <1>4, <1>5, RefuseBalanced, StopFinite

LEMMA FinishBalanced ==
    ASSUME BInv, Finish
    PROVE  CoinsFinite' /\ BalanceOK'
<1> DEFINE m      == tx.move
           J      == HeldIndexes(tx.given)
           change == GiveChange(m)
           kept   == change.outs
           outs   == WithoutData(kept, NoAddress)
           burnt  == HoldsOnData(kept, NoAddress)
           fault  == Fault(kept)
           stored == Indexed(outs, IndexAdded(tx.asset))
<1>1. tx # NoTx /\ CoinsFinite /\ m \in Moves(J)
  BY DEF Finish, BInv, BalanceOK, TxBalanced
<1>2. \/ Stop("index")
      \/ Save("standard", Found(tx.ins), tx.ins, kept, rows)
      \/ Save("issuance", burnt \/ Found(tx.ins), tx.ins, stored, AddAsset(tx.asset))
      \/ Save(tx.type, burnt, tx.ins, outs, rows)
      \/ Refuse(fault, kept)
  BY DEF Finish, Unindexed
<1> HIDE DEF m, J
<1>3. kept \in Seq(Outs(J)) /\ outs \in Seq(Outs(J))
  BY <1>1, FinishOuts
<1> HIDE DEF change, kept
<1>4. Len(outs) \in Nat /\ DOMAIN outs = 1..Len(outs)
  <2> HIDE DEF outs
  <2> QED BY <1>3, OutsTyped DEF Outputting
<1> HIDE DEF outs, burnt, fault
<1>5. Len(stored) \in Nat /\ DOMAIN stored = 1..Len(stored)
  BY <1>4 DEF Indexed
<1> HIDE DEF stored
<1> QED BY <1>1, <1>2, <1>3, <1>4, <1>5, SaveOuts, SaveFinite, RefuseBalanced, StopFinite

LEMMA BInvInit == Init => BInv
<1> SUFFICES ASSUME Init PROVE BInv
  OBVIOUS
<1>1. tx = NoTx /\ \E g \in Genesis : coins = g.coins
  BY DEF Init
<1>2. CoinsFinite
  BY <1>1, GenesisAssumption DEF CoinsFinite
<1> QED BY <1>1, <1>2, IInvInit DEF BInv, BalanceOK

LEMMA BInvNext == BInv /\ [Next]_vars => BInv'
<1> SUFFICES ASSUME BInv, [Next]_vars PROVE CoinsFinite' /\ BalanceOK'
  BY IInvNext DEF BInv
<1>1. IInv /\ CoinsFinite /\ BalanceOK
  BY DEF BInv
<1>2. CASE Plain
  BY <1>1, <1>2, PlainBalanced
<1>3. CASE Issue
  BY <1>1, <1>3, IssueBalanced
<1>4. CASE Move
  BY <1>1, <1>4, MoveBalanced
<1>5. CASE ReadInstruction
  BY <1>5, ReadInstructionBalanced
<1>6. CASE Finish
  BY <1>6, FinishBalanced
<1>7. CASE CutShort
  BY <1>7, CutShortBalanced
<1>8. CASE tx' = tx /\ rows' = rows /\ coins' = coins
  <2>1. CASE tx = NoTx
    BY <1>1, <1>8, <2>1, StoppedBalanced
  <2>2. CASE tx # NoTx
    <3> DEFINE t == tx
    <3>1. TxBalanced(t) /\ tx' = t
      BY <1>1, <1>8, <2>2 DEF BalanceOK
    <3> HIDE DEF t
    <3> QED BY <1>1, <1>8, <3>1, DecodingBalanced
  <2> QED BY <2>1, <2>2
<1>9. CASE NextBlock
  BY <1>8, <1>9 DEF NextBlock
<1>10. CASE UNCHANGED vars
  BY <1>8, <1>10 DEF vars
<1> QED BY <1>2, <1>3, <1>4, <1>5, <1>6, <1>7, <1>9, <1>10 DEF Next

LEMMA BInvHolds == Spec => []BInv
BY BInvInit, BInvNext, PTL DEF Spec

-----------------------------------------------------------------------------
(* What a transaction leaves the addresses                                   *)

LEMMA SumUpZero ==
    ASSUME NEW n \in Nat, NEW f, \A k \in 1..n : f[k] = 0
    PROVE  SumUp(f, n) = 0
<1>1. Adding(f, f, f, n) /\ Numbers(f, n)
  BY DEF Adding, Numbers
<1>2. SumUp(f, n) = SumUp(f, n) + SumUp(f, n)
  BY <1>1, SumUpAdds
<1>3. SumUp(f, n) \in Int
  <2>1. n \in 0..n
    OBVIOUS
  <2> QED BY <1>1, <2>1, SumUpSteps
<1> DEFINE s == SumUp(f, n)
<1>4. s = s + s /\ s \in Int
  BY <1>2, <1>3
<1> HIDE DEF s
<1>5. s = 0
  BY <1>4
<1> QED BY <1>5 DEF s

\* Fewer addresses hold less, unless the others hold nothing.
LEMMA TotalWithin ==
    ASSUME NEW I, NEW s, Outputting(s, I), NEW B, NEW A \in SUBSET B, NEW x
    PROVE  /\ TotalOf(s, A, x) \in Nat /\ TotalOf(s, B, x) \in Nat
           /\ TotalOf(s, A, x) <= TotalOf(s, B, x)
           /\ (\A k \in 1..Len(s) : s[k].address \in B \ A => s[k].holds = << >>)
                => TotalOf(s, A, x) = TotalOf(s, B, x)
<1> DEFINE n == Len(s)
           f == Shares(s, A, x)
           g == Shares(s, B, x)
<1>1. n \in Nat /\ Numbers(f, n) /\ Numbers(g, n) /\ \A k \in 1..n : Total(s[k].holds, x) \in Nat
  BY SharesNumbers DEF Outputting
<1>2. \A k \in 1..n : /\ f[k] = IF s[k].address \in A THEN Total(s[k].holds, x) ELSE 0
                      /\ g[k] = IF s[k].address \in B THEN Total(s[k].holds, x) ELSE 0
  BY DEF Shares
<1>3. TotalOf(s, A, x) = SumUp(f, n) /\ TotalOf(s, B, x) = SumUp(g, n)
  BY DEF TotalOf
<1>4. TotalOf(s, A, x) \in Nat /\ TotalOf(s, B, x) \in Nat
  BY SharesNumbers
<1> HIDE DEF f, g, n
<1>5. \A k \in 1..n : f[k] <= g[k]
  BY <1>1, <1>2
<1>6. SumUp(f, n) <= SumUp(g, n)
  BY <1>1, <1>5, SumUpLess
<1>7. ASSUME \A k \in 1..n : s[k].address \in B \ A => s[k].holds = << >>
      PROVE  SumUp(f, n) = SumUp(g, n)
  <2>1. ASSUME NEW k \in 1..n PROVE f[k] = g[k]
    <3>1. CASE s[k].address \in B \ A
      <4>1. Total(s[k].holds, x) = 0
        BY <1>7, <3>1, TotalEmpty
      <4> QED BY <1>2, <3>1, <4>1
    <3>2. CASE s[k].address \notin B \ A
      BY <1>2, <3>2
    <3> QED BY <3>1, <3>2
  <2> QED BY <1>1, <2>1, SumUpSame
<1> QED BY <1>3, <1>4, <1>6, <1>7 DEF n

\* Taking the assets off the data leaves the addresses what they had.
LEMMA WithoutDataTotal ==
    ASSUME NEW I, NEW outs \in Seq(Outs(I)), NEW x
    PROVE  LET g == WithoutData(outs, NoAddress) IN
           /\ g \in Seq(Outs(I)) /\ TotalOf(g, Address, x) = TotalOf(outs, Address, x)
           /\ TotalOf(outs, Address, x) \in Nat /\ TotalOf(outs, Everywhere, x) \in Nat
           /\ TotalOf(outs, Address, x) <= TotalOf(outs, Everywhere, x)
           /\ ~HoldsOnData(outs, NoAddress) => TotalOf(outs, Address, x) = TotalOf(outs, Everywhere, x)
<1> DEFINE g == WithoutData(outs, NoAddress)
           n == Len(outs)
<1>1. Outputting(outs, I) /\ n \in Nat /\ DOMAIN outs = 1..n /\ \A k \in 1..n : outs[k].address \in Everywhere
  BY OutsTyped DEF Outputting
<1>2. NoAddress \notin Address /\ Address \subseteq Everywhere /\ \A a \in Everywhere \ Address : a = NoAddress
  BY LedgerAssumption DEF Everywhere
<1>3. g = [k \in 1..n |-> IF outs[k].address = NoAddress THEN [outs[k] EXCEPT !.holds = << >>] ELSE outs[k]]
  BY <1>1 DEF WithoutData
<1>4. Len(g) = n /\ \A k \in 1..n : /\ outs[k].address \in Address => g[k] = outs[k]
                                    /\ outs[k].address = NoAddress => g[k].address \notin Address
  <2>1. \A k \in 1..n : [outs[k] EXCEPT !.holds = << >>].address = outs[k].address
    <3>1. \A k \in 1..n : outs[k] \in Outs(I)
      BY OutsTyped
    <3>2. \A o \in Outs(I) : [o EXCEPT !.holds = << >>].address = o.address
      BY DEF Outs
    <3> QED BY <3>1, <3>2
  <2>2. Len(g) = n
    BY <1>1, <1>3
  <2> HIDE DEF n
  <2> QED BY <1>2, <1>3, <2>1, <2>2
<1>5. g \in Seq(Outs(I))
  BY WithoutDataTyped
<1>6. TotalOf(g, Address, x) = TotalOf(outs, Address, x)
  <2> DEFINE f == Shares(outs, Address, x)
             h == Shares(g, Address, x)
  <2>1. \A k \in 1..n : h[k] = f[k]
    <3>1. \A k \in 1..n : h[k] = IF g[k].address \in Address THEN Total(g[k].holds, x) ELSE 0
      BY <1>4 DEF Shares
    <3>2. \A k \in 1..n : f[k] = IF outs[k].address \in Address THEN Total(outs[k].holds, x) ELSE 0
      BY DEF Shares
    <3> HIDE DEF f, h, g, n
    <3> QED BY <1>1, <1>2, <1>4, <3>1, <3>2
  <2>2. Numbers(f, n)
    BY <1>1, SharesNumbers
  <2>3. TotalOf(g, Address, x) = SumUp(h, n) /\ TotalOf(outs, Address, x) = SumUp(f, n)
    BY <1>4 DEF TotalOf
  <2> HIDE DEF f, h, g, n
  <2>4. SumUp(h, n) = SumUp(f, n)
    BY <1>1, <2>1, <2>2, SumUpSame
  <2> QED BY <2>3, <2>4
<1>7. ~HoldsOnData(outs, NoAddress) => \A k \in 1..n : outs[k].address \in Everywhere \ Address => outs[k].holds = << >>
  BY <1>1, <1>2 DEF HoldsOnData
<1> HIDE DEF g
<1>8. /\ TotalOf(outs, Address, x) \in Nat /\ TotalOf(outs, Everywhere, x) \in Nat
      /\ TotalOf(outs, Address, x) <= TotalOf(outs, Everywhere, x)
      /\ (\A k \in 1..n : outs[k].address \in Everywhere \ Address => outs[k].holds = << >>)
                => TotalOf(outs, Address, x) = TotalOf(outs, Everywhere, x)
  BY <1>1, <1>2, TotalWithin
<1> QED BY <1>5, <1>6, <1>7, <1>8 DEF g

\* The holdings of one asset, given another index.
WithIndex(holds, k) == [y \in DOMAIN holds |-> [holds[y] EXCEPT !.index = k]]

TotalStays(holds, j, k, x) == Total(WithIndex(holds, k), x) = IF x = k THEN Total(holds, j) ELSE 0

LEMMA TotalIndexed ==
    ASSUME NEW j, NEW I, I = {j}, NEW holds \in Seq(Holdings(I)), NEW k, NEW x
    PROVE  TotalStays(holds, j, k, x)
<1> DEFINE n == Len(holds)
           l == WithIndex(holds, k)
           f == Parts(holds, j)
           g == Parts(l, x)
<1>1. Counting(holds) /\ n \in Nat /\ DOMAIN holds = 1..n /\ \A y \in 1..n : holds[y].index = j /\ holds[y] \in Holdings({j})
  BY HoldingsCount
<1>2. l = [y \in 1..n |-> [holds[y] EXCEPT !.index = k]]
  BY <1>1 DEF WithIndex
<1>3. ASSUME NEW y \in 1..n PROVE l[y].index = k /\ l[y].count = holds[y].count
  <2> DEFINE a == holds[y]
  <2>1. a \in Holdings({j})
    BY <1>1
  <2>2. l[y] = [a EXCEPT !.index = k]
    BY <1>2
  <2> HIDE DEF a, l
  <2>3. [a EXCEPT !.index = k].index = k /\ [a EXCEPT !.index = k].count = a.count
    BY <2>1 DEF Holdings
  <2> QED BY <2>2, <2>3 DEF a
<1>4. Len(l) = n /\ DOMAIN l = 1..n
  BY <1>1, <1>2
<1>5. Counting(l)
  BY <1>1, <1>3, <1>4 DEF Counting
<1>6. \A y \in 1..n : f[y] = holds[y].count /\ g[y] = IF k = x THEN holds[y].count ELSE 0
  BY <1>1, <1>3, <1>4 DEF Parts
<1> HIDE DEF n
<1>7. Total(holds, j) = SumUp(f, n) /\ Numbers(f, n)
  BY <1>1, TotalSum, PartsNumbers DEF n
<1> HIDE DEF l
<1>8. Total(l, x) = SumUp(g, n)
  BY <1>1, <1>4, <1>5, TotalSum
<1> HIDE DEF f, g
<1>9. CASE x = k
  <2>1. \A y \in 1..n : g[y] = f[y]
    BY <1>6, <1>9
  <2>2. SumUp(g, n) = SumUp(f, n)
    BY <1>1, <1>7, <2>1, SumUpSame
  <2> QED BY <1>7, <1>8, <1>9, <2>2 DEF l, TotalStays
<1>10. CASE x # k
  <2>1. \A y \in 1..n : g[y] = 0
    BY <1>6, <1>10
  <2>2. SumUp(g, n) = 0
    BY <1>1, <2>1, SumUpZero
  <2> QED BY <1>8, <1>10, <2>2 DEF l, TotalStays
<1> QED BY <1>9, <1>10

\* The outputs of an issuance hold under the index of its row what they held.
HoldsIts(stored, outs, j, k, B, x) ==
    stored \in Seq(Outs({k})) /\ TotalOf(stored, B, x) = IF x = k THEN TotalOf(outs, B, j) ELSE 0

LEMMA IndexedTotal ==
    ASSUME NEW j, NEW I, I = {j}, NEW outs \in Seq(Outs(I)), NEW k, NEW B, NEW x
    PROVE  HoldsIts(Indexed(outs, k), outs, j, k, B, x)
<1> DEFINE g == Indexed(outs, k)
           n == Len(outs)
           f == Shares(outs, B, j)
           h == Shares(g, B, x)
<1>1. /\ Outputting(outs, {j}) /\ n \in Nat /\ DOMAIN outs = 1..n
      /\ \A y \in 1..n : outs[y] \in Outs({j}) /\ outs[y].holds \in Seq(Holdings({j}))
  BY OutsTyped DEF Outputting
<1>2. g = [y \in 1..n |->
            [outs[y] EXCEPT !.holds = [z \in DOMAIN outs[y].holds |-> [outs[y].holds[z] EXCEPT !.index = k]]]]
  BY <1>1 DEF Indexed
<1>3. ASSUME NEW y \in 1..n
      PROVE  /\ g[y].address = outs[y].address /\ g[y] \in Outs({k})
             /\ Total(g[y].holds, x) = IF x = k THEN Total(outs[y].holds, j) ELSE 0
  <2> DEFINE o == outs[y]
             s == o.holds
             l == WithIndex(s, k)
  <2>1. o \in Outs({j}) /\ s \in Seq(Holdings({j}))
    BY <1>1
  <2>2. g[y] = [o EXCEPT !.holds = l]
    BY <1>2 DEF WithIndex
  <2> HIDE DEF o, s, g
  <2>3. l \in Seq(Holdings({k}))
    BY <2>1, HoldsIndexed DEF WithIndex
  <2>4. Total(l, x) = IF x = k THEN Total(s, j) ELSE 0
    <3>1. s \in Seq(Holdings({j}))
      BY <2>1
    <3> DEFINE L == {j}
    <3>2. L = {j} /\ s \in Seq(Holdings(L))
      BY <3>1
    <3> HIDE DEF L
    <3>3. TotalStays(s, j, k, x)
      BY <3>2, TotalIndexed
    <3> QED BY <3>3 DEF TotalStays
  <2> HIDE DEF l
  <2>5. [o EXCEPT !.holds = l].address = o.address /\ [o EXCEPT !.holds = l].holds = l /\ [o EXCEPT !.holds = l] \in Outs({k})
    BY <2>1, <2>3 DEF Outs
  <2> QED BY <2>2, <2>4, <2>5 DEF o, s
<1>4. Len(g) = n /\ DOMAIN g = 1..n
  BY <1>1, <1>2
<1>5. g \in Seq(Outs({k}))
  <2> DEFINE O == Outs({k})
  <2>1. g = [y \in 1..n |-> g[y]] /\ \A y \in 1..n : g[y] \in O
    BY <1>2, <1>3
  <2> HIDE DEF O, g, n
  <2>2. g \in [1..n -> O]
    BY <2>1
  <2>3. g \in Seq(O)
    BY <1>1, <2>2
  <2> QED BY <2>3 DEF O
<1>6. \A y \in 1..n : f[y] = IF outs[y].address \in B THEN Total(outs[y].holds, j) ELSE 0
  BY DEF Shares
<1>7. \A y \in 1..n : h[y] = IF g[y].address \in B THEN Total(g[y].holds, x) ELSE 0
  BY <1>4 DEF Shares
<1>8. Numbers(f, n) /\ TotalOf(outs, B, j) = SumUp(f, n) /\ TotalOf(g, B, x) = SumUp(h, n)
  BY <1>1, <1>4, SharesNumbers DEF TotalOf
<1> HIDE DEF f, g, h, n
<1>9. CASE x = k
  <2>1. \A y \in 1..n : h[y] = f[y]
    BY <1>3, <1>6, <1>7, <1>9
  <2>2. SumUp(h, n) = SumUp(f, n)
    BY <1>1, <1>8, <2>1, SumUpSame
  <2> QED BY <1>5, <1>8, <1>9, <2>2 DEF g, HoldsIts
<1>10. CASE x # k
  <2>1. \A y \in 1..n : h[y] = 0
    BY <1>3, <1>7, <1>10
  <2>2. SumUp(h, n) = 0
    BY <1>1, <2>1, SumUpZero
  <2> QED BY <1>5, <1>8, <1>10, <2>2 DEF g, HoldsIts
<1> QED BY <1>9, <1>10

\* What the addresses hold is what the outputs that are not spent do.
LEMMA HeldIs ==
    ASSUME IInv, IInv', NEW i
    PROVE  Held(i) = HeldIn(Address, i) /\ Held(i)' = Amount(Unspent(coins', Address), i)
<1>1. {c \in coins : ~c.spent} = Unspent(coins, Address)
  BY DEF Unspent, IInv, CoinsOK, CoinsOf
<1>2. {c \in coins' : ~c.spent} = Unspent(coins', Address)
  BY DEF Unspent, IInv, CoinsOK, CoinsOf
<1>3. Held(i) = Amount({c \in coins : ~c.spent}, i)
  BY DEF Held, Amount
<1>4. Held(i)' = Amount({c \in coins' : ~c.spent}, i)
  BY DEF Held, Amount, MapThenSumSet, MapThenFoldSet
<1> QED BY <1>1, <1>2, <1>3, <1>4 DEF HeldIn

\* A transaction that spends one and makes the other.
Settled(type, unintended, ins, outs, i) ==
    /\ Held(i) \in Nat /\ TotalOf(ins, Everywhere, i) \in Nat /\ TotalOf(outs, Address, i) \in Nat
    /\ Held(i)' = (Held(i) - TotalOf(ins, Everywhere, i)) + TotalOf(outs, Address, i)
    /\ ~Found(ins) => TotalOf(ins, Everywhere, i) = 0
    /\ last'.type = type
    /\ ~IsUnintentionalBurn(last') => ~unintended /\ (type = "standard" => ~Found(ins))

LEMMA SaveSettles ==
    ASSUME IInv, IInv', CoinsFinite, NEW type, NEW unintended, NEW ins \in Inputs, NEW I, NEW outs \in Seq(Outs(I)),
           NEW table, Save(type, unintended, ins, outs, table), NEW i
    PROVE  Settled(type, unintended, ins, outs, i)
<1> DEFINE A == Address
           h == HeldIn(A, i)
           n == Amount(Unspent(coins', A), i)
           t == TotalOf(ins, A, i)
           o == TotalOf(outs, A, i)
<1>1. A \in SUBSET Address
  OBVIOUS
<1>2. Held(i) = h /\ Held(i)' = n
  BY HeldIs
<1>3. /\ HeldIn(A, i)' = Amount(Unspent(coins', A), i)
      /\ HeldIn(A, i) \in Nat /\ TotalOf(ins, A, i) \in Nat /\ TotalOf(outs, A, i) \in Nat
      /\ TotalOf(ins, A, i) <= HeldIn(A, i)
      /\ HeldIn(A, i)' = (HeldIn(A, i) - TotalOf(ins, A, i)) + TotalOf(outs, A, i)
  <2> HIDE DEF A
  <2> QED BY <1>1, SaveMoves
<1>4. h \in Nat /\ t \in Nat /\ o \in Nat /\ n = (h - t) + o
  BY <1>3
<1>5. Outputting(ins, 1..Len(rows)) /\ \A k \in 1..Len(ins) : ins[k].address \in A
  BY InputsAre
<1>6. TotalOf(ins, Everywhere, i) = t
  <2>1. A \in SUBSET Everywhere
    BY DEF Everywhere
  <2>2. \A k \in 1..Len(ins) : ins[k].address \in Everywhere \ A => ins[k].holds = << >>
    BY <1>5
  <2> HIDE DEF A
  <2> QED BY <1>5, <2>1, <2>2, TotalWithin
<1>7. ~Found(ins) => TotalOf(ins, Everywhere, i) = 0
  <2>1. ASSUME ~Found(ins) PROVE TotalOf(ins, Everywhere, i) = 0
    <3>1. Len(ins) \in Nat /\ \A k \in 1..Len(ins) : ins[k].holds = << >>
      BY <1>5, <2>1 DEF Found, Outputting
    <3> QED BY <3>1, TotalNone
  <2> QED BY <2>1
<1>8. last' = [type |-> type, unintended |-> unintended, found |-> Found(ins)]
  BY DEF Save
<1>9. /\ last'.type = type
      /\ ~IsUnintentionalBurn(last') => ~unintended /\ (type = "standard" => ~Found(ins))
  BY <1>8 DEF IsUnintentionalBurn
<1> HIDE DEF h, n, t
<1> QED BY <1>2, <1>4, <1>6, <1>7, <1>9 DEF Settled

\* What a transaction leaves the addresses of one asset is what it should.
Due(i) == IF tx = NoTx \/ last'.type # tx.type THEN Held(i) ELSE Held(i) + Minted(i) - Burnt(i)

Balances(i) == Held(i)' <= Due(i) /\ (~IsUnintentionalBurn(last') => Held(i)' = Due(i))

\* A transaction that is not stored as what it was creates nothing.
LEMMA StandardBalances ==
    ASSUME TxOK, NEW unintended, NEW ins, NEW outs, NEW i, Settled("standard", unintended, ins, outs, i),
           TotalOf(outs, Address, i) <= TotalOf(ins, Everywhere, i)
    PROVE  Balances(i)
<1>1. Due(i) = Held(i)
  BY DEF Due, Settled, TxOK, IsTx
<1> QED BY <1>1 DEF Settled, Balances

\* The holdings of a transfer, its change given.
Spread(m, given, i) ==
    LET kept == GiveChange(m).outs IN
    /\ TotalOf(kept, Address, i) \in Nat /\ TotalOf(kept, Everywhere, i) \in Nat
    /\ TotalOf(given, Everywhere, i) \in Nat /\ Total(m.burnt, i) \in Nat
    /\ TotalOf(kept, Address, i) <= TotalOf(kept, Everywhere, i)
    /\ ~HoldsOnData(kept, NoAddress) => TotalOf(kept, Address, i) = TotalOf(kept, Everywhere, i)
    /\ TotalOf(kept, Everywhere, i) + Total(m.burnt, i) <= TotalOf(given, Everywhere, i)
    /\ ~GiveChange(m).unknown => TotalOf(kept, Everywhere, i) + Total(m.burnt, i) = TotalOf(given, Everywhere, i)

LEMMA MoveSpreads ==
    ASSUME NEW I, NEW m \in Moves(I), NEW given, NEW i, Balance(m, given, i)
    PROVE  Spread(m, given, i) /\ (0 \notin I => ~GiveChange(m).unknown)
<1> DEFINE c == GiveChange(m)
           kept == c.outs
           g == TotalOf(given, Everywhere, i)
           l == Left(m.left, i)
           o == TotalOf(m.outs, Everywhere, i)
           b == Total(m.burnt, i)
           k == TotalOf(kept, Everywhere, i)
           a == TotalOf(kept, Address, i)
<1>1. l \in Nat /\ o \in Nat /\ b \in Nat
  BY MovesTotals
<1>2. l + o + b = g
  BY DEF Balance
<1>3. ChangeDone(c, m, l, i, I)
  BY ChangeMoves
<1>4. k <= o + l /\ (~c.unknown => k = o + l) /\ (0 \notin I => ~c.unknown)
  BY <1>3 DEF ChangeDone
<1>5. kept \in Seq(Outs(I))
  BY FinishOuts
<1> HIDE DEF l, o, b, g, kept
<1>6. a \in Nat /\ k \in Nat /\ a <= k /\ (~HoldsOnData(kept, NoAddress) => a = k)
  BY <1>5, WithoutDataTotal
<1> HIDE DEF a, k
<1>7. g \in Nat /\ k + b <= g /\ (~c.unknown => k + b = g)
  BY <1>1, <1>2, <1>4, <1>6
<1> QED BY <1>1, <1>4, <1>6, <1>7 DEF Spread, a, k, g, b, kept, c

\* A transaction that is refused leaves its holdings with the addresses or loses them.
LEMMA RefuseBalances ==
    ASSUME IInv, IInv', CoinsFinite, tx # NoTx, tx.ins \in Inputs, NEW fault, NEW I, NEW outs \in Seq(Outs(I)),
           Refuse(fault, outs), NEW i, TotalOf(outs, Everywhere, i) <= TotalOf(tx.ins, Everywhere, i)
    PROVE  Balances(i)
<1> DEFINE ins == tx.ins
           s == IF fault = "rule" THEN Stripped(outs) ELSE outs
           u == fault = "rule"
           g == TotalOf(ins, Everywhere, i)
           k == TotalOf(outs, Everywhere, i)
           a == TotalOf(outs, Address, i)
<1>1. ins \in Inputs /\ k <= g /\ TxOK
  BY DEF IInv
<1>2. s \in Seq(Outs(I))
  <2>1. Stripped(outs) \in Seq(Outs(I))
    <3>1. CASE outs = << >>
      <4>1. Stripped(outs) = outs
        BY <3>1 DEF Stripped
      <4> QED BY <4>1
    <3>2. CASE outs # << >>
      BY <3>2, StrippedTyped
    <3> QED BY <3>1, <3>2
  <2> QED BY <2>1
<1>3. Save("standard", u, ins, s, rows)
  BY DEF Refuse
<1> HIDE DEF ins
<1>4. a \in Nat /\ k \in Nat /\ a <= k
  BY WithoutDataTotal
<1>5. g \in Nat
  <2>1. Outputting(ins, 1..Len(rows))
    BY <1>1, InputsAre
  <2> QED BY <2>1, SharesNumbers
<1>6. TotalOf(Stripped(outs), Address, i) = 0
  BY StrippedNone
<1>7. TotalOf(s, Address, i) <= g
  <2> HIDE DEF k, g
  <2> QED BY <1>1, <1>4, <1>5, <1>6
<1> HIDE DEF s, u
<1>8. Settled("standard", u, ins, s, i)
  BY <1>1, <1>2, <1>3, SaveSettles
<1> QED BY <1>1, <1>7, <1>8, StandardBalances

LEMMA PlainBalances ==
    ASSUME IInv, IInv', CoinsFinite, tx = NoTx, NEW unintended, NEW ins \in Inputs, NEW layout \in Layouts,
           Save("standard", unintended, ins, Outputs(layout), rows), NEW i
    PROVE  Balances(i)
<1> DEFINE outs == Outputs(layout)
<1>1. outs \in Seq(Outs({})) /\ TotalOf(outs, Address, i) = 0
  BY OutputsNone
<1>2. Save("standard", unintended, ins, outs, rows)
  OBVIOUS
<1> HIDE DEF outs
<1>3. Settled("standard", unintended, ins, outs, i)
  BY <1>1, <1>2, SaveSettles
<1>4. TotalOf(outs, Address, i) <= TotalOf(ins, Everywhere, i)
  BY <1>1, <1>3 DEF Settled
<1> QED BY <1>3, <1>4, StandardBalances DEF IInv

\* What a transaction being decoded has and spreads.
LEMMA TxSpreads ==
    ASSUME BInv, tx # NoTx, ~tx.move.wrapped, NEW i \in Indexes(tx)
    PROVE  /\ IsTx(tx) /\ tx.ins \in Inputs /\ tx.move \in Moves(HeldIndexes(tx.given))
           /\ Spread(tx.move, tx.given, i) /\ Balance(tx.move, tx.given, i)
           /\ 0 \notin HeldIndexes(tx.given) => ~GiveChange(tx.move).unknown
<1>1. IsTx(tx) /\ TxBalanced(tx)
  BY DEF BInv, IInv, TxOK, BalanceOK
<1> DEFINE J == HeldIndexes(tx.given)
           m == tx.move
           given == tx.given
<1>2. m \in Moves(J) /\ Balance(m, given, i) /\ tx.ins \in Inputs
  BY <1>1 DEF TxBalanced
<1> HIDE DEF J, m, given
<1>3. Spread(m, given, i) /\ (0 \notin J => ~GiveChange(m).unknown)
  BY <1>2, MoveSpreads
<1> QED BY <1>1, <1>2, <1>3 DEF J, m, given

LEMMA CutShortBalances ==
    ASSUME BInv, IInv', CutShort, made' # made, ~tx.move.wrapped, NEW i \in 1..Len(rows)
    PROVE  Balances(i)
<1>1. tx # NoTx /\ IInv /\ CoinsFinite
  BY DEF CutShort, BInv
<1>2. IsTx(tx) /\ TxBalanced(tx)
  BY <1>1 DEF BInv, IInv, TxOK, BalanceOK
<1>3. tx.type # "issuance" /\ Refuse("range", tx.move.outs)
  BY DEF CutShort, Stop
<1>4. i \in Indexes(tx)
  BY <1>3 DEF Indexes
<1> DEFINE J == HeldIndexes(tx.given)
           m == tx.move
           ins == tx.ins
           outs == m.outs
           g == TotalOf(ins, Everywhere, i)
           o == TotalOf(outs, Everywhere, i)
           l == Left(m.left, i)
           b == Total(m.burnt, i)
<1>5. m \in Moves(J) /\ ins \in Inputs /\ tx.given = ins
  BY <1>2, <1>3 DEF TxBalanced
<1>6. Refuse("range", outs) /\ ins = tx.ins
  BY <1>3
<1>7. Balance(m, ins, i)
  BY <1>1, <1>4, <1>5, TxSpreads
<1> HIDE DEF m, J, ins
<1>8. l \in Nat /\ o \in Nat /\ b \in Nat /\ outs \in Seq(Outs(J))
  BY <1>5, MovesTotals
<1>9. l + o + b = g
  BY <1>7 DEF Balance
<1> HIDE DEF l, o, b, g
<1>10. o <= g
  BY <1>8, <1>9
<1> HIDE DEF outs
<1>11. TotalOf(outs, Everywhere, i) <= TotalOf(tx.ins, Everywhere, i) /\ tx.ins \in Inputs
  BY <1>10, <1>5, <1>6 DEF o, g
<1> QED BY <1>1, <1>6, <1>8, <1>11, RefuseBalances

\* What an issuance stores is the new asset, or less of it.
LEMMA IssuanceBalances ==
    ASSUME BInv, IInv', tx # NoTx, tx.type = "issuance", ~tx.move.wrapped, ~GiveChange(tx.move).unknown, NEW i,
           LET kept == GiveChange(tx.move).outs IN
           Save("issuance", HoldsOnData(kept, NoAddress) \/ Found(tx.ins), tx.ins,
                Indexed(WithoutData(kept, NoAddress), IndexAdded(tx.asset)), AddAsset(tx.asset))
    PROVE  Balances(i)
<1> DEFINE m == tx.move
           a == tx.asset
           j == a.index
           ins == tx.ins
           kept == GiveChange(m).outs
           data == HoldsOnData(kept, NoAddress)
           outs == WithoutData(kept, NoAddress)
           n == IndexAdded(a)
           stored == Indexed(outs, n)
           table == AddAsset(a)
           u == data \/ Found(ins)
           J == HeldIndexes(tx.given)
           given == tx.given
<1>1. IInv /\ CoinsFinite /\ IsTx(tx) /\ TxBalanced(tx)
  BY DEF BInv, IInv, TxOK, BalanceOK
<1>2. given = Supply(a) /\ j \in 0..Len(rows) /\ a.kind \in Kinds /\ a.count \in Nat /\ m.burnt = << >>
  BY <1>1 DEF TxBalanced
<1>3. j \in Indexes(tx)
  BY <1>2 DEF Indexes
<1>4. ins \in Inputs /\ m \in Moves(J) /\ Spread(m, given, j)
  BY <1>3, TxSpreads
<1>5. Save("issuance", u, ins, stored, table)
  OBVIOUS
<1>6. ~GiveChange(m).unknown
  OBVIOUS
<1>7. J = {j} /\ TotalOf(given, Everywhere, j) = a.count
  <2> DEFINE I == 0..Len(rows)
  <2>1. a.index \in I /\ given = Supply(a) /\ a.kind \in Kinds /\ a.count \in Nat
    BY <1>2
  <2> HIDE DEF I, a, given
  <2>2. HeldIndexes(Supply(a)) = {a.index} /\ TotalOf(Supply(a), Everywhere, a.index) = a.count
    BY <2>1, SupplySource
  <2> QED BY <2>1, <2>2 DEF given
<1>8. Due(i) = IF last'.type = "issuance" THEN Held(i) + (IF n = i THEN a.count ELSE 0) ELSE Held(i)
  <2> HIDE DEF n
  <2>1. Minted(i) = (IF n = i THEN a.count ELSE 0) /\ Burnt(i) = 0
    BY DEF Minted, Burnt, n
  <2>2. last'.type = "issuance"
    BY <1>5 DEF Save
  <2>3. Held(i) \in Int
    <3>1. Held(i) = HeldIn(Address, i)
      BY <1>1, HeldIs
    <3> DEFINE S == Unspent(coins, Address)
    <3>2. S \in SUBSET coins /\ HeldIn(Address, i) = Amount(S, i)
      BY DEF Unspent, HeldIn
    <3> HIDE DEF S
    <3>3. Countable(S, i)
      BY <1>1, <3>2, UnspentCountable
    <3>4. Amount(S, i) \in Nat
      BY <3>3, SumSteps
    <3> QED BY <3>1, <3>2, <3>4
  <2> QED BY <1>2, <2>1, <2>2, <2>3 DEF Due
<1> HIDE DEF m, given, ins
<1>9. kept \in Seq(Outs(J)) /\ outs \in Seq(Outs(J))
  BY <1>4, FinishOuts
<1> DEFINE p == TotalOf(kept, Address, j)
<1>10. /\ p \in Nat /\ p <= a.count /\ (~data => p = a.count)
  <2>1. Total(m.burnt, j) = 0
    BY <1>2, TotalEmpty
  <2> QED BY <1>2, <1>4, <1>6, <1>7, <2>1 DEF Spread
<1>11. TotalOf(outs, Address, j) = p
  <2> HIDE DEF kept
  <2> QED BY <1>9, WithoutDataTotal
<1> HIDE DEF kept, data, outs, p, n
<1> DEFINE O == outs
<1>12. /\ stored \in Seq(Outs({n})) /\ TotalOf(stored, Address, i) = IF i = n THEN p ELSE 0
  <2>1. J = {j} /\ outs \in Seq(Outs(J))
    BY <1>7, <1>9
  <2> DEFINE A == Address
  <2> HIDE DEF j, J, A
  <2>2. HoldsIts(Indexed(outs, n), outs, j, n, A, i)
    BY <2>1, IndexedTotal
  <2> QED BY <1>11, <2>2 DEF HoldsIts, A
<1> HIDE DEF stored, table, u
<1>13. Settled("issuance", u, ins, stored, i)
  BY <1>1, <1>4, <1>5, <1>12, SaveSettles
<1>14. u = (data \/ Found(ins))
  BY DEF u
<1> DEFINE h == Held(i)
           g == TotalOf(ins, Everywhere, i)
           v == TotalOf(stored, Address, i)
           c == a.count
           q == IF n = i THEN c ELSE 0
<1>15. /\ h \in Nat /\ g \in Nat /\ v \in Nat /\ Held(i)' = (h - g) + v /\ last'.type = "issuance"
       /\ ~Found(ins) => g = 0
       /\ ~IsUnintentionalBurn(last') => ~data /\ ~Found(ins)
  BY <1>13, <1>14 DEF Settled
<1>16. v = (IF i = n THEN p ELSE 0) /\ Due(i) = h + q /\ c \in Nat
  BY <1>2, <1>8, <1>12, <1>15
<1>17. p \in Nat /\ p <= c /\ (~data => p = c)
  BY <1>10
<1> HIDE DEF h, g, v, c
<1>18. v <= q /\ q \in Nat /\ (~data => v = q)
  BY <1>16, <1>17
<1> HIDE DEF q
<1> QED BY <1>15, <1>16, <1>18 DEF Balances

\* What a transfer or a burn stores is what it spent and did not burn, or less.
LEMMA MovedBalances ==
    ASSUME BInv, IInv', tx # NoTx, tx.type # "issuance", ~tx.move.wrapped, NEW i \in 1..Len(rows),
           LET kept == GiveChange(tx.move).outs IN
           Save(tx.type, HoldsOnData(kept, NoAddress), tx.ins, WithoutData(kept, NoAddress), rows)
    PROVE  Balances(i)
<1> DEFINE m == tx.move
           ins == tx.ins
           type == tx.type
           kept == GiveChange(m).outs
           data == HoldsOnData(kept, NoAddress)
           outs == WithoutData(kept, NoAddress)
           J == HeldIndexes(tx.given)
           b == Total(m.burnt, i)
<1>1. IInv /\ CoinsFinite /\ IsTx(tx) /\ TxBalanced(tx)
  BY DEF BInv, IInv, TxOK, BalanceOK
<1>2. type \in {"transfer", "burn"} /\ tx.given = ins /\ (type # "burn" => m.burnt = << >>)
  BY <1>1 DEF TxBalanced, IsTx
<1>3. i \in Indexes(tx)
  BY DEF Indexes
<1>4. ins \in Inputs /\ m \in Moves(J) /\ Spread(m, ins, i) /\ ~GiveChange(m).unknown
  <2>1. J \subseteq Indexes(tx) /\ 0 \notin Indexes(tx)
    <3>1. 0 \notin 1..Len(rows)
      OBVIOUS
    <3>2. J \subseteq Indexes(tx)
      <4> DEFINE t == tx
      <4>1. IsTx(t) /\ TxBalanced(t)
        BY <1>1
      <4> HIDE DEF t
      <4>2. HeldIndexes(t.given) \subseteq Indexes(t)
        BY <1>1, <4>1, GivenSource
      <4> QED BY <4>2 DEF t
    <3> QED BY <3>1, <3>2 DEF Indexes
  <2> QED BY <1>2, <1>3, <2>1, TxSpreads
<1>5. Save(type, data, ins, outs, rows)
  OBVIOUS
<1>6. /\ last'.type = type => Due(i) = Held(i) + (0 - Burnt(i))
      /\ Burnt(i) = b
  <2>1. Minted(i) = 0
    BY DEF Minted
  <2>2. Burnt(i) = b
    <3>1. CASE type = "burn"
      BY <3>1 DEF Burnt
    <3>2. CASE type # "burn"
      BY <1>2, <3>2, TotalEmpty DEF Burnt
    <3> QED BY <3>1, <3>2
  <2>3. last'.type = type => Due(i) = Held(i) + (Minted(i) - Burnt(i))
    BY DEF Due
  <2> QED BY <2>1, <2>2, <2>3
<1> HIDE DEF m, ins, type
<1>7. kept \in Seq(Outs(J)) /\ outs \in Seq(Outs(J))
  BY <1>4, FinishOuts
<1> DEFINE k == TotalOf(kept, Everywhere, i)
           p == TotalOf(kept, Address, i)
           g == TotalOf(ins, Everywhere, i)
           h == Held(i)
<1>8. p \in Nat /\ k \in Nat /\ b \in Nat /\ g \in Nat /\ p <= k /\ (~data => p = k) /\ k + b = g
  BY <1>4 DEF Spread
<1>9. TotalOf(outs, Address, i) = p
  <2> HIDE DEF kept
  <2> QED BY <1>7, WithoutDataTotal
<1> HIDE DEF kept, data, outs, p, k, b
<1>10. Settled(type, data, ins, outs, i)
  BY <1>1, <1>4, <1>5, <1>7, SaveSettles
<1>11. /\ h \in Nat /\ Held(i)' = (h - g) + p /\ last'.type = type
       /\ ~IsUnintentionalBurn(last') => ~data
  BY <1>9, <1>10 DEF Settled
<1>12. Due(i) = h + (0 - b)
  BY <1>6, <1>11
<1> HIDE DEF h, g
<1>13. Held(i)' <= Due(i) /\ (~data => Held(i)' = Due(i))
  BY <1>8, <1>11, <1>12
<1> QED BY <1>11, <1>13 DEF Balances

LEMMA UnindexedBalances ==
    ASSUME BInv, IInv', tx # NoTx, NEW I, NEW outs \in Seq(Outs(I)), Unindexed(outs), made' # made, NEW i
    PROVE  Balances(i)
<1> DEFINE ins == tx.ins
           u == Found(ins)
           n == Len(outs)
<1>1. IInv /\ CoinsFinite /\ TxOK /\ ins \in Inputs
  BY DEF BInv, IInv, BalanceOK, TxBalanced
<1>2. ~\E k \in DOMAIN outs : outs[k].address # NoAddress /\ outs[k].holds # << >>
  BY DEF Unindexed, Stop
<1>3. Save("standard", u, ins, outs, rows)
  BY <1>2 DEF Unindexed
<1> HIDE DEF ins, u
<1>4. Settled("standard", u, ins, outs, i)
  BY <1>1, <1>3, SaveSettles
<1>5. TotalOf(outs, Address, i) = 0
  <2> DEFINE f == Shares(outs, Address, i)
  <2>1. n \in Nat /\ DOMAIN outs = 1..n
    BY OutsTyped DEF Outputting
  <2>2. \A k \in 1..n : outs[k].address \in Address => outs[k].holds = << >>
    BY <1>2, <2>1, LedgerAssumption
  <2>3. \A k \in 1..n : f[k] = 0
    BY <2>2, TotalEmpty DEF Shares
  <2>4. TotalOf(outs, Address, i) = SumUp(f, n)
    BY DEF TotalOf
  <2> HIDE DEF f, n
  <2> QED BY <2>1, <2>3, <2>4, SumUpZero
<1>6. TotalOf(outs, Address, i) <= TotalOf(ins, Everywhere, i)
  BY <1>4, <1>5 DEF Settled
<1> QED BY <1>1, <1>4, <1>6, StandardBalances

LEMMA FinishBalances ==
    ASSUME BInv, IInv', Finish, made' # made, ~tx.move.wrapped, NEW i \in DOMAIN rows'
    PROVE  Balances(i)
<1> DEFINE m      == tx.move
           ins    == tx.ins
           J      == HeldIndexes(tx.given)
           change == GiveChange(m)
           kept   == change.outs
           outs   == WithoutData(kept, NoAddress)
           data   == HoldsOnData(kept, NoAddress)
           fault  == Fault(kept)
<1>1. tx # NoTx /\ IInv /\ CoinsFinite /\ BalanceOK
  BY DEF Finish, BInv
<1>2. m \in Moves(J) /\ ins \in Inputs /\ (tx.type # "issuance" => tx.given = ins)
  BY <1>1 DEF BalanceOK, TxBalanced
<1>3. kept \in Seq(Outs(J))
  <2> HIDE DEF m, J
  <2> QED BY <1>2, FinishOuts
<1>4. CASE tx.type = "issuance" /\ change.unknown
  <2>1. Unindexed(kept)
    BY <1>4 DEF Finish
  <2> HIDE DEF kept, J
  <2> QED BY <1>1, <1>3, <2>1, UnindexedBalances
<1>5. CASE tx.type = "issuance" /\ ~change.unknown
  <2>1. Save("issuance", data \/ Found(ins), ins, Indexed(outs, IndexAdded(tx.asset)), AddAsset(tx.asset))
    BY <1>5 DEF Finish
  <2> QED BY <1>1, <1>5, <2>1, IssuanceBalances
<1>6. CASE tx.type # "issuance"
  <2>1. Save(tx.type, data, ins, outs, rows) \/ (fault # "none" /\ Refuse(fault, kept))
    BY <1>6 DEF Finish
  <2>2. rows' = rows
    BY <2>1 DEF Save, Refuse
  <2>3. i \in 1..Len(rows)
    <3>1. DOMAIN rows = 1..Len(rows)
      BY <1>1 DEF IInv, RowsOK, TableOK
    <3> QED BY <2>2, <3>1
  <2>4. CASE Save(tx.type, data, ins, outs, rows)
    BY <1>1, <1>6, <2>3, <2>4, MovedBalances
  <2>5. CASE Refuse(fault, kept)
    <3>1. i \in Indexes(tx)
      BY <1>6, <2>3 DEF Indexes
    <3>2. Spread(m, ins, i)
      BY <1>1, <1>2, <1>6, <3>1, TxSpreads
    <3> DEFINE k == TotalOf(kept, Everywhere, i)
               b == Total(m.burnt, i)
               g == TotalOf(ins, Everywhere, i)
    <3>3. k \in Nat /\ b \in Nat /\ g \in Nat /\ k + b <= g
      BY <3>2 DEF Spread
    <3> HIDE DEF b
    <3>4. TotalOf(kept, Everywhere, i) <= TotalOf(tx.ins, Everywhere, i) /\ tx.ins \in Inputs
      <4>1. k <= g
        <5> HIDE DEF k, g
        <5> QED BY <3>3
      <4> QED BY <4>1, <1>2
    <3> HIDE DEF kept, J, fault
    <3> QED BY <1>1, <1>3, <2>5, <3>4, RefuseBalances
  <2> QED BY <2>1, <2>4, <2>5
<1> QED BY <1>4, <1>5, <1>6

LEMMA BalanceStep ==
    ASSUME BInv, [Next]_vars, made' # made, last'.type # "special", ~(tx # NoTx /\ tx.move.wrapped),
           NEW i \in DOMAIN rows'
    PROVE  Balances(i)
<1>1. IInv /\ CoinsFinite /\ IInv'
  BY IInvNext DEF BInv
<1>2. CASE Plain
  <2>1. tx = NoTx
    BY <1>2 DEF Plain, Idle
  <2>2. PICK ins \in Inputs, layout \in Layouts :
          Standard(ins, layout) \/ VerifyKyc(ins, layout) \/ RevokeKyc(ins, layout)
    BY <1>2 DEF Plain
  <2>3. Save("standard", FALSE, ins, Outputs(layout), rows)
    BY <2>2 DEF Standard, VerifyKyc, RevokeKyc, Save, Stop
  <2> QED BY <1>1, <2>1, <2>3, PlainBalances
<1>3. CASE Issue
  <2>1. tx = NoTx
    BY <1>3 DEF Issue, Idle
  <2>2. PICK ins \in Inputs, layout \in Layouts : Save("standard", Found(ins), ins, Outputs(layout), rows)
    BY <1>3 DEF Issue, Stop
  <2> QED BY <1>1, <2>1, <2>2, PlainBalances
<1>4. CASE Finish
  <2>1. tx # NoTx
    BY <1>4 DEF Finish
  <2> QED BY <1>1, <1>4, <2>1, FinishBalances
<1>5. CASE CutShort
  <2>1. tx # NoTx /\ rows' = rows
    BY <1>5 DEF CutShort, Stop, Refuse, Save
  <2>2. i \in 1..Len(rows)
    <3>1. DOMAIN rows = 1..Len(rows)
      BY <1>1 DEF IInv, RowsOK, TableOK
    <3> QED BY <2>1, <3>1
  <2> QED BY <1>1, <1>5, <2>1, <2>2, CutShortBalances
<1>6. CASE Move \/ ReadInstruction \/ NextBlock \/ UNCHANGED vars
  BY <1>6 DEF Move, ReadInstruction, NextBlock, vars
<1> QED BY <1>2, <1>3, <1>4, <1>5, <1>6 DEF Next

\* No transaction makes assets out of nothing, and what it loses it reports,
\* whatever is issued, transferred and burnt, in any order (addToDatabase,
\* decodeAssetTransfer).
THEOREM AssetsBalanceHolds == Spec => AssetsBalance
<1>1. BInv /\ [Next]_vars =>
        [made' # made /\ last'.type # "special" /\ ~(tx # NoTx /\ tx.move.wrapped) =>
           \A i \in DOMAIN rows' :
             LET due == IF tx = NoTx \/ last'.type # tx.type THEN Held(i) ELSE Held(i) + Minted(i) - Burnt(i)
             IN Held(i)' <= due /\ (~IsUnintentionalBurn(last') => Held(i)' = due)]_vars
  <2> SUFFICES ASSUME BInv, [Next]_vars, made' # made, last'.type # "special", ~(tx # NoTx /\ tx.move.wrapped),
                      NEW i \in DOMAIN rows'
               PROVE  LET due == IF tx = NoTx \/ last'.type # tx.type THEN Held(i) ELSE Held(i) + Minted(i) - Burnt(i)
                      IN Held(i)' <= due /\ (~IsUnintentionalBurn(last') => Held(i)' = due)
    OBVIOUS
  <2>1. Balances(i)
    BY BalanceStep
  <2> QED BY <2>1 DEF Balances, Due
<1> QED BY <1>1, BInvHolds, PTL DEF Spec, AssetsBalance

-----------------------------------------------------------------------------
(* The amount an asset's rules burn                                          *)

\* Rules that state how much of the asset a transaction must burn.
Deflating(r) == "deflate" \in DOMAIN r /\ r.deflate \in Nat

Decoded(acc) == DOMAIN acc = {"fault", "rules"} /\ Deflating(acc.rules)

Stating(s) == s.code = "deflation" => s.amount \in Nat

LEMMA DecodeRulesDeflates ==
    ASSUME NEW r, Deflating(r), NEW s, NEW vout
    PROVE  /\ Deflating(DecodeApproval(r, s, vout)) /\ Deflating(DecodeRoyaltyUnits(r, s, vout))
           /\ Deflating(DecodeRoyalties(r, s, vout)) /\ Deflating(DecodeGeofence(r, s, TRUE))
           /\ Deflating(DecodeGeofence(r, s, FALSE)) /\ Deflating(DecodeVoteAndExpiry(r, s, vout))
<1>1. Deflating(DecodeApproval(r, s, vout))
  BY DEF DecodeApproval, Deflating
<1>2. Deflating(DecodeRoyaltyUnits(r, s, vout))
  BY DEF DecodeRoyaltyUnits, Deflating
<1>3. Deflating(DecodeRoyalties(r, s, vout))
  BY DEF DecodeRoyalties, Deflating
<1>4. Deflating(DecodeGeofence(r, s, TRUE)) /\ Deflating(DecodeGeofence(r, s, FALSE))
  BY DEF DecodeGeofence, Deflating
<1>5. Deflating(DecodeVoteAndExpiry(r, s, vout))
  BY DEF DecodeVoteAndExpiry, Deflating
<1> QED BY <1>1, <1>2, <1>3, <1>4, <1>5

LEMMA DecodeRuleDeflates ==
    ASSUME NEW acc, Decoded(acc), NEW s, Stating(s), NEW vout, NEW watch
    PROVE  Decoded(DecodeRule(acc, s, vout, watch))
<1> DEFINE r == acc.rules
           Royal(q) == IF RoyaltiesFit(s, vout) THEN [acc EXCEPT !.rules = DecodeRoyalties(q, s, vout)]
                                                ELSE [acc EXCEPT !.fault = "range"]
<1>1. Deflating(r)
  BY DEF Decoded
<1>2. ASSUME NEW q, Deflating(q) PROVE Decoded([acc EXCEPT !.rules = q])
  BY <1>2 DEF Decoded
<1>3. ASSUME NEW f PROVE Decoded([acc EXCEPT !.fault = f])
  BY DEF Decoded
<1>4. ASSUME NEW q, Deflating(q) PROVE Decoded(Royal(q))
  <2>1. Deflating(DecodeRoyalties(q, s, vout))
    BY <1>4, DecodeRulesDeflates
  <2> QED BY <1>2, <1>3, <2>1
<1>5. CASE acc.fault # "none"
  BY <1>5 DEF DecodeRule
<1>6. CASE acc.fault = "none" /\ s.code = "approval"
  <2>1. DecodeRule(acc, s, vout, watch) = [acc EXCEPT !.rules = DecodeApproval(r, s, vout)]
    BY <1>6 DEF DecodeRule
  <2> QED BY <1>1, <1>2, <2>1, DecodeRulesDeflates
<1>7. CASE acc.fault = "none" /\ s.code = "units"
  <2>1. DecodeRule(acc, s, vout, watch) =
          IF UnitsFault(s, vout, watch) # "none" THEN [acc EXCEPT !.fault = UnitsFault(s, vout, watch)]
          ELSE Royal(DecodeRoyaltyUnits(r, s, vout))
    BY <1>7 DEF DecodeRule
  <2>2. Decoded(Royal(DecodeRoyaltyUnits(r, s, vout)))
    <3>1. Deflating(DecodeRoyaltyUnits(r, s, vout))
      BY <1>1, DecodeRulesDeflates
    <3> HIDE DEF Royal
    <3> QED BY <1>4, <3>1
  <2> HIDE DEF Royal
  <2> QED BY <1>3, <2>1, <2>2
<1>8. CASE acc.fault = "none" /\ s.code = "royalties"
  <2>1. DecodeRule(acc, s, vout, watch) = Royal(r)
    BY <1>8 DEF DecodeRule
  <2> HIDE DEF Royal
  <2> QED BY <1>1, <1>4, <2>1
<1>9. CASE acc.fault = "none" /\ s.code \in {"allowed", "denied"}
  <2>1. \/ DecodeRule(acc, s, vout, watch) = [acc EXCEPT !.rules = DecodeGeofence(r, s, FALSE)]
        \/ DecodeRule(acc, s, vout, watch) = [acc EXCEPT !.rules = DecodeGeofence(r, s, TRUE)]
    BY <1>9 DEF DecodeRule
  <2> QED BY <1>1, <1>2, <2>1, DecodeRulesDeflates
<1>10. CASE acc.fault = "none" /\ s.code = "vote"
  <2>1. DecodeRule(acc, s, vout, watch) =
          IF r.rewritable THEN [acc EXCEPT !.fault = "range"] ELSE [acc EXCEPT !.rules = DecodeVoteAndExpiry(r, s, vout)]
    BY <1>10 DEF DecodeRule
  <2> QED BY <1>1, <1>2, <1>3, <2>1, DecodeRulesDeflates
<1>11. CASE acc.fault = "none" /\ s.code = "deflation"
  <2>1. DecodeRule(acc, s, vout, watch) = [acc EXCEPT !.rules = [r EXCEPT !.deflate = s.amount]]
    BY <1>11 DEF DecodeRule
  <2>2. Deflating([r EXCEPT !.deflate = s.amount])
    BY <1>1, <1>11 DEF Deflating, Stating
  <2> QED BY <1>2, <2>1, <2>2
<1>12. CASE acc.fault = "none" /\ s.code \notin {"approval", "units", "royalties", "allowed", "denied", "vote", "deflation"}
  <2>1. DecodeRule(acc, s, vout, watch) = [acc EXCEPT !.fault = "range"]
    BY <1>12 DEF DecodeRule
  <2> QED BY <1>3, <2>1
<1> QED BY <1>5, <1>6, <1>7, <1>8, <1>9, <1>10, <1>11, <1>12

\* The function the fold over the statements names exists: what it gives is of no
\* set that is closed under its step, so it is built here.
DecodingFold(g, n, base, q, vout, watch) ==
    g = [s \in SUBSET (1..n) |->
           IF s = {} THEN base ELSE DecodeRule(g[s \ {Max(s)}], q[Max(s)], vout, watch)]

LEMMA DecodingExists ==
    ASSUME NEW n \in Nat, NEW base, NEW q, NEW vout, NEW watch
    PROVE  \E g : DecodingFold(g, n, base, q, vout, watch)
<1> DEFINE D(x, k) == DecodeRule(x, q[k], vout, watch)
           Is(g, m) == /\ DOMAIN g = SUBSET (1..m) /\ g = [s \in DOMAIN g |-> g[s]]
                       /\ \A s \in SUBSET (1..m) : g[s] = IF s = {} THEN base ELSE D(g[s \ {Max(s)}], Max(s))
           P == {m \in 0..n : \E g : Is(g, m)}
<1> HIDE DEF D
<1>1. 0 \in P
  <2> DEFINE g == [s \in SUBSET (1..0) |-> base]
  <2>1. Is(g, 0)
    OBVIOUS
  <2> HIDE DEF g, Is
  <2> QED BY <2>1
<1>2. ASSUME NEW m \in 1..n, m - 1 \in P PROVE m \in P
  <2>1. PICK g : Is(g, m - 1)
    BY <1>2
  <2> DEFINE h == [s \in SUBSET (1..m) |-> IF m \in s THEN D(g[s \ {m}], m) ELSE g[s]]
  <2>2. ASSUME NEW s \in SUBSET (1..m), m \in s
        PROVE  s \ {m} \in SUBSET (1..(m - 1)) /\ Max(s) = m /\ h[s] = D(g[s \ {m}], m)
    <3>1. Max(s) = m
      BY <2>2, MaxOfUpTo
    <3>2. s \ {m} \in SUBSET (1..(m - 1))
      OBVIOUS
    <3>3. h[s] = D(g[s \ {m}], m)
      BY <2>2
    <3> HIDE DEF Is, h
    <3> QED BY <3>1, <3>2, <3>3
  <2>3. ASSUME NEW s \in SUBSET (1..m), m \notin s
        PROVE  s \in SUBSET (1..(m - 1)) /\ h[s] = g[s]
    <3> HIDE DEF Is
    <3> QED BY <2>3
  <2>4. DOMAIN h = SUBSET (1..m) /\ h = [s \in DOMAIN h |-> h[s]]
    OBVIOUS
  <2>5. ASSUME NEW s \in SUBSET (1..m)
        PROVE  h[s] = IF s = {} THEN base ELSE D(h[s \ {Max(s)}], Max(s))
    <3>1. CASE m \in s
      <4>1. m \notin s \ {m} /\ s \ {m} \in SUBSET (1..m)
        OBVIOUS
      <4>2. h[s \ {m}] = g[s \ {m}]
        BY <4>1, <2>3
      <4> HIDE DEF h, Is
      <4> QED BY <3>1, <4>2, <2>2
    <3>2. CASE s = {}
      <4>1. h[s] = g[s] /\ s \in SUBSET (1..(m - 1))
        BY <3>2, <2>3
      <4> HIDE DEF h
      <4> QED BY <3>2, <2>1, <4>1
    <3>3. CASE m \notin s /\ s # {}
      <4>1. h[s] = g[s] /\ s \in SUBSET (1..(m - 1))
        BY <3>3, <2>3
      <4>2. m \notin s \ {Max(s)} /\ s \ {Max(s)} \in SUBSET (1..m)
        BY <3>3
      <4>3. h[s \ {Max(s)}] = g[s \ {Max(s)}]
        BY <4>2, <2>3
      <4>4. g[s] = D(g[s \ {Max(s)}], Max(s))
        BY <3>3, <2>1, <4>1
      <4> HIDE DEF h, Is
      <4> QED BY <3>3, <4>1, <4>3, <4>4
    <3> QED BY <3>1, <3>2, <3>3
  <2>6. m \in 0..n
    OBVIOUS
  <2> HIDE DEF h
  <2>7. Is(h, m)
    BY <2>4, <2>5
  <2> HIDE DEF Is
  <2> QED BY <2>6, <2>7
<1> HIDE DEF P
<1>3. n \in P
  BY <1>1, <1>2, Climb
<1>4. PICK g : Is(g, n)
  BY <1>3 DEF P
<1>5. g = [s \in SUBSET (1..n) |-> IF s = {} THEN base ELSE D(g[s \ {Max(s)}], Max(s))]
  BY <1>4
<1>6. DecodingFold(g, n, base, q, vout, watch)
  BY <1>5 DEF D, DecodingFold
<1> QED BY <1>6

\* Decoded rules say how much is burnt.
LEMMA DecodedDeflates ==
    ASSUME NEW i \in Issuances, NEW vout, NEW watch
    PROVE  Deflating(DecodeRules(i.opcode, i.statements, vout, watch).rules)
<1> DEFINE q == i.statements
           n == Len(q)
           base == [fault |-> "none", rules |-> [NoRules EXCEPT !.none = FALSE, !.rewritable = (i.opcode = 3)]]
           It(f) == DecodingFold(f, n, base, q, vout, watch)
           it == CHOOSE f : It(f)
           d == DecodeRules(i.opcode, q, vout, watch)
<1>1. n \in Nat /\ DOMAIN q = 1..n /\ \A k \in 1..n : Stating(q[k])
  <2>1. q \in Seq(Range(q)) /\ \A k \in DOMAIN q : q[k].code = "deflation" => q[k].amount \in Nat
    BY LedgerAssumption
  <2> DEFINE R == Range(q)
  <2> HIDE DEF q, R
  <2> QED BY <2>1 DEF Stating
<1>2. Decoded(base) /\ Deflating(NoRules)
  BY DEF Decoded, Deflating, NoRules
<1>3. CASE i.opcode \notin {3, 4}
  BY <1>2, <1>3 DEF DecodeRules
<1>4. CASE i.opcode \in {3, 4}
  <2>1. d = (CHOOSE f : f = [s \in SUBSET (DOMAIN q) |->
              IF s = {} THEN base ELSE DecodeRule(f[s \ {Max(s)}], q[Max(s)], vout, watch)])[DOMAIN q]
    BY <1>4 DEF DecodeRules, FoldLeft, MapThenFoldSet
  <2>2. d = it[1..n]
    <3> HIDE DEF base, q, n, d
    <3> QED BY <1>1, <2>1 DEF DecodingFold
  <2> HIDE DEF base, q, n, d
  <2>3. It(it)
    <3>1. \E f : It(f)
      BY <1>1, DecodingExists
    <3> HIDE DEF It
    <3> QED BY <3>1
  <2> HIDE DEF it
  <2>4. it[{}] = base
    BY <2>3 DEF DecodingFold
  <2>5. ASSUME NEW m \in 1..n PROVE it[1..m] = DecodeRule(it[1..(m - 1)], q[m], vout, watch)
    <3>1. (1..m) \ {m} = 1..(m - 1) /\ 1..m # {} /\ 1..m \in SUBSET (1..n) /\ Max(1..m) = m
      BY <1>1, UpTo
    <3>2. it[1..m] = DecodeRule(it[(1..m) \ {Max(1..m)}], q[Max(1..m)], vout, watch)
      BY <2>3, <3>1 DEF DecodingFold
    <3> QED BY <3>1, <3>2
  <2> HIDE DEF It
  <2> DEFINE P == {m \in 0..n : Decoded(it[1..m])}
  <2>6. 0 \in P
    <3>1. 1..0 = {} /\ 0 \in 0..n
      BY <1>1
    <3> QED BY <1>2, <2>4, <3>1
  <2>7. ASSUME NEW m \in 1..n, m - 1 \in P PROVE m \in P
    <3>1. m \in 0..n
      BY <1>1
    <3>2. Decoded(it[1..(m - 1)]) /\ Stating(q[m])
      BY <1>1, <2>7
    <3>3. Decoded(DecodeRule(it[1..(m - 1)], q[m], vout, watch))
      BY <3>2, DecodeRuleDeflates
    <3> QED BY <2>5, <3>1, <3>3
  <2> HIDE DEF P
  <2>8. \A m \in 0..n : m \in P
    BY <1>1, <2>6, <2>7, Climb
  <2>9. n \in P
    BY <1>1, <2>8
  <2>10. Decoded(d)
    BY <2>2, <2>9 DEF P
  <2> QED BY <2>10 DEF Decoded, d, q
<1> QED BY <1>3, <1>4

\* The table gives back how much is burnt.
LEMMA StoredDeflates ==
    ASSUME NEW r, r.deflate \in Nat
    PROVE  Deserialize(Serialize(r)).deflate \in Nat
<1>1. CASE r.none
  <2>1. Deserialize(Serialize(r)) = NoRules
    <3> DEFINE parts == Serialize(r)
    <3>1. parts.flags = << >>
      BY <1>1 DEF Serialize, Part
    <3> HIDE DEF parts
    <3>2. Deserialize(parts) = NoRules
      BY <3>1, Zenon DEF Deserialize
    <3> QED BY <3>2 DEF parts
  <2> QED BY <2>1 DEF NoRules
<1>2. CASE ~r.none
  <2>1. Deserialize(Serialize(r)) = KeptRules(r)
    BY <1>2, GivenBack
  <2>2. KeptRules(r).deflate = Kept(r.deflate # 0, r.deflate, 0)
    BY DEF KeptRules
  <2> QED BY <2>1, <2>2 DEF Kept
<1> QED BY <1>1, <1>2

\* The rules in the table say how much is burnt, and those of an issuance do.
DeflateOK ==
    /\ \A k \in 1..Len(rows) : rows[k].rules.deflate \in Nat
    /\ tx # NoTx /\ tx.type = "issuance" => tx.asset.rules.deflate \in Nat

DInv == BInv /\ DeflateOK

LEMMA TableDeflates ==
    ASSUME IInv, DeflateOK, NEW asset, asset.rules.deflate \in Nat
    PROVE  \A k \in 1..Len(AddAsset(asset)) : AddAsset(asset)[k].rules.deflate \in Nat
<1> DEFINE x == Deserialize(Serialize(asset.rules))
           n == Len(rows)
           table == AddAsset(asset)
<1>1. x.deflate \in Nat
  BY StoredDeflates
<1>2. n \in Nat /\ DOMAIN rows = 1..n /\ \A k \in 1..n : IsRow(rows[k])
  BY DEF IInv, RowsOK, TableOK
<1>3. CASE Updates(asset)
  <2> DEFINE k == IndexAdded(asset)
             row == [rows[k] EXCEPT !.updated = height, !.rules = x]
  <2>1. table = [rows EXCEPT ![k] = row]
    BY <1>3 DEF AddAsset
  <2>2. k \in 1..n
    <3>1. k \in RowsWith(asset.id)
      BY <1>3 DEF Updates, IndexAdded
    <3> QED BY <1>2, <3>1 DEF RowsWith
  <2> HIDE DEF k, x, table
  <2>3. row.rules = x
    <3> DEFINE r == rows[k]
    <3>1. r = [id |-> r.id, kind |-> r.kind, locked |-> r.locked, rules |-> r.rules,
               created |-> r.created, updated |-> r.updated]
      BY <1>2, <2>2 DEF IsRow
    <3> HIDE DEF r
    <3>2. [r EXCEPT !.updated = height, !.rules = x].rules = x
      BY <3>1
    <3> QED BY <3>2 DEF r
  <2> HIDE DEF row
  <2>4. Len(table) = n /\ \A j \in 1..n : table[j] = IF j = k THEN row ELSE rows[j]
    <3>1. DOMAIN table = 1..n /\ \A j \in 1..n : table[j] = IF j = k THEN row ELSE rows[j]
      BY <1>2, <2>1, <2>2
    <3>2. rows \in Seq(Range(rows))
      BY DEF IInv, RowsOK, TableOK
    <3> DEFINE S == Range(rows) \cup {row}
    <3>3. rows \in Seq(S) /\ row \in S
      BY <3>2
    <3> HIDE DEF S
    <3>4. table \in Seq(S) /\ Len(table) = n
      BY <2>1, <2>2, <3>3
    <3> QED BY <3>1, <3>4
  <2> QED BY <1>1, <2>3, <2>4 DEF DeflateOK, table
<1>4. CASE ~Updates(asset)
  <2> DEFINE row == [id |-> asset.id, kind |-> asset.kind, locked |-> asset.locked,
                     rules |-> x, created |-> height, updated |-> height]
  <2>1. table = Append(rows, row)
    BY <1>4 DEF AddAsset
  <2>2. row.rules = x
    OBVIOUS
  <2> HIDE DEF row, x, table
  <2>3. Len(table) = n + 1 /\ table[n + 1] = row /\ \A j \in 1..n : table[j] = rows[j]
    <3>1. rows \in Seq(Range(rows))
      BY DEF IInv, RowsOK, TableOK
    <3> DEFINE S == Range(rows) \cup {row}
    <3>2. rows \in Seq(S) /\ row \in S
      BY <3>1
    <3> HIDE DEF S
    <3> QED BY <2>1, <3>2, AppendProperties
  <2>4. \A j \in 1..(n + 1) : j \in 1..n \/ j = n + 1
    BY <1>2
  <2> HIDE DEF n
  <2>5. \A j \in 1..n : rows[j].rules.deflate \in Nat
    BY DEF DeflateOK, n
  <2>6. \A j \in 1..(n + 1) : table[j].rules.deflate \in Nat
    BY <1>1, <2>2, <2>3, <2>4, <2>5
  <2> QED BY <2>3, <2>6 DEF table
<1> QED BY <1>3, <1>4

\* The rules that prevail are those stated or those of the row.
LEMMA IssuingDeflates ==
    ASSUME IInv, DeflateOK, NEW i, NEW ins, NEW stated, stated.deflate \in Nat
    PROVE  Issuing(i, ins, stated).rules.deflate \in Nat
<1> DEFINE draft == [id |-> AssetId(i, ins), kind |-> i.kind, locked |-> i.locked]
           asset == Issuing(i, ins, stated)
<1>1. asset.rules = RulesOf(draft, stated)
  BY DEF Issuing
<1> HIDE DEF draft, asset
<1>2. CASE Updates(draft)
  <2>1. IndexAdded(draft) \in RowsWith(draft.id)
    BY <1>2 DEF Updates, IndexAdded
  <2>2. DOMAIN rows = 1..Len(rows)
    BY DEF IInv, RowsOK, TableOK
  <2>3. rows[IndexAdded(draft)].rules.deflate \in Nat
    BY <2>1, <2>2 DEF RowsWith, DeflateOK
  <2>4. RulesOf(draft, stated) \in {rows[IndexAdded(draft)].rules, stated}
    BY DEF RulesOf, Prevailing
  <2> QED BY <1>1, <2>3, <2>4 DEF asset
<1>3. CASE ~Updates(draft)
  BY <1>1, <1>3 DEF RulesOf, asset
<1> QED BY <1>2, <1>3

LEMMA IssueDeflates ==
    ASSUME IInv, DeflateOK, Issue
    PROVE  tx' # NoTx => tx'.asset.rules.deflate \in Nat
<1>1. PICK ins \in Inputs, layout \in Layouts, i \in Issuances :
        LET decoded == DecodeRules(i.opcode, i.statements, layout, watched)
            asset   == Issuing(i, ins, decoded.rules)
        IN tx' = NoTx \/ tx' = [type |-> "issuance", legacy |-> FALSE, ins |-> ins, given |-> Supply(asset),
                                asset |-> asset, read |-> 0, move |-> Started(Supply(asset), Outputs(layout))]
  BY DEF Issue, Save, Stop
<1> DEFINE decoded == DecodeRules(i.opcode, i.statements, layout, watched)
           stated  == decoded.rules
           asset   == Issuing(i, ins, stated)
<1>2. stated.deflate \in Nat
  <2>1. Deflating(DecodeRules(i.opcode, i.statements, layout, watched).rules)
    BY DecodedDeflates
  <2> QED BY <2>1 DEF Deflating
<1>3. tx' = NoTx \/ tx'.asset = asset
  <2> HIDE DEF asset
  <2> QED BY <1>1 DEF asset, stated, decoded
<1> HIDE DEF decoded, stated
<1>4. asset.rules.deflate \in Nat
  BY <1>2, IssuingDeflates
<1> HIDE DEF asset
<1> QED BY <1>3, <1>4

LEMMA TxDeflates ==
    ASSUME IInv, DeflateOK, [Next]_vars
    PROVE  tx' # NoTx /\ tx'.type = "issuance" => tx'.asset.rules.deflate \in Nat
<1>1. CASE Plain
  BY <1>1 DEF Plain, Standard, VerifyKyc, RevokeKyc, Save, Stop
<1>2. CASE Issue
  BY <1>2, IssueDeflates
<1>3. CASE Move
  <2>1. tx'.type \in {"transfer", "burn"}
    BY <1>3 DEF Move
  <2> QED BY <2>1
<1>4. CASE ReadInstruction
  <2>1. tx # NoTx /\ \E m : tx' = [tx EXCEPT !.read = @ + 1, !.move = m]
    BY <1>4 DEF ReadInstruction
  <2>2. IsTx(tx)
    BY <2>1 DEF IInv, TxOK
  <2>3. tx'.type = tx.type /\ tx'.asset = tx.asset
    BY <2>1, <2>2 DEF IsTx
  <2> QED BY <2>1, <2>3 DEF DeflateOK
<1>5. CASE Finish
  <2>1. tx' = NoTx
    BY <1>5 DEF Finish, Unindexed, Refuse, Save, Stop
  <2> QED BY <2>1
<1>6. CASE CutShort
  <2>1. tx' = NoTx
    BY <1>6 DEF CutShort, Refuse, Save, Stop
  <2> QED BY <2>1
<1>7. CASE NextBlock \/ UNCHANGED vars
  <2>1. tx' = tx
    BY <1>7 DEF NextBlock, vars
  <2> QED BY <2>1 DEF DeflateOK
<1> QED BY <1>1, <1>2, <1>3, <1>4, <1>5, <1>6, <1>7 DEF Next

LEMMA DInvInit == Init => DInv
<1> SUFFICES ASSUME Init PROVE DeflateOK
  BY BInvInit DEF DInv
<1>1. PICK g \in Genesis : rows = g.rows
  BY DEF Init
<1>2. g.rows \in Seq(Range(g.rows)) /\ \A k \in DOMAIN g.rows : g.rows[k].rules.deflate \in Nat
  BY GenesisAssumption
<1>3. DOMAIN rows = 1..Len(rows)
  BY <1>1, <1>2
<1>4. tx = NoTx
  BY DEF Init
<1> QED BY <1>1, <1>2, <1>3, <1>4 DEF DeflateOK

LEMMA DInvNext == DInv /\ [Next]_vars => DInv'
<1> SUFFICES ASSUME DInv, [Next]_vars PROVE DeflateOK'
  BY BInvNext DEF DInv
<1>1. IInv /\ DeflateOK
  BY DEF DInv, BInv
<1>2. rows' = rows \/ (tx # NoTx /\ tx.type = "issuance" /\ rows' = AddAsset(tx.asset))
  BY <1>1, TableChange DEF vars
<1>3. \A k \in 1..Len(rows') : rows'[k].rules.deflate \in Nat
  <2>1. CASE rows' = rows
    BY <1>1, <2>1 DEF DeflateOK
  <2>2. CASE tx # NoTx /\ tx.type = "issuance" /\ rows' = AddAsset(tx.asset)
    <3> DEFINE asset == tx.asset
    <3>1. asset.rules.deflate \in Nat /\ rows' = AddAsset(asset)
      BY <1>1, <2>2 DEF DeflateOK
    <3> HIDE DEF asset
    <3>2. \A k \in 1..Len(AddAsset(asset)) : AddAsset(asset)[k].rules.deflate \in Nat
      BY <1>1, <3>1, TableDeflates
    <3> QED BY <3>1, <3>2
  <2> QED BY <1>2, <2>1, <2>2
<1>4. tx' # NoTx /\ tx'.type = "issuance" => tx'.asset.rules.deflate \in Nat
  BY <1>1, TxDeflates
<1> QED BY <1>3, <1>4 DEF DeflateOK

LEMMA DInvHolds == Spec => []DInv
BY DInvInit, DInvNext, PTL DEF Spec

-----------------------------------------------------------------------------
(* The rules a transfer has to obey                                          *)

\* What is in one of the sequences is in all of them together.
LEMMA FlattenHas ==
    ASSUME NEW S, NEW q \in Seq(Seq(S)), NEW k \in 1..Len(q), NEW j \in 1..Len(q[k])
    PROVE  \E m \in 1..Len(FlattenSeq(q)) : FlattenSeq(q)[m] = q[k][j]
<1> DEFINE n == Len(q)
           x == q[k][j]
<1>1. PICK r \in [0..n -> Seq(S)] :
        /\ r[0] = << >> /\ FlattenSeq(q) = r[n]
        /\ \A m \in 1..n : r[m] = r[m - 1] \o q[m]
  BY FlattenSteps
<1>2. n \in Nat /\ k \in 1..n /\ j \in 1..Len(q[k]) /\ \A m \in 1..n : q[m] \in Seq(S)
  OBVIOUS
<1> HIDE DEF n
<1> DEFINE P == {m \in 0..n : m < k \/ \E l \in 1..Len(r[m]) : r[m][l] = x}
<1>3. 0 \in P
  BY <1>2
<1>4. ASSUME NEW m \in 1..n, m - 1 \in P PROVE m \in P
  <2> DEFINE u == r[m - 1]
             v == q[m]
  <2>1. m - 1 \in 0..n /\ m \in 0..n
    BY <1>2
  <2>2. u \in Seq(S) /\ v \in Seq(S) /\ r[m] = u \o v
    BY <1>1, <1>2, <2>1
  <2>3. CASE m < k
    BY <2>1, <2>3
  <2>4. CASE m = k
    <3>1. x = v[j] /\ j \in 1..Len(v)
      BY <1>2, <2>4
    <3> HIDE DEF u, v, x
    <3>2. Len(u) + j \in 1..Len(r[m]) /\ r[m][Len(u) + j] = v[j]
      BY <2>2, <3>1
    <3> QED BY <2>1, <3>1, <3>2
  <2>5. CASE m > k
    <3>1. PICK l \in 1..Len(u) : u[l] = x
      BY <1>4, <2>5
    <3> HIDE DEF u, v, x
    <3>2. l \in 1..Len(r[m]) /\ r[m][l] = u[l]
      BY <2>2
    <3> QED BY <2>1, <3>1, <3>2
  <2> QED BY <1>2, <2>3, <2>4, <2>5
<1> HIDE DEF P
<1>5. \A m \in 0..n : m \in P
  BY <1>2, <1>3, <1>4, Climb
<1>6. n \in P
  BY <1>2, <1>5
<1>7. ~(n < k)
  BY <1>2
<1>8. PICK l \in 1..Len(r[n]) : r[n][l] = x
  BY <1>6, <1>7 DEF P
<1>9. l \in 1..Len(FlattenSeq(q)) /\ FlattenSeq(q)[l] = x
  BY <1>1, <1>8
<1> QED BY <1>9

\* checkRulesPass on a holding of asset i that is spent.
Checked(outs, i) == CheckRulesPass(rows[i].rules, tx.ins, outs, i, height, height, CertifiedNow, Rates)

LEMMA CheckedKinds ==
    ASSUME NEW outs, NEW i
    PROVE  Checked(outs, i) \in {"none", "rule", "range"}
<1> DEFINE r == rows[i].rules
           ins == tx.ins
           receivers == Receivers(ins, outs, i)
           priced == r.royalties # << >>
           now == CertifiedNow
           Pass == /\ priced => RoyaltiesPass(r, outs, i, Rates[r.currency])
                   /\ KycPasses(r, receivers, now)
                   /\ ~Expired(r, height, height)
                   /\ VotePasses(r, receivers)
                   /\ DeflationPasses(r, ins, outs, i)
<1>1. Checked(outs, i) =
        CASE r.none \/ receivers = {} -> "none"
          [] ~r.none /\ receivers # {} /\ ~SignersPass(r, ins) -> "rule"
          [] ~r.none /\ receivers # {} /\ SignersPass(r, ins) /\ priced /\ r.currency \notin DOMAIN Rates -> "range"
          [] OTHER -> IF Pass THEN "none" ELSE "rule"
  BY DEF Checked, CheckRulesPass
<1> HIDE DEF r, ins, receivers, priced, Pass
<1> QED BY <1>1

\* What it has looked at when it throws nothing.
LEMMA CheckedPasses ==
    ASSUME NEW outs, NEW i, Checked(outs, i) = "none", ~rows[i].rules.none, Receivers(tx.ins, outs, i) # {}
    PROVE  LET r == rows[i].rules IN
           /\ SignersPass(r, tx.ins) /\ KycPasses(r, Receivers(tx.ins, outs, i), CertifiedNow)
           /\ ~Expired(r, height, height) /\ VotePasses(r, Receivers(tx.ins, outs, i))
           /\ DeflationPasses(r, tx.ins, outs, i)
<1> DEFINE r == rows[i].rules
           ins == tx.ins
           receivers == Receivers(ins, outs, i)
           priced == r.royalties # << >>
           now == CertifiedNow
           Pass == /\ priced => RoyaltiesPass(r, outs, i, Rates[r.currency])
                   /\ KycPasses(r, receivers, now)
                   /\ ~Expired(r, height, height)
                   /\ VotePasses(r, receivers)
                   /\ DeflationPasses(r, ins, outs, i)
<1>1. Checked(outs, i) =
        CASE r.none \/ receivers = {} -> "none"
          [] ~r.none /\ receivers # {} /\ ~SignersPass(r, ins) -> "rule"
          [] ~r.none /\ receivers # {} /\ SignersPass(r, ins) /\ priced /\ r.currency \notin DOMAIN Rates -> "range"
          [] OTHER -> IF Pass THEN "none" ELSE "rule"
  BY DEF Checked, CheckRulesPass
<1>2. ~r.none /\ receivers # {}
  OBVIOUS
<1>3. Pass /\ SignersPass(r, ins)
  <2> HIDE DEF r, ins, receivers, priced, Pass
  <2> QED BY <1>1, <1>2
<1> QED BY <1>3

\* The first fault is kept: when there is none, every holding passed.
LEMMA FaultFree ==
    ASSUME NEW outs, Fault(outs) = "none", NEW S, [k \in DOMAIN tx.ins |-> tx.ins[k].holds] \in Seq(Seq(S)),
           NEW m \in 1..Len(FlattenSeq([k \in DOMAIN tx.ins |-> tx.ins[k].holds]))
    PROVE  Checked(outs, FlattenSeq([k \in DOMAIN tx.ins |-> tx.ins[k].holds])[m].index) = "none"
<1> DEFINE held == FlattenSeq([k \in DOMAIN tx.ins |-> tx.ins[k].holds])
           n == Len(held)
           C(k) == Checked(outs, held[k].index)
           Step(x, k) == IF x # "none" THEN x ELSE C(k)
           It(f) == f = [s \in SUBSET (1..n) |-> IF s = {} THEN "none" ELSE Step(f[s \ {Max(s)}], Max(s))]
           it == CHOOSE f : It(f)
           A == {"none", "rule", "range"}
           G == [p \in A \X (1..n) |-> Step(p[1], p[2])]
<1>1. n \in Nat /\ DOMAIN held = 1..n
  <2>1. held \in Seq(S)
    BY FlattenTyped
  <2> HIDE DEF held
  <2> QED BY <2>1
<1>2. Fault(outs) = it[1..n]
  <2>1. Fault(outs) = (CHOOSE f : f = [s \in SUBSET (DOMAIN held) |->
          IF s = {} THEN "none" ELSE IF f[s \ {Max(s)}] # "none" THEN f[s \ {Max(s)}] ELSE C(Max(s))])[DOMAIN held]
    BY DEF Fault, FoldLeft, MapThenFoldSet, Checked
  <2> HIDE DEF held, C, n
  <2> QED BY <1>1, <2>1
<1>3. \A k : C(k) \in A
  BY CheckedKinds
<1> HIDE DEF C, held, n
<1>4. G \in [A \X (1..n) -> A] /\ "none" \in A /\ \A x \in A, k \in 1..n : G[<<x, k>>] = Step(x, k)
  BY <1>3
<1> HIDE DEF G, A
<1>5. PICK g \in [SUBSET (1..n) -> A] : Folding(g, n, "none", G)
  BY <1>1, <1>4, FoldExists
<1>6. It(g)
  <2>1. ASSUME NEW s \in SUBSET (1..n), s # {} PROVE g[s] = Step(g[s \ {Max(s)}], Max(s))
    <3>1. Max(s) \in 1..n /\ g[s \ {Max(s)}] \in A
      BY <1>1, <1>5, <2>1, MaxInside
    <3>2. g[s] = G[<<g[s \ {Max(s)}], Max(s)>>]
      BY <1>5, <2>1 DEF Folding
    <3> HIDE DEF Step
    <3> QED BY <1>4, <3>1, <3>2
  <2>2. g[{}] = "none"
    BY <1>5 DEF Folding
  <2> HIDE DEF Step
  <2> QED BY <1>5, <2>1, <2>2
<1> HIDE DEF It
<1>7. It(it)
  BY <1>6
<1> HIDE DEF it
<1>8. ASSUME NEW k \in 1..n PROVE it[1..k] = Step(it[1..(k - 1)], k)
  <2>1. (1..k) \ {k} = 1..(k - 1) /\ 1..k # {} /\ 1..k \in SUBSET (1..n) /\ Max(1..k) = k
    BY <1>1, UpTo
  <2>2. it[1..k] = Step(it[(1..k) \ {Max(1..k)}], Max(1..k))
    BY <1>7, <2>1 DEF It
  <2> HIDE DEF Step
  <2> QED BY <2>1, <2>2
<1> DEFINE P == {k \in 0..n : it[1..k] = "none" => \A l \in 1..k : C(l) = "none"}
<1>9. 0 \in P
  BY <1>1
<1>10. ASSUME NEW k \in 1..n, k - 1 \in P PROVE k \in P
  <2>1. k \in 0..n /\ \A l \in 1..k : l = k \/ l \in 1..(k - 1)
    BY <1>1
  <2>2. it[1..k] = "none" => it[1..(k - 1)] = "none" /\ C(k) = "none"
    BY <1>8
  <2> QED BY <1>10, <2>1, <2>2
<1> HIDE DEF P
<1>11. \A k \in 0..n : k \in P
  BY <1>1, <1>9, <1>10, Climb
<1>12. n \in P /\ m \in 1..n
  BY <1>1, <1>11 DEF n, held
<1>13. C(m) = "none"
  BY <1>2, <1>12 DEF P
<1> QED BY <1>13 DEF C, held

\* No instruction is read past a rule: what the inputs hold has passed.
LEMMA HeldPasses ==
    ASSUME IInv, tx.ins \in Inputs, NEW outs, Fault(outs) = "none", NEW i \in HeldIndexes(tx.ins)
    PROVE  Checked(outs, i) = "none"
<1> DEFINE ins == tx.ins
           S == Holdings(1..Len(rows))
           q == [k \in DOMAIN ins |-> ins[k].holds]
           n == Len(ins)
<1>1. n \in Nat /\ DOMAIN ins = 1..n /\ \A k \in 1..n : ins[k].holds \in Seq(S)
  BY InputsAre DEF Outputting
<1>2. PICK k \in 1..n : i \in {ins[k].holds[j].index : j \in DOMAIN ins[k].holds}
  BY <1>1 DEF HeldIndexes
<1>3. PICK j \in DOMAIN ins[k].holds : i = ins[k].holds[j].index
  BY <1>2
<1>4. q = [l \in 1..n |-> ins[l].holds]
  BY <1>1
<1> HIDE DEF S, q, ins, n
<1>5. q \in Seq(Seq(S)) /\ Len(q) = n /\ q[k] = ins[k].holds
  <2> DEFINE H == Seq(S)
  <2>1. \A l \in 1..n : ins[l].holds \in H
    BY <1>1
  <2> HIDE DEF H
  <2>2. q \in [1..n -> H]
    BY <1>4, <2>1
  <2>3. q \in Seq(H) /\ Len(q) = n
    BY <1>1, <2>2
  <2> QED BY <1>4, <2>3 DEF H
<1>6. j \in 1..Len(q[k]) /\ k \in 1..Len(q)
  <2>1. ins[k].holds \in Seq(S)
    BY <1>1
  <2> QED BY <1>3, <1>5, <2>1
<1>7. PICK m \in 1..Len(FlattenSeq(q)) : FlattenSeq(q)[m] = q[k][j]
  BY <1>5, <1>6, FlattenHas
<1>8. Checked(outs, FlattenSeq(q)[m].index) = "none"
  <2>1. /\ [l \in DOMAIN tx.ins |-> tx.ins[l].holds] \in Seq(Seq(S))
        /\ m \in 1..Len(FlattenSeq([l \in DOMAIN tx.ins |-> tx.ins[l].holds]))
    BY <1>5 DEF q, ins
  <2>2. Checked(outs, FlattenSeq([l \in DOMAIN tx.ins |-> tx.ins[l].holds])[m].index) = "none"
    BY <2>1, FaultFree
  <2> QED BY <2>2 DEF q, ins
<1>9. FlattenSeq(q)[m].index = i
  BY <1>3, <1>5, <1>7
<1> QED BY <1>8, <1>9

\* Taking the assets off the data leaves each address what it had.
LEMMA DataTotal ==
    ASSUME NEW I, NEW outs \in Seq(Outs(I)), NEW B \in SUBSET Address, NEW x
    PROVE  TotalOf(WithoutData(outs, NoAddress), B, x) = TotalOf(outs, B, x)
<1> DEFINE g == WithoutData(outs, NoAddress)
           n == Len(outs)
           f == Shares(outs, B, x)
           h == Shares(g, B, x)
<1>1. Outputting(outs, I) /\ n \in Nat /\ DOMAIN outs = 1..n /\ \A k \in 1..n : outs[k] \in Outs(I)
  BY OutsTyped DEF Outputting
<1>2. NoAddress \notin B
  BY LedgerAssumption
<1>3. g = [k \in 1..n |-> IF outs[k].address = NoAddress THEN [outs[k] EXCEPT !.holds = << >>] ELSE outs[k]]
  BY <1>1 DEF WithoutData
<1>4. \A o \in Outs(I) : [o EXCEPT !.holds = << >>].address = o.address
  BY DEF Outs
<1>5. Len(g) = n /\ \A k \in 1..n : /\ g[k].address = outs[k].address
                                    /\ outs[k].address # NoAddress => g[k] = outs[k]
  <2>1. Len(g) = n
    BY <1>1, <1>3
  <2> HIDE DEF n
  <2> QED BY <1>1, <1>3, <1>4, <2>1
<1>6. \A k \in 1..n : h[k] = IF g[k].address \in B THEN Total(g[k].holds, x) ELSE 0
  BY <1>5 DEF Shares
<1>7. \A k \in 1..n : f[k] = IF outs[k].address \in B THEN Total(outs[k].holds, x) ELSE 0
  BY DEF Shares
<1>8. Numbers(f, n)
  BY <1>1, SharesNumbers
<1>9. TotalOf(g, B, x) = SumUp(h, n) /\ TotalOf(outs, B, x) = SumUp(f, n)
  BY <1>5 DEF TotalOf
<1> HIDE DEF f, g, h, n
<1>10. \A k \in 1..n : h[k] = f[k]
  BY <1>2, <1>5, <1>6, <1>7
<1>11. SumUp(h, n) = SumUp(f, n)
  BY <1>1, <1>8, <1>10, SumUpSame
<1> QED BY <1>9, <1>11 DEF g

\* Holdings of other assets count nothing.
LEMMA TotalOther ==
    ASSUME NEW I, NEW holds \in Seq(Holdings(I)), NEW i, i \notin I
    PROVE  Total(holds, i) = 0
<1> DEFINE n == Len(holds)
           f == Parts(holds, i)
<1>1. n \in Nat /\ DOMAIN holds = 1..n /\ Counting(holds) /\ \A k \in 1..n : holds[k].index \in I
  BY HoldingsCount
<1>2. \A k \in 1..n : f[k] = 0
  BY <1>1 DEF Parts
<1>3. Total(holds, i) = SumUp(f, n)
  BY <1>1, TotalSum
<1> HIDE DEF f, n
<1>4. SumUp(f, n) = 0
  BY <1>1, <1>2, SumUpZero
<1> QED BY <1>3, <1>4

\* Who is given some of an asset is the address of an output, and the asset one
\* that the outputs are made of.
LEMMA GivenSome ==
    ASSUME NEW I, NEW outs \in Seq(Outs(I)), NEW a, NEW i, TotalOf(outs, {a}, i) # 0
    PROVE  a \in AddressesOf(outs) /\ i \in I
<1> DEFINE n == Len(outs)
           f == Shares(outs, {a}, i)
<1>1. n \in Nat /\ DOMAIN outs = 1..n /\ \A k \in 1..n : outs[k].holds \in Seq(Holdings(I))
  BY OutsTyped DEF Outputting
<1>2. \A k \in 1..n : f[k] = IF outs[k].address = a THEN Total(outs[k].holds, i) ELSE 0
  BY DEF Shares
<1>3. TotalOf(outs, {a}, i) = SumUp(f, n)
  BY DEF TotalOf
<1> HIDE DEF f, n
<1>4. PICK k \in 1..n : f[k] # 0
  BY <1>1, <1>3, SumUpZero
<1>5. outs[k].address = a /\ Total(outs[k].holds, i) # 0
  BY <1>2, <1>4
<1>6. i \in I
  BY <1>1, <1>5, TotalOther
<1> QED BY <1>1, <1>5, <1>6 DEF AddressesOf

LEMMA HeldByIs ==
    ASSUME NEW a, NEW i
    PROVE  HeldBy(a, i) = HeldIn({a}, i) /\ HeldBy(a, i)' = HeldIn({a}, i)'
<1>1. {c \in coins : ~c.spent /\ c.address = a} = Unspent(coins, {a})
  BY DEF Unspent
<1>2. {c \in coins' : ~c.spent /\ c.address = a} = Unspent(coins', {a})
  BY DEF Unspent
<1>3. HeldBy(a, i) = Amount({c \in coins : ~c.spent /\ c.address = a}, i)
  BY DEF HeldBy, Amount
<1>4. HeldBy(a, i)' = Amount({c \in coins' : ~c.spent /\ c.address = a}, i)
  BY DEF HeldBy, Amount, MapThenSumSet, MapThenFoldSet
<1>5. HeldIn({a}, i)' = Amount(Unspent(coins', {a}), i)
  BY DEF HeldIn
<1> QED BY <1>1, <1>2, <1>3, <1>4, <1>5 DEF HeldIn

\* Who holds more after a transfer received it, and the asset is one that was spent.
LEMMA RicherReceives ==
    ASSUME IInv, CoinsFinite, NEW type, NEW unintended, NEW ins \in Inputs,
           NEW J, J = HeldIndexes(ins), NEW kept \in Seq(Outs(J)),
           Save(type, unintended, ins, WithoutData(kept, NoAddress), rows),
           NEW a \in Address, NEW i, HeldBy(a, i)' > HeldBy(a, i)
    PROVE  a \in Receivers(ins, kept, i) /\ i \in HeldIndexes(ins)
<1>a. PICK B : B = {a}
  OBVIOUS
<1>b. PICK outs : outs = WithoutData(kept, NoAddress)
  OBVIOUS
<1>c. PICK table : table = rows
  OBVIOUS
<1>1. B \in SUBSET Address /\ Save(type, unintended, ins, outs, table)
  BY <1>a, <1>b, <1>c DEF Save
<1> DEFINE g == TotalOf(ins, B, i)
           k == TotalOf(kept, B, i)
           o == TotalOf(outs, B, i)
           old == HeldIn(B, i)
           new == Amount(Unspent(coins', B), i)
<1>2. outs \in Seq(Outs(J))
  BY <1>b, WithoutDataTyped
<1>3. o = k
  BY <1>1, <1>b, DataTotal
<1>4. new > old
  <2>1. HeldIn({a}, i)' = Amount(Unspent(coins', {a}), i)
    BY DEF HeldIn
  <2> QED BY <1>a, <2>1, HeldByIs
<1>5. old \in Nat /\ g \in Nat /\ o \in Nat /\ new = (old - g) + o
  <2>1. /\ HeldIn(B, i)' = Amount(Unspent(coins', B), i)
        /\ HeldIn(B, i) \in Nat /\ TotalOf(ins, B, i) \in Nat /\ TotalOf(outs, B, i) \in Nat
        /\ TotalOf(ins, B, i) <= HeldIn(B, i)
        /\ HeldIn(B, i)' = (HeldIn(B, i) - TotalOf(ins, B, i)) + TotalOf(outs, B, i)
    BY <1>1, <1>2, SaveMoves
  <2> QED BY <2>1
<1> HIDE DEF g, k, o, old, new
<1>6. k \in Nat /\ k > g /\ k # 0 /\ k - g > 0
  BY <1>3, <1>4, <1>5
<1>7. a \in AddressesOf(kept) /\ i \in J
  <2>1. TotalOf(kept, {a}, i) # 0
    BY <1>a, <1>6 DEF k
  <2> QED BY <2>1, GivenSome
<1>8. TotalAt(kept, a, i) = k /\ TotalAt(ins, a, i) = g
  <2>1. Outputting(kept, J) /\ Outputting(ins, 1..Len(rows))
    BY OutsTyped, InputsAre
  <2> QED BY <1>a, <2>1, TotalAtSum DEF k, g
<1>9. Change(ins, kept, a, i) > 0
  BY <1>6, <1>8 DEF Change
<1> QED BY <1>7, <1>9 DEF Receivers

\* A remainder is not more than what it is of.
LEMMA RemainderLess ==
    ASSUME NEW d \in Nat, NEW w \in Nat \ {0}
    PROVE  d % w <= d
<1>1. d % w \in 0..(w - 1) /\ d \div w \in Nat
  OBVIOUS
<1>2. CASE d < w
  <2>1. d % w = d
    BY <1>2
  <2> QED BY <2>1
<1>3. CASE ~(d < w)
  BY <1>1, <1>3
<1> QED BY <1>2, <1>3

\* What a transfer that passes takes from the addresses is what its rules demand.
LEMMA EnoughIsGone ==
    ASSUME DInv, IInv', tx # NoTx, tx.type # "issuance", ~tx.move.wrapped, NEW i \in 1..Len(rows),
           LET kept == GiveChange(tx.move).outs IN
           /\ Save(tx.type, HoldsOnData(kept, NoAddress), tx.ins, WithoutData(kept, NoAddress), rows)
           /\ DeflationPasses(rows[i].rules, tx.ins, kept, i)
    PROVE  Held(i) - Held(i)' >= rows[i].rules.deflate
<1> DEFINE m == tx.move
           ins == tx.ins
           type == tx.type
           kept == GiveChange(m).outs
           data == HoldsOnData(kept, NoAddress)
           outs == WithoutData(kept, NoAddress)
           J == HeldIndexes(tx.given)
           r == rows[i].rules
           z == r.deflate
<1>1. IInv /\ CoinsFinite /\ IsTx(tx) /\ TxBalanced(tx) /\ BInv /\ z \in Nat
  BY DEF DInv, BInv, IInv, TxOK, BalanceOK, DeflateOK
<1>2. tx.given = ins /\ ins \in Inputs /\ m \in Moves(J)
  BY <1>1 DEF TxBalanced
<1>3. i \in Indexes(tx)
  BY DEF Indexes
<1>4. Spread(m, ins, i)
  BY <1>1, <1>2, <1>3, TxSpreads
<1>5. Save(type, data, ins, outs, rows) /\ DeflationPasses(r, ins, kept, i)
  OBVIOUS
<1> HIDE DEF m, ins, type, J
<1>6. kept \in Seq(Outs(J)) /\ outs \in Seq(Outs(J))
  BY <1>2, FinishOuts
<1> DEFINE k == TotalOf(kept, Everywhere, i)
           p == TotalOf(kept, Address, i)
           g == TotalOf(ins, Everywhere, i)
           b == Total(m.burnt, i)
           h == Held(i)
<1>7. p \in Nat /\ k \in Nat /\ g \in Nat /\ b \in Nat /\ p <= k /\ k + b <= g
  BY <1>4 DEF Spread
<1> HIDE DEF kept
<1>8. TotalOf(outs, Address, i) = p
  BY <1>6, WithoutDataTotal
<1> HIDE DEF outs, data
<1>9. Settled(type, data, ins, outs, i)
  BY <1>1, <1>2, <1>5, <1>6, SaveSettles
<1>10. h \in Nat /\ Held(i)' = (h - g) + p
  BY <1>8, <1>9 DEF Settled
<1>11. TotalIn(ins, i) = g /\ TotalIn(kept, i) = k
  <2>1. Outputting(ins, 1..Len(rows)) /\ \A l \in 1..Len(ins) : ins[l].address \in Everywhere
    BY <1>1, <1>2, InputsAre DEF Source
  <2>2. Outputting(kept, J) /\ \A l \in 1..Len(kept) : kept[l].address \in Everywhere
    BY <1>6, OutsTyped
  <2> QED BY <2>1, <2>2, TotalInSum
<1>12. z > 0 => (g - k) % Width >= z
  BY <1>5, <1>11 DEF DeflationPasses
<1> HIDE DEF p, k, g, b, h, z
<1>13. g - k \in Nat /\ Width \in Nat \ {0}
  BY <1>7, RulesAssumption
<1> DEFINE d == g - k
           e == d % Width
<1>14. d \in Nat /\ e \in Nat /\ e <= d /\ (z > 0 => e >= z)
  <2>1. d \in Nat
    BY <1>13
  <2>2. z > 0 => e >= z
    BY <1>12
  <2> HIDE DEF d
  <2> QED BY <1>13, <2>1, <2>2, RemainderLess
<1>15. d <= h - Held(i)' /\ z \in Nat /\ h - Held(i)' \in Int
  BY <1>1, <1>7, <1>10
<1> HIDE DEF d, e
<1>16. h - Held(i)' >= z
  BY <1>14, <1>15
<1> QED BY <1>16 DEF h, z

\* What MovesObeyRules says of an asset.
Obeyed(i) ==
    LET r      == rows[i].rules
        richer == {a \in Address : HeldBy(a, i)' > HeldBy(a, i)}
    IN richer # {} =>
         /\ \A a \in richer :
               /\ GeoFenced(r) => KycValid(a, height) /\ CountryAllowed(r, kyc[a].country)
               /\ ~r.movable => ValidVoteAddress(r, a)
         /\ ~Expired(r, height, height)
         /\ SignersPass(r, tx.ins)
         /\ (~tx.move.wrapped) => Held(i) - Held(i)' >= r.deflate

LEMMA PassedObeys ==
    ASSUME DInv, IInv', tx # NoTx, tx.type # "issuance", NEW i \in 1..Len(rows), ~rows[i].rules.none,
           LET kept == GiveChange(tx.move).outs IN
           /\ Save(tx.type, HoldsOnData(kept, NoAddress), tx.ins, WithoutData(kept, NoAddress), rows)
           /\ Fault(kept) = "none"
    PROVE  Obeyed(i)
<1> DEFINE m == tx.move
           ins == tx.ins
           kept == GiveChange(m).outs
           data == HoldsOnData(kept, NoAddress)
           r == rows[i].rules
           receivers == Receivers(ins, kept, i)
           richer == {a \in Address : HeldBy(a, i)' > HeldBy(a, i)}
           J == HeldIndexes(ins)
<1>1. IInv /\ CoinsFinite /\ TxBalanced(tx)
  BY DEF DInv, BInv, BalanceOK
<1>2. ins \in Inputs /\ m \in Moves(J)
  BY <1>1 DEF TxBalanced
<1>3. Save(tx.type, data, ins, WithoutData(kept, NoAddress), rows) /\ Fault(kept) = "none"
  OBVIOUS
<1>4. kept \in Seq(Outs(J))
  <2> HIDE DEF m, J
  <2> QED BY <1>2, FinishOuts
<1> SUFFICES ASSUME richer # {}
             PROVE  /\ \A a \in richer :
                         /\ GeoFenced(r) => KycValid(a, height) /\ CountryAllowed(r, kyc[a].country)
                         /\ ~r.movable => ValidVoteAddress(r, a)
                    /\ ~Expired(r, height, height)
                    /\ SignersPass(r, ins)
                    /\ (~m.wrapped) => Held(i) - Held(i)' >= r.deflate
  BY DEF Obeyed
<1>5. ASSUME NEW a \in richer PROVE a \in receivers /\ i \in J
  <2>1. a \in Address /\ HeldBy(a, i)' > HeldBy(a, i)
    OBVIOUS
  <2>2. J = HeldIndexes(ins)
    OBVIOUS
  <2> HIDE DEF richer, kept, J, data, ins
  <2>3. a \in Receivers(ins, kept, i) /\ i \in HeldIndexes(ins)
    BY <1>1, <1>2, <1>3, <1>4, <2>1, <2>2, RicherReceives
  <2> QED BY <2>2, <2>3
<1>6. receivers # {} /\ i \in J
  <2> HIDE DEF receivers, J, richer
  <2> QED BY <1>5
<1>7. Checked(kept, i) = "none"
  <2> HIDE DEF kept
  <2> QED BY <1>1, <1>2, <1>3, <1>6, HeldPasses
<1>8. /\ SignersPass(r, ins) /\ KycPasses(r, receivers, CertifiedNow)
      /\ ~Expired(r, height, height) /\ VotePasses(r, receivers) /\ DeflationPasses(r, ins, kept, i)
  <2> HIDE DEF kept
  <2> QED BY <1>6, <1>7, CheckedPasses
<1>9. ASSUME NEW a \in richer
      PROVE  /\ GeoFenced(r) => KycValid(a, height) /\ CountryAllowed(r, kyc[a].country)
             /\ ~r.movable => ValidVoteAddress(r, a)
  <2>1. a \in receivers
    BY <1>5
  <2> HIDE DEF receivers, richer, r
  <2>2. ASSUME GeoFenced(r) PROVE KycValid(a, height) /\ CountryAllowed(r, kyc[a].country)
    <3>1. a \in DOMAIN CertifiedNow /\ CountryAllowed(r, CertifiedNow[a])
      BY <1>8, <2>1, <2>2 DEF KycPasses
    <3>2. KycValid(a, height) /\ CertifiedNow[a] = kyc[a].country
      BY <3>1 DEF CertifiedNow
    <3> QED BY <3>1, <3>2
  <2>3. ~r.movable => ValidVoteAddress(r, a)
    BY <1>8, <2>1 DEF VotePasses
  <2> QED BY <2>2, <2>3
<1>10. (~m.wrapped) => Held(i) - Held(i)' >= r.deflate
  BY <1>8, EnoughIsGone
<1> HIDE DEF richer, r, receivers, kept, J
<1> QED BY <1>8, <1>9, <1>10

\* Of the actions only the end of a transfer or burn stores one.
LEMMA MovesFinish ==
    ASSUME IInv, [Next]_vars, made' # made, last'.type \in {"transfer", "burn"}
    PROVE  /\ tx # NoTx /\ tx.type # "issuance"
           /\ LET kept == GiveChange(tx.move).outs IN
              /\ Save(tx.type, HoldsOnData(kept, NoAddress), tx.ins, WithoutData(kept, NoAddress), rows)
              /\ Fault(kept) = "none"
<1>1. CASE Plain
  <2>1. made' = made \/ last'.type \in {"standard", "special"}
    BY <1>1 DEF Plain, Standard, VerifyKyc, RevokeKyc, Save, Stop
  <2> QED BY <2>1
<1>2. CASE Issue
  <2>1. made' = made \/ last'.type = "standard"
    BY <1>2 DEF Issue, Save, Stop
  <2> QED BY <2>1
<1>3. CASE Finish
  <2>1. tx # NoTx
    BY <1>3 DEF Finish
  <2>2. CASE tx.type = "issuance"
    <3>1. made' = made \/ last'.type \in {"standard", "issuance"}
      BY <1>3, <2>2 DEF Finish, Unindexed, Save, Stop
    <3> QED BY <3>1
  <2>3. CASE tx.type # "issuance"
    <3> DEFINE kept == GiveChange(tx.move).outs
               outs == WithoutData(kept, NoAddress)
               data == HoldsOnData(kept, NoAddress)
    <3>1. \/ Fault(kept) = "none" /\ Save(tx.type, data, tx.ins, outs, rows)
          \/ Refuse(Fault(kept), kept)
      BY <1>3, <2>3 DEF Finish
    <3>2. Refuse(Fault(kept), kept) => last'.type = "standard"
      BY DEF Refuse, Save
    <3> HIDE DEF outs, data, kept
    <3>3. Fault(kept) = "none" /\ Save(tx.type, data, tx.ins, outs, rows)
      BY <3>1, <3>2
    <3> QED BY <2>1, <2>3, <3>3 DEF outs, data, kept
  <2> QED BY <2>2, <2>3
<1>4. CASE CutShort
  <2>1. made' = made \/ last'.type = "standard"
    BY <1>4 DEF CutShort, Refuse, Save, Stop
  <2> QED BY <2>1
<1>5. CASE Move \/ ReadInstruction \/ NextBlock \/ UNCHANGED vars
  BY <1>5 DEF Move, ReadInstruction, NextBlock, vars
<1> QED BY <1>1, <1>2, <1>3, <1>4, <1>5 DEF Next

\* checkRulesPass binds every transfer and burn: whoever comes to hold more of an
\* asset with rules may, the signers signed, and enough of it is gone, whatever
\* was issued, moved and certified before, in any order.
THEOREM MovesObeyRulesHolds == Spec => MovesObeyRules
<1>1. DInv /\ [Next]_vars =>
        [made' # made /\ last'.type \in {"transfer", "burn"} =>
           \A i \in {k \in DOMAIN rows : ~rows[k].rules.none} :
             LET r      == rows[i].rules
                 richer == {a \in Address : HeldBy(a, i)' > HeldBy(a, i)}
             IN richer # {} =>
                  /\ \A a \in richer :
                        /\ GeoFenced(r) => KycValid(a, height) /\ CountryAllowed(r, kyc[a].country)
                        /\ ~r.movable => ValidVoteAddress(r, a)
                  /\ ~Expired(r, height, height)
                  /\ SignersPass(r, tx.ins)
                  /\ (~tx.move.wrapped) => Held(i) - Held(i)' >= r.deflate]_vars
  <2> SUFFICES ASSUME DInv, [Next]_vars, made' # made, last'.type \in {"transfer", "burn"},
                      NEW i \in {k \in DOMAIN rows : ~rows[k].rules.none}
               PROVE  Obeyed(i)
    BY DEF Obeyed
  <2>1. IInv /\ IInv'
    BY IInvNext DEF DInv, BInv
  <2>2. i \in 1..Len(rows) /\ ~rows[i].rules.none
    BY <2>1 DEF IInv, RowsOK, TableOK
  <2>3. /\ tx # NoTx /\ tx.type # "issuance"
        /\ LET kept == GiveChange(tx.move).outs IN
           /\ Save(tx.type, HoldsOnData(kept, NoAddress), tx.ins, WithoutData(kept, NoAddress), rows)
           /\ Fault(kept) = "none"
    BY <2>1, MovesFinish
  <2> QED BY <2>1, <2>2, <2>3, PassedObeys
<1> QED BY <1>1, DInvHolds, PTL DEF Spec, MovesObeyRules

=============================================================================

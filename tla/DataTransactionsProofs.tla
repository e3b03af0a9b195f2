----------------------- MODULE DataTransactionsProofs -----------------------
(***************************************************************************)
(* Proofs about what the data of a transaction becomes (DataTransactions). *)
(*                                                                         *)
(* What a node made of its i-th transaction, Kind, is told by the chain it *)
(* followed and by which outputs hold assets.  A node's tables are what    *)
(* the kinds of its transactions make of them (NodeOK): nothing else is in *)
(* them, whatever branches the node has left.                              *)
(***************************************************************************)
EXTENDS DataTransactions, FiniteSetTheorems, WellFoundedInduction, TLAPS

Transaction == [id : Nat, ins : Seq(Nat \X Nat), outs : Seq(Output), sound : BOOLEAN]
CoinRow == [coin : Nat \X Nat, address : Person \cup {Bare}, assets : BOOLEAN, height : Nat]
KycRow == [address : Person \cup {Bare}, height : Nat, revoked : Nat]
RateRow == [address : Person \cup {Bare}, height : Nat]
KeyRow == [address : Person \cup {Bare}, txid : Nat]

-----------------------------------------------------------------------------
(* Chains.                                                                 *)

\* An input is an output of an earlier transaction.
Funded(txs, i) ==
    \A k \in 1..Len(txs[i].ins) : \E j \in 1..(i - 1) :
        txs[i].ins[k][1] = txs[j].id /\ txs[i].ins[k][2] \in 1..Len(txs[j].outs)

HistoryOK(txs) ==
    /\ txs \in Seq(Transaction) /\ Len(txs) >= 1
    /\ DataOutputs(txs[1]) = {}
    /\ \A i, j \in 1..Len(txs) : i < j => txs[i].id < txs[j].id
    /\ \A i \in 2..Len(txs) : txs[i].ins # << >> /\ Funded(txs, i)
    /\ \A i \in 1..Len(txs) : txs[i].sound => \E v \in 1..Len(txs[i].outs) : txs[i].outs[v].data = Plain

\* t goes on where s ends.
Grows(s, t) == Len(s) <= Len(t) /\ \A i \in 1..Len(s) : t[i] = s[i]

\* A set of naturals that is not empty has a least one.
LEMMA Least ==
    ASSUME NEW S \in SUBSET Nat, S # {}
    PROVE  \E n \in S : \A m \in S : n <= m
<1>1. PICK n \in S : \A m \in S : <<m, n>> \notin OpToRel(<, Nat)
  BY NatLessThanWellFounded, WFMin
<1>2. ASSUME NEW m \in S PROVE n <= m
  <2>1. n \in Nat /\ m \in Nat /\ <<m, n>> \notin OpToRel(<, Nat)
    BY <1>1
  <2>2. ~(m < n)
    BY <2>1 DEF OpToRel
  <2>3. n \in Nat /\ m \in Nat
    OBVIOUS
  <2> QED BY <2>2, <2>3
<1> QED BY <1>2

\* What IsPrefix says.
LEMMA PrefixGrows ==
    ASSUME NEW S, NEW s \in Seq(S), NEW t \in Seq(S)
    PROVE  IsPrefix(s, t) <=> Grows(s, t)
<1>1. Len(s) \in Nat /\ Len(t) \in Nat
  OBVIOUS
<1>2. SubSeq(s, 1, Len(s)) = s
  OBVIOUS
<1>3. ASSUME Len(s) <= Len(t)
      PROVE  SubSeq(t, 1, Len(s)) \in Seq(S) /\ Len(SubSeq(t, 1, Len(s))) = Len(s)
             /\ \A i \in 1..Len(s) : SubSeq(t, 1, Len(s))[i] = t[i]
  BY <1>1, <1>3
<1>4. CASE ~(Len(s) <= Len(t))
  BY <1>4 DEF IsPrefix, Grows
<1>5. CASE Len(s) <= Len(t)
  <2> DEFINE p == SubSeq(t, 1, Len(s))
  <2>1. p \in Seq(S) /\ Len(p) = Len(s) /\ \A i \in 1..Len(s) : p[i] = t[i]
    BY <1>3, <1>5
  <2>2. IsPrefix(s, t) <=> s = p
    BY <1>2, <1>5 DEF IsPrefix
  <2> HIDE DEF p
  <2>3. s = p <=> \A i \in 1..Len(s) : p[i] = s[i]
    BY <2>1
  <2> QED BY <1>5, <2>1, <2>2, <2>3 DEF Grows
<1> QED BY <1>4, <1>5

\* The first transactions of a chain are one.
LEMMA HistoryPrefix ==
    ASSUME NEW t, HistoryOK(t), NEW s \in Seq(Transaction), Len(s) >= 1, Grows(s, t)
    PROVE  HistoryOK(s)
<1>1. Len(s) \in Nat /\ Len(t) \in Nat /\ Len(s) <= Len(t)
  BY DEF Grows, HistoryOK
<1>2. \A i \in 1..Len(s) : i \in 1..Len(t) /\ s[i] = t[i]
  BY <1>1 DEF Grows
<1>3. \A i \in 2..Len(s) : i \in 2..Len(t) /\ i \in 1..Len(s)
  BY <1>1
<1>4. DataOutputs(s[1]) = {}
  BY <1>1, <1>2 DEF HistoryOK
<1>5. \A i, j \in 1..Len(s) : i < j => s[i].id < s[j].id
  BY <1>2 DEF HistoryOK
<1>6. ASSUME NEW i \in 2..Len(s) PROVE s[i].ins # << >> /\ Funded(s, i)
  <2>1. t[i].ins # << >> /\ Funded(t, i) /\ s[i] = t[i]
    BY <1>2, <1>3 DEF HistoryOK
  <2>2. \A j \in 1..(i - 1) : s[j] = t[j]
    BY <1>1, <1>2
  <2> QED BY <2>1, <2>2 DEF Funded
<1>7. \A i \in 1..Len(s) : s[i].sound => \E v \in 1..Len(s[i].outs) : s[i].outs[v].data = Plain
  BY <1>2 DEF HistoryOK
<1> QED BY <1>4, <1>5, <1>6, <1>7 DEF HistoryOK

\* A transaction's id tells its place.
LEMMA IdsDiffer ==
    ASSUME NEW t, HistoryOK(t), NEW i \in 1..Len(t), NEW j \in 1..Len(t), t[i].id = t[j].id
    PROVE  i = j
<1>1. t[i] \in Transaction /\ t[j] \in Transaction
  BY DEF HistoryOK
<1>2. t[i].id \in Nat /\ t[j].id \in Nat
  BY <1>1 DEF Transaction
<1>3. Len(t) \in Nat
  BY DEF HistoryOK
<1>4. ~(i < j) /\ ~(j < i)
  BY <1>2 DEF HistoryOK
<1> QED BY <1>3, <1>4

\* What an output of the j-th transaction pays.
LEMMA OutputAt ==
    ASSUME NEW t, HistoryOK(t), NEW j \in 1..Len(t), NEW c, c[1] = t[j].id
    PROVE  OutputIn(t, c) = t[j].outs[c[2]]
<1>1. DOMAIN t = 1..Len(t)
  BY DEF HistoryOK
<1>2. \A i \in DOMAIN t : t[i].id = c[1] <=> i = j
  BY <1>1, IdsDiffer
<1>3. (CHOOSE i \in DOMAIN t : t[i].id = c[1]) = j
  BY <1>1, <1>2
<1> QED BY <1>3 DEF OutputIn

\* The place where an input was made, and what it paid.
LEMMA InputFrom ==
    ASSUME NEW t, HistoryOK(t), NEW i \in 1..Len(t), NEW c \in ToSet(t[i].ins), i > 1
    PROVE  \E j \in 1..(i - 1) : /\ c \in Nat \X Nat /\ c[1] = t[j].id /\ c[2] \in 1..Len(t[j].outs)
                                 /\ OutputIn(t, c) = t[j].outs[c[2]] /\ OutputIn(t, c) \in Output
<1>1. t[i] \in Transaction /\ Len(t) \in Nat /\ i \in 2..Len(t)
  BY DEF HistoryOK
<1>2. t[i].ins \in Seq(Nat \X Nat)
  BY <1>1 DEF Transaction
<1>3. PICK k \in 1..Len(t[i].ins) : c = t[i].ins[k]
  BY <1>2 DEF ToSet
<1>4. PICK j \in 1..(i - 1) : c[1] = t[j].id /\ c[2] \in 1..Len(t[j].outs)
  BY <1>1, <1>3 DEF HistoryOK, Funded
<1>5. j \in 1..Len(t)
  BY <1>1
<1>6. OutputIn(t, c) = t[j].outs[c[2]]
  BY <1>4, <1>5, OutputAt
<1>7. t[j].outs \in Seq(Output)
  <2>1. t[j] \in Transaction
    BY <1>5 DEF HistoryOK
  <2> QED BY <2>1 DEF Transaction
<1>8. c \in Nat \X Nat
  BY <1>2, <1>3
<1> QED BY <1>4, <1>6, <1>7, <1>8

\* It was made before.
LEMMA InputEarlier ==
    ASSUME NEW t, HistoryOK(t), NEW i \in 1..Len(t), NEW c \in ToSet(t[i].ins), i > 1
    PROVE  c[1] # t[i].id
<1>1. PICK j \in 1..(i - 1) : c[1] = t[j].id
  BY InputFrom
<1>2. Len(t) \in Nat
  BY DEF HistoryOK
<1>3. j \in 1..Len(t) /\ j # i
  BY <1>2
<1> QED BY <1>1, <1>3, IdsDiffer

\* It is the same in every chain that goes on from there.
LEMMA InputStays ==
    ASSUME NEW s, NEW t, HistoryOK(s), HistoryOK(t), Grows(s, t), NEW i \in 1..Len(s), i > 1,
           NEW c \in ToSet(s[i].ins)
    PROVE  OutputIn(t, c) = OutputIn(s, c)
<1>1. PICK j \in 1..(i - 1) : c[1] = s[j].id /\ OutputIn(s, c) = s[j].outs[c[2]]
  BY InputFrom
<1>2. Len(s) \in Nat /\ Len(t) \in Nat
  BY DEF HistoryOK
<1>3. j \in 1..Len(s) /\ j \in 1..Len(t) /\ t[j] = s[j]
  BY <1>2 DEF Grows
<1>4. OutputIn(t, c) = t[j].outs[c[2]]
  BY <1>1, <1>3, OutputAt
<1> QED BY <1>1, <1>3, <1>4

-----------------------------------------------------------------------------
(* What is made of a transaction, told by the chain and by who holds assets. *)

Takes(tx, v) ==
    /\ v \in DOMAIN tx.outs \ DataOutputs(tx)
    /\ \A w \in DOMAIN tx.outs \ DataOutputs(tx) : v <= w

Found(rows, tx) == \E r \in rows : r.coin \in ToSet(tx.ins) /\ r.assets
Moves(rows, tx) ==
    /\ tx.sound
    /\ "issue" \in AssetOpcode(tx) \/ ("move" \in AssetOpcode(tx) /\ Found(rows, tx))

KycAt(txs, i) == KycForm(txs[i]) /\ OutputIn(txs, Last(txs[i].ins)).address \in Verifier
RatesAt(txs, i) == RatesForm(txs[i]) /\ OutputIn(txs, Head(txs[i].ins)).address = txs[i].outs[2].address

Kind(n, txs, rows, i) ==
    IF Skips(n, txs[i]) \/ DataIndex(txs[i]) = 0 THEN "standard"
    ELSE IF KycAt(txs, i) THEN "KYC_ISSUANCE"
    ELSE IF RevokeForm(txs[i]) THEN "KYC_REVOKE"
    ELSE IF RatesAt(txs, i) THEN "EXCHANGE_PUBLISH"
    ELSE IF KeyForm(txs[i]) THEN "ENCRYPTED_KEY"
    ELSE IF Moves(rows, txs[i]) THEN "DIGIASSET"
    ELSE "unknown"

\* Rows of outputs of a chain.
Placed(txs, rows) ==
    /\ rows \subseteq CoinRow
    /\ \A r \in rows : /\ r.height \in 1..Len(txs) /\ r.coin[1] = txs[r.height].id
                       /\ r.coin[2] \in 1..Len(txs[r.height].outs)
                       /\ r.address = txs[r.height].outs[r.coin[2]].address

RowsOK(n, txs, rows) ==
    /\ Placed(txs, rows)
    /\ \A r \in rows :
          r.assets <=> Kind(n, txs, rows, r.height) = "DIGIASSET" /\ Takes(txs[r.height], r.coin[2])
    /\ \A i \in 1..Len(txs) : \A v \in 1..Len(txs[i].outs) :
          n = "full" \/ (Kind(n, txs, rows, i) = "DIGIASSET" /\ Takes(txs[i], v)) =>
             \E r \in rows : r.height = i /\ r.coin[2] = v

RatesOK(n, txs, rows, table) ==
    table = {[address |-> txs[i].outs[2].address, height |-> i] :
                i \in {j \in 1..Len(txs) : Kind(n, txs, rows, j) = "EXCHANGE_PUBLISH"}}

KycOK(n, txs, rows, table) ==
    /\ table \subseteq KycRow
    /\ \A r \in table :
          /\ r.height \in 1..Len(txs) /\ Kind(n, txs, rows, r.height) = "KYC_ISSUANCE"
          /\ r.address = txs[r.height].outs[1].address
          /\ \/ r.revoked = Standing
             \/ /\ r.revoked \in 1..Len(txs) /\ Kind(n, txs, rows, r.revoked) = "KYC_REVOKE"
                /\ r.address = txs[r.revoked].outs[1].address
    /\ \A r, q \in table : r.address = q.address => r = q
    /\ \A i \in 1..Len(txs) : Kind(n, txs, rows, i) = "KYC_ISSUANCE" =>
          \E r \in table : r.address = txs[i].outs[1].address /\ r.height <= i

KeysOK(n, txs, rows, table) ==
    /\ table \subseteq KeyRow
    /\ \A r, q \in table : r.address = q.address => r = q
    /\ \A r \in table : \A i \in 1..Len(txs) : r.txid = txs[i].id =>
          Kind(n, txs, rows, i) = "ENCRYPTED_KEY" /\ r.address = txs[i].outs[1].address
    /\ \A i \in 1..Len(txs) : Kind(n, txs, rows, i) = "ENCRYPTED_KEY" =>
          \E r \in table : r.address = txs[i].outs[1].address /\ r.txid <= txs[i].id

UnknownOK(n, txs, rows, list) ==
    /\ list \in Seq(Nat)
    /\ \A i \in 1..Len(txs) : txs[i].id \in ToSet(list) <=> Kind(n, txs, rows, i) = "unknown"

\* No node that keeps every output gets past a revocation.
NoRevoke(n, txs, rows) == n = "full" => \A i \in 1..Len(txs) : Kind(n, txs, rows, i) # "KYC_REVOKE"

\* Ids a node has processed.
Processed(txs, table, list) == {txs[i].id : i \in 1..Len(txs)} \cup {r.txid : r \in table} \cup ToSet(list)

\* Where the wallet's chain leaves the node's it goes on with ids nobody has processed.
NewerThan(txs, t, ids) ==
    \A j \in 1..Len(t) : j > Len(txs) \/ txs[j] # t[j] => \A x \in ids : x < t[j].id

\* What the tables of a node, that has processed s, hold while the wallet's chain is ch.
NodeOK(n, s, rows, kyt, rts, kys, list, ch, last) ==
    /\ HistoryOK(s)
    /\ RowsOK(n, s, rows)
    /\ RatesOK(n, s, rows, rts)
    /\ KycOK(n, s, rows, kyt)
    /\ KeysOK(n, s, rows, kys)
    /\ UnknownOK(n, s, rows, list)
    /\ NoRevoke(n, s, rows)
    /\ s[1] = ch[1]
    /\ NewerThan(s, ch, Processed(s, kys, list))
    /\ \A x \in Processed(s, kys, list) : x \in Nat /\ x <= last

NodeInv(n) ==
    NodeOK(n, seen[n], coins[n], kyc[n], rates[n], keys[n], unknown[n], chain, lastId)

ChainOK(ch, last) == HistoryOK(ch) /\ last \in Nat /\ \A i \in 1..Len(ch) : ch[i].id <= last

Tables ==
    /\ DOMAIN seen = Node /\ DOMAIN coins = Node /\ DOMAIN kyc = Node
    /\ DOMAIN rates = Node /\ DOMAIN keys = Node /\ DOMAIN unknown = Node

IInv == ChainOK(chain, lastId) /\ Tables /\ \A n \in Node : NodeInv(n)

-----------------------------------------------------------------------------
(* A shorter chain, with the rows of its outputs.                          *)

\* The first transaction has no data.
LEMMA NoData ==
    ASSUME NEW t, HistoryOK(t)
    PROVE  DataIndex(t[1]) = 0
BY DEF HistoryOK, DataIndex

\* The kind of a transaction is told by what is before it.
LEMMA KindStays ==
    ASSUME NEW n, NEW s, NEW t, HistoryOK(s), HistoryOK(t), Grows(s, t), NEW i \in 1..Len(s),
           NEW q, Placed(t, q), NEW p, p = {r \in q : r.height <= Len(s)}
    PROVE  Kind(n, t, q, i) = Kind(n, s, p, i)
<1>1. Len(s) \in Nat /\ Len(t) \in Nat /\ i \in 1..Len(t) /\ t[i] = s[i]
  BY DEF HistoryOK, Grows
<1>2. CASE i = 1
  BY <1>1, <1>2, NoData DEF Kind
<1>3. CASE i > 1
  <2>1. s[i].ins \in Seq(Nat \X Nat) /\ s[i].ins # << >>
    <3>1. s[i] \in Transaction /\ i \in 2..Len(s)
      BY <1>1, <1>3 DEF HistoryOK
    <3> QED BY <3>1 DEF Transaction, HistoryOK
  <2>2. Last(s[i].ins) \in ToSet(s[i].ins) /\ Head(s[i].ins) \in ToSet(s[i].ins)
    BY <2>1 DEF Last, ToSet
  <2>3. /\ OutputIn(t, Last(s[i].ins)) = OutputIn(s, Last(s[i].ins))
        /\ OutputIn(t, Head(s[i].ins)) = OutputIn(s, Head(s[i].ins))
    BY <1>3, <2>2, InputStays
  <2>4. KycAt(t, i) = KycAt(s, i) /\ RatesAt(t, i) = RatesAt(s, i)
    BY <1>1, <2>3 DEF KycAt, RatesAt
  <2>5. Found(q, s[i]) = Found(p, s[i])
    <3>1. ASSUME NEW r \in q, r.coin \in ToSet(s[i].ins) PROVE r \in p
      <4> DEFINE c == r.coin
      <4>0. c \in ToSet(t[i].ins)
        BY <1>1, <3>1
      <4> HIDE DEF c
      <4>1. PICK j \in 1..(i - 1) : c[1] = t[j].id
        BY <1>1, <1>3, <4>0, InputFrom
      <4>2. r.height \in 1..Len(t) /\ r.coin[1] = t[r.height].id
        BY DEF Placed
      <4>3. j \in 1..Len(t)
        BY <1>1
      <4>4. r.height = j
        BY <4>1, <4>2, <4>3, IdsDiffer DEF c
      <4>5. j <= Len(s)
        BY <1>1
      <4> QED BY <4>4, <4>5
    <3> QED BY <3>1 DEF Found
  <2>6. Moves(q, s[i]) = Moves(p, s[i])
    BY <2>5 DEF Moves
  <2> QED BY <1>1, <2>4, <2>6 DEF Kind
<1> QED BY <1>1, <1>2, <1>3

LEMMA PlacedPart ==
    ASSUME NEW s, NEW t, HistoryOK(s), HistoryOK(t), Grows(s, t),
           NEW q, Placed(t, q), NEW p, p = {r \in q : r.height <= Len(s)}
    PROVE  Placed(s, p)
<1>1. Len(s) \in Nat /\ Len(t) \in Nat
  BY DEF HistoryOK
<1> SUFFICES ASSUME NEW r \in p
             PROVE  /\ r \in CoinRow /\ r.height \in 1..Len(s) /\ r.coin[1] = s[r.height].id
                    /\ r.coin[2] \in 1..Len(s[r.height].outs)
                    /\ r.address = s[r.height].outs[r.coin[2]].address
  BY DEF Placed
<1>2. r \in q /\ r.height \in 1..Len(t) /\ r.height <= Len(s)
  BY DEF Placed
<1>3. r.height \in 1..Len(s) /\ t[r.height] = s[r.height]
  BY <1>1, <1>2 DEF Grows
<1> QED BY <1>2, <1>3 DEF Placed

LEMMA RowsOfPart ==
    ASSUME NEW n, NEW s, NEW t, HistoryOK(s), HistoryOK(t), Grows(s, t),
           NEW q, RowsOK(n, t, q), NEW p, p = {r \in q : r.height <= Len(s)}
    PROVE  RowsOK(n, s, p)
<1>0. Placed(t, q) /\ Len(s) \in Nat /\ Len(t) \in Nat
  BY DEF RowsOK, HistoryOK
<1>1. Placed(s, p)
  BY <1>0, PlacedPart
<1>2. \A i \in 1..Len(s) : Kind(n, t, q, i) = Kind(n, s, p, i)
  BY <1>0, KindStays
<1>3. \A i \in 1..Len(s) : i \in 1..Len(t) /\ t[i] = s[i]
  BY <1>0 DEF Grows
<1>4. ASSUME NEW r \in p
      PROVE  r.assets <=> Kind(n, s, p, r.height) = "DIGIASSET" /\ Takes(s[r.height], r.coin[2])
  <2>1. r \in q /\ r.height \in 1..Len(s)
    BY <1>1 DEF Placed
  <2> QED BY <1>2, <1>3, <2>1 DEF RowsOK
<1>5. ASSUME NEW i \in 1..Len(s), NEW v \in 1..Len(s[i].outs),
             n = "full" \/ (Kind(n, s, p, i) = "DIGIASSET" /\ Takes(s[i], v))
      PROVE  \E r \in p : r.height = i /\ r.coin[2] = v
  <2>1. n = "full" \/ (Kind(n, t, q, i) = "DIGIASSET" /\ Takes(t[i], v))
    BY <1>2, <1>3, <1>5
  <2>2. PICK r \in q : r.height = i /\ r.coin[2] = v
    BY <1>3, <2>1 DEF RowsOK
  <2> QED BY <1>0, <2>2
<1> QED BY <1>1, <1>4, <1>5 DEF RowsOK

\* What the tables have of the shorter chain, once the later heights are cleared.
LEMMA TablesOfPart ==
    ASSUME NEW n, NEW s, NEW t, HistoryOK(s), HistoryOK(t), Grows(s, t),
           NEW q, Placed(t, q), NEW p, p = {r \in q : r.height <= Len(s)},
           NEW rts, RatesOK(n, t, q, rts), NEW kys, KeysOK(n, t, q, kys),
           NEW list, UnknownOK(n, t, q, list), NoRevoke(n, t, q)
    PROVE  /\ RatesOK(n, s, p, {r \in rts : r.height \in 1..Len(s)})
           /\ KeysOK(n, s, p, kys) /\ UnknownOK(n, s, p, list) /\ NoRevoke(n, s, p)
<1>1. Len(s) \in Nat /\ Len(t) \in Nat
  BY DEF HistoryOK
<1>2. \A i \in 1..Len(s) : Kind(n, t, q, i) = Kind(n, s, p, i)
  BY KindStays
<1>3. \A i \in 1..Len(s) : i \in 1..Len(t) /\ t[i] = s[i]
  BY <1>1 DEF Grows
<1>4. RatesOK(n, s, p, {r \in rts : r.height \in 1..Len(s)})
  <2> DEFINE row(i) == [address |-> t[i].outs[2].address, height |-> i]
             there == {i \in 1..Len(t) : Kind(n, t, q, i) = "EXCHANGE_PUBLISH"}
             here == {i \in 1..Len(s) : Kind(n, s, p, i) = "EXCHANGE_PUBLISH"}
  <2>1. rts = {row(i) : i \in there}
    BY DEF RatesOK
  <2>2. \A i : row(i).height = i
    OBVIOUS
  <2>3. \A i \in here : row(i) = [address |-> s[i].outs[2].address, height |-> i]
    BY <1>3
  <2>4. here = {i \in there : i \in 1..Len(s)}
    BY <1>2, <1>3
  <2>5. {r \in rts : r.height \in 1..Len(s)} = {row(i) : i \in here}
    <3> HIDE DEF row, here, there
    <3> QED BY <2>1, <2>2, <2>4
  <2>6. {row(i) : i \in here} = {[address |-> s[i].outs[2].address, height |-> i] : i \in here}
    BY <2>3
  <2> QED BY <2>5, <2>6 DEF RatesOK
<1>5. KeysOK(n, s, p, kys)
  BY <1>2, <1>3 DEF KeysOK
<1>6. UnknownOK(n, s, p, list)
  BY <1>2, <1>3 DEF UnknownOK
<1>7. NoRevoke(n, s, p)
  BY <1>2, <1>3 DEF NoRevoke
<1> QED BY <1>4, <1>5, <1>6, <1>7

\* What a rewind makes of the KYC table.
Restored(table, k) ==
    {[r EXCEPT !.revoked = IF @ \in 1..k THEN @ ELSE Standing] : r \in {x \in table : x.height \in 1..k}}

LEMMA KycOfPart ==
    ASSUME NEW n, NEW s, NEW t, HistoryOK(s), HistoryOK(t), Grows(s, t),
           NEW q, Placed(t, q), NEW p, p = {r \in q : r.height <= Len(s)},
           NEW table, KycOK(n, t, q, table)
    PROVE  KycOK(n, s, p, Restored(table, Len(s)))
<1>1. Len(s) \in Nat /\ Len(t) \in Nat
  BY DEF HistoryOK
<1>2. \A i \in 1..Len(s) : Kind(n, t, q, i) = Kind(n, s, p, i)
  BY KindStays
<1>3. \A i \in 1..Len(s) : i \in 1..Len(t) /\ t[i] = s[i]
  BY <1>1 DEF Grows
<1> DEFINE old == {x \in table : x.height \in 1..Len(s)}
           back(r) == [r EXCEPT !.revoked = IF @ \in 1..Len(s) THEN @ ELSE Standing]
<1>4. ASSUME NEW r \in old
      PROVE  /\ back(r) \in KycRow /\ back(r).address = r.address /\ back(r).height = r.height
             /\ back(r).revoked = IF r.revoked \in 1..Len(s) THEN r.revoked ELSE Standing
  <2>1. r \in KycRow
    BY DEF KycOK
  <2> QED BY <2>1 DEF KycRow, Standing
<1>5. Restored(table, Len(s)) = {back(r) : r \in old}
  BY DEF Restored
<1> HIDE DEF back
<1>6. \A b \in Restored(table, Len(s)) : \E r \in old : b = back(r)
  BY <1>5
<1>7. Restored(table, Len(s)) \subseteq KycRow
  BY <1>4, <1>6
<1>8. ASSUME NEW b \in Restored(table, Len(s))
      PROVE  /\ b.height \in 1..Len(s) /\ Kind(n, s, p, b.height) = "KYC_ISSUANCE"
             /\ b.address = s[b.height].outs[1].address
             /\ \/ b.revoked = Standing
                \/ /\ b.revoked \in 1..Len(s) /\ Kind(n, s, p, b.revoked) = "KYC_REVOKE"
                   /\ b.address = s[b.revoked].outs[1].address
  <2>1. PICK r \in old : b = back(r)
    BY <1>6
  <2>2. /\ r.height \in 1..Len(s) /\ Kind(n, t, q, r.height) = "KYC_ISSUANCE"
        /\ r.address = t[r.height].outs[1].address
        /\ \/ r.revoked = Standing
           \/ /\ r.revoked \in 1..Len(t) /\ Kind(n, t, q, r.revoked) = "KYC_REVOKE"
              /\ r.address = t[r.revoked].outs[1].address
    BY DEF KycOK
  <2>3. b.height = r.height /\ b.address = r.address
    BY <1>4, <2>1
  <2>4. CASE b.revoked = Standing
    BY <1>2, <1>3, <2>2, <2>3, <2>4
  <2>5. CASE b.revoked # Standing
    <3>1. r.revoked \in 1..Len(s) /\ b.revoked = r.revoked
      BY <1>4, <2>1, <2>5
    <3> QED BY <1>2, <1>3, <2>2, <2>3, <2>5, <3>1
  <2> QED BY <2>4, <2>5
<1>9. \A b, c \in Restored(table, Len(s)) : b.address = c.address => b = c
  <2> SUFFICES ASSUME NEW r \in old, NEW u \in old, back(r).address = back(u).address
               PROVE  back(r) = back(u)
    BY <1>6
  <2>1. r = u
    BY <1>4 DEF KycOK
  <2> QED BY <2>1
<1>10. ASSUME NEW i \in 1..Len(s), Kind(n, s, p, i) = "KYC_ISSUANCE"
       PROVE  \E b \in Restored(table, Len(s)) : b.address = s[i].outs[1].address /\ b.height <= i
  <2>1. PICK r \in table : r.address = t[i].outs[1].address /\ r.height <= i
    BY <1>2, <1>3, <1>10 DEF KycOK
  <2>2. r.height \in 1..Len(t)
    BY DEF KycOK
  <2>3. r \in old
    BY <1>1, <2>1, <2>2
  <2> QED BY <1>3, <1>4, <1>5, <2>1, <2>3
<1> QED BY <1>7, <1>8, <1>9, <1>10 DEF KycOK

-----------------------------------------------------------------------------
(* One transaction more.                                                   *)

Row(tx, type, h, v) ==
    [coin |-> <<tx.id, v>>, address |-> tx.outs[v].address,
     assets |-> type = "DIGIASSET" /\ Takes(tx, v), height |-> h]

\* What createUTXO writes.
LEMMA CreatedRows ==
    ASSUME NEW n, NEW tx \in Transaction, NEW type, NEW h \in Nat
    PROVE  /\ \A r \in Created(n, tx, type, h) : \E v \in 1..Len(tx.outs) : r = Row(tx, type, h, v)
           /\ \A v \in 1..Len(tx.outs) : n = "full" \/ Row(tx, type, h, v).assets =>
                 Row(tx, type, h, v) \in Created(n, tx, type, h)
<1>1. DOMAIN tx.outs = 1..Len(tx.outs)
  BY DEF Transaction
<1> DEFINE taker == {v \in DOMAIN tx.outs \ DataOutputs(tx) : \A w \in DOMAIN tx.outs \ DataOutputs(tx) : v <= w}
           row(v) == [coin |-> <<tx.id, v>>, address |-> tx.outs[v].address,
                      assets |-> type = "DIGIASSET" /\ v \in taker, height |-> h]
<1>2. Created(n, tx, type, h) = {r \in {row(v) : v \in DOMAIN tx.outs} : n = "full" \/ r.assets}
  BY DEF Created
<1>3. ASSUME NEW v \in DOMAIN tx.outs PROVE row(v) = Row(tx, type, h, v)
  <2>1. v \in taker <=> Takes(tx, v)
    BY DEF Takes
  <2> HIDE DEF taker
  <2>2. (type = "DIGIASSET" /\ v \in taker) = (type = "DIGIASSET" /\ Takes(tx, v))
    BY <2>1
  <2> QED BY <2>2 DEF Row
<1> HIDE DEF row
<1>4. /\ \A r \in Created(n, tx, type, h) : \E v \in DOMAIN tx.outs : r = row(v)
      /\ \A v \in DOMAIN tx.outs : n = "full" \/ row(v).assets => row(v) \in Created(n, tx, type, h)
  BY <1>2
<1> QED BY <1>1, <1>3, <1>4

RowsFor(n, tx, type, h, made) ==
    /\ \A r \in made : /\ r \in CoinRow /\ r.height = h /\ r.coin[1] = tx.id
                       /\ r.coin[2] \in 1..Len(tx.outs) /\ r.address = tx.outs[r.coin[2]].address
                       /\ r.assets <=> type = "DIGIASSET" /\ Takes(tx, r.coin[2])
    /\ \A v \in 1..Len(tx.outs) : n = "full" \/ (type = "DIGIASSET" /\ Takes(tx, v)) =>
          \E r \in made : r.coin[2] = v

LEMMA CreatedRow ==
    ASSUME NEW n, NEW tx \in Transaction, NEW type, NEW h \in Nat
    PROVE  RowsFor(n, tx, type, h, Created(n, tx, type, h))
<1>1. tx.outs \in Seq(Output) /\ tx.id \in Nat
  BY DEF Transaction
<1>2. ASSUME NEW v \in 1..Len(tx.outs)
      PROVE  LET r == Row(tx, type, h, v)
             IN  /\ r \in CoinRow /\ r.height = h /\ r.coin[1] = tx.id /\ r.coin[2] = v
                 /\ r.address = tx.outs[v].address
                 /\ r.assets <=> type = "DIGIASSET" /\ Takes(tx, v)
  <2>1. tx.outs[v] \in Output /\ v \in Nat
    BY <1>1
  <2>2. tx.outs[v].address \in Person \cup {Bare}
    BY <2>1 DEF Output
  <2>3. <<tx.id, v>> \in Nat \X Nat
    BY <1>1, <2>1
  <2>4. (type = "DIGIASSET" /\ Takes(tx, v)) \in BOOLEAN
    BY DEF Takes
  <2> QED BY <2>2, <2>3, <2>4 DEF Row, CoinRow
<1> DEFINE made == Created(n, tx, type, h)
<1>3. /\ \A r \in made : \E v \in 1..Len(tx.outs) : r = Row(tx, type, h, v)
      /\ \A v \in 1..Len(tx.outs) : n = "full" \/ Row(tx, type, h, v).assets => Row(tx, type, h, v) \in made
  BY CreatedRows
<1> HIDE DEF made
<1>4. ASSUME NEW r \in made
      PROVE  /\ r \in CoinRow /\ r.height = h /\ r.coin[1] = tx.id
             /\ r.coin[2] \in 1..Len(tx.outs) /\ r.address = tx.outs[r.coin[2]].address
             /\ r.assets <=> type = "DIGIASSET" /\ Takes(tx, r.coin[2])
  <2>1. PICK v \in 1..Len(tx.outs) : r = Row(tx, type, h, v)
    BY <1>3
  <2> QED BY <1>2, <2>1
<1>5. ASSUME NEW v \in 1..Len(tx.outs), n = "full" \/ (type = "DIGIASSET" /\ Takes(tx, v))
      PROVE  \E r \in made : r.coin[2] = v
  <2>1. Row(tx, type, h, v) \in made
    BY <1>2, <1>3, <1>5
  <2> QED BY <1>2, <2>1
<1> QED BY <1>4, <1>5 DEF made, RowsFor

\* A node has gone on from s to t, with the rows p and then q; "type" is what it made of the
\* last transaction.
Goes(n, s, p, t, q, type) ==
    /\ HistoryOK(s) /\ HistoryOK(t) /\ Grows(s, t) /\ Len(t) = Len(s) + 1
    /\ Kind(n, t, q, Len(t)) = type
    /\ \A i \in 1..Len(s) : Kind(n, t, q, i) = Kind(n, s, p, i)

\* The outputs of the next transaction are added, and what was made of the others stays.
LEMMA RowsGo ==
    ASSUME NEW n, NEW s, NEW t, HistoryOK(s), HistoryOK(t), Grows(s, t), Len(t) = Len(s) + 1,
           NEW p, RowsOK(n, s, p), NEW type, type = Kind(n, t, p, Len(t)),
           NEW q, q = p \cup Created(n, t[Len(t)], type, Len(t))
    PROVE  RowsOK(n, t, q) /\ Goes(n, s, p, t, q, type)
<1> DEFINE h == Len(t)
           tx == t[h]
           made == Created(n, tx, type, h)
<1>1. /\ Len(s) \in Nat /\ Len(s) >= 1 /\ h = Len(s) + 1 /\ h \in 1..Len(t) /\ h > 1 /\ h \in Nat
      /\ tx \in Transaction
  BY DEF HistoryOK
<1>2. \A i \in 1..Len(s) : i \in 1..Len(t) /\ t[i] = s[i] /\ i # h
  BY <1>1 DEF Grows
<1> HIDE DEF h, tx
<1>3. RowsFor(n, tx, type, h, made)
  BY <1>1, CreatedRow
<1>4. q = p \cup made
  BY DEF h, tx
<1> HIDE DEF made
<1> USE DEF h, tx
<1>5. \A r \in p : /\ r \in CoinRow /\ r.height \in 1..Len(s) /\ r.coin[1] = s[r.height].id
                   /\ r.coin[2] \in 1..Len(s[r.height].outs)
                   /\ r.address = s[r.height].outs[r.coin[2]].address
  BY DEF RowsOK, Placed
<1>6. Placed(t, q)
  <2>1. \A r \in p : /\ r \in CoinRow /\ r.height \in 1..Len(t) /\ r.coin[1] = t[r.height].id
                     /\ r.coin[2] \in 1..Len(t[r.height].outs)
                     /\ r.address = t[r.height].outs[r.coin[2]].address
    BY <1>2, <1>5
  <2>2. \A r \in made : /\ r \in CoinRow /\ r.height \in 1..Len(t) /\ r.coin[1] = t[r.height].id
                        /\ r.coin[2] \in 1..Len(t[r.height].outs)
                        /\ r.address = t[r.height].outs[r.coin[2]].address
    BY <1>1, <1>3 DEF RowsFor
  <2> QED BY <1>4, <2>1, <2>2 DEF Placed
<1>7. p = {r \in q : r.height <= Len(s)}
  <2>1. \A r \in p : r.height <= Len(s)
    BY <1>1, <1>5
  <2>2. \A r \in made : ~(r.height <= Len(s))
    BY <1>1, <1>3 DEF RowsFor
  <2> QED BY <1>4, <2>1, <2>2
<1>8. \A i \in 1..Len(s) : Kind(n, t, q, i) = Kind(n, s, p, i)
  BY <1>6, <1>7, KindStays
<1>9. Kind(n, t, q, h) = Kind(n, t, p, h)
  <2>1. Found(q, tx) = Found(p, tx)
    <3>1. ASSUME NEW r \in made, r.coin \in ToSet(tx.ins) PROVE FALSE
      <4> DEFINE c == r.coin
      <4>1. c \in ToSet(t[h].ins) /\ c[1] = t[h].id
        BY <1>3, <3>1 DEF RowsFor
      <4> HIDE DEF c, h, tx
      <4>2. c[1] # t[h].id
        BY <1>1, <4>1, InputEarlier
      <4> QED BY <4>1, <4>2
    <3> QED BY <1>4, <3>1 DEF Found
  <2>2. Moves(q, tx) = Moves(p, tx)
    BY <2>1 DEF Moves
  <2> QED BY <2>2 DEF Kind
<1>10. ASSUME NEW r \in q
       PROVE  r.assets <=> Kind(n, t, q, r.height) = "DIGIASSET" /\ Takes(t[r.height], r.coin[2])
  <2>1. CASE r \in p
    BY <1>2, <1>5, <1>8, <2>1 DEF RowsOK
  <2>2. CASE r \in made
    BY <1>3, <1>9, <2>2 DEF RowsFor
  <2> QED BY <1>4, <2>1, <2>2
<1>11. ASSUME NEW i \in 1..Len(t), NEW v \in 1..Len(t[i].outs),
              n = "full" \/ (Kind(n, t, q, i) = "DIGIASSET" /\ Takes(t[i], v))
       PROVE  \E r \in q : r.height = i /\ r.coin[2] = v
  <2>1. CASE i = h
    <3>1. v \in 1..Len(tx.outs) /\ (n = "full" \/ (type = "DIGIASSET" /\ Takes(tx, v)))
      BY <1>9, <1>11, <2>1
    <3>2. PICK r \in made : r.coin[2] = v
      BY <1>3, <3>1 DEF RowsFor
    <3> QED BY <1>3, <1>4, <2>1, <3>2 DEF RowsFor
  <2>2. CASE i # h
    <3>1. i \in 1..Len(s)
      BY <1>1, <2>2
    <3>2. v \in 1..Len(s[i].outs) /\ (n = "full" \/ (Kind(n, s, p, i) = "DIGIASSET" /\ Takes(s[i], v)))
      BY <1>2, <1>8, <1>11, <3>1
    <3>3. \E r \in p : r.height = i /\ r.coin[2] = v
      BY <3>1, <3>2 DEF RowsOK
    <3> QED BY <1>4, <3>3
  <2> QED BY <2>1, <2>2
<1>12. RowsOK(n, t, q)
  BY <1>6, <1>10, <1>11 DEF RowsOK
<1> QED BY <1>8, <1>9, <1>12 DEF Goes

\* What a longer list holds.
LEMMA AppendSet ==
    ASSUME NEW S, NEW l \in Seq(S), NEW e \in S
    PROVE  \A x : x \in ToSet(Append(l, e)) <=> x \in ToSet(l) \/ x = e
<1> DEFINE m == Append(l, e)
<1>1. m \in Seq(S) /\ Len(m) = Len(l) + 1 /\ Len(l) \in Nat /\ m[Len(l) + 1] = e
      /\ \A i \in 1..Len(l) : m[i] = l[i]
  OBVIOUS
<1> HIDE DEF m
<1>2. ToSet(m) = {m[i] : i \in 1..Len(m)} /\ ToSet(l) = {l[i] : i \in 1..Len(l)}
  BY <1>1 DEF ToSet
<1>3. \A i : i \in 1..Len(m) <=> i \in 1..Len(l) \/ i = Len(l) + 1
  BY <1>1
<1> QED BY <1>1, <1>2, <1>3 DEF m

\* What a kind says of the outputs.
LEMMA KindForms ==
    ASSUME NEW n, NEW t, HistoryOK(t), NEW q, NEW i \in 1..Len(t)
    PROVE  /\ Kind(n, t, q, i) = "KYC_ISSUANCE" =>
                 KycAt(t, i) /\ KycForm(t[i]) /\ t[i].outs[1].address \in Person \cup {Bare}
           /\ Kind(n, t, q, i) = "KYC_REVOKE" => RevokeForm(t[i]) /\ t[i].outs[1].address \in Verifier
           /\ Kind(n, t, q, i) = "EXCHANGE_PUBLISH" =>
                 RatesAt(t, i) /\ RatesForm(t[i]) /\ t[i].outs[2].address \in Person \cup {Bare}
           /\ Kind(n, t, q, i) = "ENCRYPTED_KEY" =>
                 KeyForm(t[i]) /\ t[i].outs[1].address \in Person \cup {Bare}
           /\ Kind(n, t, q, i) = "DIGIASSET" => Moves(q, t[i])
<1>1. t[i] \in Transaction
  BY DEF HistoryOK
<1>2. t[i].outs \in Seq(Output)
  BY <1>1 DEF Transaction
<1>3. ASSUME NEW k \in 1..Len(t[i].outs) PROVE t[i].outs[k].address \in Person \cup {Bare}
  <2>1. t[i].outs[k] \in Output
    BY <1>2
  <2> QED BY <2>1 DEF Output
<1>4. Kind(n, t, q, i) = "KYC_ISSUANCE" => KycAt(t, i)
  BY DEF Kind
<1>5. Kind(n, t, q, i) = "KYC_REVOKE" => RevokeForm(t[i])
  BY DEF Kind
<1>6. Kind(n, t, q, i) = "EXCHANGE_PUBLISH" => RatesAt(t, i)
  BY DEF Kind
<1>7. Kind(n, t, q, i) = "ENCRYPTED_KEY" => KeyForm(t[i])
  BY DEF Kind
<1>8. Kind(n, t, q, i) = "DIGIASSET" => Moves(q, t[i])
  BY DEF Kind
<1>9. KycForm(t[i]) => 1 \in 1..Len(t[i].outs)
  BY DEF KycForm
<1>10. RatesForm(t[i]) => 2 \in 1..Len(t[i].outs)
  BY DEF RatesForm
<1>11. KeyForm(t[i]) => 1 \in 1..Len(t[i].outs)
  BY <1>2 DEF KeyForm
<1>12. RevokeForm(t[i]) => t[i].outs[1].address \in Verifier
  BY DEF RevokeForm
<1>13. (KycAt(t, i) => KycForm(t[i])) /\ (RatesAt(t, i) => RatesForm(t[i]))
  BY DEF KycAt, RatesAt
<1> QED BY <1>3, <1>4, <1>5, <1>6, <1>7, <1>8, <1>9, <1>10, <1>11, <1>12, <1>13

\* The tables after it, one by one.
LEMMA RatesGo ==
    ASSUME NEW n, NEW s, NEW p, NEW t, NEW q, NEW type, Goes(n, s, p, t, q, type),
           NEW table, RatesOK(n, s, p, table)
    PROVE  RatesOK(n, t, q, IF type = "EXCHANGE_PUBLISH"
                            THEN table \cup {[address |-> t[Len(t)].outs[2].address, height |-> Len(t)]}
                            ELSE table)
<1> DEFINE h == Len(t)
           row(i) == [address |-> t[i].outs[2].address, height |-> i]
           before == {i \in 1..Len(s) : Kind(n, s, p, i) = "EXCHANGE_PUBLISH"}
           after == {i \in 1..Len(t) : Kind(n, t, q, i) = "EXCHANGE_PUBLISH"}
<1>1. Len(s) \in Nat /\ h = Len(s) + 1 /\ h \in 1..Len(t) /\ \A i \in 1..Len(s) : i # h /\ t[i] = s[i]
  BY DEF Goes, HistoryOK, Grows
<1>2. table = {row(i) : i \in before}
  <2>1. table = {[address |-> s[i].outs[2].address, height |-> i] : i \in before}
    BY DEF RatesOK
  <2>2. \A i \in before : [address |-> s[i].outs[2].address, height |-> i] = row(i)
    BY <1>1
  <2> HIDE DEF before
  <2> QED BY <2>1, <2>2
<1>3. \A i : i \in 1..Len(t) <=> i \in 1..Len(s) \/ i = h
  BY <1>1
<1>4. after = IF type = "EXCHANGE_PUBLISH" THEN before \cup {h} ELSE before
  BY <1>1, <1>3 DEF Goes
<1>5. RatesOK(n, t, q, {row(i) : i \in after})
  BY DEF RatesOK
<1> HIDE DEF row, before, after
<1>6. {row(i) : i \in after} = IF type = "EXCHANGE_PUBLISH" THEN table \cup {row(h)} ELSE table
  BY <1>2, <1>4
<1>7. RatesOK(n, t, q, IF type = "EXCHANGE_PUBLISH" THEN table \cup {row(h)} ELSE table)
  BY <1>5, <1>6
<1> QED BY <1>7 DEF row

LEMMA KeysGo ==
    ASSUME NEW n, NEW s, NEW p, NEW t, NEW q, NEW type, Goes(n, s, p, t, q, type),
           NEW table, KeysOK(n, s, p, table), \A r \in table : r.txid < t[Len(t)].id
    PROVE  KeysOK(n, t, q, IF type = "ENCRYPTED_KEY"
                           THEN AddEncryptedKey(table, t[Len(t)].outs[1].address, t[Len(t)].id)
                           ELSE table)
<1> DEFINE h == Len(t)
           a == t[h].outs[1].address
           row == [address |-> a, txid |-> t[h].id]
           new == IF type = "ENCRYPTED_KEY" THEN AddEncryptedKey(table, a, t[h].id) ELSE table
<1>1. /\ Len(s) \in Nat /\ h = Len(s) + 1 /\ h \in 1..Len(t) /\ HistoryOK(t)
      /\ \A i \in 1..Len(t) : t[i] \in Transaction
  BY DEF Goes, HistoryOK
<1>2. /\ \A i \in 1..Len(s) : t[i] = s[i] /\ Kind(n, t, q, i) = Kind(n, s, p, i)
      /\ \A i \in 1..Len(t) : i \in 1..Len(s) \/ i = h
      /\ Kind(n, t, q, h) = type
  BY <1>1 DEF Goes, Grows
<1>3. \A i \in 1..Len(t) : t[i].id \in Nat
  BY <1>1 DEF Transaction
<1>4. type = "ENCRYPTED_KEY" => a \in Person \cup {Bare}
  BY <1>1, <1>2, KindForms
<1>5. \A r \in table : r.txid # t[h].id /\ r.txid \in Nat
  <2>1. \A r \in table : r.txid \in Nat
    BY DEF KeysOK, KeyRow
  <2> QED BY <1>1, <1>3, <2>1
<1>6. CASE type = "ENCRYPTED_KEY" /\ ~\E r \in table : r.address = a
  <2>1. new = table \cup {row}
    BY <1>6 DEF AddEncryptedKey
  <2>2. row \in KeyRow /\ row.address = a /\ row.txid = t[h].id
    BY <1>1, <1>3, <1>4, <1>6 DEF KeyRow
  <2> HIDE DEF row, new
  <2>3. new \subseteq KeyRow
    BY <2>1, <2>2 DEF KeysOK
  <2>4. \A r, u \in new : r.address = u.address => r = u
    BY <1>6, <2>1, <2>2 DEF KeysOK
  <2>5. ASSUME NEW r \in new, NEW i \in 1..Len(t), r.txid = t[i].id
        PROVE  Kind(n, t, q, i) = "ENCRYPTED_KEY" /\ r.address = t[i].outs[1].address
    <3>1. CASE r = row
      <4>1. i = h
        BY <1>1, <2>2, <2>5, <3>1, IdsDiffer
      <4> QED BY <1>2, <1>6, <2>2, <3>1, <4>1
    <3>2. CASE r \in table
      BY <1>2, <1>5, <2>5, <3>2 DEF KeysOK
    <3> QED BY <2>1, <3>1, <3>2
  <2>6. ASSUME NEW i \in 1..Len(t), Kind(n, t, q, i) = "ENCRYPTED_KEY"
        PROVE  \E r \in new : r.address = t[i].outs[1].address /\ r.txid <= t[i].id
    <3>1. CASE i = h
      BY <1>1, <1>3, <2>1, <2>2, <3>1
    <3>2. CASE i # h
      BY <1>2, <2>1, <2>6, <3>2 DEF KeysOK
    <3> QED BY <3>1, <3>2
  <2>7. KeysOK(n, t, q, new)
    BY <2>3, <2>4, <2>5, <2>6 DEF KeysOK
  <2> QED BY <2>7 DEF new
<1>7. CASE ~(type = "ENCRYPTED_KEY" /\ ~\E r \in table : r.address = a)
  <2>1. new = table
    BY <1>7 DEF AddEncryptedKey
  <2>2. ASSUME NEW r \in table, NEW i \in 1..Len(t), r.txid = t[i].id
        PROVE  Kind(n, t, q, i) = "ENCRYPTED_KEY" /\ r.address = t[i].outs[1].address
    BY <1>2, <1>5, <2>2 DEF KeysOK
  <2>3. ASSUME NEW i \in 1..Len(t), Kind(n, t, q, i) = "ENCRYPTED_KEY"
        PROVE  \E r \in table : r.address = t[i].outs[1].address /\ r.txid <= t[i].id
    <3>1. CASE i = h
      <4>1. PICK r \in table : r.address = a
        BY <1>2, <1>7, <2>3, <3>1
      <4>2. r.txid \in Nat /\ t[h].id \in Nat /\ r.txid < t[h].id
        BY <1>1, <1>3, <1>5
      <4>3. r.txid <= t[h].id
        BY <4>2
      <4> QED BY <3>1, <4>1, <4>3
    <3>2. CASE i # h
      BY <1>2, <2>3, <3>2 DEF KeysOK
    <3> QED BY <3>1, <3>2
  <2>4. KeysOK(n, t, q, table)
    BY <2>2, <2>3 DEF KeysOK
  <2> QED BY <2>1, <2>4
<1> QED BY <1>6, <1>7

LEMMA UnknownGo ==
    ASSUME NEW n, NEW s, NEW p, NEW t, NEW q, NEW type, Goes(n, s, p, t, q, type),
           NEW list, UnknownOK(n, s, p, list), \A x \in ToSet(list) : x < t[Len(t)].id
    PROVE  UnknownOK(n, t, q, IF type = "unknown" THEN Append(list, t[Len(t)].id) ELSE list)
<1> DEFINE h == Len(t)
           new == IF type = "unknown" THEN Append(list, t[h].id) ELSE list
<1>1. /\ Len(s) \in Nat /\ h = Len(s) + 1 /\ h \in 1..Len(t) /\ HistoryOK(t)
      /\ \A i \in 1..Len(t) : t[i] \in Transaction
  BY DEF Goes, HistoryOK
<1>2. /\ \A i \in 1..Len(s) : t[i] = s[i] /\ Kind(n, t, q, i) = Kind(n, s, p, i) /\ i # h /\ i \in 1..Len(t)
      /\ \A i \in 1..Len(t) : i \in 1..Len(s) \/ i = h
      /\ Kind(n, t, q, h) = type
  BY <1>1 DEF Goes, Grows
<1>3. \A i \in 1..Len(t) : t[i].id \in Nat
  BY <1>1 DEF Transaction
<1>4. list \in Seq(Nat) /\ \A i \in 1..Len(s) : s[i].id \in ToSet(list) <=> Kind(n, s, p, i) = "unknown"
  BY DEF UnknownOK
<1>5. t[h].id \notin ToSet(list)
  <2>1. ToSet(list) \subseteq Nat
    BY <1>4 DEF ToSet
  <2> QED BY <1>1, <1>3, <2>1
<1>6. new \in Seq(Nat) /\ ToSet(new) = IF type = "unknown" THEN ToSet(list) \cup {t[h].id} ELSE ToSet(list)
  <2>1. CASE type = "unknown"
    <3>1. new = Append(list, t[h].id) /\ t[h].id \in Nat
      BY <1>1, <1>3, <2>1
    <3>2. \A x : x \in ToSet(Append(list, t[h].id)) <=> x \in ToSet(list) \/ x = t[h].id
      BY <1>4, <3>1, AppendSet
    <3> QED BY <1>4, <2>1, <3>1, <3>2
  <2>2. CASE type # "unknown"
    BY <1>4, <2>2
  <2> QED BY <2>1, <2>2
<1> HIDE DEF new
<1>7. ASSUME NEW i \in 1..Len(t) PROVE t[i].id \in ToSet(new) <=> Kind(n, t, q, i) = "unknown"
  <2>1. CASE i = h
    BY <1>2, <1>5, <1>6, <2>1
  <2>2. CASE i # h
    <3>1. i \in 1..Len(s) /\ t[i].id # t[h].id
      BY <1>1, <1>2, <2>2, IdsDiffer
    <3> QED BY <1>2, <1>4, <1>6, <3>1
  <2> QED BY <2>1, <2>2
<1>8. UnknownOK(n, t, q, new)
  BY <1>6, <1>7 DEF UnknownOK
<1> QED BY <1>8 DEF new

LEMMA RevokeGo ==
    ASSUME NEW n, NEW s, NEW p, NEW t, NEW q, NEW type, Goes(n, s, p, t, q, type),
           NoRevoke(n, s, p), n = "full" => type # "KYC_REVOKE"
    PROVE  NoRevoke(n, t, q)
<1>1. Len(s) \in Nat /\ Len(t) = Len(s) + 1
  BY DEF Goes, HistoryOK
<1>2. \A i \in 1..Len(t) : i \in 1..Len(s) \/ i = Len(t)
  BY <1>1
<1> QED BY <1>2 DEF NoRevoke, Goes

\* The table kyc after a transaction of that kind.
KycAfter(table, type, a, h) ==
    IF type = "KYC_ISSUANCE" THEN AddKYC(table, a, h)
    ELSE IF type = "KYC_REVOKE" THEN RevokeKYC(table, a, h)
    ELSE table

LEMMA KycStays ==
    ASSUME NEW n, NEW s, NEW p, NEW t, NEW q, NEW type, Goes(n, s, p, t, q, type),
           NEW table, KycOK(n, s, p, table)
    PROVE  /\ table \subseteq KycRow
           /\ \A r \in table :
                 /\ r.height \in 1..Len(t) /\ Kind(n, t, q, r.height) = "KYC_ISSUANCE"
                 /\ r.address = t[r.height].outs[1].address
                 /\ \/ r.revoked = Standing
                    \/ /\ r.revoked \in 1..Len(t) /\ Kind(n, t, q, r.revoked) = "KYC_REVOKE"
                       /\ r.address = t[r.revoked].outs[1].address
           /\ \A r, u \in table : r.address = u.address => r = u
           /\ \A i \in 1..Len(s) : Kind(n, t, q, i) = "KYC_ISSUANCE" =>
                 \E r \in table : r.address = t[i].outs[1].address /\ r.height <= i
<1>1. Len(s) \in Nat /\ Len(t) = Len(s) + 1
  BY DEF Goes, HistoryOK
<1>2. \A i \in 1..Len(s) : t[i] = s[i] /\ Kind(n, t, q, i) = Kind(n, s, p, i) /\ i \in 1..Len(t)
  BY <1>1 DEF Goes, Grows
<1>3. ASSUME NEW r \in table
      PROVE  /\ r.height \in 1..Len(t) /\ Kind(n, t, q, r.height) = "KYC_ISSUANCE"
             /\ r.address = t[r.height].outs[1].address
             /\ \/ r.revoked = Standing
                \/ /\ r.revoked \in 1..Len(t) /\ Kind(n, t, q, r.revoked) = "KYC_REVOKE"
                   /\ r.address = t[r.revoked].outs[1].address
  BY <1>2 DEF KycOK
<1>4. ASSUME NEW i \in 1..Len(s), Kind(n, t, q, i) = "KYC_ISSUANCE"
      PROVE  \E r \in table : r.address = t[i].outs[1].address /\ r.height <= i
  BY <1>2, <1>4 DEF KycOK
<1>5. table \subseteq KycRow /\ \A r, u \in table : r.address = u.address => r = u
  BY DEF KycOK
<1> QED BY <1>3, <1>4, <1>5

LEMMA KycGo ==
    ASSUME NEW n, NEW s, NEW p, NEW t, NEW q, NEW type, Goes(n, s, p, t, q, type),
           NEW table, KycOK(n, s, p, table)
    PROVE  KycOK(n, t, q, KycAfter(table, type, t[Len(t)].outs[1].address, Len(t)))
<1> DEFINE h == Len(t)
           a == t[h].outs[1].address
           new == KycAfter(table, type, a, h)
<1>1. /\ Len(s) \in Nat /\ h = Len(s) + 1 /\ h \in 1..Len(t) /\ HistoryOK(t)
      /\ \A i \in 1..Len(t) : i \in 1..Len(s) \/ i = h
      /\ Kind(n, t, q, h) = type /\ h \in Nat
  BY DEF Goes, HistoryOK
<1>2. /\ table \subseteq KycRow
      /\ \A r \in table :
            /\ r.height \in 1..Len(t) /\ Kind(n, t, q, r.height) = "KYC_ISSUANCE"
            /\ r.address = t[r.height].outs[1].address
            /\ \/ r.revoked = Standing
               \/ /\ r.revoked \in 1..Len(t) /\ Kind(n, t, q, r.revoked) = "KYC_REVOKE"
                  /\ r.address = t[r.revoked].outs[1].address
      /\ \A r, u \in table : r.address = u.address => r = u
      /\ \A i \in 1..Len(s) : Kind(n, t, q, i) = "KYC_ISSUANCE" =>
            \E r \in table : r.address = t[i].outs[1].address /\ r.height <= i
  BY KycStays
<1>3. type = "KYC_ISSUANCE" => a \in Person \cup {Bare}
  BY <1>1, KindForms
<1>4. CASE type = "KYC_ISSUANCE"
  <2>1. CASE \E r \in table : r.address = a
    <3>1. new = table
      BY <1>4, <2>1 DEF KycAfter, AddKYC
    <3>2. \E r \in table : r.address = t[h].outs[1].address /\ r.height <= h
      BY <1>1, <1>2, <2>1
    <3>3. KycOK(n, t, q, table)
      BY <1>1, <1>2, <3>2 DEF KycOK
    <3> QED BY <3>1, <3>3
  <2>2. CASE ~\E r \in table : r.address = a
    <3> DEFINE row == [address |-> a, height |-> h, revoked |-> Standing]
    <3>1. new = table \cup {row}
      BY <1>4, <2>2 DEF KycAfter, AddKYC
    <3>2. row \in KycRow /\ row.address = a /\ row.height = h /\ row.revoked = Standing
      BY <1>1, <1>3, <1>4 DEF KycRow, Standing
    <3> HIDE DEF row, new
    <3>3. \A r, u \in new : r.address = u.address => r = u
      BY <1>2, <2>2, <3>1, <3>2
    <3>4. \A r \in new :
              /\ r.height \in 1..Len(t) /\ Kind(n, t, q, r.height) = "KYC_ISSUANCE"
              /\ r.address = t[r.height].outs[1].address
              /\ \/ r.revoked = Standing
                 \/ /\ r.revoked \in 1..Len(t) /\ Kind(n, t, q, r.revoked) = "KYC_REVOKE"
                    /\ r.address = t[r.revoked].outs[1].address
      BY <1>1, <1>2, <1>4, <3>1, <3>2
    <3>5. ASSUME NEW i \in 1..Len(t), Kind(n, t, q, i) = "KYC_ISSUANCE"
          PROVE  \E r \in new : r.address = t[i].outs[1].address /\ r.height <= i
      <4>1. CASE i = h
        BY <1>1, <3>1, <3>2, <4>1
      <4>2. CASE i # h
        BY <1>1, <1>2, <3>1, <3>5, <4>2
      <4> QED BY <4>1, <4>2
    <3>6. KycOK(n, t, q, new)
      BY <1>2, <3>1, <3>2, <3>3, <3>4, <3>5 DEF KycOK
    <3> QED BY <3>6 DEF new
  <2> QED BY <2>1, <2>2
<1>5. CASE type = "KYC_REVOKE"
  <2> DEFINE mark(r) == IF r.address = a THEN [r EXCEPT !.revoked = h] ELSE r
  <2>1. new = {mark(r) : r \in table}
    BY <1>5 DEF KycAfter, RevokeKYC
  <2>2. ASSUME NEW r \in table
        PROVE  /\ mark(r) \in KycRow /\ mark(r).address = r.address /\ mark(r).height = r.height
               /\ mark(r).revoked = IF r.address = a THEN h ELSE r.revoked
    <3>1. r \in KycRow
      BY <1>2
    <3> QED BY <1>1, <3>1 DEF KycRow
  <2> HIDE DEF mark, new
  <2>3. \A b \in new : \E r \in table : b = mark(r)
    BY <2>1
  <2>4. new \subseteq KycRow
    BY <2>2, <2>3
  <2>5. ASSUME NEW b \in new
        PROVE  /\ b.height \in 1..Len(t) /\ Kind(n, t, q, b.height) = "KYC_ISSUANCE"
               /\ b.address = t[b.height].outs[1].address
               /\ \/ b.revoked = Standing
                  \/ /\ b.revoked \in 1..Len(t) /\ Kind(n, t, q, b.revoked) = "KYC_REVOKE"
                     /\ b.address = t[b.revoked].outs[1].address
    <3>1. PICK r \in table : b = mark(r)
      BY <2>3
    <3>2. b.address = r.address /\ b.height = r.height /\ b.revoked = IF r.address = a THEN h ELSE r.revoked
      BY <2>2, <3>1
    <3>3. CASE r.address = a
      BY <1>1, <1>2, <1>5, <3>2, <3>3
    <3>4. CASE r.address # a
      BY <1>2, <3>2, <3>4
    <3> QED BY <3>3, <3>4
  <2>6. \A b, c \in new : b.address = c.address => b = c
    BY <1>2, <2>2, <2>3
  <2>7. ASSUME NEW i \in 1..Len(t), Kind(n, t, q, i) = "KYC_ISSUANCE"
        PROVE  \E b \in new : b.address = t[i].outs[1].address /\ b.height <= i
    <3>1. i \in 1..Len(s)
      BY <1>1, <1>5, <2>7
    <3>2. PICK r \in table : r.address = t[i].outs[1].address /\ r.height <= i
      BY <1>2, <2>7, <3>1
    <3>3. mark(r) \in new
      BY <2>1
    <3> QED BY <2>2, <3>2, <3>3
  <2>8. KycOK(n, t, q, new)
    BY <2>4, <2>5, <2>6, <2>7 DEF KycOK
  <2> QED BY <2>8 DEF new
<1>6. CASE type \notin {"KYC_ISSUANCE", "KYC_REVOKE"}
  <2>1. new = table
    BY <1>6 DEF KycAfter
  <2>2. ASSUME NEW i \in 1..Len(t), Kind(n, t, q, i) = "KYC_ISSUANCE"
        PROVE  \E r \in table : r.address = t[i].outs[1].address /\ r.height <= i
    BY <1>1, <1>2, <1>6, <2>2
  <2>3. KycOK(n, t, q, table)
    BY <1>2, <2>2 DEF KycOK
  <2> QED BY <2>1, <2>3
<1> QED BY <1>4, <1>5, <1>6

-----------------------------------------------------------------------------
(* What a node makes of the next block.                                    *)

\* The sender is the one the chain tells, or is not found.
LEMMA SenderIs ==
    ASSUME HistoryOK(chain), NEW n \in Node, NEW s, HistoryOK(s), RowsOK(n, s, coins[n]),
           NEW t, HistoryOK(t), Grows(s, t), Grows(t, chain), Len(t) = Len(s) + 1,
           NEW c \in ToSet(t[Len(t)].ins)
    PROVE  \/ SendingAddress(n, c) = {OutputIn(t, c).address}
           \/ SendingAddress(n, c) = {OutputIn(t, c).address} \ {Bare}
<1> DEFINE h == Len(t)
           row == {r \in coins[n] : r.coin = c}
           owner == OutputIn(t, c).address
<1>1. /\ Len(s) \in Nat /\ Len(s) >= 1 /\ h = Len(s) + 1 /\ h \in 1..Len(t) /\ h > 1
      /\ \A i \in 1..Len(s) : t[i] = s[i] /\ i \in 1..Len(t)
  BY DEF HistoryOK, Grows
<1>2. PICK j \in 1..(h - 1) : /\ c \in Nat \X Nat /\ c[1] = t[j].id /\ c[2] \in 1..Len(t[j].outs)
                              /\ OutputIn(t, c) = t[j].outs[c[2]]
  BY <1>1, InputFrom
<1>3. j \in 1..Len(s) /\ t[j] = s[j]
  BY <1>1
<1>4. OutputIn(chain, c) = OutputIn(t, c)
  BY <1>1, InputStays
<1>5. ASSUME NEW r \in row PROVE r.address = owner
  <2>1. /\ r \in coins[n] /\ r.coin = c /\ r.height \in 1..Len(s) /\ r.coin[1] = s[r.height].id
        /\ r.address = s[r.height].outs[r.coin[2]].address
    BY DEF RowsOK, Placed
  <2>2. r.height = j
    BY <1>2, <1>3, <2>1, IdsDiffer
  <2> QED BY <1>2, <1>3, <2>1, <2>2
<1>6. CASE row # {}
  <2>1. {r.address : r \in row} = {owner}
    BY <1>5, <1>6
  <2>2. SendingAddress(n, c) = {r.address : r \in row}
    BY <1>6 DEF SendingAddress
  <2> QED BY <2>1, <2>2
<1>7. CASE row = {}
  <2>1. n # "full"
    <3>1. SUFFICES ASSUME n = "full" PROVE FALSE
      OBVIOUS
    <3>2. PICK r \in coins[n] : r.height = j /\ r.coin[2] = c[2]
      BY <1>2, <1>3, <3>1 DEF RowsOK
    <3>3. r.coin \in Nat \X Nat /\ r.coin[1] = c[1]
      BY <1>2, <1>3, <3>2 DEF RowsOK, Placed, CoinRow
    <3>4. r.coin = c
      BY <1>2, <3>2, <3>3
    <3> QED BY <1>7, <3>4
  <2>2. SendingAddress(n, c) = {OutputIn(chain, c).address} \ {Bare}
    BY <1>7, <2>1 DEF SendingAddress
  <2> QED BY <1>4, <2>2
<1> QED BY <1>6, <1>7

\* A node finds the type that the chain tells; one that keeps every output has no sender for a
\* revocation, which asks for the transaction's own output.
LEMMA TypeIsKind ==
    ASSUME HistoryOK(chain), NEW n \in Node, NEW s, HistoryOK(s), RowsOK(n, s, coins[n]),
           NEW t, HistoryOK(t), Grows(s, t), Grows(t, chain), Len(t) = Len(s) + 1
    PROVE  /\ TxType(n, t[Len(t)]) = Kind(n, t, coins[n], Len(t))
           /\ /\ n = "full" /\ Kind(n, t, coins[n], Len(t)) = "KYC_REVOKE"
              => \E c \in Asked(n, t[Len(t)]) : SendingAddress(n, c) = {}
<1> DEFINE h == Len(t)
           tx == t[h]
<1>1. /\ Len(s) \in Nat /\ Len(s) >= 1 /\ h = Len(s) + 1 /\ h \in 1..Len(t) /\ h \in 2..Len(t)
      /\ \A i \in 1..Len(s) : t[i] = s[i] /\ i \in 1..Len(t) /\ i # h
      /\ tx \in Transaction
  BY DEF HistoryOK, Grows
<1>2. tx.ins \in Seq(Nat \X Nat) /\ tx.ins # << >>
  BY <1>1 DEF Transaction, HistoryOK
<1>3. Last(tx.ins) \in ToSet(tx.ins) /\ Head(tx.ins) \in ToSet(tx.ins)
  BY <1>2 DEF Last, ToSet
<1> DEFINE first == Head(tx.ins)
           last == Last(tx.ins)
<1>4. \/ SendingAddress(n, first) = {OutputIn(t, first).address}
      \/ SendingAddress(n, first) = {OutputIn(t, first).address} \ {Bare}
  BY <1>3, SenderIs
<1>5. \/ SendingAddress(n, last) = {OutputIn(t, last).address}
      \/ SendingAddress(n, last) = {OutputIn(t, last).address} \ {Bare}
  BY <1>3, SenderIs
<1>6. Bare \notin Verifier /\ Bare \notin Watch
  BY DataAssumption
<1>7. Verifies(n, tx) <=> KycAt(t, h)
  BY <1>5, <1>6 DEF Verifies, KycAt
<1>8. Publishes(n, tx) <=> RatesAt(t, h)
  <2>1. CASE RatesForm(tx)
    <3>1. tx.outs[2].address # Bare
      BY <1>6, <2>1 DEF RatesForm
    <3> QED BY <1>4, <2>1, <3>1 DEF Publishes, RatesAt
  <2> QED BY <2>1 DEF Publishes, RatesAt
<1>9. MovesAssets(n, tx) <=> Moves(coins[n], tx)
  BY DEF MovesAssets, Moves, AssetFound, Found
<1>10. TxType(n, tx) = Kind(n, t, coins[n], h)
  BY <1>7, <1>8, <1>9 DEF TxType, Kind
<1>11. ASSUME n = "full", Kind(n, t, coins[n], h) = "KYC_REVOKE"
       PROVE  \E c \in Asked(n, tx) : SendingAddress(n, c) = {}
  <2> DEFINE own == <<tx.id, 1>>
  <2>1. RevokeForm(tx)
    BY <1>11 DEF Kind
  <2>2. ~Skips(n, tx)
    BY <1>11 DEF Skips
  <2>3. own \in Asked(n, tx)
    BY <2>1, <2>2 DEF Asked
  <2>4. ASSUME NEW r \in coins[n] PROVE r.coin # own
    <3>1. r.height \in 1..Len(s) /\ r.coin[1] = s[r.height].id
      BY DEF RowsOK, Placed
    <3>2. t[r.height].id # tx.id /\ r.coin[1] = t[r.height].id
      BY <1>1, <3>1, IdsDiffer
    <3>3. own[1] = tx.id
      OBVIOUS
    <3> QED BY <3>2, <3>3
  <2> HIDE DEF own
  <2>5. {r \in coins[n] : r.coin = own} = {}
    BY <2>4
  <2>6. SendingAddress(n, own) = {}
    BY <1>11, <2>5 DEF SendingAddress
  <2> QED BY <2>3, <2>6
<1> QED BY <1>10, <1>11

-----------------------------------------------------------------------------
(* The steps.                                                              *)

\* The other tables after a transaction of that kind.
RatesAfter(table, type, tx, h) ==
    IF type = "EXCHANGE_PUBLISH" THEN table \cup {[address |-> tx.outs[2].address, height |-> h]} ELSE table
KeysAfter(table, type, tx) ==
    IF type = "ENCRYPTED_KEY" THEN AddEncryptedKey(table, tx.outs[1].address, tx.id) ELSE table
UnknownAfter(list, type, tx) == IF type = "unknown" THEN Append(list, tx.id) ELSE list

\* A node's tables after its next block.
LEMMA NodeGoes ==
    ASSUME NEW n, NEW ch, NEW last, ChainOK(ch, last), NEW s, NEW p, NEW kyt, NEW rts, NEW kys, NEW list,
           NodeOK(n, s, p, kyt, rts, kys, list, ch, last),
           NEW t, HistoryOK(t), Grows(s, t), Grows(t, ch), Len(t) = Len(s) + 1,
           NEW type, type = Kind(n, t, p, Len(t)), n = "full" => type # "KYC_REVOKE",
           NEW tx, tx = t[Len(t)]
    PROVE  NodeOK(n, t, p \cup Created(n, tx, type, Len(t)),
                  KycAfter(kyt, type, tx.outs[1].address, Len(t)), RatesAfter(rts, type, tx, Len(t)),
                  KeysAfter(kys, type, tx), UnknownAfter(list, type, tx), ch, last)
<1> DEFINE h == Len(t)
           q == p \cup Created(n, tx, type, h)
           kyt2 == KycAfter(kyt, type, tx.outs[1].address, h)
           rts2 == IF type = "EXCHANGE_PUBLISH"
                   THEN rts \cup {[address |-> tx.outs[2].address, height |-> h]} ELSE rts
           kys2 == IF type = "ENCRYPTED_KEY" THEN AddEncryptedKey(kys, tx.outs[1].address, tx.id) ELSE kys
           list2 == IF type = "unknown" THEN Append(list, tx.id) ELSE list
           ids == Processed(s, kys, list)
<1>1. /\ HistoryOK(s) /\ RowsOK(n, s, p) /\ RatesOK(n, s, p, rts) /\ KycOK(n, s, p, kyt)
      /\ KeysOK(n, s, p, kys) /\ UnknownOK(n, s, p, list) /\ NoRevoke(n, s, p)
      /\ s[1] = ch[1] /\ NewerThan(s, ch, ids) /\ \A x \in ids : x \in Nat /\ x <= last
  BY DEF NodeOK
<1>2. /\ Len(s) \in Nat /\ Len(s) >= 1 /\ h = Len(s) + 1 /\ h \in 1..Len(t) /\ h \in Nat
      /\ \A i \in 1..Len(s) : t[i] = s[i]
      /\ \A i \in 1..Len(t) : i \in 1..Len(s) \/ i = h
  BY <1>1 DEF HistoryOK, Grows
<1>3. RowsOK(n, t, q) /\ Goes(n, s, p, t, q, type)
  BY <1>1, RowsGo
<1>4. /\ HistoryOK(ch) /\ Len(ch) \in Nat /\ h <= Len(ch) /\ h \in 1..Len(ch) /\ ch[h] = tx
      /\ \A i \in 1..h : t[i] = ch[i]
      /\ last \in Nat /\ tx.id <= last
  BY <1>2 DEF ChainOK, HistoryOK, Grows
<1>5. tx \in Transaction /\ tx.id \in Nat
  <2>1. tx \in Transaction
    BY <1>2 DEF HistoryOK
  <2> QED BY <2>1 DEF Transaction
<1>6. \A x \in ids : x < tx.id
  BY <1>2, <1>1, <1>4 DEF NewerThan
<1>7. \A r \in kys : r.txid \in ids
  BY DEF Processed
<1>8. ToSet(list) \subseteq ids
  BY DEF Processed
<1> HIDE DEF q, ids
<1>9. RatesOK(n, t, q, rts2)
  BY <1>1, <1>3, RatesGo
<1>10. KycOK(n, t, q, kyt2)
  BY <1>1, <1>3, KycGo
<1>11. KeysOK(n, t, q, kys2)
  BY <1>1, <1>3, <1>6, <1>7, KeysGo
<1>12. UnknownOK(n, t, q, list2)
  BY <1>1, <1>3, <1>6, <1>8, UnknownGo
<1>13. NoRevoke(n, t, q)
  BY <1>1, <1>3, RevokeGo
<1>14. Processed(t, kys2, list2) \subseteq ids \cup {tx.id}
  <2>1. {t[i].id : i \in 1..Len(t)} \subseteq {s[i].id : i \in 1..Len(s)} \cup {tx.id}
    BY <1>2
  <2>2. \A r \in kys2 : r \in kys \/ r.txid = tx.id
    BY DEF AddEncryptedKey
  <2>3. \A x : x \in ToSet(list2) => x \in ToSet(list) \/ x = tx.id
    <3>1. list \in Seq(Nat)
      BY <1>1 DEF UnknownOK
    <3> QED BY <1>5, <3>1, AppendSet
  <2> HIDE DEF kys2, list2
  <2> QED BY <2>1, <2>2, <2>3 DEF Processed, ids
<1> HIDE DEF kyt2, rts2, kys2, list2
<1>15. ASSUME NEW j \in 1..Len(ch), j > Len(t) \/ t[j] # ch[j], NEW x \in Processed(t, kys2, list2)
       PROVE  x < ch[j].id
  <2>1. j > Len(t)
    BY <1>2, <1>4, <1>15
  <2>2. tx.id < ch[j].id
    BY <1>4, <2>1 DEF HistoryOK
  <2>3. ch[j] \in Transaction
    BY <1>4 DEF HistoryOK
  <2>4. ch[j].id \in Nat
    BY <2>3 DEF Transaction
  <2>5. CASE x = tx.id
    BY <2>2, <2>5
  <2>6. CASE x \in ids
    BY <1>1, <1>5, <1>6, <2>2, <2>4, <2>6
  <2> QED BY <1>14, <2>5, <2>6
<1>16. NewerThan(t, ch, Processed(t, kys2, list2))
  BY <1>15 DEF NewerThan
<1>17. \A x \in Processed(t, kys2, list2) : x \in Nat /\ x <= last
  BY <1>1, <1>4, <1>5, <1>14
<1>18. t[1] = ch[1]
  BY <1>2, <1>4
<1>19. NodeOK(n, t, q, kyt2, rts2, kys2, list2, ch, last)
  BY <1>3, <1>9, <1>10, <1>11, <1>12, <1>13, <1>16, <1>17, <1>18 DEF NodeOK
<1> QED BY <1>19 DEF q, kyt2, rts2, kys2, list2, RatesAfter, KeysAfter, UnknownAfter

\* A node processes its next block.
LEMMA ProcessKeeps ==
    ASSUME IInv, NEW n \in Node, Process(n)
    PROVE  IInv'
<1> DEFINE s == seen[n]
           h == Len(s) + 1
           tx == chain[h]
           t == Append(s, tx)
           type == TxType(n, tx)
<1>1. ChainOK(chain, lastId) /\ Tables /\ \A m \in Node : NodeInv(m)
  BY DEF IInv
<1>2. /\ HistoryOK(chain) /\ HistoryOK(s) /\ RowsOK(n, s, coins[n])
      /\ NodeOK(n, s, coins[n], kyc[n], rates[n], keys[n], unknown[n], chain, lastId)
  BY <1>1 DEF ChainOK, NodeInv, NodeOK
<1>3. chain \in Seq(Transaction) /\ s \in Seq(Transaction) /\ Len(s) \in Nat /\ Len(chain) \in Nat /\ Len(s) >= 1
  BY <1>2 DEF HistoryOK
<1>4. Grows(s, chain) /\ s # chain
  BY <1>3, PrefixGrows DEF Process, IsStrictPrefix
<1>5. Len(s) < Len(chain)
  BY <1>3, <1>4 DEF Grows
<1>6. h \in 1..Len(chain) /\ tx \in Transaction
  BY <1>3, <1>5
<1>7. /\ t \in Seq(Transaction) /\ Len(t) = h /\ t[h] = tx
      /\ \A i \in 1..Len(s) : t[i] = s[i]
  BY <1>3, <1>6
<1> HIDE DEF t
<1>8. Grows(s, t) /\ Grows(t, chain) /\ HistoryOK(t)
  <2>1. Grows(s, t)
    BY <1>3, <1>7 DEF Grows
  <2>2. Grows(t, chain)
    BY <1>3, <1>4, <1>5, <1>7 DEF Grows
  <2> QED BY <1>2, <1>3, <1>7, <2>1, <2>2, HistoryPrefix
<1>9. type = Kind(n, t, coins[n], Len(t)) /\ (n = "full" => type # "KYC_REVOKE")
  <2>1. \A c \in Asked(n, tx) : SendingAddress(n, c) # {}
    BY DEF Process
  <2> QED BY <1>2, <1>7, <1>8, <2>1, TypeIsKind
<1> DEFINE q == coins[n] \cup Created(n, tx, type, h)
           kyt == KycAfter(kyc[n], type, tx.outs[1].address, h)
           rts == RatesAfter(rates[n], type, tx, h)
           kys == KeysAfter(keys[n], type, tx)
           list == UnknownAfter(unknown[n], type, tx)
<1>10. NodeOK(n, t, q, kyt, rts, kys, list, chain, lastId)
  <2>1. tx = t[Len(t)] /\ Len(t) = Len(s) + 1
    BY <1>7
  <2> HIDE DEF s, tx, type
  <2>2. NodeOK(n, t, coins[n] \cup Created(n, tx, type, Len(t)),
                KycAfter(kyc[n], type, tx.outs[1].address, Len(t)), RatesAfter(rates[n], type, tx, Len(t)),
                KeysAfter(keys[n], type, tx), UnknownAfter(unknown[n], type, tx), chain, lastId)
    BY <1>1, <1>2, <1>8, <1>9, <2>1, NodeGoes
  <2> QED BY <1>7, <2>2
<1>11. kyc' = [kyc EXCEPT ![n] = kyt]
  <2>1. kyc' = [kyc EXCEPT ![n] =
                 CASE type = "KYC_ISSUANCE" -> AddKYC(kyc[n], tx.outs[1].address, h)
                   [] type = "KYC_REVOKE"   -> RevokeKYC(kyc[n], tx.outs[1].address, h)
                   [] OTHER                 -> kyc[n]]
    BY DEF Process
  <2> HIDE DEF type, tx, h
  <2>2. CASE type = "KYC_ISSUANCE"
    BY <2>1, <2>2 DEF KycAfter
  <2>3. CASE type = "KYC_REVOKE"
    BY <2>1, <2>3 DEF KycAfter
  <2>4. CASE type # "KYC_ISSUANCE" /\ type # "KYC_REVOKE"
    BY <2>1, <2>4 DEF KycAfter
  <2> QED BY <2>2, <2>3, <2>4
<1>12. /\ seen' = [seen EXCEPT ![n] = t] /\ coins' = [coins EXCEPT ![n] = q]
       /\ rates' = [rates EXCEPT ![n] = rts] /\ keys' = [keys EXCEPT ![n] = kys]
       /\ unknown' = [unknown EXCEPT ![n] = list] /\ chain' = chain /\ lastId' = lastId
  BY DEF Process, t, RatesAfter, KeysAfter, UnknownAfter
<1> HIDE DEF s, h, tx, type, q, kyt, rts, kys, list
<1>13. Tables'
  BY <1>1, <1>11, <1>12 DEF Tables
<1>14. ASSUME NEW m \in Node PROVE NodeInv(m)'
  <2>1. CASE m = n
    <3>1. /\ seen'[m] = t /\ coins'[m] = q /\ kyc'[m] = kyt /\ rates'[m] = rts /\ keys'[m] = kys
          /\ unknown'[m] = list
      BY <1>1, <1>11, <1>12, <2>1 DEF Tables
    <3> QED BY <1>10, <1>12, <2>1, <3>1 DEF NodeInv
  <2>2. CASE m # n
    <3>1. /\ seen'[m] = seen[m] /\ coins'[m] = coins[m] /\ kyc'[m] = kyc[m] /\ rates'[m] = rates[m]
          /\ keys'[m] = keys[m] /\ unknown'[m] = unknown[m]
      BY <1>1, <1>11, <1>12, <2>2 DEF Tables
    <3>2. NodeInv(m)
      BY <1>1
    <3> QED BY <1>12, <3>1, <3>2 DEF NodeInv
  <2> QED BY <2>1, <2>2
<1>15. ChainOK(chain, lastId)'
  BY <1>1, <1>12 DEF ChainOK
<1> QED BY <1>13, <1>14, <1>15 DEF IInv

\* The blocks that the wallet's chain still has are the first ones.
Kept(s, ch) == {i \in DOMAIN s : i \in DOMAIN ch /\ s[i] = ch[i]}

KeepsTo(s, ch, keep, k) ==
    /\ keep = 1..k /\ Cardinality(keep) = k /\ k <= Len(ch)
    /\ \A i \in 1..k : s[i] = ch[i]
    /\ \A j \in 1..Len(ch) : j > k => j > Len(s) \/ s[j] # ch[j]

LEMMA KeepIs ==
    ASSUME NEW ch, NEW last, ChainOK(ch, last), NEW n, NEW s, NEW p, NEW kyt, NEW rts, NEW kys, NEW list,
           NodeOK(n, s, p, kyt, rts, kys, list, ch, last)
    PROVE  \E k \in 1..Len(s) : KeepsTo(s, ch, Kept(s, ch), k)
<1> DEFINE keep == Kept(s, ch)
<1> DEFINE ids == Processed(s, kys, list)
<1>1. /\ HistoryOK(s) /\ s[1] = ch[1] /\ NewerThan(s, ch, ids)
      /\ HistoryOK(ch) /\ Len(s) \in Nat /\ Len(s) >= 1 /\ Len(ch) \in Nat /\ Len(ch) >= 1
      /\ DOMAIN s = 1..Len(s) /\ DOMAIN ch = 1..Len(ch)
  BY DEF NodeOK, ChainOK, HistoryOK
<1>2. \A i \in 1..Len(s) : s[i].id \in ids
  BY DEF Processed
<1>3. \A i \in 1..Len(ch) : ch[i].id \in Nat
  <2>1. \A i \in 1..Len(ch) : ch[i] \in Transaction
    BY <1>1 DEF HistoryOK
  <2> QED BY <2>1 DEF Transaction
<1> HIDE DEF ids
<1>4. \A i : i \in keep <=> i \in 1..Len(s) /\ i \in 1..Len(ch) /\ s[i] = ch[i]
  BY <1>1 DEF Kept
<1> HIDE DEF keep
<1>5. ASSUME NEW i \in keep, NEW j \in 1..(i - 1) PROVE j \in keep
  <2>1. i \in 1..Len(s) /\ i \in 1..Len(ch) /\ s[i] = ch[i]
    BY <1>4
  <2>2. j \in 1..Len(s) /\ j \in 1..Len(ch) /\ j < i
    BY <1>1, <2>1
  <2>3. SUFFICES ASSUME s[j] # ch[j] PROVE FALSE
    BY <1>4, <2>2
  <2>4. s[i].id < ch[j].id
    BY <1>1, <1>2, <2>1, <2>2, <2>3 DEF NewerThan
  <2>5. ch[j].id < ch[i].id
    BY <1>1, <2>1, <2>2 DEF HistoryOK
  <2> QED BY <1>3, <2>1, <2>2, <2>4, <2>5
<1>6. 1 \in keep /\ \A i \in keep : i \in Nat /\ i >= 1 /\ i <= Len(s) /\ i <= Len(ch)
  BY <1>1, <1>4
<1> DEFINE out == {i \in Nat : i >= 1 /\ i \notin keep}
<1>7. PICK m \in out : \A i \in out : m <= i
  <2>1. Len(s) + 1 \in out
    BY <1>1, <1>6
  <2>2. out \in SUBSET Nat /\ out # {}
    BY <2>1
  <2> HIDE DEF out
  <2> QED BY <2>2, Least
<1>8. m \in Nat /\ m >= 1 /\ m \notin keep /\ m # 1
  BY <1>6, <1>7
<1>9. \A i : i \in keep <=> i \in 1..(m - 1)
  <2>1. ASSUME NEW i \in keep PROVE i \in 1..(m - 1)
    <3>1. i \in Nat /\ i >= 1 /\ i # m
      BY <1>6, <1>8
    <3>2. ~(m < i)
      <4>1. SUFFICES ASSUME m < i PROVE FALSE
        OBVIOUS
      <4>2. m \in 1..(i - 1)
        BY <1>8, <3>1, <4>1
      <4> QED BY <1>5, <1>8, <4>2
    <3> QED BY <1>8, <3>1, <3>2
  <2>2. ASSUME NEW i \in 1..(m - 1) PROVE i \in keep
    <3>1. i \in Nat /\ i >= 1 /\ ~(m <= i)
      BY <1>8
    <3> QED BY <1>7, <3>1
  <2> QED BY <2>1, <2>2
<1> DEFINE k == m - 1
<1>10. k \in Nat /\ k >= 1 /\ keep = 1..k
  <2>1. k \in Nat /\ k >= 1
    BY <1>8
  <2>2. \A i : i \in keep <=> i \in 1..k
    BY <1>9
  <2> HIDE DEF k
  <2>3. keep = 1..k
    BY <2>2, Zenon
  <2> QED BY <2>1, <2>3
<1>11. k \in keep
  BY <1>10
<1>12. k \in 1..Len(s) /\ k <= Len(ch)
  BY <1>6, <1>10, <1>11
<1>13. Cardinality(keep) = k
  <2>1. k \in Int /\ 1 \in Int
    BY <1>10
  <2>2. Cardinality(1..k) = IF 1 > k THEN 0 ELSE k - 1 + 1
    <3> HIDE DEF k
    <3> QED BY <2>1, FS_Interval
  <2> HIDE DEF k
  <2>3. Cardinality(1..k) = k
    BY <1>10, <2>2
  <2> QED BY <1>10, <2>3, Zenon
<1>14. \A i \in 1..k : s[i] = ch[i]
  BY <1>4, <1>10
<1>15. \A j \in 1..Len(ch) : j > k => j > Len(s) \/ s[j] # ch[j]
  <2> SUFFICES ASSUME NEW j \in 1..Len(ch), j > k, ~(j > Len(s)), s[j] = ch[j] PROVE FALSE
    OBVIOUS
  <2>1. j \in keep
    BY <1>1, <1>4
  <2> QED BY <1>10, <2>1
<1> HIDE DEF k
<1>16. KeepsTo(s, ch, keep, k)
  BY <1>10, <1>12, <1>13, <1>14, <1>15 DEF KeepsTo
<1> QED BY <1>12, <1>16 DEF keep

\* A node's tables once it went back to the fork.
LEMMA NodeGoesBack ==
    ASSUME NEW ch, NEW last, ChainOK(ch, last), NEW n, NEW s, NEW p, NEW kyt, NEW rts, NEW kys, NEW list,
           NodeOK(n, s, p, kyt, rts, kys, list, ch, last),
           NEW k \in 1..Len(s), k <= Len(ch), \A i \in 1..k : s[i] = ch[i],
           \A j \in 1..Len(ch) : j > k => j > Len(s) \/ s[j] # ch[j]
    PROVE  NodeOK(n, SubSeq(s, 1, k), {r \in p : r.height \in 1..k}, Restored(kyt, k),
                  {r \in rts : r.height \in 1..k}, kys, list, ch, last)
<1> DEFINE u == SubSeq(s, 1, k)
           q == {r \in p : r.height \in 1..k}
           ids == Processed(s, kys, list)
           rts2 == {r \in rts : r.height \in 1..k}
<1>1. /\ HistoryOK(s) /\ RowsOK(n, s, p) /\ RatesOK(n, s, p, rts) /\ KycOK(n, s, p, kyt)
      /\ KeysOK(n, s, p, kys) /\ UnknownOK(n, s, p, list) /\ NoRevoke(n, s, p)
      /\ s[1] = ch[1] /\ NewerThan(s, ch, ids) /\ \A x \in ids : x \in Nat /\ x <= last
  BY DEF NodeOK
<1>2. s \in Seq(Transaction) /\ Len(s) \in Nat /\ Len(ch) \in Nat /\ k \in Nat /\ k >= 1
  BY <1>1 DEF HistoryOK, ChainOK
<1>3. u \in Seq(Transaction) /\ Len(u) = k /\ \A i \in 1..k : u[i] = s[i]
  BY <1>2
<1> HIDE DEF u
<1>4. Grows(u, s) /\ HistoryOK(u)
  <2>1. Grows(u, s)
    BY <1>2, <1>3 DEF Grows
  <2> QED BY <1>1, <1>2, <1>3, <2>1, HistoryPrefix
<1>5. Placed(s, p) /\ q = {r \in p : r.height <= Len(u)}
  <2>1. Placed(s, p)
    BY <1>1 DEF RowsOK
  <2>2. \A r \in p : r.height \in 1..k <=> r.height <= Len(u)
    BY <1>2, <1>3, <2>1 DEF Placed
  <2> QED BY <2>1, <2>2
<1> HIDE DEF q
<1>6. RowsOK(n, u, q)
  BY <1>1, <1>4, <1>5, RowsOfPart
<1>7. KycOK(n, u, q, Restored(kyt, k))
  BY <1>1, <1>3, <1>4, <1>5, KycOfPart
<1>8. /\ RatesOK(n, u, q, rts2)
      /\ KeysOK(n, u, q, kys) /\ UnknownOK(n, u, q, list) /\ NoRevoke(n, u, q)
  <2>1. /\ RatesOK(n, u, q, {r \in rts : r.height \in 1..Len(u)})
        /\ KeysOK(n, u, q, kys) /\ UnknownOK(n, u, q, list) /\ NoRevoke(n, u, q)
    BY <1>1, <1>4, <1>5, TablesOfPart
  <2> QED BY <1>3, <2>1
<1>9. Processed(u, kys, list) \subseteq ids
  <2>1. {u[i].id : i \in 1..Len(u)} \subseteq {s[i].id : i \in 1..Len(s)}
    BY <1>2, <1>3
  <2> QED BY <2>1 DEF Processed
<1> HIDE DEF ids
<1>10. NewerThan(u, ch, Processed(u, kys, list))
  <2> SUFFICES ASSUME NEW j \in 1..Len(ch), j > Len(u) \/ u[j] # ch[j], NEW x \in Processed(u, kys, list)
               PROVE  x < ch[j].id
    BY DEF NewerThan
  <2>1. j > k
    BY <1>2, <1>3
  <2> QED BY <1>1, <1>9, <2>1 DEF NewerThan
<1>11. u[1] = ch[1]
  BY <1>1, <1>2, <1>3
<1>12. \A x \in Processed(u, kys, list) : x \in Nat /\ x <= last
  BY <1>1, <1>9
<1>13. NodeOK(n, u, q, Restored(kyt, k), rts2, kys, list, ch, last)
  BY <1>4, <1>6, <1>7, <1>8, <1>10, <1>11, <1>12 DEF NodeOK
<1> QED BY <1>13 DEF u, q

LEMMA ClearKeeps ==
    ASSUME IInv, NEW n \in Node, ClearAboveFork(n)
    PROVE  IInv'
<1> DEFINE s == seen[n]
           keep == {i \in DOMAIN s : i \in DOMAIN chain /\ s[i] = chain[i]}
<1>1. ChainOK(chain, lastId) /\ Tables /\ \A m \in Node : NodeInv(m)
  BY DEF IInv
<1>2. NodeOK(n, s, coins[n], kyc[n], rates[n], keys[n], unknown[n], chain, lastId)
  BY <1>1 DEF NodeInv
<1>3. /\ seen' = [seen EXCEPT ![n] = SubSeq(s, 1, Cardinality(keep))]
      /\ coins' = [coins EXCEPT ![n] = {r \in coins[n] : r.height \in keep}]
      /\ rates' = [rates EXCEPT ![n] = {r \in rates[n] : r.height \in keep}]
      /\ kyc' = [kyc EXCEPT ![n] =
                   {[r EXCEPT !.revoked = IF @ \in keep THEN @ ELSE Standing] :
                       r \in {q \in kyc[n] : q.height \in keep}}]
      /\ chain' = chain /\ lastId' = lastId /\ keys' = keys /\ unknown' = unknown
  BY DEF ClearAboveFork
<1> HIDE DEF s
<1>0. keep = Kept(s, chain)
  BY DEF Kept
<1> HIDE DEF keep
<1>4. PICK k \in 1..Len(s) : KeepsTo(s, chain, keep, k)
  <2>1. \E k \in 1..Len(s) : KeepsTo(s, chain, Kept(s, chain), k)
    BY <1>1, <1>2, KeepIs
  <2> QED BY <1>0, <2>1
<1>5. /\ keep = 1..k /\ Cardinality(keep) = k /\ k <= Len(chain)
      /\ \A i \in 1..k : s[i] = chain[i]
      /\ \A j \in 1..Len(chain) : j > k => j > Len(s) \/ s[j] # chain[j]
  BY <1>4 DEF KeepsTo
<1> DEFINE u == SubSeq(s, 1, k)
           q == {r \in coins[n] : r.height \in 1..k}
           kyt == Restored(kyc[n], k)
           rts == {r \in rates[n] : r.height \in 1..k}
<1>6. NodeOK(n, u, q, kyt, rts, keys[n], unknown[n], chain, lastId)
  BY <1>1, <1>2, <1>4, <1>5, NodeGoesBack
<1>7. /\ seen' = [seen EXCEPT ![n] = u] /\ coins' = [coins EXCEPT ![n] = q]
      /\ rates' = [rates EXCEPT ![n] = rts] /\ kyc' = [kyc EXCEPT ![n] = kyt]
  BY <1>3, <1>5 DEF Restored
<1> HIDE DEF u, q, kyt, rts
<1>8. Tables'
  BY <1>1, <1>3, <1>7 DEF Tables
<1>9. ASSUME NEW m \in Node PROVE NodeInv(m)'
  <2>1. CASE m = n
    <3>1. seen'[m] = u /\ coins'[m] = q /\ kyc'[m] = kyt /\ rates'[m] = rts
      BY <1>1, <1>7, <2>1 DEF Tables
    <3> QED BY <1>3, <1>6, <2>1, <3>1 DEF NodeInv
  <2>2. CASE m # n
    <3>1. seen'[m] = seen[m] /\ coins'[m] = coins[m] /\ kyc'[m] = kyc[m] /\ rates'[m] = rates[m]
      BY <1>1, <1>7, <2>2 DEF Tables
    <3>2. NodeInv(m)
      BY <1>1
    <3> QED BY <1>3, <3>1, <3>2 DEF NodeInv
  <2> QED BY <2>1, <2>2
<1>10. ChainOK(chain, lastId)'
  BY <1>1, <1>3 DEF ChainOK
<1> QED BY <1>8, <1>9, <1>10 DEF IInv

\* A transaction is broadcast: its id is new to every node.
LEMMA ChainGoes ==
    ASSUME NEW ch, NEW last, ChainOK(ch, last), NEW tx \in Transaction, tx.id = last + 1, tx.ins # << >>,
           \A k \in 1..Len(tx.ins) : tx.ins[k] \in Made(ch),
           tx.sound => \E v \in 1..Len(tx.outs) : tx.outs[v].data = Plain
    PROVE  /\ ChainOK(Append(ch, tx), last + 1)
           /\ \A n, s, p, kyt, rts, kys, list :
                 NodeOK(n, s, p, kyt, rts, kys, list, ch, last) =>
                 NodeOK(n, s, p, kyt, rts, kys, list, Append(ch, tx), last + 1)
<1> DEFINE t == Append(ch, tx)
           h == Len(ch) + 1
<1>1. /\ HistoryOK(ch) /\ ch \in Seq(Transaction) /\ Len(ch) \in Nat /\ Len(ch) >= 1 /\ last \in Nat
      /\ \A i \in 1..Len(ch) : ch[i].id <= last
  BY DEF ChainOK, HistoryOK
<1>2. /\ t \in Seq(Transaction) /\ Len(t) = h /\ t[h] = tx
      /\ \A i \in 1..Len(ch) : t[i] = ch[i]
      /\ \A i \in 1..h : i \in 1..Len(ch) \/ i = h
  BY <1>1
<1> HIDE DEF t
<1>3. \A i \in 1..Len(ch) : ch[i].id \in Nat
  <2>1. \A i \in 1..Len(ch) : ch[i] \in Transaction
    BY <1>1
  <2> QED BY <2>1 DEF Transaction
<1>4. DataOutputs(t[1]) = {}
  BY <1>1, <1>2 DEF HistoryOK
<1>5. \A i, j \in 1..Len(t) : i < j => t[i].id < t[j].id
  <2> SUFFICES ASSUME NEW i \in 1..Len(t), NEW j \in 1..Len(t), i < j PROVE t[i].id < t[j].id
    OBVIOUS
  <2>1. i \in 1..Len(ch)
    BY <1>1, <1>2
  <2>2. CASE j = h
    BY <1>1, <1>2, <1>3, <2>1, <2>2
  <2>3. CASE j # h
    BY <1>1, <1>2, <2>1, <2>3 DEF HistoryOK
  <2> QED BY <2>2, <2>3
<1>6. ASSUME NEW i \in 2..Len(t) PROVE t[i].ins # << >> /\ Funded(t, i)
  <2>1. CASE i = h
    <3>1. ASSUME NEW k \in 1..Len(tx.ins)
          PROVE  \E j \in 1..(i - 1) : tx.ins[k][1] = t[j].id /\ tx.ins[k][2] \in 1..Len(t[j].outs)
      <4> DEFINE c == tx.ins[k]
      <4>1. PICK j \in DOMAIN ch : c \in CoinsOf(ch[j])
        BY DEF Made
      <4>2. j \in 1..Len(ch) /\ ch[j] \in Transaction
        BY <1>1, <4>1
      <4>3. ch[j].outs \in Seq(Output)
        BY <4>2 DEF Transaction
      <4>4. c[1] = ch[j].id /\ c[2] \in 1..Len(ch[j].outs)
        BY <4>1, <4>3 DEF CoinsOf
      <4> QED BY <1>1, <1>2, <2>1, <4>2, <4>4
    <3> QED BY <1>2, <2>1, <3>1 DEF Funded
  <2>2. CASE i # h
    <3>1. i \in 2..Len(ch) /\ t[i] = ch[i]
      BY <1>1, <1>2, <2>2
    <3>2. ch[i].ins # << >> /\ Funded(ch, i)
      BY <1>1, <3>1 DEF HistoryOK
    <3>3. \A j \in 1..(i - 1) : t[j] = ch[j]
      BY <1>1, <1>2, <3>1
    <3> QED BY <3>1, <3>2, <3>3 DEF Funded
  <2> QED BY <2>1, <2>2
<1>7. \A i \in 1..Len(t) : t[i].sound => \E v \in 1..Len(t[i].outs) : t[i].outs[v].data = Plain
  <2> SUFFICES ASSUME NEW i \in 1..Len(t), t[i].sound
               PROVE  \E v \in 1..Len(t[i].outs) : t[i].outs[v].data = Plain
    OBVIOUS
  <2>1. CASE i = h
    BY <1>1, <1>2, <2>1
  <2>2. CASE i # h
    <3>1. i \in 1..Len(ch) /\ t[i] = ch[i]
      BY <1>1, <1>2, <2>2
    <3> QED BY <1>1, <3>1 DEF HistoryOK
  <2> QED BY <2>1, <2>2
<1>8. HistoryOK(t)
  BY <1>1, <1>2, <1>4, <1>5, <1>6, <1>7 DEF HistoryOK
<1>9. ASSUME NEW i \in 1..Len(t) PROVE t[i].id <= last + 1
  <2>1. CASE i = h
    BY <1>1, <1>2, <2>1
  <2>2. CASE i # h
    <3>1. t[i] = ch[i] /\ ch[i].id <= last /\ ch[i].id \in Nat
      BY <1>1, <1>2, <1>3, <2>2
    <3> QED BY <1>1, <3>1
  <2> QED BY <2>1, <2>2
<1>10. ChainOK(t, last + 1)
  BY <1>1, <1>8, <1>9 DEF ChainOK
<1>11. ASSUME NEW n, NEW s, NEW p, NEW kyt, NEW rts, NEW kys, NEW list,
              NodeOK(n, s, p, kyt, rts, kys, list, ch, last)
       PROVE  NodeOK(n, s, p, kyt, rts, kys, list, t, last + 1)
  <2> DEFINE ids == Processed(s, kys, list)
  <2>1. /\ s[1] = ch[1] /\ NewerThan(s, ch, ids) /\ \A x \in ids : x \in Nat /\ x <= last
    BY <1>11 DEF NodeOK
  <2> HIDE DEF ids
  <2>2. s[1] = t[1]
    BY <1>1, <1>2, <2>1
  <2>3. \A x \in ids : x \in Nat /\ x <= last + 1
    BY <1>1, <2>1
  <2>4. ASSUME NEW j \in 1..Len(t), j > Len(s) \/ s[j] # t[j], NEW x \in ids
        PROVE  x < t[j].id
    <3>1. CASE j = h
      BY <1>1, <1>2, <2>1, <3>1
    <3>2. CASE j # h
      BY <1>2, <2>1, <2>4, <3>2 DEF NewerThan
    <3> QED BY <3>1, <3>2
  <2>5. NewerThan(s, t, ids)
    BY <2>4 DEF NewerThan
  <2> QED BY <1>11, <2>2, <2>3, <2>5 DEF NodeOK, ids
<1> QED BY <1>10, <1>11 DEF t

LEMMA BroadcastKeeps ==
    ASSUME IInv, Broadcast
    PROVE  IInv'
<1>1. ChainOK(chain, lastId) /\ Tables /\ \A m \in Node : NodeInv(m)
  BY DEF IInv
<1>2. PICK spends \in SUBSET (Made(chain) \ Spent(chain)), outs \in Shape : \E ins \in SetToSeqs(spends),
          sound \in {FALSE, \E v, w \in DOMAIN outs : outs[v].data \in {"issue", "move"} /\ outs[w].data = Plain} :
          /\ Cardinality(spends) \in 1 .. 2
          /\ chain' = Append(chain, [id |-> lastId + 1, ins |-> ins, outs |-> outs, sound |-> sound])
  BY DEF Broadcast
<1>3. PICK ins \in SetToSeqs(spends),
           sound \in {FALSE, \E v, w \in DOMAIN outs : outs[v].data \in {"issue", "move"} /\ outs[w].data = Plain} :
          /\ Cardinality(spends) \in 1 .. 2
          /\ chain' = Append(chain, [id |-> lastId + 1, ins |-> ins, outs |-> outs, sound |-> sound])
  BY <1>2
<1>4. /\ lastId' = lastId + 1 /\ seen' = seen /\ coins' = coins /\ kyc' = kyc /\ rates' = rates
      /\ keys' = keys /\ unknown' = unknown
  BY DEF Broadcast, dataTables
<1>5. outs \in Seq(Output) /\ DOMAIN outs = 1..Len(outs)
  <2>1. outs \in Seq(Output)
    BY DataAssumption
  <2> QED BY <2>1
<1>6. sound \in BOOLEAN /\ (sound => \E v \in 1..Len(outs) : outs[v].data = Plain)
  BY <1>5
<1>7. /\ chain \in Seq(Transaction) /\ lastId \in Nat
      /\ \A i \in 1..Len(chain) : chain[i].id \in Nat /\ chain[i].outs \in Seq(Output)
  <2>1. chain \in Seq(Transaction) /\ lastId \in Nat
    BY <1>1 DEF ChainOK, HistoryOK
  <2>2. \A i \in 1..Len(chain) : chain[i] \in Transaction
    BY <2>1
  <2> QED BY <2>1, <2>2 DEF Transaction
<1>8. Made(chain) \subseteq Nat \X Nat
  <2> SUFFICES ASSUME NEW c \in Made(chain) PROVE c \in Nat \X Nat
    OBVIOUS
  <2>1. PICK i \in DOMAIN chain : c \in CoinsOf(chain[i])
    BY DEF Made
  <2>2. i \in 1..Len(chain)
    BY <1>7
  <2>3. PICK v \in DOMAIN chain[i].outs : c = <<chain[i].id, v>>
    BY <2>1 DEF CoinsOf
  <2>4. v \in Nat /\ chain[i].id \in Nat
    BY <1>7, <2>2, <2>3
  <2> QED BY <2>3, <2>4
<1>9. ins \in Seq(Nat \X Nat) /\ ins # << >> /\ \A k \in 1..Len(ins) : ins[k] \in Made(chain)
  <2> DEFINE size == Cardinality(spends)
  <2>1. size \in Nat /\ size >= 1 /\ ins \in [1..size -> spends]
    BY <1>3 DEF SetToSeqs
  <2> HIDE DEF size
  <2>2. ins \in Seq(spends) /\ Len(ins) = size
    BY <2>1
  <2>3. spends \subseteq Nat \X Nat /\ spends \subseteq Made(chain)
    BY <1>8
  <2>4. ins \in Seq(Nat \X Nat)
    BY <2>1, <2>3
  <2> QED BY <2>1, <2>2, <2>3, <2>4
<1> DEFINE tx == [id |-> lastId + 1, ins |-> ins, outs |-> outs, sound |-> sound]
<1>10. tx \in Transaction
  BY <1>5, <1>6, <1>7, <1>9 DEF Transaction
<1>11. /\ tx.id = lastId + 1 /\ tx.ins = ins /\ tx.outs = outs /\ (tx.sound <=> sound)
  BY <1>6
<1>12. chain' = Append(chain, tx)
  BY <1>3
<1> HIDE DEF tx
<1>13. /\ ChainOK(Append(chain, tx), lastId + 1)
       /\ \A n, s, p, kyt, rts, kys, list :
             NodeOK(n, s, p, kyt, rts, kys, list, chain, lastId) =>
             NodeOK(n, s, p, kyt, rts, kys, list, Append(chain, tx), lastId + 1)
  <2>1. \A k \in 1..Len(tx.ins) : tx.ins[k] \in Made(chain)
    BY <1>9, <1>11
  <2>2. tx.sound => \E v \in 1..Len(tx.outs) : tx.outs[v].data = Plain
    BY <1>6, <1>11
  <2>3. tx.ins # << >> /\ tx.id = lastId + 1
    BY <1>9, <1>11
  <2> QED BY <1>1, <1>10, <2>1, <2>2, <2>3, ChainGoes
<1>14. ChainOK(chain, lastId)' /\ Tables'
  BY <1>1, <1>4, <1>12, <1>13 DEF Tables
<1>15. \A m \in Node : NodeInv(m)'
  BY <1>1, <1>4, <1>12, <1>13 DEF NodeInv
<1> QED BY <1>14, <1>15 DEF IInv

LEMMA ForkKeeps ==
    ASSUME IInv, Fork
    PROVE  IInv'
<1>1. ChainOK(chain, lastId) /\ Tables /\ \A m \in Node : NodeInv(m)
  BY DEF IInv
<1>2. PICK k \in 1 .. Len(chain) - 1 : chain' = SubSeq(chain, 1, k)
  BY DEF Fork
<1>3. /\ lastId' = lastId /\ seen' = seen /\ coins' = coins /\ kyc' = kyc /\ rates' = rates
      /\ keys' = keys /\ unknown' = unknown
  BY DEF Fork, dataTables
<1> DEFINE u == SubSeq(chain, 1, k)
<1>4. HistoryOK(chain) /\ chain \in Seq(Transaction) /\ Len(chain) \in Nat /\ lastId \in Nat
  BY <1>1 DEF ChainOK, HistoryOK
<1>5. u \in Seq(Transaction) /\ Len(u) = k /\ k >= 1 /\ k \in 1..Len(chain) /\ \A i \in 1..k : u[i] = chain[i]
  BY <1>4
<1>6. chain' = u
  BY <1>2
<1> HIDE DEF u
<1>7. HistoryOK(u)
  <2>1. Grows(u, chain)
    BY <1>4, <1>5 DEF Grows
  <2> QED BY <1>4, <1>5, <2>1, HistoryPrefix
<1>8. \A i \in 1..Len(u) : i \in 1..Len(chain) /\ u[i] = chain[i]
  BY <1>4, <1>5
<1>9. ChainOK(u, lastId)
  BY <1>1, <1>7, <1>8 DEF ChainOK
<1>10. ASSUME NEW m \in Node PROVE NodeInv(m)'
  <2> DEFINE ids == Processed(seen[m], keys[m], unknown[m])
  <2>1. NodeOK(m, seen[m], coins[m], kyc[m], rates[m], keys[m], unknown[m], chain, lastId)
    BY <1>1 DEF NodeInv
  <2>2. seen[m][1] = chain[1] /\ NewerThan(seen[m], chain, ids)
    BY <2>1 DEF NodeOK
  <2> HIDE DEF ids
  <2>3. seen[m][1] = u[1]
    BY <1>5, <2>2
  <2>4. NewerThan(seen[m], u, ids)
    BY <1>8, <2>2 DEF NewerThan
  <2>5. NodeOK(m, seen[m], coins[m], kyc[m], rates[m], keys[m], unknown[m], u, lastId)
    BY <2>1, <2>3, <2>4 DEF NodeOK, ids
  <2> QED BY <1>3, <1>6, <2>5 DEF NodeInv
<1>11. ChainOK(chain, lastId)' /\ Tables'
  BY <1>1, <1>3, <1>6, <1>9 DEF Tables
<1> QED BY <1>10, <1>11 DEF IInv

\* The chain starts with the coinbase that everybody has processed.
LEMMA InitHolds ==
    ASSUME DataInit
    PROVE  IInv
<1> DEFINE paid == SetToSeq(Person)
           outs == [k \in DOMAIN paid |-> [address |-> paid[k], value |-> 0, data |-> Plain]]
           coinbase == [id |-> 1, ins |-> <<>>, sound |-> FALSE, outs |-> outs]
           row(c) == [coin |-> c, address |-> OutputIn(chain, c).address, assets |-> FALSE, height |-> 1]
           rows(n) == {r \in {row(c) : c \in CoinsOf(coinbase)} : n = "full"}
<1>1. /\ chain = <<coinbase>> /\ lastId = 1
      /\ seen = [n \in Node |-> <<coinbase>>]
      /\ coins = [n \in Node |-> rows(n)]
      /\ kyc = [n \in Node |-> {}] /\ rates = [n \in Node |-> {}] /\ keys = [n \in Node |-> {}]
      /\ unknown = [n \in Node |-> <<>>]
  BY DEF DataInit
<1>2. paid \in Seq(Person)
  <2>1. Cardinality(Person) \in Nat /\ Bijection(1..Cardinality(Person), Person) # {}
    BY DataAssumption, FS_CardinalityType DEF ExistsBijection
  <2>2. PICK f \in Bijection(1..Cardinality(Person), Person) : TRUE
    BY <2>1
  <2>3. f \in [1..Cardinality(Person) -> Person] /\ IsInjective(f)
    BY <2>2 DEF Bijection, Injection
  <2>4. paid \in [1..Cardinality(Person) -> Person]
    BY <2>3 DEF SetToSeq
  <2> HIDE DEF paid
  <2> QED BY <2>1, <2>4
<1> HIDE DEF paid
<1>3. /\ outs \in Seq(Output) /\ \A k \in DOMAIN outs : outs[k].data = Plain
      /\ DOMAIN outs = 1..Len(outs)
  <2>1. Len(paid) \in Nat /\ DOMAIN paid = 1..Len(paid) /\ \A k \in 1..Len(paid) : paid[k] \in Person
    BY <1>2
  <2>2. \A k \in 1..Len(paid) : [address |-> paid[k], value |-> 0, data |-> Plain] \in Output
    BY <2>1 DEF Output
  <2>3. outs \in [1..Len(paid) -> Output]
    BY <2>1, <2>2
  <2>4. outs \in Seq(Output)
    <3> HIDE DEF outs
    <3> QED BY <2>1, <2>3
  <2>5. \A k \in DOMAIN outs : outs[k].data = Plain
    OBVIOUS
  <2> HIDE DEF outs
  <2> QED BY <2>4, <2>5
<1> HIDE DEF outs
<1>4. /\ coinbase \in Transaction /\ coinbase.id = 1 /\ coinbase.ins = <<>> /\ coinbase.outs = outs
      /\ coinbase.sound = FALSE /\ DataOutputs(coinbase) = {}
  <2>1. coinbase \in Transaction
    <3>1. <<>> \in Seq(Nat \X Nat) /\ 1 \in Nat /\ FALSE \in BOOLEAN
      OBVIOUS
    <3> QED BY <1>3, <3>1 DEF Transaction
  <2>2. /\ coinbase.id = 1 /\ coinbase.ins = <<>> /\ coinbase.outs = outs /\ coinbase.sound = FALSE
    OBVIOUS
  <2> HIDE DEF coinbase
  <2>3. DataOutputs(coinbase) = {}
    BY <1>3, <2>2 DEF DataOutputs
  <2> QED BY <2>1, <2>2, <2>3
<1> HIDE DEF coinbase
<1> DEFINE t == <<coinbase>>
<1>5. t \in Seq(Transaction) /\ Len(t) = 1 /\ t[1] = coinbase
  BY <1>4
<1> HIDE DEF t
<1>6. HistoryOK(t)
  BY <1>4, <1>5 DEF HistoryOK
<1>7. chain = t
  BY <1>1 DEF t
<1>8. ChainOK(chain, lastId)
  BY <1>1, <1>4, <1>5, <1>6, <1>7 DEF ChainOK
<1>9. \A n, q : Kind(n, t, q, 1) = "standard"
  <2>1. DataIndex(t[1]) = 0
    BY <1>6, NoData
  <2> QED BY <2>1 DEF Kind
<1>10. \A i : i \in 1..Len(t) <=> i = 1
  BY <1>5
<1>11. ASSUME NEW n \in Node PROVE NodeInv(n)
  <2> DEFINE q == rows(n)
  <2>1. ASSUME NEW v \in 1..Len(outs)
        PROVE  LET r == row(<<1, v>>)
               IN  /\ r \in CoinRow /\ r.height = 1 /\ r.coin[1] = 1 /\ r.coin[2] = v
                   /\ r.address = outs[v].address /\ ~r.assets
    <3>1. OutputIn(chain, <<1, v>>) = outs[v]
      <4> DEFINE c == <<1, v>>
      <4>1. c[1] = t[1].id /\ c[2] = v /\ 1 \in 1..Len(t)
        BY <1>4, <1>5
      <4> HIDE DEF c
      <4>2. OutputIn(t, c) = t[1].outs[c[2]]
        BY <1>6, <4>1, OutputAt
      <4>3. OutputIn(chain, c) = outs[v]
        BY <1>4, <1>5, <1>7, <4>1, <4>2
      <4> QED BY <4>3 DEF c
    <3>2. outs[v] \in Output /\ v \in Nat
      BY <1>3
    <3>3. outs[v].address \in Person \cup {Bare} /\ <<1, v>> \in Nat \X Nat
      BY <3>2 DEF Output
    <3> QED BY <3>1, <3>3 DEF CoinRow
  <2>2. /\ \A r \in q : n = "full" /\ \E v \in 1..Len(outs) : r = row(<<1, v>>)
        /\ n = "full" => \A v \in 1..Len(outs) : row(<<1, v>>) \in q
    <3>1. CoinsOf(coinbase) = {<<1, v>> : v \in 1..Len(outs)}
      BY <1>3, <1>4 DEF CoinsOf
    <3> HIDE DEF row
    <3> QED BY <3>1
  <2> HIDE DEF q, row
  <2>3. Placed(t, q)
    <3> SUFFICES ASSUME NEW r \in q
                 PROVE  /\ r \in CoinRow /\ r.height \in 1..Len(t) /\ r.coin[1] = t[r.height].id
                        /\ r.coin[2] \in 1..Len(t[r.height].outs)
                        /\ r.address = t[r.height].outs[r.coin[2]].address
      BY DEF Placed
    <3>1. PICK v \in 1..Len(outs) : r = row(<<1, v>>)
      BY <2>2
    <3> QED BY <1>4, <1>5, <1>10, <2>1, <3>1
  <2>4. RowsOK(n, t, q)
    <3>1. ASSUME NEW r \in q PROVE ~r.assets /\ r.height = 1
      <4>1. PICK v \in 1..Len(outs) : r = row(<<1, v>>)
        BY <2>2
      <4> QED BY <2>1, <4>1
    <3>2. ASSUME NEW i \in 1..Len(t), NEW v \in 1..Len(t[i].outs),
                 n = "full" \/ (Kind(n, t, q, i) = "DIGIASSET" /\ Takes(t[i], v))
          PROVE  \E r \in q : r.height = i /\ r.coin[2] = v
      <4>1. i = 1 /\ n = "full" /\ v \in 1..Len(outs)
        BY <1>4, <1>5, <1>9, <1>10, <3>2
      <4> QED BY <2>1, <2>2, <4>1
    <3>3. \A r \in q :
             r.assets <=> Kind(n, t, q, r.height) = "DIGIASSET" /\ Takes(t[r.height], r.coin[2])
      BY <1>9, <3>1
    <3> QED BY <2>3, <3>2, <3>3 DEF RowsOK
  <2>5. RatesOK(n, t, q, {})
    <3>1. {j \in 1..Len(t) : Kind(n, t, q, j) = "EXCHANGE_PUBLISH"} = {}
      BY <1>9, <1>10
    <3> QED BY <3>1 DEF RatesOK
  <2>6. KycOK(n, t, q, {}) /\ KeysOK(n, t, q, {}) /\ NoRevoke(n, t, q)
    BY <1>9, <1>10 DEF KycOK, KeysOK, NoRevoke
  <2>7. UnknownOK(n, t, q, <<>>)
    <3>1. <<>> \in Seq(Nat) /\ ToSet(<<>>) = {}
      BY DEF ToSet
    <3> QED BY <1>9, <1>10, <3>1 DEF UnknownOK
  <2>8. Processed(t, {}, <<>>) = {1}
    <3>1. ToSet(<<>>) = {}
      BY DEF ToSet
    <3>2. {t[i].id : i \in 1..Len(t)} = {1}
      BY <1>4, <1>5, <1>10
    <3>3. {r.txid : r \in {}} = {}
      OBVIOUS
    <3> QED BY <3>1, <3>2, <3>3 DEF Processed
  <2>9. NewerThan(t, t, Processed(t, {}, <<>>))
    <3>1. \A j \in 1..Len(t) : ~(j > Len(t) \/ t[j] # t[j])
      BY <1>5
    <3> QED BY <3>1 DEF NewerThan
  <2>10. NodeOK(n, t, q, {}, {}, {}, <<>>, t, 1)
    BY <1>6, <2>4, <2>5, <2>6, <2>7, <2>8, <2>9 DEF NodeOK
  <2>11. /\ seen[n] = t /\ coins[n] = q /\ kyc[n] = {} /\ rates[n] = {} /\ keys[n] = {}
         /\ unknown[n] = <<>>
    BY <1>1 DEF t, q
  <2> QED BY <1>1, <1>7, <2>10, <2>11 DEF NodeInv
<1>12. Tables
  BY <1>1 DEF Tables
<1> QED BY <1>8, <1>11, <1>12 DEF IInv

\* The inductive invariant: what every node's tables hold follows from the kinds of the
\* transactions it has processed (Process, clearBlocksAboveHeight).
THEOREM NodesHold == DataSpec => []IInv
<1>1. DataInit => IInv
  BY InitHolds
<1>2. IInv /\ [DataNext]_dataVars => IInv'
  <2> SUFFICES ASSUME IInv, [DataNext]_dataVars PROVE IInv'
    OBVIOUS
  <2>1. CASE Broadcast
    BY <2>1, BroadcastKeeps
  <2>2. CASE Fork
    BY <2>2, ForkKeeps
  <2>3. ASSUME NEW n \in Node, Process(n) PROVE IInv'
    BY <2>3, ProcessKeeps
  <2>4. ASSUME NEW n \in Node, ClearAboveFork(n) PROVE IInv'
    BY <2>4, ClearKeeps
  <2>5. CASE UNCHANGED dataVars
    BY <2>5 DEF dataVars, IInv, ChainOK, Tables, NodeInv
  <2> QED BY <2>1, <2>2, <2>3, <2>4, <2>5 DEF DataNext
<1> QED BY <1>1, <1>2, PTL DEF DataSpec

-----------------------------------------------------------------------------
(* Authors.                                                                *)

\* Where a node looks, the forms tell the kind.
LEMMA FormsTell ==
    ASSUME NEW n \in Node, NEW t, NEW q, NEW i \in 1..Len(t), n = "full" \/ ~IsLarge(t[i])
    PROVE  /\ Skips(n, t[i]) => DataIndex(t[i]) = 0
           /\ Kind(n, t, q, i) = "KYC_ISSUANCE" <=> KycAt(t, i)
           /\ Kind(n, t, q, i) = "EXCHANGE_PUBLISH" <=> RatesAt(t, i)
<1>1. Skips(n, t[i]) => DataIndex(t[i]) = 0
  BY DEF Skips, IsLarge
<1>2. KycAt(t, i) => DataIndex(t[i]) = 2
  BY DEF KycAt, KycForm
<1>3. RatesAt(t, i) => DataIndex(t[i]) = 1
  BY DEF RatesAt, RatesForm
<1>4. RevokeForm(t[i]) => DataIndex(t[i]) = 2
  BY DEF RevokeForm
<1>5. Kind(n, t, q, i) = "KYC_ISSUANCE" <=> KycAt(t, i)
  BY <1>1, <1>2 DEF Kind
<1>6. Kind(n, t, q, i) = "EXCHANGE_PUBLISH" <=> RatesAt(t, i)
  BY <1>1, <1>2, <1>3, <1>4 DEF Kind
<1> QED BY <1>1, <1>5, <1>6

\* What a node has of rates and KYC.
LEMMA AuthorsOfNode ==
    ASSUME NEW n \in Node, NodeInv(n), n = "full" \/ Whole(n)
    PROVE  /\ rates[n] = {[address |-> seen[n][i].outs[2].address, height |-> i] : i \in RatesTxs(n)}
           /\ {r.address : r \in kyc[n]} = Verified(n)
           /\ \A a \in Verified(n) \ Verifier : HasKyc(n, a)
           /\ \A r \in kyc[n] : /\ r.height \in KycTxs(n)
                                /\ \A i \in KycTxs(n) : seen[n][i].outs[1].address = r.address => r.height <= i
<1> DEFINE s == seen[n]
           q == coins[n]
<1>1. /\ HistoryOK(s) /\ RatesOK(n, s, q, rates[n]) /\ KycOK(n, s, q, kyc[n])
  BY DEF NodeInv, NodeOK
<1>2. DOMAIN s = 1..Len(s) /\ Len(s) \in Nat
  BY <1>1 DEF HistoryOK
<1>3. ASSUME NEW i \in 1..Len(s)
      PROVE  /\ Kind(n, s, q, i) = "KYC_ISSUANCE" <=> KycAt(s, i)
             /\ Kind(n, s, q, i) = "EXCHANGE_PUBLISH" <=> RatesAt(s, i)
  <2>1. n = "full" \/ ~IsLarge(s[i])
    BY <1>2 DEF Whole
  <2> QED BY <2>1, FormsTell
<1>4. \A i : i \in KycTxs(n) <=> i \in 1..Len(s) /\ Kind(n, s, q, i) = "KYC_ISSUANCE"
  BY <1>2, <1>3 DEF KycTxs, KycAt, Owner
<1>5. \A i : i \in RatesTxs(n) <=> i \in 1..Len(s) /\ Kind(n, s, q, i) = "EXCHANGE_PUBLISH"
  BY <1>2, <1>3 DEF RatesTxs, RatesAt, Owner
<1>6. rates[n] = {[address |-> s[i].outs[2].address, height |-> i] : i \in RatesTxs(n)}
  <2>1. RatesTxs(n) = {j \in 1..Len(s) : Kind(n, s, q, j) = "EXCHANGE_PUBLISH"}
    BY <1>5
  <2>2. rates[n] = {[address |-> s[i].outs[2].address, height |-> i] :
                       i \in {j \in 1..Len(s) : Kind(n, s, q, j) = "EXCHANGE_PUBLISH"}}
    BY <1>1 DEF RatesOK
  <2> QED BY <2>1, <2>2
<1>7. Verified(n) = {s[i].outs[1].address : i \in KycTxs(n)}
  BY DEF Verified
<1> HIDE DEF s, q
<1>8. ASSUME NEW r \in kyc[n]
      PROVE  /\ r.height \in KycTxs(n) /\ r.address = s[r.height].outs[1].address
             /\ r.revoked # Standing => r.address \in Verifier
             /\ \A i \in KycTxs(n) : s[i].outs[1].address = r.address => r.height <= i
  <2>1. /\ r.height \in 1..Len(s) /\ Kind(n, s, q, r.height) = "KYC_ISSUANCE"
        /\ r.address = s[r.height].outs[1].address
        /\ \/ r.revoked = Standing
           \/ /\ r.revoked \in 1..Len(s) /\ Kind(n, s, q, r.revoked) = "KYC_REVOKE"
              /\ r.address = s[r.revoked].outs[1].address
    BY <1>1 DEF KycOK
  <2>2. r.revoked # Standing => r.address \in Verifier
    BY <1>1, <2>1, KindForms
  <2>3. ASSUME NEW i \in KycTxs(n), s[i].outs[1].address = r.address PROVE r.height <= i
    <3>1. i \in 1..Len(s) /\ Kind(n, s, q, i) = "KYC_ISSUANCE"
      BY <1>4
    <3>2. PICK u \in kyc[n] : u.address = s[i].outs[1].address /\ u.height <= i
      BY <1>1, <3>1 DEF KycOK
    <3>3. u = r
      BY <1>1, <2>3, <3>2 DEF KycOK
    <3> QED BY <3>2, <3>3
  <2> QED BY <1>4, <2>1, <2>2, <2>3
<1>9. ASSUME NEW i \in KycTxs(n)
      PROVE  \E r \in kyc[n] : r.address = s[i].outs[1].address
  BY <1>1, <1>4 DEF KycOK
<1>10. {r.address : r \in kyc[n]} = Verified(n)
  BY <1>7, <1>8, <1>9
<1>11. ASSUME NEW a \in Verified(n) \ Verifier PROVE HasKyc(n, a)
  <2>1. PICK r \in kyc[n] : r.address = a
    BY <1>10
  <2> QED BY <1>8, <2>1 DEF HasKyc
<1> QED BY <1>6, <1>8, <1>10, <1>11 DEF s

\* Whatever was rewound, the exchange rates and the KYC records of a node are those that the
\* owner of a watched address, and a verifier, made on the chain it follows
\* (decodeExchangeRate, processKYCVerify, processKYCRevoke, getSendingAddress).
THEOREM AuthorsHold == DataSpec => []AuthorsOnly
<1>1. IInv => AuthorsOnly
  BY AuthorsOfNode DEF IInv, AuthorsOnly
<1> QED BY <1>1, NodesHold, PTL

-----------------------------------------------------------------------------
(* Records.                                                                *)

\* Who holds assets is told by the kinds.
LEMMA AssetsTold ==
    ASSUME NEW n, NEW m, NEW t, NEW q, NEW p, RowsOK(n, t, q), RowsOK(m, t, p),
           NEW r \in q, r.assets, Kind(n, t, q, r.height) = Kind(m, t, p, r.height)
    PROVE  r \in p
<1>1. /\ r \in CoinRow /\ r.height \in 1..Len(t) /\ r.coin[1] = t[r.height].id
      /\ r.coin[2] \in 1..Len(t[r.height].outs)
      /\ r.address = t[r.height].outs[r.coin[2]].address
  BY DEF RowsOK, Placed
<1>2. Kind(m, t, p, r.height) = "DIGIASSET" /\ Takes(t[r.height], r.coin[2])
  BY DEF RowsOK
<1>3. PICK u \in p : u.height = r.height /\ u.coin[2] = r.coin[2]
  BY <1>1, <1>2 DEF RowsOK
<1>4. /\ u \in CoinRow /\ u.coin[1] = t[u.height].id
      /\ u.address = t[u.height].outs[u.coin[2]].address
  BY DEF RowsOK, Placed
<1>5. u.assets
  <2>1. Kind(m, t, p, u.height) = "DIGIASSET" /\ Takes(t[u.height], u.coin[2])
    BY <1>2, <1>3
  <2> QED BY <2>1 DEF RowsOK
<1>6. u.coin = r.coin
  <2>1. u.coin \in Nat \X Nat /\ r.coin \in Nat \X Nat
    BY <1>1, <1>4 DEF CoinRow
  <2>2. u.coin[1] = r.coin[1] /\ u.coin[2] = r.coin[2]
    BY <1>1, <1>3, <1>4
  <2> QED BY <2>1, <2>2
<1>7. u.assets = r.assets
  <2>1. u.assets \in BOOLEAN /\ r.assets \in BOOLEAN
    BY <1>1, <1>4 DEF CoinRow
  <2> QED BY <1>5, <2>1
<1>8. u = r
  <2>1. r = [coin |-> r.coin, address |-> r.address, assets |-> r.assets, height |-> r.height]
    BY <1>1 DEF CoinRow
  <2>2. u = [coin |-> u.coin, address |-> u.address, assets |-> u.assets, height |-> u.height]
    BY <1>4 DEF CoinRow
  <2>3. u.address = r.address
    BY <1>1, <1>3, <1>4
  <2> QED BY <1>3, <1>6, <1>7, <2>1, <2>2, <2>3
<1> QED BY <1>8

\* Two nodes that look at the same transactions make the same of them.
LEMMA KindsAgree ==
    ASSUME NEW t, HistoryOK(t), NEW q, NEW p, RowsOK("full", t, q), RowsOK("assets", t, p),
           \A i \in 1..Len(t) : ~IsLarge(t[i])
    PROVE  \A i \in 1..Len(t) : Kind("full", t, q, i) = Kind("assets", t, p, i)
<1> DEFINE differ == {i \in 1..Len(t) : Kind("full", t, q, i) # Kind("assets", t, p, i)}
<1> SUFFICES ASSUME differ # {} PROVE FALSE
  OBVIOUS
<1>1. Len(t) \in Nat /\ differ \in SUBSET Nat
  BY DEF HistoryOK
<1>2. PICK m \in differ : \A i \in differ : m <= i
  <2> HIDE DEF differ
  <2> QED BY <1>1, Least
<1>3. m \in 1..Len(t) /\ Kind("full", t, q, m) # Kind("assets", t, p, m)
  OBVIOUS
<1>4. \A i \in 1..Len(t) : i < m => Kind("full", t, q, i) = Kind("assets", t, p, i)
  <2> SUFFICES ASSUME NEW i \in 1..Len(t), i < m, Kind("full", t, q, i) # Kind("assets", t, p, i)
               PROVE  FALSE
    OBVIOUS
  <2>1. m <= i
    BY <1>2
  <2> QED BY <1>1, <1>3, <2>1
<1> HIDE DEF differ
<1>5. m > 1
  <2>1. DataIndex(t[1]) = 0
    BY NoData
  <2>2. m # 1
    BY <1>3, <2>1 DEF Kind
  <2> QED BY <1>1, <1>3, <2>2
<1>6. ASSUME NEW r, r \in q \/ r \in p, r.coin \in ToSet(t[m].ins)
      PROVE  Kind("full", t, q, r.height) = Kind("assets", t, p, r.height)
  <2>1. r.height \in 1..Len(t) /\ r.coin[1] = t[r.height].id
    BY <1>6 DEF RowsOK, Placed
  <2> DEFINE c == r.coin
  <2>2. c \in ToSet(t[m].ins) /\ c[1] = t[r.height].id
    BY <1>6, <2>1
  <2> HIDE DEF c
  <2>3. PICK j \in 1..(m - 1) : c[1] = t[j].id
    BY <1>3, <1>5, <2>2, InputFrom
  <2>4. j \in 1..Len(t) /\ j < m
    BY <1>1, <1>3
  <2>5. r.height = j
    BY <2>1, <2>2, <2>3, <2>4, IdsDiffer
  <2> QED BY <1>4, <2>4, <2>5
<1>7. Found(q, t[m]) <=> Found(p, t[m])
  <2>1. ASSUME NEW r \in q, r.coin \in ToSet(t[m].ins), r.assets PROVE r \in p
    BY <1>6, <2>1, AssetsTold
  <2>2. ASSUME NEW r \in p, r.coin \in ToSet(t[m].ins), r.assets PROVE r \in q
    BY <1>6, <2>2, AssetsTold
  <2> QED BY <2>1, <2>2 DEF Found
<1>8. Moves(q, t[m]) <=> Moves(p, t[m])
  BY <1>7 DEF Moves
<1>9. /\ Skips("full", t[m]) => DataIndex(t[m]) = 0
      /\ Skips("assets", t[m]) => DataIndex(t[m]) = 0
  BY <1>3 DEF Skips, IsLarge
<1>10. (Skips("full", t[m]) \/ DataIndex(t[m]) = 0) <=> (Skips("assets", t[m]) \/ DataIndex(t[m]) = 0)
  BY <1>9
<1> QED BY <1>3, <1>8, <1>10 DEF Kind

\* Tables of two nodes that made the same of a chain.
LEMMA KycAgrees ==
    ASSUME NEW n, NEW m, NEW t, NEW q, NEW p, NEW one, NEW two, HistoryOK(t), KycOK(n, t, q, one), KycOK(m, t, p, two),
           \A i \in 1..Len(t) : Kind(n, t, q, i) = Kind(m, t, p, i),
           \A i \in 1..Len(t) : Kind(n, t, q, i) # "KYC_REVOKE"
    PROVE  one \subseteq two
<1> SUFFICES ASSUME NEW r \in one PROVE r \in two
  OBVIOUS
<1>1. /\ r \in KycRow /\ r.height \in 1..Len(t) /\ Kind(n, t, q, r.height) = "KYC_ISSUANCE"
      /\ r.address = t[r.height].outs[1].address /\ r.revoked = Standing
  BY DEF KycOK
<1>2. PICK u \in two : u.address = t[r.height].outs[1].address /\ u.height <= r.height
  BY <1>1 DEF KycOK
<1>3. /\ u \in KycRow /\ u.height \in 1..Len(t) /\ Kind(n, t, q, u.height) = "KYC_ISSUANCE"
      /\ u.address = t[u.height].outs[1].address /\ u.revoked = Standing
  BY DEF KycOK
<1>4. PICK w \in one : w.address = t[u.height].outs[1].address /\ w.height <= u.height
  BY <1>3 DEF KycOK
<1>5. w = r
  BY <1>1, <1>2, <1>3, <1>4 DEF KycOK
<1>6. u.height = r.height
  <2>1. Len(t) \in Nat
    BY DEF HistoryOK
  <2> QED BY <1>1, <1>2, <1>3, <1>4, <1>5, <2>1
<1>7. u = r
  BY <1>1, <1>2, <1>3, <1>6 DEF KycRow
<1> QED BY <1>7

LEMMA KeysAgree ==
    ASSUME NEW n, NEW m, NEW t, NEW q, NEW p, NEW one, NEW two, HistoryOK(t), KeysOK(n, t, q, one), KeysOK(m, t, p, two),
           \A i \in 1..Len(t) : Kind(n, t, q, i) = Kind(m, t, p, i),
           \A r \in one : \E i \in 1..Len(t) : r.txid = t[i].id,
           \A r \in two : \E i \in 1..Len(t) : r.txid = t[i].id
    PROVE  one \subseteq two
<1> SUFFICES ASSUME NEW r \in one PROVE r \in two
  OBVIOUS
<1>1. PICK i \in 1..Len(t) : r.txid = t[i].id
  OBVIOUS
<1>2. r \in KeyRow /\ Kind(n, t, q, i) = "ENCRYPTED_KEY" /\ r.address = t[i].outs[1].address
  BY <1>1 DEF KeysOK
<1>3. PICK u \in two : u.address = t[i].outs[1].address /\ u.txid <= t[i].id
  BY <1>2 DEF KeysOK
<1>4. PICK j \in 1..Len(t) : u.txid = t[j].id
  OBVIOUS
<1>5. u \in KeyRow /\ Kind(n, t, q, j) = "ENCRYPTED_KEY" /\ u.address = t[j].outs[1].address
  BY <1>4 DEF KeysOK
<1>6. PICK w \in one : w.address = t[j].outs[1].address /\ w.txid <= t[j].id
  BY <1>5 DEF KeysOK
<1>7. w = r
  BY <1>2, <1>3, <1>5, <1>6 DEF KeysOK
<1>8. u.txid = r.txid
  <2>1. u.txid \in Nat /\ r.txid \in Nat
    BY <1>2, <1>5 DEF KeyRow
  <2> QED BY <1>1, <1>3, <1>4, <1>6, <1>7, <2>1
<1>9. u = r
  BY <1>2, <1>3, <1>5, <1>8 DEF KeyRow
<1> QED BY <1>9

\* Two nodes with the same chain.
LEMMA ModesOfNodes ==
    ASSUME IInv
    PROVE  ModesAgree
<1> SUFFICES ASSUME seen["full"] = seen["assets"], Whole("full") PROVE
        /\ rates["full"] = rates["assets"] /\ kyc["full"] = kyc["assets"]
        /\ AssetsOf("full") = AssetsOf("assets")
        /\ ToSet(unknown["full"]) \cap IdsOf("full") = ToSet(unknown["assets"]) \cap IdsOf("assets")
        /\ (\A n \in Node : {r.txid : r \in keys[n]} \subseteq IdsOf(n)) =>
              \A a, b \in Person \cup {Bare} : EncryptedKeys("full", <<a, b>>) = EncryptedKeys("assets", <<a, b>>)
  BY DEF ModesAgree
<1> DEFINE t == seen["full"]
           q == coins["full"]
           p == coins["assets"]
<1>1. /\ HistoryOK(t) /\ RowsOK("full", t, q) /\ RatesOK("full", t, q, rates["full"])
      /\ KycOK("full", t, q, kyc["full"]) /\ KeysOK("full", t, q, keys["full"])
      /\ UnknownOK("full", t, q, unknown["full"]) /\ NoRevoke("full", t, q)
  <2>1. NodeInv("full")
    BY DEF IInv, Node
  <2> QED BY <2>1 DEF NodeInv, NodeOK
<1>2. /\ RowsOK("assets", t, p) /\ RatesOK("assets", t, p, rates["assets"])
      /\ KycOK("assets", t, p, kyc["assets"]) /\ KeysOK("assets", t, p, keys["assets"])
      /\ UnknownOK("assets", t, p, unknown["assets"])
  <2>1. NodeInv("assets")
    BY DEF IInv, Node
  <2> QED BY <2>1 DEF NodeInv, NodeOK
<1>3. Len(t) \in Nat /\ DOMAIN t = 1..Len(t) /\ \A i \in 1..Len(t) : ~IsLarge(t[i])
  BY <1>1 DEF HistoryOK, Whole
<1>4. \A n \in Node : IdsOf(n) = {t[i].id : i \in 1..Len(t)}
  BY <1>3 DEF IdsOf, Node
<1>5. "full" \in Node /\ "assets" \in Node
  BY DEF Node
<1> HIDE DEF t, q, p
<1>6. \A i \in 1..Len(t) : Kind("full", t, q, i) = Kind("assets", t, p, i)
  BY <1>1, <1>2, <1>3, KindsAgree
<1>7. rates["full"] = rates["assets"]
  <2>1. {i \in 1..Len(t) : Kind("full", t, q, i) = "EXCHANGE_PUBLISH"}
          = {i \in 1..Len(t) : Kind("assets", t, p, i) = "EXCHANGE_PUBLISH"}
    BY <1>6
  <2> QED BY <1>1, <1>2, <2>1 DEF RatesOK
<1>8. kyc["full"] = kyc["assets"]
  <2>1. \A i \in 1..Len(t) : Kind("full", t, q, i) # "KYC_REVOKE"
    BY <1>1 DEF NoRevoke
  <2>2. \A i \in 1..Len(t) : Kind("assets", t, p, i) # "KYC_REVOKE"
    BY <1>6, <2>1
  <2>3. kyc["full"] \subseteq kyc["assets"]
    BY <1>1, <1>2, <1>6, <2>1, KycAgrees
  <2>4. kyc["assets"] \subseteq kyc["full"]
    <3>1. \A i \in 1..Len(t) : Kind("assets", t, p, i) = Kind("full", t, q, i)
      BY <1>6
    <3> QED BY <1>1, <1>2, <2>2, <3>1, KycAgrees
  <2> QED BY <2>3, <2>4
<1>9. AssetsOf("full") = AssetsOf("assets")
  <2>1. ASSUME NEW r \in q, r.assets PROVE r \in p
    <3>1. r.height \in 1..Len(t)
      BY <1>1 DEF RowsOK, Placed
    <3> QED BY <1>1, <1>2, <1>6, <2>1, <3>1, AssetsTold
  <2>2. ASSUME NEW r \in p, r.assets PROVE r \in q
    <3>1. r.height \in 1..Len(t)
      BY <1>2 DEF RowsOK, Placed
    <3>2. Kind("assets", t, p, r.height) = Kind("full", t, q, r.height)
      BY <1>6, <3>1
    <3> QED BY <1>1, <1>2, <2>2, <3>2, AssetsTold
  <2> QED BY <2>1, <2>2 DEF AssetsOf, q, p
<1>10. ToSet(unknown["full"]) \cap IdsOf("full") = ToSet(unknown["assets"]) \cap IdsOf("assets")
  <2>1. \A i \in 1..Len(t) : t[i].id \in ToSet(unknown["full"]) <=> t[i].id \in ToSet(unknown["assets"])
    BY <1>1, <1>2, <1>6 DEF UnknownOK
  <2>2. /\ IdsOf("full") = {t[i].id : i \in 1..Len(t)}
        /\ IdsOf("assets") = {t[i].id : i \in 1..Len(t)}
    BY <1>4, <1>5
  <2> QED BY <2>1, <2>2
<1>11. ASSUME \A n \in Node : {r.txid : r \in keys[n]} \subseteq IdsOf(n)
       PROVE  keys["full"] = keys["assets"]
  <2>1. /\ \A r \in keys["full"] : \E i \in 1..Len(t) : r.txid = t[i].id
        /\ \A r \in keys["assets"] : \E i \in 1..Len(t) : r.txid = t[i].id
    BY <1>4, <1>5, <1>11
  <2>2. keys["full"] \subseteq keys["assets"]
    BY <1>1, <1>2, <1>6, <2>1, KeysAgree
  <2>3. keys["assets"] \subseteq keys["full"]
    <3>1. \A i \in 1..Len(t) : Kind("assets", t, p, i) = Kind("full", t, q, i)
      BY <1>6
    <3> QED BY <1>1, <1>2, <2>1, <3>1, KeysAgree
  <2> QED BY <2>2, <2>3
<1>12. ASSUME keys["full"] = keys["assets"], NEW x
       PROVE  EncryptedKeys("full", x) = EncryptedKeys("assets", x)
  BY <1>12 DEF EncryptedKeys
<1> QED BY <1>7, <1>8, <1>9, <1>10, <1>11, <1>12

\* The table a transaction of a kind is recorded in.
TableOf(kind) ==
    IF kind \in {"KYC_ISSUANCE", "KYC_REVOKE"} THEN "kyc"
    ELSE IF kind = "EXCHANGE_PUBLISH" THEN "rates"
    ELSE IF kind = "ENCRYPTED_KEY" THEN "keys"
    ELSE IF kind = "unknown" THEN "unknown"
    ELSE "assets"

\* A transaction is recorded in the table of its kind only, and in that one.
LEMMA RecordsOfNode ==
    ASSUME NEW n \in Node, NodeInv(n), NEW i \in 1..Len(seen[n])
    PROVE  /\ \A x \in Traces(n, i) : x = TableOf(Kind(n, seen[n], coins[n], i))
           /\ /\ DataIndex(seen[n][i]) # 0 /\ (n = "full" \/ ~IsLarge(seen[n][i]))
              /\ ~\/ KycForm(seen[n][i])
                     /\ \E r \in kyc[n] : r.address = seen[n][i].outs[1].address /\ r.height < i
                  \/ RevokeForm(seen[n][i])
                  \/ KeyForm(seen[n][i])
                     /\ \E r \in keys[n] : r.address = seen[n][i].outs[1].address /\ r.txid < seen[n][i].id
              => Traces(n, i) # {}
<1> DEFINE t == seen[n]
           q == coins[n]
           tx == t[i]
           kind == Kind(n, t, q, i)
<1>1. /\ HistoryOK(t) /\ RowsOK(n, t, q) /\ RatesOK(n, t, q, rates[n])
      /\ KycOK(n, t, q, kyc[n]) /\ KeysOK(n, t, q, keys[n]) /\ UnknownOK(n, t, q, unknown[n])
  BY DEF NodeInv, NodeOK
<1>2. /\ Len(t) \in Nat /\ i \in Nat /\ i >= 1 /\ tx \in Transaction
      /\ \A j \in 1..Len(t) : t[j].id = tx.id => j = i
  <2>1. Len(t) \in Nat /\ t \in Seq(Transaction) /\ i \in 1..Len(t)
    BY <1>1 DEF HistoryOK
  <2> HIDE DEF t
  <2>2. \A j \in 1..Len(t) : t[j].id = t[i].id => j = i
    BY <1>1, <2>1, IdsDiffer
  <2> QED BY <2>1, <2>2
<1>3. \A x : x \in Traces(n, i) <=>
        \/ x = "kyc" /\ \E r \in kyc[n] : i \in {r.height, r.revoked}
        \/ x = "rates" /\ \E r \in rates[n] : r.height = i
        \/ x = "keys" /\ \E r \in keys[n] : r.txid = tx.id
        \/ x = "unknown" /\ tx.id \in ToSet(unknown[n])
        \/ x = "assets" /\ \E r \in q : r.assets /\ r.coin[1] = tx.id
  BY DEF Traces, AssetsOf
<1> HIDE DEF t, q
<1>4. ASSUME NEW r \in kyc[n], i \in {r.height, r.revoked} PROVE kind \in {"KYC_ISSUANCE", "KYC_REVOKE"}
  <2>1. CASE i = r.height
    BY <1>1, <2>1 DEF KycOK
  <2>2. CASE i = r.revoked
    <3>1. r.revoked # Standing
      BY <1>2, <2>2 DEF Standing
    <3> QED BY <1>1, <2>2, <3>1 DEF KycOK
  <2> QED BY <1>4, <2>1, <2>2
<1>5. ASSUME NEW r \in rates[n], r.height = i PROVE kind = "EXCHANGE_PUBLISH"
  <2>1. PICK j \in 1..Len(t) : /\ Kind(n, t, q, j) = "EXCHANGE_PUBLISH"
                               /\ r = [address |-> t[j].outs[2].address, height |-> j]
    BY <1>1 DEF RatesOK
  <2> QED BY <1>5, <2>1
<1>6. ASSUME NEW r \in keys[n], r.txid = tx.id PROVE kind = "ENCRYPTED_KEY"
  BY <1>1, <1>6 DEF KeysOK, t
<1>7. ASSUME tx.id \in ToSet(unknown[n]) PROVE kind = "unknown"
  BY <1>1, <1>7 DEF UnknownOK, t
<1>8. ASSUME NEW r \in q, r.assets, r.coin[1] = tx.id PROVE kind = "DIGIASSET"
  <2>1. r.height \in 1..Len(t) /\ r.coin[1] = t[r.height].id /\ Kind(n, t, q, r.height) = "DIGIASSET"
    BY <1>1, <1>8 DEF RowsOK, Placed
  <2>2. r.height = i
    BY <1>2, <1>8, <2>1
  <2> QED BY <2>1, <2>2
<1>9. ASSUME NEW x \in Traces(n, i) PROVE x = TableOf(kind)
  <2> HIDE DEF kind, tx
  <2> QED BY <1>3, <1>4, <1>5, <1>6, <1>7, <1>8 DEF TableOf
<1>10. ASSUME DataIndex(tx) # 0, n = "full" \/ ~IsLarge(tx),
              ~(KycForm(tx) /\ \E r \in kyc[n] : r.address = tx.outs[1].address /\ r.height < i),
              ~RevokeForm(tx),
              ~(KeyForm(tx) /\ \E r \in keys[n] : r.address = tx.outs[1].address /\ r.txid < tx.id)
       PROVE  \E x : x \in Traces(n, i)
  <2>0. i \in 1..Len(t)
    BY DEF t
  <2>1. CASE kind = "KYC_ISSUANCE"
    <3>1. PICK r \in kyc[n] : r.address = tx.outs[1].address /\ r.height <= i
      BY <1>1, <2>0, <2>1 DEF KycOK
    <3>2. KycForm(tx)
      BY <1>1, <2>0, <2>1, KindForms
    <3>3. r.height \in Nat
      BY <1>1 DEF KycOK, KycRow
    <3>4. r.height = i
      BY <1>2, <1>10, <3>1, <3>2, <3>3
    <3> QED BY <1>3, <3>4
  <2>2. CASE kind = "EXCHANGE_PUBLISH"
    <3> DEFINE row == [address |-> tx.outs[2].address, height |-> i]
    <3>1. row \in rates[n]
      BY <1>1, <2>0, <2>2 DEF RatesOK
    <3>2. row.height = i
      OBVIOUS
    <3> HIDE DEF row
    <3> QED BY <1>3, <3>1, <3>2
  <2>3. CASE kind = "ENCRYPTED_KEY"
    <3>1. PICK r \in keys[n] : r.address = tx.outs[1].address /\ r.txid <= tx.id
      BY <1>1, <2>0, <2>3 DEF KeysOK
    <3>2. KeyForm(tx)
      BY <1>1, <2>0, <2>3, KindForms
    <3>3. r.txid \in Nat
      BY <1>1 DEF KeysOK, KeyRow
    <3>4. tx.id \in Nat
      BY <1>2 DEF Transaction
    <3>5. r.txid = tx.id
      BY <1>10, <3>1, <3>2, <3>3, <3>4
    <3> QED BY <1>3, <3>5
  <2>4. CASE kind = "unknown"
    BY <1>1, <1>3, <2>0, <2>4 DEF UnknownOK
  <2>5. CASE kind = "DIGIASSET"
    <3>1. Moves(q, tx)
      BY <1>1, <2>0, <2>5, KindForms
    <3>2. PICK w \in 1..Len(tx.outs) : tx.outs[w].data = Plain
      BY <1>1, <2>0, <3>1 DEF Moves, HistoryOK
    <3> DEFINE plain == DOMAIN tx.outs \ DataOutputs(tx)
    <3>3. DOMAIN tx.outs = 1..Len(tx.outs)
      <4>1. tx.outs \in Seq(Output)
        BY <1>2 DEF Transaction
      <4> QED BY <4>1
    <3>4. plain \in SUBSET Nat /\ plain # {}
      BY <3>2, <3>3 DEF DataOutputs
    <3>5. PICK v \in plain : \A u \in plain : v <= u
      <4> HIDE DEF plain
      <4> QED BY <3>4, Least
    <3>6. v \in 1..Len(tx.outs) /\ Takes(tx, v)
      BY <3>3, <3>5 DEF Takes
    <3>7. PICK r \in q : r.height = i /\ r.coin[2] = v
      BY <1>1, <2>0, <2>5, <3>6 DEF RowsOK
    <3>8. r.assets /\ r.coin[1] = tx.id
      BY <1>1, <2>0, <2>5, <3>6, <3>7 DEF RowsOK, Placed
    <3> QED BY <1>3, <3>8
  <2>6. kind # "standard"
    <3>1. Skips(n, tx) => DataIndex(tx) = 0
      BY <1>10, <2>0, FormsTell
    <3> QED BY <1>10, <3>1 DEF Kind
  <2>7. kind # "KYC_REVOKE"
    BY <1>10 DEF Kind
  <2>8. kind \in {"standard", "KYC_ISSUANCE", "KYC_REVOKE", "EXCHANGE_PUBLISH", "ENCRYPTED_KEY", "DIGIASSET", "unknown"}
    BY DEF Kind
  <2> QED BY <2>1, <2>2, <2>3, <2>4, <2>5, <2>6, <2>7, <2>8
<1> QED BY <1>9, <1>10 DEF t, q

\* What is recorded of a chain does not depend on which outputs a node keeps, and every
\* transaction with data is recorded in one way, but for what comes second for its address
\* (DigiByteTransaction's constructor, addToDatabase, dontBotherIfNotSpecial).
THEOREM RecordsHold == DataSpec => []RecordsInv
<1>1. ASSUME IInv PROVE RecordedOnce
  <2> SUFFICES ASSUME NEW n \in Node, NEW i \in DOMAIN seen[n]
               PROVE  LET tx == seen[n][i]
                          taken == \/ KycForm(tx) /\ \E r \in kyc[n] : r.address = tx.outs[1].address /\ r.height < i
                                   \/ RevokeForm(tx)
                                   \/ KeyForm(tx) /\ \E r \in keys[n] : r.address = tx.outs[1].address /\ r.txid < tx.id
                      IN  /\ Cardinality(Traces(n, i)) <= 1
                          /\ DataIndex(tx) # 0 /\ (n = "full" \/ ~IsLarge(tx)) /\ ~taken => Traces(n, i) # {}
    BY DEF RecordedOnce
  <2>1. NodeInv(n)
    BY <1>1 DEF IInv
  <2>2. i \in 1..Len(seen[n])
    <3>1. seen[n] \in Seq(Transaction)
      BY <2>1 DEF NodeInv, NodeOK, HistoryOK
    <3> QED BY <3>1
  <2> DEFINE one == TableOf(Kind(n, seen[n], coins[n], i))
  <2>3. \A x \in Traces(n, i) : x = one
    BY <2>1, <2>2, RecordsOfNode
  <2>4. Cardinality(Traces(n, i)) <= 1
    <3> HIDE DEF one
    <3>1. Traces(n, i) = {} \/ Traces(n, i) = {one}
      BY <2>3
    <3>2. Cardinality({}) = 0 /\ Cardinality({one}) = 1
      BY FS_EmptySet, FS_Singleton
    <3> QED BY <3>1, <3>2
  <2> QED BY <2>1, <2>2, <2>4, RecordsOfNode
<1>2. IInv => RecordsInv
  BY <1>1, ModesOfNodes DEF RecordsInv
<1> QED BY <1>2, NodesHold, PTL
=============================================================================

---------------------------- MODULE ChainQueries ----------------------------
(***************************************************************************)
(* What the node answers about assets and addresses: the SELECTs of        *)
(* Database.cpp over tables "utxos" and "assets", and the replies that     *)
(* RPC/Methods and OldStream.cpp put together from them.                   *)
(*                                                                         *)
(* "ledger" is what the chain says; the tables are what addToDatabase,     *)
(* clearBlocksAboveHeight and pruneUTXO made of it.  The question is       *)
(* whether the answers are the ledger's.                                   *)
(*                                                                         *)
(* Abstractions                                                            *)
(*   - Txids are numbers, never used twice.  How assets move is            *)
(*     AssetLedger's matter: here any split that keeps the amounts.        *)
(*   - Every output holds the same digibytes; an address is a number, and  *)
(*     the wallet's.  The wallet knows no block that is not processed.     *)
(*   - JSON, metadata, rules, KYC and votes of the replies are left out.   *)
(***************************************************************************)
EXTENDS Integers, FiniteSets, FiniteSetsExt, Sequences, SequencesExt, Functions, TLC

CONSTANTS
    Address,       \* numbers: std::sort orders the holders by address
    Aggregable,    \* assetIds whose issuances share one assetIndex
    Hybrid,        \* assetIds whose issuances have an assetIndex each
    Amount,        \* amounts issued
    Dust,          \* digibytes on an output
    Pruned, Orphaned, UnknownAssetIndex,   \* exceptions answered
    Depth,         \* pruneUTXO keeps the outputs spent in the last blocks
    MaxInputs, MaxTxs, MaxHeight, MaxUpsets    \* bounds; an upset is a rewind or a prune

ASSUME QueriesAssumption ==
    /\ Address \subseteq Nat /\ Address # {}
    /\ Aggregable \cap Hybrid = {}
    /\ Amount \subseteq Nat \ {0} /\ Dust \in Nat \ {0}
    /\ Depth \in Nat /\ MaxInputs \in Nat /\ MaxTxs \in Nat /\ MaxHeight \in Nat /\ MaxUpsets \in Nat

VARIABLES
    ledger,      \* the chain's transactions: a function of the txid
    lastTx,      \* the newest txid
    height,      \* the block that is processed
    utxos,       \* table "utxos"
    assets,      \* table "assets"
    prunedBelow, \* wasPrunedUTXOHistory
    assetsOnly,  \* wasPrunedNonAssetUTXOHistory
    upsets

queriesVars == <<ledger, lastTx, height, utxos, assets, prunedBelow, assetsOnly, upsets>>

NULL == 0
DIGIBYTE == 1          \* its row of "assets", and its assetIndex
None == -1             \* "aout" of an output's digibytes; never pruned
AssetId == Aggregable \cup Hybrid

\* The sum of f over a set.
Total(S, f(_)) == MapThenSumSet(f, S)

\* ORDER BY: the set as a sequence, by a strict total order.
Sorted(S, Before(_, _)) ==
    [k \in 1 .. Cardinality(S) |-> CHOOSE x \in S : Cardinality({y \in S : Before(y, x)}) = k - 1]

-----------------------------------------------------------------------------
(* The ledger itself.                                                      *)

Outputs == UNION {{<<t, v>> : v \in DOMAIN ledger[t].outs} : t \in DOMAIN ledger}
OutputAt(o) == ledger[o[1]].outs[o[2]]
UnspentNow == Outputs \ UNION {ledger[t].ins : t \in DOMAIN ledger}

\* Of an output: how much of asset i is on it.
On(out, i) == IF i = DIGIBYTE THEN Dust
              ELSE Total({k \in DOMAIN out.assets : out.assets[k].index = i}, LAMBDA k : out.assets[k].amount)

\* What address a has of asset i.
Balance(a, i) == Total({o \in UnspentNow : OutputAt(o).address = a}, LAMBDA o : On(OutputAt(o), i))

-----------------------------------------------------------------------------
(* addToDatabase                                                           *)

\* createUTXO: a row for the digibytes and one for each asset.
CreatedRows(t, v, out, issuance, h) ==
    LET row(aout, i, n, new) ==
            [address |-> out.address, txid |-> t, vout |-> v, aout |-> aout, index |-> i, amount |-> n,
             created |-> h, issuance |-> new, destroyed |-> NULL, spentBy |-> NULL]
    IN  IF out.assets = <<>> /\ assetsOnly THEN {}
        ELSE {row(None, DIGIBYTE, Dust, FALSE)} \cup
             {row(k, out.assets[k].index, out.assets[k].amount, issuance) : k \in DOMAIN out.assets}

\* Seeded fault: only the output's digibytes are marked.
SpendDigiByte(t, ins) ==
    {[u EXCEPT !.destroyed = IF <<u.txid, u.vout>> \in ins /\ u.aout = None THEN height ELSE @,
               !.spentBy   = IF <<u.txid, u.vout>> \in ins /\ u.aout = None THEN t ELSE @] : u \in utxos}

\* spendUTXO: every row of the output.
Spend(t, ins) ==
    {[u EXCEPT !.destroyed = IF <<u.txid, u.vout>> \in ins THEN height ELSE @,
               !.spentBy   = IF <<u.txid, u.vout>> \in ins THEN t ELSE @] : u \in utxos}

AddToDatabase(ins, outs, issued) ==
    LET t == lastTx + 1
    IN  /\ ledger' = [x \in DOMAIN ledger \cup {t} |->
                         IF x = t THEN [height |-> height, ins |-> ins, outs |-> outs, issued |-> issued]
                         ELSE ledger[x]]
        /\ lastTx' = t
        /\ utxos' = Spend(t, ins) \cup
                    UNION {CreatedRows(t, v, outs[v], issued # NULL, height) : v \in DOMAIN outs}
        /\ UNCHANGED <<height, prunedBelow, assetsOnly, upsets>>

\* An output's assets, in the order of their numbers.
Carried(amounts) ==
    LET held == {i \in DOMAIN amounts : amounts[i] > 0}
    IN  [k \in 1 .. Cardinality(held) |->
            LET i == Sorted(held, <)[k] IN [index |-> i, amount |-> amounts[i]]]

\* A transfer or burn: each asset on the inputs goes to one output, what is left
\* of it being burnt, or is split between two; digibytes alone go to one.
Transfer ==
    /\ lastTx < MaxTxs
    /\ \E ins \in {S \in SUBSET UnspentNow : Cardinality(S) \in 1 .. MaxInputs},
          a, b \in Address, alone \in BOOLEAN :
       LET present == {i \in {assets[k].index : k \in DOMAIN assets} : \E o \in ins : On(OutputAt(o), i) > 0}
           whole(i) == Total(ins, LAMBDA o : On(OutputAt(o), i))
           splits == [present -> 0 .. Max({0} \cup {whole(i) : i \in present})]
       IN  \E first, second \in splits :
              /\ \A i \in present : first[i] + second[i] <= whole(i)
              /\ IF alone THEN b = a /\ \A i \in present : second[i] = 0
                 ELSE present # {} /\ \A i \in present : second[i] > 0 /\ first[i] + second[i] = whole(i)
              /\ AddToDatabase(ins,
                     IF alone THEN <<[address |-> a, assets |-> Carried(first)]>>
                     ELSE <<[address |-> a, assets |-> Carried(first)],
                            [address |-> b, assets |-> Carried(second)]>>, NULL)
    /\ UNCHANGED assets

\* addAsset: the next assetIndex, or the one an aggregable asset has.
IndexOf(x) ==
    LET rows == {assets[k].index : k \in {j \in DOMAIN assets : assets[j].id = x}}
    IN  IF x \in Aggregable /\ rows # {} THEN Min(rows)
        ELSE Max({DIGIBYTE} \cup {assets[k].index : k \in DOMAIN assets}) + 1

\* The assets on an issuance's inputs are lost.
Issue ==
    /\ lastTx < MaxTxs
    /\ \E o \in UnspentNow, x \in AssetId, n \in Amount, a \in Address :
          /\ assets' = IF \E k \in DOMAIN assets : assets[k].index = IndexOf(x) THEN assets
                       ELSE Append(assets, [id |-> x, index |-> IndexOf(x), created |-> height])
          /\ AddToDatabase({o}, <<[address |-> a, assets |-> <<[index |-> IndexOf(x), amount |-> n]>>]>>,
                           IndexOf(x))

NextBlock ==
    /\ height < MaxHeight
    /\ height' = height + 1
    /\ UNCHANGED <<ledger, lastTx, utxos, assets, prunedBelow, assetsOnly, upsets>>

\* clearBlocksAboveHeight; spentTXID stays.
Rewind ==
    /\ upsets < MaxUpsets
    /\ \E h \in Max({2, prunedBelow}) .. height :
          /\ height' = h
          /\ ledger' = Restrict(ledger, {t \in DOMAIN ledger : ledger[t].height < h})
          /\ utxos' = {[u EXCEPT !.destroyed = IF @ >= h THEN NULL ELSE @] :
                           u \in {w \in utxos : w.created < h}}
          /\ assets' = SelectSeq(assets, LAMBDA r : r.created < h)
    /\ upsets' = upsets + 1
    /\ UNCHANGED <<lastTx, prunedBelow, assetsOnly>>

\* Between two blocks.
PruneUTXO ==
    /\ upsets < MaxUpsets /\ height > Depth
    /\ \A t \in DOMAIN ledger : ledger[t].height < height
    /\ utxos' = {u \in utxos : u.destroyed = NULL \/ u.destroyed >= height - Depth}
    /\ prunedBelow' = height - Depth
    /\ upsets' = upsets + 1
    /\ UNCHANGED <<ledger, lastTx, height, assets, assetsOnly>>

-----------------------------------------------------------------------------
(* The SELECTs.  "Pruned" stands for exceptionDataPruned.                  *)

WasPruned == prunedBelow > -1

Live(u) == u.destroyed = NULL

\* GROUP BY: the sum of the rows' amounts per key, as a function.
SumBy(rows, Key(_)) ==
    [k \in {Key(u) : u \in rows} |-> Total({u \in rows : Key(u) = k}, LAMBDA u : u.amount)]

\* getAssetHolders(assetIndex): rows of address and sum.
HoldersAt(i) == SumBy({u \in utxos : u.index = i /\ Live(u)}, LAMBDA u : u.address)

\* getAssetIndexes
IndexesOf(x) == {assets[k].index : k \in {j \in DOMAIN assets : assets[j].id = x}}

\* Seeded fault: the last holder is not pushed back.
MergeAllButLast(rows) ==
    FoldSeq(LAMBDA r, acc : IF acc # <<>> /\ Last(acc).address = r.address
                            THEN Front(acc) \o <<[r EXCEPT !.count = @ + Last(acc).count]>>
                            ELSE Append(acc, r), <<>>, IF rows = <<>> THEN rows ELSE Front(rows))

\* Rows of one address follow each other and become one.
Merge(rows) ==
    FoldSeq(LAMBDA r, acc : IF acc # <<>> /\ Last(acc).address = r.address
                            THEN Front(acc) \o <<[r EXCEPT !.count = @ + Last(acc).count]>>
                            ELSE Append(acc, r), <<>>, rows)

\* getAssetHolders(assetId): the holders of each assetIndex, sorted and merged.
MergedHolders(x) ==
    LET holders == [i \in IndexesOf(x) |-> HoldersAt(i)]
        rows == UNION {{[address |-> a, index |-> i, count |-> holders[i][a]] : a \in DOMAIN holders[i]} :
                           i \in IndexesOf(x)}
    IN  Merge(Sorted(rows, LAMBDA r, q : r.address < q.address \/ (r.address = q.address /\ r.index < q.index)))

\* getassetholders: an object, in which the last row of an address stays.
AssetHolders(x) ==
    LET rows == IF Cardinality(IndexesOf(x)) = 1
                THEN LET at == HoldersAt(CHOOSE i \in IndexesOf(x) : TRUE)
                         payees == Sorted(DOMAIN at, <)
                     IN  [k \in DOMAIN payees |-> [address |-> payees[k], count |-> at[payees[k]]]]
                ELSE MergedHolders(x)
    IN  FoldSeq(LAMBDA r, reply : (r.address :> r.count) @@ reply, <<>>, rows)

\* getTotalAssetCount of an assetIndex, and of an assetId (a JOIN).
TotalCountAt(i) == Total({u \in utxos : u.index = i /\ Live(u)}, LAMBDA u : u.amount)
TotalCount(x) == Total({u \in utxos : u.index \in IndexesOf(x) /\ Live(u)}, LAMBDA u : u.amount)

\* getOriginalAssetCount: nothing tells that spent issuances are gone, but the flag.
OriginalCountAt(i) ==
    IF prunedBelow > 0 THEN Pruned
    ELSE <<Total({u \in utxos : u.index = i /\ u.issuance}, LAMBDA u : u.amount)>>
OriginalCount(x) ==
    IF WasPruned THEN Pruned
    ELSE <<Total({u \in utxos : u.index \in IndexesOf(x) /\ u.issuance}, LAMBDA u : u.amount)>>

\* getAssetIssuanceTXIDs: one row per assetIndex, with the txid of any.
IssuanceRows(x) ==
    LET rows(i) == {u \in utxos : u.index = i /\ u.issuance}
    IN  {[index |-> i, amount |-> Total(rows(i), LAMBDA u : u.amount)] :
            i \in {j \in IndexesOf(x) : rows(j) # {}}}

\* Seeded fault: spentTXID is not looked at.
TxsReceiving(i) == {u.txid : u \in {w \in utxos : w.index = i}}

\* getAssetTxHistory: receives, spends, and the transaction that issued (found
\* by an input's spentTXID).  A rewound spend still has its spentTXID.
TxsOfAsset(i) ==
    LET mine == {u \in utxos : u.index = i}
    IN  {u.txid : u \in mine} \cup {u.spentBy : u \in {w \in mine : w.spentBy # NULL}}
        \cup {u.spentBy : u \in {w \in utxos : \E q \in mine : q.issuance /\ q.txid = w.spentBy}}

AssetTxHistory(i) == IF WasPruned THEN Pruned ELSE <<TxsOfAsset(i)>>

\* getAddressTxList: txids in the order of their heights.
AddressTxs(a, from, to) ==
    {<<u.created, u.txid>> : u \in {w \in utxos : w.address = a /\ w.created \in from .. to}} \cup
    {<<u.destroyed, u.spentBy>> :
        u \in {w \in utxos : w.address = a /\ w.spentBy # NULL /\ ~Live(w) /\ w.destroyed \in from .. to}}
AddressTxList(a, from, to) ==
    LET rows == Sorted(AddressTxs(a, from, to), LAMBDA r, q : r[1] < q[1] \/ (r[1] = q[1] /\ r[2] < q[2]))
    IN  IF prunedBelow > 0 THEN Pruned ELSE [k \in DOMAIN rows |-> rows[k][2]]

\* getAddressHoldings
Holdings(a) == SumBy({u \in utxos : u.address = a /\ Live(u)}, LAMBDA u : u.index)

\* An output put together from its rows, asset by asset in the order of "aout".
Whole(rows) ==
    LET onIt == Sorted({u \in rows : u.index # DIGIBYTE}, LAMBDA u, w : u.aout < w.aout)
    IN  [address |-> (CHOOSE u \in rows : TRUE).address,
         assets |-> [k \in DOMAIN onIt |-> [index |-> onIt[k].index, amount |-> onIt[k].amount]]]

RowsOf(o) == {u \in utxos : u.txid = o[1] /\ u.vout = o[2]}

\* getAssetUTXO: what has no row is the wallet's word, unless it was pruned.
AssetUTXO(o, h) ==
    IF RowsOf(o) # {} THEN Whole(RowsOf(o))
    ELSE IF h < prunedBelow THEN Pruned
    ELSE [address |-> OutputAt(o).address, assets |-> <<>>]

\* getAddressUTXOs: the table's, and the wallet's for what is not stored.
AddressUTXOs(a, minConfirms, maxConfirms) ==
    LET heights == (IF maxConfirms < height THEN height - maxConfirms + 1 ELSE 0) .. height - minConfirms + 1
        rows == {u \in utxos : u.address = a /\ Live(u) /\ u.created \in heights}
        found == {<<u.txid, u.vout>> : u \in rows}
        wallet == IF assetsOnly THEN {o \in UnspentNow : OutputAt(o).address = a /\ ledger[o[1]].height \in heights}
                  ELSE {}
    IN  {[out |-> o, whole |-> Whole(RowsOf(o))] : o \in found} \cup
        {[out |-> o, whole |-> [address |-> a, assets |-> <<>>]] : o \in wallet \ found}

\* gettxout: nothing for what is spent; the height is not passed on, so that of a
\* pruned table what has no row is refused, even where only assets are stored.
GetTxOut(o) ==
    LET coin == AssetUTXO(o, 0)
    IN  IF o \notin UnspentNow THEN <<>> ELSE IF coin = Pruned THEN Pruned ELSE <<coin>>

\* "includeAsset" of listunspent: TRUE, FALSE, an assetIndex or an assetId.
Included(onIt, include) ==
    \/ onIt = <<>> \/ include.of = "all"
    \/ include.of = "index" /\ \E k \in DOMAIN onIt : onIt[k].index = include.value
    \/ include.of = "id" /\ \E k \in DOMAIN onIt : onIt[k].index \in IndexesOf(include.value)

\* listunspent goes on until the sum is reached; in the order of the outputs.
ListUnspent(payees, minConfirms, maxConfirms, include, sum) ==
    LET wanted(a) == {u \in AddressUTXOs(a, minConfirms, maxConfirms) : Included(u.whole.assets, include)}
        list == FoldSeq(LAMBDA a, acc : acc \o Sorted({u.out : u \in wanted(a)},
                    LAMBDA o, q : o[1] < q[1] \/ (o[1] = q[1] /\ o[2] < q[2])), <<>>, payees)
        enough == {k \in DOMAIN list : k * Dust >= sum}
    IN  IF enough = {} THEN list ELSE SubSeq(list, 1, Min(enough))

\* getAssetIndex: several issuances of a hybrid asset are told apart by an output.
GetAssetIndex(x, o) ==
    LET onIt == Sorted({u \in RowsOf(o) : u.aout # None}, LAMBDA u, w : u.aout < w.aout)
        named == SelectSeq(onIt, LAMBDA u : u.index \in IndexesOf(x))
    IN  IF Cardinality(IndexesOf(x)) = 1 THEN <<CHOOSE i \in IndexesOf(x) : TRUE>>
        ELSE IF named = <<>> THEN <<>> ELSE <<named[1].index>>

-----------------------------------------------------------------------------
(* OldStream.cpp                                                           *)

\* Seeded fault: an input spent to the address is not taken off.
ChangeOfOutputs(t, a, i) ==
    Total({v \in DOMAIN ledger[t].outs : ledger[t].outs[v].address = a}, LAMBDA v : On(ledger[t].outs[v], i))

\* What a transaction changes of an address's balance; the inputs of
\* DigiByteTransaction(txid) come from the tables.
Change(t, a, i) ==
    Total({v \in DOMAIN ledger[t].outs : ledger[t].outs[v].address = a}, LAMBDA v : On(ledger[t].outs[v], i))
    - Total({o \in ledger[t].ins : AssetUTXO(o, ledger[t].height).address = a},
            LAMBDA o : On(AssetUTXO(o, ledger[t].height), i))

IsPaidBy(t, a) == ledger[t].issued # NULL /\ \E v \in DOMAIN ledger[t].outs : ledger[t].outs[v].address = a

\* getAddressData replays the address's transactions.  The outputs of an
\* issuance have no assetIndex: asking for it throws.
AddressData(a) ==
    LET txs == AddressTxList(a, 1, height)
        seen == {DIGIBYTE} \cup {assets[k].index : k \in DOMAIN assets}
    IN  IF txs = Pruned THEN Pruned
        ELSE IF \E k \in DOMAIN txs : IsPaidBy(txs[k], a) THEN UnknownAssetIndex
        ELSE [i \in seen |-> Total(DOMAIN txs, LAMBDA k : Change(txs[k], a, i))]

TxsOfId(x) == UNION {TxsOfAsset(i) : i \in IndexesOf(x)}
OnId(out, x) == Total(IndexesOf(x), LAMBDA i : On(out, i))

\* The "txs" of getAssetData: what each transaction took of the asset from an
\* address and gave to it.
Transfers(x) ==
    [t \in TxsOfId(x) |->
        LET coin(o) == AssetUTXO(o, ledger[t].height)
            outs == ledger[t].outs
        IN  [input  |-> [a \in Address |-> Total({o \in ledger[t].ins : coin(o).address = a},
                                                LAMBDA o : OnId(coin(o), x))],
             output |-> [a \in Address |-> Total({v \in DOMAIN outs : outs[v].address = a},
                                                LAMBDA v : OnId(outs[v], x))]]]

\* getAssetData: holders and supply over all assetIndexes of the assetId.  The
\* wallet does not know a transaction of another branch, which tables still name.
AssetData(x) ==
    LET at == [i \in IndexesOf(x) |-> HoldersAt(i)]
        rows == UNION {{[index |-> i, address |-> a] : a \in DOMAIN at[i]} : i \in IndexesOf(x)}
    IN  IF WasPruned THEN Pruned
        ELSE IF ~(TxsOfId(x) \subseteq DOMAIN ledger) THEN Orphaned
        ELSE [txs |-> Transfers(x),
              holders |-> [a \in {r.address : r \in rows} |->
                              Total({r \in rows : r.address = a}, LAMBDA r : at[r.index][a])],
              current |-> Total(rows, LAMBDA r : at[r.index][r.address]),
              initial |-> Total(IndexesOf(x), LAMBDA i : OriginalCountAt(i)[1])]

-----------------------------------------------------------------------------
\* A coinbase has paid every address.
QueriesInit ==
    /\ prunedBelow = -1 /\ assetsOnly \in BOOLEAN /\ upsets = 0
    /\ lastTx = 1 /\ height = 2 /\ assets = <<>>
    /\ LET payees == Sorted(Address, <)
           outs == [k \in DOMAIN payees |-> [address |-> payees[k], assets |-> <<>>]]
       IN  /\ ledger = <<[height |-> height - 1, ins |-> {}, outs |-> outs, issued |-> NULL]>>
           /\ utxos = UNION {CreatedRows(1, v, outs[v], FALSE, height - 1) : v \in DOMAIN outs}

QueriesNext == Transfer \/ Issue \/ NextBlock \/ Rewind \/ PruneUTXO

QueriesSpec == QueriesInit /\ [][QueriesNext]_queriesVars

-----------------------------------------------------------------------------
(* Properties                                                              *)

\* The type invariant.
QueriesTypeOK ==
    /\ height \in 1 .. MaxHeight /\ lastTx \in 0 .. MaxTxs
    /\ \A t \in DOMAIN ledger : t <= lastTx /\ ledger[t].height \in 1 .. height
    /\ \A u \in utxos :
          /\ u.address \in Address /\ u.txid \in DOMAIN ledger
          /\ u.created \in 1 .. height /\ u.destroyed \in {NULL} \cup u.created .. height
          /\ u.spentBy \in 0 .. lastTx
          /\ u.amount \in Nat \ {0} /\ u.index \in {DIGIBYTE} \cup {assets[k].index : k \in DOMAIN assets}
          /\ u.issuance \in BOOLEAN
    /\ prunedBelow \in {-1} \cup 1 .. MaxHeight

Issued(x) == {t \in DOMAIN ledger : ledger[t].issued \in IndexesOf(x)}
IssuedAmount(t) == Total(DOMAIN ledger[t].outs, LAMBDA v : On(ledger[t].outs[v], ledger[t].issued))
HeldOf(x, a) ==
    LET mine == {o \in UnspentNow : OutputAt(o).address = a}
    IN  Total(mine, LAMBDA o : Total(IndexesOf(x), LAMBDA i : On(OutputAt(o), i)))

\* However an asset was issued, moved, burnt and rewound, its holders
\* (getassetholders and getAssetData, two ways of merging assetIndexes), its
\* count, what was issued of it, and what its transactions add up to are the
\* chain's; what was pruned, or a table still has of another branch, is refused.
AssetsAddUp ==
    \A x \in {assets[k].id : k \in DOMAIN assets} :
        LET data == AssetData(x)
            holding == [a \in {b \in Address : HeldOf(x, b) > 0} |-> HeldOf(x, a)]
            count == TotalCount(x)
            issued == Total(Issued(x), IssuedAmount)
            moved(t, a) == data.txs[t].output[a] - data.txs[t].input[a]
        IN  /\ AssetHolders(x) = holding
            /\ count = Total(DOMAIN holding, LAMBDA a : holding[a])
            /\ count = Total(IndexesOf(x), TotalCountAt)
            /\ OriginalCount(x) = IF WasPruned THEN Pruned ELSE <<issued>>
            /\ ~WasPruned => Total(IssuanceRows(x), LAMBDA r : r.amount) = issued
            /\ data = Pruned <=> WasPruned
            /\ data = Orphaned => upsets > 0
            /\ data \notin {Pruned, Orphaned} =>
                  /\ data.holders = holding /\ data.current = count /\ data.initial = issued
                  /\ \A a \in Address : Total(DOMAIN data.txs, LAMBDA t : moved(t, a)) = HeldOf(x, a)

\* Every unspent output of an address is listed once, with all that is on it,
\* whether its rows are stored or only the wallet knows it, in any range of
\* confirmations; what is listed as funds has no asset on it, and a sum is
\* reached if there is enough; an output tells the assetIndex of an assetId that
\* is on it (getAddressUTXOs, listunspent, gettxout, getAssetIndex).
UtxosAreWhole ==
    LET ids == {assets[k].id : k \in DOMAIN assets}
        payees == Sorted(Address, <)
        unspent == UnspentNow
        confirms(o) == height - ledger[o[1]].height + 1
        asked == {[of |-> "id", value |-> x] : x \in ids} \cup
                 {[of |-> "index", value |-> assets[k].index] : k \in DOMAIN assets}
        funds == [of |-> "none"]
        listed(include, sum) == ListUnspent(payees, 1, MaxHeight, include, sum)
        isAll(list, include) ==
            LET pass == {o \in unspent : Included(OutputAt(o).assets, include)}
            IN  ToSet(list) = pass /\ Len(list) = Cardinality(pass)
        unreached == Dust * Cardinality(Outputs) + 1
    IN  /\ \A a \in Address : \A range \in {<<n, MaxHeight>> : n \in 0 .. height} \cup {<<1, n>> : n \in 1 .. height} :
              AddressUTXOs(a, range[1], range[2]) =
                  {[out |-> o, whole |-> [address |-> a, assets |-> OutputAt(o).assets]] :
                      o \in {q \in unspent : OutputAt(q).address = a /\ confirms(q) \in range[1] .. range[2]}}
        /\ \A include \in asked : isAll(listed(include, unreached), include)
        /\ LET all == listed(funds, unreached)
           IN  isAll(all, funds) /\ listed(funds, Dust + 1) = SubSeq(all, 1, Min({2, Len(all)}))
        /\ \A o \in Outputs :
              GetTxOut(o) = IF o \notin unspent THEN <<>>
                            ELSE IF assetsOnly /\ prunedBelow > 0 /\ OutputAt(o).assets = <<>> THEN Pruned
                            ELSE <<OutputAt(o)>>
        /\ \A o \in unspent, x \in ids :
              (\E i \in IndexesOf(x) : On(OutputAt(o), i) > 0) =>
                  \E i \in IndexesOf(x) : GetAssetIndex(x, o) = <<i>> /\ On(OutputAt(o), i) > 0

\* The tables and what is listed from them.
UtxosInv == QueriesTypeOK /\ UtxosAreWhole

Touches(t, a) == \/ \E v \in DOMAIN ledger[t].outs : ledger[t].outs[v].address = a
                 \/ \E o \in ledger[t].ins : OutputAt(o).address = a
Moves(t, i) == \/ \E v \in DOMAIN ledger[t].outs : On(ledger[t].outs[v], i) > 0
               \/ \E o \in ledger[t].ins : On(OutputAt(o), i) > 0

\* The histories of addresses and assets miss nothing the chain holds, in any
\* range of heights and after any rewind; an address's has nothing else and
\* nothing twice (getAddressTxList, getAssetTxHistory).
HistoryIsComplete ==
    ~WasPruned =>
        /\ ~assetsOnly =>
              \A a \in Address, from \in 1 .. height : \A to \in from .. height :
                  LET list == AddressTxList(a, from, to)
                  IN  /\ ToSet(list) = {t \in DOMAIN ledger : Touches(t, a) /\ ledger[t].height \in from .. to}
                      /\ Len(list) = Cardinality(ToSet(list))
        /\ \A k \in DOMAIN assets :
              LET i == assets[k].index
              IN  AssetTxHistory(i)[1] \cap DOMAIN ledger = {t \in DOMAIN ledger : Moves(t, i)}

\* Replaying an address's transactions (getAddressData) ends with what its
\* unspent outputs hold (getAddressHoldings), and both with the chain's word.
BalancesReplay ==
    \A a \in Address :
        LET data == AddressData(a)
            held == Holdings(a)
        IN  /\ \A i \in DOMAIN held : (i = DIGIBYTE /\ assetsOnly) \/ held[i] = Balance(a, i)
            /\ data = Pruned <=> WasPruned
            /\ data \notin {Pruned, UnknownAssetIndex} =>
                  \A i \in DOMAIN data : (i = DIGIBYTE /\ assetsOnly) \/ data[i] = Balance(a, i)

=============================================================================

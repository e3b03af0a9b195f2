-------------------------- MODULE DataTransactions --------------------------
(***************************************************************************)
(* What an OP_RETURN makes of a transaction: the constructor of            *)
(* DigiByteTransaction, which tries KYC (KYC.cpp), exchange rates,         *)
(* encrypted keys and DigiAssets in this order and keeps the rest as       *)
(* unknown data, and addToDatabase, which writes what was found.           *)
(*                                                                         *)
(* Two nodes follow one chain, each at its pace: "full" stores every       *)
(* output, "assets" those with assets only and skips what is not special.  *)
(*                                                                         *)
(* Abstractions                                                            *)
(*   - One transaction a block.  The search for the fork is                *)
(*     ChainAnalyzer's, the clearing of other tables ChainDatabase's.      *)
(*   - How assets move is AssetLedger's: the first output that is not data *)
(*     takes them, if the instructions are "sound".                        *)
(*   - An OP_RETURN holds one of five payloads and 0 digibytes; KYC data   *)
(*     and asset headers are well formed, rates are one number.            *)
(*   - A verifier is one at every height: the chain lies wholly below or   *)
(*     wholly from 21500000 on, where the code knows a second one.         *)
(*   - The txid stands for what a transaction says.  Outputs spent are not *)
(*     pruned.  Only coinbases have no input, and carry no data.           *)
(***************************************************************************)
EXTENDS Integers, FiniteSets, Sequences, SequencesExt

CONSTANTS
    Person,      \* addresses
    Bare,        \* an output that has not exactly one address
    Verifier,    \* isKYCVerifier
    Watch,       \* table exchangeWatch
    Shape,       \* outputs a transaction may have: sequences of [address, value, data]
    Plain,       \* "data" of an output that is no OP_RETURN
    SpecialInputs, \* 5: a special transaction that is no DigiAsset has at most so many
    MaxDataTxs, MaxForks   \* bounds

Said == {"kyc", "rates", "issue", "move", "text"}
Output == [address : Person \cup {Bare}, value : Nat, data : Said \cup {Plain}]

ASSUME DataAssumption ==
    /\ IsFiniteSet(Person) /\ Verifier \cup Watch \subseteq Person /\ Bare \notin Person
    /\ Plain \notin Said /\ Shape \subseteq Seq(Output)
    /\ SpecialInputs \in Nat /\ MaxDataTxs \in Nat /\ MaxForks \in Nat

VARIABLES
    chain,    \* the wallet's: transactions [id, ins, outs, sound]
    lastId, forks,
    seen,     \* of each node: the transactions it has processed,
    coins,    \*   table utxos,
    kyc,      \*   table kyc,
    rates,    \*   table exchange,
    keys,     \*   table encryptedkeys,
    unknown   \*   and table unknown

dataTables == <<seen, coins, kyc, rates, keys, unknown>>
dataVars == <<chain, lastId, forks, seen, coins, kyc, rates, keys, unknown>>

Node == {"full", "assets"}
Standing == 0     \* "revoked" of a KYC that is not

CoinsOf(tx) == {<<tx.id, v>> : v \in DOMAIN tx.outs}
Made(txs) == UNION {CoinsOf(txs[i]) : i \in DOMAIN txs}
Spent(txs) == UNION {ToSet(txs[i].ins) : i \in DOMAIN txs}
OutputIn(txs, c) == LET i == CHOOSE j \in DOMAIN txs : txs[j].id = c[1] IN txs[i].outs[c[2]]

-----------------------------------------------------------------------------
(* Reading a transaction                                                   *)

DataOutputs(tx) == {v \in DOMAIN tx.outs : tx.outs[v].data # Plain}

\* dataIndex: the first OP_RETURN; 0 if there is none.
DataIndex(tx) == IF DataOutputs(tx) = {} THEN 0
                 ELSE CHOOSE v \in DataOutputs(tx) : \A w \in DataOutputs(tx) : v <= w

\* decodeAssetTxHeader takes the last one.
AssetOpcode(tx) ==
    LET data == {tx.outs[v].data : v \in {w \in DataOutputs(tx) : \A x \in DataOutputs(tx) : x <= w}}
    IN  data \cap {"issue", "move"}

\* Seeded fault: output 0 instead of the one that is spent.
SenderOfFirst(n, c) ==
    LET row == {r \in coins[n] : r.coin = <<c[1], 1>>}
    IN  IF row # {} THEN {r.address : r \in row}
        ELSE IF n = "full" THEN {} ELSE {OutputIn(chain, c).address} \ {Bare}

\* getSendingAddress: the row of an output, else for a node that does not keep
\* them the wallet's word if there is one address; {} when it throws.
SendingAddress(n, c) ==
    LET row == {r \in coins[n] : r.coin = c}
    IN  IF row # {} THEN {r.address : r \in row}
        ELSE IF n = "full" THEN {} ELSE {OutputIn(chain, c).address} \ {Bare}

\* processKYCVerify: the address of output 0 was verified by the sender of the last input.
KycForm(tx) ==
    /\ Len(tx.outs) \in {3, 4} /\ DataIndex(tx) = 2 /\ tx.outs[2].data = "kyc"
    /\ tx.outs[1].value = 600 /\ Bare \notin {tx.outs[1].address, tx.outs[3].address}
Verifies(n, tx) == KycForm(tx) /\ SendingAddress(n, Last(tx.ins)) \cap Verifier # {}

\* processKYCRevoke asks for the sender of the transaction's own output 0.
RevokeForm(tx) ==
    /\ DataIndex(tx) = 2 /\ tx.outs[2].data = "kyc"
    /\ tx.outs[1].value = 601 /\ tx.outs[1].address \in Verifier

\* decodeExchangeRate: an owner of the address sends to it.
RatesForm(tx) ==
    /\ DataIndex(tx) = 1 /\ Len(tx.ins) = 1 /\ Len(tx.outs) = 2
    /\ tx.outs[1].data = "rates" /\ tx.outs[2].address \in Watch
Publishes(n, tx) == RatesForm(tx) /\ SendingAddress(n, Head(tx.ins)) = {tx.outs[2].address}

\* decodeEncryptedKeyTx
KeyForm(tx) == /\ DataIndex(tx) = 2 /\ Len(tx.ins) = 1 /\ Len(tx.outs) \in 2 .. 3
               /\ tx.outs[1].value = 650

\* _assetFound
AssetFound(n, tx) == \E r \in coins[n] : r.coin \in ToSet(tx.ins) /\ r.assets

\* decodeAssetTX
MovesAssets(n, tx) ==
    /\ tx.sound
    /\ "issue" \in AssetOpcode(tx) \/ ("move" \in AssetOpcode(tx) /\ AssetFound(n, tx))

\* Seeded fault: a large transaction is not looked at.
SkipsLarge(n, tx) == n = "assets" /\ (DataIndex(tx) = 0 \/ Len(tx.ins) > SpecialInputs)

\* dontBotherIfNotSpecial
Skips(n, tx) ==
    n = "assets" /\ (DataIndex(tx) = 0 \/ (Len(tx.ins) > SpecialInputs /\ AssetOpcode(tx) = {}))

\* _txType; "unknown" is STANDARD with _opReturnHex.
TxType(n, tx) ==
    IF Skips(n, tx) \/ DataIndex(tx) = 0 THEN "standard"
    ELSE IF Verifies(n, tx) THEN "KYC_ISSUANCE"
    ELSE IF RevokeForm(tx) THEN "KYC_REVOKE"
    ELSE IF Publishes(n, tx) THEN "EXCHANGE_PUBLISH"
    ELSE IF KeyForm(tx) THEN "ENCRYPTED_KEY"
    ELSE IF MovesAssets(n, tx) THEN "DIGIASSET"
    ELSE "unknown"

\* The outputs whose sender is asked for; a sender that is not found throws, and
\* the block is never finished.
Asked(n, tx) ==
    {c \in {Head(tx.ins), Last(tx.ins), <<tx.id, 1>>} :
        /\ ~Skips(n, tx)
        /\ \/ KycForm(tx) /\ c = Last(tx.ins)
           \/ RevokeForm(tx) /\ c = <<tx.id, 1>>
           \/ RatesForm(tx) /\ c = Head(tx.ins)}

-----------------------------------------------------------------------------
(* addToDatabase                                                           *)

\* addKYC: INSERT OR IGNORE, an address has one row.
AddKYC(table, a, h) ==
    IF \E r \in table : r.address = a THEN table
    ELSE table \cup {[address |-> a, height |-> h, revoked |-> Standing]}

\* revokeKYC
RevokeKYC(table, a, h) == {IF r.address = a THEN [r EXCEPT !.revoked = h] ELSE r : r \in table}

\* addEncryptedKey: INSERT OR IGNORE.
AddEncryptedKey(table, a, id) ==
    IF \E r \in table : r.address = a THEN table ELSE table \cup {[address |-> a, txid |-> id]}

\* createUTXO; what holds no asset is kept by a full node only.
Created(n, tx, type, h) ==
    LET taker == {v \in DOMAIN tx.outs \ DataOutputs(tx) : \A w \in DOMAIN tx.outs \ DataOutputs(tx) : v <= w}
        row(v) == [coin |-> <<tx.id, v>>, address |-> tx.outs[v].address,
                   assets |-> type = "DIGIASSET" /\ v \in taker, height |-> h]
    IN  {r \in {row(v) : v \in DOMAIN tx.outs} : n = "full" \/ r.assets}

Process(n) ==
    /\ IsStrictPrefix(seen[n], chain)
    /\ LET h == Len(seen[n]) + 1
           tx == chain[h]
           type == TxType(n, tx)
       IN  /\ \A c \in Asked(n, tx) : SendingAddress(n, c) # {}
           /\ seen' = [seen EXCEPT ![n] = Append(@, tx)]
           /\ kyc' = [kyc EXCEPT ![n] =
                 CASE type = "KYC_ISSUANCE" -> AddKYC(@, tx.outs[1].address, h)
                   [] type = "KYC_REVOKE"   -> RevokeKYC(@, tx.outs[1].address, h)
                   [] OTHER                 -> @]
           /\ rates' = [rates EXCEPT ![n] =
                 IF type = "EXCHANGE_PUBLISH" THEN @ \cup {[address |-> tx.outs[2].address, height |-> h]} ELSE @]
           /\ keys' = [keys EXCEPT ![n] =
                 IF type = "ENCRYPTED_KEY" THEN AddEncryptedKey(@, tx.outs[1].address, tx.id) ELSE @]
           /\ unknown' = [unknown EXCEPT ![n] = IF type = "unknown" THEN Append(@, tx.id) ELSE @]
           /\ coins' = [coins EXCEPT ![n] = @ \cup Created(n, tx, type, h)]
    /\ UNCHANGED <<chain, lastId, forks>>

\* clearBlocksAboveHeight, down to the fork: encryptedkeys and unknown stay.
ClearAboveFork(n) ==
    /\ ~IsPrefix(seen[n], chain)
    /\ LET keep == {i \in DOMAIN seen[n] : i \in DOMAIN chain /\ seen[n][i] = chain[i]}
       IN  /\ seen' = [seen EXCEPT ![n] = SubSeq(@, 1, Cardinality(keep))]
           /\ coins' = [coins EXCEPT ![n] = {r \in @ : r.height \in keep}]
           /\ rates' = [rates EXCEPT ![n] = {r \in @ : r.height \in keep}]
           /\ kyc' = [kyc EXCEPT ![n] =
                 {[r EXCEPT !.revoked = IF @ \in keep THEN @ ELSE Standing] :
                     r \in {q \in @ : q.height \in keep}}]
    /\ UNCHANGED <<chain, lastId, forks, keys, unknown>>

-----------------------------------------------------------------------------
(* What is answered of it                                                  *)

\* getaddresskyc: KYC::valid of the row, if there is one.
HasKyc(n, a) == \E r \in kyc[n] : r.address = a /\ r.revoked = Standing

\* getencryptedkey: the keys of the addresses up to the first that has none.
EncryptedKeys(n, addresses) ==
    LET has(k) == \E r \in keys[n] : r.address = addresses[k]
        known == {k \in DOMAIN addresses : \A j \in 1 .. k : has(j)}
    IN  [k \in 1 .. Cardinality(known) |-> (CHOOSE r \in keys[n] : r.address = addresses[k]).txid]

-----------------------------------------------------------------------------
(* The chain grows, or another branch replaces its end.                    *)

Broadcast ==
    /\ lastId < MaxDataTxs
    /\ \E spends \in {S \in SUBSET (Made(chain) \ Spent(chain)) : Cardinality(S) \in 1 .. 2}, outs \in Shape :
       \E ins \in SetToSeqs(spends),
          sound \in {FALSE, \E v, w \in DOMAIN outs : outs[v].data \in {"issue", "move"} /\ outs[w].data = Plain} :
          chain' = Append(chain, [id |-> lastId + 1, ins |-> ins, outs |-> outs, sound |-> sound])
    /\ lastId' = lastId + 1
    /\ UNCHANGED <<forks, dataTables>>

Fork ==
    /\ forks < MaxForks
    /\ \E k \in 1 .. Len(chain) - 1 : chain' = SubSeq(chain, 1, k)
    /\ forks' = forks + 1
    /\ UNCHANGED <<lastId, dataTables>>

\* A coinbase has paid everybody.
DataInit ==
    LET paid == SetToSeq(Person)
        coinbase == [id |-> 1, ins |-> <<>>, sound |-> FALSE,
                     outs |-> [k \in DOMAIN paid |-> [address |-> paid[k], value |-> 0, data |-> Plain]]]
    IN  /\ chain = <<coinbase>> /\ lastId = 1 /\ forks = 0
        /\ seen = [n \in Node |-> <<coinbase>>]
        /\ coins = [n \in Node |-> {r \in {[coin |-> c, address |-> OutputIn(chain, c).address,
                                            assets |-> FALSE, height |-> 1] : c \in CoinsOf(coinbase)} : n = "full"}]
        /\ kyc = [n \in Node |-> {}] /\ rates = [n \in Node |-> {}] /\ keys = [n \in Node |-> {}]
        /\ unknown = [n \in Node |-> <<>>]

DataNext == Broadcast \/ Fork \/ \E n \in Node : Process(n) \/ ClearAboveFork(n)

DataSpec == DataInit /\ [][DataNext]_dataVars

-----------------------------------------------------------------------------
(* Properties                                                              *)

\* The type invariant.
DataTypeOK ==
    /\ lastId \in 1 .. MaxDataTxs /\ forks \in 0 .. MaxForks
    /\ \A n \in Node :
          /\ \A r \in coins[n] : r.coin \in Made(seen[n]) /\ r.address \in Person \cup {Bare}
                                  /\ r.assets \in BOOLEAN /\ r.height \in DOMAIN seen[n]
          /\ \A r \in rates[n] : r.address \in Watch /\ r.height \in DOMAIN seen[n]
          /\ \A r \in kyc[n] : /\ r.address \in Person /\ r.height \in DOMAIN seen[n]
                               /\ r.revoked \in {Standing} \cup DOMAIN seen[n]
          /\ \A r \in keys[n] : r.address \in Person \cup {Bare} /\ r.txid \in 1 .. lastId
          /\ \A k \in DOMAIN unknown[n] : unknown[n][k] \in 1 .. lastId

\* The comment at the end of the constructor: more inputs only asset and normal transactions have.
IsLarge(tx) == Len(tx.ins) > SpecialInputs /\ AssetOpcode(tx) = {} /\ DataIndex(tx) # 0
Whole(n) == \A i \in DOMAIN seen[n] : ~IsLarge(seen[n][i])

Owner(n, c) == OutputIn(seen[n], c).address
RatesTxs(n) == {i \in DOMAIN seen[n] : LET tx == seen[n][i]
                                       IN  RatesForm(tx) /\ Owner(n, Head(tx.ins)) = tx.outs[2].address}
KycTxs(n) == {i \in DOMAIN seen[n] : KycForm(seen[n][i]) /\ Owner(n, Last(seen[n][i].ins)) \in Verifier}
Verified(n) == {seen[n][i].outs[1].address : i \in KycTxs(n)}

\* Whatever was rewound, and wherever a node looks for a sender, the exchange
\* rates it has are those that an owner of a watched address published on the
\* chain it follows, and the KYC records those that a verifier made, the first
\* of an address; a revocation takes it from no one but a verifier
\* (decodeExchangeRate, processKYCVerify, processKYCRevoke, getSendingAddress).
AuthorsOnly ==
    \A n \in Node : n = "full" \/ Whole(n) =>
        /\ rates[n] = {[address |-> seen[n][i].outs[2].address, height |-> i] : i \in RatesTxs(n)}
        /\ {r.address : r \in kyc[n]} = Verified(n)
        /\ \A a \in Verified(n) \ Verifier : HasKyc(n, a)
        /\ \A r \in kyc[n] : /\ r.height \in KycTxs(n)
                             /\ \A i \in KycTxs(n) : seen[n][i].outs[1].address = r.address => r.height <= i

AssetsOf(n) == {r \in coins[n] : r.assets}
IdsOf(n) == {seen[n][i].id : i \in DOMAIN seen[n]}

\* A node that skips what is not special has the same records of a chain as one
\* that looks at everything, where transactions are as small as the shortcut
\* supposes; of keys, where none is left from another branch.
ModesAgree ==
    seen["full"] = seen["assets"] /\ Whole("full") =>
        /\ rates["full"] = rates["assets"] /\ kyc["full"] = kyc["assets"]
        /\ AssetsOf("full") = AssetsOf("assets")
        /\ ToSet(unknown["full"]) \cap IdsOf("full") = ToSet(unknown["assets"]) \cap IdsOf("assets")
        /\ (\A n \in Node : {r.txid : r \in keys[n]} \subseteq IdsOf(n)) =>
              \A a, b \in Person \cup {Bare} : EncryptedKeys("full", <<a, b>>) = EncryptedKeys("assets", <<a, b>>)

\* The tables a transaction is recorded in.
Traces(n, i) ==
    LET tx == seen[n][i]
    IN  {t \in {"kyc", "rates", "keys", "unknown", "assets"} :
            \/ t = "kyc" /\ \E r \in kyc[n] : i \in {r.height, r.revoked}
            \/ t = "rates" /\ \E r \in rates[n] : r.height = i
            \/ t = "keys" /\ \E r \in keys[n] : r.txid = tx.id
            \/ t = "unknown" /\ tx.id \in ToSet(unknown[n])
            \/ t = "assets" /\ \E r \in AssetsOf(n) : r.coin[1] = tx.id}

\* Data that is on the chain is recorded in one way and never in two, even with
\* two OP_RETURNs; only what comes second for its address is lost.
RecordedOnce ==
    \A n \in Node : \A i \in DOMAIN seen[n] :
        LET tx == seen[n][i]
            taken == \/ KycForm(tx) /\ \E r \in kyc[n] : r.address = tx.outs[1].address /\ r.height < i
                     \/ RevokeForm(tx)
                     \/ KeyForm(tx) /\ \E r \in keys[n] : r.address = tx.outs[1].address /\ r.txid < tx.id
        IN  /\ Cardinality(Traces(n, i)) <= 1
            /\ DataIndex(tx) # 0 /\ (n = "full" \/ ~IsLarge(tx)) /\ ~taken => Traces(n, i) # {}

\* What a node has recorded is what the chain says, in one way.
RecordsInv == ModesAgree /\ RecordedOnce

=============================================================================

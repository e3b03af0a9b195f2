---------------------------- MODULE AssetLedger ----------------------------
(***************************************************************************)
(* What a transaction does to the assets of the chain: DigiByteTransaction  *)
(* (decoding and addToDatabase), DigiAsset::processIssuance and KYC, on the  *)
(* tables assets, utxos, kyc, votes and exchangeWatch.                       *)
(*                                                                         *)
(* A transaction is decoded in steps, one per transfer instruction, and is   *)
(* then saved in one.  Nothing interleaves: the steps only let the           *)
(* instructions be any sequence.  AssetTransfer moves the holdings,          *)
(* AssetRules decides.                                                      *)
(*                                                                         *)
(* Abstractions                                                            *)
(*   - An asset id is what it is computed from; ids do not collide.           *)
(*   - Row k of rows is the asset of index k + 1: index 1 is DigiByte itself.  *)
(*   - coins has every output with an address.  When the table keeps no        *)
(*     outputs without assets the wallet answers for them (getAssetUTXO,       *)
(*     getSendingAddress); pruning and rollback are ChainDatabase's subject.   *)
(*   - The pools, the domains and the RPC cache an issuance is announced to    *)
(*     are modules of their own.                                            *)
(*   - Publishing exchange rates and encrypted keys touches no asset: they     *)
(*     are "special" transactions here, with KYC.                            *)
(***************************************************************************)
EXTENDS AssetRules, AssetTransfer

CONSTANTS
    Address,       \* addresses that hold outputs
    NoAddress,     \* "": the output is an OP_RETURN
    Verifier,      \* the address isKYCVerifier accepts
    Country,       \* country codes
    Layouts,       \* outputs a transaction may have: sequences of [address, value]
    Issuances,     \* what an issuance states
    Instructions,  \* transfer instructions
    Versions,      \* DigiAsset versions of transfers
    Watched,       \* exchange addresses watched from the start
    Rates,         \* accepted rate of each currency somebody published
    Certified,     \* table kyc at the start
    Genesis,       \* the rows and the outputs the run may start from
    MaxIssue,      \* 18014398509481983, most assets an issuance may create
    KeepsPlain,    \* does the table keep outputs that hold no asset
    MaxTx,         \* bound: transactions
    MaxInputs,     \* bound: inputs of a transaction
    MaxInstructions, \* bound: instructions of a transaction
    MaxHeight      \* bound: height

Kinds == {"aggregable", "hybrid", "dispersed"}

Holdings(indexes) == [index : indexes, kind : Kinds, count : Nat]

\* The outputs of transactions 0 .. m, holding assets of rows 1 .. n.
CoinsOf(m, n) == [tx : 0 .. m, n : Nat, address : Address, value : Nat, holds : Seq(Holdings(1 .. n)),
                  issued : BOOLEAN, spent : BOOLEAN]

\* A row's flags are those of its id, and its rules come out of the table as they
\* went in.
IsRow(r) ==
    /\ r = [id |-> r.id, kind |-> r.kind, locked |-> r.locked, rules |-> r.rules,
            created |-> r.created, updated |-> r.updated]
    /\ r.id.kind = r.kind /\ r.id.locked = r.locked
    /\ r.rules = Deserialize(Serialize(r.rules))
    /\ r.created \in Nat /\ r.updated \in Nat /\ r.created <= r.updated

\* The outputs of an issuance hold the one asset it issued.
HoldsOne(c) == \A j, k \in DOMAIN c.holds : c.holds[j].index = c.holds[k].index

\* 10 ^ decimals is stated to be a number: the provers know nothing of exponents.
ASSUME LedgerAssumption ==
    /\ Verifier \in Address /\ NoAddress \notin Address
    /\ \A l \in Layouts : l \in Seq([address : Address \cup {NoAddress}, value : Nat]) /\ l # << >>
    /\ \A i \in Issuances :
          /\ i.amount \in Nat /\ i.kind \in Kinds \cup {"invalid"}
          /\ 10 ^ i.decimals \in Nat \ {0}
          /\ i.statements \in Seq(Range(i.statements))
          /\ \A k \in DOMAIN i.statements : i.statements[k].code = "deflation" => i.statements[k].amount \in Nat
    /\ Instructions \subseteq [skip : BOOLEAN, range : BOOLEAN, percent : BOOLEAN, output : Nat, amount : Nat]
    /\ MaxIssue \in Nat /\ MaxTx \in Nat /\ MaxInputs \in Nat /\ MaxInstructions \in Nat /\ MaxHeight \in Nat
    /\ KeepsPlain \in BOOLEAN

\* What earlier issuances leave in the tables.
ASSUME GenesisAssumption ==
    \A g \in Genesis :
        /\ g.made \in 0 .. MaxTx /\ g.height \in 1 .. MaxHeight
        /\ g.rows \in Seq(Range(g.rows)) /\ g.coins \subseteq CoinsOf(g.made, Len(g.rows))
        /\ IsFiniteSet(g.coins)
        /\ \A k \in DOMAIN g.rows :
              IsRow(g.rows[k]) /\ g.rows[k].updated <= g.height /\ g.rows[k].rules.deflate \in Nat
        /\ \A j, k \in DOMAIN g.rows :
              g.rows[j].id = g.rows[k].id /\ g.rows[j].kind = "aggregable" /\ ~g.rows[j].locked => j = k
        /\ \A c \in g.coins : ~c.spent /\ (c.issued => HoldsOne(c))

VARIABLES
    rows,     \* table assets
    coins,    \* outputs: [tx, n, address, value, holds, issued, spent]
    kyc,      \* table kyc: address -> [country, created, revoked], revoked 0 for NULL
    votes,    \* table votes: <<asset, address>> -> total
    watched,  \* the watched addresses the running program knows
    height,
    made,     \* transactions saved
    tx,       \* the transaction being decoded, or NoTx
    stuck,    \* why an exception was left to the chain analyzer, which tries the block again
    last      \* how the last transaction saved is classified

vars == <<rows, coins, kyc, votes, watched, height, made, tx, stuck, last>>

NoTx == [type |-> "none"]

Idle == tx = NoTx /\ stuck = "no"

-----------------------------------------------------------------------------
(* KYC                                                                      *)

\* KYC::valid at height h, of the record getAddressKYC finds.
KycValid(a, h) ==
    /\ a \in DOMAIN kyc
    /\ h >= kyc[a].created
    /\ kyc[a].revoked = 0 \/ h < kyc[a].revoked

CertifiedNow == [a \in {b \in DOMAIN kyc : KycValid(b, height)} |-> kyc[a].country]

\* INSERT OR IGNORE: the first record of an address stays.
WithKyc(a, c) ==
    IF a \in DOMAIN kyc THEN kyc
    ELSE [b \in DOMAIN kyc \cup {a} |->
            IF b = a THEN [country |-> c, created |-> height, revoked |-> 0] ELSE kyc[b]]

WithoutKyc(a) == [b \in DOMAIN kyc |-> IF b = a THEN [kyc[b] EXCEPT !.revoked = height] ELSE kyc[b]]

-----------------------------------------------------------------------------
(* Table assets                                                             *)

RowsWith(id) == {k \in DOMAIN rows : rows[k].id = id}

\* The first output spent, or the address it was sent to, and the flags.
AssetId(i, ins) ==
    [locked |-> i.locked, kind |-> i.kind, decimals |-> i.decimals,
     seed   |-> IF i.locked THEN <<ins[1].tx, ins[1].n>> ELSE ins[1].address]

Updates(asset) == asset.kind = "aggregable" /\ ~asset.locked /\ RowsWith(asset.id) # {}

\* addAsset: the index, and the table after it.
IndexAdded(asset) == IF Updates(asset) THEN CHOOSE k \in RowsWith(asset.id) : TRUE ELSE Len(rows) + 1

AddAsset(asset) ==
    IF Updates(asset)
      THEN [rows EXCEPT ![IndexAdded(asset)].updated = height,
                        ![IndexAdded(asset)].rules = Deserialize(Serialize(asset.rules))]
      ELSE Append(rows, [id |-> asset.id, kind |-> asset.kind, locked |-> asset.locked,
                         rules |-> Deserialize(Serialize(asset.rules)),
                         created |-> height, updated |-> height])

\* Seeded fault: the first row of the id is taken for the only one.
FirstIndex(id, c) == IF RowsWith(id) = {} THEN {} ELSE {Min(RowsWith(id))}

\* getAssetIndex: the only row of the id, or the one the output holds; {} for
\* exceptionFailedSelect.
GetAssetIndex(id, c) ==
    IF Cardinality(RowsWith(id)) = 1 THEN RowsWith(id)
    ELSE {k \in RowsWith(id) : \E j \in DOMAIN c.holds : c.holds[j].index = k}

-----------------------------------------------------------------------------
(* addToDatabase                                                            *)

Outputs(layout) == [k \in DOMAIN layout |->
                      [address |-> layout[k].address, value |-> layout[k].value, holds |-> << >>]]

Found(ins) == \E k \in DOMAIN ins : ins[k].holds # << >>

Spend(ins) == {[c EXCEPT !.spent = @ \/ c \in ToSet(ins)] : c \in coins}

Create(outs, issued) ==
    {[tx |-> made + 1, n |-> k - 1, address |-> outs[k].address, value |-> outs[k].value,
      holds |-> outs[k].holds, issued |-> issued, spent |-> FALSE] :
        k \in {j \in DOMAIN outs : outs[j].address # NoAddress}}

\* A vote for every holding that an output of one of its options holds.
Cast(outs, table, i, a) ==
    LET kept == SelectSeq(outs, LAMBDA o : o.address = a)
    IN IF ValidVoteAddress(table[i].rules, a) THEN FoldLeft(LAMBDA n, o : n + Total(o.holds, i), 0, kept) ELSE 0

Save(type, unintended, ins, outs, table) ==
    /\ rows' = table
    /\ coins' = Spend(ins) \cup Create(outs, type = "issuance")
    /\ votes' = [b \in (DOMAIN table) \X Address |->
                   (IF b \in DOMAIN votes THEN votes[b] ELSE 0) + Cast(outs, table, b[1], b[2])]
    /\ made' = made + 1
    /\ last' = [type |-> type, unintended |-> unintended, found |-> Found(ins)]
    /\ tx' = NoTx
    /\ UNCHANGED <<height, watched, stuck>>

\* The exception goes through phaseSync: the block is never finished.
Stop(why) == stuck' = why /\ tx' = NoTx /\ UNCHANGED <<rows, coins, kyc, votes, height, made, last>>

IsUnintentionalBurn(c) == c.unintended \/ (c.type = "standard" /\ c.found)
IsBurn(c)              == c.type = "burn" \/ IsUnintentionalBurn(c)
IsNonAsset(c)          == ~IsUnintentionalBurn(c) /\ c.type \notin {"issuance", "transfer", "burn"}

-----------------------------------------------------------------------------
(* The constructor: which kind of transaction it is.                         *)

Inputs == {s \in UNION {[1 .. n -> {c \in coins : ~c.spent}] : n \in 1 .. MaxInputs} :
             \A j, k \in DOMAIN s : j # k => s[j] # s[k]}

Standard(ins, layout) == Save("standard", FALSE, ins, Outputs(layout), rows) /\ UNCHANGED kyc

\* A certificate: the last input is the verifier's, the first output's address
\* is the one verified.
VerifyKyc(ins, layout) ==
    /\ ins[Len(ins)].address = Verifier
    /\ layout[1].address # NoAddress
    /\ \E c \in Country : kyc' = WithKyc(layout[1].address, c)
    /\ Save("special", FALSE, ins, Outputs(layout), rows)

\* A revocation pays the verifier and asks who sent its own first output.  The
\* table does not have that output yet: the wallet names its receiver.
RevokeKyc(ins, layout) ==
    /\ layout[1].address = Verifier
    /\ IF KeepsPlain THEN Stop("kyc") /\ UNCHANGED watched
       ELSE kyc' = WithoutKyc(layout[1].address) /\ Save("special", FALSE, ins, Outputs(layout), rows)

Plain ==
    /\ Idle /\ made < MaxTx
    /\ \E ins \in Inputs, layout \in Layouts :
         Standard(ins, layout) \/ VerifyKyc(ins, layout) \/ RevokeKyc(ins, layout)

-----------------------------------------------------------------------------
(* processIssuance                                                          *)

Scaled(i) == IF i.version = 1 THEN i.amount \div 10 ^ i.decimals ELSE i.amount

ValidCount(i) ==
    /\ i.locked \/ i.kind # "aggregable" => Scaled(i) > 0
    /\ Scaled(i) <= MaxIssue

\* handleRulesConflict, against the row the asset has.
RulesOf(asset, stated) ==
    IF Updates(asset) THEN Prevailing(rows[IndexAdded(asset)].rules, stated) ELSE stated

Issuing(i, ins, stated) ==
    LET draft == [id |-> AssetId(i, ins), kind |-> i.kind, locked |-> i.locked]
    IN [id |-> draft.id, kind |-> i.kind, locked |-> i.locked, count |-> Scaled(i),
        index |-> IF Updates(draft) THEN IndexAdded(draft) ELSE 0,
        rules |-> RulesOf(draft, stated)]

\* The new asset as the input its own transfer section draws on.
Supply(asset) ==
    << [address |-> NoAddress, value |-> 0,
        holds |-> << [index |-> asset.index, kind |-> asset.kind, count |-> asset.count] >>] >>

\* Outputs the rules name, and royalties within the outputs, have an address.
Defined(i, layout) ==
    \A k \in DOMAIN i.statements :
        LET s == i.statements[k]
            royal == IF s.code \in {"units", "royalties"} THEN s.start .. s.start + s.length - 1 ELSE {}
        IN \A n \in Named(s) \cup (royal \cap 0 .. Len(layout) - 1) :
             n < Len(layout) /\ layout[n + 1].address # NoAddress

Issue ==
    /\ Idle /\ made < MaxTx
    /\ \E ins \in Inputs, layout \in Layouts, i \in Issuances :
       /\ Defined(i, layout)
       /\ LET decoded == DecodeRules(i.opcode, i.statements, layout, watched)
             asset   == Issuing(i, ins, decoded.rules)
             invalid == i.kind = "invalid" \/ ~ValidCount(i)
         IN \/ /\ invalid \/ decoded.fault = "range"
               /\ Save("standard", Found(ins), ins, Outputs(layout), rows)
               /\ UNCHANGED kyc
            \/ ~invalid /\ decoded.fault = "insert" /\ Stop("feed") /\ UNCHANGED watched
            \/ /\ ~invalid /\ decoded.fault = "none"
               /\ tx' = [type |-> "issuance", legacy |-> FALSE, ins |-> ins, given |-> Supply(asset),
                         asset |-> asset, read |-> 0, move |-> Started(Supply(asset), Outputs(layout))]
               /\ UNCHANGED <<rows, coins, kyc, votes, watched, height, made, stuck, last>>

-----------------------------------------------------------------------------
(* Transfers and burns                                                      *)

\* Before version 3 nothing is taken from a first input without assets.
Legacy(v, ins) == v < 3 /\ ins[1].holds = << >>

Move ==
    /\ Idle /\ made < MaxTx
    /\ \E ins \in Inputs, layout \in Layouts, type \in {"transfer", "burn"}, v \in Versions :
         /\ Found(ins)
         /\ tx' = [type |-> type, legacy |-> Legacy(v, ins), ins |-> ins, given |-> ins, asset |-> << >>,
                   read |-> 0, move |-> Started(ins, Outputs(layout))]
    /\ UNCHANGED <<rows, coins, kyc, votes, watched, height, made, stuck, last>>

ReadInstruction ==
    /\ tx # NoTx /\ ~tx.move.stopped /\ tx.read < MaxInstructions
    /\ \E i \in Instructions :
         tx' = [tx EXCEPT !.read = @ + 1,
                          !.move = IF tx.legacy THEN [@ EXCEPT !.stopped = TRUE]
                                                 ELSE Instruct(@, i, tx.type, tx.given)]
    /\ UNCHANGED <<rows, coins, kyc, votes, watched, height, made, stuck, last>>

\* Seeded fault: a holding that passes hides one that did not.
LastFault(outs) ==
    LET held == FlattenSeq([k \in DOMAIN tx.ins |-> tx.ins[k].holds])
    IN FoldLeft(LAMBDA fault, h :
                  CheckRulesPass(rows[h.index].rules, tx.ins, outs, h.index, height, height, CertifiedNow, Rates),
                "none", held)

\* The rules of every holding spent, until one throws.
Fault(outs) ==
    LET held == FlattenSeq([k \in DOMAIN tx.ins |-> tx.ins[k].holds])
    IN FoldLeft(LAMBDA fault, h :
                  IF fault # "none" THEN fault
                  ELSE CheckRulesPass(rows[h.index].rules, tx.ins, outs, h.index, height, height, CertifiedNow, Rates),
                "none", held)

\* decodeAssetTX catches what was thrown: a broken rule empties the outputs,
\* anything else leaves them as they were.
Refuse(fault, outs) ==
    Save("standard", fault = "rule", tx.ins, IF fault = "rule" THEN Stripped(outs) ELSE outs, rows)

\* The new asset gets its index; what it replaces is only ever 0.
Indexed(outs, index) ==
    [k \in DOMAIN outs |-> [outs[k] EXCEPT !.holds = [j \in DOMAIN @ |-> [@[j] EXCEPT !.index = index]]]]

\* The search for a holding to join threw.  The outputs keep the new asset, and
\* an output that holds an asset without an index cannot be stored.
Unindexed(outs) ==
    IF \E k \in DOMAIN outs : outs[k].address # NoAddress /\ outs[k].holds # << >>
      THEN Stop("index") /\ UNCHANGED watched
      ELSE Save("standard", Found(tx.ins), tx.ins, outs, rows) /\ UNCHANGED kyc

\* The stream ends: change, the rules, the outputs that are data.
Finish ==
    /\ tx # NoTx
    /\ LET change == GiveChange(tx.move)
           outs   == WithoutData(change.outs, NoAddress)
           burnt  == HoldsOnData(change.outs, NoAddress)
           fault  == Fault(change.outs)
       IN IF tx.type = "issuance"
          THEN IF change.unknown THEN Unindexed(change.outs)
               ELSE /\ Save("issuance", burnt \/ Found(tx.ins), tx.ins,
                            Indexed(outs, IndexAdded(tx.asset)), AddAsset(tx.asset))
                    /\ UNCHANGED kyc
          ELSE /\ IF fault = "none" THEN Save(tx.type, burnt, tx.ins, outs, rows)
                                    ELSE Refuse(fault, change.outs)
               /\ UNCHANGED kyc

\* The stream ends inside an instruction: out_of_range, which decodeAssetTX does
\* not expect of an issuance.
CutShort ==
    /\ tx # NoTx /\ ~tx.move.stopped
    /\ IF tx.type = "issuance" THEN Stop("short") /\ UNCHANGED watched
       ELSE Refuse("range", tx.move.outs) /\ UNCHANGED kyc

NextBlock ==
    /\ Idle /\ height < MaxHeight
    /\ height' = height + 1
    /\ UNCHANGED <<rows, coins, kyc, votes, watched, made, tx, stuck, last>>

Init ==
    /\ \E g \in Genesis : rows = g.rows /\ coins = g.coins /\ made = g.made /\ height = g.height
    /\ kyc = Certified
    /\ votes = [b \in (DOMAIN rows) \X Address |-> 0] /\ watched = Watched
    /\ tx = NoTx /\ stuck = "no"
    /\ last = [type |-> "standard", unintended |-> FALSE, found |-> FALSE]

Next == Plain \/ Issue \/ Move \/ ReadInstruction \/ Finish \/ CutShort \/ NextBlock

Spec == Init /\ [][Next]_vars

-----------------------------------------------------------------------------
(* Properties                                                               *)

Amounts(holds) == \A j \in DOMAIN holds : holds[j].index \in 1 .. Len(rows) /\ holds[j].count \in Nat

\* The type invariant: every holding stored has the index of a row.
TypeOK ==
    /\ \A k \in DOMAIN rows : rows[k].created <= rows[k].updated /\ rows[k].updated <= height
    /\ \A c \in coins : c.address \in Address /\ c.tx \in 0 .. made /\ Amounts(c.holds)
    /\ DOMAIN votes \subseteq (DOMAIN rows) \X Address
    /\ made \in 0 .. MaxTx /\ height \in 1 .. MaxHeight /\ stuck \in {"no", "feed", "index", "kyc", "short"}
    /\ tx # NoTx => tx.type \in {"issuance", "transfer", "burn"} /\ tx.read \in 0 .. MaxInstructions

\* addAsset's "only 1 asset can exist with the same assetId", over every order of
\* issuances: two rows of one id are of assets that never update.
OneRowPerAsset ==
    \A j, k \in DOMAIN rows :
        rows[j].id = rows[k].id /\ rows[j].kind = "aggregable" /\ ~rows[j].locked => j = k

\* lookupAssetIndexes: asked for an asset by its id and an output of its issuance,
\* the table names the asset that output holds, though others share the id.
IssuancesAreFound ==
    \A c \in coins : \A j \in DOMAIN c.holds :
        c.issued => GetAssetIndex(rows[c.holds[j].index].id, c) = {c.holds[j].index}

\* What the tables say of each other, after every transaction.
LedgerInv == TypeOK /\ OneRowPerAsset /\ IssuancesAreFound

\* Rules that cannot be rewritten stay, whatever is issued under their id.
FixedRulesStay ==
    [][\A k \in DOMAIN rows :
          /\ k \in DOMAIN rows'
          /\ rows'[k].id = rows[k].id /\ rows'[k].created = rows[k].created
          /\ ~rows[k].rules.none /\ ~rows[k].rules.rewritable => rows'[k].rules = rows[k].rules]_vars

Held(i) == MapThenSumSet(LAMBDA c : Total(c.holds, i), {c \in coins : ~c.spent})
HeldBy(a, i) == MapThenSumSet(LAMBDA c : Total(c.holds, i), {c \in coins : ~c.spent /\ c.address = a})

Minted(i) == IF tx.type = "issuance" /\ IndexAdded(tx.asset) = i THEN tx.asset.count ELSE 0
Burnt(i)  == IF tx.type = "burn" THEN Total(tx.move.burnt, i) ELSE 0

\* No transaction makes assets out of nothing, and what it loses it reports: but
\* for an unintentional burn the outputs hold what was spent, less what the
\* instructions burn, plus what was issued.  Exempt are the totals that wrap 64
\* bits, and the special kinds, which report no burn.
AssetsBalance ==
    [][made' # made /\ last'.type # "special" /\ ~(tx # NoTx /\ tx.move.wrapped) =>
         \A i \in DOMAIN rows' :
             LET due == IF tx = NoTx \/ last'.type # tx.type THEN Held(i) ELSE Held(i) + Minted(i) - Burnt(i)
             IN Held(i)' <= due /\ (~IsUnintentionalBurn(last') => Held(i)' = due)]_vars

\* The rules of an asset bind every transfer and burn of it: who comes to hold
\* more of it may, the signers signed, and enough of it is gone.
MovesObeyRules ==
    [][made' # made /\ last'.type \in {"transfer", "burn"} =>
         \A i \in {k \in DOMAIN rows : ~rows[k].rules.none} :
             LET r      == rows[i].rules
                 richer == {a \in Address : HeldBy(a, i)' > HeldBy(a, i)}
             IN richer # {} =>
                  /\ \A a \in richer :
                        /\ GeoFenced(r) => KycValid(a, height) /\ CountryAllowed(r, kyc[a].country)
                        /\ ~r.movable => ValidVoteAddress(r, a)
                  /\ ~Expired(r, height, height)
                  /\ SignersPass(r, tx.ins)
                  /\ (~tx.move.wrapped) => Held(i) - Held(i)' >= r.deflate]_vars

=============================================================================

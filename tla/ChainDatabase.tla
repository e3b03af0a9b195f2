--------------------------- MODULE ChainDatabase ---------------------------
(***************************************************************************)
(* The chain data tables of the SQLite database (Database.cpp): what       *)
(* processing a block writes, what a rollback and a prune do to it, one    *)
(* autocommitted SQL statement per step, and what the queries answer.      *)
(*                                                                         *)
(* ChainAnalyzer decides when each of these runs; here a block is opened,  *)
(* processed, pruned and rolled back in every order the analyzer's control *)
(* allows.  The question is whether the tables keep RollbackLedger's       *)
(* promise.                                                                *)
(*                                                                         *)
(* Abstractions                                                            *)
(*   - A table is the set of its rows, without the columns no step of this *)
(*     module tells apart (names, hashes, amounts, txids).                 *)
(*   - Which outputs a transaction spends, creates and votes with is any   *)
(*     choice a valid chain could make; what decodes it is not modelled.   *)
(*   - Row ids are not kept, nor the last statement of                     *)
(*     clearBlocksAboveHeight, which resets the counter of asset ids.      *)
(*   - Heights are small, so the unsigned wraps of pruneMax are left to    *)
(*     ChainAnalyzer.                                                      *)
(***************************************************************************)
EXTENDS Integers, FiniteSetsExt

CONSTANTS
    Out,           \* transaction outputs
    Address,       \* addresses with KYC records
    Feed,          \* <<address, index>> of an exchange rate
    Rate,          \* exchange rates
    Ballot,        \* <<asset, address>> votes are counted for
    MaxCast,       \* most votes one transaction casts on a ballot
    Asset,         \* assets
    CountRange,    \* 2^32: vote counts are unsigned int
    Leniency,      \* EXCHANGE_RATE_LENIENCY
    PruneAge,      \* _pruneAge
    PruneInterval, \* _pruneInterval
    PruneKinds,    \* kinds of history that are pruned
    Reissue,       \* may an asset be issued again
    RevokeAgain,   \* may a revoked address be revoked again
    DeepRewind,    \* may a rewind reach further back than the exchange rates do
    CrashTorn,     \* may the process die inside a prune or a rewind
    MaxHeight,     \* bound: height of the chain
    MaxVotes,      \* bound: votes on a ballot
    MaxCrashes     \* bound: deaths of the process

EXCHANGE == 1
UTXO     == 2
VOTE     == 3

ASSUME DatabaseAssumption ==
    /\ Rate \subseteq Int
    /\ IsFiniteSet(Ballot)
    /\ CountRange \in Nat \ {0}
    /\ MaxCast \in Nat
    /\ Leniency \in Nat /\ PruneAge \in Nat /\ PruneInterval \in Nat \ {0}
    /\ PruneKinds \subseteq EXCHANGE .. VOTE
    /\ Reissue \in BOOLEAN /\ RevokeAgain \in BOOLEAN /\ CrashTorn \in BOOLEAN
    /\ DeepRewind \in BOOLEAN
    /\ MaxHeight \in Nat \ {0} /\ MaxVotes \in Nat /\ MaxCrashes \in Nat

VARIABLES
    db,         \* the tables: a record of sets of rows
    blocks,     \* table "blocks": the heights that have a row
    flags,      \* table "flags": wasPruned...History, per kind
    height,     \* the block that is processed
    pc,         \* "tx", "prune", "unreachable", "keep", "clear", "down"
    stage,      \* kind of history the prune is at
    keptRates,  \* pruneExchange: firstEntry, not yet put back
    keptVotes,  \* pruneVote: keep, not yet put back
    step,       \* clearBlocksAboveHeight: next statement
    ratesFrom,  \* rates below this height were pruned, but for the newest (history)
    crashes

vars == <<db, blocks, flags, height, pc, stage, keptRates, keptVotes, step, ratesFrom, crashes>>
pruneVars == <<flags, stage, keptRates, keptVotes, ratesFrom>>

NULL == 0    \* SQL NULL, in a column that holds heights

UtxoRow == [out : Out, created : Nat, destroyed : Nat]
KycRow  == [address : Address, height : Nat, revoked : Nat]
RateRow == [feed : Feed, height : Nat, value : Rate]
VoteRow == [ballot : Ballot, height : Nat, count : Nat]
AssetRow == [asset : Asset, created : Nat, updated : Nat]

Tables == [utxos : SUBSET UtxoRow, kyc : SUBSET KycRow, exchange : SUBSET RateRow,
           votes : SUBSET VoteRow, assets : SUBSET AssetRow]

-----------------------------------------------------------------------------
(* What the queries answer.                                                *)

Unspent(d) == {u \in d.utxos : u.destroyed = NULL}

VotesOn(d, b) == MapThenSumSet(LAMBDA v : v.count, {v \in d.votes : v.ballot = b})

\* getVoteCounts: the sum, as an unsigned int.
VoteCount(d, b) == VotesOn(d, b) % CountRange

RatesBefore(d, f, h) == {r \in d.exchange : r.feed = f /\ r.height < h}

\* getAcceptedExchangeRate: the least rate from the newest before h down to the
\* first one that is Leniency old; {} stands for "Unknown Exchange Rate".
AcceptedRate(d, f, h) ==
    LET before == RatesBefore(d, f, h)
        live   == {r \in before : \A s \in before :
                      s.height > r.height => s.height > h - Leniency}
    IN  {r.value : r \in {q \in live : \A s \in live : q.value <= s.value}}

\* getCurrentExchangeRate
CurrentRate(d, f) ==
    {r.value : r \in {q \in d.exchange : q.feed = f /\
                         \A s \in d.exchange : s.feed = f => s.height <= q.height}}

\* Everything asked of the chain data while block h is processed.
View(d, h) ==
    [unspent  |-> Unspent(d),
     kyc      |-> d.kyc,
     assets   |-> d.assets,
     accepted |-> [f \in Feed |-> AcceptedRate(d, f, h)],
     current  |-> [f \in Feed |-> CurrentRate(d, f)],
     votes    |-> [b \in Ballot |-> VoteCount(d, b)]]

-----------------------------------------------------------------------------
(* DigiByteTransaction::addToDatabase: one SQL transaction.                *)

\* INSERT OR IGNORE: a known address keeps its record, a revoked one too.
AddKYC(d, a, h) ==
    IF \E k \in d.kyc : k.address = a THEN d
    ELSE [d EXCEPT !.kyc = @ \cup {[address |-> a, height |-> h, revoked |-> NULL]}]

RevokeKYC(d, a, h) ==
    [d EXCEPT !.kyc = {[k EXCEPT !.revoked = IF k.address = a THEN h ELSE @] : k \in @}]

AddExchangeRate(d, f, v, h) ==
    [d EXCEPT !.exchange = @ \cup {[feed |-> f, height |-> h, value |-> v]}]

\* addAsset: the row of an unlocked aggregable asset is overwritten; "updated"
\* stands for heightUpdated, cid, rules and expires.
AddAsset(d, x, h) ==
    IF \E a \in d.assets : a.asset = x
    THEN [d EXCEPT !.assets = {[a EXCEPT !.updated = IF a.asset = x THEN h ELSE @] : a \in @}]
    ELSE [d EXCEPT !.assets = @ \cup {[asset |-> x, created |-> h, updated |-> h]}]

SpendUTXO(d, ins, h) ==
    [d EXCEPT !.utxos = {[u EXCEPT !.destroyed = IF u.out \in ins THEN h ELSE @] : u \in @}]

CreateUTXO(d, outs, h) ==
    [d EXCEPT !.utxos = @ \cup {[out |-> o, created |-> h, destroyed |-> NULL] : o \in outs}]

\* ON CONFLICT (assetIndex, address, height) the counts are added.
AddVote(d, cast, h) ==
    LET same(b) == {v \in d.votes : v.ballot = b /\ v.height = h}
        voted   == {b \in Ballot : cast[b] > 0}
    IN  [d EXCEPT !.votes = {v \in @ : ~(v.height = h /\ v.ballot \in voted)} \cup
            {[ballot |-> b, height |-> h,
              count |-> cast[b] + MapThenSumSet(LAMBDA v : v.count, same(b))] : b \in voted}]

Outs(d) == {u.out : u \in d.utxos}

\* "special" is db after the part that depends on the transaction's type.
AddToDatabase(special) ==
    /\ pc = "tx"
    /\ \E ins \in SUBSET {u.out : u \in Unspent(db)}, outs \in SUBSET (Out \ Outs(db)),
          cast \in [Ballot -> 0 .. MaxCast] :
          /\ \A b \in Ballot : VotesOn(db, b) + cast[b] <= MaxVotes
          /\ db' = AddVote(CreateUTXO(SpendUTXO(special, ins, height), outs, height), cast, height)
    /\ UNCHANGED <<blocks, height, pc, pruneVars, step, crashes>>

Standard == AddToDatabase(db)

KycIssuance == \E a \in Address : AddToDatabase(AddKYC(db, a, height))

KycRevoke ==
    \E a \in Address :
        /\ \A k \in db.kyc : k.address = a /\ k.revoked # NULL => RevokeAgain
        /\ AddToDatabase(RevokeKYC(db, a, height))

\* A second rate of a feed in one block breaks the PRIMARY KEY and throws.
ExchangePublish ==
    \E f \in Feed, v \in Rate :
        /\ \A r \in db.exchange : ~(r.feed = f /\ r.height = height)
        /\ AddToDatabase(AddExchangeRate(db, f, v, height))

\* No DigiAsset is older than block 8432316; the row of block 1 is DigiByte itself.
DigiAssetIssuance ==
    /\ height > 1
    /\ \E x \in Asset :
          /\ \A a \in db.assets : a.asset = x => Reissue
          /\ AddToDatabase(AddAsset(db, x, height))

-----------------------------------------------------------------------------
(* phasePrune                                                              *)

PruneMax == IF height % PruneInterval = 0 THEN height - PruneAge ELSE 0

PruneHeight(k) ==
    IF k = EXCHANGE /\ height - Leniency < PruneMax THEN height - Leniency ELSE PruneMax

StagesLeft == {k \in PruneKinds : stage <= k /\ PruneMax > 0}

BlockDone ==
    /\ pc = "tx"
    /\ pc' = "prune" /\ stage' = EXCHANGE
    /\ UNCHANGED <<db, blocks, flags, height, keptRates, keptVotes, step, ratesFrom, crashes>>

\* Seeded fault: the rates up to pruneHeight - 2 are asked for.
FirstEntriesEarlier(d, p) ==
    {r \in d.exchange : r.height < p - 1 /\
        \A s \in RatesBefore(d, r.feed, p - 1) : s.height <= r.height}

\* getExchangeRatesAtHeight(pruneHeight - 1): the newest rate of each feed.
FirstEntries(d, p) ==
    {r \in d.exchange : r.height < p /\
        \A s \in RatesBefore(d, r.feed, p) : s.height <= r.height}

PruneExchange ==
    /\ pc = "prune" /\ EXCHANGE \in StagesLeft
    /\ stage' = EXCHANGE
    /\ keptRates' = FirstEntries(db, PruneHeight(EXCHANGE))
    /\ db' = [db EXCEPT !.exchange = {r \in @ : r.height >= PruneHeight(EXCHANGE)}]
    /\ ratesFrom' = Max({ratesFrom, PruneHeight(EXCHANGE)})
    /\ pc' = "unreachable"
    /\ UNCHANGED <<blocks, flags, height, keptVotes, step, crashes>>

PruneUTXO ==
    /\ pc = "prune" /\ UTXO \in StagesLeft /\ EXCHANGE \notin StagesLeft
    /\ stage' = UTXO
    /\ db' = [db EXCEPT !.utxos = {u \in @ : u.destroyed = NULL \/ u.destroyed >= PruneHeight(UTXO)}]
    /\ pc' = "unreachable"
    /\ UNCHANGED <<blocks, flags, height, keptRates, keptVotes, step, ratesFrom, crashes>>

\* Seeded fault: the sum is put back at the height pruned to.
SummedVotesAtPrune(d, p) ==
    LET old(b) == {v \in d.votes : v.ballot = b /\ v.height < p}
    IN  {[ballot |-> v.ballot, height |-> p,
          count |-> MapThenSumSet(LAMBDA w : w.count, old(v.ballot)) % CountRange] :
            v \in {w \in d.votes : w.height < p}}

\* One row per ballot: the sum (an unsigned int) at the newest height.
SummedVotes(d, p) ==
    LET old(b) == {v \in d.votes : v.ballot = b /\ v.height < p}
    IN  {[v EXCEPT !.count = MapThenSumSet(LAMBDA w : w.count, old(v.ballot)) % CountRange] :
            v \in {w \in d.votes : w.height < p /\ \A x \in old(w.ballot) : x.height <= w.height}}

PruneVote ==
    /\ pc = "prune" /\ StagesLeft = {VOTE}
    /\ stage' = VOTE
    /\ keptVotes' = SummedVotes(db, PruneHeight(VOTE))
    /\ db' = [db EXCEPT !.votes = {v \in @ : v.height >= PruneHeight(VOTE)}]
    /\ pc' = "unreachable"
    /\ UNCHANGED <<blocks, flags, height, keptRates, step, ratesFrom, crashes>>

RemoveNonReachable ==
    /\ pc = "unreachable"
    /\ blocks' = {b \in blocks : b >= PruneHeight(stage)}
    /\ pc' = "keep"
    /\ UNCHANGED <<db, height, pruneVars, step, crashes>>

PutBackRate ==
    /\ pc = "keep"
    /\ \E r \in keptRates :
          /\ db' = [db EXCEPT !.exchange = @ \cup {r}]
          /\ keptRates' = keptRates \ {r}
    /\ UNCHANGED <<blocks, flags, height, pc, stage, keptVotes, step, ratesFrom, crashes>>

PutBackVote ==
    /\ pc = "keep"
    /\ \E v \in keptVotes :
          /\ db' = [db EXCEPT !.votes = @ \cup {v}]
          /\ keptVotes' = keptVotes \ {v}
    /\ UNCHANGED <<blocks, flags, height, pc, stage, keptRates, step, ratesFrom, crashes>>

SetBeenPruned ==
    /\ pc = "keep"
    /\ keptRates = {} /\ keptVotes = {}
    /\ flags' = [flags EXCEPT ![stage] = PruneHeight(stage)]
    /\ stage' = stage + 1
    /\ pc' = "prune"
    /\ UNCHANGED <<db, blocks, height, keptRates, keptVotes, step, ratesFrom, crashes>>

InsertBlock ==
    /\ pc = "prune" /\ StagesLeft = {}
    /\ height < MaxHeight
    /\ height' = height + 1
    /\ blocks' = blocks \cup {height + 1}
    /\ pc' = "tx"
    /\ UNCHANGED <<db, pruneVars, step, crashes>>

-----------------------------------------------------------------------------
(* clearBlocksAboveHeight                                                  *)

\* Its statements on the data tables.
DeleteAssets(d, h)   == [d EXCEPT !.assets = {a \in @ : ~(a.created > 1 /\ a.created >= h)}]
DeleteExchange(d, h) == [d EXCEPT !.exchange = {r \in @ : r.height < h}]
DeleteKyc(d, h)      == [d EXCEPT !.kyc = {k \in @ : k.height < h}]
ResetRevoked(d, h) ==
    [d EXCEPT !.kyc = {[k EXCEPT !.revoked = IF @ >= h THEN NULL ELSE @] : k \in @}]

\* Seeded fault: "heightCreated>height".
DeleteUtxosAbove(d, h) == [d EXCEPT !.utxos = {u \in @ : u.created <= h}]
DeleteUtxos(d, h)    == [d EXCEPT !.utxos = {u \in @ : u.created < h}]

\* Seeded fault: the UPDATE is missing.
DestroyedStays(d, h) == d
ResetDestroyed(d, h) ==
    [d EXCEPT !.utxos = {[u EXCEPT !.destroyed = IF @ >= h THEN NULL ELSE @] : u \in @}]
DeleteVotes(d, h)    == [d EXCEPT !.votes = {v \in @ : v.height < h}]

\* The i-th of them, and all of them.
Cleared(i, d, h) ==
    CASE i = 1 -> DeleteAssets(d, h)
      [] i = 2 -> DeleteExchange(d, h)
      [] i = 3 -> DeleteKyc(d, h)
      [] i = 4 -> ResetRevoked(d, h)
      [] i = 5 -> DeleteUtxos(d, h)
      [] i = 6 -> ResetDestroyed(d, h)
      [] i = 7 -> DeleteVotes(d, h)

Clear(d, h) ==
    LET assetsGone == DeleteAssets(d, h)
        ratesGone  == DeleteExchange(assetsGone, h)
        kycBack    == ResetRevoked(DeleteKyc(ratesGone, h), h)
        utxosBack  == ResetDestroyed(DeleteUtxos(kycBack, h), h)
    IN  DeleteVotes(utxosBack, h)

\* Blocks whose accepted rates need nothing that was pruned: the newest older
\* rate is there, and it ends the search when it is Leniency old.
RatesComplete(b) == ratesFrom = 0 \/ b - Leniency >= ratesFrom - 1

\* phaseRewind found the block to go back to.
Rewind ==
    /\ \/ pc = "tx"
       \/ pc = "prune" /\ StagesLeft = {}
    /\ \E h \in blocks :
          /\ h < height /\ (RatesComplete(h) \/ DeepRewind)
          /\ height' = h
    /\ pc' = "clear" /\ step' = 1
    /\ UNCHANGED <<db, blocks, pruneVars, crashes>>

ClearStatement ==
    /\ pc = "clear" /\ step <= 7
    /\ db' = Cleared(step, db, height)
    /\ step' = step + 1
    /\ UNCHANGED <<blocks, height, pc, pruneVars, crashes>>

ClearBlocks ==
    /\ pc = "clear" /\ step = 8
    /\ blocks' = {b \in blocks : b <= height}
    /\ pc' = "tx" /\ step' = 1
    /\ UNCHANGED <<db, height, pruneVars, crashes>>

\* Inside a prune, or in a rewind while higher blocks still have their rows.
Torn ==
    \/ pc \in {"unreachable", "keep"}
    \/ pc = "clear" /\ \E b \in blocks : b > height

Crash ==
    /\ crashes < MaxCrashes
    /\ pc # "down" /\ (Torn => CrashTorn)
    /\ pc' = "down"
    /\ keptRates' = {} /\ keptVotes' = {} /\ stage' = EXCHANGE /\ step' = 1
    /\ \E b \in blocks : height' = b /\ \A c \in blocks : c <= b
    /\ crashes' = crashes + 1
    /\ UNCHANGED <<db, blocks, flags, ratesFrom>>

\* startupFunction clears the newest block that has a row.
Startup ==
    /\ pc = "down"
    /\ pc' = "clear"
    /\ UNCHANGED <<db, blocks, height, pruneVars, step, crashes>>

-----------------------------------------------------------------------------
Init ==
    /\ db = [utxos |-> {}, kyc |-> {}, exchange |-> {}, votes |-> {}, assets |-> {}]
    /\ blocks = {1} /\ height = 1
    /\ flags = [k \in EXCHANGE .. VOTE |-> -1]
    /\ pc = "tx" /\ stage = EXCHANGE /\ step = 1
    /\ keptRates = {} /\ keptVotes = {}
    /\ ratesFrom = 0 /\ crashes = 0

ProcessTx == Standard \/ KycIssuance \/ KycRevoke \/ ExchangePublish \/ DigiAssetIssuance

Prune == PruneExchange \/ PruneUTXO \/ PruneVote \/ RemoveNonReachable
         \/ PutBackRate \/ PutBackVote \/ SetBeenPruned

Next == ProcessTx \/ BlockDone \/ Prune \/ InsertBlock
        \/ Rewind \/ ClearStatement \/ ClearBlocks \/ Crash \/ Startup

Spec == Init /\ [][Next]_vars

-----------------------------------------------------------------------------
(* Properties                                                              *)

\* The type invariant: no row is of a height above the block that is open.
TypeOK ==
    /\ db \in Tables
    /\ \A u \in db.utxos : u.created \in 1 .. MaxHeight /\ u.destroyed \in {NULL} \cup u.created .. MaxHeight
    /\ \A k \in db.kyc : k.height \in 1 .. MaxHeight /\ k.revoked \in {NULL} \cup k.height .. MaxHeight
    /\ blocks \subseteq 1 .. MaxHeight
    /\ height \in blocks
    /\ flags \in [EXCHANGE .. VOTE -> Int]
    /\ pc \in {"tx", "prune", "unreachable", "keep", "clear", "down"}
    /\ stage \in EXCHANGE .. VOTE + 1 /\ step \in 1 .. 8
    /\ keptRates \subseteq RateRow /\ keptVotes \subseteq VoteRow
    /\ ratesFrom \in Nat /\ crashes \in 0 .. MaxCrashes

\* The tables, with what the prune under way is about to put back.
Whole == [db EXCEPT !.exchange = @ \cup keptRates, !.votes = @ \cup keptVotes]

\* A clear counts as done when it starts: until its end nobody asks for more.
Now ==
    IF pc \in {"clear", "down"} THEN View(Clear(Whole, height), height)
                               ELSE View(Whole, height)

\* Rows of blocks that no rewind or prune under way is about to delete.
Recorded ==
    {b \in blocks : /\ b <= height
                    /\ pc = "unreachable" => b >= PruneHeight(stage)}

Past(S) == [b \in S |-> View(Clear(Whole, b), b)]

Ledger == INSTANCE RollbackLedger
    WITH now <- Now, past <- Past({b \in Recorded : RatesComplete(b)}),
         processing <- pc = "tx"

\* Rolling back to a block gives every answer it had when the block was
\* opened, and neither pruning nor a death of the process changes an answer.
Refines == Ledger!Spec

\* What processing writes at a height, the clear of that height (and of every
\* lower one) takes away again, row by row.
ProcessedIsErased ==
    [][ProcessTx => \A h \in 1 .. height : Clear(db', h) = Clear(db, h)]_vars

=============================================================================

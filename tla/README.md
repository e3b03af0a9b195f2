# DigiAsset Core: a TLA+ verification project

DigiAsset Core follows the DigiByte block chain through a DigiByte Core node,
keeps a SQLite database of what the chain says about assets, KYC records,
exchange rates, votes and domains, fetches the metadata from IPFS, and answers
questions about all of it over JSON-RPC. This directory holds TLA+ models of the
parts that are hard to get right, the TLC configurations that check them on small
instances, and proofs, checked by TLAPS, of what matters most for every instance.

Paths below are relative to the repository (`src/ChainAnalyzer.cpp` and so on).

## 1. The system

| Part | State it keeps | Operations | Talks to |
|------|----------------|------------|----------|
| Chain analyzer (`ChainAnalyzer`) | `_height`, `_nextHash`, `_state`; prune settings | start, rewind, sync, prune, restart, stop | Core (RPC), Database, IPFS/PSP through the transactions |
| `Threaded` | `_running`, `_stopRequest`, futures | `start`, `stop`, the loop around `mainFunction` | its subclasses ChainAnalyzer, IPFS, PSPs |
| `Database`, chain tables | utxos, assets, exchange, kyc, votes, blocks, flags, domains, encryptedkeys, unknown | inserts, `clearBlocksAboveHeight`, prunes, queries | SQLite; called by every thread |
| `Database`, job table | ipfs rows (lock, pause, maxTime), callbacks and pauses in memory | add, get next, pause, remove | IPFS threads, analyzer thread, RPC threads |
| `DigiByteCore` | connection | the RPC calls used | the node |
| `DigiByteTransaction`, `DigiAsset`, `DigiAssetRules`, `KYC`, `DigiByteDomain` | one transaction being decoded | decode, move assets, check rules, `addToDatabase` | Database |
| `IPFS` | none of its own | take a job, pin / unpin / download, call back | job table, IPFS node |
| RPC server, cache, methods | thread pool; responses by key; async queue | accept, `executeCall`, invalidate | Database, Core, analyzer |
| Permanent storage pools | pspFiles, pspAssets | decide and pin, report to a server | IPFS, HTTP |
| Codecs (`BitIO`, `Base58`, `OldStream`, `Blob`, `crypto`) | none | pure | |
| `Config`, `Log`, `CurlHandler`, `AppMain`, `main`, cli, web | singletons set once | start up | |

How they interact. The analyzer's thread asks Core for a block, decodes each of its
transactions (which reads the Database: the assets of the inputs, KYC, exchange
rates, votes) and writes what they do; it rolls the tables back when Core's chain
turns out to have changed. RPC threads read the same tables at any time, `syncstate`
reads `_state`, `shutdown` calls `stop()`. The analyzer tells the RPC cache about new
blocks, issuances and changed addresses. Metadata downloads go through the job table
to the IPFS threads, whose callbacks write to the Database.

What is hard in it:

- *Core moves.* Each answer is about the main chain of that moment; between two
  answers the chain may have been extended or reorganised.
- *Everything throws.* Any call to Core may throw, `mainFunction` runs in a
  `std::async` whose future is dropped, so the exception is lost and `mainFunction`
  runs again from wherever the members were left.
- *Statements autocommit.* Only `addToDatabase` is one SQL transaction. A rollback is
  eight statements and a prune is two or more; the process may die between any two.
- *Rolling back and pruning pull in opposite directions*: a rollback needs what a
  prune deletes, so the rows of table `blocks` must say exactly how far back it goes.
- *Several threads* work on the job table, the cache, the async queue, the domains, the
  statistics and the copies of the pools' bad lists.
- *Two kinds of node.* One stores every output, one only those with assets and skips what
  cannot be special; both must come to the same assets, records and answers.

What makes each part correct: for the analyzer, that the tables are the replay of the
chain up to the block it is at; for the tables, that a rollback restores every answer
and a prune changes none; for a transfer, that assets are neither created nor lost;
for the job table, that a job is done at least once, in order within its group; for
the cache, that no response outlives what it was computed from; for the domains, that every
owner goes back to the root master and stays; for a pool, that what is marked as stored is
stored, paid for and pinned; for the statistics, that each block is counted once; for the
codecs, that what was written is read back and nothing else.

`PROJECT.json` lists every part with its status and every hazard with its line.

## 2. Plan

Done, in this order (theorems where named):

1. `ChainAnalyzer` over `BlockTree`: control of the thread, with Core, stops, failures
   and deaths around it. *Proved.*
2. `ChainDatabase` implementing the abstract `RollbackLedger`: the tables' contents
   under processing, pruning, rollback and death. *Proved.*
3. `IpfsQueue`: the job table and its threads. *Proved.*
4. `AssetLedger` over `AssetTransfer` and `AssetRules`: issuances, transfers and burns.
   *Proved.*
5. `RpcServer`: the pool, the cache, the async methods, beside the analyzer. *Proved.*
6. `Domains` and `StoragePools`: what an issuance sets going. *Proved.*
7. `ChainQueries` and `Statistics`: what is answered from the tables, and summed up from them.
8. `BitStream` implementing the abstract `BitSequence`; `Codecs`.
9. `DataTransactions`: two kinds of node beside each other. *Proved.*

Left, in the order of their worth:

1. Theorems. `ChainQueries`: which outputs are listed, and that histories are complete;
   `Statistics`, whose sums the lemmas of `AssetLedgerProofs` on sums would carry.
2. `Threaded::start`, `stop` and the destructor from several threads.
3. The bits of an issuance's rules and of a KYC record (`BitStream` has the stream, `Codecs`
   the fields).
4. The migration steps of `Database::buildTables`.

## 3. The modules

| Module | Models | State | A step is |
|--------|--------|-------|-----------|
| `BlockTree` | the blocks Core may choose from, and what of a block is written | none | |
| `ChainAnalyzer` | `ChainAnalyzer`, and `Threaded` as it uses it | members, locals, tables as sets of written transactions | one RPC call or SQL statement |
| `RollbackLedger` | the promise of the tables | what is answered, and was at each block | a block, a rewind, a prune |
| `ChainDatabase` | the chain tables of `Database` | sets of rows | one autocommitted statement, or one `addToDatabase` |
| `IpfsQueue` | table `ipfs`, `IPFS::mainFunction`, those who add jobs | rows, memory, threads | one statement or access |
| `AssetRules` | `DigiAssetRules`, `DigiAsset::checkRulesPass` | none | |
| `AssetTransfer` | `decodeAssetTransfer` | none (a record stands for its locals) | |
| `AssetLedger` | `DigiByteTransaction` with assets, `processIssuance`, `addAsset`, KYC, votes | tables, the transaction in decoding | one instruction, one transaction saved |
| `DataTransactions` | the constructor of `DigiByteTransaction` on two kinds of node | per node: outputs, KYC, rates, keys, unknown data | one transaction processed, one rewind |
| `Domains` | `DigiByteDomain`, tables `domains`, `domainsMasters` | tables, `_masterDomainAssetId`, callbacks | one statement of a callback |
| `StoragePools` | `PermanentStoragePool*`, `mctrivia` | tables, copies of the bad list, callbacks, jobs | one file, one statement |
| `RpcServer` | `RPC/Server`, `Cache`, `Response`, `UniqueTaskQueue`, `async*` | connections, threads, cache, queue | what is done between two mutexes |
| `ChainQueries` | the SELECTs and replies about assets and addresses | the chain, `utxos`, `assets` | a transaction, a rewind, a prune |
| `Statistics` | `updateStats` and what it calls | the chain, statistics tables, callers | one statement |
| `BitNumbers`, `BitSequence` | numbers as bits; the promise of class `BitIO` | bits, pointer | one call |
| `BitStream` | class `BitIO` | words, length, position | one call |
| `Codecs` | the encodings of `BitIO`, `Base58`, `Blob`, `serialize.h` | a value on its way | encode, cut, decode |

`MC<module>` gives a module's constants their values. Three of them put modules that
share no state side by side (`MCTables`, `MCServices`, `MCBits`): a variable `part` says
which one a behaviour is of, and the others keep their initial state.

### BlockTree
The blocks Core may ever choose its main chain from, as atoms with a height and an
ancestry, and what of a block the analyzer writes (`ToProcess`: the transactions of a
block are skipped below the first DigiAsset when plain outputs are not stored).
`Ledger(b)` is every row of the chain ending in `b`, `Below(b)` without those of `b`.

### ChainAnalyzer
One action per step between two observable points: each RPC call and each
autocommitted statement is a step of its own. `pc` is the place in the code,
`height`, `nextHash`, `state` are the members `_height`, `_nextHash`, `_state`;
`hash`, `next`, `confs`, `txDone`, `stage` are locals of `phaseSync` and `phasePrune`;
`blocks` is the table; `applied` stands for the data tables as the set of rows
`<<block, i>>` ("transaction i of that block was written"), `twice` for rows that were
inserted though they were there, and `lost` for the height below which pruning
destroyed the history. The environment may change Core's tip (`NewTip`), call `stop()`
(`RequestStop`) and end the process (`Crash`). Calls that fail are `...Throws` actions;
`LeaveMain` is what happens then: `mainFunction` starts over, or the thread ends if a
stop was requested.

`sound` is a history variable: no step reads it. It turns FALSE where one of these known
holes of the code was hit, and the safety properties say what holds until then:

- at a start when Core's block of the stored height is not the database's
  (`AskStartHash`; run `startup` shows it happen);
- when `phaseRewind` keeps a height that already has rows (`Keep`), or
  goes on while some row of `blocks` cannot be rolled back to;
- when the process ends while rows of `blocks` cannot be rolled back to (`Crash`,
  `Shutdown`): in the middle of a prune or of a rewind.

`RestartOnlyPastPrune` is claimed without failed calls, and where Core's tip never goes to a
lower height. `_height--` comes before the call that may throw, so after a failure the
rewind may step over a height that has a row and give up although nothing was pruned. And
Core answers with an error when it is asked for a height its chain does not reach. Let the
tip, at height 4, move to a branch that is only 2 high while the analyzer is at height 3: the
call throws, the tip moves back, the new `phaseRewind` keeps height 3 and goes on without
having inserted its row, and the rewind of a later reorganisation gives up at that gap. The
attempt to prove the property without that hypothesis showed it.

### RollbackLedger and ChainDatabase
`RollbackLedger` is the abstract promise: `now` is what the database answers, `past[h]`
is what it answered when block `h` was opened; rolling back to `h` makes `now` equal to
`past[h]`; pruning only takes heights off the record; and while no height comes or goes, only
the processing of the open block (`processing`) changes an answer.

`ChainDatabase` is the tables: `db` is a record of sets of rows, one operator per SQL
statement (`AddVote`, `SpendUTXO`, `DeleteUtxos`, ...), one action per autocommitted
statement, and one for a whole transaction's `addToDatabase`. The refinement mapping
(`Refines`) takes `now` to be all answers (unspent outputs, KYC records, accepted and
current exchange rates, vote counts, assets) and `past[b]` the answers after a clear
back to `b`, for every `b` that has its row in `blocks`. That the mapping is a
refinement says both things at once: every step that processes, prunes, puts rows back
or rolls back leaves the answers at every recorded block alone, and a rollback brings
them back exactly.

Four constants switch on one known hole each, FALSE in the passing runs; with any of them
TRUE, TLC finds `Refines` violated:

- `Reissue`: an asset issued again keeps, after a rollback, what that issuance wrote;
- `RevokeAgain`: a second revocation overwrites the height of the first, and rolling it
  back undoes both;
- `DeepRewind`: a rollback to a block less than `EXCHANGE_RATE_LENIENCY` above the
  pruned height asks for exchange rates that are gone;
- `CrashTorn`: a death between the statements of `pruneVote` loses votes, one inside a
  prune or a rewind leaves the tables between two states.

### IpfsQueue
The table "ipfs" (`rows`) with what is kept in memory beside it (`ram`: the pauses of
groups, `registered`: the callbacks of promises), the threads that run `IPFS::mainFunction`
(`pc`, `job`, `patience`, `callable` are its locals) and the threads that add jobs (`cpc`,
`request`). Each SQL statement is a step, and so is each access to what is in memory; the
two mutexes are guards (`MutexFree`, and the one of `Delete`). Times are what is left of
them and count down with `Tick`. A restart of the program forgets memory and runs the
statements of `Database::initializeClassValues`. `asked`, `called`, `cut`, `disturbed` and
`stranded` are history: no step reads them to decide what the code does.

A job may be added at any moment. When it joins a group of which a job is in work or
locked, or paused for longer than the new one, nothing in the table tells it from the rest
(`addIPFSJob` inserts the row unlocked) and the code may take it at once, out of order and
beside the one in work. `Insert` then writes the group down in `disturbed`; it leaves that
set at the first `Select` that finds the group at rest. One at a time and in order are
claimed of every group while it is not disturbed; `NoJobLost` of every job. `stranded` are
the jobs that `addIPFSJob` inserts with a pause that ended after it was read.

### AssetRules, AssetTransfer, AssetLedger
`AssetTransfer` is `decodeAssetTransfer` as operators on a record of its locals: `Instruct`
is one turn of its loop (skip, range, percent, burn, the index of the input, the undoing of
everything when an instruction is bad), `GiveChange` what goes to the last output. Amounts
wrap at `AmountWidth`, which stands for 2^64. `AssetRules` is a rule set from its
statements in an issuance (`DecodeRules`) through what the table keeps to
`CheckRulesPass`, whose tests are in the code's order because the first that fails decides
what is thrown. `AssetLedger` decodes a transaction instruction by instruction (`Issue`,
`Move`, `ReadInstruction`), so that any sequence of them is a behaviour, and saves it in
one step (`Finish`: change, rules, indexes, the row, the outputs, votes); what throws ends in
`Refuse` or, where `addToDatabase` itself throws, in `Stop`, after which the analyzer is
stuck on that block. `Genesis` gives the tables earlier issuances left.

### DataTransactions
Two nodes follow one chain, each at its own pace: "full" stores every output, "assets"
those with assets, and skips (`Skips`) what by its outputs cannot be special. `TxType` is
the constructor's order of tries, `SendingAddress` the three places where a sender is
looked up. `Process` writes what `addToDatabase` does; `ClearAboveFork` is
`clearBlocksAboveHeight` for these tables, which leaves `encryptedkeys` and `unknown`
alone. A block whose sender cannot be found is never finished: no step processes it. What
transactions a chain may hold is `Broadcast`: an output is spent once and after it was made,
and a transaction whose assets are accepted (`sound`) has an output that is not data for them
to go to.

### Domains and StoragePools
Both hang on the IPFS queue, which they take from `IpfsQueue` as a sequence whose jobs are
removed before their callback runs. In `Domains` each thread's callback compares
(`Compare`), writes the new and the revoked domains row by row (`AddDomain`,
`RevokeDomain`), and replaces the master in two statements (`Retire`, `Appoint`); a process
may end anywhere, and a start loads the masters again. In `StoragePools` a callback admits
file by file what was paid for, pins, and marks the asset; the bad list grows at the
server, and is fetched by the analyzer and by `keepAliveTask`; what it lists leaves the
tables. A start pins again what the tables say. `ram` is what a process knows of the masters:
their ids, and the last of them. `minted` is a history of what was issued, because an asset
may be issued again with other metadata while its row, its mark in `pspAssets` and the jobs of
the old ones are still there. Callbacks that fail and ends of the process share one bound.

### RpcServer
`Connect`, the threads of the pool (`Take`, `Calling`, `Reply`), the thread of `asyncstart`,
and the analyzer as far as it changes data and announces it. A call is looked up, made and
stored in three steps with nothing locked between them. The cache is a function from requests
to a response and the time it was put there. A response is the version of the
data it was read from; `missed` is a history: an announcement came while the response was
computed and not yet in the cache, or the data changed without one.

### ChainQueries
`ledger` is what the chain says (and what Core's wallet answers); `utxos` and `assets` are
what processing, rewinds and prunes made of the tables on a node of either kind. The
queries are operators, one per SELECT or reply: `AddressUTXOs` merges table and wallet,
`AssetHolders` and `AssetData` merge holders in two different ways, `AddressData` replays an
address's history.

### Statistics
`chain` with the blocks' times (which may go back, within DigiByte's median rule), the
tables `updateStats` reads and writes, and its callers. Each statement is a step; blocks,
rewinds, prunes and ends of the process come between them. `MayTear` says whether the
process may end while a window is written: then the code sums it up twice or cannot create
its table again, so the properties are claimed for FALSE.

### BitSequence, BitStream, Codecs
`BitSequence` is what the comments over class `BitIO` promise; `BitStream` is its words,
masks and shifts, with a word of `W` bits, and `ImplementsBits` the refinement. What the
code leaves undefined (how far a failed copy got) is a choice in the promise. `Codecs` has an
encoder and a decoder for each encoding, with alphabets, sizes and boundaries of the code;
the wire may lose its tail. `Lead` has the comparisons of `makeUTF8String`, which take the
last lead byte of two and of three byte characters (0xdf, 0xef) for one of the next class:
such a character swallows the byte after it. `ReadsBack` says so (`Mistaken`): a text comes
back if and only if it has none of these characters.

## 4. The runs

Run names are those in `PROJECT.json`.

| Run | Question | Expected |
|-----|----------|----------|
| `replay` | Are the tables always the replay of the chain, each transaction once, through reorganisations, prunes, one failed call, one stop, one death? Does a rewind reach a block it can roll back to, and give up only past the pruned history? Does each of the last `_pruneAge` blocks keep its row? | pass |
| `catchup` | Does the analyzer arrive at Core's tip and stay? (liveness) | pass |
| `startup` | Does a start go on from the block that was left off at? | violation |
| `db_coins` | Outputs and KYC records: do the tables implement the ledger, is what processing wrote erased exactly? And do the statistics summed up from such tables say what the chain says? | pass |
| `db_history` | Exchange rates, votes and assets, with pruning: do the tables implement the ledger? | pass |
| `ipfs_pool` | Two threads, a group and jobs without one, added at any moment, a timeout, an error, a restart: is no job lost, a group that no job joined in work done one at a time and in order, and every group in the end? | pass |
| `ledger` | Do the amounts of every asset balance, do its rules bind every move, do ids keep their rows, indexes and fixed rules? | pass |
| `rpc` | Is nothing forbidden made, is what stays cached current, does a call pay once, is all work finished? | pass |
| `rpc_send` | Is every payment that is asked for made? | violation |
| `services` | Do domains go back to the root and keep their owners; is what a pool says it stores stored, paid for, pinned, and not known to be bad? | pass |
| `answers` | Are holders, counts, histories, outputs and balances what the chain says, after rewinds and prunes, on either kind of node? | pass |
| `bits` | Do the words implement the bits; is what is encoded read back or refused; do the two kinds of node record the same data once? | pass |

The type invariants are conjuncts of the named invariants `LedgerInv`, `CallsInv`,
`MastersInv`, `PoolInv`, `UtxosInv`, `TablesInv` and `EncodingInv`; those of
`ChainAnalyzer` and `IpfsQueue` are proved (section 5).

Every passing run's property has a mutant in `PROJECT.json`: a change of one definition,
the way a bug in that code would change it (the operators marked "Seeded fault"), under
which TLC finds the property violated.

Bounds and why they suffice. In `ChainAnalyzer` up to four changes of Core's tip over the
eight blocks (a fork two deep, a fork one deep, chains of different height, two
transactions in some blocks so that one can be half processed) give every order of
extend, reorganise one deep, reorganise two deep, and go back, at each place of the
thread. One failure and one death at any place are all the code can tell apart: it has no
memory of earlier ones but the state they leave, which the bounded exploration passes
through. `HalfRange` 8 stands for 2^31, so that unsigned wraps happen with heights of 3
and 4. A prune interval of 1 makes every block prune; the code multiplies the real ones by
hundreds only. In `ChainDatabase` chains are four high with two outputs and one address, or
two rates, a ballot and an asset: enough for created/spent/pruned/rolled back in every order.

In `IpfsQueue` two threads and one caller are enough for every race of the code, all of
which are between two (two who look, one who looks and one who removes, one who adds and
one who works); three jobs make a group of two beside a job without a group, or a group
of three. Each of them may join the group at any place of the thread at work on it, and the
group may come to rest and begin anew.

In `ledger` two transactions of two instructions over outputs that earlier issuances filled
reach every pair of instructions (the second one meets what the first one left of an input:
nothing, part of it, another asset of it), on assets of the three kinds and with each rule.
`AmountWidth` is 2048 and an instruction's 1025 times 2 wraps it. In `rpc` two connections
on two threads beside the async thread, one changed transaction and one block are what a
stale answer, a race for the queue and an eviction need; more calls repeat them. In
`services` three issuances over two master assets and two domains, two threads and one end
of the process; for the pools three issuances, of which two share a file, two are of one
asset, and one is listed as bad, and one failure or end of the process at any place. In
`answers` four transactions over three heights with one rewind or prune: an output made,
spent, and taken back at any of them. In `db_coins` the statistics run over six blocks with
a window of two units of time, a margin of three and one rewind, prune or death, with two
callers. In `bits` a word has 3 bits and streams two words and a bit: every width meets
every position in a word, its end and the next one; numbers are taken at each change of size
of the encodings, texts from characters that are the first, one in the midst and the last of
each length, with those the code mistakes, alone and in pairs; data transactions have one
input that the shortcut calls large (`SpecialInputs` 1 for 5).

`ProtectedDepth` is stated for a chain at least `_pruneAge` high, or a `Leniency` not below
`_pruneAge`. With neither, as configured by default (240 and 5760) on a young chain,
`height - _pruneAge` wraps, the exchange rates' prune takes `height - Leniency` for its
height, and rows inside the protected depth go: `PruneTarget` has the code's arithmetic and
shows it.

Deadlock is checked in the runs of `ChainAnalyzer`, `ChainDatabase` and `IpfsQueue`, which
never stop. The others end when their bounded inputs are used up.

Fairness. `FairSpec` adds `WF_vars(Thread)`: the operating system schedules a runnable
thread, Core answers a call or makes it throw, and the program is started again after it
ended. Nothing is assumed of Core, of stops and of deaths. Retries are not assumed to
succeed: calls fail at most `MaxFaults` times, which is the assumption that Core comes
back. `FairSpec` of `IpfsQueue` schedules every thread, lets a caller that began to add a
job go on, and lets time pass; that a download ends is the bound on timeouts and errors.
`RpcServer` schedules its threads; a client that connects and stays silent is not modelled,
because no timeout is set on a socket and it would hold its thread for good.

Symmetry is used where values are interchangeable and no liveness is checked: the callers
of the statistics, the threads of the services.

## 5. What is proved

With TLAPS, for every value of the constants that the named assumptions allow
(`ConfigAssumption` and those of `BlockTree`: a hash determines the ancestry, one block per
height on a chain, block 1 is hard coded, 32 bit ranges hold heights; `DomainAssumption`,
`RpcAssumption`, `PoolAssumption`, `DataAssumption`, `LedgerAssumption`,
`TransferAssumption`, `RulesAssumption`: bounds and the amount a rule burns are numbers,
inputs have the form the code reads, a chain is valid; `DatabaseAssumption`: a block has
finitely many ballots; `GenesisAssumption`: the tables a behaviour of `AssetLedger` starts
from are as earlier issuances leave them and hold finitely many outputs, of which empty
tables are one case). TLC agreed with every inductive invariant below on an instance before
it was proved.

- `TypeCorrect`, `Inductive`, and from them `ReplayHolds`, `AppliedOnceHolds`,
  `RollBackRightHolds`, `SyncedIsWholeHolds`, `InsertFreshHolds`,
  `RestartOnlyPastPruneHolds`, `ProtectedDepthHolds` (`ChainAnalyzerProofs`).

The argument. `Replay` alone is not inductive: that the data below a block is right
after a rewind depends on which rows of `blocks` can be rolled back to. `IInv` adds
what the members and locals say of each other at each place of the thread
(`ControlInv`), that no row of `blocks` is above the height the analyzer is at
(`TopInv`), what `_state` says of the place (`StateInv`), and, while `sound`, which
rows of `blocks` can be rolled back to (`RollBackInv`: the data below such a block,
once cleared, is that of its ancestors, and the history it needs is not pruned) with
what the data tables hold at each place (`DataInv`). Lemmas about the block tree carry
the data part: chains agree below a common block, clearing at a block's height turns the
data into `Below` of it, the next block's `Below` is this block's `Ledger`. The step
case has one lemma per action. For `RestartOnlyPastPrune` it takes besides that no height from
`lost` up to the highest row is without a row (`AllKept`; `NoneKept` is where a restart took
them all away, after which there are never rows again): a rewind then meets a
row at each height until it is past what was pruned. `ProtectedDepth` is arithmetic of
`PruneTarget` with its wraps.

- `RowsKept` and `ErasedHolds` (`ChainDatabaseProofs`): as long as no revoked address is
  revoked again and no asset is issued again, an output has one row, a spend or revocation
  is never dated before its creation, and so what processing writes at a height is erased
  exactly by the clear of that height and of every lower one, for every content the tables
  can reach. The two premises are the holes `RevokeAgain` and `Reissue` switch on. From them
  `RefinesHolds`: without the four holes `ChainDatabase` implements `RollbackLedger`, for
  any tree of blocks, ballots, addresses and parameters. The inductive invariant
  (`RollbackInv`) says that the rows, with those a prune is about to put back, are well
  formed (`RowsInv`, `RowTypes`), that none is of a height above the open block but while a
  rewind is about to delete it (`RowsUnder`, `NothingKept`, `TopOpen`), and that the rates a
  rewind may go back to are there (`RatesThere`). What an answer is made of is compared
  rather than computed: the step case shows for each table that the rows an answer reads
  are, after the clear, the same rows, so folds and minima over them are of equal sets; only
  the sum of votes needs what a fold over a finite set computes (`SumSteps`, `SumAdd`),
  because a prune joins the votes of an address into one row. From the same invariant, and
  without the holes too, `TypeCorrect`: no row is spent or revoked before it was made, which
  needs that no row is of a height above the open block (`RowsUnder`).

- `Inductive`, and from it `NoJobLostHolds`, `OneAtATimeHolds` and
  `FirstComeFirstServedHolds` (`IpfsQueueProofs`), for any number of threads, callers, groups,
  jobs, timeouts, errors and restarts, jobs being added at any moment. `NoJobLost` needs that
  rows and a thread's locals say of a job what was asked for (`Faithful`). The order of a
  group needs that only one thread looks at a time (`OneLooks`) and, of every group that is not
  disturbed, that its rows are locked together, that they are locked while one of its jobs is
  in work, and that they are paused from the last one backwards: an earlier row has no pause
  that ends later (`GroupWhole`). Not that they are paused alike: a job may join a paused group
  and takes what is left of the pause, or another one read before. Then the first free row
  of the table is the first row of its group. A group at rest has all this by itself, which is
  why it stops being disturbed there. One lemma per UPDATE says what it leaves of the rows,
  and everything else rests on these.

- `CallsHold` and `CacheHolds` (`RpcServerProofs`), for any number of connections, threads,
  methods and settings. `IInv` says where each call is (`PlaceInv`: an accepted connection is
  with one thread or waits, a queued call is in the set and in the queue, once), that what is
  being made was allowed (`AllowInv`), that a payment has one asker (`PaidInv`), and of each
  response, wherever it is on its way to the cache or from it, that it is current or one of
  the known reasons holds (`CurrentInv`). The last needs the response's way as a whole: an
  invalidation takes what is in the cache, `missed` marks what is not there yet.

- `MastersHold`, `DecisionsHold`, `ListHolds` (`DomainsProofs`), for any metadata, threads and
  ends of the process. `TrustInv` is inductive for any number of threads: each row, and each
  entry a callback has still to write, goes back to a master that was master when it was
  read. What is claimed for one thread needs more: between two statements of a callback the
  table and the memory are what the list up to there says (`MasterInv`, `RowInv`), and at its
  end what the whole list says (`FollowInv`, against the reference fold `followed`, one step
  of which is one callback).

- `PoolHolds`, `PinnedHolds`, `BadHolds` (`StoragePoolsProofs`), for any files, issuances and
  threads. `IInv` follows a file from the issuance over the queue and the callback to the
  table: what a callback holds was issued (`HeldInv`), its rows are what was paid so far
  (`RowsInv`, `CallbackInv`), an asset is marked only when complete (`MarkedIsComplete`), a
  job of a stored file is still in the queue or done (`JobInv`, `PinInv`), and what became
  bad is out or was on its way (`UpdateInv`, `LateInv`).

- `NodesHold`, `AuthorsHold`, `RecordsHold` (`DataTransactionsProofs`), for every chain, every
  number of forks and either kind of node. The key is that what a node makes of a transaction
  can be told from the chain alone: its kind (`Kind`), and which outputs hold assets. `NodeOK`
  says that each table holds exactly the rows of those kinds among what the node has
  processed, or was processed before a fork for the two tables no rewind clears. Ids are
  fresh, so the transactions two nodes have both processed are one prefix of the chain.

- `LedgerInvHolds`, `FixedRulesStayHolds`, `StoredRulesDemandTheSame` (`AssetLedgerProofs`), for
  any outputs, issuances, instructions and rules. A row holds rules as they come back from the
  table, and rules that came back come back the same (`KeptTwice`), so writing a row again
  changes nothing; and the rules an issuance in decoding carries have heeded the row it will
  update (`RowHeeded`), because no other issuance is saved between. That a holding has the
  index of a row is followed through the whole transfer: what is left of the inputs and what
  the outputs hold are of assets that have a row, or have index 0 while the asset being issued
  has none (`Moves`, `Indexes`), and only the end of the issuance gives that its index. `Take`,
  `GiveChange` and `FlattenSeq` are recursive, so each has a lemma that the function it names
  exists and one that its values stay in a set (`RecursionExists`, `FoldExists`, `FoldStays`).

- `AssetsBalanceHolds` (`AssetLedgerProofs`), for any outputs, issuances, instructions and
  rules. The inductive invariant (`BInv`) adds to the above that there are finitely many
  outputs and, of the transaction in decoding (`BalanceOK`), that its inputs are spendable
  outputs, each once, and that what is left of them, what the outputs hold and what is burnt
  is together what was given, of every asset, unless a 64 bit total wrapped. `InstructBalances`
  and `ChangeMoves` carry it through an instruction and the change, `SaveMoves` through the
  one statement that spends the inputs and creates the outputs. Sums are what folds compute:
  a fold over a sequence or a finite set adds one element at a time (`MapThenSumSet` of a set
  with one element more or less), and whatever is to be shown of a sum is shown of the
  smallest part at which it could fail.

- `MovesObeyRulesHolds` (`AssetLedgerProofs`), for any issuances, rules, instructions and
  certificates. The code checks the rules of what the inputs hold, before it has written
  anything; the property is about what the tables hold after. `DInv` adds to `BInv` that the
  rules in the table, and those an issuance in decoding carries, say a natural amount to burn
  (`DeflateOK`): decoding, `Prevailing` and the table each keep that (`DecodedDeflates`,
  `StoredDeflates`). Whoever holds more after the transaction is one of those `checkRulesPass`
  looked at, because what they spent and what they got is the difference (`RicherReceives`, by
  `SaveMoves`); the asset is one it looked at, because every holding of an input is in the
  sequence it goes through (`FlattenHas`) and the first fault is not forgotten (`FaultFree`); so
  what the rules ask did pass (`CheckedPasses`). That enough is gone is the balance of `BInv`
  (`EnoughIsGone`).

Two things recur in the proofs. What the code builds step by step and a property says of the
whole is proved by a minimal counterexample and not by induction (the least index at which it
fails, `WFMin` and `NatLessThanWellFounded`): the library's induction theorems take an
operator and are out of reach. And history variables (`lost`, `minted`, `missed`, `followed`)
carry what a table has forgotten; no step of the code reads them.

Only model-checked: liveness (`CatchesUp`, `GroupDone`, `WorkIsFinished`; liveness under
fairness and ENABLED are beyond this prover); that `BitStream` implements
`BitSequence` (shifts and masks of a fixed width, TLC has them all); `TablesInv`, but for the
`TypeOK` of `ChainDatabase` in it, and the properties of `ChainQueries`, `Statistics` and
`Codecs`. Those of `Statistics` hold only while the rewinds after a window was taken stay
together within its margin, which `MaxFaults` and `MaxDepth` see to in the runs; for every value of
the constants they are not true. No module with a theorem uses RECURSIVE operators.

## 6. Where the code and its own words differ

Two have a run that shows them, and a finding in `PROJECT.json`:

- A start takes Core's hash for the stored height; a reorganisation while down is not
  seen, though the comment says "find block we left off at" (`startup`).
- `send`, `sendmany` and `sendtoaddress` mark their response "do not cache", yet the same
  call is answered from the cache until the next block and pays nothing (`rpc_send`).

Others are in the models as the code has them, and the properties say what holds beside them:

- *Analyzer and tables.* A block that failed half way is taken up again on top of its half
  (`ChainAnalyzer.cpp:249`). `Database::reset` names the table `domainsMaster`, which does not
  exist (`Database.cpp:767`), so `restart()` throws half way. `stop()` is not heard while the
  analyzer waits at the tip (`ChainAnalyzer.cpp:372`). An asset issued again is not rolled
  back to what it was (`Database.cpp:815`). `pruneMax` wraps (`ChainAnalyzer.cpp:176`); a stale
  block's state is -(-1). An exception in `addToDatabase` leaves its SQL transaction open.
- *IPFS.* A job is removed and its group unlocked before its callback runs (`IPFS.cpp:151`),
  while `DigiByteDomain.cpp:33` counts on callbacks in order. Jobs of a group "must be done in
  sequential order" (`Database.cpp:2326`), but one that joins a group in work is inserted
  unlocked and may be taken at once (`disturbed`). The pause of a job without a
  group ends only with another pause or a restart (`Database.cpp:2267`), and so does one that
  `addIPFSJob` reads from memory and that is over there before the row is inserted with it
  (`Database.cpp:2340`): of such a job (`stranded`) `GroupDone` claims nothing.
- *Assets.* `(output + 1) * amount` wraps 64 bits and then more goes out than came in
  (`AssetsBalance` exempts it). A minimum royalty wraps. The change of an issuance of a
  shared id, whose index cannot be told from its output, throws in `addToDatabase` for
  ever. `addWatchAddress` takes an inserted row for a failure. A locked asset's rules may be
  stated as rewritable.
- *Data transactions.* A KYC revocation asks who sent its own output 0 and so can revoke
  nobody but the verifier; where that output's sender is unknown the block is never
  finished. The shortcut of a node without plain outputs drops KYC and unknown data of
  transactions with more than five inputs. A second verification of an address is ignored.
  Encrypted keys and unknown data of a branch that was left stay. An asset transfer whose
  first output holds 650 satoshis with data at output 1 is taken for an encrypted key.
- *Domains and pools.* A death between the two statements of `setMasterDomainAssetId` leaves
  the domains compromised for good. With two IPFS threads a callback in work can undo
  what another one found. The tables are not rolled back. A bad file is reported as an asset
  (`PermanentStoragePool.cpp:116`). A file leaves a pool's table but of its asset only the
  metadata is unpinned. An asset whose metadata was on its way when it turned out bad stays.
  An asset issued again keeps its row (`Database.cpp:796`) and its mark in `pspAssets`, though
  the files of its new metadata may never have been stored: `isAssetInPool` "returns true if
  all files are part of PSP" (`PermanentStoragePool.h:46`) of those of some earlier metadata.
- *RPC.* The cache's size is not changed when an entry is replaced and may wrap. A response
  computed before a change may be stored after it. `newAssetIssued` is announced before the
  asset is written. A rewind invalidates nothing, of addresses or of the list of assets
  (`Rewind`). `asyncget` may read a file that is half written. `_allowRPCDefault` is set to
  0 and then to 1 without a lock.
- *Queries.* The old streams' address reply (`getAddressData`) throws for an address that an
  issuance paid. After a rewind that left a spending txid behind, `getassetdata` fails for
  that asset for ever. On a pruned node without plain outputs `gettxout` refuses an unspent
  coin. `listunspent` documents its minimum sum in DigiByte and compares it with satoshis,
  and never reads its maximum count.
- *Statistics.* A death between the statements of a window counts it twice or makes every
  later call fail; `repairStats` is commented out. A rewind deeper than the margin leaves
  wrong rows. The lock of the IPFS job table is held while `updateStats` waits for the sync.
- *Codecs.* "ALL message VALUES MUST BE UTF8 ENCODED" (`BitIO.h:149`), but `makeUTF8String`
  asks for a lead byte below 0xdf and below 0xef (`BitIO.cpp:806` and `814`) where the last
  of the class is meant. U+07C0 to U+07FF and U+F000 to U+FFFF are dropped at the end of a
  text, refused before an ASCII character, and joined with what follows before any other:
  U+07C0 U+0800 comes back as other bytes. `NothingIsMisread` claims of texts with such a
  character only that they are never read back (`Mistaken`). `checkBits` "does not throw any
  errors", but throws for a length of 0 or of more than a word (`BitIO.cpp:281`). A whole
  word set at the end of a stream of whole words is written behind the array
  (`BitIO.cpp:320`); `Set` leaves that out, which no caller does. Upper case hex digits are
  read back in lower case. Numbers whose exponent overflows are refused. An odd last
  character from 32 on of the 40 letter alphabet is refused. An index past the alphabet
  reads behind it.

## 7. What is not modelled, and why

- The JSON and text each RPC method builds, configuration, logging, HTTP, the web pages and
  the command line client: no state that outlives a call. Of most RPC methods this is all.
- The bits an issuance's rules and a KYC record are written with: `AssetRules` and
  `DataTransactions` start from what they say. The streams and fields are `BitStream`'s and
  `Codecs`'.
- Transactions that join what several modules have apart: `ChainDatabase` lets a
  transaction spend, create and vote as any valid chain could, `AssetLedger` says which ones
  there are, without a rewind; `ChainQueries` rewinds and prunes splits of its own.
- A SQL transaction left open after an exception in `addToDatabase`: `ChainAnalyzer`
  takes the failure as the end of soundness and does not follow what a later death
  undoes.
- Two analyzer threads: `_parallels` stays 1 for it. `Threaded::start` and the destructor from
  several threads.
- What is grouped in one step, where an end of the process between is another module's or is
  not reached: the DELETEs of `clearBlocksAboveHeight` before the last one (`ClearRows`; a death
  among them is `CrashTorn` of `ChainDatabase`, which the runs leave FALSE), and the loop of
  `_callbackNewMetadata` over the list, which reads and writes nothing (`Compare`; with several
  threads another one may write in the midst of it).
- The second KYC verifier, known from block 21500000 on (`KYC.cpp:171`): a verifier of
  `DataTransactions` is one at every height. An empty "next" in the list of domains, which
  appoints the master "".
- The pool "local": its table is empty and nothing enables it.
- The migration steps of the schema: lists of statements run once at a start, of which each is
  as good as its SQL. The locks of statements last within a step.
- Hashes: pure functions, for which published test vectors say more than a model.

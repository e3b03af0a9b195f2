--------------------------- MODULE ChainAnalyzer ---------------------------
(***************************************************************************)
(* The chain analyzer: the thread that follows DigiByte Core's main chain  *)
(* and keeps the SQLite database equal to what the chain says              *)
(* (ChainAnalyzer.cpp, run by Threaded.cpp), with the statements of        *)
(* Database.cpp that it executes.                                          *)
(*                                                                         *)
(* One action per step between two observable points: every RPC call to    *)
(* Core and every autocommitted SQL statement is a step of its own, since  *)
(* Core may change chain, the process may die or the call may throw there. *)
(*                                                                         *)
(* Abstractions                                                            *)
(*   - The data tables are the set "applied" of <<block, i>>: transaction  *)
(*     i of that block has been written by addToDatabase (one SQL          *)
(*     transaction).  What the rows hold is ChainDatabase's subject, and   *)
(*     so is a death between the statements that clear the tables one by   *)
(*     one (its CrashTorn): here all but the last of them are one step.    *)
(*   - "lost" stands for what pruning destroyed: the history needed to     *)
(*     roll back to a height below it is gone.                             *)
(*   - After a failed insert addToDatabase leaves its SQL transaction      *)
(*     open; that a death of the process then undoes what followed is not  *)
(*     modelled (sound is FALSE by then).                                  *)
(*   - Config reading, log messages, run time statistics and the RPC cache *)
(*     calls are left out.                                                 *)
(*   - "sound" and "twice" are history variables: no step reads them to    *)
(*     decide what the code does.                                          *)
(***************************************************************************)
EXTENDS BlockTree

CONSTANTS
    AssetTx,         \* rows <<b, i>> whose second insertion breaks a PRIMARY KEY
    PruneAge,        \* _pruneAge; negative: never prune
    PruneInterval,   \* _pruneInterval
    PruneKind,       \* PruneKind[k]: is the k-th kind of history pruned
    Leniency,        \* DigiAsset::EXCHANGE_RATE_LENIENCY
    HalfRange,       \* 2^31: int is -HalfRange .. HalfRange-1
    MaxIndexes,      \* performance indexes not built yet when the program starts
    Genesis,         \* Core's first tip
    LowerTips,       \* may Core's tip move to a lower block (more work, fewer blocks)
    MaxTips,         \* bound: changes of Core's tip
    MaxCrashes,      \* bound: deaths of the process
    MaxFaults,       \* bound: RPC calls that fail although Core could answer
    MaxStops         \* bound: calls of stop()

ASSUME ConfigAssumption ==
    /\ AssetTx \subseteq Row
    /\ PruneAge \in Int
    /\ PruneInterval \in Nat \ {0}
    /\ PruneKind \in [1 .. 3 -> BOOLEAN]
    /\ Leniency \in Nat
    /\ HalfRange \in Nat
    /\ PruneAge < HalfRange /\ Leniency < HalfRange
    /\ \A b \in Block : Ht[b] < HalfRange
    /\ Genesis \in Block
    /\ MaxIndexes \in Nat
    /\ LowerTips \in BOOLEAN
    /\ MaxTips \in Nat /\ MaxCrashes \in Nat /\ MaxFaults \in Nat /\ MaxStops \in Nat

VARIABLES
    tip,        \* Core: the last block of its main chain
    pc,         \* where the analyzer's thread is; "down": it does not run
    height,     \* _height
    nextHash,   \* _nextHash
    hash,       \* phaseSync: local hash
    next,       \* phaseSync: {blockData.nextblockhash}, or {} when that is empty
    confs,      \* phaseSync: blockData.confirmations
    txDone,     \* phaseSync: transactions of this block already processed
    stage,      \* phasePrune: kind of history it is at
    state,      \* _state
    stopRequest,\* Threaded::_stopRequest
    blocks,     \* table "blocks": the blocks that have a row
    applied,    \* the data tables
    twice,      \* rows written although they were there (history)
    lost,       \* undo data below this height has been deleted
    indexes,    \* performance indexes still to build
    sound,      \* FALSE once one of the README's known holes was hit (history)
    tips, crashes, faults, stops    \* how much of each bound is used

coreVars   == <<tip, tips>>
localVars  == <<hash, next, confs, txDone, stage>>
memberVars == <<height, nextHash, state>>
dbVars     == <<blocks, applied, twice, lost>>
envVars    == <<indexes, sound, crashes, faults, stops, stopRequest>>
vars == <<coreVars, pc, localVars, memberVars, dbVars, envVars>>

\* Values of _state (ChainAnalyzer.h); -n: n blocks behind.
SYNCED       == 0
STOPPED      == 1
INITIALIZING == 2
REWINDING    == 3
BUSY         == 4

-----------------------------------------------------------------------------
(* DigiByte Core, as the analyzer uses it.                                 *)

\* getBlockHash(h): the block of height h on the main chain, {} when it throws
\* "Block height out of range".
MainAt(h) == {b \in Chain[tip] : Ht[b] = h}

OnMain(b) == b \in Chain[tip]

\* getBlock(b).nextblockhash and .confirmations; a stale block has no next
\* block and -1 confirmations.
NextOf(b) == {c \in Chain[tip] : OnMain(b) /\ Ht[c] = Ht[b] + 1}
ConfirmationsOf(b) == IF OnMain(b) THEN Ht[tip] - Ht[b] + 1 ELSE -1

\* A call that asks Core for height h throws: no such height, or Core offline.
CoreThrows(h) ==
    \/ MainAt(h) = {} /\ UNCHANGED faults
    \/ faults < MaxFaults /\ faults' = faults + 1

\* Core's tip moves to a block that is not an ancestor of the present one:
\* the chain is extended or reorganised.
NewTip(b) ==
    /\ tips < MaxTips
    /\ b \notin Chain[tip]
    /\ LowerTips \/ Ht[b] >= Ht[tip]
    /\ tip' = b
    /\ tips' = tips + 1
    /\ UNCHANGED <<pc, localVars, memberVars, dbVars, envVars>>

-----------------------------------------------------------------------------
(* Threaded::_threadFunction: mainFunction runs in a std::async future whose *)
(* exception is dropped with it; then it runs again, unless stop() was called.*)

LeaveMain == pc' = IF stopRequest THEN "shutdown" ELSE "rewind"

\* A row of blocks whose data, once everything of its height and above is
\* cleared, is not that of its ancestors: rolling back to it would be wrong.
Linked(b) == {r \in applied : Ht[r[1]] < Ht[b]} = Below(b)
Torn == \E b \in blocks : ~Linked(b) \/ Ht[b] < lost

\* What the process loses when it ends.
Forget ==
    /\ pc' = "down"
    /\ state' = STOPPED
    /\ height' = 1 /\ nextHash' = Block1 /\ hash' = Block1
    /\ next' = {} /\ confs' = 0 /\ txDone' = 0 /\ stage' = 1
    /\ stopRequest' = FALSE

\* shutdownFunction, at the end of _threadFunction.
Shutdown ==
    /\ pc = "shutdown"
    /\ Forget
    /\ sound' = (sound /\ ~Torn)
    /\ UNCHANGED <<coreVars, dbVars, indexes, crashes, faults, stops>>

\* Threaded::stop() called by another thread (RPC "shutdown", main).
RequestStop ==
    /\ stops < MaxStops
    /\ pc # "down" /\ ~stopRequest
    /\ stopRequest' = TRUE
    /\ stops' = stops + 1
    /\ UNCHANGED <<coreVars, pc, localVars, memberVars, dbVars, indexes, sound, crashes, faults>>

\* The process dies; autocommitted statements stay.
Crash ==
    /\ crashes < MaxCrashes
    /\ pc # "down"
    /\ Forget
    /\ crashes' = crashes + 1
    /\ sound' = (sound /\ ~Torn)
    /\ UNCHANGED <<coreVars, dbVars, indexes, faults, stops>>

-----------------------------------------------------------------------------
(* startupFunction                                                         *)

\* db->getBlockHeight(): the highest row.
ReadHeight ==
    /\ pc = "down"
    /\ \E b \in blocks :
          /\ \A c \in blocks : Ht[c] <= Ht[b]
          /\ height' = Ht[b]
    /\ state' = INITIALIZING
    /\ pc' = "startup"
    /\ UNCHANGED <<coreVars, localVars, nextHash, dbVars, envVars>>

\* With no row it throws, nothing catches, std::terminate ends the process.
ReadHeightThrows ==
    /\ pc = "down"
    /\ blocks = {}
    /\ UNCHANGED vars

\* _nextHash is what Core has at that height, not what the database has.
AskStartHash ==
    /\ pc = "startup"
    /\ \E b \in MainAt(height) :
          /\ nextHash' = b
          /\ sound' = (sound /\ b \in blocks)
    /\ pc' = "repairRows"
    /\ UNCHANGED <<coreVars, localVars, height, state, dbVars, indexes,
                   crashes, faults, stops, stopRequest>>

\* An exception in startupFunction is not caught: the process ends.
StartupThrows ==
    /\ pc = "startup"
    /\ CoreThrows(height)
    /\ Forget
    /\ UNCHANGED <<coreVars, dbVars, indexes, sound, crashes, stops>>

\* Seeded fault: "> height" where the code has ">= height".
ClearRowsAbove ==
    /\ applied' = {r \in applied : Ht[r[1]] <= height}
    /\ twice' = {r \in twice : Ht[r[1]] <= height}
    /\ UNCHANGED <<blocks, lost>>

\* clearBlocksAboveHeight(height): everything but the last DELETE, which is
\* the one on table "blocks".
ClearRows ==
    /\ applied' = {r \in applied : Ht[r[1]] < height}
    /\ twice' = {r \in twice : Ht[r[1]] < height}
    /\ UNCHANGED <<blocks, lost>>

\* Seeded fault: one block too many survives.
ClearBlocksLate ==
    /\ blocks' = {b \in blocks : Ht[b] <= height + 1}
    /\ UNCHANGED <<applied, twice, lost>>

ClearBlocks ==
    /\ blocks' = {b \in blocks : Ht[b] <= height}
    /\ UNCHANGED <<applied, twice, lost>>

RepairRows ==
    /\ pc = "repairRows"
    /\ ClearRows
    /\ pc' = "repairBlocks"
    /\ UNCHANGED <<coreVars, localVars, memberVars, envVars>>

RepairBlocks ==
    /\ pc = "repairBlocks"
    /\ ClearBlocks
    /\ LeaveMain
    /\ UNCHANGED <<coreVars, localVars, memberVars, envVars>>

-----------------------------------------------------------------------------
(* phaseRewind                                                             *)

\* hash == _nextHash: nothing to rewind, on to phaseSync.
Keep ==
    /\ pc = "rewind"
    /\ nextHash \in MainAt(height)
    /\ pc' = "sync"
    /\ sound' = (sound /\ ~Torn /\ \A r \in applied : Ht[r[1]] < height)
    /\ UNCHANGED <<coreVars, localVars, memberVars, dbVars, indexes,
                   crashes, faults, stops, stopRequest>>

StartRewind ==
    /\ pc = "rewind"
    /\ MainAt(height) # {} /\ nextHash \notin MainAt(height)
    /\ state' = REWINDING
    /\ pc' = "rewindStep"
    /\ UNCHANGED <<coreVars, localVars, height, nextHash, dbVars, envVars>>

\* One turn of the while loop: one block down, Core's hash, then the database's.
StepBack ==
    /\ pc = "rewindStep"
    /\ height' = height - 1
    /\ \E b \in MainAt(height - 1), own \in blocks :
          /\ Ht[own] = height - 1
          /\ nextHash' = own
          /\ pc' = IF b = own THEN "rewindRows" ELSE "rewindStep"
    /\ UNCHANGED <<coreVars, localVars, state, dbVars, envVars>>

\* The database has no row for that height: exceptionDataPruned.
StepBackPruned ==
    /\ pc = "rewindStep"
    /\ MainAt(height - 1) # {}
    /\ ~ \E own \in blocks : Ht[own] = height - 1
    /\ height' = height - 1
    /\ pc' = "restart"
    /\ UNCHANGED <<coreVars, localVars, nextHash, state, dbVars, envVars>>

\* Core throws after _height--: mainFunction is left one block lower.
StepBackThrows ==
    /\ pc = "rewindStep"
    /\ CoreThrows(height - 1)
    /\ height' = height - 1
    /\ LeaveMain
    /\ UNCHANGED <<coreVars, localVars, nextHash, state, dbVars, indexes,
                   sound, crashes, stops, stopRequest>>

\* restart(): Database::reset() empties the tables in order until the missing
\* table domainsMaster makes it throw; the assignments after it never run.
Restart ==
    /\ pc = "restart"
    /\ applied' = {} /\ twice' = {} /\ lost' = 0
    /\ blocks' = {b \in blocks : Ht[b] <= 1}
    /\ LeaveMain
    /\ UNCHANGED <<coreVars, localVars, memberVars, envVars>>

\* Seeded fault: only table blocks is cleared.
RewindRowsSkipped ==
    /\ pc = "rewindRows"
    /\ pc' = "rewindBlocks"
    /\ UNCHANGED <<coreVars, localVars, memberVars, dbVars, envVars>>

RewindRows ==
    /\ pc = "rewindRows"
    /\ ClearRows
    /\ pc' = "rewindBlocks"
    /\ UNCHANGED <<coreVars, localVars, memberVars, envVars>>

RewindBlocks ==
    /\ pc = "rewindBlocks"
    /\ ClearBlocks
    /\ pc' = "sync"
    /\ UNCHANGED <<coreVars, localVars, memberVars, envVars>>

\* A call outside phaseSync's and phaseRewind's loops throws.
AskThrows ==
    /\ pc \in {"rewind", "sync", "nextHash", "poll"}
    /\ CoreThrows(height)
    /\ LeaveMain
    /\ UNCHANGED <<coreVars, localVars, memberVars, dbVars, indexes, sound,
                   crashes, stops, stopRequest>>

-----------------------------------------------------------------------------
(* phaseSync                                                               *)

GetBlock(b) ==
    /\ next' = NextOf(b)
    /\ confs' = ConfirmationsOf(b)

AskHash ==
    /\ pc \in {"sync", "nextHash"}
    /\ hash' \in MainAt(height)
    /\ pc' = IF pc = "sync" THEN "syncBlock" ELSE "nextBlock"
    /\ UNCHANGED <<coreVars, next, confs, txDone, stage, memberVars, dbVars, envVars>>

FirstBlock ==
    /\ pc = "syncBlock"
    /\ GetBlock(hash)
    /\ pc' = "loop"
    /\ UNCHANGED <<coreVars, hash, txDone, stage, memberVars, dbVars, envVars>>

\* Seeded fault: _state is not set.
EnterBlockSilently ==
    /\ pc = "loop"
    /\ hash = nextHash /\ ~stopRequest
    /\ txDone' = 0
    /\ pc' = "tx"
    /\ UNCHANGED <<coreVars, hash, next, confs, stage, memberVars, dbVars, envVars>>

\* The head of the while loop: the block is processed...
EnterBlock ==
    /\ pc = "loop"
    /\ hash = nextHash /\ ~stopRequest
    /\ state' = 0 - confs
    /\ txDone' = 0
    /\ pc' = "tx"
    /\ UNCHANGED <<coreVars, hash, next, confs, stage, height, nextHash, dbVars, envVars>>

\* ... or, Core having changed chain or stop() having been called, left.
LeaveLoop ==
    /\ pc = "loop"
    /\ hash # nextHash \/ stopRequest
    /\ LeaveMain
    /\ UNCHANGED <<coreVars, localVars, memberVars, dbVars, envVars>>

\* processTX, unless createUTXO meets the row of an earlier attempt.
ProcessTx ==
    /\ pc = "tx"
    /\ txDone < ToProcess(hash)
    /\ LET row == <<hash, txDone + 1>> IN
          /\ ~ (row \in AssetTx /\ row \in applied)
          /\ applied' = applied \cup {row}
          /\ twice' = IF row \in applied THEN twice \cup {row} ELSE twice
    /\ txDone' = txDone + 1
    /\ UNCHANGED <<coreVars, pc, hash, next, confs, stage, memberVars, blocks, lost, envVars>>

\* processTX throws: Core offline, or exceptionFailedInsert, which comes after
\* the base row of the output was written once more.
ProcessTxThrows ==
    /\ pc = "tx"
    /\ txDone < ToProcess(hash)
    /\ LET row == <<hash, txDone + 1>> IN
          \/ /\ row \in AssetTx \cap applied
             /\ twice' = twice \cup {row}
             /\ UNCHANGED faults
          \/ /\ faults < MaxFaults /\ faults' = faults + 1
             /\ UNCHANGED twice
    /\ LeaveMain
    /\ UNCHANGED <<coreVars, localVars, memberVars, blocks, applied, lost,
                   indexes, sound, crashes, stops, stopRequest>>

BlockDone ==
    /\ pc = "tx"
    /\ txDone = ToProcess(hash)
    /\ stage' = 1
    /\ pc' = "prune"
    /\ UNCHANGED <<coreVars, hash, next, confs, txDone, memberVars, dbVars, envVars>>

-----------------------------------------------------------------------------
(* phasePrune: exchange rates, then UTXOs, then votes; each prunes its data *)
(* and then deletes the rows of blocks that can't be rolled back any more.  *)

AsUnsigned(x) == IF x < 0 THEN x + 2 * HalfRange ELSE x
AsSigned(x) == IF x >= HalfRange THEN x - 2 * HalfRange ELSE x
Smaller(x, y) == IF x < y THEN x ELSE y
Larger(x, y) == IF x < y THEN y ELSE x

\* Seeded fault: _pruneAge is not subtracted.
PruneMaxNow(h) == IF PruneAge < 0 \/ h % PruneInterval # 0 THEN 0 ELSE h

\* unsigned arithmetic: "height - _pruneAge < 0" never holds.
PruneMax(h) ==
    IF PruneAge < 0 \/ h % PruneInterval # 0 THEN 0 ELSE AsUnsigned(h - PruneAge)

\* The height the k-th prune function binds to its statements.
PruneTarget(k) ==
    AsSigned(IF k = 1 THEN Smaller(PruneMax(height), AsUnsigned(height - Leniency))
                      ELSE PruneMax(height))

StagesLeft == {k \in stage .. 3 : PruneKind[k] /\ PruneMax(height) # 0}

PruneData ==
    /\ pc = "prune"
    /\ \E k \in StagesLeft :
          /\ \A j \in StagesLeft : k <= j
          /\ stage' = k
          /\ lost' = Larger(lost, PruneTarget(k))
    /\ pc' = "unreachable"
    /\ UNCHANGED <<coreVars, hash, next, confs, txDone, memberVars, blocks,
                   applied, twice, envVars>>

\* Seeded fault: "height <= ?" where the code has "height < ?".
PruneBlocksToo ==
    /\ pc = "unreachable"
    /\ blocks' = {b \in blocks : Ht[b] > PruneTarget(stage)}
    /\ stage' = stage + 1
    /\ pc' = "prune"
    /\ UNCHANGED <<coreVars, hash, next, confs, txDone, memberVars, applied,
                   twice, lost, envVars>>

\* Seeded fault: the second half of the prune statement is missing.
PruneBlocksNever ==
    /\ pc = "unreachable"
    /\ stage' = stage + 1
    /\ pc' = "prune"
    /\ UNCHANGED <<coreVars, hash, next, confs, txDone, memberVars, dbVars, envVars>>

\* _stmtRemoveNonReachable
PruneBlocks ==
    /\ pc = "unreachable"
    /\ blocks' = {b \in blocks : Ht[b] >= PruneTarget(stage)}
    /\ stage' = stage + 1
    /\ pc' = "prune"
    /\ UNCHANGED <<coreVars, hash, next, confs, txDone, memberVars, applied,
                   twice, lost, envVars>>

PruneDone ==
    /\ pc = "prune"
    /\ StagesLeft = {}
    /\ pc' = "tip"
    /\ UNCHANGED <<coreVars, localVars, memberVars, dbVars, envVars>>

-----------------------------------------------------------------------------
(* phaseSync, after the block: wait at the tip, then on to the next block. *)

\* executePerformanceIndex builds one index per turn.
BuildIndex ==
    /\ pc = "tip"
    /\ next = {} /\ indexes > 0
    /\ state' = BUSY
    /\ indexes' = indexes - 1
    /\ pc' = "indexed"
    /\ UNCHANGED <<coreVars, localVars, height, nextHash, dbVars, sound, crashes,
                   faults, stops, stopRequest>>

MarkSynced ==
    /\ \/ pc = "tip" /\ next = {} /\ indexes = 0
       \/ pc = "indexed"
    /\ state' = SYNCED
    /\ pc' = "poll"
    /\ UNCHANGED <<coreVars, localVars, height, nextHash, dbVars, envVars>>

\* Half a second later: is our block still Core's?
PollSame ==
    /\ pc = "poll"
    /\ hash \in MainAt(height)
    /\ pc' = "pollBlock"
    /\ UNCHANGED <<coreVars, localVars, memberVars, dbVars, envVars>>

PollChanged ==
    /\ pc = "poll"
    /\ MainAt(height) # {} /\ hash \notin MainAt(height)
    /\ state' = REWINDING
    /\ LeaveMain
    /\ UNCHANGED <<coreVars, localVars, height, nextHash, dbVars, envVars>>

\* Seeded fault: blockData is not read again.
PollBlockStale ==
    /\ pc = "pollBlock"
    /\ pc' = "tip"
    /\ UNCHANGED <<coreVars, localVars, memberVars, dbVars, envVars>>

PollBlock ==
    /\ pc = "pollBlock"
    /\ GetBlock(hash)
    /\ pc' = "tip"
    /\ UNCHANGED <<coreVars, hash, txDone, stage, memberVars, dbVars, envVars>>

\* _nextHash = blockData.nextblockhash; _height++
Advance ==
    /\ pc = "tip"
    /\ next # {}
    /\ nextHash' \in next
    /\ height' = height + 1
    /\ pc' = "nextHash"
    /\ UNCHANGED <<coreVars, localVars, state, dbVars, envVars>>

\* getBlock(hash), then insertBlock: a plain INSERT on PRIMARY KEY(height),
\* which would throw if the height had a row (InsertFresh: it never has).
InsertBlock ==
    /\ pc = "nextBlock"
    /\ GetBlock(hash)
    /\ blocks' = blocks \cup {hash}
    /\ pc' = "loop"
    /\ UNCHANGED <<coreVars, hash, txDone, stage, memberVars, applied, twice,
                   lost, envVars>>

\* getBlock(hash) throws: Core is offline.
GetBlockThrows ==
    /\ pc \in {"syncBlock", "nextBlock", "pollBlock"}
    /\ faults < MaxFaults
    /\ faults' = faults + 1
    /\ LeaveMain
    /\ UNCHANGED <<coreVars, localVars, memberVars, dbVars, indexes, sound,
                   crashes, stops, stopRequest>>

-----------------------------------------------------------------------------
(* A new database holds the row of block 1; Core is anywhere on its chain. *)
Init ==
    /\ tip = Genesis /\ tips = 0
    /\ pc = "down" /\ state = STOPPED
    /\ height = 1 /\ nextHash = Block1 /\ hash = Block1
    /\ next = {} /\ confs = 0 /\ txDone = 0 /\ stage = 1
    /\ blocks = {Block1} /\ applied = {} /\ twice = {} /\ lost = 0
    /\ indexes = MaxIndexes
    /\ stopRequest = FALSE /\ sound = TRUE
    /\ crashes = 0 /\ faults = 0 /\ stops = 0

Startup == ReadHeight \/ ReadHeightThrows \/ AskStartHash \/ StartupThrows
           \/ RepairRows \/ RepairBlocks

Rewind == Keep \/ StartRewind \/ StepBack \/ StepBackPruned \/ StepBackThrows
          \/ Restart \/ RewindRows \/ RewindBlocks

Sync == AskHash \/ AskThrows \/ FirstBlock \/ EnterBlock \/ LeaveLoop
        \/ ProcessTx \/ ProcessTxThrows \/ BlockDone
        \/ PruneData \/ PruneBlocks \/ PruneDone
        \/ BuildIndex \/ MarkSynced \/ PollSame \/ PollChanged \/ PollBlock
        \/ Advance \/ InsertBlock \/ GetBlockThrows

\* A step of the analyzer's own thread.
Thread == Startup \/ Rewind \/ Sync \/ Shutdown

Environment == RequestStop \/ Crash \/ \E b \in Block : NewTip(b)

Next == Thread \/ Environment

Spec == Init /\ [][Next]_vars

\* The operating system runs a runnable thread, and the program is started
\* again after it ended.
FairSpec == Spec /\ WF_vars(Thread)

-----------------------------------------------------------------------------
(* Properties                                                              *)

Pcs == {"down", "startup", "repairRows", "repairBlocks", "rewind", "rewindStep",
        "restart", "rewindRows", "rewindBlocks", "sync", "syncBlock", "loop",
        "tx", "prune", "unreachable", "tip", "indexed", "poll", "pollBlock",
        "nextHash", "nextBlock", "shutdown"}

\* The type invariant.
TypeOK ==
    /\ tip \in Block /\ tips \in 0 .. MaxTips
    /\ pc \in Pcs
    /\ height \in Int /\ nextHash \in Block
    /\ hash \in Block /\ next \subseteq Block /\ confs \in Int
    /\ txDone \in Nat /\ stage \in IF pc = "unreachable" THEN 1 .. 3 ELSE 1 .. 4
    /\ state \in Int
    /\ blocks \subseteq Block /\ applied \subseteq Row /\ twice \subseteq applied
    /\ lost \in Nat
    /\ indexes \in Nat
    /\ stopRequest \in BOOLEAN /\ sound \in BOOLEAN
    /\ crashes \in 0 .. MaxCrashes /\ faults \in 0 .. MaxFaults /\ stops \in 0 .. MaxStops

\* The database is the replay of the chain: whenever phaseSync is about to
\* process a block, or is waiting, the data tables hold exactly the transactions
\* of that block's ancestors, and within a block those processed so far. No
\* rewind left anything behind and nothing was skipped, whatever Core's chain
\* did meanwhile.
Replay ==
    sound =>
      /\ pc \in {"sync", "syncBlock", "loop", "nextHash", "nextBlock"} =>
            applied = Below(nextHash)
      /\ pc = "tx" => applied = Below(hash) \cup ({hash} \X (1 .. txDone))
      /\ pc \in {"prune", "unreachable", "tip", "indexed", "poll", "pollBlock"} =>
            applied = Ledger(hash)

\* No transaction is written twice (a second base row in utxos would double
\* the balance of its address: aout is NULL there and the key does not help).
AppliedOnce == sound => twice = {}

\* phaseRewind stops at a block it can really roll back to: what is left once
\* its height is cleared is what that block builds on, and the history that
\* the clearing needs has not been pruned.
RollBackRight ==
    sound /\ pc = "rewindRows" => Linked(nextHash) /\ lost <= height

\* Who asks for the sync state and is told SYNCED reads a database that is
\* the ledger of some block, never one in the middle of a block or a rewind.
SyncedIsWhole ==
    sound /\ state = SYNCED => \E b \in Block : applied = Ledger(b)

\* insertBlock never meets a row of its height, whatever was interrupted.
InsertFresh ==
    pc = "nextBlock" => \A b \in blocks : Ht[b] # Ht[hash]

\* phaseRewind only gives up where pruning removed the history. A failed call,
\* or Core being asked for a height its new chain does not reach, may leave a
\* height without its row, and then it gives up there as well.
RestartOnlyPastPrune ==
    ~LowerTips /\ sound /\ faults = 0 /\ pc = "restart" /\ blocks # {} => height < lost

\* What a prune takes off the record is out of the _pruneAge last blocks, but on
\* a chain shorter than that where the leniency of the exchange rates is less.
ProtectedDepth ==
    [][pc = "unreachable" /\ (PruneAge <= height \/ PruneAge <= Leniency) =>
          \A b \in blocks \ blocks' : Ht[b] < height - PruneAge]_vars

\* Once Core's chain stays as it is, the analyzer reaches its end and the
\* database becomes that chain's ledger for good; except where that chain is
\* shorter than what was reached, and every question to Core throws.
CatchesUp ==
    <>[](sound => \/ hash = tip /\ applied = Ledger(tip)
                  \/ Ht[tip] < height
                  \/ \E b \in blocks : Ht[tip] < Ht[b])

-----------------------------------------------------------------------------
(* The inductive invariant behind Replay: see ChainAnalyzerProofs.         *)

InBlock == {"tx", "prune", "unreachable", "tip", "indexed", "poll", "pollBlock"}
InSync  == {"sync", "syncBlock", "loop", "nextHash", "nextBlock"} \cup InBlock

\* What the members and locals say of each other.
ControlInv ==
    /\ pc \in {"repairRows", "repairBlocks", "rewindRows", "rewindBlocks"} \cup InSync =>
          Ht[nextHash] = height
    /\ pc \in {"rewind", "rewindStep"} => Ht[nextHash] >= height
    /\ pc = "restart" => Ht[nextHash] > height
    /\ pc \in {"syncBlock", "loop", "nextBlock"} => Ht[hash] = height
    /\ pc \in InBlock => hash = nextHash
    /\ pc \in {"loop"} \cup InBlock =>
          \A n \in next : hash \in Chain[n] /\ Ht[n] = Ht[hash] + 1

\* Table blocks has no row above the height the analyzer is at.
TopInv ==
    /\ pc \in {"startup", "repairRows", "repairBlocks"} \cup InSync =>
          \A b \in blocks : Ht[b] <= height
    /\ pc \in {"nextHash", "nextBlock"} => \A b \in blocks : Ht[b] < height
    /\ pc = "rewind" /\ Ht[nextHash] = height => \A b \in blocks : Ht[b] <= height

\* The sync state and the place of the thread.
StateInv ==
    /\ pc \in {"startup", "repairRows"} => state = INITIALIZING
    /\ pc \in {"rewindStep", "restart", "rewindRows"} => state = REWINDING
    /\ pc = "loop" => confs # 0
    /\ pc = "tx" => state # SYNCED

CanRollBackTo(b) == Linked(b) /\ lost <= Ht[b]

\* Which rows of blocks can be rolled back to, at each place of the thread.
RollBackInv ==
    /\ pc \in {"down", "startup", "repairRows", "repairBlocks"} =>
          \A b \in blocks : CanRollBackTo(b)
    /\ pc = "repairRows" => nextHash \in blocks
    /\ pc \in {"rewind", "rewindStep", "loop"} =>
          \A b \in blocks : Ht[b] < height => CanRollBackTo(b)
    /\ pc = "loop" /\ hash = nextHash => \A b \in blocks : CanRollBackTo(b)
    /\ pc = "rewindRows" => nextHash \in blocks
    /\ pc \in {"rewindRows", "rewindBlocks"} =>
          \A b \in blocks : Ht[b] <= height => CanRollBackTo(b)
    /\ pc \in InSync \ {"loop", "unreachable"} => \A b \in blocks : CanRollBackTo(b)
    /\ pc = "unreachable" =>
          \A b \in blocks : /\ Linked(b)
                            /\ Ht[b] >= PruneTarget(stage) => lost <= Ht[b]
    /\ pc \in {"repairBlocks", "rewindBlocks"} \cup InSync => lost <= height

\* What the data tables hold, at each place of the thread.
DataInv ==
    /\ pc \in {"repairBlocks", "rewindBlocks"} => applied = Below(nextHash)
    /\ pc = "rewind" /\ Ht[nextHash] = height =>
          {r \in applied : Ht[r[1]] < height} = Below(nextHash) /\ lost <= height
    /\ Replay

SoundInv == sound => RollBackInv /\ DataInv /\ twice = {}

IInv == TypeOK /\ ControlInv /\ TopInv /\ StateInv /\ SoundInv /\ SyncedIsWhole

\* There is a row of each height up to h that can still be rolled back to.
KeptTo(h) == \A k \in 1 .. h : lost <= k => \E b \in blocks : Ht[b] = k

\* Where no height was left without its row.
AllKept ==
    /\ \A b \in blocks : Ht[b] >= 1 /\ KeptTo(Ht[b])
    /\ \A n \in next : Ht[n] <= Ht[tip]
    /\ pc \notin {"down", "startup", "shutdown"} => 1 <= height /\ height <= Ht[tip]
    /\ pc \in {"startup", "repairRows", "repairBlocks", "rewind", "rewindRows", "rewindBlocks"}
              \cup (InSync \ {"nextHash", "nextBlock"}) => KeptTo(height)
    /\ pc = "startup" => 1 <= height
    /\ pc \in {"rewindStep", "nextHash", "nextBlock"} => 2 <= height /\ KeptTo(height - 1)
    /\ pc = "rewind" => Ht[nextHash] = height
    /\ pc = "unreachable" => PruneTarget(stage) <= lost
    /\ pc = "restart" => height < lost /\ \A b \in blocks : Ht[b] > 1

\* Where a restart took all rows away, there never are rows again.
NoneKept ==
    /\ blocks = {} /\ pc \in {"down", "rewind", "rewindStep", "restart", "shutdown"}
    /\ pc = "rewind" => Ht[nextHash] > height

RowsInv == ~LowerTips /\ sound /\ faults = 0 => AllKept \/ NoneKept

-----------------------------------------------------------------------------
(* What a comment in the code says and the code does not do: it fails in a   *)
(* run of its own.                                                           *)

\* ChainAnalyzer.cpp:206 "find block we left off at": the block the analyzer
\* starts from is one the database has.
StartsWhereLeftOff == pc = "repairRows" => nextHash \in blocks

=============================================================================

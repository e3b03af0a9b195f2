------------------------ MODULE ChainAnalyzerProofs ------------------------
(* What is proved of ChainAnalyzer for every block tree, every             *)
(* configuration and every bound: type correctness, and through the        *)
(* inductive invariant IInv, that the database replays the chain.          *)
EXTENDS ChainAnalyzer, TLAPS

-----------------------------------------------------------------------------
(* Facts about the block tree.                                             *)

\* A row names the block that it belongs to.
LEMMA RowFacts ==
    ASSUME NEW r \in Row
    PROVE  /\ r[1] \in Block /\ r[2] \in Nat
           /\ r[2] >= 1 /\ r[2] <= ToProcess(r[1])
           /\ r = <<r[1], r[2]>>
<1>1. PICK b \in Block : r \in RowsOf(b)
  BY DEF Row
<1>2. ToProcess(b) \in Nat
  BY TxAssumption DEF ToProcess
<1> QED
  BY <1>1, <1>2 DEF RowsOf

\* A block is higher than its other ancestors, so the rows below it are too.
LEMMA BelowIsLower ==
    ASSUME NEW b \in Block, NEW r \in Below(b)
    PROVE  r \in Row /\ Ht[r[1]] < Ht[b]
<1>1. r \in Row /\ r[1] \in Chain[b] /\ r[1] # b
  BY DEF Below, Ledger
<1>2. r[1] \in Block
  BY <1>1, RowFacts
<1>3. b \in Chain[b] /\ Chain[b] = {d \in Chain[b] : Ht[d] <= Ht[b]}
  BY BlockTreeAssumption
<1>4. Ht[r[1]] <= Ht[b] /\ Ht[r[1]] # Ht[b]
  BY <1>1, <1>2, <1>3, BlockTreeAssumption
<1>5. Ht[r[1]] \in Int /\ Ht[b] \in Int
  BY <1>2, BlockTreeAssumption
<1> QED
  BY <1>1, <1>4, <1>5

\* There is nothing below block 1.
LEMMA NothingBelowFirst ==
    ASSUME NEW b \in Block, Ht[b] <= 1
    PROVE  Below(b) = {}
<1> SUFFICES ASSUME NEW r \in Below(b) PROVE FALSE
  OBVIOUS
<1>1. r \in Row /\ Ht[r[1]] < 1
  BY BelowIsLower, BlockTreeAssumption, RowFacts
<1>2. r[1] \in Block /\ r[2] >= 1 /\ r[2] <= ToProcess(r[1]) /\ r[2] \in Nat
  BY <1>1, RowFacts
<1>3. Ht[r[1]] = 0
  BY <1>1, <1>2, BlockTreeAssumption
<1>4. ToProcess(r[1]) = 0
  BY <1>2, <1>3, TxAssumption DEF ToProcess
<1> QED
  BY <1>2, <1>4

\* What is below a block is the ledger of the block it builds on.
LEMMA BelowOfNext ==
    ASSUME NEW b \in Block, NEW n \in Block,
           b \in Chain[n], Ht[n] = Ht[b] + 1
    PROVE  Below(n) = Ledger(b)
<1>1. Chain[b] = {d \in Chain[n] : Ht[d] <= Ht[b]}
  BY BlockTreeAssumption
<1>2. Chain[n] \subseteq Block /\ n \in Chain[n]
  BY BlockTreeAssumption
<1>3. \A d \in Chain[n] : Ht[d] <= Ht[n] /\ (Ht[d] = Ht[n] => d = n)
  BY <1>2, BlockTreeAssumption
<1>4. \A d \in Chain[n] : d # n <=> Ht[d] <= Ht[b]
  BY <1>2, <1>3, BlockTreeAssumption
<1> QED
  BY <1>1, <1>4 DEF Below, Ledger

\* The ledger of a block: what is below it, and its own rows.
LEMMA LedgerSplit ==
    ASSUME NEW b \in Block
    PROVE  Ledger(b) = Below(b) \cup RowsOf(b)
<1>1. \A r \in RowsOf(b) : r \in Row /\ r[1] = b
  BY DEF RowsOf, Row
<1>2. ASSUME NEW r \in Row, r[1] = b PROVE r \in RowsOf(b)
  <2>1. PICK c \in Block : r \in RowsOf(c)
    BY DEF Row
  <2> QED
    BY <2>1, <1>2 DEF RowsOf
<1>3. b \in Chain[b]
  BY BlockTreeAssumption
<1> QED
  BY <1>1, <1>2, <1>3 DEF Below, Ledger

-----------------------------------------------------------------------------
(* Type correctness.                                                       *)

\* The types hold at the start.
LEMMA TypeInit == Init => TypeOK
<1> SUFFICES ASSUME Init PROVE TypeOK
  OBVIOUS
<1>1. stopRequest \in BOOLEAN /\ sound \in BOOLEAN
  BY Zenon DEF Init
<1>2. /\ tip \in Block /\ nextHash \in Block /\ hash \in Block
      /\ next \subseteq Block /\ blocks \subseteq Block
  BY ConfigAssumption, Block1Assumption DEF Init
<1>3. applied \subseteq Row /\ twice \subseteq applied
  BY DEF Init
<1>4. /\ pc \in Pcs /\ stage \in IF pc = "unreachable" THEN 1 .. 3 ELSE 1 .. 4
  BY DEF Init, Pcs
<1>5. /\ height \in Int /\ confs \in Int /\ txDone \in Nat /\ state \in Int
      /\ lost \in Nat /\ indexes \in Nat
      /\ tips \in 0 .. MaxTips /\ crashes \in 0 .. MaxCrashes
      /\ faults \in 0 .. MaxFaults /\ stops \in 0 .. MaxStops
  BY ConfigAssumption DEF Init, STOPPED
<1> QED
  BY <1>1, <1>2, <1>3, <1>4, <1>5 DEF TypeOK

\* What Core answers is a block, and a number of confirmations.
LEMMA CoreAnswers ==
    ASSUME TypeOK
    PROVE  /\ \A h : MainAt(h) \subseteq Block
           /\ \A b : NextOf(b) \subseteq Block
           /\ \A b \in Block : ConfirmationsOf(b) \in Int
<1>1. Chain[tip] \subseteq Block /\ Ht[tip] \in Nat
  BY BlockTreeAssumption DEF TypeOK
<1> QED
  BY <1>1, BlockTreeAssumption DEF MainAt, NextOf, ConfirmationsOf, OnMain

\* What a prune function is given is an integer.
LEMMA PruneTargetType ==
    ASSUME NEW k \in 1 .. 3, height \in Int
    PROVE  PruneTarget(k) \in Int
<1>1. HalfRange \in Int /\ PruneAge \in Int /\ Leniency \in Int
  BY ConfigAssumption
<1>2. PruneMax(height) \in Int /\ AsUnsigned(height - Leniency) \in Int
  BY <1>1 DEF PruneMax, AsUnsigned
<1>3. \A x, y \in Int : Smaller(x, y) \in Int /\ AsSigned(x) \in Int
  BY <1>1 DEF Smaller, AsSigned
<1> QED
  BY <1>2, <1>3 DEF PruneTarget

\* A call that throws costs at most one fault.
LEMMA FaultType ==
    ASSUME TypeOK, NEW h, CoreThrows(h)
    PROVE  faults' \in 0 .. MaxFaults
  BY ConfigAssumption DEF TypeOK, CoreThrows

\* What is left of the analyzer's own variables when the process ends.
LEMMA ForgetType ==
    ASSUME Forget
    PROVE  /\ pc' \in Pcs /\ pc' # "unreachable"
           /\ height' \in Int /\ nextHash' \in Block /\ hash' \in Block
           /\ next' \subseteq Block /\ confs' \in Int /\ txDone' \in Nat
           /\ stage' \in 1 .. 4 /\ state' \in Int /\ stopRequest' \in BOOLEAN
<1>1. Block1 \in Block
  BY Block1Assumption
<1>2. pc' \in Pcs /\ pc' # "unreachable"
  BY DEF Forget, Pcs
<1>3. stopRequest' \in BOOLEAN
  BY Zenon DEF Forget
<1>4. /\ height' \in Int /\ confs' \in Int /\ txDone' \in Nat
      /\ stage' \in 1 .. 4 /\ state' \in Int
  BY DEF Forget, STOPPED
<1>5. nextHash' \in Block /\ hash' \in Block /\ next' \subseteq Block
  BY <1>1, Zenon DEF Forget
<1> QED
  BY <1>2, <1>3, <1>4, <1>5

\* Every step keeps the types.
LEMMA TypeNext == TypeOK /\ [Next]_vars => TypeOK'
<1> SUFFICES ASSUME TypeOK, [Next]_vars PROVE TypeOK'
  OBVIOUS
<1> USE DEF TypeOK, Pcs, coreVars, localVars, memberVars, dbVars, envVars
<1>1. CASE UNCHANGED vars
  BY <1>1 DEF vars
<1>2. CASE Startup
  <2>1. CASE ReadHeight
    BY <2>1, BlockTreeAssumption DEF ReadHeight, INITIALIZING
  <2>2. CASE ReadHeightThrows
    BY <2>2 DEF ReadHeightThrows, vars
  <2>3. CASE AskStartHash
    BY <2>3, CoreAnswers DEF AskStartHash
  <2>4. CASE StartupThrows
    BY <2>4, FaultType, ForgetType DEF StartupThrows
  <2>5. CASE RepairRows
    BY <2>5 DEF RepairRows, ClearRows
  <2>6. CASE RepairBlocks
    BY <2>6 DEF RepairBlocks, ClearBlocks, LeaveMain
  <2> QED
    BY <1>2, <2>1, <2>2, <2>3, <2>4, <2>5, <2>6 DEF Startup
<1>3. CASE Rewind
  <2>1. CASE Keep
    BY <2>1 DEF Keep
  <2>2. CASE StartRewind
    BY <2>2 DEF StartRewind, REWINDING
  <2>3. CASE StepBack
    BY <2>3 DEF StepBack
  <2>4. CASE StepBackPruned
    BY <2>4 DEF StepBackPruned
  <2>5. CASE StepBackThrows
    BY <2>5, FaultType DEF StepBackThrows, LeaveMain
  <2>6. CASE Restart
    BY <2>6 DEF Restart, LeaveMain
  <2>7. CASE RewindRows
    BY <2>7 DEF RewindRows, ClearRows
  <2>8. CASE RewindBlocks
    BY <2>8 DEF RewindBlocks, ClearBlocks
  <2> QED
    BY <1>3, <2>1, <2>2, <2>3, <2>4, <2>5, <2>6, <2>7, <2>8 DEF Rewind
<1>4. CASE Sync
  <2>1. CASE AskHash
    BY <2>1, CoreAnswers DEF AskHash
  <2>2. CASE AskThrows
    BY <2>2, FaultType DEF AskThrows, LeaveMain
  <2>3. CASE FirstBlock
    BY <2>3, CoreAnswers DEF FirstBlock, GetBlock
  <2>4. CASE EnterBlock
    BY <2>4 DEF EnterBlock
  <2>5. CASE LeaveLoop
    BY <2>5 DEF LeaveLoop, LeaveMain
  <2>6. CASE ProcessTx
    <3>1. ToProcess(hash) \in Nat
      BY TxAssumption DEF ToProcess
    <3>2. <<hash, txDone + 1>> \in Row
      BY <2>6, <3>1 DEF ProcessTx, Row, RowsOf
    <3> QED
      BY <2>6, <3>2 DEF ProcessTx
  <2>7. CASE ProcessTxThrows
    BY <2>7, ConfigAssumption DEF ProcessTxThrows, LeaveMain
  <2>8. CASE BlockDone
    BY <2>8 DEF BlockDone
  <2>9. CASE PruneData
    BY <2>9, PruneTargetType DEF PruneData, StagesLeft, Larger
  <2>10. CASE PruneBlocks
    BY <2>10 DEF PruneBlocks
  <2>11. CASE PruneDone
    BY <2>11 DEF PruneDone
  <2>12. CASE BuildIndex
    BY <2>12 DEF BuildIndex, BUSY
  <2>13. CASE MarkSynced
    BY <2>13 DEF MarkSynced, SYNCED
  <2>14. CASE PollSame
    BY <2>14 DEF PollSame
  <2>15. CASE PollChanged
    BY <2>15 DEF PollChanged, LeaveMain, REWINDING
  <2>16. CASE PollBlock
    BY <2>16, CoreAnswers DEF PollBlock, GetBlock
  <2>17. CASE Advance
    BY <2>17 DEF Advance
  <2>18. CASE InsertBlock
    BY <2>18, CoreAnswers DEF InsertBlock, GetBlock
  <2>19. CASE GetBlockThrows
    BY <2>19, ConfigAssumption DEF GetBlockThrows, LeaveMain
  <2> QED
    BY <1>4, <2>1, <2>2, <2>3, <2>4, <2>5, <2>6, <2>7, <2>8, <2>9, <2>10,
       <2>11, <2>12, <2>13, <2>14, <2>15, <2>16, <2>17, <2>18, <2>19 DEF Sync
<1>5. CASE Shutdown
  BY <1>5, ForgetType DEF Shutdown
<1>6. CASE RequestStop
  BY <1>6, ConfigAssumption DEF RequestStop
<1>7. CASE Crash
  BY <1>7, ForgetType, ConfigAssumption DEF Crash
<1>8. ASSUME NEW b \in Block, NewTip(b) PROVE TypeOK'
  BY <1>8, ConfigAssumption DEF NewTip
<1> QED
  BY <1>1, <1>2, <1>3, <1>4, <1>5, <1>6, <1>7, <1>8
     DEF Next, Thread, Environment

\* Every variable keeps its type in every behaviour of the analyzer.
THEOREM TypeCorrect == Spec => []TypeOK
<1>1. Init => TypeOK
  BY TypeInit
<1>2. TypeOK /\ [Next]_vars => TypeOK'
  BY TypeNext
<1> QED
  BY <1>1, <1>2, PTL DEF Spec

-----------------------------------------------------------------------------
(* The inductive invariant: facts used in several places.                  *)

\* Heights are natural numbers.
LEMMA HtType == \A b \in Block : Ht[b] \in Nat
  BY BlockTreeAssumption

\* Core answers a question for a height with a block of that height.
LEMMA MainAtHeight ==
    ASSUME TypeOK, NEW h, NEW b \in MainAt(h)
    PROVE  b \in Block /\ Ht[b] = h
  BY CoreAnswers DEF MainAt

\* The next block that Core names builds on the block asked for.
LEMMA NextBuildsOn ==
    ASSUME TypeOK, NEW b \in Block, NEW n \in NextOf(b)
    PROVE  n \in Block /\ b \in Chain[n] /\ Ht[n] = Ht[b] + 1
<1>1. n \in Block
  BY CoreAnswers
<1>2. n \in Chain[tip] /\ b \in Chain[tip] /\ Ht[n] = Ht[b] + 1 /\ tip \in Block
  BY DEF NextOf, OnMain, TypeOK
<1>3. Chain[n] = {d \in Chain[tip] : Ht[d] <= Ht[n]}
  BY <1>2, BlockTreeAssumption
<1> QED
  BY <1>1, <1>2, <1>3, HtType

\* A block has at least one confirmation, or is stale.
LEMMA ConfirmationsNotZero ==
    ASSUME TypeOK, NEW b \in Block
    PROVE  ConfirmationsOf(b) \in Int /\ ConfirmationsOf(b) # 0
<1>1. CASE b \in Chain[tip]
  <2>1. Chain[tip] = {d \in Chain[tip] : Ht[d] <= Ht[tip]} /\ tip \in Block
    BY BlockTreeAssumption DEF TypeOK
  <2> QED
    BY <1>1, <2>1, HtType DEF ConfirmationsOf, OnMain
<1>2. CASE b \notin Chain[tip]
  BY <1>2 DEF ConfirmationsOf, OnMain
<1> QED
  BY <1>1, <1>2

\* Where mainFunction goes when it is left.
LEMMA LeaveMainGoes == LeaveMain => pc' \in {"rewind", "shutdown"}
  BY DEF LeaveMain

\* Whether a block can be rolled back to depends on the data tables only.
LEMMA SameData ==
    ASSUME UNCHANGED <<applied, lost>>
    PROVE  \A b : /\ Linked(b)' <=> Linked(b)
                  /\ CanRollBackTo(b)' <=> CanRollBackTo(b)
  BY DEF Linked, CanRollBackTo

\* When the data is all that is below a block, that block can be rolled back to.
LEMMA BelowIsLinked ==
    ASSUME NEW b \in Block, applied = Below(b)
    PROVE  Linked(b) /\ \A r \in applied : Ht[r[1]] < Ht[b]
  BY BelowIsLower DEF Linked

\* Clearing a height keeps what the blocks up to that height need, and leaves
\* of a block of that height just what is below it.
LEMMA ClearKeeps ==
    ASSUME NEW h, NEW b \in Block, h = Ht[b] \/ Ht[b] < h, h \in Int,
           applied \subseteq Row,
           applied' = {r \in applied : Ht[r[1]] < h}, Linked(b)
    PROVE  Linked(b)' /\ (Ht[b] = h => applied' = Below(b))
<1>1. \A r \in applied : Ht[r[1]] \in Nat
  BY RowFacts, HtType
<1>2. {r \in applied' : Ht[r[1]] < Ht[b]} = {r \in applied : Ht[r[1]] < Ht[b]}
  BY <1>1, HtType
<1>3. Linked(b)'
  BY <1>2 DEF Linked
<1>4. ASSUME Ht[b] = h PROVE applied' = Below(b)
  BY <1>4 DEF Linked
<1> QED
  BY <1>3, <1>4

\* A new row of a block that is not lower does not matter to a block.
LEMMA GrowKeeps ==
    ASSUME NEW b \in Block, NEW row \in Row, Ht[b] <= Ht[row[1]],
           applied' = applied \cup {row}, Linked(b)
    PROVE  Linked(b)'
<1>1. ~ (Ht[row[1]] < Ht[b])
  BY RowFacts, HtType
<1>2. {r \in applied' : Ht[r[1]] < Ht[b]} = {r \in applied : Ht[r[1]] < Ht[b]}
  BY <1>1
<1> QED
  BY <1>2 DEF Linked

\* A prune function never reaches above the block just processed, although
\* the height it is given may have wrapped around.
LEMMA PruneTargetBound ==
    ASSUME NEW b \in Block, height = Ht[b], NEW k \in 1 .. 3, PruneMax(height) # 0
    PROVE  PruneTarget(k) \in Int /\ PruneTarget(k) <= height
<1>1. /\ height \in Nat /\ height < HalfRange /\ HalfRange \in Nat
      /\ PruneAge \in Int /\ Leniency \in Nat
      /\ PruneAge < HalfRange /\ Leniency < HalfRange
  BY HtType, ConfigAssumption
<1>2. ASSUME NEW x \in Int, -HalfRange <= x, x < HalfRange
      PROVE  AsUnsigned(x) \in Int /\ AsSigned(AsUnsigned(x)) = x
  BY <1>1, <1>2 DEF AsUnsigned, AsSigned
<1>3. PruneAge >= 0 /\ PruneMax(height) = AsUnsigned(height - PruneAge)
  BY <1>1 DEF PruneMax
<1>4. /\ AsUnsigned(height - PruneAge) \in Int
      /\ AsSigned(AsUnsigned(height - PruneAge)) = height - PruneAge
  BY <1>1, <1>2, <1>3
<1>5. /\ AsUnsigned(height - Leniency) \in Int
      /\ AsSigned(AsUnsigned(height - Leniency)) = height - Leniency
  BY <1>1, <1>2
<1>6. PruneTarget(k) \in {height - PruneAge, height - Leniency}
  BY <1>3, <1>4, <1>5 DEF PruneTarget, Smaller
<1> QED
  BY <1>1, <1>3, <1>6

\* In phaseSync, clearing the height again would leave what the block builds on.
LEMMA SyncCleared ==
    ASSUME TypeOK, ControlInv, Replay, sound, pc \in InSync
    PROVE  {r \in applied : Ht[r[1]] < height} = Below(nextHash)
<1>0. /\ nextHash \in Block /\ hash \in Block /\ height \in Int
      /\ Ht[nextHash] = height
  BY DEF TypeOK, ControlInv
<1>1. \A r \in Below(nextHash) : Ht[r[1]] < height
  BY <1>0, BelowIsLower
<1>2. CASE pc \in {"sync", "syncBlock", "loop", "nextHash", "nextBlock"}
  BY <1>1, <1>2 DEF Replay
<1>3. CASE pc \in InBlock
  <2>1. hash = nextHash
    BY <1>3 DEF ControlInv
  <2>2. \A r \in {hash} \X (1 .. txDone) : ~ (Ht[r[1]] < height)
    BY <1>0, <2>1
  <2>3. \A r \in RowsOf(hash) : ~ (Ht[r[1]] < height)
    BY <1>0, <2>1 DEF RowsOf
  <2>4. CASE pc = "tx"
    BY <1>1, <2>1, <2>2, <2>4 DEF Replay
  <2>5. CASE pc # "tx"
    <3>1. applied = Below(hash) \cup RowsOf(hash)
      BY <1>0, <1>3, <2>5, LedgerSplit DEF Replay, InBlock
    <3> QED
      BY <1>1, <2>1, <2>3, <3>1
  <2> QED
    BY <2>4, <2>5
<1> QED
  BY <1>2, <1>3 DEF InSync

\* Leaving phaseSync for phaseRewind: whatever the block's state, every lower
\* block can be rolled back to.
LEMMA LeaveKeeps ==
    ASSUME TypeOK, ControlInv, SoundInv, pc \in InSync \ {"unreachable"},
           LeaveMain,
           UNCHANGED <<blocks, applied, twice, lost, height, nextHash, sound>>
    PROVE  SoundInv'
<1> SUFFICES ASSUME sound' PROVE (RollBackInv /\ DataInv /\ twice = {})'
  BY DEF SoundInv
<1>0. sound /\ RollBackInv /\ DataInv /\ twice = {}
  BY DEF SoundInv
<1>1. pc' \in {"rewind", "shutdown"}
  BY LeaveMainGoes
<1>2. {r \in applied : Ht[r[1]] < height} = Below(nextHash)
  BY <1>0, SyncCleared DEF DataInv
<1>3. lost <= height
  BY <1>0 DEF RollBackInv
<1>4. \A b \in blocks : Ht[b] < height => CanRollBackTo(b)
  BY <1>0 DEF RollBackInv, InSync, InBlock
<1>5. RollBackInv'
  BY <1>1, <1>4, SameData DEF RollBackInv, InSync, InBlock
<1>6. DataInv'
  BY <1>1, <1>2, <1>3 DEF DataInv, Replay, InBlock
<1> QED
  BY <1>0, <1>5, <1>6

\* When the database is not torn every row of blocks can be rolled back to.
LEMMA NotTorn ==
    ASSUME TypeOK, ~Torn
    PROVE  \A b \in blocks : CanRollBackTo(b)
<1>1. \A b \in blocks : Ht[b] \in Nat /\ lost \in Nat
  BY HtType DEF TypeOK
<1>2. \A b \in blocks : Linked(b) /\ ~ (Ht[b] < lost)
  BY DEF Torn
<1> QED
  BY <1>1, <1>2 DEF CanRollBackTo

\* Members, locals and the place of the thread stay consistent.
LEMMA ControlNext ==
    ASSUME TypeOK, ControlInv, [Next]_vars
    PROVE  ControlInv'
<1>0. /\ nextHash \in Block /\ hash \in Block /\ height \in Int
      /\ blocks \subseteq Block
  BY DEF TypeOK
<1> USE <1>0 DEF ControlInv, InSync, InBlock, vars, coreVars, localVars, memberVars, dbVars, envVars
<1>1. CASE UNCHANGED vars
  BY <1>1
<1>2. CASE Startup
  <2>1. CASE ReadHeight
    BY <2>1 DEF ReadHeight
  <2>2. CASE ReadHeightThrows
    BY <2>2 DEF ReadHeightThrows
  <2>3. CASE AskStartHash
    BY <2>3, MainAtHeight, HtType DEF AskStartHash
  <2>4. CASE StartupThrows
    BY <2>4 DEF StartupThrows, Forget
  <2>5. CASE RepairRows
    BY <2>5 DEF RepairRows, ClearRows
  <2>6. CASE RepairBlocks
    BY <2>6, LeaveMainGoes, HtType DEF RepairBlocks, ClearBlocks
  <2> QED
    BY <1>2, <2>1, <2>2, <2>3, <2>4, <2>5, <2>6
       DEF Startup
<1>3. CASE Rewind
  <2>1. CASE Keep
    BY <2>1, MainAtHeight, HtType DEF Keep
  <2>2. CASE StartRewind
    BY <2>2, HtType DEF StartRewind
  <2>3. CASE StepBack
    BY <2>3, HtType DEF StepBack
  <2>4. CASE StepBackPruned
    BY <2>4, HtType DEF StepBackPruned
  <2>5. CASE StepBackThrows
    BY <2>5, LeaveMainGoes, HtType DEF StepBackThrows
  <2>6. CASE Restart
    BY <2>6, LeaveMainGoes, HtType DEF Restart
  <2>7. CASE RewindRows
    BY <2>7 DEF RewindRows, ClearRows
  <2>8. CASE RewindBlocks
    BY <2>8 DEF RewindBlocks, ClearBlocks
  <2> QED
    BY <1>3, <2>1, <2>2, <2>3, <2>4, <2>5, <2>6, <2>7, <2>8
       DEF Rewind
<1>4. CASE Sync
  <2>1. CASE AskHash
    BY <2>1, MainAtHeight DEF AskHash
  <2>2. CASE AskThrows
    BY <2>2, LeaveMainGoes, HtType DEF AskThrows
  <2>3. CASE FirstBlock
    BY <2>3, NextBuildsOn DEF FirstBlock, GetBlock
  <2>4. CASE EnterBlock
    BY <2>4 DEF EnterBlock
  <2>5. CASE LeaveLoop
    BY <2>5, LeaveMainGoes, HtType DEF LeaveLoop
  <2>6. CASE ProcessTx
    BY <2>6 DEF ProcessTx
  <2>7. CASE ProcessTxThrows
    BY <2>7, LeaveMainGoes, HtType DEF ProcessTxThrows
  <2>8. CASE BlockDone
    BY <2>8 DEF BlockDone
  <2>9. CASE PruneData
    BY <2>9 DEF PruneData
  <2>10. CASE PruneBlocks
    BY <2>10 DEF PruneBlocks
  <2>11. CASE PruneDone
    BY <2>11 DEF PruneDone
  <2>12. CASE BuildIndex
    BY <2>12 DEF BuildIndex
  <2>13. CASE MarkSynced
    BY <2>13 DEF MarkSynced
  <2>14. CASE PollSame
    BY <2>14 DEF PollSame
  <2>15. CASE PollChanged
    BY <2>15, LeaveMainGoes, HtType DEF PollChanged
  <2>16. CASE PollBlock
    BY <2>16, NextBuildsOn DEF PollBlock, GetBlock
  <2>17. CASE Advance
    BY <2>17, HtType DEF Advance, TypeOK
  <2>18. CASE InsertBlock
    BY <2>18, NextBuildsOn DEF InsertBlock, GetBlock
  <2>19. CASE GetBlockThrows
    BY <2>19, LeaveMainGoes, HtType DEF GetBlockThrows
  <2> QED
    BY <1>4, <2>1, <2>2, <2>3, <2>4, <2>5, <2>6, <2>7, <2>8, <2>9,
       <2>10, <2>11, <2>12, <2>13, <2>14, <2>15, <2>16, <2>17, <2>18, <2>19
       DEF Sync
<1>5. CASE Shutdown
  BY <1>5 DEF Shutdown, Forget
<1>6. CASE RequestStop
  BY <1>6 DEF RequestStop
<1>7. CASE Crash
  BY <1>7 DEF Crash, Forget
<1>8. ASSUME NEW b \in Block, NewTip(b) PROVE ControlInv'
  BY <1>8 DEF NewTip
<1> QED
  BY <1>1, <1>2, <1>3, <1>4, <1>5, <1>6, <1>7, <1>8
     DEF Next, Thread, Environment

\* No row of blocks is above the height the analyzer is at.
LEMMA TopNext ==
    ASSUME TypeOK, ControlInv, TopInv, [Next]_vars
    PROVE  TopInv'
<1>0. /\ nextHash \in Block /\ hash \in Block /\ height \in Int
      /\ blocks \subseteq Block
  BY DEF TypeOK
<1> USE <1>0 DEF TopInv, InSync, InBlock, vars, coreVars, localVars, memberVars, dbVars, envVars
<1>1. CASE UNCHANGED vars
  BY <1>1
<1>2. CASE Startup
  <2>1. CASE ReadHeight
    BY <2>1, HtType DEF ReadHeight
  <2>2. CASE ReadHeightThrows
    BY <2>2 DEF ReadHeightThrows
  <2>3. CASE AskStartHash
    BY <2>3 DEF AskStartHash
  <2>4. CASE StartupThrows
    BY <2>4 DEF StartupThrows, Forget
  <2>5. CASE RepairRows
    BY <2>5 DEF RepairRows, ClearRows
  <2>6. CASE RepairBlocks
    BY <2>6, LeaveMainGoes, HtType DEF RepairBlocks, ClearBlocks
  <2> QED
    BY <1>2, <2>1, <2>2, <2>3, <2>4, <2>5, <2>6
       DEF Startup
<1>3. CASE Rewind
  <2>1. CASE Keep
    <3>1. Ht[nextHash] = height
      BY <2>1, MainAtHeight DEF Keep
    <3> QED
      BY <2>1, <3>1 DEF Keep
  <2>2. CASE StartRewind
    BY <2>2 DEF StartRewind
  <2>3. CASE StepBack
    BY <2>3 DEF StepBack
  <2>4. CASE StepBackPruned
    BY <2>4 DEF StepBackPruned
  <2>5. CASE StepBackThrows
    <3>1. Ht[nextHash'] # height'
      BY <2>5, HtType DEF StepBackThrows, ControlInv, TypeOK
    <3> QED
      BY <2>5, <3>1, LeaveMainGoes DEF StepBackThrows
  <2>6. CASE Restart
    <3>1. Ht[nextHash'] # height'
      BY <2>6, HtType DEF Restart, ControlInv, TypeOK
    <3> QED
      BY <2>6, <3>1, LeaveMainGoes DEF Restart
  <2>7. CASE RewindRows
    BY <2>7 DEF RewindRows, ClearRows
  <2>8. CASE RewindBlocks
    BY <2>8 DEF RewindBlocks, ClearBlocks
  <2> QED
    BY <1>3, <2>1, <2>2, <2>3, <2>4, <2>5, <2>6, <2>7, <2>8
       DEF Rewind
<1>4. CASE Sync
  <2>1. CASE AskHash
    BY <2>1 DEF AskHash
  <2>2. CASE AskThrows
    BY <2>2, LeaveMainGoes, HtType DEF AskThrows
  <2>3. CASE FirstBlock
    BY <2>3 DEF FirstBlock, GetBlock
  <2>4. CASE EnterBlock
    BY <2>4 DEF EnterBlock
  <2>5. CASE LeaveLoop
    BY <2>5, LeaveMainGoes, HtType DEF LeaveLoop
  <2>6. CASE ProcessTx
    BY <2>6 DEF ProcessTx
  <2>7. CASE ProcessTxThrows
    BY <2>7, LeaveMainGoes, HtType DEF ProcessTxThrows
  <2>8. CASE BlockDone
    BY <2>8 DEF BlockDone
  <2>9. CASE PruneData
    BY <2>9 DEF PruneData
  <2>10. CASE PruneBlocks
    BY <2>10 DEF PruneBlocks
  <2>11. CASE PruneDone
    BY <2>11 DEF PruneDone
  <2>12. CASE BuildIndex
    BY <2>12 DEF BuildIndex
  <2>13. CASE MarkSynced
    BY <2>13 DEF MarkSynced
  <2>14. CASE PollSame
    BY <2>14 DEF PollSame
  <2>15. CASE PollChanged
    BY <2>15, LeaveMainGoes, HtType DEF PollChanged
  <2>16. CASE PollBlock
    BY <2>16 DEF PollBlock, GetBlock
  <2>17. CASE Advance
    BY <2>17, HtType DEF Advance, TypeOK
  <2>18. CASE InsertBlock
    <3>1. Ht[hash] = height /\ blocks \subseteq Block
      BY <2>18 DEF InsertBlock, ControlInv, TypeOK
    <3> QED
      BY <2>18, <3>1, HtType DEF InsertBlock, GetBlock
  <2>19. CASE GetBlockThrows
    BY <2>19, LeaveMainGoes, HtType DEF GetBlockThrows
  <2> QED
    BY <1>4, <2>1, <2>2, <2>3, <2>4, <2>5, <2>6, <2>7, <2>8, <2>9,
       <2>10, <2>11, <2>12, <2>13, <2>14, <2>15, <2>16, <2>17, <2>18, <2>19
       DEF Sync
<1>5. CASE Shutdown
  BY <1>5 DEF Shutdown, Forget
<1>6. CASE RequestStop
  BY <1>6 DEF RequestStop
<1>7. CASE Crash
  BY <1>7 DEF Crash, Forget
<1>8. ASSUME NEW b \in Block, NewTip(b) PROVE TopInv'
  BY <1>8 DEF NewTip
<1> QED
  BY <1>1, <1>2, <1>3, <1>4, <1>5, <1>6, <1>7, <1>8
     DEF Next, Thread, Environment

\* The sync state follows the place of the thread.
LEMMA StateNext ==
    ASSUME TypeOK, StateInv, [Next]_vars
    PROVE  StateInv'
<1>0. /\ nextHash \in Block /\ hash \in Block /\ height \in Int
      /\ blocks \subseteq Block
  BY DEF TypeOK
<1> USE <1>0 DEF StateInv, InSync, InBlock, SYNCED, INITIALIZING, REWINDING, STOPPED, BUSY, vars, coreVars, localVars, memberVars, dbVars, envVars
<1>1. CASE UNCHANGED vars
  BY <1>1
<1>2. CASE Startup
  <2>1. CASE ReadHeight
    BY <2>1 DEF ReadHeight
  <2>2. CASE ReadHeightThrows
    BY <2>2 DEF ReadHeightThrows
  <2>3. CASE AskStartHash
    BY <2>3 DEF AskStartHash
  <2>4. CASE StartupThrows
    BY <2>4 DEF StartupThrows, Forget
  <2>5. CASE RepairRows
    BY <2>5 DEF RepairRows, ClearRows
  <2>6. CASE RepairBlocks
    BY <2>6, LeaveMainGoes, HtType DEF RepairBlocks, ClearBlocks
  <2> QED
    BY <1>2, <2>1, <2>2, <2>3, <2>4, <2>5, <2>6
       DEF Startup
<1>3. CASE Rewind
  <2>1. CASE Keep
    BY <2>1 DEF Keep
  <2>2. CASE StartRewind
    BY <2>2 DEF StartRewind
  <2>3. CASE StepBack
    BY <2>3 DEF StepBack
  <2>4. CASE StepBackPruned
    BY <2>4 DEF StepBackPruned
  <2>5. CASE StepBackThrows
    BY <2>5, LeaveMainGoes, HtType DEF StepBackThrows
  <2>6. CASE Restart
    BY <2>6, LeaveMainGoes, HtType DEF Restart
  <2>7. CASE RewindRows
    BY <2>7 DEF RewindRows, ClearRows
  <2>8. CASE RewindBlocks
    BY <2>8 DEF RewindBlocks, ClearBlocks
  <2> QED
    BY <1>3, <2>1, <2>2, <2>3, <2>4, <2>5, <2>6, <2>7, <2>8
       DEF Rewind
<1>4. CASE Sync
  <2>1. CASE AskHash
    BY <2>1 DEF AskHash
  <2>2. CASE AskThrows
    BY <2>2, LeaveMainGoes, HtType DEF AskThrows
  <2>3. CASE FirstBlock
    BY <2>3, ConfirmationsNotZero DEF FirstBlock, GetBlock, TypeOK
  <2>4. CASE EnterBlock
    BY <2>4 DEF EnterBlock, TypeOK
  <2>5. CASE LeaveLoop
    BY <2>5, LeaveMainGoes, HtType DEF LeaveLoop
  <2>6. CASE ProcessTx
    BY <2>6 DEF ProcessTx
  <2>7. CASE ProcessTxThrows
    BY <2>7, LeaveMainGoes, HtType DEF ProcessTxThrows
  <2>8. CASE BlockDone
    BY <2>8 DEF BlockDone
  <2>9. CASE PruneData
    BY <2>9 DEF PruneData
  <2>10. CASE PruneBlocks
    BY <2>10 DEF PruneBlocks
  <2>11. CASE PruneDone
    BY <2>11 DEF PruneDone
  <2>12. CASE BuildIndex
    BY <2>12 DEF BuildIndex
  <2>13. CASE MarkSynced
    BY <2>13 DEF MarkSynced
  <2>14. CASE PollSame
    BY <2>14 DEF PollSame
  <2>15. CASE PollChanged
    BY <2>15, LeaveMainGoes, HtType DEF PollChanged
  <2>16. CASE PollBlock
    BY <2>16 DEF PollBlock, GetBlock
  <2>17. CASE Advance
    BY <2>17 DEF Advance
  <2>18. CASE InsertBlock
    BY <2>18, ConfirmationsNotZero DEF InsertBlock, GetBlock, TypeOK
  <2>19. CASE GetBlockThrows
    BY <2>19, LeaveMainGoes, HtType DEF GetBlockThrows
  <2> QED
    BY <1>4, <2>1, <2>2, <2>3, <2>4, <2>5, <2>6, <2>7, <2>8, <2>9,
       <2>10, <2>11, <2>12, <2>13, <2>14, <2>15, <2>16, <2>17, <2>18, <2>19
       DEF Sync
<1>5. CASE Shutdown
  BY <1>5 DEF Shutdown, Forget
<1>6. CASE RequestStop
  BY <1>6 DEF RequestStop
<1>7. CASE Crash
  BY <1>7 DEF Crash, Forget
<1>8. ASSUME NEW b \in Block, NewTip(b) PROVE StateInv'
  BY <1>8 DEF NewTip
<1> QED
  BY <1>1, <1>2, <1>3, <1>4, <1>5, <1>6, <1>7, <1>8
     DEF Next, Thread, Environment

\* While sound, every row of blocks can be rolled back to and the data tables
\* are the replay of the chain.
LEMMA SoundNext ==
    ASSUME TypeOK, ControlInv, TopInv, SoundInv, [Next]_vars
    PROVE  SoundInv'
<1>0. /\ nextHash \in Block /\ hash \in Block /\ height \in Int
      /\ blocks \subseteq Block
  BY DEF TypeOK
<1> USE <1>0 DEF SoundInv, RollBackInv, DataInv, Replay, InSync, InBlock, vars, coreVars, localVars, memberVars, dbVars, envVars
<1>1. CASE UNCHANGED vars
  BY <1>1, SameData DEF PruneTarget, PruneMax
<1>2. CASE Startup
  <2>1. CASE ReadHeight
    BY <2>1, SameData DEF ReadHeight
  <2>2. CASE ReadHeightThrows
    BY <2>2, SameData DEF ReadHeightThrows
  <2>3. CASE AskStartHash
    BY <2>3, SameData DEF AskStartHash
  <2>4. CASE StartupThrows
    BY <2>4, SameData DEF StartupThrows, Forget
  <2>5. CASE RepairRows
    <3>1. /\ Ht[nextHash] = height /\ \A b \in blocks : Ht[b] <= height
          /\ applied \subseteq Row
      BY <2>5 DEF RepairRows, ControlInv, TopInv, TypeOK
    <3>2. \A b \in blocks : CanRollBackTo(b) => CanRollBackTo(b)'
      BY <2>5, <3>1, ClearKeeps, HtType DEF RepairRows, ClearRows, CanRollBackTo
    <3>3. CanRollBackTo(nextHash) => applied' = Below(nextHash)
      BY <2>5, <3>1, ClearKeeps DEF RepairRows, ClearRows, CanRollBackTo
    <3>4. CanRollBackTo(nextHash) => lost <= height
      BY <3>1 DEF CanRollBackTo
    <3>5. twice \subseteq {} => twice' = {}
      BY <2>5 DEF RepairRows, ClearRows
    <3> QED
      BY <2>5, <3>2, <3>3, <3>4, <3>5 DEF RepairRows, ClearRows
  <2>6. CASE RepairBlocks
    <3>1. applied = Below(nextHash) => {r \in applied : Ht[r[1]] < height} = Below(nextHash)
      BY <2>6, BelowIsLower DEF RepairBlocks, ControlInv
    <3> QED
      BY <2>6, <3>1, SameData, LeaveMainGoes DEF RepairBlocks, ClearBlocks
  <2> QED
    BY <1>2, <2>1, <2>2, <2>3, <2>4, <2>5, <2>6
       DEF Startup
<1>3. CASE Rewind
  <2>1. CASE Keep
    <3>1. Ht[nextHash] = height /\ \A b \in blocks : Ht[b] <= height
      BY <2>1, MainAtHeight DEF Keep, TopInv
    <3>2. sound' => /\ sound /\ \A b \in blocks : CanRollBackTo(b)
                    /\ \A r \in applied : Ht[r[1]] < height
      <4>1. sound' => sound /\ ~Torn /\ \A r \in applied : Ht[r[1]] < height
        BY <2>1, Zenon DEF Keep
      <4> QED
        BY <4>1, NotTorn
    <3>3. sound' => applied = Below(nextHash) /\ lost <= height
      BY <2>1, <3>1, <3>2 DEF Keep
    <3> QED
      BY <2>1, <3>2, <3>3, SameData DEF Keep
  <2>2. CASE StartRewind
    BY <2>2, SameData DEF StartRewind
  <2>3. CASE StepBack
    <3>1. PICK own \in blocks : Ht[own] = height - 1 /\ nextHash' = own
      BY <2>3 DEF StepBack
    <3>2. \A b \in blocks : Ht[b] <= height - 1 => Ht[b] < height
      BY HtType
    <3> QED
      BY <2>3, <3>1, <3>2, SameData, HtType DEF StepBack
  <2>4. CASE StepBackPruned
    BY <2>4, SameData DEF StepBackPruned
  <2>5. CASE StepBackThrows
    <3>1. Ht[nextHash'] # height'
      BY <2>5, HtType DEF StepBackThrows, ControlInv
    <3>2. \A b \in blocks : Ht[b] < height - 1 => Ht[b] < height
      BY HtType
    <3> QED
      BY <2>5, <3>1, <3>2, SameData, LeaveMainGoes DEF StepBackThrows
  <2>6. CASE Restart
    <3>1. Ht[nextHash'] # height'
      BY <2>6, HtType DEF Restart, ControlInv
    <3>2. \A b \in blocks' : CanRollBackTo(b)'
      BY <2>6, NothingBelowFirst, HtType DEF Restart, CanRollBackTo, Linked
    <3> QED
      BY <2>6, <3>1, <3>2, LeaveMainGoes DEF Restart
  <2>7. CASE RewindRows
    <3>1. Ht[nextHash] = height /\ applied \subseteq Row
      BY <2>7 DEF RewindRows, ControlInv, TypeOK
    <3>2. \A b \in blocks : CanRollBackTo(b) /\ Ht[b] <= height => CanRollBackTo(b)'
      BY <2>7, <3>1, ClearKeeps, HtType DEF RewindRows, ClearRows, CanRollBackTo
    <3>3. CanRollBackTo(nextHash) => applied' = Below(nextHash) /\ lost <= height
      BY <2>7, <3>1, ClearKeeps DEF RewindRows, ClearRows, CanRollBackTo
    <3>5. twice \subseteq {} => twice' = {}
      BY <2>7 DEF RewindRows, ClearRows
    <3> QED
      BY <2>7, <3>1, <3>2, <3>3, <3>5 DEF RewindRows, ClearRows
  <2>8. CASE RewindBlocks
    BY <2>8, SameData DEF RewindBlocks, ClearBlocks
  <2> QED
    BY <1>3, <2>1, <2>2, <2>3, <2>4, <2>5, <2>6, <2>7, <2>8
       DEF Rewind
<1>4. CASE Sync
  <2>1. CASE AskHash
    BY <2>1, SameData DEF AskHash
  <2>2. CASE AskThrows
    <3>1. CASE pc = "rewind"
      BY <2>2, <3>1, SameData, LeaveMainGoes DEF AskThrows
    <3>2. CASE pc # "rewind"
      BY <2>2, <3>2, LeaveKeeps DEF AskThrows
    <3> QED
      BY <3>1, <3>2
  <2>3. CASE FirstBlock
    BY <2>3, SameData DEF FirstBlock, GetBlock
  <2>4. CASE EnterBlock
    BY <2>4, SameData DEF EnterBlock
  <2>5. CASE LeaveLoop
    BY <2>5, LeaveKeeps DEF LeaveLoop
  <2>6. CASE ProcessTx
    <3> DEFINE row == <<hash, txDone + 1>>
    <3>1. /\ Ht[hash] = height /\ hash = nextHash /\ txDone \in Nat
          /\ \A b \in blocks : Ht[b] <= height
      BY <2>6 DEF ProcessTx, ControlInv, TopInv, TypeOK
    <3>2. row \in Row
      <4>1. ToProcess(hash) \in Nat
        BY TxAssumption DEF ToProcess
      <4> QED
        BY <2>6, <3>1, <4>1 DEF ProcessTx, Row, RowsOf
    <3>3. \A b \in blocks : CanRollBackTo(b) => CanRollBackTo(b)'
      BY <2>6, <3>1, <3>2, GrowKeeps, HtType DEF ProcessTx, CanRollBackTo
    <3>4. ASSUME sound PROVE row \notin applied
      <4>1. row \notin Below(hash)
        BY <3>1 DEF Below
      <4> QED
        BY <2>6, <3>1, <3>4, <4>1 DEF ProcessTx
    <3>5. ASSUME applied = Below(hash) \cup ({hash} \X (1 .. txDone))
          PROVE  applied' = Below(hash) \cup ({hash} \X (1 .. txDone'))
      <4>1. {hash} \X (1 .. txDone + 1) = ({hash} \X (1 .. txDone)) \cup {row}
        BY <3>1
      <4> QED
        BY <2>6, <3>5, <4>1 DEF ProcessTx
    <3> QED
      BY <2>6, <3>3, <3>4, <3>5 DEF ProcessTx
  <2>7. CASE ProcessTxThrows
    <3>1. CASE ~sound
      BY <2>7, <3>1 DEF ProcessTxThrows
    <3>2. CASE sound
      <4>1. hash = nextHash /\ txDone \in Nat
        BY <2>7 DEF ProcessTxThrows, ControlInv, TypeOK
      <4>2. <<hash, txDone + 1>> \notin applied
        <5>1. <<hash, txDone + 1>> \notin Below(hash)
          BY <4>1 DEF Below
        <5> QED
          BY <2>7, <3>2, <4>1, <5>1 DEF ProcessTxThrows
      <4>3. UNCHANGED twice
        BY <2>7, <4>2 DEF ProcessTxThrows
      <4> QED
        BY <2>7, <4>3, LeaveKeeps DEF ProcessTxThrows
    <3> QED
      BY <3>1, <3>2
  <2>8. CASE BlockDone
    <3>1. applied = Below(hash) \cup ({hash} \X (1 .. txDone)) => applied = Ledger(hash)
      BY <2>8, LedgerSplit DEF BlockDone, RowsOf
    <3> QED
      BY <2>8, <3>1, SameData DEF BlockDone
  <2>9. CASE PruneData
    <3>1. PICK k \in StagesLeft : stage' = k /\ lost' = Larger(lost, PruneTarget(k))
      BY <2>9 DEF PruneData
    <3>2. k \in 1 .. 3 /\ PruneMax(height) # 0
      BY <3>1 DEF StagesLeft, TypeOK
    <3>3. PruneTarget(k) \in Int /\ PruneTarget(k) <= height /\ lost \in Nat
      BY <2>9, <3>2, PruneTargetBound DEF PruneData, ControlInv, InSync, InBlock, TypeOK
    <3>4. PruneTarget(stage)' = PruneTarget(k)
      BY <2>9, <3>1 DEF PruneData, PruneTarget, PruneMax
    <3>5. \A b \in blocks : CanRollBackTo(b) =>
             /\ Linked(b)'
             /\ Ht[b] >= PruneTarget(k) => lost' <= Ht[b]
      BY <2>9, <3>1, <3>3, HtType DEF PruneData, CanRollBackTo, Linked, Larger
    <3>6. lost <= height => lost' <= height
      BY <3>1, <3>3 DEF Larger
    <3> QED
      BY <2>9, <3>4, <3>5, <3>6 DEF PruneData
  <2>10. CASE PruneBlocks
    <3>1. \A b \in blocks : Linked(b) /\ lost <= Ht[b] => CanRollBackTo(b)'
      BY <2>10 DEF PruneBlocks, CanRollBackTo, Linked
    <3> QED
      BY <2>10, <3>1 DEF PruneBlocks
  <2>11. CASE PruneDone
    BY <2>11, SameData DEF PruneDone
  <2>12. CASE BuildIndex
    BY <2>12, SameData DEF BuildIndex
  <2>13. CASE MarkSynced
    BY <2>13, SameData DEF MarkSynced
  <2>14. CASE PollSame
    BY <2>14, SameData DEF PollSame
  <2>15. CASE PollChanged
    BY <2>15, LeaveKeeps DEF PollChanged
  <2>16. CASE PollBlock
    BY <2>16, SameData DEF PollBlock, GetBlock
  <2>17. CASE Advance
    <3>1. Below(nextHash') = Ledger(hash)
      BY <2>17, BelowOfNext DEF Advance, ControlInv, TypeOK
    <3>2. lost <= height => lost <= height'
      BY <2>17 DEF Advance, TypeOK
    <3> QED
      BY <2>17, <3>1, <3>2, SameData DEF Advance
  <2>18. CASE InsertBlock
    <3>1. Ht[hash] = height /\ Ht[nextHash] = height
      BY <2>18 DEF InsertBlock, ControlInv
    <3>2. applied = Below(nextHash) /\ lost <= height /\ hash = nextHash => CanRollBackTo(hash)
      BY <3>1, BelowIsLinked DEF CanRollBackTo
    <3> QED
      BY <2>18, <3>1, <3>2, SameData, HtType DEF InsertBlock, GetBlock
  <2>19. CASE GetBlockThrows
    BY <2>19, LeaveKeeps DEF GetBlockThrows
  <2> QED
    BY <1>4, <2>1, <2>2, <2>3, <2>4, <2>5, <2>6, <2>7, <2>8, <2>9,
       <2>10, <2>11, <2>12, <2>13, <2>14, <2>15, <2>16, <2>17, <2>18, <2>19
       DEF Sync
<1>5. CASE Shutdown
  <2>1. sound' => sound /\ \A b \in blocks : CanRollBackTo(b)
    <3>1. sound' => sound /\ ~Torn
      BY <1>5, Zenon DEF Shutdown
    <3> QED
      BY <3>1, NotTorn
  <2> QED
    BY <1>5, <2>1, SameData DEF Shutdown, Forget
<1>6. CASE RequestStop
  BY <1>6, SameData DEF RequestStop, PruneTarget, PruneMax
<1>7. CASE Crash
  <2>1. sound' => sound /\ \A b \in blocks : CanRollBackTo(b)
    <3>1. sound' => sound /\ ~Torn
      BY <1>7, Zenon DEF Crash
    <3> QED
      BY <3>1, NotTorn
  <2> QED
    BY <1>7, <2>1, SameData DEF Crash, Forget
<1>8. ASSUME NEW b \in Block, NewTip(b) PROVE SoundInv'
  BY <1>8, SameData DEF NewTip, PruneTarget, PruneMax
<1> QED
  BY <1>1, <1>2, <1>3, <1>4, <1>5, <1>6, <1>7, <1>8
     DEF Next, Thread, Environment

\* Who reads SYNCED reads the ledger of a block.
LEMMA SyncedNext ==
    ASSUME TypeOK, StateInv, SoundInv, SyncedIsWhole, [Next]_vars
    PROVE  SyncedIsWhole'
<1>0. /\ nextHash \in Block /\ hash \in Block /\ height \in Int
      /\ blocks \subseteq Block
  BY DEF TypeOK
<1> USE <1>0 DEF SyncedIsWhole, vars, coreVars, localVars, memberVars, dbVars, envVars
<1>1. CASE UNCHANGED vars
  BY <1>1
<1>2. CASE Startup
  <2>1. CASE ReadHeight
    BY <2>1 DEF ReadHeight, INITIALIZING, SYNCED
  <2>2. CASE ReadHeightThrows
    BY <2>2 DEF ReadHeightThrows
  <2>3. CASE AskStartHash
    <3>1. sound' => sound
      BY <2>3, Zenon DEF AskStartHash
    <3> QED
      BY <2>3, <3>1 DEF AskStartHash
  <2>4. CASE StartupThrows
    BY <2>4 DEF StartupThrows, Forget, STOPPED, SYNCED
  <2>5. CASE RepairRows
    BY <2>5 DEF RepairRows, StateInv, INITIALIZING, SYNCED
  <2>6. CASE RepairBlocks
    BY <2>6 DEF RepairBlocks, ClearBlocks
  <2> QED
    BY <1>2, <2>1, <2>2, <2>3, <2>4, <2>5, <2>6
       DEF Startup
<1>3. CASE Rewind
  <2>1. CASE Keep
    <3>1. sound' => sound
      BY <2>1, Zenon DEF Keep
    <3> QED
      BY <2>1, <3>1 DEF Keep
  <2>2. CASE StartRewind
    BY <2>2 DEF StartRewind, REWINDING, SYNCED
  <2>3. CASE StepBack
    BY <2>3 DEF StepBack
  <2>4. CASE StepBackPruned
    BY <2>4 DEF StepBackPruned
  <2>5. CASE StepBackThrows
    BY <2>5 DEF StepBackThrows
  <2>6. CASE Restart
    BY <2>6 DEF Restart, StateInv, REWINDING, SYNCED
  <2>7. CASE RewindRows
    BY <2>7 DEF RewindRows, StateInv, REWINDING, SYNCED
  <2>8. CASE RewindBlocks
    BY <2>8 DEF RewindBlocks, ClearBlocks
  <2> QED
    BY <1>3, <2>1, <2>2, <2>3, <2>4, <2>5, <2>6, <2>7, <2>8
       DEF Rewind
<1>4. CASE Sync
  <2>1. CASE AskHash
    BY <2>1 DEF AskHash
  <2>2. CASE AskThrows
    BY <2>2 DEF AskThrows
  <2>3. CASE FirstBlock
    BY <2>3 DEF FirstBlock, GetBlock
  <2>4. CASE EnterBlock
    BY <2>4 DEF EnterBlock, StateInv, TypeOK, SYNCED
  <2>5. CASE LeaveLoop
    BY <2>5 DEF LeaveLoop
  <2>6. CASE ProcessTx
    BY <2>6 DEF ProcessTx, StateInv
  <2>7. CASE ProcessTxThrows
    BY <2>7 DEF ProcessTxThrows
  <2>8. CASE BlockDone
    BY <2>8 DEF BlockDone
  <2>9. CASE PruneData
    BY <2>9 DEF PruneData
  <2>10. CASE PruneBlocks
    BY <2>10 DEF PruneBlocks
  <2>11. CASE PruneDone
    BY <2>11 DEF PruneDone
  <2>12. CASE BuildIndex
    BY <2>12 DEF BuildIndex, BUSY, SYNCED
  <2>13. CASE MarkSynced
    BY <2>13 DEF MarkSynced, SoundInv, DataInv, Replay
  <2>14. CASE PollSame
    BY <2>14 DEF PollSame
  <2>15. CASE PollChanged
    BY <2>15 DEF PollChanged, REWINDING, SYNCED
  <2>16. CASE PollBlock
    BY <2>16 DEF PollBlock, GetBlock
  <2>17. CASE Advance
    BY <2>17 DEF Advance
  <2>18. CASE InsertBlock
    BY <2>18 DEF InsertBlock, GetBlock
  <2>19. CASE GetBlockThrows
    BY <2>19 DEF GetBlockThrows
  <2> QED
    BY <1>4, <2>1, <2>2, <2>3, <2>4, <2>5, <2>6, <2>7, <2>8, <2>9,
       <2>10, <2>11, <2>12, <2>13, <2>14, <2>15, <2>16, <2>17, <2>18, <2>19
       DEF Sync
<1>5. CASE Shutdown
  BY <1>5 DEF Shutdown, Forget, STOPPED, SYNCED
<1>6. CASE RequestStop
  BY <1>6 DEF RequestStop
<1>7. CASE Crash
  BY <1>7 DEF Crash, Forget, STOPPED, SYNCED
<1>8. ASSUME NEW b \in Block, NewTip(b) PROVE SyncedIsWhole'
  BY <1>8 DEF NewTip
<1> QED
  BY <1>1, <1>2, <1>3, <1>4, <1>5, <1>6, <1>7, <1>8
     DEF Next, Thread, Environment


\* IInv is inductive.
LEMMA IInvInit == Init => IInv
<1> SUFFICES ASSUME Init PROVE IInv
  OBVIOUS
<1>1. TypeOK
  BY TypeInit
<1>2. ControlInv /\ TopInv /\ StateInv /\ SyncedIsWhole
  BY DEF Init, ControlInv, TopInv, StateInv, SyncedIsWhole, InSync, InBlock,
         STOPPED, SYNCED
<1>3. SoundInv
  <2>1. CanRollBackTo(Block1)
    <3>1. Block1 \in Block /\ Ht[Block1] = 1
      BY Block1Assumption
    <3> QED
      BY <3>1, NothingBelowFirst DEF Init, CanRollBackTo, Linked
  <2> QED
    BY <2>1 DEF Init, SoundInv, RollBackInv, DataInv, Replay, InSync, InBlock
<1> QED
  BY <1>1, <1>2, <1>3 DEF IInv

LEMMA IInvNext == IInv /\ [Next]_vars => IInv'
  BY TypeNext, ControlNext, TopNext, StateNext, SoundNext, SyncedNext DEF IInv

\* The inductive invariant holds in every behaviour (ChainAnalyzer.cpp, the phases).
THEOREM Inductive == Spec => []IInv
  BY IInvInit, IInvNext, PTL DEF Spec

\* Whatever Core's chain does, the data tables are the replay of the chain.
THEOREM ReplayHolds == Spec => []Replay
<1>1. IInv => Replay
  BY Zenon DEF IInv, SoundInv, DataInv, Replay
<1> QED
  BY <1>1, Inductive, PTL

\* No transaction is written twice.
THEOREM AppliedOnceHolds == Spec => []AppliedOnce
<1>1. IInv => AppliedOnce
  BY DEF IInv, SoundInv, AppliedOnce
<1> QED
  BY <1>1, Inductive, PTL

\* A rewind stops at a block it can roll back to.
THEOREM RollBackRightHolds == Spec => []RollBackRight
<1>1. ASSUME IInv, sound, pc = "rewindRows"
      PROVE  Linked(nextHash) /\ lost <= height
  <2>1. Ht[nextHash] = height /\ height \in Int
    BY <1>1 DEF IInv, ControlInv, TypeOK
  <2>2. nextHash \in blocks /\ \A b \in blocks : Ht[b] <= height => CanRollBackTo(b)
    BY <1>1 DEF IInv, SoundInv, RollBackInv
  <2>3. CanRollBackTo(nextHash)
    BY <2>1, <2>2
  <2> QED
    BY <2>1, <2>3 DEF CanRollBackTo
<1>2. IInv => RollBackRight
  BY <1>1 DEF RollBackRight
<1> QED
  BY <1>2, Inductive, PTL

\* SYNCED is only said of a database that is some block's ledger.
THEOREM SyncedIsWholeHolds == Spec => []SyncedIsWhole
<1>1. IInv => SyncedIsWhole
  BY DEF IInv
<1> QED
  BY <1>1, Inductive, PTL

\* insertBlock never meets a row of its height.
THEOREM InsertFreshHolds == Spec => []InsertFresh
<1>1. ASSUME IInv, pc = "nextBlock" PROVE \A b \in blocks : Ht[b] # Ht[hash]
  <2>1. Ht[hash] = height /\ \A b \in blocks : Ht[b] < height
    BY <1>1 DEF IInv, ControlInv, TopInv
  <2>2. blocks \subseteq Block
    BY <1>1 DEF IInv, TypeOK
  <2>3. \A b \in blocks : Ht[b] \in Nat
    BY <2>2, HtType
  <2> QED
    BY <2>1, <2>3
<1>2. IInv => InsertFresh
  BY <1>1 DEF InsertFresh
<1> QED
  BY <1>2, Inductive, PTL

-----------------------------------------------------------------------------
(* Which rows of table blocks there are.                                   *)

\* Core has a block of every height up to that of its tip.
LEMMA MainAtAll ==
    ASSUME TypeOK, NEW h \in Int, 0 <= h, h <= Ht[tip]
    PROVE  MainAt(h) # {}
<1>1. tip \in Block /\ Ht[tip] \in Nat
  BY HtType DEF TypeOK
<1>2. h \in 0 .. Ht[tip]
  BY <1>1
<1>3. PICK b \in Chain[tip] : Ht[b] = h
  BY <1>1, <1>2, BlockTreeAssumption
<1> QED
  BY <1>3 DEF MainAt

\* A call without a fault throws only for a height that Core does not reach.
LEMMA NoThrow ==
    ASSUME TypeOK, NEW h \in Int, 0 <= h, h <= Ht[tip], faults' = 0
    PROVE  ~ CoreThrows(h)
<1>1. MainAt(h) # {} /\ faults \in Nat
  BY MainAtAll, ConfigAssumption DEF TypeOK
<1> QED
  BY <1>1 DEF CoreThrows

\* What the code knows of block 1: it is the only one of its height.
LEMMA OnlyBlock1 ==
    ASSUME NEW b \in Block, Ht[b] = 1
    PROVE  b = Block1
  BY Block1Assumption, BlockTreeAssumption

\* More rows, or fewer below what is lost.
LEMMA KeptStays ==
    ASSUME TypeOK, TypeOK', NEW h \in Int, KeptTo(h),
           \A b \in blocks : lost <= Ht[b] /\ Ht[b] <= h => b \in blocks', lost <= lost'
    PROVE  KeptTo(h)'
<1>1. lost \in Nat /\ lost' \in Nat /\ \A b \in blocks : Ht[b] \in Nat
  BY HtType DEF TypeOK
<1> SUFFICES ASSUME NEW k \in 1 .. h, lost' <= k PROVE \E b \in blocks' : Ht[b] = k
  BY DEF KeptTo
<1>2. lost <= k
  BY <1>1
<1>3. PICK b \in blocks : Ht[b] = k
  BY <1>2 DEF KeptTo
<1> QED
  BY <1>2, <1>3

\* What is kept up to a height is kept up to a lower one.
LEMMA KeptLower ==
    ASSUME NEW g \in Int, NEW h \in Int, g <= h, KeptTo(h)
    PROVE  KeptTo(g)
<1>1. 1 .. g \subseteq 1 .. h
  OBVIOUS
<1> QED
  BY <1>1 DEF KeptTo

\* What Core named as the next block is not above its tip.
NextReached == \A n \in next : Ht[n] <= Ht[tip]

\* Core answers for the heights up to its tip's only.
LEMMA MainAtReached ==
    ASSUME TypeOK, NEW h, MainAt(h) # {}
    PROVE  h \in Int /\ h <= Ht[tip]
<1>1. PICK b \in Chain[tip] : Ht[b] = h
  BY DEF MainAt
<1>2. tip \in Block /\ tip \in Chain[tip] /\ b \in Block /\ Ht[b] \in Nat
  BY <1>1, BlockTreeAssumption DEF TypeOK
<1>3. Chain[tip] = {d \in Chain[tip] : Ht[d] <= Ht[tip]}
  BY <1>2, BlockTreeAssumption
<1> QED
  BY <1>1, <1>2, <1>3

LEMMA NextIsReached ==
    ASSUME TypeOK, NEW b, next' = NextOf(b), UNCHANGED tip
    PROVE  NextReached'
<1>1. \A n \in NextOf(b) : n \in MainAt(Ht[n])
  BY DEF NextOf, MainAt
<1>2. \A n \in NextOf(b) : Ht[n] <= Ht[tip]
  BY <1>1, MainAtReached
<1> QED
  BY <1>2 DEF NextReached

\* A step that leaves the tables and the members alone, and goes on.
LEMMA KeptGoesOn ==
    ASSUME TypeOK, TypeOK', AllKept, UNCHANGED <<blocks, lost, height, tip>>, NextReached',
           \/ pc' = pc /\ UNCHANGED <<nextHash, stage>>
           \/ pc' \in {"down", "shutdown"}
           \/ pc' \in {"repairBlocks", "rewind", "rewindBlocks"}
                        \cup (InSync \ {"nextHash", "nextBlock", "unreachable"})
              /\ pc \in {"repairRows", "repairBlocks", "rewind", "rewindRows", "rewindBlocks"}
                           \cup (InSync \ {"nextHash", "nextBlock"})
              /\ (pc' = "rewind" => Ht[nextHash'] = height)
    PROVE  AllKept'
<1>1. \A h : KeptTo(h)' <=> KeptTo(h)
  BY DEF KeptTo
<1>2. /\ pc' = "unreachable" => pc = "unreachable" /\ stage' = stage
      /\ PruneTarget(stage)' = PruneTarget(stage')
  BY DEF InSync, InBlock, PruneTarget, PruneMax
<1> QED
  BY <1>1, <1>2 DEF AllKept, KeptTo, InSync, InBlock, NextReached

\* The process ends.
LEMMA KeptInTables ==
    ASSUME AllKept, Forget, UNCHANGED <<blocks, lost, tip>>
    PROVE  AllKept'
<1>1. \A h : KeptTo(h)' <=> KeptTo(h)
  BY DEF KeptTo
<1> QED
  BY <1>1 DEF AllKept, Forget, InSync, InBlock

\* The rows above a height that Core has go.
LEMMA KeptBelow ==
    ASSUME TypeOK, TypeOK', AllKept, ClearBlocks, UNCHANGED <<height, nextHash, next, tip>>,
           KeptTo(height), 1 <= height, height <= Ht[tip], Ht[nextHash] = height,
           pc' \in {"rewind", "shutdown", "sync"}
    PROVE  AllKept'
<1>1. /\ height \in Int /\ blocks' = {b \in blocks : Ht[b] <= height} /\ lost' = lost /\ lost \in Nat
      /\ \A b \in blocks : Ht[b] \in Nat
  BY HtType DEF TypeOK, ClearBlocks
<1>2. KeptTo(height)'
  <2>1. KeptTo(height) /\ \A b \in blocks : lost <= Ht[b] /\ Ht[b] <= height => b \in blocks'
    BY <1>1
  <2>2. \A k \in 1 .. height : lost' <= k => \E b \in blocks' : Ht[b] = k
    BY <1>1, <2>1 DEF KeptTo
  <2> QED BY <2>2 DEF KeptTo
<1>3. \A b \in blocks' : Ht[b] >= 1 /\ KeptTo(Ht[b])'
  <2> SUFFICES ASSUME NEW b \in blocks' PROVE Ht[b] >= 1 /\ KeptTo(Ht[b])'
    OBVIOUS
  <2>1. b \in blocks /\ Ht[b] \in Int /\ Ht[b] <= height /\ Ht[b] >= 1 /\ KeptTo(Ht[b])
    BY <1>1 DEF AllKept
  <2>2. \A c \in blocks : lost <= Ht[c] /\ Ht[c] <= Ht[b] => c \in blocks'
    BY <1>1, <2>1
  <2> QED BY <2>1, <2>2, <1>1, KeptStays
<1> QED
  BY <1>2, <1>3 DEF AllKept, InSync, InBlock

\* What is known to have gone wrong stays known.
LEMMA HolesStay ==
    ASSUME TypeOK, [Next]_vars, sound', faults' = 0
    PROVE  sound /\ faults = 0
<1>0. faults \in Nat /\ sound \in BOOLEAN
  BY ConfigAssumption DEF TypeOK
<1>1. \A h : CoreThrows(h) => faults = 0
  BY <1>0 DEF CoreThrows
<1>2. CASE UNCHANGED vars
  BY <1>2 DEF vars, envVars
<1>3. CASE Startup
  BY <1>0, <1>1, <1>3
     DEF Startup, ReadHeight, ReadHeightThrows, AskStartHash, StartupThrows, RepairRows, RepairBlocks,
         vars, envVars
<1>4. CASE Rewind
  BY <1>0, <1>1, <1>4
     DEF Rewind, Keep, StartRewind, StepBack, StepBackPruned, StepBackThrows, Restart, RewindRows,
         RewindBlocks, envVars
<1>5. CASE Sync
  <2>1. CASE AskHash \/ AskThrows \/ FirstBlock \/ EnterBlock \/ LeaveLoop \/ ProcessTx
             \/ BlockDone \/ PruneData \/ PruneBlocks \/ PruneDone
    BY <1>0, <1>1, <2>1
       DEF AskHash, AskThrows, FirstBlock, EnterBlock, LeaveLoop, ProcessTx, BlockDone, PruneData,
           PruneBlocks, PruneDone, envVars
  <2>2. CASE ProcessTxThrows
    BY <1>0, <2>2 DEF ProcessTxThrows
  <2>3. CASE BuildIndex \/ MarkSynced
    BY <1>0, <2>3 DEF BuildIndex, MarkSynced, envVars
  <2>4. CASE PollSame \/ PollChanged \/ PollBlock \/ Advance \/ InsertBlock
    BY <1>0, <2>4 DEF PollSame, PollChanged, PollBlock, Advance, InsertBlock, envVars
  <2>5. CASE GetBlockThrows
    BY <1>0, <2>5 DEF GetBlockThrows
  <2> QED
    BY <1>5, <2>1, <2>2, <2>3, <2>4, <2>5 DEF Sync
<1>6. CASE Shutdown \/ Environment
  BY <1>0, <1>6 DEF Shutdown, Environment, RequestStop, Crash, NewTip, envVars
<1> QED
  BY <1>2, <1>3, <1>4, <1>5, <1>6 DEF Next, Thread

\* Without rows the analyzer steps back, restarts and fails, until it is stopped.
LEMMA NoneKeptNext ==
    ASSUME TypeOK, ControlInv, NoneKept, [Next]_vars
    PROVE  NoneKept'
<1>0. /\ blocks = {} /\ pc \in {"down", "rewind", "rewindStep", "restart", "shutdown"}
      /\ nextHash \in Block /\ height \in Int /\ Ht[nextHash] \in Nat
      /\ pc = "rewind" => Ht[nextHash] > height
      /\ pc = "rewindStep" => Ht[nextHash] >= height
      /\ pc = "restart" => Ht[nextHash] > height
  BY HtType DEF NoneKept, TypeOK, ControlInv
<1> USE <1>0 DEF NoneKept
<1>1. CASE UNCHANGED vars
  BY <1>1 DEF vars, memberVars, dbVars
<1>2. CASE Startup
  BY <1>2 DEF Startup, ReadHeight, ReadHeightThrows, AskStartHash, StartupThrows, RepairRows, RepairBlocks,
              vars, memberVars, dbVars
<1>3. CASE Rewind
  <2>1. CASE Keep
    BY <2>1, MainAtHeight DEF Keep
  <2>2. CASE StartRewind
    BY <2>2 DEF StartRewind, dbVars
  <2>3. CASE StepBack
    BY <2>3 DEF StepBack
  <2>4. CASE StepBackPruned
    BY <2>4 DEF StepBackPruned, dbVars
  <2>5. CASE StepBackThrows
    BY <2>5, LeaveMainGoes DEF StepBackThrows, dbVars
  <2>6. CASE Restart
    BY <2>6, LeaveMainGoes DEF Restart, memberVars
  <2>7. CASE RewindRows \/ RewindBlocks
    BY <2>7 DEF RewindRows, RewindBlocks
  <2> QED
    BY <1>3, <2>1, <2>2, <2>3, <2>4, <2>5, <2>6, <2>7 DEF Rewind
<1>4. CASE Sync
  <2>1. AskThrows
    BY <1>4 DEF Sync, AskHash, FirstBlock, EnterBlock, LeaveLoop, ProcessTx, ProcessTxThrows, BlockDone,
                PruneData, PruneBlocks, PruneDone, BuildIndex, MarkSynced, PollSame, PollChanged, PollBlock,
                Advance, InsertBlock, GetBlockThrows
  <2> QED
    BY <2>1, LeaveMainGoes DEF AskThrows, memberVars, dbVars
<1>5. CASE Shutdown \/ Crash
  BY <1>5 DEF Shutdown, Crash, Forget, dbVars
<1>6. CASE RequestStop
  BY <1>6 DEF RequestStop, memberVars, dbVars
<1>7. ASSUME NEW b \in Block, NewTip(b) PROVE NoneKept'
  BY <1>7 DEF NewTip, memberVars, dbVars
<1> QED
  BY <1>1, <1>2, <1>3, <1>4, <1>5, <1>6, <1>7 DEF Next, Thread, Environment


\* The start of the program.
LEMMA StartupKeepsRows ==
    ASSUME IInv, TypeOK', AllKept, Startup, sound, faults' = 0
    PROVE  AllKept'
<1>0. TypeOK /\ ControlInv
  BY DEF IInv
<1>1. \A b \in blocks : Ht[b] \in Int /\ Ht[b] >= 1 /\ KeptTo(Ht[b])
  BY <1>0, HtType DEF AllKept, TypeOK
<1>2. CASE ReadHeight
  <2>1. PICK b \in blocks : height' = Ht[b]
    BY <1>2 DEF ReadHeight
  <2>2. UNCHANGED <<blocks, lost, next, tip>> /\ pc' = "startup"
    BY <1>2 DEF ReadHeight, dbVars, localVars, coreVars
  <2>3. \A h : KeptTo(h)' <=> KeptTo(h)
    BY <2>2 DEF KeptTo
  <2> QED
    BY <1>1, <2>1, <2>2, <2>3 DEF AllKept, InSync, InBlock
<1>3. CASE ReadHeightThrows
  BY <1>0, <1>3, KeptGoesOn
     DEF ReadHeightThrows, vars, dbVars, localVars, memberVars, coreVars, AllKept, NextReached
<1>4. CASE AskStartHash
  <2>1. height \in Int /\ height <= Ht[tip] /\ 1 <= height /\ KeptTo(height)
    BY <1>0, <1>4, MainAtReached DEF AskStartHash, AllKept
  <2>2. UNCHANGED <<blocks, lost, next, height, tip>> /\ pc' = "repairRows"
    BY <1>4 DEF AskStartHash, dbVars, localVars, coreVars
  <2>3. \A h : KeptTo(h)' <=> KeptTo(h)
    BY <2>2 DEF KeptTo
  <2> QED
    BY <2>1, <2>2, <2>3 DEF AllKept, InSync, InBlock
<1>5. CASE StartupThrows
  BY <1>5, KeptInTables DEF StartupThrows, dbVars, coreVars
<1>6. CASE RepairRows
  BY <1>0, <1>6, KeptGoesOn
     DEF RepairRows, ClearRows, localVars, memberVars, coreVars, AllKept, NextReached
<1>7. CASE RepairBlocks
  <2>1. KeptTo(height) /\ 1 <= height /\ height <= Ht[tip] /\ Ht[nextHash] = height
    BY <1>0, <1>7 DEF RepairBlocks, AllKept, ControlInv
  <2>2. pc' \in {"rewind", "shutdown", "sync"} /\ UNCHANGED <<height, nextHash, next, tip>> /\ ClearBlocks
    BY <1>7, LeaveMainGoes DEF RepairBlocks, localVars, memberVars, coreVars
  <2> QED
    BY <1>0, <2>1, <2>2, KeptBelow
<1> QED
  BY <1>2, <1>3, <1>4, <1>5, <1>6, <1>7 DEF Startup

\* A rewind, which gives up only where pruning took the row away.
LEMMA RewindKeepsRows ==
    ASSUME IInv, TypeOK', AllKept, Rewind, sound, faults' = 0
    PROVE  AllKept' \/ NoneKept'
<1>0. /\ TypeOK /\ ControlInv /\ RollBackInv /\ height \in Int /\ lost \in Nat
      /\ nextHash \in Block /\ \A b \in blocks : b \in Block /\ Ht[b] \in Nat
  BY HtType DEF IInv, SoundInv, TypeOK
<1>1. CASE Keep
  BY <1>0, <1>1, KeptGoesOn
     DEF Keep, localVars, memberVars, dbVars, coreVars, AllKept, NextReached, InSync, InBlock
<1>2. CASE StartRewind
  <2>1. /\ pc = "rewind" /\ MainAt(height) # {} /\ nextHash \notin MainAt(height)
        /\ UNCHANGED <<blocks, lost, next, height, tip>> /\ pc' = "rewindStep"
    BY <1>2 DEF StartRewind, dbVars, localVars, coreVars
  <2>2. Ht[nextHash] = height /\ KeptTo(height) /\ 1 <= height /\ height <= Ht[tip]
    BY <2>1 DEF AllKept
  <2>3. PICK b \in Block : b \in MainAt(height) /\ Ht[b] = height
    BY <1>0, <2>1, MainAtHeight
  <2>4. height # 1
    BY <1>0, <2>1, <2>2, <2>3, OnlyBlock1
  <2>5. KeptTo(height - 1)
    BY <1>0, <2>2, KeptLower
  <2>6. \A h : KeptTo(h)' <=> KeptTo(h)
    BY <2>1 DEF KeptTo
  <2> QED
    BY <1>0, <2>1, <2>2, <2>4, <2>5, <2>6 DEF AllKept, InSync, InBlock
<1>3. CASE StepBack
  <2>1. PICK b \in MainAt(height - 1), own \in blocks :
              Ht[own] = height - 1 /\ pc' = IF b = own THEN "rewindRows" ELSE "rewindStep"
    BY <1>3 DEF StepBack
  <2>2. UNCHANGED <<blocks, lost, next, tip>> /\ height' = height - 1 /\ pc = "rewindStep"
    BY <1>3 DEF StepBack, dbVars, localVars, coreVars
  <2>3. 2 <= height /\ KeptTo(height - 1) /\ height <= Ht[tip] /\ Ht[tip] \in Nat
    BY <1>0, <2>2, HtType DEF AllKept, TypeOK
  <2>4. b \in Block /\ Ht[b] = height - 1
    BY <1>0, <2>1, MainAtHeight
  <2>5. pc' = "rewindStep" => height - 1 # 1
    BY <1>0, <2>1, <2>4, OnlyBlock1
  <2>6. KeptTo(height' - 1)
    BY <1>0, <2>2, <2>3, KeptLower
  <2>7. \A h : KeptTo(h)' <=> KeptTo(h)
    BY <2>2 DEF KeptTo
  <2>8. pc' \in {"rewindRows", "rewindStep"}
    BY <2>1
  <2> QED
    BY <1>0, <2>2, <2>3, <2>5, <2>6, <2>7, <2>8 DEF AllKept, InSync, InBlock
<1>4. CASE StepBackPruned
  <2>1. /\ pc = "rewindStep" /\ height' = height - 1 /\ pc' = "restart"
        /\ ~ \E own \in blocks : Ht[own] = height - 1
        /\ UNCHANGED <<blocks, lost, next, tip>>
    BY <1>4 DEF StepBackPruned, dbVars, localVars, coreVars
  <2>2. 2 <= height /\ KeptTo(height - 1) /\ height <= Ht[tip] /\ Ht[tip] \in Nat
    BY <1>0, <2>1, HtType DEF AllKept, TypeOK
  <2>3. height - 1 < lost
    <3>1. height - 1 \in 1 .. (height - 1)
      BY <1>0, <2>2
    <3> QED BY <1>0, <3>1, <2>1, <2>2 DEF KeptTo
  <2>4. ASSUME NEW b \in blocks PROVE Ht[b] > 1
    <3>1. Ht[b] \in Nat /\ Ht[b] >= 1
      BY <1>0 DEF AllKept
    <3>2. Ht[b] < height => lost <= Ht[b]
      BY <1>0, <2>1 DEF RollBackInv, CanRollBackTo
    <3> QED BY <1>0, <2>2, <2>3, <3>1, <3>2
  <2>5. \A h : KeptTo(h)' <=> KeptTo(h)
    BY <2>1 DEF KeptTo
  <2> QED
    BY <1>0, <2>1, <2>2, <2>3, <2>4, <2>5 DEF AllKept, InSync, InBlock
<1>5. CASE StepBackThrows
  <2>1. 0 <= height - 1 /\ height - 1 <= Ht[tip] /\ CoreThrows(height - 1) /\ height - 1 \in Int
    <3>1. Ht[tip] \in Nat /\ pc = "rewindStep" /\ CoreThrows(height - 1)
      BY <1>0, <1>5, HtType DEF TypeOK, StepBackThrows
    <3> QED BY <3>1, <1>0 DEF AllKept
  <2> QED
    BY <1>0, <2>1, NoThrow
<1>6. CASE Restart
  <2>1. pc = "restart" /\ blocks' = {b \in blocks : Ht[b] <= 1} /\ UNCHANGED <<height, nextHash>>
    BY <1>6 DEF Restart, memberVars
  <2>2. \A b \in blocks : Ht[b] > 1
    BY <2>1 DEF AllKept
  <2>3. blocks' = {}
    BY <1>0, <2>1, <2>2
  <2>4. pc' \in {"rewind", "shutdown"}
    BY <1>6, LeaveMainGoes DEF Restart
  <2> QED
    BY <1>0, <2>1, <2>3, <2>4 DEF NoneKept, ControlInv
<1>7. CASE RewindRows
  BY <1>0, <1>7, KeptGoesOn
     DEF RewindRows, ClearRows, localVars, memberVars, coreVars, AllKept, NextReached
<1>8. CASE RewindBlocks
  <2>1. KeptTo(height) /\ 1 <= height /\ height <= Ht[tip] /\ Ht[nextHash] = height
    BY <1>0, <1>8 DEF RewindBlocks, AllKept, ControlInv
  <2>2. pc' \in {"rewind", "shutdown", "sync"} /\ UNCHANGED <<height, nextHash, next, tip>> /\ ClearBlocks
    BY <1>8 DEF RewindBlocks, localVars, memberVars, coreVars
  <2> QED
    BY <1>0, <2>1, <2>2, KeptBelow
<1> QED
  BY <1>1, <1>2, <1>3, <1>4, <1>5, <1>6, <1>7, <1>8 DEF Rewind


\* A block is processed and the next one fetched; the rows that a prune takes
\* away are those it lost the history of.
LEMMA SyncKeepsRows ==
    ASSUME IInv, TypeOK', AllKept, Sync, sound, faults' = 0
    PROVE  AllKept'
<1>0. /\ TypeOK /\ ControlInv /\ height \in Int /\ lost \in Nat /\ faults \in Nat
      /\ nextHash \in Block /\ hash \in Block /\ Ht[tip] \in Nat
      /\ \A b \in blocks : b \in Block /\ Ht[b] \in Nat
  BY HtType, ConfigAssumption DEF IInv, TypeOK
<1>1. NextReached
  BY DEF AllKept, NextReached
<1>2. CASE AskHash
  <2>1. UNCHANGED <<blocks, lost, next, height, nextHash, tip>>
    BY <1>2 DEF AskHash, dbVars, memberVars, coreVars
  <2>2. CASE pc = "sync"
    BY <1>0, <1>1, <1>2, <2>1, <2>2, KeptGoesOn DEF AskHash, NextReached, InSync, InBlock
  <2>3. CASE pc = "nextHash"
    <3>1. \A h : KeptTo(h)' <=> KeptTo(h)
      BY <2>1 DEF KeptTo
    <3>2. pc' = "nextBlock"
      BY <1>2, <2>3 DEF AskHash
    <3> QED
      BY <2>1, <2>3, <3>1, <3>2 DEF AllKept, InSync, InBlock
  <2> QED
    BY <1>2, <2>2, <2>3 DEF AskHash
<1>3. CASE AskThrows
  <2>1. pc \in {"rewind", "sync", "nextHash", "poll"} /\ CoreThrows(height)
    BY <1>3 DEF AskThrows
  <2>2. 0 <= height /\ height <= Ht[tip]
    BY <1>0, <2>1 DEF AllKept
  <2> QED
    BY <1>0, <2>1, <2>2, NoThrow
<1>4. CASE FirstBlock \/ PollBlock
  <2>1. next' = NextOf(hash) /\ UNCHANGED <<blocks, lost, height, nextHash, stage, tip>>
    BY <1>4 DEF FirstBlock, PollBlock, GetBlock, dbVars, memberVars, coreVars
  <2>2. NextReached'
    BY <1>0, <2>1, NextIsReached
  <2>3. pc \in {"syncBlock", "pollBlock"} /\ pc' \in {"loop", "tip"}
    BY <1>4 DEF FirstBlock, PollBlock
  <2> QED
    BY <1>0, <2>1, <2>2, <2>3, KeptGoesOn DEF InSync, InBlock
<1>5. CASE EnterBlock \/ LeaveLoop
  <2>1. UNCHANGED <<blocks, lost, next, height, nextHash, tip>> /\ pc = "loop"
    BY <1>5 DEF EnterBlock, LeaveLoop, dbVars, localVars, memberVars, coreVars
  <2>2. pc' \in {"tx", "rewind", "shutdown"}
    BY <1>5, LeaveMainGoes DEF EnterBlock, LeaveLoop
  <2>3. Ht[nextHash] = height
    BY <1>0, <2>1 DEF ControlInv, InSync, InBlock
  <2> QED
    BY <1>0, <1>1, <2>1, <2>2, <2>3, KeptGoesOn DEF NextReached, InSync, InBlock
<1>6. CASE ProcessTx \/ BlockDone
  <2>1. UNCHANGED <<blocks, lost, next, height, nextHash, tip>> /\ pc = "tx" /\ pc' \in {"tx", "prune"}
    BY <1>6 DEF ProcessTx, BlockDone, dbVars, memberVars, coreVars
  <2> QED
    BY <1>0, <1>1, <2>1, KeptGoesOn DEF NextReached, InSync, InBlock
<1>7. CASE ProcessTxThrows
  <2>1. UNCHANGED <<blocks, lost, next, height, nextHash, tip>> /\ pc = "tx"
    BY <1>7 DEF ProcessTxThrows, localVars, memberVars, coreVars
  <2>2. pc' \in {"rewind", "shutdown"}
    BY <1>7, LeaveMainGoes DEF ProcessTxThrows
  <2>3. Ht[nextHash] = height
    BY <1>0, <2>1 DEF ControlInv, InSync, InBlock
  <2> QED
    BY <1>0, <1>1, <2>1, <2>2, <2>3, KeptGoesOn DEF NextReached, InSync, InBlock
<1>8. CASE PruneData
  <2>1. /\ pc = "prune" /\ pc' = "unreachable"
        /\ UNCHANGED <<blocks, next, height, nextHash, tip>>
        /\ stage' \in 1 .. 3 /\ lost' = Larger(lost, PruneTarget(stage'))
    BY <1>8 DEF PruneData, memberVars, coreVars, StagesLeft, TypeOK
  <2>2. PruneTarget(stage') \in Int
    BY <1>0, <2>1, PruneTargetType
  <2>3. lost <= lost' /\ PruneTarget(stage') <= lost'
    BY <1>0, <2>1, <2>2 DEF Larger
  <2>4. PruneTarget(stage)' = PruneTarget(stage')
    BY <2>1 DEF PruneTarget, PruneMax
  <2>5. \A h \in Int : KeptTo(h) => KeptTo(h)'
    BY <1>0, <2>1, <2>3, KeptStays
  <2> QED
    BY <1>0, <2>1, <2>3, <2>4, <2>5 DEF AllKept, InSync, InBlock
<1>9. CASE PruneBlocks
  <2>1. /\ pc = "unreachable" /\ pc' = "prune" /\ UNCHANGED <<lost, next, height, nextHash, tip>>
        /\ blocks' = {b \in blocks : Ht[b] >= PruneTarget(stage)}
    BY <1>9 DEF PruneBlocks, memberVars, coreVars
  <2>2. PruneTarget(stage) \in Int /\ PruneTarget(stage) <= lost
    BY <1>0, <2>1, PruneTargetType DEF AllKept, TypeOK
  <2>3. \A b \in blocks : lost <= Ht[b] => b \in blocks'
    BY <1>0, <2>1, <2>2
  <2>4. \A h \in Int : KeptTo(h) => KeptTo(h)'
    BY <1>0, <2>1, <2>3, KeptStays
  <2> QED
    BY <1>0, <2>1, <2>4 DEF AllKept, InSync, InBlock
<1>10. CASE PruneDone \/ BuildIndex \/ MarkSynced \/ PollSame
  <2>1. UNCHANGED <<blocks, lost, next, height, nextHash, tip>>
    BY <1>10 DEF PruneDone, BuildIndex, MarkSynced, PollSame, dbVars, localVars, memberVars, coreVars
  <2>2. pc \in {"prune", "tip", "indexed", "poll"} /\ pc' \in {"tip", "indexed", "poll", "pollBlock"}
    BY <1>10 DEF PruneDone, BuildIndex, MarkSynced, PollSame
  <2> QED
    BY <1>0, <1>1, <2>1, <2>2, KeptGoesOn DEF NextReached, InSync, InBlock
<1>11. CASE PollChanged
  <2>1. UNCHANGED <<blocks, lost, next, height, nextHash, tip>> /\ pc = "poll"
    BY <1>11 DEF PollChanged, dbVars, localVars, coreVars
  <2>2. pc' \in {"rewind", "shutdown"}
    BY <1>11, LeaveMainGoes DEF PollChanged
  <2>3. Ht[nextHash] = height
    BY <1>0, <2>1 DEF ControlInv, InSync, InBlock
  <2> QED
    BY <1>0, <1>1, <2>1, <2>2, <2>3, KeptGoesOn DEF NextReached, InSync, InBlock
<1>12. CASE Advance
  <2>1. PICK n \in next : nextHash' = n
    BY <1>12 DEF Advance
  <2>2. /\ pc = "tip" /\ pc' = "nextHash" /\ height' = height + 1
        /\ UNCHANGED <<blocks, lost, next, tip>>
    BY <1>12 DEF Advance, dbVars, localVars, coreVars
  <2>3. Ht[n] = height + 1 /\ Ht[n] <= Ht[tip] /\ KeptTo(height) /\ 1 <= height
    BY <2>2, <1>0 DEF AllKept, ControlInv, InSync, InBlock
  <2>4. \A h : KeptTo(h)' <=> KeptTo(h)
    BY <2>2 DEF KeptTo
  <2>5. height' - 1 = height /\ 2 <= height' /\ height' <= Ht[tip]
    BY <1>0, <2>2, <2>3
  <2> QED
    BY <2>2, <2>3, <2>4, <2>5 DEF AllKept, InSync, InBlock
<1>13. CASE InsertBlock
  <2>1. /\ pc = "nextBlock" /\ pc' = "loop" /\ blocks' = blocks \cup {hash} /\ next' = NextOf(hash)
        /\ UNCHANGED <<lost, height, nextHash, tip>>
    BY <1>13 DEF InsertBlock, GetBlock, memberVars, coreVars
  <2>2. NextReached'
    BY <1>0, <2>1, NextIsReached
  <2>3. Ht[hash] = height /\ 2 <= height /\ height <= Ht[tip] /\ KeptTo(height - 1)
    BY <1>0, <2>1 DEF AllKept, ControlInv
  <2>4. \A h \in Int : KeptTo(h) => KeptTo(h)'
    BY <1>0, <2>1, KeptStays
  <2>5. KeptTo(height)'
    <3> SUFFICES ASSUME NEW k \in 1 .. height, lost <= k PROVE \E b \in blocks' : Ht[b] = k
      BY <2>1 DEF KeptTo
    <3>1. CASE k = height
      BY <2>1, <2>3, <3>1
    <3>2. CASE k # height
      <4>1. k \in 1 .. (height - 1)
        BY <1>0, <3>2
      <4> QED BY <4>1, <2>1, <2>3 DEF KeptTo
    <3> QED BY <3>1, <3>2
  <2> QED
    BY <1>0, <2>1, <2>2, <2>3, <2>4, <2>5 DEF AllKept, NextReached, InSync, InBlock
<1>14. CASE GetBlockThrows
  BY <1>0, <1>14 DEF GetBlockThrows
<1> QED
  BY <1>2, <1>3, <1>4, <1>5, <1>6, <1>7, <1>8, <1>9, <1>10, <1>11, <1>12, <1>13, <1>14 DEF Sync

\* RowsInv is inductive relative to IInv.
LEMMA RowsInit == Init => RowsInv
<1> SUFFICES ASSUME Init PROVE AllKept
  BY DEF RowsInv
<1>1. Ht[Block1] = 1
  BY Block1Assumption
<1>2. KeptTo(1)
  BY <1>1 DEF Init, KeptTo
<1> QED
  BY <1>1, <1>2 DEF Init, AllKept, InSync, InBlock

LEMMA RowsNext == IInv /\ RowsInv /\ [Next]_vars => RowsInv'
<1> SUFFICES ASSUME IInv, RowsInv, [Next]_vars, ~LowerTips, sound', faults' = 0
             PROVE  AllKept' \/ NoneKept'
  BY DEF RowsInv
<1>1. TypeOK /\ ControlInv /\ TypeOK'
  BY TypeNext DEF IInv
<1>2. sound /\ faults = 0
  BY <1>1, HolesStay
<1>3. CASE NoneKept
  BY <1>1, <1>3, NoneKeptNext
<1>4. CASE AllKept
  <2>0. NextReached
    BY <1>4 DEF AllKept, NextReached
  <2>1. CASE UNCHANGED vars
    BY <1>1, <1>4, <2>0, <2>1, KeptGoesOn DEF vars, dbVars, memberVars, localVars, coreVars, NextReached
  <2>2. CASE Startup
    BY <1>1, <1>2, <1>4, <2>2, StartupKeepsRows
  <2>3. CASE Rewind
    BY <1>1, <1>2, <1>4, <2>3, RewindKeepsRows
  <2>4. CASE Sync
    BY <1>1, <1>2, <1>4, <2>4, SyncKeepsRows
  <2>5. CASE Shutdown \/ Crash
    BY <1>4, <2>5, KeptInTables DEF Shutdown, Crash, dbVars, coreVars
  <2>6. CASE RequestStop
    BY <1>1, <1>4, <2>0, <2>6, KeptGoesOn
       DEF RequestStop, dbVars, memberVars, localVars, coreVars, NextReached
  <2>7. ASSUME NEW b \in Block, NewTip(b) PROVE AllKept'
    <3>1. /\ UNCHANGED <<pc, blocks, lost, next, height, nextHash, stage>>
          /\ tip' = b /\ Ht[tip] <= Ht[b]
      BY <2>7, HtType, <1>1 DEF NewTip, localVars, memberVars, dbVars, TypeOK
    <3>2. /\ \A h : KeptTo(h)' <=> KeptTo(h)
          /\ PruneTarget(stage)' = PruneTarget(stage)
      BY <3>1 DEF KeptTo, PruneTarget, PruneMax
    <3>3. /\ Ht[tip] \in Nat /\ Ht[tip'] \in Nat /\ height \in Int
          /\ \A n \in next : Ht[n] \in Nat
      BY <1>1, HtType DEF TypeOK
    <3>4. \A h \in Int : h <= Ht[tip] => h <= Ht[tip']
      BY <3>1, <3>3
    <3> QED
      BY <1>4, <3>1, <3>2, <3>3, <3>4 DEF AllKept
  <2> QED
    BY <2>1, <2>2, <2>3, <2>4, <2>5, <2>6, <2>7 DEF Next, Thread, Environment
<1> QED
  BY <1>2, <1>3, <1>4 DEF RowsInv

\* While Core's tip does not go down and no call fails, a rewind gives up only
\* below a height that pruning removed the history of (phaseRewind,
\* exceptionDataPruned).
THEOREM RestartOnlyPastPruneHolds == Spec => []RestartOnlyPastPrune
<1>1. RowsInv => RestartOnlyPastPrune
  BY DEF RowsInv, AllKept, NoneKept, RestartOnlyPastPrune
<1> QED
  BY <1>1, RowsInit, RowsNext, Inductive, PTL DEF Spec

-----------------------------------------------------------------------------
(* What a prune leaves.                                                     *)

\* The height a prune function binds is out of the protected depth, or no height.
LEMMA PruneTargetProtects ==
    ASSUME NEW k \in 1 .. 3, height \in Int, 0 <= height, height < HalfRange,
           PruneAge <= height \/ PruneAge <= Leniency,
           NEW h \in Nat, h < PruneTarget(k)
    PROVE  h < height - PruneAge
<1>0. HalfRange \in Nat /\ PruneAge \in Int /\ Leniency \in Nat /\ PruneAge < HalfRange /\ Leniency < HalfRange
  BY ConfigAssumption
<1> QED
  BY <1>0 DEF PruneTarget, PruneMax, AsSigned, AsUnsigned, Smaller

\* No prune takes the row of one of the _pruneAge last blocks (phasePrune).
THEOREM ProtectedDepthHolds == Spec => ProtectedDepth
<1>1. ASSUME IInv, [Next]_vars
      PROVE  [pc = "unreachable" /\ (PruneAge <= height \/ PruneAge <= Leniency) =>
                 \A b \in blocks \ blocks' : Ht[b] < height - PruneAge]_vars
  <2> SUFFICES ASSUME pc = "unreachable", PruneAge <= height \/ PruneAge <= Leniency,
                      NEW b \in blocks \ blocks'
               PROVE  Ht[b] < height - PruneAge
    OBVIOUS
  <2>1. blocks' = {c \in blocks : Ht[c] >= PruneTarget(stage)}
    <3>1. CASE PruneBlocks
      BY <3>1 DEF PruneBlocks
    <3>2. CASE ~PruneBlocks
      <4>1. blocks' = blocks
        BY <1>1, <3>2
           DEF Next, Thread, Environment, Startup, Rewind, Sync, Shutdown, RequestStop, Crash, NewTip,
               ReadHeight, ReadHeightThrows, AskStartHash, StartupThrows, RepairRows, RepairBlocks,
               Keep, StartRewind, StepBack, StepBackPruned, StepBackThrows, Restart, RewindRows, RewindBlocks,
               AskHash, AskThrows, FirstBlock, EnterBlock, LeaveLoop, ProcessTx, ProcessTxThrows, BlockDone,
               PruneData, PruneDone, BuildIndex, MarkSynced, PollSame, PollChanged, PollBlock, Advance,
               InsertBlock, GetBlockThrows, vars, dbVars
      <4> QED BY <4>1
    <3> QED BY <3>1, <3>2
  <2>2. /\ height \in Int /\ Ht[b] \in Nat /\ stage \in 1 .. 3 /\ Ht[nextHash] = height
        /\ Ht[nextHash] \in Nat /\ Ht[nextHash] < HalfRange
    BY <1>1, HtType, ConfigAssumption DEF IInv, TypeOK, ControlInv, InSync, InBlock
  <2>3. PruneTarget(stage) \in Int
    BY <2>2, PruneTargetType
  <2>4. Ht[b] < PruneTarget(stage)
    BY <2>1, <2>2, <2>3
  <2> QED
    BY <2>2, <2>4, PruneTargetProtects
<1> QED
  BY <1>1, Inductive, PTL DEF Spec, ProtectedDepth

=============================================================================

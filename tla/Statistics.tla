----------------------------- MODULE Statistics -----------------------------
(***************************************************************************)
(* The statistics of the Database (updateStats and what it calls): windows *)
(* of the chain, each summed up once when it is complete, beside the       *)
(* ChainAnalyzer that goes on writing blocks, rewinds and prunes.  Every   *)
(* statement of updateStats commits by itself.                             *)
(*                                                                         *)
(* Abstractions                                                            *)
(*   - One time frame; amounts are small, difficulties left out.           *)
(*   - An output has an owner and a worth of its own; a block makes and    *)
(*     spends some.  The blocks' times keep DigiByte's rule (external):    *)
(*     above the median of the 2 * Lag + 1 blocks before.                  *)
(*   - addStatsPerformanceIndexes changes no answer: the wait for the      *)
(*     sync is the time until the caller's next step.                      *)
(***************************************************************************)
EXTENDS Integers, FiniteSets, FiniteSetsExt, Sequences, SequencesExt

CONSTANTS
    Caller,     \* threads that answer getalgostats and getaddressstats
    Nobody,
    TimeFrame,
    Margin,     \* 10: blocks that must follow a window
    Lag,        \* 5: DigiByte's median is of 11 blocks
    Algo,
    Coin,       \* transaction outputs
    Owner,      \* [Coin -> address]
    DigiByte,   \* [Coin -> Nat]
    Assets,     \* [Coin -> Nat]
    Level,      \* balances whose owners are counted: over 0, 1, 1k, 1m
    Effect,     \* what a block may do: [made |-> ..., spent |-> ...]
    Delay,      \* a block's time less that of the block before
    MaxDepth,   \* deepest rewind
    MayTear,       \* may the process die while a window is written
    First,      \* what block 1 makes
    MaxTip,
    MaxFaults   \* bound: rewinds, prunes and deaths together

ASSUME StatisticsAssumption ==
    /\ TimeFrame \in Nat \ {0} /\ Margin \in Nat \ {0} /\ Lag \in Nat
    /\ Nobody \notin Caller
    /\ DigiByte \in [Coin -> Nat] /\ Assets \in [Coin -> Nat]
    /\ Delay \subseteq Int /\ MayTear \in BOOLEAN
    \* A rewind leaves most of the blocks that prove a window complete.
    /\ MaxDepth \in Nat /\ MaxDepth + Lag < Margin
    /\ First \subseteq Coin /\ MaxTip \in Nat /\ MaxFaults \in Nat

VARIABLES
    chain,      \* the blocks up to the tip: time, algorithm, effect
    lowest,     \* blocks below this height have no row any more
    open,       \* the tip's transactions are not in table utxoRows yet
    utxoRows,   \* table "utxos"
    unpruned,   \* nothing was ever pruned from it (history)
    canAddress, \* wasPrunedUTXOHistory and wasPrunedNonAssetUTXOHistory are clear
    tables,     \* the statistics tables that exist
    algoStats,  \* StatsAlgo
    sums,       \* StatsAddressSum
    addressStats, \* StatsAddress; "upTo" is the window's last block (history)
    flag,       \* statsBlockHeightEnd, 0 when not set
    mutex,      \* _mutexGetNextIPFSJob
    work,       \* updateStats of each caller
    faults

tableVars == <<tables, algoStats, sums, addressStats>>
chainVars == <<chain, lowest, open, utxoRows, unpruned, canAddress>>
statsVars == <<chainVars, tableVars, flag, mutex, work, faults>>

Payee == {Owner[o] : o \in Coin}
NoWork == [pc |-> "idle", asks |-> "algo", start |-> 1, endTime |-> 0, end |-> 0,
           changes |-> {}, before |-> 0, used |-> 0]
Unset == 0

Tip == Len(chain)
HasRow(h) == h \in lowest .. Tip
AddUp(f, S) == MapThenSumSet(LAMBDA o : f[o], S)

-----------------------------------------------------------------------------
(* The ChainAnalyzer's writes.                                             *)

\* External: a block's time is above the median of the blocks before it.
MayFollow(time) ==
    LET last == {h \in 1 .. Tip : h > Tip - (2 * Lag + 1)}
        below == {h \in last : chain[h].time < time}
    IN  Tip > 2 * Lag => Cardinality(below) > Lag

AddBlock ==
    /\ ~open /\ Tip < MaxTip
    /\ \E d \in Delay, a \in Algo, e \in Effect :
          /\ chain[Tip].time + d >= 0 /\ MayFollow(chain[Tip].time + d)
          /\ e.made \cap {u.out : u \in utxoRows} = {}
          /\ e.spent \subseteq {u.out : u \in {v \in utxoRows : v.destroyed = Unset}}
          /\ chain' = Append(chain, [time |-> chain[Tip].time + d, algo |-> a,
                                     made |-> e.made, spent |-> e.spent])
    /\ open' = TRUE
    /\ UNCHANGED <<lowest, utxoRows, unpruned, canAddress, tableVars, flag, mutex, work, faults>>

ProcessBlock ==
    /\ open
    /\ open' = FALSE
    /\ utxoRows' = {[u EXCEPT !.destroyed = IF u.out \in chain[Tip].spent THEN Tip ELSE @] : u \in utxoRows}
                \cup {[out |-> o, created |-> Tip, destroyed |-> Unset] : o \in chain[Tip].made}
    /\ UNCHANGED <<chain, lowest, unpruned, canAddress, tableVars, flag, mutex, work, faults>>

\* clearBlocksAboveHeight keeps the row of the block it goes back to.
RewindTip ==
    /\ faults < MaxFaults
    /\ \E h \in {b \in lowest .. Tip : b >= Tip - MaxDepth} :
          /\ utxoRows' = {[u EXCEPT !.destroyed = IF @ >= h THEN Unset ELSE @] :
                           u \in {v \in utxoRows : v.created < h}}
          /\ chain' = SubSeq(chain, 1, h)
    /\ open' = TRUE
    /\ faults' = faults + 1
    /\ UNCHANGED <<lowest, unpruned, canAddress, tableVars, flag, mutex, work>>

PruneOutputs ==
    /\ unpruned /\ ~open /\ faults < MaxFaults
    /\ utxoRows' = {u \in utxoRows : u.destroyed = Unset \/ u.destroyed >= Tip - Margin}
    /\ unpruned' = FALSE /\ faults' = faults + 1
    /\ UNCHANGED <<chain, lowest, open, canAddress, tableVars, flag, mutex, work>>

DropHistory ==
    /\ ~unpruned /\ canAddress
    /\ lowest' = Max({lowest, Tip - Margin})
    /\ canAddress' = FALSE
    /\ UNCHANGED <<chain, open, utxoRows, unpruned, tableVars, flag, mutex, work, faults>>

-----------------------------------------------------------------------------
(* updateStats                                                             *)

At(c, label) == work[c].pc = label
Goes(c, w) == work' = [work EXCEPT ![c] = w]

\* The lock_guard goes with the return or the exception.
Leave(c, label) ==
    /\ mutex' = Nobody
    /\ work' = [work EXCEPT ![c] = [NoWork EXCEPT !.pc = label, !.asks = work[c].asks]]

CanGetAlgoStats == HasRow(1)
CanGetAddressStats == CanGetAlgoStats /\ canAddress

\* getAlgoStats and getAddressStats refuse what is pruned, and call updateStats.
Begin(c) ==
    /\ At(c, "idle")
    /\ mutex = Nobody /\ mutex' = c
    /\ \E asks \in {"algo", "address"} :
          /\ IF asks = "algo" THEN CanGetAlgoStats ELSE CanGetAddressStats
          /\ Goes(c, [NoWork EXCEPT !.pc = "time", !.asks = asks, !.start = flag + 1])
    /\ UNCHANGED <<chainVars, tableVars, flag, faults>>

\* getStatsEndTime: windows are multiples of the time frame.
EndTime(time) == (time \div TimeFrame + 1) * TimeFrame

GetStatsEndTime(c) ==
    /\ At(c, "time")
    /\ IF HasRow(work[c].start)
       THEN /\ Goes(c, [work[c] EXCEPT !.pc = "window", !.endTime = EndTime(chain[work[c].start].time)])
            /\ UNCHANGED mutex
       ELSE Leave(c, "refused")
    /\ UNCHANGED <<chainVars, tableVars, flag, faults>>

\* Seeded fault: the window is taken as soon as its blocks are there.
EndHeightAtOnce(time) == Max({0} \cup {h \in lowest .. Tip : chain[h].time < time})

\* getStatsEndBlockHeight: 0 unless Margin blocks follow.
EndHeight(time) ==
    LET before == {h \in lowest .. Tip : chain[h].time < time}
    IN  Max({0} \cup {h \in before : HasRow(Max(before) + Margin)})

GetStatsEndBlockHeight(c) ==
    /\ At(c, "window")
    /\ LET end == EndHeight(work[c].endTime)
       IN  IF end = 0 THEN Leave(c, "answer")
           ELSE Goes(c, [work[c] EXCEPT !.pc = "algo", !.end = end]) /\ UNCHANGED mutex
    /\ UNCHANGED <<chainVars, tableVars, flag, faults>>

\* CREATE TABLE in the window of block 1, which must not be there already.
Creates(c, new, label) ==
    IF work[c].start = 1 /\ new \cap tables # {}
    THEN Leave(c, "failed") /\ UNCHANGED tables
    ELSE /\ tables' = IF work[c].start = 1 THEN tables \cup new ELSE tables
         /\ Goes(c, [work[c] EXCEPT !.pc = label])
         /\ UNCHANGED mutex

CreateAlgo(c) ==
    /\ At(c, "algo")
    /\ Creates(c, {"StatsAlgo"}, "blocks")
    /\ UNCHANGED <<chainVars, algoStats, sums, addressStats, flag, faults>>

Between(c) == {h \in lowest .. Tip : h \in work[c].start .. work[c].end}

AlgoRows(c) ==
    {[time |-> work[c].endTime, algo |-> chain[h].algo,
      blocks |-> Cardinality({b \in Between(c) : chain[b].algo = chain[h].algo})] : h \in Between(c)}

\* INSERT: the keys are the window and the algorithm.
InsertAlgo(c) ==
    /\ At(c, "blocks")
    /\ IF "StatsAlgo" \in tables /\ \A r \in AlgoRows(c), s \in algoStats : r.time # s.time \/ r.algo # s.algo
       THEN /\ algoStats' = algoStats \cup AlgoRows(c)
            /\ Goes(c, [work[c] EXCEPT !.pc = IF CanGetAddressStats THEN "address" ELSE "flag"])
            /\ UNCHANGED mutex
       ELSE Leave(c, "failed") /\ UNCHANGED algoStats
    /\ UNCHANGED <<chainVars, tables, sums, addressStats, flag, faults>>

CreateAddress(c) ==
    /\ At(c, "address")
    /\ Creates(c, {"StatsAddress", "StatsAddressSum"}, "changes")
    /\ UNCHANGED <<chainVars, algoStats, sums, addressStats, flag, faults>>

\* Seeded fault: "heightCreated > ?".
ChangedAfter(from, to) ==
    LET made(a)  == {u \in utxoRows : Owner[u.out] = a /\ u.created \in from + 1 .. to}
        spent(a) == {u \in utxoRows : Owner[u.out] = a /\ u.destroyed # Unset /\ u.destroyed \in from .. to}
        net(f, a) == AddUp(f, {u.out : u \in made(a)}) - AddUp(f, {u.out : u \in spent(a)})
    IN  {[address |-> a, digibyte |-> net(DigiByte, a), assets |-> net(Assets, a),
          spent |-> spent(a) # {}] : a \in {b \in Payee : made(b) \cup spent(b) # {}}}

\* _stmtGetAddressChangesDuringPeriod: one row per address.
Changed(from, to) ==
    LET made(a)  == {u \in utxoRows : Owner[u.out] = a /\ u.created \in from .. to}
        spent(a) == {u \in utxoRows : Owner[u.out] = a /\ u.destroyed # Unset /\ u.destroyed \in from .. to}
        net(f, a) == AddUp(f, {u.out : u \in made(a)}) - AddUp(f, {u.out : u \in spent(a)})
    IN  {[address |-> a, digibyte |-> net(DigiByte, a), assets |-> net(Assets, a),
          spent |-> spent(a) # {}] : a \in {b \in Payee : made(b) \cup spent(b) # {}}}

GetChanges(c) ==
    /\ At(c, "changes")
    /\ LET changes == Changed(work[c].start, work[c].end)
       IN  IF "StatsAddressSum" \in tables
           THEN /\ Goes(c, [work[c] EXCEPT !.pc = "sums", !.changes = changes, !.before = Cardinality(sums),
                                           !.used = Cardinality({x \in changes : x.spent})])
                /\ UNCHANGED mutex
           ELSE Leave(c, "failed")
    /\ UNCHANGED <<chainVars, tableVars, flag, faults>>

\* Seeded fault: ON CONFLICT DO UPDATE SET spent = excluded.spent.
CombineLast(x) ==
    LET old == {s \in sums : s.address = x.address}
    IN  (sums \ old) \cup
        {[x EXCEPT !.digibyte = x.digibyte + MapThenSumSet(LAMBDA s : s.digibyte, old),
                   !.assets = x.assets + MapThenSumSet(LAMBDA s : s.assets, old)]}

\* ON CONFLICT(address) DO UPDATE.
Combine(x) ==
    LET old == {s \in sums : s.address = x.address}
    IN  (sums \ old) \cup
        {[x EXCEPT !.digibyte = x.digibyte + MapThenSumSet(LAMBDA s : s.digibyte, old),
                   !.assets = x.assets + MapThenSumSet(LAMBDA s : s.assets, old),
                   !.spent = x.spent \/ \E s \in old : s.spent]}

UpsertSum(c) ==
    /\ At(c, "sums")
    /\ \E x \in work[c].changes :
          /\ sums' = Combine(x)
          /\ Goes(c, [work[c] EXCEPT !.changes = @ \ {x}])
    /\ UNCHANGED <<chainVars, tables, algoStats, addressStats, flag, mutex, faults>>

\* The SELECT COUNT(*)s.
Counted(c) ==
    [time |-> work[c].endTime, upTo |-> work[c].end,
     total |-> Cardinality(sums),
     created |-> Cardinality(sums) - work[c].before,
     used |-> work[c].used,
     over |-> [l \in Level |-> Cardinality({s \in sums : s.digibyte >= l})],
     assets |-> Cardinality({s \in sums : s.assets > 0}),
     unsafe |-> Cardinality({s \in sums : s.spent /\ s.digibyte > 0})]

InsertAddressStats(c) ==
    /\ At(c, "sums") /\ work[c].changes = {}
    /\ IF \A r \in addressStats : r.time # work[c].endTime
       THEN /\ addressStats' = addressStats \cup {Counted(c)}
            /\ Goes(c, [work[c] EXCEPT !.pc = "flag"])
            /\ UNCHANGED mutex
       ELSE Leave(c, "failed") /\ UNCHANGED addressStats
    /\ UNCHANGED <<chainVars, tables, algoStats, sums, flag, faults>>

SetFlag(c) ==
    /\ At(c, "flag")
    /\ flag' = work[c].end
    /\ Goes(c, [NoWork EXCEPT !.pc = "window", !.asks = work[c].asks, !.start = work[c].end + 1,
                              !.endTime = work[c].endTime + TimeFrame])
    /\ UNCHANGED <<chainVars, tableVars, mutex, faults>>

\* The answer is all rows of its table, which must be there.
Answer(c) ==
    /\ At(c, "answer")
    /\ LET table == IF work[c].asks = "algo" THEN "StatsAlgo" ELSE "StatsAddress"
       IN  Goes(c, [NoWork EXCEPT !.pc = IF table \in tables THEN "idle" ELSE "refused"])
    /\ UNCHANGED <<chainVars, tableVars, flag, mutex, faults>>

\* The request threw; the client may ask again.
Retry(c) ==
    /\ work[c].pc \in {"refused", "failed"}
    /\ Goes(c, NoWork)
    /\ UNCHANGED <<chainVars, tableVars, flag, mutex, faults>>

\* Labels between the first write of a window and its flag.
Writing(c) == work[c].pc \in {"blocks", "address", "changes", "sums", "flag"}

\* The restart clears and processes the newest block again.
Die ==
    /\ faults < MaxFaults
    /\ (\E c \in Caller : Writing(c)) => MayTear
    /\ work' = [c \in Caller |-> NoWork] /\ mutex' = Nobody
    /\ utxoRows' = {[u EXCEPT !.destroyed = IF @ >= Tip THEN Unset ELSE @] :
                     u \in {v \in utxoRows : v.created < Tip}}
    /\ open' = TRUE
    /\ faults' = faults + 1
    /\ UNCHANGED <<chain, lowest, unpruned, canAddress, tableVars, flag>>

-----------------------------------------------------------------------------
StatsInit ==
    /\ chain = <<[time |-> 0, algo |-> CHOOSE a \in Algo : TRUE, made |-> First, spent |-> {}]>>
    /\ lowest = 1 /\ open = TRUE /\ utxoRows = {} /\ unpruned = TRUE
    /\ canAddress \in BOOLEAN
    /\ tables = {} /\ algoStats = {} /\ sums = {} /\ addressStats = {} /\ flag = 0
    /\ mutex = Nobody /\ work = [c \in Caller |-> NoWork]
    /\ faults = 0

UpdateStats(c) ==
    \/ Begin(c) \/ GetStatsEndTime(c) \/ GetStatsEndBlockHeight(c)
    \/ CreateAlgo(c) \/ InsertAlgo(c)
    \/ CreateAddress(c) \/ GetChanges(c) \/ UpsertSum(c) \/ InsertAddressStats(c)
    \/ SetFlag(c) \/ Answer(c) \/ Retry(c)

StatsNext ==
    \/ AddBlock \/ ProcessBlock \/ RewindTip \/ PruneOutputs \/ DropHistory
    \/ \E c \in Caller : UpdateStats(c)
    \/ Die

StatsSpec == StatsInit /\ [][StatsNext]_statsVars

-----------------------------------------------------------------------------
(* Properties                                                              *)

\* What the chain itself says, whatever the tables hold.
MadeBy(a, h)  == {o \in Coin : Owner[o] = a /\ \E b \in 1 .. h : o \in chain[b].made}
SpentBy(a, h) == {o \in Coin : Owner[o] = a /\ \E b \in 1 .. h : o \in chain[b].spent}
Held(f, a, h) == AddUp(f, MadeBy(a, h) \ SpentBy(a, h))

\* The type invariant.
StatsTypeOK ==
    /\ Len(chain) \in 1 .. MaxTip /\ lowest \in 1 .. MaxTip
    /\ \A u \in utxoRows : u.out \in Coin /\ u.created \in 1 .. Tip /\ u.destroyed \in {Unset} \cup u.created .. Tip
    /\ tables \subseteq {"StatsAlgo", "StatsAddress", "StatsAddressSum"}
    /\ \A s \in sums : s.address \in Payee /\ s.digibyte \in Nat /\ s.assets \in Nat /\ s.spent \in BOOLEAN
    /\ flag \in 0 .. Tip
    /\ mutex \in Caller \cup {Nobody}
    /\ \A c \in Caller : work[c].pc # "idle" => work[c].start \in 1 .. MaxTip + 1

\* Blocks an address's sum covers: those up to the flag, and the window's too
\* once the caller that holds the lock has combined that address.
Covered(a) ==
    LET combined(c) == \/ At(c, "flag")
                       \/ At(c, "sums") /\ \A x \in work[c].changes : x.address # a
    IN  Max({flag} \cup {work[c].end : c \in {d \in Caller : combined(d)}})

\* However callers, blocks, rewinds and restarts interleave, an address's sum
\* is what the blocks up to the flag leave it with: none is missed or counted
\* twice (updateAddressStats).
SumsFollowTheChain ==
    unpruned /\ canAddress =>
        \A a \in Payee :
            LET row == {s \in sums : s.address = a}
                h == Covered(a)
            IN  IF MadeBy(a, h) = {} THEN row = {}
                ELSE row = {[address |-> a, digibyte |-> Held(DigiByte, a, h),
                             assets |-> Held(Assets, a, h), spent |-> SpentBy(a, h) # {}]}

\* A row of StatsAddress still says what the chain says of its window's end,
\* after every later rewind (the Margin in getStatsEndBlockHeight).
RowsStayTrue ==
    unpruned /\ canAddress =>
        \A r \in addressStats :
            LET before == {q.upTo : q \in {p \in addressStats : p.time < r.time}}
                first == Max({0} \cup before)
                known(h) == {a \in Payee : MadeBy(a, h) # {}}
            IN  /\ r.total = Cardinality(known(r.upTo))
                /\ r.created = Cardinality(known(r.upTo) \ known(first))
                /\ r.used = Cardinality({a \in Payee : SpentBy(a, r.upTo) # SpentBy(a, first)})
                /\ \A l \in Level : r.over[l] = Cardinality({a \in Payee : Held(DigiByte, a, r.upTo) >= l})
                /\ r.unsafe = Cardinality({a \in Payee :
                                  SpentBy(a, r.upTo) # {} /\ Held(DigiByte, a, r.upTo) > 0})
                /\ r.assets = Cardinality({a \in Payee : Held(Assets, a, r.upTo) > 0})

\* "to make sure the window is complete": the windows up to w have counted, each block
\* once, the blocks up to the last one that is earlier than w, those among them too whose
\* own time is not; and when nobody writes, all windows have counted what the flag says.
WindowsAreComplete ==
    unpruned =>
        LET windows == {r.time : r \in algoStats}
            counted == MapThenSumSet(LAMBDA r : r.blocks, algoStats)
        IN  /\ \A w \in windows :
                  MapThenSumSet(LAMBDA r : r.blocks, {r \in algoStats : r.time <= w})
                      = Max({0} \cup {h \in 1 .. Tip : chain[h].time < w})
            /\ (\A c \in Caller : ~Writing(c)) => counted = flag

=============================================================================

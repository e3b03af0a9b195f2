---------------------------- MODULE StoragePools ----------------------------
(***************************************************************************)
(* Permanent storage pools (PermanentStoragePool*.cpp, pools/mctrivia.cpp; *)
(* tables pspFiles, pspAssets).                                            *)
(*                                                                         *)
(* When an issuance paid the pool, the analyzer asks for its metadata with *)
(* instructions for the pool; once it is there, the callback puts the      *)
(* files it names into the pool's table and asks for them to be pinned, as *)
(* far as was paid for, and marks the asset as part of the pool if all of  *)
(* them were.  The pool's server publishes what turned out bad.  The list  *)
(* is fetched by a thread that reports to the server (keepAliveTask) and   *)
(* by the analyzer when its copy is old; what is new on it leaves the      *)
(* tables and is unpinned.                                                 *)
(*                                                                         *)
(* Abstractions                                                            *)
(*   - The pool "local" is left out: its table is empty, nothing calls     *)
(*     enable().  So there is one pool, and no pool index.                 *)
(*   - Of the IPFS queue (module IpfsQueue): a job is taken in order and   *)
(*     carried out by one of its threads; a callback's job is removed      *)
(*     before the callback runs.                                           *)
(*   - What was paid, in bytes at the accepted rate, comes with the        *)
(*     issuance.  An url that is not IPFS' is a file no one pays enough    *)
(*     for: it is passed over in the same way.                             *)
(*   - _badAssets and _badFiles are vectors that two threads use without a *)
(*     lock; here a search or an insertion is a step.                      *)
(***************************************************************************)
EXTENDS Integers, Sequences, FiniteSets

CONSTANTS
    File,         \* cids of files
    SizeOf,       \* sizes of files
    Issuance,     \* issuances: [index, asset, cid, urls, small, paid]; index: the asset's row
    Worker,       \* threads of the IPFS queue
    Analyzer,     \* the analyzer's thread
    Keeper,       \* _keepAliveThread
    Nothing,
    AutoRemove,   \* may the files of what is bad be unpinned
    MaxIssuances, \* bound: issuances processed
    MaxListed,    \* bound: entries the server lists
    MaxErrors     \* bound: calls and pins that fail, callbacks cut by an exception, ends of the process

AssetIds == {i.asset : i \in Issuance}
Cid == File \cup {i.cid : i \in Issuance}

ASSUME PoolAssumption ==
    /\ SizeOf \in [File -> Nat]
    /\ \A i \in Issuance : /\ i.index \in Nat /\ i.paid \in Nat /\ i.small \in BOOLEAN
                           /\ i.urls \in Seq(File)
    /\ \A i, j \in Issuance : i.index = j.index => i.asset = j.asset
    /\ Nothing \notin Issuance \cup AssetIds \cup File /\ AssetIds \cap File = {}
    /\ Analyzer \notin Worker /\ Keeper \notin Worker \cup {Analyzer}
    /\ AutoRemove \subseteq BOOLEAN
    /\ MaxIssuances \in Nat /\ MaxListed \in Nat /\ MaxErrors \in Nat

VARIABLES
    assets,     \* table "assets": of an asset issued again, the last issuance
    minted,     \* the issuances processed (history)
    pspFiles,   \* table "pspFiles"
    pspAssets,  \* table "pspAssets": indexes
    queue,      \* table "ipfs", in order
    node,       \* what the IPFS node has pinned
    callback,   \* what is left of the callback a thread runs
    published,  \* what the server lists as bad
    badAssets, badFiles,
    recent,     \* is _badTime at most 1200 seconds ago
    update,     \* what is left of the list a thread fetched
    issuing,    \* the issuance the analyzer processes, and has it asked for the list
    subscribed, autoRemoveBad, \* the pool's configuration
    late,       \* indexes admitted before their asset was known to be bad (history)
    gaveUp,     \* cids whose pin timed out since the start (history)
    count, errors

poolTables == <<assets, minted, pspFiles, pspAssets>>
copies == <<badAssets, badFiles, recent>>
config == <<subscribed, autoRemoveBad>>
threads == <<callback, update, issuing>>
external == <<node, published>>
past == <<late, gaveUp, count, errors>>
poolVars == <<poolTables, queue, external, copies, threads, config, past>>

NoCallback == [on |-> Nothing, member |-> FALSE, urls |-> << >>, left |-> 0, used |-> 0,
               all |-> TRUE, at |-> "done"]
Update(on, new, now, gone) == [on |-> on, new |-> new, now |-> now, gone |-> gone]
NoUpdate == Update(FALSE, {}, Nothing, {})
Issuing(i, tried) == [on |-> i, tried |-> tried]
NotIssuing == Issuing(Nothing, FALSE)

\* A row of "ipfs": a pin, an unpin, or a call with the instructions for the
\* pool.
Job(does, cid) == [does |-> does, cid |-> cid, on |-> Nothing, member |-> FALSE]
CallWith(i, member) == [does |-> "call", cid |-> i.cid, on |-> i, member |-> member]

AddJob(does, cid) == queue' = Append(queue, Job(does, cid))

MembersOf(a) == {i \in assets : i.asset = a /\ i.index \in pspAssets}

-----------------------------------------------------------------------------
(* The list of what is bad.                                                *)

\* The server publishes another entry.
Publish(x) ==
    /\ Cardinality(published) < MaxListed
    /\ published' = published \cup {x}
    /\ UNCHANGED <<poolTables, queue, node, copies, threads, config, past>>

\* 1200 seconds pass.
GrowOld ==
    /\ recent /\ recent' = FALSE
    /\ UNCHANGED <<poolTables, queue, external, badAssets, badFiles, threads, config, past>>

\* isAssetBad asks for the list when its copy is old.
Asks == issuing.on # Nothing /\ ~recent /\ ~issuing.tried

\* updateBadList has fetched the list.
Fetch(c) ==
    /\ ~update[c].on
    /\ IF c = Keeper THEN subscribed ELSE Asks
    /\ update' = [update EXCEPT ![c] = Update(TRUE, published \ (badAssets \cup badFiles), Nothing, {})]
    /\ UNCHANGED <<poolTables, queue, external, copies, callback, issuing, config, past>>

\* Whose metadata is on its way with instructions for the pool.
Promised ==
    {queue[k].on : k \in {j \in 1..Len(queue) : queue[j].member}}
      \cup {callback[c].on : c \in {b \in DOMAIN callback : callback[b].member}}

\* What is left of the list: entries new to the copy, the one being reported, and what it
\* took from the tables.
Left(c, new, now, gone) == update' = [update EXCEPT ![c] = Update(TRUE, new, now, gone)]

\* Seeded fault: an asset that is bad stays in the table.
ReportFiles(c, x) ==
    /\ update[c].on /\ update[c].now = Nothing /\ x \in update[c].new
    /\ pspFiles' = pspFiles \ {x}
    /\ Left(c, update[c].new, x, {x} \cap File)
    /\ UNCHANGED <<assets, minted, pspAssets, queue, external, copies, callback, issuing, config, past>>

\* reportAssetBad, reportFileBad: the rows go...
Report(c, x) ==
    /\ update[c].on /\ update[c].now = Nothing /\ x \in update[c].new
    /\ IF x \in AssetIds
       THEN /\ pspAssets' = pspAssets \ {i.index : i \in MembersOf(x)}
            /\ Left(c, update[c].new, x, MembersOf(x))
            /\ late' = late \cup {i.index : i \in {j \in Promised : j.asset = x}}
            /\ UNCHANGED pspFiles
       ELSE /\ pspFiles' = pspFiles \ {x}
            /\ Left(c, update[c].new, x, {x})
            /\ UNCHANGED <<pspAssets, late>>
    /\ UNCHANGED <<assets, minted, queue, external, copies, callback, issuing, config, gaveUp, count, errors>>

\* ... what has not come back to the tables is unpinned...
UnpinGone(c) ==
    /\ \E x \in update[c].gone :
          /\ Left(c, update[c].new, update[c].now, update[c].gone \ {x})
          /\ IF update[c].now \in AssetIds
             THEN IF autoRemoveBad /\ x.index \notin pspAssets THEN AddJob("unpin", x.cid) ELSE UNCHANGED queue
             ELSE IF autoRemoveBad /\ x \notin pspFiles THEN AddJob("unpin", x) ELSE UNCHANGED queue
    /\ UNCHANGED <<poolTables, external, copies, callback, issuing, config, past>>

\* ... and the entry is remembered.
Remember(c) ==
    /\ update[c].now # Nothing /\ update[c].gone = {}
    /\ badAssets' = badAssets \cup ({update[c].now} \cap AssetIds)
    /\ badFiles' = badFiles \cup ({update[c].now} \cap File)
    /\ Left(c, update[c].new \ {update[c].now}, Nothing, {})
    /\ UNCHANGED <<poolTables, queue, external, recent, callback, issuing, config, past>>

Updated(c) ==
    /\ update[c].on /\ update[c].new = {}
    /\ update' = [update EXCEPT ![c] = NoUpdate]
    /\ recent' = TRUE
    /\ issuing' = Issuing(issuing.on, issuing.tried \/ c = Analyzer)
    /\ UNCHANGED <<poolTables, queue, external, badAssets, badFiles, callback, config, past>>

\* The server does not answer: the copy stays as it is, and is used.
FetchFails ==
    /\ Asks /\ ~update[Analyzer].on
    /\ errors < MaxErrors /\ errors' = errors + 1
    /\ issuing' = Issuing(issuing.on, TRUE)
    /\ UNCHANGED <<poolTables, queue, external, copies, callback, update, config, late, gaveUp, count>>

-----------------------------------------------------------------------------
(* An issuance is processed.                                               *)

Starting(c, i, member) ==
    callback' = [callback EXCEPT ![c] =
                   [on |-> i, member |-> member, urls |-> i.urls, left |-> i.paid, used |-> 0,
                    all |-> TRUE, at |-> "start"]]

\* addAsset: an asset that is issued again keeps its row, which gets the new metadata.
AddAsset(i) ==
    /\ issuing = NotIssuing /\ callback[Analyzer] = NoCallback
    /\ count < MaxIssuances /\ count' = count + 1
    /\ assets' = {j \in assets : j.index # i.index} \cup {i} /\ minted' = minted \cup {i}
    /\ issuing' = Issuing(i, FALSE)
    /\ UNCHANGED <<pspFiles, pspAssets, queue, external, copies, callback, update, config, late, gaveUp, errors>>

IsAssetBad(i) == i.asset \in badAssets

\* serializeMetaProcessor and callOnDownload: metadata the node has is dealt
\* with at once, by the analyzer itself.
ProcessNewMetaData ==
    LET i == issuing.on
        member == ~IsAssetBad(i) /\ i.paid > 0
    IN  /\ i # Nothing /\ ~Asks /\ ~update[Analyzer].on
        /\ issuing' = NotIssuing
        /\ IF i.cid \in node
           THEN Starting(Analyzer, i, member) /\ UNCHANGED queue
           ELSE /\ queue' = Append(queue, CallWith(i, member))
                /\ UNCHANGED callback
        /\ late' = IF member /\ \E c \in DOMAIN update : update[c].now = i.asset
                   THEN late \cup {i.index} ELSE late
        /\ UNCHANGED <<poolTables, external, copies, update, config, gaveUp, count, errors>>

-----------------------------------------------------------------------------
(* _callbackNewMetadata, run by thread c.                                  *)

In(c, where) == callback[c].at = where

\* The metadata itself is pinned if it is small.
PinSmall(c) ==
    /\ In(c, "start")
    /\ IF callback[c].on.small THEN AddJob("pin", callback[c].on.cid) ELSE UNCHANGED queue
    /\ callback' = IF callback[c].member THEN [callback EXCEPT ![c].at = "urls"]
                   ELSE [callback EXCEPT ![c] = NoCallback]
    /\ UNCHANGED <<poolTables, external, copies, update, issuing, config, past>>

Url(c) == Head(callback[c].urls)

\* shouldPinFile: there is space left for the file...
Admit(c) ==
    /\ In(c, "urls") /\ callback[c].urls # << >>
    /\ SizeOf[Url(c)] <= callback[c].left
    /\ pspFiles' = pspFiles \cup {Url(c)}
    /\ callback' = [callback EXCEPT ![c].left = @ - SizeOf[Url(c)], ![c].used = @ + SizeOf[Url(c)],
                                    ![c].at = "pin"]
    /\ UNCHANGED <<assets, minted, pspAssets, queue, external, copies, update, issuing, config, past>>

\* ... and it is pinned...
PinFile(c) ==
    /\ In(c, "pin")
    /\ IF subscribed THEN AddJob("pin", Url(c)) ELSE UNCHANGED queue
    /\ callback' = [callback EXCEPT ![c].urls = Tail(@), ![c].at = "urls"]
    /\ UNCHANGED <<poolTables, external, copies, update, issuing, config, past>>

\* Seeded fault: a file that is passed over does not count.
PassSilently(c) ==
    /\ In(c, "urls") /\ callback[c].urls # << >>
    /\ SizeOf[Url(c)] > callback[c].left
    /\ callback' = [callback EXCEPT ![c].urls = Tail(@)]
    /\ UNCHANGED <<poolTables, queue, external, copies, update, issuing, config, past>>

\* ... or there is not.
Pass(c) ==
    /\ In(c, "urls") /\ callback[c].urls # << >>
    /\ SizeOf[Url(c)] > callback[c].left
    /\ callback' = [callback EXCEPT ![c].urls = Tail(@), ![c].all = FALSE]
    /\ UNCHANGED <<poolTables, queue, external, copies, update, issuing, config, past>>

\* All files were pinned: the asset is part of the pool.
Mark(c) ==
    /\ In(c, "urls") /\ callback[c].urls = << >>
    /\ IF callback[c].all
       THEN /\ pspAssets' = pspAssets \cup {callback[c].on.index}
            /\ callback' = [callback EXCEPT ![c].at = "marked"]
       ELSE callback' = [callback EXCEPT ![c] = NoCallback] /\ UNCHANGED pspAssets
    /\ UNCHANGED <<assets, minted, pspFiles, queue, external, copies, update, issuing, config, past>>

PinMetadata(c) ==
    /\ In(c, "marked")
    /\ IF subscribed THEN AddJob("pin", callback[c].on.cid) ELSE UNCHANGED queue
    /\ callback' = [callback EXCEPT ![c] = NoCallback]
    /\ UNCHANGED <<poolTables, external, copies, update, issuing, config, past>>

\* getSize throws: the rest of the metadata is never dealt with.
CallbackThrows(c) ==
    /\ In(c, "urls") /\ callback[c].urls # << >>
    /\ errors < MaxErrors /\ errors' = errors + 1
    /\ callback' = [callback EXCEPT ![c] = NoCallback]
    /\ UNCHANGED <<poolTables, queue, external, copies, update, issuing, config, late, gaveUp, count>>

-----------------------------------------------------------------------------
(* The IPFS queue.                                                         *)

Without(k) == SubSeq(queue, 1, k - 1) \o SubSeq(queue, k + 1, Len(queue))

\* A job that a thread may be at: jobs are taken in order, so the threads are
\* at the first ones; unpins are locked as a group and may be passed by.
InHand(k) ==
    Cardinality({j \in 1..(k - 1) : queue[j].does # "unpin"}) < Cardinality(Worker)

\* The metadata is there: the job is removed and its callback runs.
Answer(w) ==
    /\ callback[w] = NoCallback
    /\ \E k \in 1..Len(queue) :
          /\ InHand(k) /\ queue[k].does = "call"
          /\ Starting(w, queue[k].on, queue[k].member)
          /\ queue' = Without(k)
    /\ UNCHANGED <<poolTables, external, copies, update, issuing, config, past>>

\* A pin or an unpin is done, and its job removed.
Done(w) ==
    /\ callback[w] = NoCallback
    /\ \E k \in 1..Len(queue) :
          /\ InHand(k) /\ queue[k].does # "call"
          /\ node' = IF queue[k].does = "pin" THEN node \cup {queue[k].cid} ELSE node \ {queue[k].cid}
          /\ queue' = Without(k)
    /\ UNCHANGED <<poolTables, published, copies, threads, config, past>>

\* A pin that times out is not tried again.
PinFails(w) ==
    /\ callback[w] = NoCallback
    /\ errors < MaxErrors /\ errors' = errors + 1
    /\ \E k \in 1..Len(queue) :
          /\ InHand(k) /\ queue[k].does = "pin"
          /\ gaveUp' = gaveUp \cup {queue[k].cid}
          /\ queue' = Without(k)
    /\ UNCHANGED <<poolTables, external, copies, threads, config, late, count>>

-----------------------------------------------------------------------------

Caller == Worker \cup {Analyzer}

\* One job for each, in some order.
PinsOf(cids) == CHOOSE s \in [1..Cardinality(cids) -> {Job("pin", x) : x \in cids}] :
                    \A x \in cids : \E k \in DOMAIN s : s[k].cid = x

Stopped ==
    /\ errors < MaxErrors /\ errors' = errors + 1
    /\ badAssets' = {} /\ badFiles' = {} /\ recent' = FALSE
    /\ callback' = [c \in Caller |-> NoCallback]
    /\ update' = [c \in {Analyzer, Keeper} |-> NoUpdate]
    /\ issuing' = NotIssuing
    /\ late' = {} /\ gaveUp' = {}

\* Seeded fault: the start does not pin what the tables list.
StartAnewOnly ==
    /\ Stopped
    /\ UNCHANGED <<poolTables, queue, external, config, count>>

\* The process ends at any point.  At the start of the next one the pool pins
\* all metadata of assets and all files of its table.
StartAnew ==
    /\ Stopped
    /\ queue' = IF subscribed
                THEN queue \o PinsOf({i.cid : i \in assets}) \o PinsOf(pspFiles)
                ELSE queue
    /\ UNCHANGED <<poolTables, external, config, count>>

PoolInit ==
    /\ assets = {} /\ minted = {} /\ pspFiles = {} /\ pspAssets = {}
    /\ queue = << >> /\ node = {} /\ published = {}
    /\ badAssets = {} /\ badFiles = {} /\ recent = FALSE
    /\ callback = [c \in Caller |-> NoCallback]
    /\ update = [c \in {Analyzer, Keeper} |-> NoUpdate]
    /\ issuing = NotIssuing
    /\ subscribed \in BOOLEAN /\ autoRemoveBad \in AutoRemove
    /\ late = {} /\ gaveUp = {}
    /\ count = 0 /\ errors = 0

CallbackStep(c) ==
    \/ PinSmall(c) \/ Admit(c) \/ PinFile(c) \/ Pass(c)
    \/ Mark(c) \/ PinMetadata(c) \/ CallbackThrows(c)

UpdateStep(c) ==
    \/ Fetch(c) \/ UnpinGone(c) \/ Remember(c) \/ Updated(c)
    \/ \E x \in AssetIds \cup File : Report(c, x)

PoolNext ==
    \/ \E x \in AssetIds \cup File : Publish(x)
    \/ GrowOld \/ FetchFails
    \/ \E c \in {Analyzer, Keeper} : UpdateStep(c)
    \/ \E i \in Issuance : AddAsset(i)
    \/ ProcessNewMetaData
    \/ \E c \in Caller : CallbackStep(c)
    \/ \E w \in Worker : Answer(w) \/ Done(w) \/ PinFails(w)
    \/ StartAnew

PoolSpec == PoolInit /\ [][PoolNext]_poolVars

-----------------------------------------------------------------------------
(* Properties.                                                             *)

PoolTypeOK ==
    /\ assets \subseteq minted /\ minted \subseteq Issuance /\ pspFiles \subseteq File
    /\ pspAssets \subseteq {i.index : i \in assets}
    /\ \A k \in 1..Len(queue) : queue[k].cid \in Cid
    /\ node \subseteq Cid /\ published \subseteq AssetIds \cup File
    /\ badAssets \subseteq AssetIds /\ badFiles \subseteq File

\* An asset is part of the pool only if metadata it was issued with names nothing
\* but files, and the pool stores each of them, or did until it turned out bad;
\* also where a callback was cut by an exception or by the end of the process.
MarkedIsComplete ==
    \A x \in pspAssets : \E i \in minted :
        i.index = x /\ \A k \in 1..Len(i.urls) : i.urls[k] \in pspFiles \cup published

\* No callback stores more for an issuance than was paid for it.
WithinPayment == \A c \in Caller : callback[c].on # Nothing => callback[c].used <= callback[c].on.paid

\* What the tables say of an asset is what was stored and paid for, at every
\* place where a callback can be cut off.
PoolInv == PoolTypeOK /\ MarkedIsComplete /\ WithinPayment

\* Once the jobs are done, the node of a subscriber has pinned what the pool
\* stores, unless the pin timed out or the file turned out bad; an end of
\* the process at any point changes nothing about it.
StoredIsPinned ==
    subscribed /\ queue = << >> /\ (\A c \in Caller : callback[c] = NoCallback) =>
        \A f \in pspFiles \ (published \cup gaveUp) :
            f \in node \/ \E i \in minted : i.cid = f /\ i.asset \in published

\* An asset known to be bad is not part of the pool, but for the one whose
\* metadata was on its way when that became known: nothing looks again.
BadIsOut ==
    \A i \in assets : i.index \in pspAssets /\ i.asset \in badAssets => i.index \in late
=============================================================================

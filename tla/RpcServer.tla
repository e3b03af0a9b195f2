-------------------------------- MODULE RpcServer --------------------------------
(***************************************************************************)
(* The RPC side of DigiAsset Core while blocks are being processed:        *)
(* RPC/Server.cpp (connections posted to a pool of threads, the list of    *)
(* allowed methods), RPC/Cache.cpp and Response.cpp (answers kept until a  *)
(* block, an address or an issuance invalidates them), UniqueTaskQueue.cpp *)
(* and the asyncstart, asyncget and asyncclear methods (a queue of calls   *)
(* run by one more thread, their results in files).                        *)
(*                                                                         *)
(* The cache and the queue are each under a mutex, so one of their calls   *)
(* is one step; between two of them a thread holds nothing.  A method with *)
(* its parameters is one of a few requests; an answer is the version of    *)
(* the data it was read from.  HTTP, its authentication and JSON are left  *)
(* out: what of them throws is the request "bad", and what a client then   *)
(* reads is not kept.                                                      *)
(***************************************************************************)
EXTENDS Integers, SequencesExt, FiniteSetsExt

CONSTANTS MaxCalls,     \* bound on the connections clients make
          Workers,      \* the threads of the pool (rpcparallel)
          Async,        \* the thread asyncstart starts
          Kinds,        \* the requests made, a subset of AllKinds
          RpcAllow,     \* the rpcallow... settings: functions from some kinds and "*" to BOOLEAN
          Day,          \* stands for the 5760 blocks most answers are good for
          MaxSize,      \* _maxCacheSize
          Wrap,         \* _currentCacheSize counts modulo this (2^64)
          MaxBlocks,    \* bound on the blocks added
          MaxChanges    \* bound on the transactions processed and rewound

AllKinds == {"send", "holdings", "assets", "start", "get", "clear", "bad"}

ASSUME RpcAssumption ==
  /\ MaxCalls \in Nat \ {0}
  /\ Kinds \subseteq AllKinds /\ Async \notin Workers /\ Workers # {}
  /\ \A a \in RpcAllow : DOMAIN a \subseteq AllKinds \cup {"*"}
  /\ Day \in Nat /\ MaxSize \in Nat /\ Wrap \in Nat /\ Wrap > MaxSize

VARIABLES
  call,         \* each connection: what it asks for and how far it has come
  posted,       \* the connections accepted and posted to the io_service
  thread,       \* each thread: its place, its call and the response it holds
  allowedRPC,   \* _allowedRPC, read from the configuration when the server is made
  allowDefault, \* _allowRPCDefault: -1 unknown, 0 or 1
  cache,        \* _cacheMap: by request, [response, timestamp]
  cacheSize,    \* _currentCacheSize
  tasks,        \* _queue of the UniqueTaskQueue
  inTasks,      \* its _set
  file,         \* the result file of the queued call: "none", "empty" or "full"
  data,         \* versions of one address's holdings and of the list of assets
  analyzer,     \* where the chain analyzer is in a transaction
  blocks,       \* blocks added
  changes,      \* transactions processed and rewound
  sent          \* payments the wallet has made

allowVars == <<allowedRPC, allowDefault>>
cacheVars == <<cache, cacheSize>>
asyncVars == <<tasks, inTasks, file>>
chainVars == <<data, analyzer, blocks, changes>>
vars == <<call, posted, thread, allowVars, cacheVars, asyncVars, chainVars, sent>>

Calls   == 1..MaxCalls              \* by _callCounter
Threads == Workers \cup {Async}
Job     == "holdings"                \* the call asyncstart is asked to make

--------------------------------------------------------------------------------
(* Responses and the cache                                                  *)

\* A Response: the answer, _blocksGoodFor, what invalidates it and its _size.  missed is
\* not in the code: has the data it was read from changed and nothing told it?
Bytes == 1..2
Response(value, goodFor, onAddress, onAsset) ==
  [value |-> value, goodFor |-> goodFor, onAddress |-> onAddress, onAsset |-> onAsset,
   size |-> 1 + (value % 2), missed |-> FALSE]

NoResponse == Response(0, 0, FALSE, FALSE)

\* a thread that is at a place, and one that goes on to another
Thread(place, c, k) == [pc |-> place, call |-> c, kind |-> k, response |-> NoResponse]
With(th, place, r)  == [pc |-> place, call |-> th.call, kind |-> th.kind, response |-> r]
Idle == Thread("idle", 0, "none")

Miss(r, missed) == [r EXCEPT !.missed = @ \/ missed]

\* What the entries c count for, byte by byte.
SizeOf(c)   == Cardinality({b \in (DOMAIN c) \X Bytes : b[2] <= c[b[1]].response.size})
IsCached(k) == k \in DOMAIN cache
Now         == 1 + Max({cache[k].timestamp : k \in DOMAIN cache} \cup {0})

Without(c, gone)    == Restrict(c, DOMAIN c \ gone)
Less(c, size, gone) == (size - SizeOf(Restrict(c, gone))) % Wrap

\* removeOldestEntries stops when what is left fits, or nothing is
Remaining(c) == {{k \in DOMAIN c : c[k].timestamp > s} : s \in {0} \cup {c[k].timestamp : k \in DOMAIN c}}

Fits(c, size, left) == left = {} \/ Less(c, size, DOMAIN c \ left) <= MaxSize

Evicted(c, size) ==
  \E left \in Remaining(c) :
    /\ Fits(c, size, left)
    /\ \A more \in Remaining(c) : Fits(c, size, more) => more \subseteq left
    /\ cache' = Restrict(c, left)
    /\ cacheSize' = Less(c, size, DOMAIN c \ left)

\* addResponse: an entry that is there is replaced and its size not counted again
AddResponse(k, r) ==
  \E c \in {[l \in DOMAIN cache \cup {k} |-> IF l = k THEN [response |-> r, timestamp |-> Now] ELSE cache[l]]},
     size \in {IF IsCached(k) THEN cacheSize ELSE (cacheSize + r.size) % Wrap} : Evicted(c, size)

\* the sweep of addressChanged, newBlockAdded and newAssetIssued over the entries c: those
\* that are invalid go
Swept(c, invalid) == cache' = Without(c, invalid) /\ cacheSize' = Less(c, cacheSize, invalid)

\* an announcement misses the responses that are computed and not yet stored
Missed(some) ==
  thread' = [t \in Threads |->
    IF t \in some THEN With(thread[t], thread[t].pc, Miss(thread[t].response, TRUE)) ELSE thread[t]]

\* seeded fault: an entry that has aged is left to newBlockAdded
OnAddressWhileNew(r) == r.onAddress /\ r.goodFor = Day

OnAddress(r) == r.onAddress
OnAsset(r)   == r.onAsset
EntriesOnAddress == {k \in DOMAIN cache : OnAddress(cache[k].response)}
EntriesOnAsset   == {k \in DOMAIN cache : OnAsset(cache[k].response)}
StoringOnAddress == {t \in Threads : thread[t].pc = "store" /\ OnAddress(thread[t].response)}
StoringOnAsset   == {t \in Threads : thread[t].pc = "store" /\ OnAsset(thread[t].response)}

Older      == [k \in DOMAIN cache |-> [response  |-> [cache[k].response EXCEPT !.goodFor = @ - 1],
                                       timestamp |-> cache[k].timestamp]]
Expired(c) == {k \in DOMAIN c : c[k].response.goodFor < 0}

--------------------------------------------------------------------------------
(* A thread makes a call: allowed, cached, made, kept                        *)

At(t, place) == thread[t].pc = place

\* where a thread goes when its call has an answer or has thrown
Answered(t) == IF t = Async THEN "remove" ELSE "reply"

Holds(t, r, place) == thread' = [thread EXCEPT ![t] = With(thread[t], place, r)]
Goes(t, place)     == Holds(t, thread[t].response, place)

Init ==
  /\ call = [c \in Calls |-> [at |-> "none", kind |-> "none"]]
  /\ posted = <<>>
  /\ thread = [t \in Threads |-> IF t = Async THEN Thread("none", 0, "none") ELSE Idle]
  /\ allowedRPC \in RpcAllow /\ allowDefault = -1
  /\ cache = << >> /\ cacheSize = 0
  /\ tasks = <<>> /\ inTasks = {} /\ file = "none"
  /\ data = [holdings |-> 0, assets |-> 0] /\ analyzer = "between" /\ blocks = 0 /\ changes = 0
  /\ sent = 0

\* a client connects and sends its request, or hangs up ("bad": the read throws);
\* accept() posts the connection
Connect(c) ==
  /\ call[c].at = "none" /\ \A d \in 1..(c - 1) : call[d].at # "none"
  /\ \E k \in Kinds \cup {"bad"} : call' = [call EXCEPT ![c] = [at |-> "posted", kind |-> k]]
  /\ posted' = Append(posted, c)
  /\ UNCHANGED <<thread, allowVars, cacheVars, asyncVars, chainVars, sent>>

Begin(w, c, onThrow) ==
  /\ At(w, "idle") /\ c \in ToSet(posted)
  /\ thread' = [thread EXCEPT ![w] =
                  Thread(IF call[c].kind = "bad" THEN onThrow ELSE "allow", c, call[c].kind)]
  /\ call' = [call EXCEPT ![c].at = "taken"]
  /\ UNCHANGED <<allowVars, cacheVars, asyncVars, chainVars, sent>>

\* seeded fault: what parseRequest throws is caught by nobody
TakeOrThrow(w) ==
  posted # <<>> /\ Begin(w, Head(posted), "none") /\ posted' = Tail(posted)

\* a thread of the pool runs the next posted handleConnection, which parses the request
Take(w) ==
  posted # <<>> /\ Begin(w, Head(posted), "reply") /\ posted' = Tail(posted)

\* seeded fault: a method that is listed is allowed
Listed(k) == k \in DOMAIN allowedRPC

Explicitly(k) == k \in DOMAIN allowedRPC /\ allowedRPC[k]

\* isRPCAllowed: the first call that needs the default sets it to 0, then to rpcallow*
IsAllowed(t) ==
  /\ At(t, "allow")
  /\ LET k    == thread[t].kind
         pass == IF k \in DOMAIN allowedRPC THEN Explicitly(k) ELSE allowDefault = 1
     IN IF k \notin DOMAIN allowedRPC /\ allowDefault = -1
        THEN Goes(t, "default") /\ allowDefault' = 0
        ELSE Goes(t, IF pass THEN "lookup" ELSE Answered(t)) /\ UNCHANGED allowDefault
  /\ UNCHANGED <<call, posted, allowedRPC, cacheVars, asyncVars, chainVars, sent>>

FindDefault(t) ==
  /\ At(t, "default")
  /\ allowDefault' = IF Explicitly("*") THEN 1 ELSE 0
  /\ Goes(t, IF Explicitly("*") THEN "lookup" ELSE Answered(t))
  /\ UNCHANGED <<call, posted, allowedRPC, cacheVars, asyncVars, chainVars, sent>>

\* isCached
Lookup(t) ==
  /\ At(t, "lookup")
  /\ IF IsCached(thread[t].kind)
     THEN Goes(t, Answered(t))
     ELSE Goes(t, "run")
  /\ UNCHANGED <<call, posted, allowVars, cacheVars, asyncVars, chainVars, sent>>

Runs(t, k) == At(t, "run") /\ thread[t].kind = k

\* getaddressholdings
AddressHoldings(t) ==
  /\ Runs(t, "holdings")
  /\ Holds(t, Response(data.holdings, Day, TRUE, FALSE), "store")
  /\ UNCHANGED <<call, posted, allowVars, cacheVars, asyncVars, chainVars, sent>>

\* listassets; read after the issuance was announced and before it was written it is
\* out of date from the start
ListAssets(t) ==
  /\ Runs(t, "assets")
  /\ Holds(t, Miss(Response(data.assets, Day, FALSE, TRUE), analyzer = "announced"), "store")
  /\ UNCHANGED <<call, posted, allowVars, cacheVars, asyncVars, chainVars, sent>>

\* send, sendmany, sendtoaddress: "do not cache"
Send(t) ==
  /\ Runs(t, "send")
  /\ sent' = sent + 1
  /\ Holds(t, Response(sent', -1, FALSE, FALSE), "store")
  /\ UNCHANGED <<call, posted, allowVars, cacheVars, asyncVars, chainVars>>

Enqueue ==
  IF Job \in inTasks
  THEN UNCHANGED <<tasks, inTasks>>
  ELSE tasks' = Append(tasks, Job) /\ inTasks' = inTasks \cup {Job}

\* asyncstart: the first call starts the thread
AsyncStart(t) ==
  /\ Runs(t, "start")
  /\ Enqueue
  /\ thread' = [u \in Threads |->
        IF u = t THEN With(thread[t], "store", Response(Len(tasks'), -1, FALSE, FALSE))
        ELSE IF u = Async /\ At(Async, "none") THEN Idle ELSE thread[u]]
  /\ UNCHANGED <<call, posted, allowVars, cacheVars, file, chainVars, sent>>

\* asyncget: what has been written of the file so far; half of one does not parse
AsyncGet(t) ==
  /\ Runs(t, "get")
  /\ IF file = "empty"
     THEN Goes(t, "reply")
     ELSE Holds(t, Response(IF file = "full" THEN 1 ELSE 0, -1, FALSE, FALSE), "store")
  /\ UNCHANGED <<call, posted, allowVars, cacheVars, asyncVars, chainVars, sent>>

\* asyncclear
AsyncClear(t) ==
  /\ Runs(t, "clear")
  /\ file' = "none"
  /\ Holds(t, Response(IF file = "none" THEN 0 ELSE 1, -1, FALSE, FALSE), "store")
  /\ UNCHANGED <<call, posted, allowVars, cacheVars, tasks, inTasks, chainVars, sent>>

\* executeCall ends: the response is cached, whatever it says of itself
Store(t) ==
  /\ At(t, "store")
  /\ Holds(t, NoResponse, Answered(t))
  /\ AddResponse(thread[t].kind, thread[t].response)
  /\ UNCHANGED <<call, posted, allowVars, asyncVars, chainVars, sent>>

\* sendResponse, and the socket is closed
Reply(w) ==
  /\ At(w, "reply")
  /\ call' = [call EXCEPT ![thread[w].call].at = "closed"]
  /\ thread' = [thread EXCEPT ![w] = Idle]
  /\ UNCHANGED <<posted, allowVars, cacheVars, asyncVars, chainVars, sent>>

--------------------------------------------------------------------------------
(* The asyncstart thread around a call                                       *)

\* dequeue, which waits for a task
Dequeue ==
  /\ At(Async, "idle") /\ tasks # <<>>
  /\ thread' = [thread EXCEPT ![Async] = Thread("allow", 0, Head(tasks))]
  /\ tasks' = Tail(tasks) /\ inTasks' = inTasks \ {Head(tasks)}
  /\ UNCHANGED <<call, posted, allowVars, cacheVars, file, chainVars, sent>>

\* the result is written: the old file is removed, a new one opened, filled and closed;
\* a file asyncclear removes in between stays gone
WriteResult ==
  /\ \/ At(Async, "remove") /\ file' = "none" /\ Goes(Async, "open")
     \/ At(Async, "open") /\ file' = "empty" /\ Goes(Async, "close")
     \/ /\ At(Async, "close")
        /\ file' = IF file = "empty" THEN "full" ELSE file
        /\ thread' = [thread EXCEPT ![Async] = Idle]
  /\ UNCHANGED <<call, posted, allowVars, cacheVars, tasks, inTasks, chainVars, sent>>

--------------------------------------------------------------------------------
(* The chain analyzer, as far as the cache sees it                           *)

Changes == changes < MaxChanges /\ changes' = changes + 1

\* processTX: addToDatabase writes what the transaction moves ...
Move ==
  /\ analyzer = "between" /\ Changes
  /\ data' = [data EXCEPT !.holdings = @ + 1] /\ analyzer' = "written"
  /\ UNCHANGED <<call, posted, thread, allowVars, cacheVars, asyncVars, blocks, sent>>

\* ... an issuance being announced before it is written
Announce ==
  /\ analyzer = "between" /\ Changes
  /\ analyzer' = "announced"
  /\ Swept(cache, EntriesOnAsset) /\ Missed(StoringOnAsset)
  /\ UNCHANGED <<call, posted, allowVars, asyncVars, data, blocks, sent>>

Issue ==
  /\ analyzer = "announced"
  /\ data' = [holdings |-> data.holdings + 1, assets |-> data.assets + 1]
  /\ analyzer' = "written"
  /\ UNCHANGED <<call, posted, thread, allowVars, cacheVars, asyncVars, blocks, changes, sent>>

\* ... and addressChanged for the addresses it touched
AddressChanged ==
  /\ analyzer = "written"
  /\ analyzer' = "between"
  /\ Swept(cache, EntriesOnAddress) /\ Missed(StoringOnAddress)
  /\ UNCHANGED <<call, posted, allowVars, asyncVars, data, blocks, changes, sent>>

\* phaseSync ends a block
NewBlockAdded ==
  /\ analyzer = "between" /\ blocks < MaxBlocks
  /\ blocks' = blocks + 1
  /\ Swept(Older, Expired(Older))
  /\ UNCHANGED <<call, posted, thread, allowVars, asyncVars, data, analyzer, changes, sent>>

\* what is no longer true of a response once a transaction is taken back
TakenBack(r, issuance) == OnAddress(r) \/ (issuance /\ OnAsset(r))

\* phaseRewind: clearBlocksAboveHeight takes a transaction back, which may be an issuance,
\* and announces nothing
Rewind ==
  /\ analyzer = "between" /\ Changes
  /\ \E issuance \in BOOLEAN :
       /\ data' = [holdings |-> data.holdings + 1,
                   assets |-> IF issuance THEN data.assets + 1 ELSE data.assets]
       /\ cache' = [k \in DOMAIN cache |->
                      [response  |-> Miss(cache[k].response, TakenBack(cache[k].response, issuance)),
                       timestamp |-> cache[k].timestamp]]
       /\ Missed({t \in Threads : thread[t].pc = "store" /\ TakenBack(thread[t].response, issuance)})
  /\ UNCHANGED <<call, posted, allowVars, cacheSize, asyncVars, analyzer, blocks, sent>>

--------------------------------------------------------------------------------

Calling(t) == \/ IsAllowed(t) \/ FindDefault(t) \/ Lookup(t)
              \/ AddressHoldings(t) \/ ListAssets(t) \/ Send(t)
              \/ AsyncStart(t) \/ AsyncGet(t) \/ AsyncClear(t) \/ Store(t)

Works(w) == Take(w) \/ Calling(w) \/ Reply(w)

RunsJobs == Dequeue \/ Calling(Async) \/ WriteResult

Analyzes == Move \/ Announce \/ Issue \/ AddressChanged \/ NewBlockAdded \/ Rewind

Next == \/ \E c \in Calls : Connect(c)
        \/ \E w \in Workers : Works(w)
        \/ RunsJobs
        \/ Analyzes

\* Threads are scheduled.  A client that connects and stays silent holds its thread for
\* good, as no timeout is set on a socket: such clients are not modelled.
Fairness == /\ \A w \in Workers : WF_vars(Works(w))
            /\ WF_vars(RunsJobs)

Spec == Init /\ [][Next]_vars /\ Fairness

--------------------------------------------------------------------------------
(* Properties                                                              *)

Places == {"none", "idle", "allow", "default", "lookup", "run", "store", "reply", "remove", "open", "close"}
Responses == [value : Int, goodFor : Int, onAddress : BOOLEAN, onAsset : BOOLEAN,
              size : Bytes, missed : BOOLEAN]

\* Type invariant; the queue holds what its set does, once each (UniqueTaskQueue.cpp)
TypeOK ==
  /\ call \in [Calls -> [at : {"none", "posted", "taken", "closed"}, kind : AllKinds \cup {"none"}]]
  /\ posted \in Seq(Calls)
  /\ thread \in [Threads -> [pc : Places, call : Calls \cup {0}, kind : AllKinds \cup {"none"},
                             response : Responses]]
  /\ allowedRPC \in RpcAllow /\ allowDefault \in {-1, 0, 1}
  /\ DOMAIN cache \subseteq AllKinds /\ \A k \in DOMAIN cache : cache[k].response \in Responses
  /\ cacheSize \in 0..(Wrap - 1)
  /\ tasks \in Seq(AllKinds) /\ ToSet(tasks) = inTasks /\ IsInjective(tasks)
  /\ file \in {"none", "empty", "full"}
  /\ data \in [holdings : Nat, assets : Nat] /\ analyzer \in {"between", "announced", "written"}
  /\ blocks \in Nat /\ changes \in Nat /\ sent \in Nat

\* A method rpcallow forbids is never made, not by asyncstart either and whatever the
\* cache holds (RPC/Server.cpp executeCall, isRPCAllowed)
ForbiddenIsNeverMade ==
  \A t \in Threads : thread[t].pc \in {"lookup", "run", "store"} =>
    LET k == IF thread[t].kind \in DOMAIN allowedRPC THEN thread[t].kind ELSE "*"
    IN k \in DOMAIN allowedRPC /\ allowedRPC[k]

\* An answer that stays in the cache is what the database would answer now, unless the
\* data changed unannounced: between being read and being stored, in the middle of an
\* issuance, or by a rewind (RPC/Cache.cpp addressChanged, newAssetIssued;
\* ChainAnalyzer.cpp processTX)
CachedIsCurrent ==
  \A k \in DOMAIN cache :
    LET r == cache[k].response
    IN /\ r.onAddress /\ ~r.missed /\ analyzer # "written" => r.value = data.holdings
       /\ r.onAsset /\ ~r.missed => r.value = data.assets

\* One connection makes at most one payment, and only one that asked for it
\* (RPC/Server.cpp handleConnection, executeCall)
PaysAtMostOnce ==
  LET asked == {c \in Calls : call[c].kind = "send"}
  IN sent <= Cardinality(asked)

\* What the threads make, wherever they are: nothing twice in the queue, nothing
\* forbidden, no payment nobody asked for (RPC/Server.cpp, UniqueTaskQueue.cpp)
CallsInv == TypeOK /\ ForbiddenIsNeverMade /\ PaysAtMostOnce

\* The server always comes to rest: every connection is answered and closed and every
\* queued call made and written down, whatever they throw (RPC/Server.cpp
\* handleConnection, UniqueTaskQueue.cpp dequeue, asyncstart.cpp)
WorkIsFinished ==
  []<>(/\ \A c \in Calls : call[c].at \in {"none", "closed"}
       /\ tasks = <<>> /\ thread[Async].pc \in {"none", "idle"})

\* What a method marks "do not cache" is made for every connection that asks for it: the
\* payments are as many as the answers (send.cpp, sendmany.cpp, sendtoaddress.cpp)
EverySendIsSent ==
  (\A c \in Calls : call[c].at \in {"none", "closed"}) =>
    sent = Cardinality({c \in Calls : call[c].kind = "send" /\ call[c].at = "closed"})

================================================================================

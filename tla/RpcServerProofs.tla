-------------------------- MODULE RpcServerProofs --------------------------
(***************************************************************************)
(* Proofs about module RpcServer, for any number of calls and threads, any *)
(* settings, and any sizes of the cache.                                   *)
(***************************************************************************)
EXTENDS RpcServer, FiniteSetTheorems, TLAPS

--------------------------------------------------------------------------------
(* The inductive invariant                                                  *)

\* where the thread has not yet made its call
Before == {"allow", "default", "lookup", "run"}

\* A worker serves a connection of its own, which is open; the asyncstart thread makes
\* the call asyncstart was asked for.
PlaceInv ==
  /\ \A w \in Workers :
        /\ thread[w].pc \in {"idle", "reply", "store"} \cup Before
        /\ thread[w].pc = "idle" => thread[w].call = 0
        /\ thread[w].pc # "idle" =>
             /\ thread[w].call \in Calls
             /\ call[thread[w].call].at = "taken" /\ call[thread[w].call].kind = thread[w].kind
  /\ \A v, w \in Workers : thread[v].pc # "idle" /\ thread[w].pc # "idle" /\ v # w =>
                            thread[v].call # thread[w].call
  /\ \A j, k \in 1..Len(posted) : posted[j] = posted[k] => j = k
  /\ \A k \in 1..Len(posted) : call[posted[k]].at = "posted"
  /\ \A k \in 1..Len(tasks) : tasks[k] = Job
  /\ thread[Async].call = 0 /\ (thread[Async].pc \in Before \cup {"store"} => thread[Async].kind = Job)
  /\ \A c \in Calls : call[c].at # "none" => call[c].kind \in AllKinds

\* What has been found out about the method a thread is to make.
AllowInv ==
  /\ allowDefault = 1 => Explicitly("*")
  /\ \A t \in Threads : thread[t].pc = "default" => thread[t].kind \notin DOMAIN allowedRPC
  /\ ForbiddenIsNeverMade

\* The connections that asked for a payment and may have been given one.
Paid == {c \in Calls : /\ call[c].kind = "send" /\ call[c].at \in {"taken", "closed"}
                       /\ \A w \in Workers : thread[w].call = c => thread[w].pc \notin Before}

PaidInv == sent <= Cardinality(Paid)

\* A response in the cache, or on its way to it, that nothing has missed.
CurrentIn(r, d, a) ==
  /\ r.onAddress /\ ~r.missed /\ a # "written" => r.value = d.holdings
  /\ r.onAsset /\ ~r.missed => r.value = d.assets /\ a # "announced"

Current(r) == CurrentIn(r, data, analyzer)

CurrentInv ==
  /\ \A k \in DOMAIN cache : Current(cache[k].response)
  /\ \A t \in Threads : thread[t].pc = "store" => Current(thread[t].response)

IInv == TypeOK /\ PlaceInv /\ AllowInv /\ PaidInv /\ CurrentInv

--------------------------------------------------------------------------------
(* Responses, threads and the cache                                         *)

LEMMA ResponseType ==
    ASSUME NEW v \in Int, NEW g \in Int, NEW a \in BOOLEAN, NEW b \in BOOLEAN
    PROVE  LET r == Response(v, g, a, b)
           IN  /\ r \in Responses
               /\ r.value = v /\ r.goodFor = g /\ r.onAddress = a /\ r.onAsset = b /\ ~r.missed
<1>1. 1 + (v % 2) \in Bytes
  BY DEF Bytes
<1> QED BY <1>1 DEF Response, Responses

LEMMA MissType ==
    ASSUME NEW r \in Responses, NEW m \in BOOLEAN
    PROVE  LET n == Miss(r, m)
           IN  /\ n \in Responses /\ n.value = r.value
               /\ n.onAddress = r.onAddress /\ n.onAsset = r.onAsset /\ n.missed = (r.missed \/ m)
BY DEF Miss, Responses

\* What Holds does, where the types are right.
ThreadType == [pc : Places, call : Calls \cup {0}, kind : AllKinds \cup {"none"}, response : Responses]

LEMMA WithType ==
    ASSUME NEW th \in ThreadType, NEW place \in Places, NEW r \in Responses
    PROVE  LET n == With(th, place, r)
           IN  n \in ThreadType /\ n.pc = place /\ n.call = th.call /\ n.kind = th.kind /\ n.response = r
BY DEF With, ThreadType

LEMMA HoldsType ==
    ASSUME TypeOK, NEW t \in Threads, NEW place \in Places, NEW r \in Responses, Holds(t, r, place)
    PROVE  /\ thread' \in [Threads -> ThreadType]
           /\ thread'[t].pc = place /\ thread'[t].call = thread[t].call
           /\ thread'[t].kind = thread[t].kind /\ thread'[t].response = r
           /\ \A u \in Threads \ {t} : thread'[u] = thread[u]
<1>1. thread \in [Threads -> ThreadType]
  BY DEF TypeOK, ThreadType
<1>2. With(thread[t], place, r) \in ThreadType
  BY <1>1, WithType
<1>3. thread' = [thread EXCEPT ![t] = With(thread[t], place, r)]
  BY DEF Holds
<1> HIDE DEF ThreadType
<1> QED BY <1>1, <1>2, <1>3, WithType

LEMMA NewThreadType ==
    ASSUME NEW place \in Places, NEW c \in Calls \cup {0}, NEW k \in AllKinds \cup {"none"}
    PROVE  LET n == Thread(place, c, k)
           IN  n \in ThreadType /\ n.pc = place /\ n.call = c /\ n.kind = k
<1>1. NoResponse \in Responses
  <2>1. Response(0, 0, FALSE, FALSE) \in Responses
    BY 1 + (0 % 2) \in Bytes DEF Response, Responses, Bytes
  <2> QED BY <2>1 DEF NoResponse
<1> QED BY <1>1 DEF Thread, ThreadType

LEMMA KindsAreFinite == \A S \in SUBSET AllKinds : IsFiniteSet(S)
<1>1. /\ IsFiniteSet({"send"}) /\ IsFiniteSet({"holdings"}) /\ IsFiniteSet({"assets"})
      /\ IsFiniteSet({"start"}) /\ IsFiniteSet({"get"}) /\ IsFiniteSet({"clear"}) /\ IsFiniteSet({"bad"})
  BY FS_Singleton
<1>2. IsFiniteSet({"send"} \cup {"holdings"}) /\ IsFiniteSet({"assets"} \cup {"start"})
      /\ IsFiniteSet({"get"} \cup {"clear"})
  BY <1>1, FS_Union
<1>3. IsFiniteSet(({"send"} \cup {"holdings"}) \cup ({"assets"} \cup {"start"}))
      /\ IsFiniteSet(({"get"} \cup {"clear"}) \cup {"bad"})
  BY <1>1, <1>2, FS_Union
<1>4. IsFiniteSet((({"send"} \cup {"holdings"}) \cup ({"assets"} \cup {"start"}))
                   \cup (({"get"} \cup {"clear"}) \cup {"bad"}))
  BY <1>3, FS_Union
<1>5. AllKinds = (({"send"} \cup {"holdings"}) \cup ({"assets"} \cup {"start"}))
                   \cup (({"get"} \cup {"clear"}) \cup {"bad"})
  BY DEF AllKinds
<1>6. IsFiniteSet(AllKinds)
  BY <1>4, <1>5
<1> QED BY <1>6, FS_Subset

\* The size of any entries is a number, and the counter stays below Wrap.
LEMMA SizeOfType ==
    ASSUME NEW c, DOMAIN c \subseteq AllKinds
    PROVE  SizeOf(c) \in Nat
<1>1. IsFiniteSet(DOMAIN c) /\ IsFiniteSet(Bytes)
  <2>1. IsFiniteSet({1} \cup {2})
    BY FS_Singleton, FS_Union
  <2>2. Bytes = {1} \cup {2}
    BY DEF Bytes
  <2> QED BY <2>1, <2>2, KindsAreFinite
<1>2. IsFiniteSet((DOMAIN c) \X Bytes)
  BY <1>1, FS_Product
<1>3. IsFiniteSet({b \in (DOMAIN c) \X Bytes : b[2] <= c[b[1]].response.size})
  BY <1>2, FS_Subset
<1> QED BY <1>3, FS_CardinalityType DEF SizeOf

LEMMA LessType ==
    ASSUME NEW c, NEW size \in Int, NEW gone \in SUBSET AllKinds
    PROVE  Less(c, size, gone) \in 0..(Wrap - 1)
<1>1. DOMAIN Restrict(c, gone) = gone
  BY DEF Restrict
<1>2. SizeOf(Restrict(c, gone)) \in Nat
  BY <1>1, SizeOfType
<1>3. size - SizeOf(Restrict(c, gone)) \in Int
  BY <1>2
<1> QED BY <1>3, RpcAssumption DEF Less

\* What goes is counted off, and what stays is what it was.
CacheType(c) == DOMAIN c \subseteq AllKinds /\ \A k \in DOMAIN c : c[k].response \in Responses

LEMMA SweptType ==
    ASSUME NEW c, CacheType(c), cacheSize \in Int, NEW gone \in SUBSET DOMAIN c, Swept(c, gone)
    PROVE  /\ CacheType(cache') /\ cacheSize' \in 0..(Wrap - 1)
           /\ DOMAIN cache' = DOMAIN c \ gone
           /\ \A k \in DOMAIN cache' : cache'[k] = c[k]
<1>1. cacheSize' \in 0..(Wrap - 1)
  BY LessType DEF Swept, CacheType
<1> QED BY <1>1 DEF Swept, Without, Restrict, CacheType

LEMMA EvictedType ==
    ASSUME NEW c, CacheType(c), NEW size \in Int, Evicted(c, size)
    PROVE  /\ CacheType(cache') /\ cacheSize' \in 0..(Wrap - 1)
           /\ DOMAIN cache' \subseteq DOMAIN c
           /\ \A k \in DOMAIN cache' : cache'[k] = c[k]
<1>1. PICK left \in Remaining(c) : cache' = Restrict(c, left) /\ cacheSize' = Less(c, size, DOMAIN c \ left)
  BY DEF Evicted
<1>2. left \subseteq DOMAIN c
  BY DEF Remaining
<1>3. cacheSize' \in 0..(Wrap - 1)
  BY <1>1, <1>2, LessType DEF CacheType
<1> QED BY <1>1, <1>2, <1>3 DEF Restrict, CacheType

LEMMA AddResponseType ==
    ASSUME TypeOK, NEW k \in AllKinds, NEW r \in Responses, AddResponse(k, r)
    PROVE  /\ CacheType(cache') /\ cacheSize' \in 0..(Wrap - 1)
           /\ \A l \in DOMAIN cache' : \/ l \in DOMAIN cache /\ cache'[l] = cache[l]
                                       \/ cache'[l].response = r
<1> DEFINE c == [l \in DOMAIN cache \cup {k} |-> IF l = k THEN [response |-> r, timestamp |-> Now] ELSE cache[l]]
           size == IF IsCached(k) THEN cacheSize ELSE (cacheSize + r.size) % Wrap
<1>1. /\ DOMAIN c = DOMAIN cache \cup {k} /\ c[k].response = r
      /\ \A l \in DOMAIN c : l # k => l \in DOMAIN cache /\ c[l] = cache[l]
  OBVIOUS
<1>2. CacheType(c)
  BY <1>1 DEF TypeOK, CacheType
<1>3. size \in Int
  <2>1. cacheSize \in Int /\ r.size \in Int
    BY DEF TypeOK, Responses, Bytes
  <2>2. (cacheSize + r.size) % Wrap \in Int
    BY <2>1, RpcAssumption
  <2> QED BY <2>1, <2>2
<1>4. Evicted(c, size)
  BY DEF AddResponse
<1> HIDE DEF c, size
<1> QED BY <1>1, <1>2, <1>3, <1>4, EvictedType
--------------------------------------------------------------------------------
(* A thread goes on with its call                                           *)

\* Thread t is now at a place, with a response; the asyncstart thread may have begun.
Moved(t, place, r) ==
  /\ thread' \in [Threads -> ThreadType]
  /\ thread'[t].pc = place /\ thread'[t].response = r
  /\ thread'[t].call = thread[t].call /\ thread'[t].kind = thread[t].kind
  /\ \A u \in Threads \ {t} : \/ thread'[u] = thread[u]
                              \/ u = Async /\ thread[u].pc = "none" /\ thread'[u] = Idle

LEMMA HoldsMoves ==
    ASSUME TypeOK, NEW t \in Threads, NEW place \in Places, NEW r \in Responses, Holds(t, r, place)
    PROVE  Moved(t, place, r)
BY HoldsType DEF Moved

LEMMA GoesMoves ==
    ASSUME TypeOK, NEW t \in Threads, NEW place \in Places, Goes(t, place)
    PROVE  Moved(t, place, thread[t].response) /\ thread[t].response \in Responses
<1>1. thread[t].response \in Responses
  BY DEF TypeOK
<1> QED BY <1>1, HoldsMoves DEF Goes

LEMMA IdleType == Idle \in ThreadType /\ Idle.pc = "idle" /\ Idle.call = 0 /\ Idle.kind = "none"
BY NewThreadType DEF Idle, Places

\* Where a thread can go on to, and whose it remains.
Onward(t, place) ==
  /\ thread[t].pc \in Before \cup {"store"}
  /\ place \in Before => thread[t].pc \in Before
  /\ place \in Before \cup {"store", Answered(t)}

LEMMA OnwardKeepsPlaces ==
    ASSUME TypeOK, PlaceInv, NEW t \in Threads, NEW place, NEW r, Moved(t, place, r), Onward(t, place),
           UNCHANGED <<call, posted>>, \A k \in 1..Len(tasks') : tasks'[k] = Job
    PROVE  PlaceInv'
<1>1. \A w \in Workers : w # Async /\ w \in Threads
  BY RpcAssumption DEF Threads
<1>2. \A w \in Workers : thread'[w].call = thread[w].call /\ thread'[w].kind = thread[w].kind
  BY <1>1 DEF Moved
<1>3. \A w \in Workers : /\ thread'[w].pc = "idle" <=> thread[w].pc = "idle"
                         /\ thread'[w].pc \in {"idle", "reply", "store"} \cup Before
  <2>1. ASSUME NEW w \in Workers, w # t
        PROVE  thread'[w].pc = thread[w].pc
    BY <1>1, <2>1 DEF Moved
  <2>2. ASSUME t \in Workers
        PROVE  thread'[t].pc # "idle" /\ thread[t].pc # "idle" /\ thread'[t].pc \in {"reply", "store"} \cup Before
    BY <1>1, <2>2 DEF Moved, Onward, Answered, Before
  <2> QED BY <2>1, <2>2 DEF PlaceInv
<1>4. thread'[Async].call = 0 /\ (thread'[Async].pc \in Before \cup {"store"} => thread'[Async].kind = Job)
  <2>1. CASE t = Async
    BY <2>1 DEF PlaceInv, Moved, Onward, Before
  <2>2. CASE t # Async
    BY <2>2, IdleType DEF PlaceInv, Moved, Threads, Before
  <2> QED BY <2>1, <2>2
<1> QED BY <1>2, <1>3, <1>4 DEF PlaceInv

LEMMA PaidIsFinite == IsFiniteSet(Paid) /\ Cardinality(Paid) \in Nat
<1>1. IsFiniteSet(Calls)
  BY FS_Interval, RpcAssumption DEF Calls
<1> QED BY <1>1, FS_Subset, FS_CardinalityType DEF Paid

\* What may have been paid for, may have been paid for for good.
LEMMA PaidStays ==
    ASSUME Paid \subseteq Paid', sent' = sent, PaidInv, sent \in Nat
    PROVE  PaidInv'
<1>1. IsFiniteSet(Paid') /\ Cardinality(Paid') \in Nat
  <2>1. IsFiniteSet(Calls)
    BY FS_Interval, RpcAssumption DEF Calls
  <2> QED BY <2>1, FS_Subset, FS_CardinalityType DEF Paid
<1>2. Cardinality(Paid) <= Cardinality(Paid')
  BY <1>1, FS_Subset
<1> QED BY <1>1, <1>2, PaidIsFinite DEF PaidInv

LEMMA OnwardKeepsPaid ==
    ASSUME TypeOK, NEW t \in Threads, NEW place, NEW r, Moved(t, place, r), Onward(t, place),
           UNCHANGED call
    PROVE  Paid \subseteq Paid'
<1>1. \A w \in Workers : w # Async /\ w \in Threads
  BY RpcAssumption DEF Threads
<1>2. \A w \in Workers : /\ thread'[w].call = thread[w].call
                         /\ thread'[w].pc \in Before => thread[w].pc \in Before
  BY <1>1 DEF Moved, Onward
<1> QED BY <1>2 DEF Paid

\* A response that is read now, and a cache that stays.
LEMMA OnwardKeepsCurrent ==
    ASSUME CurrentInv, NEW t \in Threads, NEW place, NEW r, Moved(t, place, r),
           place = "store" => Current(r), UNCHANGED <<cache, data, analyzer>>
    PROVE  CurrentInv'
<1>1. \A x : Current(x) => Current(x)'
  BY DEF Current, CurrentIn
<1>2. ASSUME NEW u \in Threads, thread'[u].pc = "store"
      PROVE  Current(thread'[u].response)
  BY <1>2, IdleType DEF Moved, CurrentInv
<1>3. \A u \in Threads : thread'[u].pc = "store" => Current(thread[u].response)'
  BY <1>2 DEF Current, CurrentIn
<1>4. \A k \in DOMAIN cache' : Current(cache[k].response)'
  BY <1>1 DEF CurrentInv, Current, CurrentIn
<1> QED BY <1>3, <1>4 DEF CurrentInv

Permitted(k) == LET j == IF k \in DOMAIN allowedRPC THEN k ELSE "*"
                IN  j \in DOMAIN allowedRPC /\ allowedRPC[j]

LEMMA OnwardKeepsAllowed ==
    ASSUME AllowInv, NEW t \in Threads, NEW place, NEW r, Moved(t, place, r),
           place \in {"lookup", "run", "store"} =>
             thread[t].pc \in {"lookup", "run", "store"} \/ Permitted(thread[t].kind),
           place = "default" => thread[t].kind \notin DOMAIN allowedRPC,
           UNCHANGED allowedRPC, allowDefault' = 1 => Explicitly("*")
    PROVE  AllowInv'
<1>1. ASSUME NEW u \in Threads, thread'[u].pc \in {"lookup", "run", "store"}
      PROVE  Permitted(thread'[u].kind)
  <2>1. \A v \in Threads : thread[v].pc \in {"lookup", "run", "store"} => Permitted(thread[v].kind)
    BY DEF AllowInv, ForbiddenIsNeverMade, Permitted
  <2>2. \/ thread[u].pc \in {"lookup", "run", "store"} /\ thread'[u].kind = thread[u].kind
        \/ u = t /\ thread'[u].kind = thread[t].kind /\ Permitted(thread[t].kind)
    BY <1>1, IdleType DEF Moved
  <2> QED BY <2>1, <2>2
<1>2. ForbiddenIsNeverMade'
  BY <1>1 DEF ForbiddenIsNeverMade, Permitted
<1>3. \A u \in Threads : thread'[u].pc = "default" => thread'[u].kind \notin DOMAIN allowedRPC'
  BY IdleType DEF Moved, AllowInv
<1> QED BY <1>2, <1>3 DEF AllowInv, Explicitly

\* A step of a call that only moves its thread, but for what it found out about the method.
LEMMA OnwardKeepsIInv ==
    ASSUME IInv, NEW t \in Threads, NEW place, NEW r, Moved(t, place, r), Onward(t, place),
           place \in {"lookup", "run", "store"} =>
             thread[t].pc \in {"lookup", "run", "store"} \/ Permitted(thread[t].kind),
           place = "default" => thread[t].kind \notin DOMAIN allowedRPC,
           place = "store" => Current(r),
           allowDefault' \in {-1, 0, 1}, allowDefault' = 1 => Explicitly("*"),
           UNCHANGED <<call, posted, allowedRPC, cacheVars, asyncVars, chainVars, sent>>
    PROVE  IInv'
<1>1. TypeOK'
  BY DEF IInv, TypeOK, Moved, ThreadType, cacheVars, asyncVars, chainVars
<1>2. PlaceInv'
  BY OnwardKeepsPlaces DEF IInv, PlaceInv, asyncVars
<1>3. PaidInv'
  BY OnwardKeepsPaid, PaidStays DEF IInv, TypeOK
<1>4. CurrentInv'
  BY OnwardKeepsCurrent DEF IInv, cacheVars, chainVars
<1>5. AllowInv'
  BY OnwardKeepsAllowed DEF IInv
<1> QED BY <1>1, <1>2, <1>3, <1>4, <1>5 DEF IInv

LEMMA IsAllowedKeepsIInv ==
    ASSUME IInv, NEW t \in Threads, IsAllowed(t)
    PROVE  IInv'
<1> DEFINE k == thread[t].kind
           pass == IF k \in DOMAIN allowedRPC THEN Explicitly(k) ELSE allowDefault = 1
           place == IF k \notin DOMAIN allowedRPC /\ allowDefault = -1 THEN "default"
                    ELSE IF pass THEN "lookup" ELSE Answered(t)
<1>1. /\ Goes(t, place) /\ thread[t].pc = "allow"
      /\ UNCHANGED <<call, posted, allowedRPC, cacheVars, asyncVars, chainVars, sent>>
      /\ IF place = "default" THEN allowDefault' = 0 ELSE allowDefault' = allowDefault
  BY DEF IsAllowed, At, Answered
<1>2. place \in Places /\ Onward(t, place)
  BY <1>1 DEF Onward, Before, Answered, Places
<1>3. place = "lookup" => Permitted(k)
  BY DEF Permitted, Explicitly, IInv, AllowInv, Answered
<1>4. place = "default" => k \notin DOMAIN allowedRPC
  BY DEF Answered
<1>5. place \notin {"run", "store"}
  BY DEF Answered
<1>6. allowDefault' \in {-1, 0, 1} /\ (allowDefault' = 1 => Explicitly("*"))
  BY <1>1 DEF IInv, TypeOK, AllowInv
<1>7. Moved(t, place, thread[t].response)
  BY <1>1, <1>2, GoesMoves DEF IInv
<1> HIDE DEF place
<1> QED BY <1>1, <1>2, <1>3, <1>4, <1>5, <1>6, <1>7, OnwardKeepsIInv

LEMMA FindDefaultKeepsIInv ==
    ASSUME IInv, NEW t \in Threads, FindDefault(t)
    PROVE  IInv'
<1> DEFINE place == IF Explicitly("*") THEN "lookup" ELSE Answered(t)
<1>1. /\ Goes(t, place) /\ thread[t].pc = "default"
      /\ UNCHANGED <<call, posted, allowedRPC, cacheVars, asyncVars, chainVars, sent>>
      /\ allowDefault' = IF Explicitly("*") THEN 1 ELSE 0
  BY DEF FindDefault, At
<1>2. place \in Places /\ Onward(t, place) /\ place \notin {"run", "store", "default"}
  BY <1>1 DEF Onward, Before, Answered, Places
<1>3. place = "lookup" => Permitted(thread[t].kind)
  BY <1>1 DEF Permitted, Explicitly, IInv, AllowInv, Answered
<1>4. allowDefault' \in {-1, 0, 1} /\ (allowDefault' = 1 => Explicitly("*"))
  BY <1>1
<1>5. Moved(t, place, thread[t].response)
  BY <1>1, <1>2, GoesMoves DEF IInv
<1> HIDE DEF place
<1> QED BY <1>1, <1>2, <1>3, <1>4, <1>5, OnwardKeepsIInv

LEMMA LookupKeepsIInv ==
    ASSUME IInv, NEW t \in Threads, Lookup(t)
    PROVE  IInv'
<1> DEFINE place == IF IsCached(thread[t].kind) THEN Answered(t) ELSE "run"
<1>1. /\ Goes(t, place) /\ thread[t].pc = "lookup"
      /\ UNCHANGED <<call, posted, allowVars, cacheVars, asyncVars, chainVars, sent>>
  BY DEF Lookup, At
<1>2. place \in Places /\ Onward(t, place) /\ place \notin {"store", "default", "lookup"}
  BY <1>1 DEF Onward, Before, Answered, Places
<1>3. allowDefault' \in {-1, 0, 1} /\ (allowDefault' = 1 => Explicitly("*"))
  BY <1>1 DEF IInv, TypeOK, AllowInv, allowVars
<1>4. Moved(t, place, thread[t].response)
  BY <1>1, <1>2, GoesMoves DEF IInv
<1> HIDE DEF place
<1> QED BY <1>1, <1>2, <1>3, <1>4, OnwardKeepsIInv DEF allowVars

\* A method that only reads.
LEMMA ReadKeepsIInv ==
    ASSUME IInv, NEW t \in Threads, thread[t].pc = "run", NEW r \in Responses, Holds(t, r, "store"),
           Current(r), UNCHANGED <<call, posted, allowVars, cacheVars, asyncVars, chainVars, sent>>
    PROVE  IInv'
<1>1. Moved(t, "store", r)
  BY HoldsMoves DEF IInv, Places
<1>2. Onward(t, "store")
  BY DEF Onward, Before
<1>3. allowDefault' \in {-1, 0, 1} /\ (allowDefault' = 1 => Explicitly("*"))
  BY DEF IInv, TypeOK, AllowInv, allowVars
<1> QED BY <1>1, <1>2, <1>3, OnwardKeepsIInv DEF allowVars

LEMMA AddressHoldingsKeepsIInv ==
    ASSUME IInv, NEW t \in Threads, AddressHoldings(t)
    PROVE  IInv'
<1> DEFINE r == Response(data.holdings, Day, TRUE, FALSE)
<1>1. data.holdings \in Int /\ Day \in Int
  BY RpcAssumption DEF IInv, TypeOK
<1>2. r \in Responses /\ r.value = data.holdings /\ ~r.onAsset
  BY <1>1, ResponseType
<1>3. /\ Holds(t, r, "store") /\ thread[t].pc = "run"
      /\ UNCHANGED <<call, posted, allowVars, cacheVars, asyncVars, chainVars, sent>>
  BY DEF AddressHoldings, Runs, At
<1> HIDE DEF r
<1>4. Current(r)
  BY <1>2 DEF Current, CurrentIn
<1> QED BY <1>2, <1>3, <1>4, ReadKeepsIInv

LEMMA ListAssetsKeepsIInv ==
    ASSUME IInv, NEW t \in Threads, ListAssets(t)
    PROVE  IInv'
<1> DEFINE q == Response(data.assets, Day, FALSE, TRUE)
           r == Miss(q, analyzer = "announced")
<1>1. data.assets \in Int /\ Day \in Int
  BY RpcAssumption DEF IInv, TypeOK
<1>2. q \in Responses /\ q.value = data.assets /\ ~q.onAddress
  BY <1>1, ResponseType
<1> HIDE DEF q
<1>3. r \in Responses /\ r.value = data.assets /\ ~r.onAddress /\ (analyzer = "announced" => r.missed)
  BY <1>2, MissType
<1>4. /\ Holds(t, r, "store") /\ thread[t].pc = "run"
      /\ UNCHANGED <<call, posted, allowVars, cacheVars, asyncVars, chainVars, sent>>
  BY DEF ListAssets, Runs, At, q
<1> HIDE DEF r
<1>5. Current(r)
  BY <1>3 DEF Current, CurrentIn
<1> QED BY <1>3, <1>4, <1>5, ReadKeepsIInv

\* A payment is made for a connection that had not got one.
LEMMA SendKeepsIInv ==
    ASSUME IInv, NEW t \in Threads, Send(t)
    PROVE  IInv'
<1> DEFINE r == Response(sent', -1, FALSE, FALSE)
<1>1. sent \in Nat /\ sent' = sent + 1 /\ thread[t].pc = "run" /\ thread[t].kind = "send"
  BY DEF Send, IInv, TypeOK, Runs, At
<1>2. r \in Responses /\ ~r.onAddress /\ ~r.onAsset
  <2>1. sent' \in Int /\ -1 \in Int
    BY <1>1
  <2> QED BY <2>1, ResponseType
<1>3. /\ Holds(t, r, "store")
      /\ UNCHANGED <<call, posted, allowVars, cacheVars, asyncVars, chainVars>>
  BY DEF Send
<1> HIDE DEF r
<1>4. Moved(t, "store", r) /\ Onward(t, "store") /\ Current(r)
  BY <1>1, <1>2, <1>3, HoldsMoves DEF IInv, Places, Onward, Before, Current, CurrentIn
<1>5. TypeOK'
  BY <1>1, <1>3, <1>4 DEF IInv, TypeOK, Moved, ThreadType, allowVars, cacheVars, asyncVars, chainVars
<1>6. PlaceInv'
  BY <1>3, <1>4, OnwardKeepsPlaces DEF IInv, PlaceInv, asyncVars
<1>7. CurrentInv'
  BY <1>3, <1>4, OnwardKeepsCurrent DEF IInv, cacheVars, chainVars
<1>8. AllowInv'
  BY <1>1, <1>3, <1>4, OnwardKeepsAllowed DEF IInv, AllowInv, allowVars
<1>9. PaidInv'
  <2> DEFINE c == thread[t].call
  <2>1. t \in Workers
    BY <1>1 DEF IInv, PlaceInv, Before, Job, Threads
  <2>2. c \in Calls /\ c \notin Paid /\ call[c].kind = "send" /\ call[c].at = "taken"
    BY <1>1, <2>1 DEF IInv, PlaceInv, Paid, Before
  <2>3. c \in Paid'
    <3>1. \A w \in Workers : thread'[w].call = c => w = t
      <4>1. \A w \in Workers : w # Async /\ w \in Threads
        BY RpcAssumption DEF Threads
      <4>2. \A w \in Workers : thread'[w].call = thread[w].call
        BY <4>1, <1>4 DEF Moved
      <4>3. \A w \in Workers : thread[w].call = c => thread[w].pc # "idle" \/ w = t
        <5> SUFFICES ASSUME NEW w \in Workers, w # t, thread[w].call = c, thread[w].pc = "idle" PROVE FALSE
          OBVIOUS
        <5> QED BY <2>2 DEF IInv, PlaceInv, Calls
      <4> QED BY <4>2, <4>3, <1>1, <2>1 DEF IInv, PlaceInv
    <3>2. thread'[t].pc \notin Before
      BY <1>4 DEF Moved, Before
    <3> QED BY <2>2, <3>1, <3>2, <1>3 DEF Paid
  <2>4. Paid \subseteq Paid'
    BY <1>3, <1>4, OnwardKeepsPaid DEF IInv
  <2>5. IsFiniteSet(Paid') /\ Cardinality(Paid') \in Nat
    <3>1. IsFiniteSet(Calls)
      BY FS_Interval, RpcAssumption DEF Calls
    <3> QED BY <3>1, FS_Subset, FS_CardinalityType DEF Paid
  <2>6. Cardinality(Paid \cup {c}) = Cardinality(Paid) + 1
    BY <2>2, PaidIsFinite, FS_AddElement
  <2>7. Cardinality(Paid \cup {c}) <= Cardinality(Paid')
    BY <2>3, <2>4, <2>5, FS_Subset
  <2> QED BY <1>1, <2>5, <2>6, <2>7, PaidIsFinite DEF IInv, PaidInv
<1> QED BY <1>5, <1>6, <1>7, <1>8, <1>9 DEF IInv

\* A queued call is the one asyncstart is asked for, once.
LEMMA EnqueueType ==
    ASSUME TypeOK, PlaceInv, Enqueue
    PROVE  /\ tasks' \in Seq(AllKinds) /\ ToSet(tasks') = inTasks' /\ IsInjective(tasks')
           /\ \A k \in 1..Len(tasks') : tasks'[k] = Job
<1>1. Job \in AllKinds
  BY DEF Job, AllKinds
<1>2. CASE Job \in inTasks
  BY <1>2 DEF TypeOK, PlaceInv, Enqueue
<1>3. CASE Job \notin inTasks
  <2>1. tasks' = Append(tasks, Job) /\ inTasks' = inTasks \cup {Job}
    BY <1>3 DEF Enqueue
  <2>2. tasks \in Seq(AllKinds) /\ ToSet(tasks) = inTasks
    BY DEF TypeOK
  <2>3. \A k \in 1..Len(tasks) : tasks[k] # Job
    BY <1>3, <2>2 DEF ToSet
  <2>4. Len(tasks) = 0
    BY <2>2, <2>3 DEF PlaceInv
  <2>5. tasks' \in Seq(AllKinds) /\ Len(tasks') = 1 /\ tasks'[1] = Job /\ DOMAIN tasks' = {1}
    BY <1>1, <2>1, <2>2, <2>4
  <2>6. inTasks = {}
    BY <2>2, <2>4 DEF ToSet
  <2> QED BY <2>1, <2>5, <2>6 DEF ToSet, IsInjective
<1> QED BY <1>2, <1>3

LEMMA AsyncStartKeepsIInv ==
    ASSUME IInv, NEW t \in Threads, AsyncStart(t)
    PROVE  IInv'
<1> DEFINE r == Response(Len(tasks'), -1, FALSE, FALSE)
<1>1. /\ tasks' \in Seq(AllKinds) /\ ToSet(tasks') = inTasks' /\ IsInjective(tasks')
      /\ \A k \in 1..Len(tasks') : tasks'[k] = Job
  BY EnqueueType DEF AsyncStart, IInv
<1>2. r \in Responses /\ ~r.onAddress /\ ~r.onAsset
  <2>1. Len(tasks') \in Int /\ -1 \in Int
    BY <1>1
  <2> QED BY <2>1, ResponseType
<1>3. /\ thread[t].pc = "run"
      /\ thread' = [u \in Threads |->
            IF u = t THEN With(thread[t], "store", r)
            ELSE IF u = Async /\ At(Async, "none") THEN Idle ELSE thread[u]]
      /\ UNCHANGED <<call, posted, allowVars, cacheVars, file, chainVars, sent>>
  BY DEF AsyncStart, Runs, At
<1> HIDE DEF r
<1>4. Moved(t, "store", r)
  <2>1. thread \in [Threads -> ThreadType] /\ "store" \in Places
    BY DEF IInv, TypeOK, ThreadType, Places
  <2>2. /\ With(thread[t], "store", r) \in ThreadType /\ With(thread[t], "store", r).pc = "store"
        /\ With(thread[t], "store", r).call = thread[t].call /\ With(thread[t], "store", r).kind = thread[t].kind
        /\ With(thread[t], "store", r).response = r
    BY <2>1, <1>2, WithType
  <2> HIDE DEF ThreadType
  <2> QED BY <2>1, <2>2, <1>3, IdleType DEF Moved, At
<1>5. Onward(t, "store") /\ Current(r)
  BY <1>2, <1>3 DEF Onward, Before, Current, CurrentIn
<1>6. TypeOK'
  BY <1>1, <1>3, <1>4 DEF IInv, TypeOK, Moved, ThreadType, allowVars, cacheVars, chainVars
<1>7. PlaceInv'
  BY <1>1, <1>3, <1>4, <1>5, OnwardKeepsPlaces DEF IInv
<1>8. CurrentInv'
  BY <1>3, <1>4, <1>5, OnwardKeepsCurrent DEF IInv, cacheVars, chainVars
<1>9. AllowInv'
  BY <1>3, <1>4, OnwardKeepsAllowed DEF IInv, AllowInv, allowVars
<1>10. PaidInv'
  BY <1>3, <1>4, <1>5, OnwardKeepsPaid, PaidStays DEF IInv, TypeOK
<1> QED BY <1>6, <1>7, <1>8, <1>9, <1>10 DEF IInv

LEMMA AsyncGetKeepsIInv ==
    ASSUME IInv, NEW t \in Threads, AsyncGet(t)
    PROVE  IInv'
<1>1. /\ thread[t].pc = "run" /\ t \in Workers
      /\ UNCHANGED <<call, posted, allowVars, cacheVars, asyncVars, chainVars, sent>>
  BY DEF AsyncGet, Runs, At, IInv, PlaceInv, Before, Job, Threads
<1>2. CASE Goes(t, "reply")
  <2>1. Moved(t, "reply", thread[t].response)
    BY <1>2, GoesMoves DEF IInv, Places
  <2>2. Onward(t, "reply")
    BY <1>1, RpcAssumption DEF Onward, Before, Answered
  <2>3. allowDefault' \in {-1, 0, 1} /\ (allowDefault' = 1 => Explicitly("*"))
    BY <1>1 DEF IInv, TypeOK, AllowInv, allowVars
  <2> QED BY <1>1, <2>1, <2>2, <2>3, OnwardKeepsIInv DEF allowVars
<1>3. CASE ~Goes(t, "reply")
  <2> DEFINE r == Response(IF file = "full" THEN 1 ELSE 0, -1, FALSE, FALSE)
  <2>1. r \in Responses /\ ~r.onAddress /\ ~r.onAsset
    <3>1. (IF file = "full" THEN 1 ELSE 0) \in Int /\ -1 \in Int
      OBVIOUS
    <3> QED BY <3>1, ResponseType
  <2>2. Holds(t, r, "store")
    BY <1>3 DEF AsyncGet
  <2> HIDE DEF r
  <2>3. Current(r)
    BY <2>1 DEF Current, CurrentIn
  <2> QED BY <1>1, <2>1, <2>2, <2>3, ReadKeepsIInv
<1> QED BY <1>2, <1>3

LEMMA AsyncClearKeepsIInv ==
    ASSUME IInv, NEW t \in Threads, AsyncClear(t)
    PROVE  IInv'
<1> DEFINE r == Response(IF file = "none" THEN 0 ELSE 1, -1, FALSE, FALSE)
<1>1. r \in Responses /\ ~r.onAddress /\ ~r.onAsset
  <2>1. (IF file = "none" THEN 0 ELSE 1) \in Int /\ -1 \in Int
    OBVIOUS
  <2> QED BY <2>1, ResponseType
<1>2. /\ Holds(t, r, "store") /\ thread[t].pc = "run" /\ file' = "none"
      /\ UNCHANGED <<call, posted, allowVars, cacheVars, tasks, inTasks, chainVars, sent>>
  BY DEF AsyncClear, Runs, At
<1> HIDE DEF r
<1>3. Moved(t, "store", r) /\ Onward(t, "store") /\ Current(r)
  BY <1>1, <1>2, HoldsMoves DEF IInv, Places, Onward, Before, Current, CurrentIn
<1>4. TypeOK'
  BY <1>2, <1>3 DEF IInv, TypeOK, Moved, ThreadType, allowVars, cacheVars, chainVars
<1>5. PlaceInv'
  BY <1>2, <1>3, OnwardKeepsPlaces DEF IInv, PlaceInv
<1>6. CurrentInv'
  BY <1>2, <1>3, OnwardKeepsCurrent DEF IInv, cacheVars, chainVars
<1>7. AllowInv'
  BY <1>2, <1>3, OnwardKeepsAllowed DEF IInv, AllowInv, allowVars
<1>8. PaidInv'
  BY <1>2, <1>3, OnwardKeepsPaid, PaidStays DEF IInv, TypeOK
<1> QED BY <1>4, <1>5, <1>6, <1>7, <1>8 DEF IInv

\* A response that is stored was current when it was read, or knows that it missed something.
LEMMA StoreKeepsIInv ==
    ASSUME IInv, NEW t \in Threads, Store(t)
    PROVE  IInv'
<1> DEFINE r == thread[t].response
<1>1. /\ thread[t].pc = "store" /\ AddResponse(thread[t].kind, r) /\ Holds(t, NoResponse, Answered(t))
      /\ UNCHANGED <<call, posted, allowVars, asyncVars, chainVars, sent>>
  BY DEF Store, At
<1>2. NoResponse \in Responses /\ r \in Responses
  <2>1. Response(0, 0, FALSE, FALSE) \in Responses
    BY 1 + (0 % 2) \in Bytes DEF Response, Responses, Bytes
  <2> QED BY <2>1 DEF NoResponse, IInv, TypeOK
<1>3. Moved(t, Answered(t), NoResponse) /\ Onward(t, Answered(t))
      /\ Answered(t) \notin {"lookup", "run", "store", "default"}
  BY <1>1, <1>2, HoldsMoves DEF IInv, Places, Onward, Before, Answered
<1>4. thread[t].kind \in AllKinds /\ Current(r)
  <2>1. t = Async => thread[t].kind \in AllKinds
    BY <1>1 DEF IInv, PlaceInv, Job, AllKinds
  <2>2. t \in Workers => thread[t].kind \in AllKinds
    <3> SUFFICES ASSUME t \in Workers PROVE thread[t].kind \in AllKinds
      OBVIOUS
    <3>1. thread[t].call \in Calls /\ call[thread[t].call].at = "taken"
          /\ call[thread[t].call].kind = thread[t].kind
      BY <1>1 DEF IInv, PlaceInv
    <3> QED BY <3>1 DEF IInv, PlaceInv
  <2> QED BY <2>1, <2>2, <1>1 DEF IInv, CurrentInv, Threads
<1>5. /\ CacheType(cache') /\ cacheSize' \in 0..(Wrap - 1)
      /\ \A l \in DOMAIN cache' : \/ l \in DOMAIN cache /\ cache'[l] = cache[l]
                                  \/ cache'[l].response = r
  BY <1>1, <1>2, <1>4, AddResponseType DEF IInv
<1>6. TypeOK'
  BY <1>1, <1>3, <1>5 DEF IInv, TypeOK, Moved, ThreadType, CacheType, allowVars, asyncVars, chainVars
<1>7. PlaceInv'
  BY <1>1, <1>3, OnwardKeepsPlaces DEF IInv, PlaceInv, asyncVars
<1>8. CurrentInv'
  <2>1. \A l \in DOMAIN cache' : Current(cache'[l].response)
    BY <1>4, <1>5 DEF IInv, CurrentInv
  <2>2. \A u \in Threads : thread'[u].pc = "store" => Current(thread'[u].response)
    BY <1>3, IdleType DEF IInv, CurrentInv, Moved
  <2> QED BY <2>1, <2>2, <1>1 DEF CurrentInv, Current, CurrentIn, chainVars
<1>9. AllowInv'
  BY <1>1, <1>3, OnwardKeepsAllowed DEF IInv, AllowInv, allowVars
<1>10. PaidInv'
  BY <1>1, <1>3, OnwardKeepsPaid, PaidStays DEF IInv, TypeOK
<1> QED BY <1>6, <1>7, <1>8, <1>9, <1>10 DEF IInv

--------------------------------------------------------------------------------
(* Connections, and the asyncstart thread                                   *)

LEMMA ConnectKeepsIInv ==
    ASSUME IInv, NEW c \in Calls, Connect(c)
    PROVE  IInv'
<1>1. PICK k \in Kinds \cup {"bad"} : call' = [call EXCEPT ![c] = [at |-> "posted", kind |-> k]]
  BY DEF Connect
<1>2. k \in AllKinds
  BY RpcAssumption DEF AllKinds
<1>3. /\ call[c].at = "none" /\ posted' = Append(posted, c)
      /\ UNCHANGED <<thread, allowVars, cacheVars, asyncVars, chainVars, sent>>
  BY DEF Connect
<1>4. /\ call'[c].at = "posted" /\ call'[c].kind = k /\ \A d \in Calls \ {c} : call'[d] = call[d]
      /\ call' \in [Calls -> [at : {"none", "posted", "taken", "closed"}, kind : AllKinds \cup {"none"}]]
  BY <1>1, <1>2 DEF IInv, TypeOK
<1>5. posted' \in Seq(Calls) /\ Len(posted') = Len(posted) + 1 /\ posted'[Len(posted) + 1] = c
      /\ \A j \in 1..Len(posted) : posted'[j] = posted[j] /\ posted[j] \in Calls /\ posted[j] # c
  BY <1>3 DEF IInv, TypeOK, PlaceInv
<1>6. TypeOK'
  BY <1>3, <1>4, <1>5 DEF IInv, TypeOK, allowVars, cacheVars, asyncVars, chainVars
<1>7. PlaceInv'
  <2>1. \A j, l \in 1..Len(posted') : posted'[j] = posted'[l] => j = l
    <3> SUFFICES ASSUME NEW j \in 1..Len(posted'), NEW l \in 1..Len(posted'), posted'[j] = posted'[l]
                 PROVE  j = l
      OBVIOUS
    <3>1. Len(posted) \in Nat
      BY DEF IInv, TypeOK
    <3>2. (j \in 1..Len(posted) \/ j = Len(posted) + 1) /\ (l \in 1..Len(posted) \/ l = Len(posted) + 1)
      BY <3>1, <1>5
    <3> QED BY <3>2, <1>5 DEF IInv, PlaceInv
  <2>2. \A j \in 1..Len(posted') : call'[posted'[j]].at = "posted"
    <3>1. Len(posted) \in Nat
      BY DEF IInv, TypeOK
    <3>2. \A j \in 1..Len(posted') : j \in 1..Len(posted) \/ j = Len(posted) + 1
      BY <3>1, <1>5
    <3>3. \A j \in 1..Len(posted) : call[posted[j]].at = "posted"
      BY DEF IInv, PlaceInv
    <3>4. \A j \in 1..Len(posted) : call'[posted'[j]] = call[posted[j]]
      BY <1>4, <1>5
    <3>5. call'[posted'[Len(posted) + 1]].at = "posted"
      BY <1>4, <1>5
    <3> QED BY <3>2, <3>3, <3>4, <3>5
  <2>3. \A w \in Workers : thread[w].pc # "idle" => thread[w].call # c
    BY <1>3 DEF IInv, PlaceInv
  <2>4. \A d \in Calls : call'[d].at # "none" => call'[d].kind \in AllKinds
    BY <1>2, <1>4 DEF IInv, PlaceInv
  <2> QED BY <2>1, <2>2, <2>3, <2>4, <1>3, <1>4 DEF IInv, PlaceInv, asyncVars
<1>8. AllowInv'
  BY <1>3 DEF IInv, AllowInv, ForbiddenIsNeverMade, Explicitly, allowVars
<1>9. PaidInv'
  <2>1. Paid \subseteq Paid'
    BY <1>3, <1>4 DEF Paid
  <2> QED BY <2>1, <1>3, PaidStays DEF IInv, TypeOK
<1>10. CurrentInv'
  BY <1>3 DEF IInv, CurrentInv, Current, CurrentIn, cacheVars, chainVars
<1> QED BY <1>6, <1>7, <1>8, <1>9, <1>10 DEF IInv

LEMMA TakeKeepsIInv ==
    ASSUME IInv, NEW w \in Workers, Take(w)
    PROVE  IInv'
<1> DEFINE c == Head(posted)
           place == IF call[c].kind = "bad" THEN "reply" ELSE "allow"
           th == Thread(place, c, call[c].kind)
<1>1. /\ posted # << >> /\ posted' = Tail(posted) /\ thread[w].pc = "idle"
      /\ thread' = [thread EXCEPT ![w] = th] /\ call' = [call EXCEPT ![c].at = "taken"]
      /\ UNCHANGED <<allowVars, cacheVars, asyncVars, chainVars, sent>>
  BY DEF Take, Begin, At
<1>2. /\ w \in Threads /\ w # Async /\ \A v \in Workers : v \in Threads /\ v # Async
  BY RpcAssumption DEF Threads
<1>3. c \in Calls /\ call[c].at = "posted" /\ call[c].kind \in AllKinds /\ place \in Places
  <2>1. 1 \in 1..Len(posted) /\ c = posted[1] /\ c \in Calls
    BY <1>1 DEF IInv, TypeOK
  <2> QED BY <2>1 DEF IInv, PlaceInv, Places
<1>4. th \in ThreadType /\ th.pc = place /\ th.call = c /\ th.kind = call[c].kind
  BY <1>3, NewThreadType
<1> HIDE DEF th
<1>5. /\ thread' \in [Threads -> ThreadType] /\ thread'[w] = th
      /\ \A t \in Threads \ {w} : thread'[t] = thread[t]
  BY <1>1, <1>2, <1>4 DEF IInv, TypeOK, ThreadType
<1>6. /\ call' \in [Calls -> [at : {"none", "posted", "taken", "closed"}, kind : AllKinds \cup {"none"}]]
      /\ call'[c].at = "taken" /\ call'[c].kind = call[c].kind
      /\ \A d \in Calls \ {c} : call'[d] = call[d]
  BY <1>1, <1>3 DEF IInv, TypeOK
<1>7. /\ posted' \in Seq(Calls)
      /\ \A j \in 1..Len(posted') : j + 1 \in 1..Len(posted) /\ posted'[j] = posted[j + 1]
                                   /\ posted'[j] \in Calls
      /\ 1 \in 1..Len(posted) /\ c = posted[1]
  BY <1>1 DEF IInv, TypeOK
<1> HIDE DEF c
<1>8. TypeOK'
  BY <1>1, <1>5, <1>6, <1>7 DEF IInv, TypeOK, ThreadType, allowVars, cacheVars, asyncVars, chainVars
<1>9. PlaceInv'
  <2>1. \A j, l \in 1..Len(posted') : posted'[j] = posted'[l] => j = l
    <3> SUFFICES ASSUME NEW j \in 1..Len(posted'), NEW l \in 1..Len(posted'), posted'[j] = posted'[l]
                 PROVE  j = l
      OBVIOUS
    <3>1. j + 1 = l + 1
      BY <1>7 DEF IInv, PlaceInv
    <3> QED BY <3>1
  <2>2. \A j \in 1..Len(posted') : call'[posted'[j]].at = "posted"
    <3> SUFFICES ASSUME NEW j \in 1..Len(posted') PROVE call'[posted'[j]].at = "posted"
      OBVIOUS
    <3>1. j + 1 \in 1..Len(posted) /\ posted'[j] = posted[j + 1] /\ j + 1 # 1 /\ posted'[j] \in Calls
      BY <1>7
    <3>2. posted[j + 1] # c
      BY <3>1, <1>7 DEF IInv, PlaceInv
    <3> QED BY <3>1, <3>2, <1>6 DEF IInv, PlaceInv
  <2>3. \A v \in Workers : v # w /\ thread[v].pc # "idle" => thread[v].call # c
    BY <1>3 DEF IInv, PlaceInv
  <2>4. ASSUME NEW v \in Workers
        PROVE  /\ thread'[v].pc \in {"idle", "reply", "store"} \cup Before
               /\ thread'[v].pc = "idle" => thread'[v].call = 0
               /\ thread'[v].pc # "idle" =>
                     /\ thread'[v].call \in Calls
                     /\ call'[thread'[v].call].at = "taken"
                     /\ call'[thread'[v].call].kind = thread'[v].kind
    <3>1. CASE v = w
      BY <3>1, <1>3, <1>4, <1>5, <1>6 DEF Before
    <3>2. CASE v # w
      <4>1. thread'[v] = thread[v]
        BY <3>2, <1>2, <1>5
      <4> QED BY <4>1, <3>2, <2>3, <1>6 DEF IInv, PlaceInv
    <3> QED BY <3>1, <3>2
  <2>5. \A u, v \in Workers : thread'[u].pc # "idle" /\ thread'[v].pc # "idle" /\ u # v =>
                              thread'[u].call # thread'[v].call
    <3>1. \A v \in Workers : v # w => thread'[v] = thread[v]
      BY <1>2, <1>5
    <3>2. \A v \in Workers : v # w /\ thread'[v].pc # "idle" => thread'[v].call # thread'[w].call
      BY <3>1, <2>3, <1>4, <1>5
    <3> SUFFICES ASSUME NEW u \in Workers, NEW v \in Workers, thread'[u].pc # "idle", thread'[v].pc # "idle",
                        thread'[u].call = thread'[v].call, u # v
                 PROVE  FALSE
      OBVIOUS
    <3>3. u # w /\ v # w
      BY <3>2
    <3> QED BY <3>1, <3>3 DEF IInv, PlaceInv
  <2>6. thread'[Async] = thread[Async]
    BY <1>2, <1>5 DEF Threads
  <2>7. \A d \in Calls : call'[d].at # "none" => call'[d].kind \in AllKinds
    BY <1>3, <1>6 DEF IInv, PlaceInv
  <2> QED BY <2>1, <2>2, <2>4, <2>5, <2>6, <2>7, <1>1 DEF IInv, PlaceInv, asyncVars
<1>10. AllowInv'
  BY <1>1, <1>4, <1>5 DEF IInv, AllowInv, ForbiddenIsNeverMade, Explicitly, allowVars
<1>11. PaidInv'
  <2>1. ASSUME NEW d \in Paid PROVE d \in Paid'
    <3>1. d # c /\ d \in Calls
      BY <1>3 DEF Paid
    <3>2. \A v \in Workers : thread'[v].call = d => thread'[v].pc \notin Before
      BY <3>1, <1>2, <1>4, <1>5 DEF Paid
    <3> QED BY <3>1, <3>2, <1>6 DEF Paid
  <2> QED BY <2>1, <1>1, PaidStays DEF IInv, TypeOK
<1>12. CurrentInv'
  <2>1. \A t \in Threads : thread'[t].pc = "store" => thread[t].pc = "store" /\ thread'[t] = thread[t]
    BY <1>4, <1>5
  <2> QED BY <2>1, <1>1 DEF IInv, CurrentInv, Current, CurrentIn, cacheVars, chainVars
<1> QED BY <1>8, <1>9, <1>10, <1>11, <1>12 DEF IInv

LEMMA ReplyKeepsIInv ==
    ASSUME IInv, NEW w \in Workers, Reply(w)
    PROVE  IInv'
<1> DEFINE c == thread[w].call
<1>1. /\ thread[w].pc = "reply" /\ call' = [call EXCEPT ![c].at = "closed"]
      /\ thread' = [thread EXCEPT ![w] = Idle]
      /\ UNCHANGED <<posted, allowVars, cacheVars, asyncVars, chainVars, sent>>
  BY DEF Reply, At
<1>2. /\ w \in Threads /\ w # Async /\ \A v \in Workers : v \in Threads /\ v # Async
  BY RpcAssumption DEF Threads
<1>3. c \in Calls /\ call[c].at = "taken"
  BY <1>1 DEF IInv, PlaceInv
<1>4. /\ thread' \in [Threads -> ThreadType] /\ thread'[w] = Idle
      /\ \A t \in Threads \ {w} : thread'[t] = thread[t]
  BY <1>1, <1>2, IdleType DEF IInv, TypeOK, ThreadType
<1>5. /\ call' \in [Calls -> [at : {"none", "posted", "taken", "closed"}, kind : AllKinds \cup {"none"}]]
      /\ call'[c].at = "closed" /\ call'[c].kind = call[c].kind
      /\ \A d \in Calls \ {c} : call'[d] = call[d]
  BY <1>1, <1>3 DEF IInv, TypeOK
<1>6. \A v \in Workers : v # w /\ thread[v].pc # "idle" => thread[v].call # c
  BY <1>1 DEF IInv, PlaceInv
<1> HIDE DEF c
<1>7. TypeOK'
  BY <1>1, <1>4, <1>5 DEF IInv, TypeOK, ThreadType, allowVars, cacheVars, asyncVars, chainVars
<1>8. PlaceInv'
  <2>1. ASSUME NEW v \in Workers
        PROVE  /\ thread'[v].pc \in {"idle", "reply", "store"} \cup Before
               /\ thread'[v].pc = "idle" => thread'[v].call = 0
               /\ thread'[v].pc # "idle" =>
                     /\ thread'[v].call \in Calls
                     /\ call'[thread'[v].call].at = "taken"
                     /\ call'[thread'[v].call].kind = thread'[v].kind
    <3>1. CASE v = w
      BY <3>1, <1>4, IdleType
    <3>2. CASE v # w
      <4>1. thread'[v] = thread[v]
        BY <3>2, <1>2, <1>4
      <4> QED BY <4>1, <3>2, <1>5, <1>6 DEF IInv, PlaceInv
    <3> QED BY <3>1, <3>2
  <2>2. \A u, v \in Workers : thread'[u].pc # "idle" /\ thread'[v].pc # "idle" /\ u # v =>
                              thread'[u].call # thread'[v].call
    <3>1. \A v \in Workers : thread'[v].pc # "idle" => v # w /\ thread'[v] = thread[v]
      BY <1>2, <1>4, IdleType
    <3> QED BY <3>1 DEF IInv, PlaceInv
  <2>3. thread'[Async] = thread[Async]
    BY <1>2, <1>4 DEF Threads
  <2>4. \A j \in 1..Len(posted) : call'[posted[j]].at = "posted"
    <3>1. \A j \in 1..Len(posted) : posted[j] \in Calls /\ posted[j] # c
      BY <1>3 DEF IInv, TypeOK, PlaceInv
    <3> QED BY <3>1, <1>5 DEF IInv, PlaceInv
  <2>5. \A d \in Calls : call'[d].at # "none" => call'[d].kind \in AllKinds
    BY <1>3, <1>5 DEF IInv, PlaceInv
  <2> QED BY <2>1, <2>2, <2>3, <2>4, <2>5, <1>1 DEF IInv, PlaceInv, asyncVars
<1>9. AllowInv'
  BY <1>1, <1>4, IdleType DEF IInv, AllowInv, ForbiddenIsNeverMade, Explicitly, allowVars
<1>10. PaidInv'
  <2>1. \A v \in Workers : thread'[v].pc \in Before => thread'[v] = thread[v]
    BY <1>2, <1>4, IdleType DEF Before
  <2>2. ASSUME NEW d \in Paid PROVE d \in Paid'
    <3>1. d \in Calls /\ call'[d].kind = "send" /\ call'[d].at \in {"taken", "closed"}
      BY <1>5 DEF Paid
    <3>2. \A v \in Workers : thread'[v].call = d => thread'[v].pc \notin Before
      BY <2>1 DEF Paid
    <3> QED BY <3>1, <3>2 DEF Paid
  <2> QED BY <2>2, <1>1, PaidStays DEF IInv, TypeOK
<1>11. CurrentInv'
  <2>1. \A t \in Threads : thread'[t].pc = "store" => thread[t].pc = "store" /\ thread'[t] = thread[t]
    BY <1>4, IdleType
  <2> QED BY <2>1, <1>1 DEF IInv, CurrentInv, Current, CurrentIn, cacheVars, chainVars
<1> QED BY <1>7, <1>8, <1>9, <1>10, <1>11 DEF IInv

\* The asyncstart thread goes on, and what it is to make is what it was asked for.
LEMMA AsyncKeepsThreads ==
    ASSUME IInv, thread' \in [Threads -> ThreadType], \A u \in Threads \ {Async} : thread'[u] = thread[u],
           thread'[Async].call = 0, thread'[Async].pc \notin {"default", "lookup", "run", "store"},
           thread'[Async].pc = "allow" => thread'[Async].kind = Job,
           \A k \in 1..Len(tasks') : tasks'[k] = Job,
           UNCHANGED <<call, posted, allowVars, cacheVars, chainVars, sent>>
    PROVE  PlaceInv' /\ AllowInv' /\ PaidInv' /\ CurrentInv'
<1>1. \A w \in Workers : thread'[w] = thread[w]
  BY RpcAssumption DEF Threads
<1>2. PlaceInv'
  BY <1>1 DEF IInv, PlaceInv, Before
<1>3. AllowInv'
  BY <1>1 DEF IInv, AllowInv, ForbiddenIsNeverMade, Explicitly, Threads, allowVars
<1>4. PaidInv'
  <2>1. Paid \subseteq Paid'
    BY <1>1 DEF Paid
  <2> QED BY <2>1, PaidStays DEF IInv, TypeOK
<1>5. CurrentInv'
  BY <1>1 DEF IInv, CurrentInv, Current, CurrentIn, Threads, cacheVars, chainVars
<1> QED BY <1>2, <1>3, <1>4, <1>5

LEMMA DequeueKeepsIInv ==
    ASSUME IInv, Dequeue
    PROVE  IInv'
<1> DEFINE th == Thread("allow", 0, Head(tasks))
<1>1. /\ tasks # << >> /\ thread' = [thread EXCEPT ![Async] = th]
      /\ tasks' = Tail(tasks) /\ inTasks' = inTasks \ {Head(tasks)}
      /\ UNCHANGED <<call, posted, allowVars, cacheVars, file, chainVars, sent>>
  BY DEF Dequeue
<1>2. tasks \in Seq(AllKinds) /\ ToSet(tasks) = inTasks /\ IsInjective(tasks)
  BY DEF IInv, TypeOK
<1>3. Len(tasks) \in Nat /\ Len(tasks) >= 1 /\ Head(tasks) = Job /\ tasks[1] = Job
  BY <1>1, <1>2 DEF IInv, PlaceInv
<1>4. Len(tasks) = 1
  <2>1. DOMAIN tasks = 1..Len(tasks)
    BY <1>2
  <2>2. 2 \in 1..Len(tasks) => tasks[1] = tasks[2] /\ 1 \in DOMAIN tasks /\ 2 \in DOMAIN tasks
    BY <1>3, <2>1 DEF IInv, PlaceInv
  <2>3. 2 \notin 1..Len(tasks)
    BY <1>2, <2>2 DEF IsInjective
  <2>4. \A n \in Nat : n >= 1 /\ 2 \notin 1..n => n = 1
    OBVIOUS
  <2> QED BY <1>3, <2>3, <2>4
<1>5. tasks' \in Seq(AllKinds) /\ Len(tasks') = 0 /\ DOMAIN tasks' = {}
  BY <1>1, <1>2, <1>4
<1>6. ToSet(tasks') = inTasks' /\ IsInjective(tasks')
  <2>1. inTasks = {Job}
    BY <1>2, <1>3, <1>4 DEF ToSet
  <2> QED BY <2>1, <1>1, <1>3, <1>5 DEF ToSet, IsInjective
<1>7. th \in ThreadType /\ th.pc = "allow" /\ th.call = 0 /\ th.kind = Job
  BY <1>3, NewThreadType DEF Places, Job, AllKinds
<1> HIDE DEF th
<1>8. /\ thread' \in [Threads -> ThreadType] /\ thread'[Async] = th
      /\ \A u \in Threads \ {Async} : thread'[u] = thread[u]
  <2>1. thread \in [Threads -> ThreadType]
    BY DEF IInv, TypeOK, ThreadType
  <2> QED BY <2>1, <1>1, <1>7 DEF Threads
<1>9. PlaceInv' /\ AllowInv' /\ PaidInv' /\ CurrentInv'
  BY <1>1, <1>5, <1>7, <1>8, AsyncKeepsThreads
<1>10. TypeOK'
  BY <1>1, <1>5, <1>6, <1>8 DEF IInv, TypeOK, ThreadType, allowVars, cacheVars, chainVars
<1> QED BY <1>9, <1>10 DEF IInv

LEMMA WriteResultKeepsIInv ==
    ASSUME IInv, WriteResult
    PROVE  IInv'
<1>1. Async \in Threads /\ thread \in [Threads -> ThreadType] /\ thread[Async].call = 0
  BY DEF Threads, IInv, TypeOK, ThreadType, PlaceInv
<1>2. /\ thread' \in [Threads -> ThreadType] /\ \A u \in Threads \ {Async} : thread'[u] = thread[u]
      /\ thread'[Async].call = 0 /\ thread'[Async].pc \in {"idle", "open", "close"}
  <2>1. CASE Goes(Async, "open")
    BY <2>1, <1>1, HoldsType DEF Goes, IInv, TypeOK, Places
  <2>2. CASE Goes(Async, "close")
    BY <2>2, <1>1, HoldsType DEF Goes, IInv, TypeOK, Places
  <2>3. CASE thread' = [thread EXCEPT ![Async] = Idle]
    <3> HIDE DEF ThreadType
    <3> QED BY <2>3, <1>1, IdleType
  <2> QED BY <2>1, <2>2, <2>3 DEF WriteResult
<1>3. /\ file' \in {"none", "empty", "full"}
      /\ UNCHANGED <<call, posted, allowVars, cacheVars, tasks, inTasks, chainVars, sent>>
  BY DEF WriteResult, IInv, TypeOK
<1>4. PlaceInv' /\ AllowInv' /\ PaidInv' /\ CurrentInv'
  BY <1>2, <1>3, AsyncKeepsThreads DEF IInv, PlaceInv
<1>5. TypeOK'
  BY <1>2, <1>3 DEF IInv, TypeOK, ThreadType, allowVars, cacheVars, chainVars
<1> QED BY <1>4, <1>5 DEF IInv

--------------------------------------------------------------------------------
(* The chain analyzer                                                       *)

\* The analyzer moves no thread.
LEMMA ThreadsStay ==
    ASSUME IInv, thread' \in [Threads -> ThreadType],
           \A t \in Threads : /\ thread'[t].pc = thread[t].pc /\ thread'[t].call = thread[t].call
                              /\ thread'[t].kind = thread[t].kind,
           UNCHANGED <<call, posted, allowVars, asyncVars, sent>>
    PROVE  PlaceInv' /\ AllowInv' /\ PaidInv'
<1>1. Workers \subseteq Threads /\ Async \in Threads
  BY DEF Threads
<1>2. PlaceInv'
  BY <1>1 DEF IInv, PlaceInv, asyncVars
<1>3. AllowInv'
  BY DEF IInv, AllowInv, ForbiddenIsNeverMade, Explicitly, allowVars
<1>4. PaidInv'
  <2>1. Paid \subseteq Paid'
    BY <1>1 DEF Paid
  <2> QED BY <2>1, PaidStays DEF IInv, TypeOK
<1> QED BY <1>2, <1>3, <1>4

LEMMA MissedType ==
    ASSUME TypeOK, NEW some \in SUBSET Threads, Missed(some)
    PROVE  /\ thread' \in [Threads -> ThreadType]
           /\ \A t \in Threads : /\ thread'[t].pc = thread[t].pc /\ thread'[t].call = thread[t].call
                                 /\ thread'[t].kind = thread[t].kind
                                 /\ thread'[t].response.value = thread[t].response.value
                                 /\ thread'[t].response.onAddress = thread[t].response.onAddress
                                 /\ thread'[t].response.onAsset = thread[t].response.onAsset
                                 /\ thread'[t].response.missed = (thread[t].response.missed \/ t \in some)
<1>1. ASSUME NEW t \in Threads
      PROVE  /\ thread'[t] \in ThreadType
             /\ thread'[t].pc = thread[t].pc /\ thread'[t].call = thread[t].call
             /\ thread'[t].kind = thread[t].kind
             /\ thread'[t].response.value = thread[t].response.value
             /\ thread'[t].response.onAddress = thread[t].response.onAddress
             /\ thread'[t].response.onAsset = thread[t].response.onAsset
             /\ thread'[t].response.missed = (thread[t].response.missed \/ t \in some)
  <2>1. thread[t] \in ThreadType /\ thread[t].pc \in Places /\ thread[t].response \in Responses
    BY DEF TypeOK, ThreadType
  <2>2. CASE t \in some
    <3> DEFINE r == Miss(thread[t].response, TRUE)
    <3>1. r \in Responses /\ r.value = thread[t].response.value
          /\ r.onAddress = thread[t].response.onAddress /\ r.onAsset = thread[t].response.onAsset
          /\ r.missed = TRUE
      BY <2>1, MissType
    <3>2. thread'[t] = With(thread[t], thread[t].pc, r)
      BY <2>2 DEF Missed
    <3>3. t \in some <=> TRUE
      BY <2>2
    <3> HIDE DEF r, ThreadType
    <3>4. /\ thread'[t] \in ThreadType /\ thread'[t].pc = thread[t].pc /\ thread'[t].call = thread[t].call
          /\ thread'[t].kind = thread[t].kind /\ thread'[t].response = r
      BY <2>1, <3>1, <3>2, WithType
    <3> QED BY <3>1, <3>3, <3>4
  <2>3. CASE t \notin some
    <3>1. thread'[t] = thread[t]
      BY <2>3 DEF Missed
    <3>2. thread[t].response.missed \in BOOLEAN
      BY <2>1 DEF Responses
    <3> QED BY <2>1, <2>3, <3>1, <3>2
  <2> QED BY <2>2, <2>3
<1>2. DOMAIN thread' = Threads /\ thread' = [t \in Threads |-> thread'[t]]
  BY DEF Missed
<1> HIDE DEF ThreadType
<1> QED BY <1>1, <1>2

LEMMA MoveKeepsIInv ==
    ASSUME IInv, Move
    PROVE  IInv'
<1>1. /\ analyzer = "between" /\ analyzer' = "written" /\ changes' = changes + 1
      /\ data' = [data EXCEPT !.holdings = @ + 1]
      /\ UNCHANGED <<call, posted, thread, allowVars, cacheVars, asyncVars, blocks, sent>>
  BY DEF Move, Changes
<1>2. data' \in [holdings : Nat, assets : Nat] /\ data'.assets = data.assets
  BY <1>1 DEF IInv, TypeOK
<1>3. TypeOK'
  BY <1>1, <1>2 DEF IInv, TypeOK, allowVars, cacheVars, asyncVars
<1>4. PlaceInv' /\ AllowInv' /\ PaidInv'
  BY <1>1, ThreadsStay DEF IInv, TypeOK, ThreadType
<1>5. CurrentInv'
  BY <1>1, <1>2 DEF IInv, CurrentInv, Current, CurrentIn, cacheVars
<1> QED BY <1>3, <1>4, <1>5 DEF IInv

LEMMA AnnounceKeepsIInv ==
    ASSUME IInv, Announce
    PROVE  IInv'
<1>1. /\ analyzer = "between" /\ analyzer' = "announced" /\ changes' = changes + 1
      /\ Swept(cache, EntriesOnAsset) /\ Missed(StoringOnAsset)
      /\ UNCHANGED <<call, posted, allowVars, asyncVars, data, blocks, sent>>
  BY DEF Announce, Changes
<1>2. /\ CacheType(cache') /\ cacheSize' \in 0..(Wrap - 1)
      /\ DOMAIN cache' = DOMAIN cache \ EntriesOnAsset
      /\ \A k \in DOMAIN cache' : cache'[k] = cache[k]
  <2>1. CacheType(cache) /\ cacheSize \in Int /\ EntriesOnAsset \in SUBSET DOMAIN cache
    BY DEF IInv, TypeOK, CacheType, EntriesOnAsset
  <2> QED BY <2>1, <1>1, SweptType
<1>3. StoringOnAsset \in SUBSET Threads /\ TypeOK
  BY DEF StoringOnAsset, IInv
<1>4. TypeOK'
  BY <1>1, <1>2, <1>3, MissedType DEF IInv, TypeOK, ThreadType, CacheType, allowVars, asyncVars
<1>5. PlaceInv' /\ AllowInv' /\ PaidInv'
  BY <1>1, <1>3, MissedType, ThreadsStay
<1>6. CurrentInv'
  <2>1. \A k \in DOMAIN cache' : Current(cache[k].response) /\ ~cache[k].response.onAsset
    BY <1>2 DEF IInv, CurrentInv, EntriesOnAsset, OnAsset
  <2>2. \A k \in DOMAIN cache' : CurrentIn(cache'[k].response, data', analyzer')
    BY <2>1, <1>1, <1>2 DEF Current, CurrentIn
  <2>3. \A t \in Threads : thread'[t].pc = "store" => CurrentIn(thread'[t].response, data', analyzer')
    <3> SUFFICES ASSUME NEW t \in Threads, thread'[t].pc = "store" PROVE CurrentIn(thread'[t].response, data', analyzer')
      OBVIOUS
    <3>1. thread[t].pc = "store" /\ Current(thread[t].response)
      BY <1>1, <1>3, MissedType DEF IInv, CurrentInv
    <3>2. /\ thread'[t].response.value = thread[t].response.value
          /\ thread'[t].response.onAddress = thread[t].response.onAddress
          /\ thread'[t].response.onAsset = thread[t].response.onAsset
          /\ thread'[t].response.missed = (thread[t].response.missed \/ t \in StoringOnAsset)
      BY <1>1, <1>3, MissedType
    <3>3. thread[t].response.onAsset => t \in StoringOnAsset
      BY <3>1 DEF StoringOnAsset, OnAsset
    <3> QED BY <3>1, <3>2, <3>3, <1>1 DEF Current, CurrentIn
  <2> QED BY <2>2, <2>3 DEF CurrentInv, Current
<1> QED BY <1>4, <1>5, <1>6 DEF IInv

LEMMA IssueKeepsIInv ==
    ASSUME IInv, Issue
    PROVE  IInv'
<1>1. /\ analyzer = "announced" /\ analyzer' = "written"
      /\ data' = [holdings |-> data.holdings + 1, assets |-> data.assets + 1]
      /\ UNCHANGED <<call, posted, thread, allowVars, cacheVars, asyncVars, blocks, changes, sent>>
  BY DEF Issue
<1>2. data' \in [holdings : Nat, assets : Nat]
  BY <1>1 DEF IInv, TypeOK
<1>3. TypeOK'
  BY <1>1, <1>2 DEF IInv, TypeOK, allowVars, cacheVars, asyncVars
<1>4. PlaceInv' /\ AllowInv' /\ PaidInv'
  BY <1>1, ThreadsStay DEF IInv, TypeOK, ThreadType
<1>5. CurrentInv'
  BY <1>1 DEF IInv, CurrentInv, Current, CurrentIn, cacheVars
<1> QED BY <1>3, <1>4, <1>5 DEF IInv

LEMMA AddressChangedKeepsIInv ==
    ASSUME IInv, AddressChanged
    PROVE  IInv'
<1>1. /\ analyzer = "written" /\ analyzer' = "between"
      /\ Swept(cache, EntriesOnAddress) /\ Missed(StoringOnAddress)
      /\ UNCHANGED <<call, posted, allowVars, asyncVars, data, blocks, changes, sent>>
  BY DEF AddressChanged
<1>2. /\ CacheType(cache') /\ cacheSize' \in 0..(Wrap - 1)
      /\ DOMAIN cache' = DOMAIN cache \ EntriesOnAddress
      /\ \A k \in DOMAIN cache' : cache'[k] = cache[k]
  <2>1. CacheType(cache) /\ cacheSize \in Int /\ EntriesOnAddress \in SUBSET DOMAIN cache
    BY DEF IInv, TypeOK, CacheType, EntriesOnAddress
  <2> QED BY <2>1, <1>1, SweptType
<1>3. StoringOnAddress \in SUBSET Threads /\ TypeOK
  BY DEF StoringOnAddress, IInv
<1>4. TypeOK'
  BY <1>1, <1>2, <1>3, MissedType DEF IInv, TypeOK, ThreadType, CacheType, allowVars, asyncVars
<1>5. PlaceInv' /\ AllowInv' /\ PaidInv'
  BY <1>1, <1>3, MissedType, ThreadsStay
<1>6. CurrentInv'
  <2>1. \A k \in DOMAIN cache' : Current(cache[k].response) /\ ~cache[k].response.onAddress
    BY <1>2 DEF IInv, CurrentInv, EntriesOnAddress, OnAddress
  <2>2. \A k \in DOMAIN cache' : CurrentIn(cache'[k].response, data', analyzer')
    BY <2>1, <1>1, <1>2 DEF Current, CurrentIn
  <2>3. \A t \in Threads : thread'[t].pc = "store" => CurrentIn(thread'[t].response, data', analyzer')
    <3> SUFFICES ASSUME NEW t \in Threads, thread'[t].pc = "store" PROVE CurrentIn(thread'[t].response, data', analyzer')
      OBVIOUS
    <3>1. thread[t].pc = "store" /\ Current(thread[t].response)
      BY <1>1, <1>3, MissedType DEF IInv, CurrentInv
    <3>2. /\ thread'[t].response.value = thread[t].response.value
          /\ thread'[t].response.onAddress = thread[t].response.onAddress
          /\ thread'[t].response.onAsset = thread[t].response.onAsset
          /\ thread'[t].response.missed = (thread[t].response.missed \/ t \in StoringOnAddress)
      BY <1>1, <1>3, MissedType
    <3>3. thread[t].response.onAddress => t \in StoringOnAddress
      BY <3>1 DEF StoringOnAddress, OnAddress
    <3> QED BY <3>1, <3>2, <3>3, <1>1 DEF Current, CurrentIn
  <2> QED BY <2>2, <2>3 DEF CurrentInv, Current
<1> QED BY <1>4, <1>5, <1>6 DEF IInv

\* A block ages the entries and changes none of their answers.
LEMMA OlderType ==
    ASSUME CacheType(cache)
    PROVE  /\ CacheType(Older) /\ DOMAIN Older = DOMAIN cache
           /\ \A k \in DOMAIN cache : /\ Older[k].response.value = cache[k].response.value
                                      /\ Older[k].response.onAddress = cache[k].response.onAddress
                                      /\ Older[k].response.onAsset = cache[k].response.onAsset
                                      /\ Older[k].response.missed = cache[k].response.missed
<1>1. ASSUME NEW r \in Responses
      PROVE  LET n == [r EXCEPT !.goodFor = @ - 1]
             IN  /\ n \in Responses /\ n.value = r.value /\ n.onAddress = r.onAddress
                 /\ n.onAsset = r.onAsset /\ n.missed = r.missed
  BY DEF Responses
<1>2. DOMAIN Older = DOMAIN cache
  BY DEF Older
<1>3. \A k \in DOMAIN cache : Older[k].response = [cache[k].response EXCEPT !.goodFor = @ - 1]
  BY DEF Older
<1> QED BY <1>1, <1>2, <1>3 DEF CacheType

LEMMA NewBlockAddedKeepsIInv ==
    ASSUME IInv, NewBlockAdded
    PROVE  IInv'
<1>1. /\ Swept(Older, Expired(Older)) /\ blocks' = blocks + 1
      /\ UNCHANGED <<call, posted, thread, allowVars, asyncVars, data, analyzer, changes, sent>>
  BY DEF NewBlockAdded
<1>2. CacheType(cache) /\ cacheSize \in Int
  BY DEF IInv, TypeOK, CacheType
<1>3. CacheType(Older) /\ Expired(Older) \in SUBSET DOMAIN Older
  BY <1>2, OlderType DEF Expired
<1>4. /\ CacheType(cache') /\ cacheSize' \in 0..(Wrap - 1)
      /\ DOMAIN cache' = DOMAIN Older \ Expired(Older)
      /\ \A k \in DOMAIN cache' : cache'[k] = Older[k]
  BY <1>1, <1>2, <1>3, SweptType
<1>5. TypeOK'
  BY <1>1, <1>4 DEF IInv, TypeOK, CacheType, allowVars, asyncVars
<1>6. PlaceInv' /\ AllowInv' /\ PaidInv'
  BY <1>1, ThreadsStay DEF IInv, TypeOK, ThreadType
<1>7. CurrentInv'
  <2>1. \A k \in DOMAIN cache' : Current(cache'[k].response)
    BY <1>2, <1>4, OlderType DEF IInv, CurrentInv, Current, CurrentIn
  <2> QED BY <2>1, <1>1 DEF IInv, CurrentInv, Current, CurrentIn
<1> QED BY <1>5, <1>6, <1>7 DEF IInv

LEMMA RewindKeepsIInv ==
    ASSUME IInv, Rewind
    PROVE  IInv'
<1>1. PICK issuance \in BOOLEAN :
      /\ analyzer = "between" /\ changes' = changes + 1
      /\ data' = [holdings |-> data.holdings + 1,
                  assets |-> IF issuance THEN data.assets + 1 ELSE data.assets]
      /\ cache' = [k \in DOMAIN cache |->
                     [response  |-> Miss(cache[k].response, TakenBack(cache[k].response, issuance)),
                      timestamp |-> cache[k].timestamp]]
      /\ Missed({t \in Threads : thread[t].pc = "store" /\ TakenBack(thread[t].response, issuance)})
      /\ UNCHANGED <<call, posted, allowVars, cacheSize, asyncVars, analyzer, blocks, sent>>
  BY DEF Rewind, Changes
<1> DEFINE Storing == {t \in Threads : thread[t].pc = "store" /\ TakenBack(thread[t].response, issuance)}
<1>2. data' \in [holdings : Nat, assets : Nat] /\ (issuance \/ data'.assets = data.assets)
  <2>1. data \in [holdings : Nat, assets : Nat]
    BY DEF IInv, TypeOK
  <2>2. data.holdings \in Nat /\ data.assets \in Nat
    BY <2>1
  <2>3. data' = [holdings |-> data.holdings + 1,
                 assets |-> IF issuance THEN data.assets + 1 ELSE data.assets]
    BY <1>1
  <2> QED BY <2>2, <2>3
<1>3. /\ DOMAIN cache' = DOMAIN cache
      /\ \A k \in DOMAIN cache' :
           cache'[k].response = Miss(cache[k].response, TakenBack(cache[k].response, issuance))
  BY <1>1
<1>4. \A k \in DOMAIN cache :
        /\ cache[k].response \in Responses /\ cache'[k].response \in Responses
        /\ cache'[k].response.value = cache[k].response.value
        /\ cache'[k].response.onAddress = cache[k].response.onAddress
        /\ cache'[k].response.onAsset = cache[k].response.onAsset
        /\ cache'[k].response.missed =
             (cache[k].response.missed \/ TakenBack(cache[k].response, issuance))
  <2> SUFFICES ASSUME NEW k \in DOMAIN cache
               PROVE  /\ cache[k].response \in Responses /\ cache'[k].response \in Responses
                      /\ cache'[k].response.value = cache[k].response.value
                      /\ cache'[k].response.onAddress = cache[k].response.onAddress
                      /\ cache'[k].response.onAsset = cache[k].response.onAsset
                      /\ cache'[k].response.missed =
                           (cache[k].response.missed \/ TakenBack(cache[k].response, issuance))
    OBVIOUS
  <2>1. cache[k].response \in Responses
    BY DEF IInv, TypeOK
  <2>2. cache[k].response.onAddress \in BOOLEAN /\ cache[k].response.onAsset \in BOOLEAN
    BY <2>1 DEF Responses
  <2>3. TakenBack(cache[k].response, issuance) \in BOOLEAN
    BY <2>2 DEF TakenBack, OnAddress, OnAsset
  <2> QED BY <2>1, <2>3, <1>3, MissType
<1>5. Storing \in SUBSET Threads /\ TypeOK
  BY DEF IInv
<1>missed. Missed(Storing)
  BY <1>1
<1> HIDE DEF Storing
<1>6. TypeOK'
  BY <1>1, <1>missed, <1>2, <1>3, <1>4, <1>5, MissedType DEF IInv, TypeOK, ThreadType, allowVars, asyncVars
<1>7. PlaceInv' /\ AllowInv' /\ PaidInv'
  BY <1>1, <1>missed, <1>5, MissedType, ThreadsStay
<1>8. CurrentInv'
  <2>1. \A k \in DOMAIN cache' : CurrentIn(cache'[k].response, data', analyzer')
    <3> SUFFICES ASSUME NEW k \in DOMAIN cache PROVE CurrentIn(cache'[k].response, data', analyzer')
      BY <1>3
    <3>1. CurrentIn(cache[k].response, data, analyzer)
      BY DEF IInv, CurrentInv, Current
    <3>2. (issuance \/ data'.assets = data.assets) /\ analyzer' = analyzer
      BY <1>1, <1>2
    <3> QED BY <1>4, <3>1, <3>2 DEF CurrentIn, TakenBack, OnAddress, OnAsset
  <2>2. \A t \in Threads : thread'[t].pc = "store" => CurrentIn(thread'[t].response, data', analyzer')
    <3> SUFFICES ASSUME NEW t \in Threads, thread'[t].pc = "store" PROVE CurrentIn(thread'[t].response, data', analyzer')
      OBVIOUS
    <3>1. thread[t].pc = "store" /\ Current(thread[t].response)
      BY <1>missed, <1>5, MissedType DEF IInv, CurrentInv
    <3>2. /\ thread'[t].response.value = thread[t].response.value
          /\ thread'[t].response.onAddress = thread[t].response.onAddress
          /\ thread'[t].response.onAsset = thread[t].response.onAsset
          /\ thread'[t].response.missed = (thread[t].response.missed \/ t \in Storing)
      BY <1>missed, <1>5, MissedType
    <3>3. t \in Storing <=> (thread[t].response.onAddress \/ (issuance /\ thread[t].response.onAsset))
      BY <3>1 DEF Storing, TakenBack, OnAddress, OnAsset
    <3>4. (issuance \/ data'.assets = data.assets) /\ analyzer' = analyzer
      BY <1>1, <1>2
    <3> QED BY <3>1, <3>2, <3>3, <3>4 DEF Current, CurrentIn
  <2> QED BY <2>1, <2>2 DEF CurrentInv, Current
<1> QED BY <1>6, <1>7, <1>8 DEF IInv

--------------------------------------------------------------------------------
(* Every behaviour                                                          *)

LEMMA InitIInv ==
    ASSUME Init
    PROVE  IInv
<1>1. thread \in [Threads -> ThreadType]
      /\ \A t \in Threads : /\ thread[t].pc = "idle" \/ (t = Async /\ thread[t].pc = "none")
                            /\ thread[t].call = 0 /\ thread[t].kind = "none"
  <2>1. Thread("none", 0, "none") \in ThreadType /\ Thread("none", 0, "none").pc = "none"
        /\ Thread("none", 0, "none").call = 0 /\ Thread("none", 0, "none").kind = "none"
    <3>1. NoResponse \in Responses
      <4>1. Response(0, 0, FALSE, FALSE) \in Responses
        BY 1 + (0 % 2) \in Bytes DEF Response, Responses, Bytes
      <4> QED BY <4>1 DEF NoResponse
    <3> QED BY <3>1 DEF Thread, ThreadType, Places
  <2>2. thread = [t \in Threads |-> IF t = Async THEN Thread("none", 0, "none") ELSE Idle]
    BY DEF Init
  <2> HIDE DEF ThreadType
  <2> QED BY <2>1, <2>2, IdleType
<1>2. TypeOK
  <2>1. DOMAIN cache = {} /\ cacheSize \in 0..(Wrap - 1)
    BY RpcAssumption DEF Init
  <2>2. tasks \in Seq(AllKinds) /\ ToSet(tasks) = inTasks /\ IsInjective(tasks)
    BY DEF Init, ToSet, IsInjective
  <2>3. call \in [Calls -> [at : {"none", "posted", "taken", "closed"}, kind : AllKinds \cup {"none"}]]
    BY DEF Init
  <2> QED BY <2>1, <2>2, <2>3, <1>1 DEF Init, TypeOK, ThreadType
<1>3. PlaceInv
  <2>1. \A w \in Workers : w \in Threads /\ w # Async
    BY RpcAssumption DEF Threads
  <2>2. \A c \in Calls : call[c].at = "none"
    BY DEF Init
  <2>3. Async \in Threads /\ Len(posted) = 0 /\ Len(tasks) = 0
    BY DEF Init, Threads
  <2> QED BY <2>1, <2>2, <2>3, <1>1 DEF PlaceInv, Before
<1>4. AllowInv
  BY <1>1 DEF Init, AllowInv, ForbiddenIsNeverMade
<1>5. PaidInv
  BY PaidIsFinite DEF Init, PaidInv
<1>6. CurrentInv
  BY <1>1 DEF Init, CurrentInv
<1> QED BY <1>2, <1>3, <1>4, <1>5, <1>6 DEF IInv

LEMMA StutterKeepsIInv ==
    ASSUME IInv, UNCHANGED vars
    PROVE  IInv'
<1>1. UNCHANGED <<call, posted, thread, sent>> /\ UNCHANGED allowVars /\ UNCHANGED cacheVars
      /\ UNCHANGED asyncVars /\ UNCHANGED chainVars
  BY DEF vars
<1>2. TypeOK'
  BY <1>1 DEF IInv, TypeOK, allowVars, cacheVars, asyncVars, chainVars
<1>3. PlaceInv' /\ AllowInv' /\ PaidInv'
  BY <1>1, ThreadsStay DEF IInv, TypeOK, ThreadType
<1>4. CurrentInv'
  BY <1>1 DEF IInv, CurrentInv, Current, CurrentIn, cacheVars, chainVars
<1> QED BY <1>2, <1>3, <1>4 DEF IInv

LEMMA StepKeepsIInv ==
    ASSUME IInv, [Next]_vars
    PROVE  IInv'
<1>1. ASSUME NEW t \in Threads, Calling(t) PROVE IInv'
  BY <1>1, IsAllowedKeepsIInv, FindDefaultKeepsIInv, LookupKeepsIInv, AddressHoldingsKeepsIInv,
     ListAssetsKeepsIInv, SendKeepsIInv, AsyncStartKeepsIInv, AsyncGetKeepsIInv, AsyncClearKeepsIInv,
     StoreKeepsIInv DEF Calling
<1>2. ASSUME NEW c \in Calls, Connect(c) PROVE IInv'
  BY <1>2, ConnectKeepsIInv
<1>3. ASSUME NEW w \in Workers, Works(w) PROVE IInv'
  BY <1>1, <1>3, TakeKeepsIInv, ReplyKeepsIInv DEF Works, Threads
<1>4. CASE RunsJobs
  BY <1>1, <1>4, DequeueKeepsIInv, WriteResultKeepsIInv DEF RunsJobs, Threads
<1>5. CASE Analyzes
  BY <1>5, MoveKeepsIInv, AnnounceKeepsIInv, IssueKeepsIInv, AddressChangedKeepsIInv,
     NewBlockAddedKeepsIInv, RewindKeepsIInv DEF Analyzes
<1>6. CASE UNCHANGED vars
  BY <1>6, StutterKeepsIInv
<1> QED BY <1>2, <1>3, <1>4, <1>5, <1>6 DEF Next

LEMMA IInvHolds == Spec => []IInv
<1>1. Init => IInv
  BY InitIInv
<1>2. IInv /\ [Next]_vars => IInv'
  BY StepKeepsIInv
<1> QED BY <1>1, <1>2, PTL DEF Spec

\* The queue holds what its set does, no method is made that rpcallow forbids, and no
\* payment nobody asked for, however the threads of the pool, the one asyncstart starts
\* and the analyzer take turns (RPC/Server.cpp, UniqueTaskQueue.cpp).
THEOREM CallsHold == Spec => []CallsInv
<1>1. IInv => CallsInv
  <2> SUFFICES ASSUME IInv PROVE CallsInv
    OBVIOUS
  <2>1. PaysAtMostOnce
    <3> DEFINE asked == {c \in Calls : call[c].kind = "send"}
    <3>1. IsFiniteSet(Calls)
      BY FS_Interval, RpcAssumption DEF Calls
    <3>2. IsFiniteSet(asked) /\ Cardinality(asked) \in Nat
      BY <3>1, FS_Subset, FS_CardinalityType
    <3>3. Paid \subseteq asked
      BY DEF Paid
    <3> HIDE DEF asked
    <3>4. Cardinality(Paid) <= Cardinality(asked)
      BY <3>2, <3>3, FS_Subset
    <3>5. sent \in Nat /\ sent <= Cardinality(Paid)
      BY DEF IInv, TypeOK, PaidInv
    <3>6. sent <= Cardinality(asked)
      BY <3>2, <3>4, <3>5, PaidIsFinite
    <3> QED BY <3>6 DEF PaysAtMostOnce, asked
  <2> QED BY <2>1 DEF CallsInv, IInv, AllowInv
<1> QED BY <1>1, IInvHolds, PTL

\* An answer that stays in the cache is what the database would answer now, but for the
\* changes nobody announces: whenever it was read, stored, aged or evicted
\* (RPC/Cache.cpp, ChainAnalyzer.cpp processTX).
THEOREM CacheHolds == Spec => []CachedIsCurrent
<1>1. IInv => CachedIsCurrent
  BY DEF IInv, CurrentInv, Current, CurrentIn, CachedIsCurrent
<1> QED BY <1>1, IInvHolds, PTL

=============================================================================

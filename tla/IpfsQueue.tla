----------------------------- MODULE IpfsQueue -----------------------------
(***************************************************************************)
(* The IPFS job table (Database.cpp, "ipfs") and the threads that empty    *)
(* it (IPFS::mainFunction, run by up to _parallels threads at a time).     *)
(*                                                                         *)
(* A job belongs to a sync value.  Jobs of a named group (DIGIBYTEDOMAIN)  *)
(* are to be done in the order they were added; pins and jobs without a    *)
(* group in any order.  callOnDownloadSync adds a job without a group and  *)
(* waits for a promise that the job's callback keeps.                      *)
(*                                                                         *)
(* Each SQL statement is a step, and so is each access to the pauses and   *)
(* callbacks kept in memory, which no lock protects.                       *)
(*                                                                         *)
(* Abstractions                                                            *)
(*   - Times are what is left of them: pause and maxTime count down with   *)
(*     Tick, 0 is "over".  NULL is SQL's.                                  *)
(*   - What is downloaded is not modelled, nor the cids that are filtered  *)
(*     out: a job is added for a valid cid that has to be downloaded.      *)
(*   - Jobs "unpin" are left out: they are locked like a group and given   *)
(*     up like a pin.                                                      *)
(*   - A promise callback that is called a second time writes to a promise *)
(*     that is gone; here it does nothing.                                 *)
(***************************************************************************)
EXTENDS Integers, Sequences

CONSTANTS
    Thread,       \* IPFS::mainFunction, _parallels times
    Caller,       \* threads that ask for downloads
    Group,        \* sync values whose jobs are ordered
    PIN, ANY,     \* sync values "pin" and ""
    NULL,
    PauseTicks,   \* _timeoutRetry
    Timeout,      \* _timeoutDownload
    MaxTime,      \* how long a promise may wait; NULL among them: for ever
    AskFor,       \* sync values jobs are added with
    MaxJobs,      \* bound: jobs added
    MaxTimeouts,  \* bound: downloads that time out
    MaxErrors,    \* bound: downloads that fail otherwise, the node being down
    MaxRestarts   \* bound: ends of the process

Sync == Group \cup {PIN, ANY}

ASSUME QueueAssumption ==
    /\ PIN \notin Group /\ ANY \notin Group /\ PIN # ANY
    /\ NULL \notin Nat
    /\ PauseTicks \in Nat /\ Timeout \in Nat \ {0}
    /\ MaxTime \subseteq Nat \cup {NULL}
    /\ AskFor \subseteq Sync
    /\ MaxJobs \in Nat /\ MaxTimeouts \in Nat /\ MaxErrors \in Nat /\ MaxRestarts \in Nat

VARIABLES
    rows,       \* table "ipfs"
    ram,        \* _ipfsCurrentlyPaused
    registered, \* _ipfsCallbacks: jobs whose promise is registered
    pc,         \* where each thread is in mainFunction
    job,        \* the row it works on
    patience,   \* how it takes a timeout: "retry", "last", or "endless"
    callable,   \* did it find a callback
    cpc,        \* where each caller is
    request,    \* what it asks for
    asked,      \* asked[j]: sync value and promise of job j (history)
    called,     \* the jobs whose callback was called (history)
    cut,        \* jobs the end of the process cut off (history)
    disturbed,  \* groups a job joined at the wrong moment (history)
    stranded,   \* jobs whose pause was over before they had a row (history)
    timeouts, errors, restarts

memory == <<ram, registered>>
thread == <<pc, job, patience, callable>>
caller == <<cpc, request>>
history == <<asked, called, cut, disturbed, stranded>>
bounds == <<timeouts, errors, restarts>>
vars == <<rows, memory, thread, caller, history, bounds>>

NoJob == [job |-> 0, sync |-> ANY, promise |-> FALSE, lock |-> FALSE,
          pause |-> NULL, maxTime |-> NULL]
NoRequest == [job |-> 0, sync |-> ANY, promise |-> FALSE, pause |-> NULL, maxTime |-> NULL]

Countdown == Nat \cup {NULL}

JobRow == [job : Nat, sync : Sync, promise : BOOLEAN, lock : BOOLEAN,
           pause : Countdown, maxTime : Countdown]

-----------------------------------------------------------------------------
(* getNextIPFSJob, under _mutexGetNextIPFSJob.                             *)

\* mainFunction returns or throws: its locals are gone.
Return(t) ==
    /\ pc' = [pc EXCEPT ![t] = "idle"]
    /\ job' = [job EXCEPT ![t] = NoJob]
    /\ patience' = [patience EXCEPT ![t] = "retry"]
    /\ callable' = [callable EXCEPT ![t] = FALSE]

\* Where a thread holds the mutex.
Looks(t) == pc[t] \in {"unpause", "select", "lock"}

MutexFree == \A t \in Thread : ~Looks(t)

\* Pauses that are over leave memory...
ClearPauses(t) ==
    /\ pc[t] = "idle" /\ MutexFree
    /\ ram' = {p \in ram : p.left > 0}
    /\ pc' = [pc EXCEPT ![t] = IF ram' = ram THEN "select" ELSE "unpause"]
    /\ UNCHANGED <<rows, registered, job, patience, callable, caller, history, bounds>>

\* ... and, if one did, those that are over leave the table.
ClearPausesOfRows(t) ==
    /\ pc[t] = "unpause"
    /\ rows' = {[r EXCEPT !.pause = IF @ = 0 THEN NULL ELSE @] : r \in rows}
    /\ pc' = [pc EXCEPT ![t] = "select"]
    /\ UNCHANGED <<memory, job, patience, callable, caller, history, bounds>>

Ready == {r \in rows : r.pause = NULL /\ ~r.lock}

\* Thread t has a job of group g in work.
Holds(t, g) == pc[t] \in {"lock", "work", "delete", "unlock"} /\ job[t].sync = g

\* No job of the group is in work, locked or paused.
AtRest(g) ==
    /\ \A r \in rows : r.sync = g => ~r.lock /\ r.pause = NULL
    /\ \A t \in Thread : ~Holds(t, g)

\* The first row that is neither paused nor locked, with its callback.  A group
\* that was at rest begins anew.
Select(t) ==
    /\ pc[t] = "select"
    /\ \E r \in Ready :
          /\ \A s \in Ready : r.job <= s.job
          /\ job' = [job EXCEPT ![t] = r]
          /\ patience' = [patience EXCEPT ![t] =
                IF r.maxTime = NULL \/ r.maxTime >= Timeout THEN "retry"
                ELSE IF r.maxTime = 0 THEN "endless" ELSE "last"]
          /\ callable' = [callable EXCEPT ![t] = r.promise => r.job \in registered]
    /\ pc' = [pc EXCEPT ![t] = "lock"]
    /\ disturbed' = {g \in disturbed : ~AtRest(g)}
    /\ UNCHANGED <<rows, memory, caller, asked, called, cut, stranded, bounds>>

SelectNone(t) ==
    /\ pc[t] = "select"
    /\ Ready = {}
    /\ Return(t)
    /\ UNCHANGED <<rows, memory, caller, history, bounds>>

\* The rows that stand or fall with the thread's job.
Mates(t) ==
    IF job[t].sync \in Group THEN {r \in rows : r.sync = job[t].sync}
                             ELSE {r \in rows : r.job = job[t].job}

\* Seeded fault: of a group only the job itself is locked.
LockOne(t) ==
    /\ pc[t] = "lock"
    /\ rows' = {[r EXCEPT !.lock = @ \/ r.job = job[t].job] : r \in rows}
    /\ pc' = [pc EXCEPT ![t] = "work"]
    /\ UNCHANGED <<memory, job, patience, callable, caller, history, bounds>>

Lock(t) ==
    /\ pc[t] = "lock"
    /\ rows' = {IF r \in Mates(t) THEN [r EXCEPT !.lock = TRUE] ELSE r : r \in rows}
    /\ pc' = [pc EXCEPT ![t] = "work"]
    /\ UNCHANGED <<memory, job, patience, callable, caller, history, bounds>>

-----------------------------------------------------------------------------
(* The download, the pin or the unpin.                                     *)

Finish(t) ==
    /\ pc[t] = "work"
    /\ pc' = [pc EXCEPT ![t] = "delete"]
    /\ UNCHANGED <<rows, memory, job, patience, callable, caller, history, bounds>>

\* A pin that times out is done, and so is a last try, which has failed.
GivesUp(t) ==
    /\ pc[t] = "work"
    /\ job[t].sync = PIN \/ patience[t] = "last"
    /\ timeouts < MaxTimeouts /\ timeouts' = timeouts + 1
    /\ pc' = [pc EXCEPT ![t] = "delete"]
    /\ UNCHANGED <<rows, memory, job, patience, callable, caller, history, errors, restarts>>

\* Seeded fault: the whole group is unlocked, only the job itself paused.
PauseOne(t) ==
    /\ pc[t] = "work"
    /\ job[t].sync # PIN /\ patience[t] = "retry"
    /\ timeouts < MaxTimeouts /\ timeouts' = timeouts + 1
    /\ rows' = {IF r \in Mates(t)
                THEN [r EXCEPT !.lock = FALSE,
                               !.pause = IF r.job = job[t].job THEN PauseTicks ELSE @]
                ELSE r : r \in rows}
    /\ IF job[t].sync \in Group
       THEN /\ pc' = [pc EXCEPT ![t] = "pause"]
            /\ UNCHANGED <<job, patience, callable>>
       ELSE Return(t)
    /\ UNCHANGED <<memory, caller, history, errors, restarts>>

\* pauseIPFSSync: the table...
Pause(t) ==
    /\ pc[t] = "work"
    /\ job[t].sync # PIN /\ patience[t] = "retry"
    /\ timeouts < MaxTimeouts /\ timeouts' = timeouts + 1
    /\ rows' = {IF r \in Mates(t) THEN [r EXCEPT !.lock = FALSE, !.pause = PauseTicks]
                ELSE r : r \in rows}
    /\ IF job[t].sync \in Group
       THEN /\ pc' = [pc EXCEPT ![t] = "pause"]
            /\ UNCHANGED <<job, patience, callable>>
       ELSE Return(t)
    /\ UNCHANGED <<memory, caller, history, errors, restarts>>

\* Seeded fault: the pause is not kept in memory.
PauseInMemoryNever(t) ==
    /\ pc[t] = "pause"
    /\ Return(t)
    /\ UNCHANGED <<rows, memory, caller, history, bounds>>

\* ... and, for a group only, memory.
PauseInMemory(t) ==
    /\ pc[t] = "pause"
    /\ ram' = ram \cup {[sync |-> job[t].sync, left |-> PauseTicks]}
    /\ Return(t)
    /\ UNCHANGED <<rows, registered, caller, history, bounds>>

\* Seeded fault: the job is removed.
ThrowsAndDrops(t) ==
    /\ pc[t] = "work"
    /\ errors < MaxErrors /\ errors' = errors + 1
    /\ rows' = {r \in rows : r.job # job[t].job}
    /\ Return(t)
    /\ UNCHANGED <<memory, caller, history, timeouts, restarts>>

\* Anything but a timeout leaves mainFunction; the job stays locked.
Throws(t) ==
    /\ pc[t] = "work"
    /\ errors < MaxErrors /\ errors' = errors + 1
    /\ Return(t)
    /\ UNCHANGED <<rows, memory, caller, history, timeouts, restarts>>

-----------------------------------------------------------------------------
(* removeIPFSJob, under _mutexRemoveIPFSJob, and the callback.             *)

Delete(t) ==
    /\ pc[t] = "delete"
    /\ \A u \in Thread : pc[u] # "unlock"
    /\ rows' = {r \in rows : r.job # job[t].job}
    /\ pc' = [pc EXCEPT ![t] = "unlock"]
    /\ UNCHANGED <<memory, job, patience, callable, caller, history, bounds>>

\* Every row of the sync value, be it a group or not.
Unlock(t) ==
    /\ pc[t] = "unlock"
    /\ rows' = {[r EXCEPT !.lock = @ /\ r.sync # job[t].sync] : r \in rows}
    /\ pc' = [pc EXCEPT ![t] = "callback"]
    /\ UNCHANGED <<memory, job, patience, callable, caller, history, bounds>>

\* A promise's callback wakes the caller that waits for it.
Woken(t) ==
    {c \in Caller : cpc[c] = "wait" /\ request[c].job = job[t].job /\ callable[t]}

Callback(t) ==
    /\ pc[t] = "callback"
    /\ called' = IF callable[t] THEN called \cup {job[t].job} ELSE called
    /\ cpc' = [c \in Caller |-> IF c \in Woken(t) THEN "idle" ELSE cpc[c]]
    /\ request' = [c \in Caller |-> IF c \in Woken(t) THEN NoRequest ELSE request[c]]
    /\ Return(t)
    /\ UNCHANGED <<rows, memory, asked, cut, disturbed, stranded, bounds>>

-----------------------------------------------------------------------------
(* addIPFSJob and addIPFSJobPromise.                                       *)

\* Thread t has a job in hand.
Busy(t) == pc[t] \notin {"idle", "unpause", "select"}

Pauses(sync) == {p.left : p \in {q \in ram : q.sync = sync}}

\* The pause a job is to be added with is read from memory...
Ask(c) ==
    /\ cpc[c] = "idle"
    /\ Len(asked) < MaxJobs
    /\ \E s \in AskFor, p \in BOOLEAN, m \in MaxTime \cup {NULL} :
          /\ p => s = ANY
          /\ IF p THEN m \in MaxTime ELSE m = NULL
          /\ \/ Pauses(s) = {}
                /\ request' = [request EXCEPT ![c] =
                      [job |-> 0, sync |-> s, promise |-> p, pause |-> NULL, maxTime |-> m]]
             \/ \E left \in Pauses(s) :
                /\ \A l \in Pauses(s) : l <= left
                /\ request' = [request EXCEPT ![c] =
                      [job |-> 0, sync |-> s, promise |-> p, pause |-> left, maxTime |-> m]]
    /\ cpc' = [cpc EXCEPT ![c] = "insert"]
    /\ UNCHANGED <<rows, memory, thread, history, bounds>>

\* p is over before q: NULL is no pause.
NoLater(p, q) == p = NULL \/ (q # NULL /\ p <= q)

\* A job of the group is in work or locked, or paused for longer than the new one.
Disturbs(g, pause) ==
    \/ \E r \in rows : r.sync = g /\ (r.lock \/ ~NoLater(r.pause, pause))
    \/ \E t \in Thread : pc[t] # "lock" /\ Holds(t, g)

\* ... before the row is inserted, never locked.
Insert(c) ==
    /\ cpc[c] = "insert"
    /\ Len(asked) < MaxJobs
    /\ LET new == Len(asked) + 1 IN
          /\ rows' = rows \cup {[job |-> new, sync |-> request[c].sync,
                                 promise |-> request[c].promise, lock |-> FALSE,
                                 pause |-> request[c].pause, maxTime |-> request[c].maxTime]}
          /\ asked' = Append(asked, [sync |-> request[c].sync, promise |-> request[c].promise])
          /\ request' = [request EXCEPT ![c] =
                IF @.promise THEN [@ EXCEPT !.job = new] ELSE NoRequest]
          /\ disturbed' = disturbed \cup {g \in Group \cap {request[c].sync} :
                                          Disturbs(g, request[c].pause)}
          /\ stranded' = stranded \cup {j \in {new} : request[c].pause # NULL
                                                     /\ Pauses(request[c].sync) = {}}
    /\ cpc' = [cpc EXCEPT ![c] = IF request[c].promise THEN "register" ELSE "idle"]
    /\ UNCHANGED <<memory, thread, called, cut, bounds>>

\* The callback of a promise is registered after its row is there.
Register(c) ==
    /\ cpc[c] = "register"
    /\ registered' = registered \cup {request[c].job}
    /\ cpc' = [cpc EXCEPT ![c] = "wait"]
    /\ UNCHANGED <<rows, ram, thread, request, history, bounds>>

-----------------------------------------------------------------------------
(* Time, and the end of the process.                                       *)

Less(n) == IF n = NULL \/ n = 0 THEN n ELSE n - 1

Tick ==
    /\ rows' = {[r EXCEPT !.pause = Less(@), !.maxTime = Less(@)] : r \in rows}
    /\ ram' = {[p EXCEPT !.left = Less(@)] : p \in ram}
    /\ request' = [c \in Caller |-> [request[c] EXCEPT !.pause = Less(@)]]
    /\ UNCHANGED <<registered, thread, cpc, history, bounds>>

\* What was in memory is gone; opening the database deletes the promised jobs
\* and ends every lock and pause.
Restart ==
    /\ restarts < MaxRestarts /\ restarts' = restarts + 1
    /\ rows' = {[r EXCEPT !.lock = FALSE, !.pause = NULL] : r \in {s \in rows : ~s.promise}}
    /\ cut' = cut \cup {job[t].job : t \in {u \in Thread : pc[u] \in {"unlock", "callback"}}}
                  \cup {j \in DOMAIN asked : asked[j].promise}
    /\ ram' = {} /\ registered' = {} /\ stranded' = {}
    /\ pc' = [t \in Thread |-> "idle"] /\ job' = [t \in Thread |-> NoJob]
    /\ patience' = [t \in Thread |-> "retry"] /\ callable' = [t \in Thread |-> FALSE]
    /\ cpc' = [c \in Caller |-> "idle"] /\ request' = [c \in Caller |-> NoRequest]
    /\ UNCHANGED <<asked, called, disturbed, timeouts, errors>>

-----------------------------------------------------------------------------
Init ==
    /\ rows = {} /\ ram = {} /\ registered = {}
    /\ pc = [t \in Thread |-> "idle"] /\ job = [t \in Thread |-> NoJob]
    /\ patience = [t \in Thread |-> "retry"] /\ callable = [t \in Thread |-> FALSE]
    /\ cpc = [c \in Caller |-> "idle"] /\ request = [c \in Caller |-> NoRequest]
    /\ asked = <<>> /\ called = {} /\ cut = {} /\ disturbed = {} /\ stranded = {}
    /\ timeouts = 0 /\ errors = 0 /\ restarts = 0

MainFunction(t) ==
    \/ ClearPauses(t) \/ ClearPausesOfRows(t) \/ Select(t) \/ SelectNone(t) \/ Lock(t)
    \/ Finish(t) \/ GivesUp(t) \/ Pause(t) \/ PauseInMemory(t) \/ Throws(t)
    \/ Delete(t) \/ Unlock(t) \/ Callback(t)

AddJob(c) == Ask(c) \/ Insert(c) \/ Register(c)

Next ==
    \/ \E t \in Thread : MainFunction(t)
    \/ \E c \in Caller : AddJob(c)
    \/ Tick
    \/ Restart

Spec == Init /\ [][Next]_vars

\* Every thread is scheduled, time passes, and a caller that began to add a
\* job goes on.
FairSpec ==
    /\ Spec
    /\ \A t \in Thread : WF_vars(MainFunction(t))
    /\ \A c \in Caller : WF_vars(Insert(c) \/ Register(c))
    /\ WF_vars(Tick)

-----------------------------------------------------------------------------
(* Properties                                                              *)

Jobs == DOMAIN asked

\* The type invariant.
TypeOK ==
    /\ rows \subseteq JobRow /\ \A r \in rows : r.job \in Jobs
    /\ ram \subseteq [sync : Group, left : Nat]
    /\ registered \subseteq Jobs
    /\ pc \in [Thread -> {"idle", "unpause", "select", "lock", "work", "pause",
                          "delete", "unlock", "callback"}]
    /\ job \in [Thread -> JobRow]
    /\ patience \in [Thread -> {"retry", "last", "endless"}]
    /\ callable \in [Thread -> BOOLEAN]
    /\ cpc \in [Caller -> {"idle", "insert", "register", "wait"}]
    /\ request \in [Caller -> [job : Nat, sync : Sync, promise : BOOLEAN,
                               pause : Countdown, maxTime : Countdown]]
    /\ asked \in Seq([sync : Sync, promise : BOOLEAN])
    /\ called \subseteq Jobs /\ cut \subseteq Jobs
    /\ disturbed \subseteq Group /\ stranded \subseteq Jobs
    /\ timeouts \in 0 .. MaxTimeouts /\ errors \in 0 .. MaxErrors
    /\ restarts \in 0 .. MaxRestarts

InRows(j) == \E r \in rows : r.job = j
InHand(j) == \E t \in Thread : pc[t] \in {"unlock", "callback"} /\ job[t].job = j

\* A job that is not promised is never lost: until its callback was called it
\* has its row, or a thread is about to call; only the end of the process, in
\* the moment between, cuts it off.
NoJobLost ==
    \A j \in Jobs : asked[j].promise \/ InRows(j) \/ InHand(j) \/ j \in called \/ j \in cut

\* No two threads are at work on a group, unless a job joined it that the table
\* can not tell apart.
OneAtATime ==
    \A g \in Group \ disturbed, t, u \in Thread : Holds(t, g) /\ Holds(u, g) => t = u

\* A job of a group is done with before a later one of it is begun.
FirstComeFirstServed ==
    \A g \in Group \ disturbed, t \in Thread : Holds(t, g) =>
        \A r \in rows : r.sync = g => job[t].job <= r.job

\* In the end, when no jobs come any more (MaxJobs), every job of a group is done
\* with, timeouts or not, unless a download failed otherwise or the job was given
\* a pause that was over before it had a row: nothing ends that one.
GroupDone ==
    <>[](\A j \in Jobs : asked[j].sync \in Group =>
            ~InRows(j) \/ errors > 0 \/ j \in stranded)

-----------------------------------------------------------------------------
(* The inductive invariant behind NoJobLost, OneAtATime and                *)
(* FirstComeFirstServed: see IpfsQueueProofs.                              *)

\* One thread at a time looks for a job.
OneLooks ==
    \A t, u \in Thread : Looks(t) /\ Looks(u) => t = u

\* Rows and locals say of a job what was asked for; a promise has its job.
Faithful ==
    /\ \A r \in rows : asked[r.job] = [sync |-> r.sync, promise |-> r.promise]
    /\ \A t \in Thread : Busy(t) =>
          /\ job[t].job \in Jobs
          /\ asked[job[t].job] = [sync |-> job[t].sync, promise |-> job[t].promise]
          /\ job[t].promise \/ callable[t]
          /\ pc[t] = "pause" => job[t].sync \in Group
    /\ \A c \in Caller : cpc[c] \in {"register", "wait"} => request[c].job \in Jobs

\* The rows of a group are locked together, and while one of its jobs is in work;
\* they are paused from the last one backwards.
GroupWhole ==
    /\ \A r, s \in rows : r.sync \in Group \ disturbed /\ s.sync = r.sync =>
          /\ r.lock = s.lock
          /\ r.job <= s.job => NoLater(r.pause, s.pause)
    /\ \A g \in Group \ disturbed, t \in Thread : Holds(t, g) /\ pc[t] # "lock" =>
          \A r \in rows : r.sync = g => r.lock

IInv ==
    /\ TypeOK /\ OneLooks /\ Faithful /\ NoJobLost
    /\ GroupWhole /\ OneAtATime /\ FirstComeFirstServed

=============================================================================

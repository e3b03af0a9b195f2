-------------------------- MODULE IpfsQueueProofs --------------------------
(* Proofs about IpfsQueue.  IInv is inductive; for every number of threads, *)
(* callers, groups and jobs follow NoJobLost, and the order of the jobs of  *)
(* every group that is not disturbed.                                       *)
EXTENDS IpfsQueue, SequenceTheorems, TLAPS

Order == GroupWhole /\ OneAtATime /\ FirstComeFirstServed

\* Row s is row r but for its lock, pause and time.
Same(r, s) == s.job = r.job /\ s.sync = r.sync /\ s.promise = r.promise

\* Every row of R is still there in S.
Keeps(R, S) == \A r \in R : \E s \in S : Same(r, s)

-----------------------------------------------------------------------------
(* Rows: what an UPDATE leaves of them.                                    *)

\* The lock of a job or of its group.
LEMMA LockRows ==
    ASSUME rows \subseteq JobRow, NEW t \in Thread, Lock(t)
    PROVE  /\ rows' \subseteq JobRow /\ Keeps(rows, rows')
           /\ \A s \in rows' : \E r \in rows :
                 /\ Same(r, s)
                 /\ s.pause = r.pause
                 /\ s.lock = IF r \in Mates(t) THEN TRUE ELSE r.lock
<1> DEFINE E(r) == [r EXCEPT !.lock = TRUE]
<1>1. \A r \in rows : /\ E(r) \in JobRow /\ Same(r, E(r))
                      /\ E(r).pause = r.pause
                      /\ E(r).lock = TRUE
  BY DEF JobRow, Same, Countdown
<1>2. rows' = {IF r \in Mates(t) THEN E(r) ELSE r : r \in rows}
  BY DEF Lock
<1> HIDE DEF E
<1>3. \A r \in rows : Same(r, r)
  BY DEF Same
<1> QED BY <1>1, <1>2, <1>3 DEF Keeps

\* The pause of a job or of its group.
LEMMA PauseRows ==
    ASSUME rows \subseteq JobRow, NEW t \in Thread, Pause(t)
    PROVE  /\ rows' \subseteq JobRow /\ Keeps(rows, rows')
           /\ \A s \in rows' : \E r \in rows :
                 /\ Same(r, s)
                 /\ s.pause = IF r \in Mates(t) THEN PauseTicks ELSE r.pause
                 /\ s.lock = IF r \in Mates(t) THEN FALSE ELSE r.lock
<1> DEFINE E(r) == [r EXCEPT !.lock = FALSE, !.pause = PauseTicks]
<1>1. \A r \in rows : /\ E(r) \in JobRow /\ Same(r, E(r))
                      /\ E(r).pause = PauseTicks
                      /\ E(r).lock = FALSE
  BY QueueAssumption DEF JobRow, Same, Countdown
<1>2. rows' = {IF r \in Mates(t) THEN E(r) ELSE r : r \in rows}
  BY DEF Pause
<1> HIDE DEF E
<1>3. \A r \in rows : Same(r, r)
  BY DEF Same
<1> QED BY <1>1, <1>2, <1>3 DEF Keeps

\* The end of a lock.
LEMMA UnlockRows ==
    ASSUME rows \subseteq JobRow, NEW t \in Thread, Unlock(t)
    PROVE  /\ rows' \subseteq JobRow /\ Keeps(rows, rows')
           /\ \A s \in rows' : \E r \in rows :
                 /\ Same(r, s)
                 /\ s.pause = r.pause
                 /\ s.lock = (r.lock /\ r.sync # job[t].sync)
<1> DEFINE E(r) == [r EXCEPT !.lock = @ /\ r.sync # job[t].sync]
<1>1. \A r \in rows : /\ E(r) \in JobRow /\ Same(r, E(r))
                      /\ E(r).pause = r.pause
                      /\ E(r).lock = (r.lock /\ r.sync # job[t].sync)
  BY DEF JobRow, Same, Countdown
<1>2. rows' = {E(r) : r \in rows}
  BY DEF Unlock
<1> HIDE DEF E
<1>3. \A r \in rows : Same(r, r)
  BY DEF Same
<1> QED BY <1>1, <1>2, <1>3 DEF Keeps

\* The end of pauses that are over.
LEMMA UnpauseRows ==
    ASSUME rows \subseteq JobRow, NEW t \in Thread, ClearPausesOfRows(t)
    PROVE  /\ rows' \subseteq JobRow /\ Keeps(rows, rows')
           /\ \A s \in rows' : \E r \in rows :
                 /\ Same(r, s)
                 /\ s.pause = IF r.pause = 0 THEN NULL ELSE r.pause
                 /\ s.lock = r.lock
<1> DEFINE E(r) == [r EXCEPT !.pause = IF @ = 0 THEN NULL ELSE @]
<1>1. \A r \in rows : /\ E(r) \in JobRow /\ Same(r, E(r))
                      /\ E(r).pause = IF r.pause = 0 THEN NULL ELSE r.pause
                      /\ E(r).lock = r.lock
  BY DEF JobRow, Same, Countdown
<1>2. rows' = {E(r) : r \in rows}
  BY DEF ClearPausesOfRows
<1> HIDE DEF E
<1>3. \A r \in rows : Same(r, r)
  BY DEF Same
<1> QED BY <1>1, <1>2, <1>3 DEF Keeps

LEMMA LessTyped ==
    ASSUME NEW n \in Countdown
    PROVE  Less(n) \in Countdown
BY QueueAssumption DEF Less, Countdown

\* Time.
LEMMA TickRows ==
    ASSUME rows \subseteq JobRow, Tick
    PROVE  /\ rows' \subseteq JobRow /\ Keeps(rows, rows')
           /\ \A s \in rows' : \E r \in rows :
                 /\ Same(r, s)
                 /\ s.pause = Less(r.pause)
                 /\ s.lock = r.lock
<1> DEFINE E(r) == [r EXCEPT !.pause = Less(@), !.maxTime = Less(@)]
<1>1. \A r \in rows : /\ E(r) \in JobRow /\ Same(r, E(r))
                      /\ E(r).pause = Less(r.pause)
                      /\ E(r).lock = r.lock
  BY LessTyped DEF JobRow, Same, Countdown
<1>2. rows' = {E(r) : r \in rows}
  BY DEF Tick
<1> HIDE DEF E
<1>3. \A r \in rows : Same(r, r)
  BY DEF Same
<1> QED BY <1>1, <1>2, <1>3 DEF Keeps

\* Opening the database: the promised jobs are gone, no row is locked or paused.
LEMMA RestartRows ==
    ASSUME rows \subseteq JobRow, Restart
    PROVE  /\ rows' \subseteq JobRow
           /\ \A r \in rows : ~r.promise => \E s \in rows' : Same(r, s)
           /\ \A s \in rows' : /\ \E r \in rows : Same(r, s)
                               /\ ~s.lock /\ s.pause = NULL
<1> DEFINE E(r) == [r EXCEPT !.lock = FALSE, !.pause = NULL]
<1>1. \A r \in rows : /\ E(r) \in JobRow /\ Same(r, E(r))
                      /\ ~E(r).lock /\ E(r).pause = NULL
  BY DEF JobRow, Same, Countdown
<1>2. rows' = {E(r) : r \in {s \in rows : ~s.promise}}
  BY DEF Restart
<1> HIDE DEF E
<1> QED BY <1>1, <1>2

LEMMA NoJobTyped == NoJob \in JobRow
BY QueueAssumption DEF NoJob, JobRow, Sync, Countdown

-----------------------------------------------------------------------------
(* Types.                                                                  *)

\* Rows that are changed in place still are rows of jobs.
RowsTyped(R) == R \subseteq JobRow /\ \A r \in R : r.job \in Jobs

ThreadTyped ==
    /\ pc \in [Thread -> {"idle", "unpause", "select", "lock", "work", "pause",
                          "delete", "unlock", "callback"}]
    /\ job \in [Thread -> JobRow]
    /\ patience \in [Thread -> {"retry", "last", "endless"}]
    /\ callable \in [Thread -> BOOLEAN]

LEMMA SameTyped ==
    ASSUME RowsTyped(rows), rows' \subseteq JobRow, UNCHANGED asked,
           \A s \in rows' : \E r \in rows : Same(r, s)
    PROVE  RowsTyped(rows)'
BY DEF RowsTyped, Same, Jobs

LEMMA ReturnTyped ==
    ASSUME ThreadTyped, NEW t \in Thread, Return(t)
    PROVE  ThreadTyped'
BY NoJobTyped DEF ThreadTyped, Return

\* The actions of a thread.
LEMMA ThreadTypeOK ==
    ASSUME TypeOK, Faithful, NEW t \in Thread, MainFunction(t)
    PROVE  TypeOK'
<1>1. RowsTyped(rows) /\ ThreadTyped
  BY DEF TypeOK, RowsTyped, ThreadTyped
<1>2. SUFFICES /\ RowsTyped(rows)' /\ ThreadTyped'
               /\ ram' \subseteq [sync : Group, left : Nat]
               /\ registered' \subseteq Jobs
               /\ cpc' \in [Caller -> {"idle", "insert", "register", "wait"}]
               /\ request' \in [Caller -> [job : Nat, sync : Sync, promise : BOOLEAN,
                                           pause : Countdown, maxTime : Countdown]]
               /\ called' \subseteq Jobs /\ disturbed' \subseteq Group
               /\ UNCHANGED <<asked, cut, stranded, restarts>>
               /\ timeouts' \in 0 .. MaxTimeouts /\ errors' \in 0 .. MaxErrors
  BY DEF TypeOK, RowsTyped, ThreadTyped, Jobs
<1>3. CASE ClearPauses(t)
  BY <1>1, <1>3 DEF TypeOK, ClearPauses, caller, history, bounds, RowsTyped, ThreadTyped, Jobs
<1>4. CASE ClearPausesOfRows(t)
  <2>1. RowsTyped(rows)'
    BY <1>1, <1>4, UnpauseRows, SameTyped DEF ClearPausesOfRows, history, RowsTyped
  <2> QED
    BY <1>1, <1>4, <2>1 DEF TypeOK, ClearPausesOfRows, memory, caller, history, bounds, ThreadTyped, Jobs
<1>5. CASE Select(t)
  BY <1>1, <1>5 DEF TypeOK, Select, Ready, memory, caller, history, bounds, RowsTyped, ThreadTyped, Jobs
<1>6. CASE SelectNone(t)
  BY <1>1, <1>6, ReturnTyped DEF TypeOK, SelectNone, memory, caller, history, bounds, RowsTyped, Jobs
<1>7. CASE Lock(t)
  <2>1. RowsTyped(rows)'
    BY <1>1, <1>7, LockRows, SameTyped DEF Lock, history, RowsTyped
  <2> QED
    BY <1>1, <1>7, <2>1 DEF TypeOK, Lock, memory, caller, history, bounds, ThreadTyped, Jobs
<1>8. CASE Finish(t)
  BY <1>1, <1>8 DEF TypeOK, Finish, memory, caller, history, bounds, RowsTyped, ThreadTyped, Jobs
<1>9. CASE GivesUp(t)
  BY <1>1, <1>9, QueueAssumption
  DEF TypeOK, GivesUp, memory, caller, history, RowsTyped, ThreadTyped, Jobs
<1>10. CASE Pause(t)
  <2>1. RowsTyped(rows)'
    BY <1>1, <1>10, PauseRows, SameTyped DEF Pause, history, RowsTyped
  <2>2. ThreadTyped'
    BY <1>1, <1>10, ReturnTyped DEF Pause, ThreadTyped
  <2> QED
    <3>1. timeouts < MaxTimeouts /\ timeouts' = timeouts + 1
      BY <1>10 DEF Pause
    <3>2. timeouts \in 0 .. MaxTimeouts
      BY DEF TypeOK
    <3>3. timeouts' \in 0 .. MaxTimeouts
      BY <3>1, <3>2, QueueAssumption
    <3> QED
      BY <1>10, <2>1, <2>2, <3>3 DEF TypeOK, Pause, memory, caller, history
<1>11. CASE PauseInMemory(t)
  <2>1. job[t].sync \in Group
    BY <1>11 DEF PauseInMemory, Faithful, Busy
  <2>2. [sync |-> job[t].sync, left |-> PauseTicks] \in [sync : Group, left : Nat]
    BY <2>1, QueueAssumption
  <2>3. ram' \subseteq [sync : Group, left : Nat]
    BY <1>11, <2>2 DEF TypeOK, PauseInMemory
  <2> QED
    BY <1>1, <1>11, <2>3, ReturnTyped
    DEF TypeOK, PauseInMemory, caller, history, bounds, RowsTyped, Jobs
<1>12. CASE Throws(t)
  BY <1>1, <1>12, ReturnTyped, QueueAssumption
  DEF TypeOK, Throws, memory, caller, history, RowsTyped, Jobs
<1>13. CASE Delete(t)
  BY <1>1, <1>13 DEF TypeOK, Delete, memory, caller, history, bounds, RowsTyped, ThreadTyped, Jobs
<1>14. CASE Unlock(t)
  <2>1. RowsTyped(rows)'
    BY <1>1, <1>14, UnlockRows, SameTyped DEF Unlock, history, RowsTyped
  <2> QED
    BY <1>1, <1>14, <2>1 DEF TypeOK, Unlock, memory, caller, history, bounds, ThreadTyped, Jobs
<1>15. CASE Callback(t)
  <2>1. called' \subseteq Jobs
    <3>1. job[t].job \in Jobs
      BY <1>15 DEF Callback, Faithful, Busy
    <3>2. called \subseteq Jobs /\ called' \subseteq called \cup {job[t].job}
      BY <1>15 DEF TypeOK, Callback
    <3> QED BY <3>1, <3>2
  <2>2. /\ cpc' \in [Caller -> {"idle", "insert", "register", "wait"}]
        /\ request' \in [Caller -> [job : Nat, sync : Sync, promise : BOOLEAN,
                                    pause : Countdown, maxTime : Countdown]]
    BY <1>15 DEF TypeOK, Callback, NoRequest, Sync, Countdown
  <2> QED
    BY <1>1, <1>15, <2>1, <2>2, ReturnTyped 
    DEF TypeOK, Callback, memory, bounds, RowsTyped, Jobs
<1> QED
  BY <1>3, <1>4, <1>5, <1>6, <1>7, <1>8, <1>9, <1>10, <1>11, <1>12, <1>13, <1>14, <1>15
  DEF MainFunction

\* The actions of a caller, and of the world.
LEMMA AskTypeOK ==
    ASSUME TypeOK, NEW c \in Caller, Ask(c)
    PROVE  TypeOK'
<1>1. PICK s \in AskFor, p \in BOOLEAN, m \in MaxTime \cup {NULL}, l \in Countdown :
         request' = [request EXCEPT ![c] =
             [job |-> 0, sync |-> s, promise |-> p, pause |-> l, maxTime |-> m]]
  BY DEF Ask, Pauses, TypeOK, Countdown
<1>2. request' \in [Caller -> [job : Nat, sync : Sync, promise : BOOLEAN,
                               pause : Countdown, maxTime : Countdown]]
  BY <1>1, QueueAssumption DEF TypeOK, Countdown
<1> QED
  BY <1>2 DEF TypeOK, Ask, memory, thread, history, bounds, Jobs

\* What a job is given a number for stays what it is when the next is added.
LEMMA InsertAsked ==
    ASSUME TypeOK, NEW c \in Caller, Insert(c)
    PROVE  /\ asked' \in Seq([sync : Sync, promise : BOOLEAN])
           /\ Jobs \subseteq Jobs' /\ Jobs' = Jobs \cup {Len(asked) + 1}
           /\ Len(asked) + 1 \in Nat /\ \A j \in Jobs : j < Len(asked) + 1
           /\ \A j \in Jobs : asked'[j] = asked[j]
           /\ asked'[Len(asked) + 1] = [sync |-> request[c].sync, promise |-> request[c].promise]
<1> DEFINE e == [sync |-> request[c].sync, promise |-> request[c].promise]
<1>1. asked \in Seq([sync : Sync, promise : BOOLEAN]) /\ e \in [sync : Sync, promise : BOOLEAN]
  BY DEF TypeOK
<1>2. asked' = Append(asked, e)
  BY DEF Insert
<1> HIDE DEF e
<1>3. /\ asked' \in Seq([sync : Sync, promise : BOOLEAN])
      /\ Len(asked') = Len(asked) + 1 /\ Len(asked) \in Nat
      /\ \A j \in 1 .. Len(asked) : asked'[j] = asked[j]
      /\ asked'[Len(asked) + 1] = e
  BY <1>1, <1>2, AppendProperties, LenProperties
<1>4. Jobs = 1 .. Len(asked) /\ Jobs' = 1 .. Len(asked')
  BY <1>1, <1>3, LenProperties DEF Jobs
<1> QED
  BY <1>3, <1>4 DEF e

\* The row that is inserted.
NewRow(c) == [job |-> Len(asked) + 1, sync |-> request[c].sync,
              promise |-> request[c].promise, lock |-> FALSE,
              pause |-> request[c].pause, maxTime |-> request[c].maxTime]

LEMMA InsertRows ==
    ASSUME TypeOK, NEW c \in Caller, Insert(c)
    PROVE  rows' = rows \cup {NewRow(c)} /\ NewRow(c) \in JobRow
<1>1. Len(asked) \in Nat
  BY LenProperties DEF TypeOK
<1> QED BY <1>1 DEF TypeOK, Insert, NewRow, JobRow

LEMMA InsertTypeOK ==
    ASSUME TypeOK, NEW c \in Caller, Insert(c)
    PROVE  TypeOK'
<1>1. rows' \subseteq JobRow /\ \A r \in rows' : r.job \in Jobs'
  <2>1. NewRow(c).job = Len(asked) + 1
    BY DEF NewRow
  <2>2. rows \subseteq JobRow /\ \A r \in rows : r.job \in Jobs
    BY DEF TypeOK
  <2>3. rows' = rows \cup {NewRow(c)} /\ NewRow(c) \in JobRow
    BY InsertRows
  <2>4. Jobs' = Jobs \cup {Len(asked) + 1}
    BY InsertAsked
  <2> QED
    BY <2>1, <2>2, <2>3, <2>4
<1>2. /\ registered' \subseteq Jobs' /\ called' \subseteq Jobs' /\ cut' \subseteq Jobs'
      /\ disturbed' \subseteq Group
  BY InsertAsked DEF TypeOK, Insert, memory
<1>3. stranded' \subseteq Jobs'
  <2>1. stranded' \subseteq stranded \cup {Len(asked) + 1}
    BY DEF Insert
  <2> QED BY <2>1, InsertAsked DEF TypeOK
<1>4. request' \in [Caller -> [job : Nat, sync : Sync, promise : BOOLEAN,
                               pause : Countdown, maxTime : Countdown]]
  <2> DEFINE q == IF request[c].promise THEN [request[c] EXCEPT !.job = Len(asked) + 1]
                                        ELSE NoRequest
             Request == [job : Nat, sync : Sync, promise : BOOLEAN,
                         pause : Countdown, maxTime : Countdown]
  <2>1. request[c] \in Request /\ NoRequest \in Request /\ Len(asked) + 1 \in Nat
    BY InsertAsked DEF TypeOK, NoRequest, Sync, Countdown
  <2>2. q \in Request
    BY <2>1
  <2>3. request' = [request EXCEPT ![c] = q] /\ request \in [Caller -> Request]
    BY DEF TypeOK, Insert
  <2> QED
    BY <2>2, <2>3
<1>5. cpc' \in [Caller -> {"idle", "insert", "register", "wait"}]
  BY DEF TypeOK, Insert
<1> QED
  BY <1>1, <1>2, <1>3, <1>4, <1>5, InsertAsked DEF TypeOK, Insert, memory, thread, bounds

LEMMA RegisterTypeOK ==
    ASSUME TypeOK, Faithful, NEW c \in Caller, Register(c)
    PROVE  TypeOK'
BY DEF TypeOK, Faithful, Register, thread, history, bounds, Jobs

LEMMA TickTypeOK ==
    ASSUME TypeOK, Tick
    PROVE  TypeOK'
<1>1. RowsTyped(rows)'
  BY TickRows, SameTyped DEF TypeOK, Tick, history, RowsTyped
<1>2. ram' \subseteq [sync : Group, left : Nat]
  <2>1. \A p \in ram : [p EXCEPT !.left = Less(@)] \in [sync : Group, left : Nat]
    <3>1. \A n \in Nat : Less(n) \in Nat
      BY QueueAssumption DEF Less
    <3> QED BY <3>1 DEF TypeOK
  <2> QED BY <2>1 DEF Tick
<1>3. request' \in [Caller -> [job : Nat, sync : Sync, promise : BOOLEAN,
                               pause : Countdown, maxTime : Countdown]]
  BY LessTyped DEF TypeOK, Tick
<1> QED
  BY <1>1, <1>2, <1>3 DEF TypeOK, Tick, thread, history, bounds, RowsTyped, Jobs

LEMMA RestartTypeOK ==
    ASSUME TypeOK, Faithful, Restart
    PROVE  TypeOK'
<1>1. RowsTyped(rows)'
  BY RestartRows, SameTyped DEF TypeOK, Restart, RowsTyped
<1>2. ThreadTyped'
  BY NoJobTyped DEF Restart, ThreadTyped
<1>3. cut' \subseteq Jobs
  <2>1. cut' = cut \cup {job[t].job : t \in {u \in Thread : pc[u] \in {"unlock", "callback"}}}
                   \cup {j \in Jobs : asked[j].promise}
    BY DEF Restart, Jobs
  <2>2. \A t \in Thread : pc[t] \in {"unlock", "callback"} => job[t].job \in Jobs
    BY DEF Faithful, Busy
  <2> QED
    BY <2>1, <2>2 DEF TypeOK
<1>4. NoRequest \in [job : Nat, sync : Sync, promise : BOOLEAN,
                     pause : Countdown, maxTime : Countdown]
  BY DEF NoRequest, Sync, Countdown
<1>5. restarts' \in 0 .. MaxRestarts
  <2>1. restarts < MaxRestarts /\ restarts' = restarts + 1
    BY DEF Restart
  <2>2. restarts \in 0 .. MaxRestarts
    BY DEF TypeOK
  <2> QED BY <2>1, <2>2, QueueAssumption
<1>6. /\ ram' = {} /\ registered' = {} /\ stranded' = {}
      /\ UNCHANGED <<asked, called, disturbed, timeouts, errors>>
      /\ cpc' = [c \in Caller |-> "idle"] /\ request' = [c \in Caller |-> NoRequest]
  BY DEF Restart
<1> QED
  BY <1>1, <1>2, <1>3, <1>4, <1>5, <1>6 DEF TypeOK, RowsTyped, ThreadTyped, Jobs

LEMMA TypeOKStep ==
    ASSUME TypeOK, Faithful, [Next]_vars
    PROVE  TypeOK'
<1>1. CASE UNCHANGED vars
  BY <1>1 DEF vars, memory, thread, caller, history, bounds, TypeOK, Jobs
<1>2. CASE Next
  BY <1>2, ThreadTypeOK, AskTypeOK, InsertTypeOK, RegisterTypeOK, TickTypeOK, RestartTypeOK
  DEF Next, AddJob
<1> QED BY <1>1, <1>2

-----------------------------------------------------------------------------
(* One thread looks for a job, and rows and locals say what was asked for.  *)

LEMMA OneLooksStep ==
    ASSUME TypeOK, OneLooks, [Next]_vars
    PROVE  OneLooks'
<1>1. SUFFICES ASSUME NEW t \in Thread, MainFunction(t)
               PROVE  OneLooks'
  <2>1. CASE UNCHANGED vars
    BY <2>1 DEF vars, thread, OneLooks, Looks
  <2>2. CASE \E c \in Caller : AddJob(c)
    BY <2>2 DEF AddJob, Ask, Insert, Register, thread, OneLooks, Looks
  <2>3. CASE Tick
    BY <2>3 DEF Tick, thread, OneLooks, Looks
  <2>4. CASE Restart
    BY <2>4 DEF Restart, OneLooks, Looks
  <2> QED BY <1>1, <2>1, <2>2, <2>3, <2>4 DEF Next
<1>2. pc \in [Thread -> {"idle", "unpause", "select", "lock", "work", "pause",
                         "delete", "unlock", "callback"}]
  BY DEF TypeOK
<1>3. CASE ClearPauses(t)
  BY <1>2, <1>3 DEF ClearPauses, MutexFree, OneLooks, Looks
<1>4. CASE ~ClearPauses(t)
  <2>1. \A u \in Thread : Looks(u)' => Looks(u)
    BY <1>1, <1>2, <1>4
    DEF MainFunction, ClearPausesOfRows, Select, SelectNone, Lock, Finish, GivesUp, Pause,
        PauseInMemory, Throws, Delete, Unlock, Callback, Return, Looks
  <2> QED BY <2>1 DEF OneLooks
<1> QED BY <1>3, <1>4

\* What pc, job and callable are functions on.
LEMMA ThreadFunctions ==
    ASSUME TypeOK
    PROVE  /\ pc = [t \in Thread |-> pc[t]] /\ job = [t \in Thread |-> job[t]]
           /\ callable = [t \in Thread |-> callable[t]]
BY DEF TypeOK

\* A step that only changes rows in place and lets a thread go on with its job.
LEMMA FaithfulKept ==
    ASSUME Faithful, UNCHANGED asked,
           \A s \in rows' : \E r \in rows : Same(r, s),
           \A t \in Thread : Busy(t)' =>
               /\ Busy(t) /\ job'[t] = job[t] /\ callable'[t] = callable[t]
               /\ pc'[t] = "pause" => job[t].sync \in Group,
           \A c \in Caller : cpc'[c] \in {"register", "wait"} =>
               cpc[c] \in {"register", "wait"} /\ request'[c].job = request[c].job
    PROVE  Faithful'
BY DEF Faithful, Same, Jobs

\* The same of a step of thread t's that returns or goes on to one more place.
LEMMA ThreadFaithfulKept ==
    ASSUME TypeOK, Faithful, UNCHANGED <<asked, caller>>, NEW t \in Thread, Busy(t),
           \A s \in rows' : \E r \in rows : Same(r, s),
           \/ Return(t)
           \/ /\ \E p \in {"work", "pause", "delete", "unlock", "callback"} :
                    /\ pc' = [pc EXCEPT ![t] = p]
                    /\ p = "pause" => job[t].sync \in Group
              /\ UNCHANGED <<job, callable>>
    PROVE  Faithful'
<1>1. \A u \in Thread : Busy(u)' =>
          /\ Busy(u) /\ job'[u] = job[u] /\ callable'[u] = callable[u]
          /\ pc'[u] = "pause" => job[u].sync \in Group
  <2>1. /\ pc' = [pc EXCEPT ![t] = pc'[t]] /\ job' = [job EXCEPT ![t] = job'[t]]
        /\ callable' = [callable EXCEPT ![t] = callable'[t]]
        /\ Busy(t)' => /\ job'[t] = job[t] /\ callable'[t] = callable[t]
                       /\ pc'[t] = "pause" => job[t].sync \in Group
    BY ThreadFunctions DEF Return, Busy
  <2>2. \A u \in Thread \ {t} : pc'[u] = pc[u] /\ job'[u] = job[u] /\ callable'[u] = callable[u]
    BY <2>1, ThreadFunctions
  <2> QED BY <2>1, <2>2 DEF Busy, Faithful
<1> QED BY <1>1, FaithfulKept DEF caller

\* And of one that has no job in hand, neither before nor after.
LEMMA LookingFaithfulKept ==
    ASSUME TypeOK, Faithful, UNCHANGED <<asked, caller>>, NEW t \in Thread,
           \A s \in rows' : \E r \in rows : Same(r, s),
           \/ Return(t)
           \/ /\ \E p \in {"unpause", "select"} : pc' = [pc EXCEPT ![t] = p]
              /\ UNCHANGED <<job, callable>>
    PROVE  Faithful'
<1>1. ~Busy(t)'
  BY ThreadFunctions DEF Return, Busy
<1>2. \A u \in Thread \ {t} : pc'[u] = pc[u] /\ job'[u] = job[u] /\ callable'[u] = callable[u]
  BY ThreadFunctions DEF Return
<1>3. \A u \in Thread : Busy(u)' =>
          /\ Busy(u) /\ job'[u] = job[u] /\ callable'[u] = callable[u]
          /\ pc'[u] = "pause" => job[u].sync \in Group
  BY <1>1, <1>2 DEF Busy, Faithful
<1> QED BY <1>3, FaithfulKept DEF caller

LEMMA SameRefl == \A r : Same(r, r)
BY DEF Same

LEMMA ThreadFaithful ==
    ASSUME TypeOK, Faithful, NEW t \in Thread, MainFunction(t)
    PROVE  Faithful'
<1>0. rows \subseteq JobRow
  BY DEF TypeOK
<1>1. CASE ClearPauses(t)
  BY <1>1, SameRefl, LookingFaithfulKept DEF ClearPauses, history
<1>2. CASE ClearPausesOfRows(t)
  BY <1>0, <1>2, UnpauseRows, LookingFaithfulKept DEF ClearPausesOfRows, history
<1>3. CASE Select(t)
  <2>1. PICK r \in rows : /\ job' = [job EXCEPT ![t] = r]
                          /\ callable' = [callable EXCEPT ![t] = r.promise => r.job \in registered]
    BY <1>3 DEF Select, Ready
  <2>2. pc' = [pc EXCEPT ![t] = "lock"] /\ UNCHANGED <<rows, caller, asked>>
    BY <1>3 DEF Select, history
  <2>3. /\ r.job \in Jobs /\ asked[r.job] = [sync |-> r.sync, promise |-> r.promise]
        /\ job'[t] = r
        /\ r.promise \/ callable'[t]
    <3>1. r.job \in Jobs
      BY DEF TypeOK
    <3>2. asked[r.job] = [sync |-> r.sync, promise |-> r.promise]
      BY DEF Faithful
    <3>3. job'[t] = r
      BY <2>1 DEF TypeOK
    <3>4. callable'[t] = (r.promise => r.job \in registered)
      BY <2>1 DEF TypeOK
    <3>5. r.promise \in BOOLEAN
      BY <1>0 DEF JobRow
    <3> QED BY <3>1, <3>2, <3>3, <3>4, <3>5
  <2>4. \A u \in Thread \ {t} :
            pc'[u] = pc[u] /\ job'[u] = job[u] /\ callable'[u] = callable[u]
    BY <2>1, <2>2 DEF TypeOK
  <2>5. pc'[t] = "lock"
    BY <2>2 DEF TypeOK
  <2>6. ASSUME NEW u \in Thread, Busy(u)'
        PROVE  /\ job'[u].job \in Jobs
               /\ asked[job'[u].job] = [sync |-> job'[u].sync, promise |-> job'[u].promise]
               /\ job'[u].promise \/ callable'[u]
               /\ pc'[u] = "pause" => job'[u].sync \in Group
    <3>1. CASE u = t
      BY <2>3, <2>5, <3>1
    <3>2. CASE u # t
      <4>1. Busy(u)
        BY <2>4, <2>6, <3>2 DEF Busy
      <4> QED BY <2>4, <3>2, <4>1 DEF Faithful
    <3> QED BY <3>1, <3>2
  <2> QED BY <2>2, <2>6 DEF Faithful, Jobs, caller
<1>4. CASE SelectNone(t)
  BY <1>4, SameRefl, LookingFaithfulKept DEF SelectNone, history
<1>5. CASE Lock(t)
  BY <1>0, <1>5, LockRows, ThreadFaithfulKept DEF Lock, Busy, history
<1>6. CASE Finish(t)
  BY <1>6, SameRefl, ThreadFaithfulKept DEF Finish, Busy, history
<1>7. CASE GivesUp(t)
  BY <1>7, SameRefl, ThreadFaithfulKept DEF GivesUp, Busy, history
<1>8. CASE Pause(t)
  BY <1>0, <1>8, PauseRows, ThreadFaithfulKept DEF Pause, Busy, history
<1>9. CASE PauseInMemory(t)
  BY <1>9, SameRefl, ThreadFaithfulKept DEF PauseInMemory, Busy, history
<1>10. CASE Throws(t)
  BY <1>10, SameRefl, ThreadFaithfulKept DEF Throws, Busy, history
<1>11. CASE Delete(t)
  BY <1>11, SameRefl, ThreadFaithfulKept DEF Delete, Busy, history
<1>12. CASE Unlock(t)
  BY <1>0, <1>12, UnlockRows, ThreadFaithfulKept DEF Unlock, Busy, history
<1>13. CASE Callback(t)
  <2>1. \A u \in Thread : Busy(u)' =>
            /\ Busy(u) /\ job'[u] = job[u] /\ callable'[u] = callable[u]
            /\ pc'[u] = "pause" => job[u].sync \in Group
    <3>1. \A u \in Thread : pc[u] = "pause" => job[u].sync \in Group
      BY DEF Busy, Faithful
    <3>2. pc'[t] = "idle"
      BY <1>13 DEF TypeOK, Callback, Return
    <3>3. \A u \in Thread \ {t} : pc'[u] = pc[u] /\ job'[u] = job[u] /\ callable'[u] = callable[u]
      BY <1>13 DEF TypeOK, Callback, Return
    <3>4. \A u \in Thread : Busy(u)' => u # t
      BY <3>2 DEF Busy
    <3> QED BY <3>1, <3>3, <3>4 DEF Busy
  <2>2. \A c \in Caller : cpc'[c] \in {"register", "wait"} =>
            cpc[c] \in {"register", "wait"} /\ request'[c].job = request[c].job
    BY <1>13 DEF Callback
  <2> QED BY <1>13, <2>1, <2>2, SameRefl, FaithfulKept DEF Callback
<1> QED
  BY <1>1, <1>2, <1>3, <1>4, <1>5, <1>6, <1>7, <1>8, <1>9, <1>10, <1>11, <1>12, <1>13
  DEF MainFunction

LEMMA InsertFaithful ==
    ASSUME TypeOK, Faithful, NEW c \in Caller, Insert(c)
    PROVE  Faithful'
<1>1. \A r \in rows' : asked'[r.job] = [sync |-> r.sync, promise |-> r.promise]
  <2>8. \A r \in rows : r.job \in Jobs
    BY DEF TypeOK
  <2>9. \A r \in rows : asked[r.job] = [sync |-> r.sync, promise |-> r.promise]
    BY DEF Faithful
  <2>1. \A r \in rows : r.job \in Jobs /\ asked[r.job] = [sync |-> r.sync, promise |-> r.promise]
    BY <2>8, <2>9
  <2>2. /\ NewRow(c).job = Len(asked) + 1
        /\ NewRow(c).sync = request[c].sync /\ NewRow(c).promise = request[c].promise
    BY DEF NewRow
  <2>6. \A j \in Jobs : asked'[j] = asked[j]
    BY InsertAsked
  <2>7. asked'[Len(asked) + 1] = [sync |-> request[c].sync, promise |-> request[c].promise]
    BY InsertAsked
  <2>3. \A r \in rows : asked'[r.job] = asked[r.job]
    BY <2>1, <2>6
  <2>4. asked'[NewRow(c).job] = [sync |-> NewRow(c).sync, promise |-> NewRow(c).promise]
    BY <2>2, <2>7
  <2>5. rows' = rows \cup {NewRow(c)}
    BY InsertRows
  <2> QED BY <2>1, <2>3, <2>4, <2>5
<1>2. \A t \in Thread : Busy(t) =>
          /\ job[t].job \in Jobs'
          /\ asked'[job[t].job] = [sync |-> job[t].sync, promise |-> job[t].promise]
  <2>1. Jobs \subseteq Jobs' /\ \A j \in Jobs : asked'[j] = asked[j]
    BY InsertAsked
  <2> QED BY <2>1 DEF Faithful
<1>3. \A d \in Caller : cpc'[d] \in {"register", "wait"} => request'[d].job \in Jobs'
  <2>1. \A d \in Caller \ {c} : cpc'[d] = cpc[d] /\ request'[d] = request[d]
    BY DEF TypeOK, Insert
  <2>2. cpc'[c] = "register" => request[c].promise
    BY DEF TypeOK, Insert
  <2>3. request[c].promise => request'[c].job = Len(asked) + 1
    BY DEF TypeOK, Insert
  <2>4. cpc'[c] # "wait"
    BY DEF TypeOK, Insert
  <2>5. Len(asked) + 1 \in Jobs' /\ Jobs \subseteq Jobs'
    BY InsertAsked
  <2>6. \A d \in Caller \ {c} : cpc[d] \in {"register", "wait"} => request[d].job \in Jobs
    BY DEF Faithful
  <2> QED BY <2>1, <2>2, <2>3, <2>4, <2>5, <2>6
<1> QED BY <1>1, <1>2, <1>3 DEF Faithful, Insert, thread, Busy

LEMMA FaithfulStep ==
    ASSUME TypeOK, Faithful, [Next]_vars
    PROVE  Faithful'
<1>0. rows \subseteq JobRow
  BY DEF TypeOK
<1>1. CASE UNCHANGED vars
  BY <1>1 DEF vars, thread, caller, history, Faithful, Busy, Jobs
<1>2. CASE \E c \in Caller : Ask(c)
  <2>1. \A c \in Caller : cpc'[c] \in {"register", "wait"} =>
            cpc[c] \in {"register", "wait"} /\ request'[c].job = request[c].job
    <3>1. PICK c \in Caller : Ask(c)
      BY <1>2
    <3>2. \A d \in Caller \ {c} : cpc'[d] = cpc[d] /\ request'[d] = request[d]
      BY <3>1 DEF TypeOK, Ask
    <3>3. cpc'[c] = "insert"
      BY <3>1 DEF TypeOK, Ask
    <3> QED BY <3>2, <3>3
  <2> QED BY <1>2, <2>1, SameRefl, FaithfulKept DEF Faithful, Ask, Busy, thread, history
<1>3. CASE \E c \in Caller : Register(c)
  BY <1>3, SameRefl DEF TypeOK, Faithful, Register, Busy, thread, history, Jobs
<1>4. CASE Tick
  <2>1. \A c \in Caller : request'[c].job = request[c].job
    BY <1>4 DEF TypeOK, Tick
  <2> QED BY <1>0, <1>4, <2>1, TickRows, FaithfulKept DEF Tick, Busy, thread, history, Faithful
<1>5. CASE Restart
  BY <1>0, <1>5, RestartRows, FaithfulKept DEF Restart, Busy
<1> QED BY <1>1, <1>2, <1>3, <1>4, <1>5, ThreadFaithful, InsertFaithful DEF Next, AddJob

-----------------------------------------------------------------------------
(* NoJobLost.                                                              *)

\* A step that keeps each row or puts its job in a thread's hand.
LEMMA NoJobLostKept ==
    ASSUME NoJobLost, UNCHANGED asked,
           \A j \in Jobs : InRows(j) => \/ asked[j].promise
                                        \/ InRows(j)' \/ InHand(j)',
           \A j \in Jobs : InHand(j) => \/ asked[j].promise
                                        \/ InHand(j)' \/ j \in called' \/ j \in cut',
           called \subseteq called', cut \subseteq cut'
    PROVE  NoJobLost'
BY DEF NoJobLost, Jobs

LEMMA KeepsInRows ==
    ASSUME Keeps(rows, rows'), NEW j, InRows(j)
    PROVE  InRows(j)'
BY DEF Keeps, Same, InRows

\* A thread that has nothing in hand changes nothing of what others have.
LEMMA InHandKept ==
    ASSUME TypeOK, NEW t \in Thread, pc[t] \notin {"unlock", "callback"},
           \A u \in Thread \ {t} : pc'[u] = pc[u] /\ job'[u] = job[u],
           NEW j, InHand(j)
    PROVE  InHand(j)'
BY DEF InHand

\* A step of a thread that is neither at "unlock" nor at "callback", and keeps
\* every row.
LEMMA ThreadKeepsJobs ==
    ASSUME TypeOK, NoJobLost, NEW t \in Thread, pc[t] \notin {"unlock", "callback"},
           \A u \in Thread \ {t} : pc'[u] = pc[u] /\ job'[u] = job[u],
           Keeps(rows, rows'), UNCHANGED <<asked, called, cut>>
    PROVE  NoJobLost'
BY KeepsInRows, InHandKept, NoJobLostKept DEF history

LEMMA KeepsRefl == Keeps(rows, rows)
BY SameRefl DEF Keeps

LEMMA ThreadNoJobLost ==
    ASSUME TypeOK, Faithful, NoJobLost, NEW t \in Thread, MainFunction(t)
    PROVE  NoJobLost'
<1>0. rows \subseteq JobRow
  BY DEF TypeOK
<1>1. \A u \in Thread \ {t} : pc'[u] = pc[u] /\ job'[u] = job[u]
  BY ThreadFunctions
  DEF MainFunction, ClearPauses, ClearPausesOfRows, Select, SelectNone, Lock, Finish, GivesUp,
      Pause, PauseInMemory, Throws, Delete, Unlock, Callback, Return
<1>2. CASE ClearPauses(t) \/ Select(t) \/ SelectNone(t) \/ Finish(t) \/ GivesUp(t)
           \/ PauseInMemory(t) \/ Throws(t)
  <2>1. pc[t] \notin {"unlock", "callback"} /\ UNCHANGED <<rows, asked, called, cut>>
    BY <1>2 DEF ClearPauses, Select, SelectNone, Finish, GivesUp, PauseInMemory, Throws, history
  <2> QED BY <1>1, <2>1, KeepsRefl, ThreadKeepsJobs
<1>3. CASE ClearPausesOfRows(t)
  BY <1>0, <1>1, <1>3, UnpauseRows, ThreadKeepsJobs DEF ClearPausesOfRows, history
<1>4. CASE Lock(t)
  BY <1>0, <1>1, <1>4, LockRows, ThreadKeepsJobs DEF Lock, history
<1>5. CASE Pause(t)
  BY <1>0, <1>1, <1>5, PauseRows, ThreadKeepsJobs DEF Pause, history
<1>6. CASE Delete(t)
  <2>1. /\ rows' = {r \in rows : r.job # job[t].job} /\ pc[t] = "delete"
        /\ pc'[t] = "unlock" /\ job'[t] = job[t] /\ UNCHANGED history
    BY <1>6, ThreadFunctions DEF Delete
  <2>2. \A j \in Jobs : InRows(j) => InRows(j)' \/ InHand(j)'
    BY <2>1 DEF InRows, InHand
  <2> QED BY <1>1, <2>1, <2>2, InHandKept, NoJobLostKept DEF history
<1>7. CASE Unlock(t)
  <2>1. /\ pc[t] = "unlock" /\ pc'[t] = "callback" /\ job'[t] = job[t] /\ UNCHANGED history
    BY <1>7, ThreadFunctions DEF Unlock
  <2>2. \A j \in Jobs : InHand(j) => InHand(j)'
    BY <1>1, <2>1 DEF InHand
  <2> QED BY <1>0, <1>7, <2>1, <2>2, UnlockRows, KeepsInRows, NoJobLostKept DEF history
<1>8. CASE Callback(t)
  <2>1. /\ pc[t] = "callback" /\ UNCHANGED <<rows, asked, cut>>
        /\ called' = IF callable[t] THEN called \cup {job[t].job} ELSE called
    BY <1>8 DEF Callback
  <2> PICK k \in Jobs : k = job[t].job
    BY <2>1 DEF Faithful, Busy
  <2>2. asked[k].promise \/ callable[t]
    <3>1. /\ asked[k] = [sync |-> job[t].sync, promise |-> job[t].promise]
          /\ job[t].promise \/ callable[t]
      BY <2>1 DEF Faithful, Busy
    <3> QED BY <3>1
  <2>3. called \subseteq called' /\ (callable[t] => k \in called')
    BY <2>1
  <2>7. \A j \in Jobs : InHand(j) => asked[j].promise \/ InHand(j)' \/ j \in called'
    BY <1>1, <2>2, <2>3 DEF InHand
  <2> QED BY <2>1, <2>3, <2>7, NoJobLostKept DEF InRows
<1> QED
  BY <1>2, <1>3, <1>4, <1>5, <1>6, <1>7, <1>8 DEF MainFunction

LEMMA InsertNoJobLost ==
    ASSUME TypeOK, NoJobLost, NEW c \in Caller, Insert(c)
    PROVE  NoJobLost'
<1>1. \A j \in Jobs : InRows(j) => InRows(j)'
  BY InsertRows DEF InRows
<1> PICK n : n = Len(asked) + 1
  OBVIOUS
<1>2. InRows(n)'
  <2>1. NewRow(c) \in rows'
    BY InsertRows
  <2>2. NewRow(c).job = n
    BY DEF NewRow
  <2> QED BY <2>1, <2>2 DEF InRows
<1>3. \A j : (InHand(j) <=> InHand(j)') /\ called' = called /\ cut' = cut
  BY DEF Insert, thread, InHand
<1>4. \A j \in Jobs : asked[j].promise \/ InRows(j) \/ InHand(j) \/ j \in called \/ j \in cut
  BY DEF NoJobLost
<1> QED BY <1>4, <1>1, <1>2, <1>3, InsertAsked DEF NoJobLost

LEMMA NoJobLostStep ==
    ASSUME TypeOK, Faithful, NoJobLost, [Next]_vars
    PROVE  NoJobLost'
<1>0. rows \subseteq JobRow
  BY DEF TypeOK
<1>1. CASE UNCHANGED vars
  BY <1>1 DEF vars, thread, history, NoJobLost, InRows, InHand, Jobs
<1>2. CASE \E c \in Caller : Ask(c) \/ Register(c)
  <2>1. UNCHANGED <<rows, thread, history>>
    BY <1>2 DEF Ask, Register
  <2> QED BY <2>1 DEF thread, history, NoJobLost, InRows, InHand, Jobs
<1>3. CASE Tick
  <2>1. UNCHANGED <<thread, history>>
    BY <1>3 DEF Tick
  <2> QED
    BY <1>0, <1>3, <2>1, TickRows, KeepsInRows, NoJobLostKept
    DEF thread, history, InHand
<1>4. CASE Restart
  <2>1. \A j \in Jobs : InRows(j) => asked[j].promise \/ InRows(j)'
    <3>1. \A r \in rows : ~r.promise => InRows(r.job)'
      BY <1>0, <1>4, RestartRows DEF InRows, Same
    <3>2. ASSUME NEW r \in rows, ~asked[r.job].promise
          PROVE  ~r.promise
      <4>1. asked[r.job] = [sync |-> r.sync, promise |-> r.promise]
        BY DEF Faithful
      <4> QED BY <3>2, <4>1
    <3> QED BY <3>1, <3>2 DEF InRows
  <2>2. \A j \in Jobs : InHand(j) => j \in cut'
    BY <1>4 DEF Restart, InHand
  <2> QED BY <1>4, <2>1, <2>2, NoJobLostKept DEF Restart
<1> QED BY <1>1, <1>2, <1>3, <1>4, ThreadNoJobLost, InsertNoJobLost DEF Next, AddJob

-----------------------------------------------------------------------------
(* The order of a group that is not disturbed.                             *)

Calm == Group \ disturbed

\* Of a group's rows, r before s: locked together, and r paused no longer.
InStep(r, s) == r.lock = s.lock /\ (r.job <= s.job => NoLater(r.pause, s.pause))

Uniform == \A r, s \in rows : r.sync \in Calm /\ s.sync = r.sync => InStep(r, s)

HeldIsLocked ==
    \A g \in Calm, t \in Thread : Holds(t, g) /\ pc[t] # "lock" =>
        \A r \in rows : r.sync = g => r.lock

LEMMA GroupWholeParts == GroupWhole <=> Uniform /\ HeldIsLocked
BY Zenon DEF GroupWhole, Uniform, HeldIsLocked, InStep, Calm

\* Pauses keep their order when they are shortened, and when those that are
\* over are ended.
LEMMA NoLaterLess ==
    ASSUME NEW p \in Countdown, NEW q \in Countdown, NoLater(p, q)
    PROVE  NoLater(Less(p), Less(q))
BY QueueAssumption DEF NoLater, Less, Countdown

LEMMA NoLaterEnded ==
    ASSUME NEW p \in Countdown, NEW q \in Countdown, NoLater(p, q)
    PROVE  NoLater(IF p = 0 THEN NULL ELSE p, IF q = 0 THEN NULL ELSE q)
BY QueueAssumption DEF NoLater, Countdown

\* Rows that are changed in place stay in step if their locks and pauses do.
LEMMA UniformKept ==
    ASSUME Uniform, disturbed \subseteq disturbed',
           \A s1, s2 \in rows' : s1.sync \in Group /\ s2.sync = s1.sync =>
               \E r1, r2 \in rows :
                   /\ Same(r1, s1) /\ Same(r2, s2)
                   /\ r1.lock = r2.lock => s1.lock = s2.lock
                   /\ NoLater(r1.pause, r2.pause) => NoLater(s1.pause, s2.pause)
    PROVE  Uniform'
<1> SUFFICES ASSUME NEW s1 \in rows', NEW s2 \in rows', s1.sync \in Calm', s2.sync = s1.sync
             PROVE  InStep(s1, s2)
  BY DEF Uniform, InStep
<1>1. s1.sync \in Calm /\ s1.sync \in Group
  BY DEF Calm
<1> PICK r1 \in rows, r2 \in rows :
        /\ Same(r1, s1) /\ Same(r2, s2)
        /\ r1.lock = r2.lock => s1.lock = s2.lock
        /\ NoLater(r1.pause, r2.pause) => NoLater(s1.pause, s2.pause)
  BY <1>1
<1>2. r1.sync = s1.sync /\ r2.sync = s1.sync /\ r1.job = s1.job /\ r2.job = s2.job
  BY DEF Same
<1>3. InStep(r1, r2)
  BY <1>1, <1>2 DEF Uniform
<1> QED BY <1>2, <1>3 DEF InStep

\* A step by which no thread comes to hold a group.
LEMMA OrderKept ==
    ASSUME Order, Uniform', HeldIsLocked', disturbed \subseteq disturbed',
           \A s \in rows' : \E r \in rows : Same(r, s),
           \A g \in Group, t \in Thread : Holds(t, g)' => Holds(t, g) /\ job'[t] = job[t]
    PROVE  Order'
<1>1. GroupWhole'
  BY DEF GroupWhole, Uniform, HeldIsLocked, InStep, Calm
<1>2. OneAtATime'
  BY DEF Order, OneAtATime
<1>3. FirstComeFirstServed'
  BY DEF Order, FirstComeFirstServed, Same
<1> QED BY <1>1, <1>2, <1>3 DEF Order

\* The same where no lock changes either.
LEMMA OrderKeptUnlocked ==
    ASSUME Order, Uniform', disturbed \subseteq disturbed',
           \A s \in rows' : \E r \in rows : Same(r, s) /\ s.lock = r.lock,
           \A g \in Group, t \in Thread : Holds(t, g)' =>
               /\ Holds(t, g) /\ job'[t] = job[t]
               /\ pc[t] = "lock" => pc'[t] = "lock"
    PROVE  Order'
<1>1. HeldIsLocked'
  BY GroupWholeParts DEF Order, HeldIsLocked, Same, Calm
<1> QED BY <1>1, OrderKept

\* The rows of a group that stand or fall with a job are all of its group.
LEMMA MatesOfGroup ==
    ASSUME TypeOK, Faithful, NEW t \in Thread, Busy(t), NEW r \in rows, r.sync \in Group
    PROVE  r \in Mates(t) <=> r.sync = job[t].sync
<1>1. CASE job[t].sync \in Group
  BY <1>1 DEF Mates
<1>2. CASE job[t].sync \notin Group
  <2>1. SUFFICES ASSUME r.job = job[t].job
                 PROVE  r.sync = job[t].sync
    BY <1>2 DEF Mates
  <2>2. /\ asked[r.job] = [sync |-> r.sync, promise |-> r.promise]
        /\ asked[job[t].job] = [sync |-> job[t].sync, promise |-> job[t].promise]
    BY DEF Faithful
  <2> QED BY <2>1, <2>2
<1> QED BY <1>1, <1>2

\* A group that Select finds at rest is in order, whatever it was before.
LEMMA SelectOrder ==
    ASSUME TypeOK, OneLooks, Order, NEW t \in Thread, Select(t)
    PROVE  Order'
<1>1. PICK r \in Ready : /\ \A s \in Ready : r.job <= s.job
                         /\ job' = [job EXCEPT ![t] = r]
  BY DEF Select
<1>2. /\ r \in rows /\ ~r.lock /\ r.pause = NULL
      /\ pc[t] = "select" /\ pc'[t] = "lock" /\ job'[t] = r /\ UNCHANGED rows
      /\ \A u \in Thread \ {t} : pc'[u] = pc[u] /\ job'[u] = job[u]
  BY <1>1, ThreadFunctions DEF Select, Ready
<1>3. \A u \in Thread : pc[u] # "lock"
  BY <1>2 DEF OneLooks, Looks
<1>4. \A g \in Group, u \in Thread \ {t} : Holds(u, g)' <=> Holds(u, g)
  BY <1>2 DEF Holds
<1>5. \A g \in Group : ~Holds(t, g) /\ (Holds(t, g)' => r.sync = g)
  BY <1>2 DEF Holds
<1>6. \A g \in Calm' : g \in Group /\ (g \in Calm \/ AtRest(g))
  BY DEF Select, Calm
<1>7. \A s \in rows : s.lock \in BOOLEAN /\ s.job \in Nat
  BY DEF TypeOK, JobRow
<1>8. ASSUME NEW g \in Calm'
      PROVE  /\ \A s1, s2 \in rows : s1.sync = g /\ s2.sync = g => InStep(s1, s2)
             /\ \A u \in Thread : Holds(u, g) => \A s \in rows : s.sync = g => s.lock
             /\ \A u, v \in Thread : Holds(u, g) /\ Holds(v, g) => u = v
             /\ \A u \in Thread : Holds(u, g) =>
                    \A s \in rows : s.sync = g => job[u].job <= s.job
  <2>1. CASE g \in Calm
    <3>1. Uniform /\ HeldIsLocked /\ OneAtATime /\ FirstComeFirstServed
      BY GroupWholeParts DEF Order
    <3>2. \A s1, s2 \in rows : s1.sync = g /\ s2.sync = g => InStep(s1, s2)
      BY <2>1, <3>1 DEF Uniform
    <3>3. \A u \in Thread : Holds(u, g) => \A s \in rows : s.sync = g => s.lock
      BY <1>3, <2>1, <3>1 DEF HeldIsLocked
    <3>4. g \in Group \ disturbed
      BY <2>1 DEF Calm
    <3> QED BY <3>1, <3>2, <3>3, <3>4 DEF OneAtATime, FirstComeFirstServed
  <2>2. CASE AtRest(g)
    BY <1>7, <2>2 DEF AtRest, InStep, NoLater
  <2> QED BY <1>6, <2>1, <2>2
<1>9. \A u \in Thread, g \in Calm' : Holds(u, g) => r.sync # g
  BY <1>2, <1>8
<1>10. \A g \in Calm' : r.sync = g => \A s \in rows : s.sync = g => r.job <= s.job
  <2> SUFFICES ASSUME NEW g \in Calm', r.sync = g, NEW s \in rows, s.sync = g, ~(r.job <= s.job)
               PROVE  FALSE
    OBVIOUS
  <2>1. InStep(s, r) /\ s.job <= r.job
    BY <1>2, <1>7, <1>8
  <2>2. s.pause = NULL /\ ~s.lock
    BY <1>2, <1>7, <2>1 DEF InStep, NoLater
  <2> QED BY <1>1, <2>2 DEF Ready
<1>11. Uniform' /\ HeldIsLocked'
  <2>1. Uniform'
    BY <1>2, <1>8 DEF Uniform, InStep
  <2>2. \A g \in Calm', u \in Thread : Holds(u, g)' /\ pc'[u] # "lock" => Holds(u, g)
    BY <1>2, <1>4, <1>6
  <2> QED BY <1>2, <1>8, <2>1, <2>2 DEF HeldIsLocked
<1>12. OneAtATime'
  <2> SUFFICES ASSUME NEW g \in Calm', NEW u \in Thread, NEW v \in Thread,
                      Holds(u, g)', Holds(v, g)'
               PROVE  u = v
    BY DEF OneAtATime, Calm
  <2> QED BY <1>4, <1>5, <1>6, <1>8, <1>9
<1>13. FirstComeFirstServed'
  <2> SUFFICES ASSUME NEW g \in Calm', NEW u \in Thread, Holds(u, g)',
                      NEW s \in rows, s.sync = g
               PROVE  job'[u].job <= s.job
    BY <1>2 DEF FirstComeFirstServed, Calm
  <2>1. CASE u = t
    BY <1>2, <1>5, <1>6, <1>10, <2>1
  <2>2. CASE u # t
    BY <1>2, <1>4, <1>6, <1>8, <2>2
  <2> QED BY <2>1, <2>2
<1> QED
  BY <1>11, <1>12, <1>13 DEF Order, GroupWhole, Uniform, HeldIsLocked, InStep, Calm

LEMMA LockOrder ==
    ASSUME TypeOK, Faithful, Order, NEW t \in Thread, Lock(t)
    PROVE  Order'
<1>1. /\ pc[t] = "lock" /\ pc'[t] = "work" /\ UNCHANGED <<job, disturbed>>
      /\ \A u \in Thread \ {t} : pc'[u] = pc[u]
  BY ThreadFunctions DEF Lock, history
<1>2. \A s \in rows' : \E r \in rows :
          Same(r, s) /\ s.pause = r.pause /\ s.lock = IF r \in Mates(t) THEN TRUE ELSE r.lock
  <2>1. rows \subseteq JobRow
    BY DEF TypeOK
  <2> QED BY <2>1, Zenon, LockRows
<1>3. \A r \in rows : r.sync \in Group => (r \in Mates(t) <=> r.sync = job[t].sync)
  BY <1>1, MatesOfGroup DEF Busy
<1>4. Uniform'
  <2> SUFFICES ASSUME NEW s1 \in rows', NEW s2 \in rows',
                      s1.sync \in Group, s2.sync = s1.sync
               PROVE  \E r1, r2 \in rows :
                          /\ Same(r1, s1) /\ Same(r2, s2)
                          /\ r1.lock = r2.lock => s1.lock = s2.lock
                          /\ NoLater(r1.pause, r2.pause) => NoLater(s1.pause, s2.pause)
    BY <1>1, UniformKept, GroupWholeParts DEF Order
  <2> PICK r1 \in rows : /\ Same(r1, s1)
                         /\ s1.pause = r1.pause
                         /\ s1.lock = IF r1 \in Mates(t) THEN TRUE ELSE r1.lock
    BY <1>2
  <2> PICK r2 \in rows : /\ Same(r2, s2)
                         /\ s2.pause = r2.pause
                         /\ s2.lock = IF r2 \in Mates(t) THEN TRUE ELSE r2.lock
    BY <1>2
  <2>1. r1.sync \in Group /\ r2.sync = r1.sync
    BY DEF Same
  <2>2. r1 \in Mates(t) <=> r2 \in Mates(t)
    BY <1>3, <2>1
  <2> QED BY <2>2
<1>5. \A g \in Group, u \in Thread : Holds(u, g)' <=> Holds(u, g)
  BY <1>1 DEF Holds
<1>6. HeldIsLocked'
  <2> SUFFICES ASSUME NEW g \in Calm, NEW u \in Thread, Holds(u, g)', pc'[u] # "lock",
                      NEW s \in rows', s.sync = g
               PROVE  s.lock
    BY <1>1 DEF HeldIsLocked, Calm
  <2>0. g \in Group
    BY DEF Calm
  <2>1. PICK r \in rows : r.sync = g /\ s.lock = IF r \in Mates(t) THEN TRUE ELSE r.lock
    BY <1>2 DEF Same
  <2>2. CASE u = t
    BY <1>1, <1>3, <2>0, <2>1, <2>2 DEF Holds
  <2>3. CASE u # t
    <3>1. r.lock
      BY <1>1, <1>5, <2>0, <2>1, <2>3, GroupWholeParts DEF Order, HeldIsLocked
    <3> QED BY <2>1, <3>1
  <2> QED BY <2>2, <2>3
<1> QED BY <1>1, <1>2, <1>4, <1>5, <1>6, OrderKept

\* Pause and Unlock end the locks of the thread's group, which it then does
\* not hold any more.
LEMMA ReleaseOrder ==
    ASSUME TypeOK, Order, NEW t \in Thread, Holds(t, job[t].sync),
           pc'[t] \notin {"lock", "work", "delete", "unlock"}, UNCHANGED disturbed,
           \A u \in Thread \ {t} : pc'[u] = pc[u] /\ job'[u] = job[u],
           Uniform',
           \A s \in rows' : \E r \in rows :
               Same(r, s) /\ (r.sync \in Group /\ r.sync # job[t].sync => s.lock = r.lock)
    PROVE  Order'
<1>1. \A g \in Group, u \in Thread : Holds(u, g)' =>
          u # t /\ Holds(u, g) /\ job'[u] = job[u] /\ (g \in Calm => g # job[t].sync)
  BY DEF Holds, Order, OneAtATime, Calm
<1>2. HeldIsLocked'
  <2>1. Calm' = Calm /\ Calm \subseteq Group
    BY DEF Calm
  <2> QED BY <1>1, <2>1, GroupWholeParts DEF Order, HeldIsLocked, Same
<1> QED BY <1>1, <1>2, OrderKept

LEMMA PauseOrder ==
    ASSUME TypeOK, Faithful, Order, NEW t \in Thread, Pause(t)
    PROVE  Order'
<1>1. /\ pc[t] = "work" /\ pc'[t] \in {"pause", "idle"} /\ UNCHANGED disturbed
      /\ \A u \in Thread \ {t} : pc'[u] = pc[u] /\ job'[u] = job[u]
  BY ThreadFunctions DEF Pause, Return, history
<1>2. \A s \in rows' : \E r \in rows :
          /\ Same(r, s)
          /\ s.pause = IF r \in Mates(t) THEN PauseTicks ELSE r.pause
          /\ s.lock = IF r \in Mates(t) THEN FALSE ELSE r.lock
  BY PauseRows DEF TypeOK
<1>3. \A r \in rows : r.sync \in Group => (r \in Mates(t) <=> r.sync = job[t].sync)
  BY <1>1, MatesOfGroup DEF Busy
<1>4. Uniform'
  <2> SUFFICES ASSUME NEW s1 \in rows', NEW s2 \in rows',
                      s1.sync \in Group, s2.sync = s1.sync
               PROVE  \E r1, r2 \in rows :
                          /\ Same(r1, s1) /\ Same(r2, s2)
                          /\ r1.lock = r2.lock => s1.lock = s2.lock
                          /\ NoLater(r1.pause, r2.pause) => NoLater(s1.pause, s2.pause)
    BY <1>1, UniformKept, GroupWholeParts DEF Order
  <2> PICK r1 \in rows : /\ Same(r1, s1)
                         /\ s1.pause = IF r1 \in Mates(t) THEN PauseTicks ELSE r1.pause
                         /\ s1.lock = IF r1 \in Mates(t) THEN FALSE ELSE r1.lock
    BY <1>2
  <2> PICK r2 \in rows : /\ Same(r2, s2)
                         /\ s2.pause = IF r2 \in Mates(t) THEN PauseTicks ELSE r2.pause
                         /\ s2.lock = IF r2 \in Mates(t) THEN FALSE ELSE r2.lock
    BY <1>2
  <2>1. r1.sync \in Group /\ r2.sync = r1.sync
    BY DEF Same
  <2>2. r1 \in Mates(t) <=> r2 \in Mates(t)
    BY <1>3, <2>1
  <2>3. NoLater(PauseTicks, PauseTicks)
    BY QueueAssumption DEF NoLater
  <2> QED BY <2>2, <2>3
<1>5. \A s \in rows' : \E r \in rows :
          Same(r, s) /\ (r.sync \in Group /\ r.sync # job[t].sync => s.lock = r.lock)
  BY <1>2, <1>3
<1> QED BY <1>1, <1>4, <1>5, ReleaseOrder DEF Holds

LEMMA UnlockOrder ==
    ASSUME TypeOK, Faithful, Order, NEW t \in Thread, Unlock(t)
    PROVE  Order'
<1>1. /\ pc[t] = "unlock" /\ pc'[t] = "callback" /\ UNCHANGED <<job, disturbed>>
      /\ \A u \in Thread \ {t} : pc'[u] = pc[u] /\ job'[u] = job[u]
  BY ThreadFunctions DEF Unlock, history
<1>2. \A s \in rows' : \E r \in rows :
          Same(r, s) /\ s.pause = r.pause /\ s.lock = (r.lock /\ r.sync # job[t].sync)
  BY UnlockRows DEF TypeOK
<1>3. Uniform'
  <2> SUFFICES ASSUME NEW s1 \in rows', NEW s2 \in rows',
                      s1.sync \in Group, s2.sync = s1.sync
               PROVE  \E r1, r2 \in rows :
                          /\ Same(r1, s1) /\ Same(r2, s2)
                          /\ r1.lock = r2.lock => s1.lock = s2.lock
                          /\ NoLater(r1.pause, r2.pause) => NoLater(s1.pause, s2.pause)
    BY <1>1, UniformKept, GroupWholeParts DEF Order
  <2> PICK r1 \in rows : /\ Same(r1, s1) /\ s1.pause = r1.pause
                         /\ s1.lock = (r1.lock /\ r1.sync # job[t].sync)
    BY <1>2
  <2> PICK r2 \in rows : /\ Same(r2, s2) /\ s2.pause = r2.pause
                         /\ s2.lock = (r2.lock /\ r2.sync # job[t].sync)
    BY <1>2
  <2>1. r2.sync = r1.sync
    BY DEF Same
  <2> QED BY <2>1
<1>4. \A s \in rows' : \E r \in rows :
          Same(r, s) /\ (r.sync \in Group /\ r.sync # job[t].sync => s.lock = r.lock)
  <2>1. \A r \in rows : r.lock \in BOOLEAN
    BY DEF TypeOK, JobRow
  <2> QED BY <1>2, <2>1
<1> QED BY <1>1, <1>3, <1>4, ReleaseOrder DEF Holds

\* A job that joins a group between the choice of a job and its lock, or behind
\* its pause, leaves it in order; every other moment disturbs it.
LEMMA InsertOrder ==
    ASSUME TypeOK, Faithful, Order, NEW c \in Caller, Insert(c)
    PROVE  Order'
<1> DEFINE n == NewRow(c)
<1>1. rows' = rows \cup {n} /\ n \in JobRow
  BY InsertRows
<1>2. /\ n.sync = request[c].sync /\ n.pause = request[c].pause /\ n.lock = FALSE
      /\ n.job = Len(asked) + 1
  BY DEF NewRow
<1>3. \A r \in rows : r \in JobRow /\ r.job < n.job
  BY <1>2, InsertAsked DEF TypeOK
<1>4. UNCHANGED <<pc, job>> /\ Calm' \subseteq Calm
  BY DEF Insert, thread, Calm
<1>5. ASSUME n.sync \in Calm'
      PROVE  /\ \A r \in rows : r.sync = n.sync => ~r.lock /\ NoLater(r.pause, n.pause)
             /\ \A t \in Thread : Holds(t, n.sync) => pc[t] = "lock"
  <2>1. n.sync \in Group /\ n.sync \notin disturbed'
    BY <1>5 DEF Calm
  <2>2. disturbed' = disturbed \cup {g \in Group \cap {request[c].sync} :
                                        Disturbs(g, request[c].pause)}
    BY DEF Insert
  <2>3. ~Disturbs(n.sync, n.pause)
    BY <1>2, <2>1, <2>2
  <2> QED BY <2>3 DEF Disturbs
<1> HIDE DEF n
<1>6. Uniform'
  <2> SUFFICES ASSUME NEW r \in rows', NEW s \in rows', r.sync \in Calm', s.sync = r.sync
               PROVE  InStep(r, s)
    BY DEF Uniform, InStep
  <2>1. CASE r \in rows /\ s \in rows
    BY <1>4, <2>1, GroupWholeParts DEF Order, Uniform
  <2>2. CASE r = n /\ s = n
    <3>1. n.pause \in Countdown
      BY <1>1 DEF JobRow
    <3>2. NoLater(n.pause, n.pause)
      BY <3>1 DEF NoLater, Countdown
    <3> QED BY <2>2, <3>2 DEF InStep
  <2>3. CASE r \in rows /\ s = n
    <3>1. r.lock \in BOOLEAN
      BY <1>3, <2>3 DEF JobRow
    <3>2. ~r.lock /\ NoLater(r.pause, n.pause)
      BY <1>5, <2>3
    <3> QED BY <1>2, <2>3, <3>1, <3>2 DEF InStep
  <2>4. CASE r = n /\ s \in rows
    <3>1. s.lock \in BOOLEAN /\ s.job \in Nat /\ n.job \in Nat /\ s.job < n.job
      BY <1>1, <1>3, <2>4 DEF JobRow
    <3>2. ~s.lock /\ ~(n.job <= s.job)
      BY <1>5, <2>4, <3>1
    <3> QED BY <1>2, <2>4, <3>1, <3>2 DEF InStep
  <2> QED BY <1>1, <2>1, <2>2, <2>3, <2>4
<1>7. HeldIsLocked'
  <2> SUFFICES ASSUME NEW g \in Calm', NEW t \in Thread, Holds(t, g), pc[t] # "lock",
                      NEW r \in rows', r.sync = g
               PROVE  r.lock
    BY <1>4 DEF HeldIsLocked, Holds
  <2>1. r # n
    BY <1>5
  <2>2. r \in rows /\ g \in Calm
    BY <1>1, <1>4, <2>1
  <2> QED BY <2>2, GroupWholeParts DEF Order, HeldIsLocked
<1>8. OneAtATime'
  BY <1>4 DEF Order, OneAtATime, Holds, Calm
<1>9. FirstComeFirstServed'
  <2> SUFFICES ASSUME NEW g \in Calm, NEW t \in Thread, Holds(t, g),
                      NEW r \in rows', r.sync = g
               PROVE  job[t].job <= r.job
    BY <1>4 DEF FirstComeFirstServed, Holds, Calm
  <2>1. CASE r \in rows
    BY <2>1 DEF Order, FirstComeFirstServed, Calm
  <2>2. CASE r = n
    <3>1. job[t].job \in Jobs
      BY DEF Holds, Faithful, Busy
    <3>2. job[t].job < n.job /\ job[t].job \in Nat /\ n.job \in Nat
      BY <1>2, <3>1, InsertAsked DEF TypeOK, JobRow
    <3> QED BY <2>2, <3>2
  <2> QED BY <1>1, <2>1, <2>2
<1> QED
  BY <1>6, <1>7, <1>8, <1>9 DEF Order, GroupWhole, Uniform, HeldIsLocked, InStep, Calm

\* Steps that leave the locks alone and let no thread hold a group.
LEMMA QuietThreadOrder ==
    ASSUME TypeOK, Order, NEW t \in Thread,
           \/ ClearPauses(t) \/ ClearPausesOfRows(t) \/ SelectNone(t) \/ Finish(t)
           \/ GivesUp(t) \/ PauseInMemory(t) \/ Throws(t) \/ Delete(t) \/ Callback(t)
    PROVE  Order'
<1>1. /\ \A u \in Thread \ {t} : pc'[u] = pc[u] /\ job'[u] = job[u]
      /\ pc[t] # "lock" /\ UNCHANGED disturbed
      /\ \/ pc'[t] \in {"idle", "unpause", "select"}
         \/ /\ pc[t] \in {"work", "delete"} /\ pc'[t] \in {"delete", "unlock"}
            /\ job'[t] = job[t]
  BY ThreadFunctions
  DEF ClearPauses, ClearPausesOfRows, SelectNone, Finish, GivesUp, PauseInMemory, Throws,
      Delete, Callback, Return, history
<1>2. \A g \in Group, u \in Thread : Holds(u, g)' =>
          Holds(u, g) /\ job'[u] = job[u] /\ (pc[u] = "lock" => pc'[u] = "lock")
  BY <1>1 DEF Holds
<1>3. Uniform
  BY GroupWholeParts DEF Order
<1>4. CASE ClearPausesOfRows(t)
  <2>1. \A s \in rows' : \E r \in rows :
            Same(r, s) /\ s.pause = (IF r.pause = 0 THEN NULL ELSE r.pause) /\ s.lock = r.lock
    BY <1>4, UnpauseRows DEF TypeOK
  <2>2. \A r \in rows : r.pause \in Countdown
    BY DEF TypeOK, JobRow
  <2>3. Uniform'
    BY <1>1, <1>3, <2>1, <2>2, NoLaterEnded, UniformKept
  <2> QED BY <1>1, <1>2, <2>1, <2>3, OrderKeptUnlocked
<1>5. CASE ~ClearPausesOfRows(t)
  <2>1. rows' \subseteq rows
    BY <1>5
    DEF ClearPauses, SelectNone, Finish, GivesUp, PauseInMemory, Throws, Delete, Callback
  <2>2. Uniform'
    BY <1>1, <1>3, <2>1 DEF Uniform, InStep, Calm
  <2> QED BY <1>1, <1>2, <2>1, <2>2, SameRefl, OrderKeptUnlocked
<1> QED BY <1>4, <1>5

LEMMA TickOrder ==
    ASSUME TypeOK, Order, Tick
    PROVE  Order'
<1>1. \A s \in rows' : \E r \in rows :
          Same(r, s) /\ s.pause = Less(r.pause) /\ s.lock = r.lock
  BY TickRows DEF TypeOK
<1>2. \A r \in rows : r.pause \in Countdown
  BY DEF TypeOK, JobRow
<1>3. UNCHANGED <<pc, job, disturbed>>
  BY DEF Tick, thread, history
<1>4. Uniform'
  BY <1>1, <1>2, <1>3, NoLaterLess, UniformKept, GroupWholeParts DEF Order
<1>5. \A g \in Group, u \in Thread : Holds(u, g)' =>
          Holds(u, g) /\ job'[u] = job[u] /\ (pc[u] = "lock" => pc'[u] = "lock")
  BY <1>3 DEF Holds
<1> QED BY <1>1, <1>3, <1>4, <1>5, OrderKeptUnlocked

LEMMA RestartOrder ==
    ASSUME TypeOK, Restart
    PROVE  Order'
<1>1. \A t \in Thread, g \in Group : ~Holds(t, g)'
  BY DEF Restart, Holds
<1>2. rows' \subseteq JobRow /\ \A s \in rows' : s.lock = FALSE /\ s.pause = NULL
  <2>1. rows' \subseteq JobRow /\ \A s \in rows' : ~s.lock /\ s.pause = NULL
    BY RestartRows DEF TypeOK
  <2>2. \A s \in rows' : s.lock \in BOOLEAN
    BY <2>1 DEF JobRow
  <2> QED BY <2>1, <2>2
<1> QED
  BY <1>1, <1>2 DEF Order, GroupWhole, OneAtATime, FirstComeFirstServed, NoLater

LEMMA OrderStep ==
    ASSUME TypeOK, OneLooks, Faithful, Order, [Next]_vars
    PROVE  Order'
<1>1. CASE UNCHANGED <<rows, pc, job, disturbed>>
  BY <1>1 DEF Order, GroupWhole, OneAtATime, FirstComeFirstServed, Holds
<1>2. CASE UNCHANGED vars \/ \E c \in Caller : Ask(c) \/ Register(c)
  BY <1>1, <1>2 DEF vars, Ask, Register, thread, history
<1>3. CASE \E t \in Thread : MainFunction(t)
  BY <1>3, QuietThreadOrder, SelectOrder, LockOrder, PauseOrder, UnlockOrder
  DEF MainFunction
<1> QED
  BY <1>2, <1>3, InsertOrder, TickOrder, RestartOrder DEF Next, AddJob

-----------------------------------------------------------------------------
(* The theorems.                                                           *)

LEMMA Initial == Init => IInv
<1> SUFFICES ASSUME Init PROVE IInv
  OBVIOUS
<1>1. TypeOK
  <2>1. NoRequest \in [job : Nat, sync : Sync, promise : BOOLEAN,
                       pause : Countdown, maxTime : Countdown]
    BY DEF NoRequest, Sync, Countdown
  <2>2. asked \in Seq([sync : Sync, promise : BOOLEAN]) 
    BY EmptySeq DEF Init
  <2> QED BY <2>1, <2>2, NoJobTyped, QueueAssumption DEF Init, TypeOK
<1>2. OneLooks /\ Faithful
  BY DEF Init, OneLooks, Looks, Faithful, Busy
<1>3. Jobs = {}
  BY DEF Init, Jobs
<1>4. NoJobLost
  BY <1>3 DEF NoJobLost
<1>5. Order
  BY DEF Init, Order, GroupWhole, OneAtATime, FirstComeFirstServed, Holds
<1> QED BY <1>1, <1>2, <1>4, <1>5 DEF IInv, Order

LEMMA Step == IInv /\ [Next]_vars => IInv'
BY TypeOKStep, OneLooksStep, FaithfulStep, NoJobLostStep, OrderStep DEF IInv, Order

\* IInv is an invariant: one thread looks at a time, rows and locals agree with
\* what was asked for, and the rows of a group that is not disturbed are locked
\* together and paused from the last one backwards.
THEOREM Inductive == Spec => []IInv
<1> QED BY Initial, Step, PTL DEF Spec

\* getNextIPFSJob, removeIPFSJob and pauseIPFSSync lose no job that is not
\* promised: it keeps its row until a thread is about to call its callback.
THEOREM NoJobLostHolds == Spec => []NoJobLost
<1>1. IInv => NoJobLost
  BY DEF IInv
<1> QED BY <1>1, Inductive, PTL

\* No two threads are at work on one group's jobs, whoever adds jobs and whenever:
\* getNextIPFSJob locks the group, and only who holds it unlocks it.  Only a group
\* that addIPFSJob gave a job in the midst of work is left out, and only until it
\* has come to rest.
THEOREM OneAtATimeHolds == Spec => []OneAtATime
<1>1. IInv => OneAtATime
  BY DEF IInv
<1> QED BY <1>1, Inductive, PTL

\* A group's jobs are begun in the order of their jobIndex, in the same sense: a
\* job that joins a paused group with the pause addIPFSJob read waits its turn.
THEOREM FirstComeFirstServedHolds == Spec => []FirstComeFirstServed
<1>1. IInv => FirstComeFirstServed
  BY DEF IInv
<1> QED BY <1>1, Inductive, PTL

=============================================================================

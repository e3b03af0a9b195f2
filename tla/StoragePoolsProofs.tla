------------------------- MODULE StoragePoolsProofs -------------------------
(***************************************************************************)
(* Proofs about the permanent storage pools (StoragePools).                *)
(***************************************************************************)
EXTENDS StoragePools, FiniteSetTheorems, TLAPS

-----------------------------------------------------------------------------
(* The inductive invariant.                                                *)

Updater == {Analyzer, Keeper}
Entry   == AssetIds \cup File

JobType == [does : {"pin", "unpin", "call"}, cid : Cid, on : Issuance \cup {Nothing}, member : BOOLEAN]
CallbackType == [on : Issuance \cup {Nothing}, member : BOOLEAN, urls : Seq(File), left : Nat, used : Nat,
                 all : BOOLEAN, at : {"start", "urls", "pin", "marked", "done"}]
UpdateType == [on : BOOLEAN, new : SUBSET Entry, now : Entry \cup {Nothing}, gone : SUBSET (Issuance \cup File)]
IssuingType == [on : Issuance \cup {Nothing}, tried : BOOLEAN]

\* The jobs of a queue.
Jobs(q) == {q[k] : k \in 1..Len(q)}

\* The types of what the threads and the queue hold.
HeldInv ==
    /\ queue \in Seq(JobType)
    /\ callback \in [Caller -> CallbackType]
    /\ update \in [Updater -> UpdateType]
    /\ issuing \in IssuingType
    /\ subscribed \in BOOLEAN /\ autoRemoveBad \in BOOLEAN

\* An asset that was issued has a row.
RowsInv ==
    /\ IsFiniteSet(minted) /\ IsFiniteSet(pspFiles)
    /\ \A i \in minted : \E j \in assets : j.index = i.index

Stored == pspFiles \cup published

\* What a callback runs on, and has stored and spent so far.
CallbackOK(c) ==
    IF callback[c].at = "done" THEN callback[c].on = Nothing /\ ~callback[c].member
    ELSE /\ callback[c].on \in minted
         /\ callback[c].at # "start" => callback[c].member
         /\ callback[c].used + callback[c].left = callback[c].on.paid
         /\ callback[c].at = "pin" => callback[c].urls # << >> /\ Head(callback[c].urls) \in Stored
         /\ callback[c].all => \A k \in 1..Len(callback[c].on.urls) :
               callback[c].on.urls[k] \in Stored \cup Jobs(callback[c].urls)

\* The analyzer has no callback to run when it begins one.
CallbackInv == /\ \A c \in Caller : CallbackOK(c)
               /\ issuing.on # Nothing => callback[Analyzer].at = "done"

JobInv == \A job \in Jobs(queue) : IF job.does = "call" THEN job.on \in minted ELSE ~job.member

\* What a thread has of the list: assets that are bad, or a file that is.
UpdateOK(c) ==
    /\ update[c].new \subseteq published /\ update[c].now \in published \cup {Nothing}
    /\ \A x \in update[c].gone :
          IF update[c].now \in AssetIds THEN x \in minted /\ x.asset = update[c].now ELSE x = update[c].now

UpdateInv == issuing.on \in minted \cup {Nothing} /\ \A c \in Updater : UpdateOK(c)

\* Who is on its way into the pool.
OnItsWay(i) == \/ \E job \in Jobs(queue) : job.member /\ job.on = i
               \/ \E c \in Caller : callback[c].member /\ callback[c].on = i

\* Those of an asset found to be bad that are in the pool or on their way are late.
Known == badAssets \cup {update[c].now : c \in Updater}
LateInv == \A i \in minted : i.asset \in Known /\ (i.index \in pspAssets \/ OnItsWay(i)) => i.index \in late

\* What may be unpinned.
Forsaken(f) == f \in published \/ \E i \in minted : i.cid = f /\ i.asset \in published

\* What a subscriber stores is pinned, or will be.
PinnedOrWillBe(f) ==
    \/ Forsaken(f) \/ f \in gaveUp \/ f \in node
    \/ \E job \in Jobs(queue) : job.does = "pin" /\ job.cid = f
    \/ \E c \in Caller : callback[c].at = "pin" /\ Head(callback[c].urls) = f

PinInv ==
    /\ \A job \in Jobs(queue) : job.does = "unpin" => Forsaken(job.cid)
    /\ subscribed => \A f \in pspFiles : PinnedOrWillBe(f)

IInv ==
    /\ PoolTypeOK /\ HeldInv /\ RowsInv /\ CallbackInv /\ JobInv /\ MarkedIsComplete
    /\ UpdateInv /\ LateInv /\ PinInv

-----------------------------------------------------------------------------
(* The queue as the set of its jobs.                                       *)

LEMMA JobsAppend ==
    ASSUME NEW S, NEW q \in Seq(S), NEW e \in S
    PROVE  Append(q, e) \in Seq(S) /\ Jobs(Append(q, e)) = Jobs(q) \cup {e}
<1> DEFINE a == Append(q, e)
<1>1. a \in Seq(S) /\ Len(a) = Len(q) + 1 /\ a[Len(q) + 1] = e /\ \A k \in 1..Len(q) : a[k] = q[k]
  OBVIOUS
<1>2. Len(q) \in Nat
  OBVIOUS
<1> HIDE DEF a
<1>3. \A k \in 1..Len(a) : k = Len(q) + 1 \/ k \in 1..Len(q)
  BY <1>1, <1>2
<1>4. Jobs(a) = Jobs(q) \cup {e}
  <2>1. Jobs(a) \subseteq Jobs(q) \cup {e}
    BY <1>1, <1>3 DEF Jobs
  <2>2. Jobs(q) \subseteq Jobs(a)
    BY <1>1, <1>2 DEF Jobs
  <2>3. e \in Jobs(a)
    BY <1>1, <1>2 DEF Jobs
  <2> QED BY <2>1, <2>2, <2>3
<1> QED BY <1>1, <1>4 DEF a

LEMMA JobsConcat ==
    ASSUME NEW S, NEW q \in Seq(S), NEW r \in Seq(S)
    PROVE  q \o r \in Seq(S) /\ Jobs(q \o r) = Jobs(q) \cup Jobs(r)
<1> DEFINE a == q \o r
<1>1. /\ a \in Seq(S) /\ Len(a) = Len(q) + Len(r) /\ Len(q) \in Nat /\ Len(r) \in Nat
      /\ \A k \in 1..Len(a) : a[k] = IF k <= Len(q) THEN q[k] ELSE r[k - Len(q)]
  OBVIOUS
<1> HIDE DEF a
<1>2. \A k \in 1..Len(a) : k \in 1..Len(q) \/ (k > Len(q) /\ k - Len(q) \in 1..Len(r))
  BY <1>1
<1>3. \A k \in 1..Len(q) : k \in 1..Len(a) /\ a[k] = q[k]
  BY <1>1
<1>4. \A k \in 1..Len(r) : k + Len(q) \in 1..Len(a) /\ a[k + Len(q)] = r[k]
  <2> SUFFICES ASSUME NEW k \in 1..Len(r) PROVE k + Len(q) \in 1..Len(a) /\ a[k + Len(q)] = r[k]
    OBVIOUS
  <2>1. k + Len(q) \in 1..Len(a) /\ ~(k + Len(q) <= Len(q)) /\ (k + Len(q)) - Len(q) = k
    BY <1>1
  <2> QED BY <2>1, <1>1
<1>5. Jobs(a) \subseteq Jobs(q) \cup Jobs(r)
  BY <1>1, <1>2, <1>3 DEF Jobs
<1>6. Jobs(q) \subseteq Jobs(a) /\ Jobs(r) \subseteq Jobs(a)
  BY <1>3, <1>4 DEF Jobs
<1> QED BY <1>1, <1>5, <1>6 DEF a

\* A job is taken out.
LEMMA JobsWithout ==
    ASSUME NEW S, queue \in Seq(S), NEW k \in 1..Len(queue)
    PROVE  /\ Without(k) \in Seq(S) /\ queue[k] \in Jobs(queue)
           /\ Jobs(Without(k)) \subseteq Jobs(queue) /\ Jobs(queue) \subseteq Jobs(Without(k)) \cup {queue[k]}
<1> DEFINE p == SubSeq(queue, 1, k - 1)
           r == SubSeq(queue, k + 1, Len(queue))
<1>1. Len(queue) \in Nat
  OBVIOUS
<1>2. p \in Seq(S) /\ Len(p) = k - 1 /\ \A j \in 1..(k - 1) : p[j] = queue[j]
  BY <1>1
<1>3. r \in Seq(S) /\ Len(r) = Len(queue) - k /\ \A j \in 1..(Len(queue) - k) : r[j] = queue[k + j]
  BY <1>1
<1> HIDE DEF p, r
<1>4. Without(k) = p \o r
  BY DEF Without, p, r
<1>5. p \o r \in Seq(S) /\ Jobs(p \o r) = Jobs(p) \cup Jobs(r)
  BY <1>2, <1>3, JobsConcat
<1>6. Jobs(p) \subseteq Jobs(queue) /\ Jobs(r) \subseteq Jobs(queue)
  <2>1. \A j \in 1..(k - 1) : j \in 1..Len(queue)
    BY <1>1
  <2>2. \A j \in 1..(Len(queue) - k) : k + j \in 1..Len(queue)
    BY <1>1
  <2>3. \A j \in 1..Len(p) : p[j] \in Jobs(queue)
    BY <1>1, <1>2, <2>1 DEF Jobs
  <2>4. \A j \in 1..Len(r) : r[j] \in Jobs(queue)
    BY <1>1, <1>3, <2>2 DEF Jobs
  <2> QED BY <2>3, <2>4 DEF Jobs
<1>7. \A j \in 1..Len(queue) : queue[j] \in Jobs(p) \cup Jobs(r) \cup {queue[k]}
  <2> SUFFICES ASSUME NEW j \in 1..Len(queue) PROVE queue[j] \in Jobs(p) \cup Jobs(r) \cup {queue[k]}
    OBVIOUS
  <2>1. CASE j < k
    BY <2>1, <1>1, <1>2 DEF Jobs
  <2>2. CASE j = k
    BY <2>2
  <2>3. CASE j > k
    <3>1. j - k \in 1..(Len(queue) - k) /\ k + (j - k) = j
      BY <2>3, <1>1
    <3> QED BY <3>1, <1>3 DEF Jobs
  <2> QED BY <2>1, <2>2, <2>3
<1> QED BY <1>4, <1>5, <1>6, <1>7 DEF Jobs

\* What is left of a list of files.
LEMMA JobsTail ==
    ASSUME NEW S, NEW q \in Seq(S), q # << >>
    PROVE  /\ Tail(q) \in Seq(S) /\ Head(q) \in S
           /\ Jobs(q) = Jobs(Tail(q)) \cup {Head(q)}
<1> DEFINE t == Tail(q)
<1>1. /\ t \in Seq(S) /\ Len(t) = Len(q) - 1 /\ Head(q) = q[1] /\ Len(q) \in Nat \ {0}
      /\ \A k \in 1..Len(t) : t[k] = q[k + 1]
  OBVIOUS
<1> HIDE DEF t
<1>2. \A k \in 1..Len(q) : k = 1 \/ k - 1 \in 1..Len(t)
  BY <1>1
<1>3. \A k \in 1..Len(t) : k + 1 \in 1..Len(q)
  BY <1>1
<1>4. Jobs(t) \subseteq Jobs(q) /\ Head(q) \in Jobs(q) /\ Head(q) \in S
  BY <1>1, <1>3 DEF Jobs
<1>5. Jobs(q) \subseteq Jobs(t) \cup {Head(q)}
  <2> SUFFICES ASSUME NEW k \in 1..Len(q) PROVE q[k] \in Jobs(t) \cup {Head(q)}
    BY DEF Jobs
  <2>1. CASE k = 1
    BY <2>1, <1>1
  <2>2. CASE k # 1
    <3>1. k - 1 \in 1..Len(t) /\ (k - 1) + 1 = k
      BY <2>2, <1>2
    <3> QED BY <3>1, <1>1 DEF Jobs
  <2> QED BY <2>1, <2>2
<1> QED BY <1>1, <1>4, <1>5 DEF t

LEMMA JobIsTyped ==
    ASSUME NEW does \in {"pin", "unpin"}, NEW cid \in Cid
    PROVE  /\ Job(does, cid) \in JobType
           /\ Job(does, cid).does = does /\ Job(does, cid).cid = cid /\ Job(does, cid).member = FALSE
  BY DEF Job, JobType

\* The jobs of a start.
LEMMA PinsOfAll ==
    ASSUME NEW cids \in SUBSET Cid, IsFiniteSet(cids)
    PROVE  PinsOf(cids) \in Seq(JobType) /\ Jobs(PinsOf(cids)) = {Job("pin", x) : x \in cids}
<1> DEFINE n == Cardinality(cids)
           P == {Job("pin", x) : x \in cids}
           Lists(s) == s \in [1..n -> P] /\ \A x \in cids : \E k \in DOMAIN s : s[k].cid = x
<1>1. n \in Nat /\ ExistsBijection(1..n, cids)
  BY FS_CardinalityType
<1>2. PICK f \in [1..n -> cids] : \A x \in cids : \E k \in 1..n : f[k] = x
  BY <1>1 DEF ExistsBijection, Bijection, Surjection
<1>3. \A x \in cids : Job("pin", x) \in JobType /\ Job("pin", x).cid = x /\ Job("pin", x).does = "pin"
  BY JobIsTyped
<1> DEFINE g == [k \in 1..n |-> Job("pin", f[k])]
<1>4. Lists(g)
  BY <1>2, <1>3
<1>5. Lists(PinsOf(cids))
  <2>1. \E s \in [1..n -> P] : \A x \in cids : \E k \in DOMAIN s : s[k].cid = x
    BY <1>4
  <2> QED BY <2>1 DEF PinsOf
<1> DEFINE p == PinsOf(cids)
<1> HIDE DEF n, p
<1>6. p \in [1..n -> P] /\ \A x \in cids : \E k \in 1..n : p[k].cid = x
  BY <1>5 DEF p
<1>7. P \subseteq JobType
  BY <1>3
<1>8. p \in Seq(JobType) /\ Len(p) = n
  BY <1>1, <1>6, <1>7 DEF n
<1>9. Jobs(p) = P
  <2>1. Jobs(p) \subseteq P
    BY <1>6, <1>8 DEF Jobs
  <2>2. ASSUME NEW x \in cids PROVE Job("pin", x) \in Jobs(p)
    <3>1. PICK k \in 1..n : p[k].cid = x
      BY <1>6
    <3>2. PICK y \in cids : p[k] = Job("pin", y)
      BY <1>6
    <3>3. y = x
      BY <3>1, <3>2, <1>3
    <3> QED BY <3>2, <3>3, <1>8 DEF Jobs
  <2> QED BY <2>1, <2>2
<1> QED BY <1>8, <1>9 DEF p

-----------------------------------------------------------------------------
(* What stays when more is issued, stored or listed.                       *)

LEMMA CallbackStays ==
    ASSUME NEW c, CallbackOK(c), minted \subseteq minted', Stored \subseteq Stored', callback'[c] = callback[c]
    PROVE  CallbackOK(c)'
  BY DEF CallbackOK

LEMMA ForsakenStays ==
    ASSUME minted \subseteq minted', published \subseteq published'
    PROVE  \A f : Forsaken(f) => Forsaken(f)'
  BY DEF Forsaken

\* A pin that is waiting, or done, for another reason than a callback that is at it.
LEMMA PinStays ==
    ASSUME NEW f, PinnedOrWillBe(f), minted \subseteq minted', published \subseteq published',
           gaveUp \subseteq gaveUp', node \subseteq node', Jobs(queue) \subseteq Jobs(queue'), UNCHANGED callback
    PROVE  PinnedOrWillBe(f)'
  BY ForsakenStays DEF PinnedOrWillBe

\* A step that touches neither the tables, nor the queue, nor a callback, nor the list.
LEMMA QuietKeepsIInv ==
    ASSUME IInv, issuing' \in IssuingType, issuing'.on = issuing.on,
           published \subseteq published', published' \subseteq Entry,
           UNCHANGED <<poolTables, queue, node, badAssets, badFiles, callback, update, config, late, gaveUp>>
    PROVE  IInv'
<1> USE DEF poolTables, config
<1>1. PoolTypeOK' /\ HeldInv' /\ RowsInv'
  BY DEF IInv, PoolTypeOK, HeldInv, RowsInv, Entry
<1>2. Stored \subseteq Stored'
  BY DEF Stored
<1>3. CallbackInv' /\ JobInv'
  BY <1>2, CallbackStays DEF IInv, CallbackInv, JobInv
<1>4. MarkedIsComplete'
  BY DEF IInv, MarkedIsComplete
<1>5. UpdateInv'
  BY DEF IInv, UpdateInv, UpdateOK
<1>6. LateInv'
  BY DEF IInv, LateInv, Known, OnItsWay
<1>7. PinInv'
  BY PinStays, ForsakenStays DEF IInv, PinInv
<1> QED BY <1>1, <1>3, <1>4, <1>5, <1>6, <1>7 DEF IInv

-----------------------------------------------------------------------------
(* The list of what is bad.                                                *)

LEMMA PublishKeepsIInv ==
    ASSUME IInv, NEW x \in Entry, Publish(x)
    PROVE  IInv'
  BY QuietKeepsIInv
     DEF Publish, IInv, HeldInv, PoolTypeOK, Entry, copies, threads, past, poolTables, config, IssuingType

LEMMA GrowOldKeepsIInv ==
    ASSUME IInv, GrowOld
    PROVE  IInv'
  BY QuietKeepsIInv
     DEF GrowOld, IInv, HeldInv, PoolTypeOK, Entry, external, threads, past, poolTables, config, IssuingType

LEMMA FetchFailsKeepsIInv ==
    ASSUME IInv, FetchFails
    PROVE  IInv'
  BY QuietKeepsIInv
     DEF FetchFails, IInv, HeldInv, PoolTypeOK, Entry, external, copies, poolTables, config, Issuing, IssuingType

\* What a thread has of the list after a step.
Has(c, on, new, now, gone) ==
    /\ update' \in [Updater -> UpdateType]
    /\ update'[c].on = on /\ update'[c].new = new /\ update'[c].now = now /\ update'[c].gone = gone
    /\ \A d \in Updater \ {c} : update'[d] = update[d]

LEMMA UpdateHas ==
    ASSUME HeldInv, NEW c \in Updater, NEW on \in BOOLEAN, NEW new \in SUBSET Entry,
           NEW now \in Entry \cup {Nothing}, NEW gone \in SUBSET (Issuance \cup File),
           update' = [update EXCEPT ![c] = Update(on, new, now, gone)]
    PROVE  Has(c, on, new, now, gone)
<1>1. Update(on, new, now, gone) \in UpdateType
  BY DEF Update, UpdateType
<1>2. /\ Update(on, new, now, gone).on = on /\ Update(on, new, now, gone).new = new
      /\ Update(on, new, now, gone).now = now /\ Update(on, new, now, gone).gone = gone
  BY DEF Update
<1>3. /\ update' \in [Updater -> UpdateType] /\ update'[c] = Update(on, new, now, gone)
      /\ \A d \in Updater \ {c} : update'[d] = update[d]
  BY <1>1 DEF HeldInv
<1> QED BY <1>2, <1>3 DEF Has

\* The types of what a thread has.
LEMMA UpdateFields ==
    ASSUME HeldInv, NEW c \in Updater
    PROVE  /\ update[c].on \in BOOLEAN /\ update[c].new \subseteq Entry /\ update[c].now \in Entry \cup {Nothing}
           /\ update[c].gone \subseteq Issuance \cup File
  BY DEF HeldInv, UpdateType

\* A step of a thread that has the list, which adds at most unpins to the queue.
LEMMA ListedKeepsIInv ==
    ASSUME IInv, NEW c \in Updater, NEW on, NEW new, NEW now, NEW gone, Has(c, on, new, now, gone),
           new \subseteq published, now \in published \cup {Nothing},
           \A x \in gone : IF now \in AssetIds THEN x \in minted /\ x.asset = now ELSE x = now,
           issuing' \in IssuingType, issuing'.on = issuing.on,
           badAssets \subseteq badAssets', badAssets' \subseteq AssetIds, badFiles' \subseteq File,
           badAssets' \subseteq badAssets \cup {update[c].now},
           now \in {Nothing, update[c].now},
           \/ UNCHANGED queue
           \/ \E cid \in Cid : Forsaken(cid) /\ AddJob("unpin", cid),
           UNCHANGED <<poolTables, external, callback, config, late, gaveUp>>
    PROVE  IInv'
<1> USE DEF poolTables, config, external
<1>0. PoolTypeOK /\ HeldInv /\ RowsInv /\ CallbackInv /\ JobInv /\ MarkedIsComplete /\ UpdateInv /\ LateInv /\ PinInv
  BY DEF IInv
<1>1. /\ queue' \in Seq(JobType) /\ Jobs(queue) \subseteq Jobs(queue')
      /\ \A job \in Jobs(queue') \ Jobs(queue) : job.does = "unpin" /\ Forsaken(job.cid) /\ job.member = FALSE
  <2>1. CASE UNCHANGED queue
    BY <1>0, <2>1 DEF HeldInv
  <2>2. CASE \E cid \in Cid : Forsaken(cid) /\ AddJob("unpin", cid)
    <3>1. PICK cid \in Cid : Forsaken(cid) /\ AddJob("unpin", cid)
      BY <2>2
    <3>2. /\ Job("unpin", cid) \in JobType /\ Job("unpin", cid).does = "unpin"
          /\ Job("unpin", cid).cid = cid /\ Job("unpin", cid).member = FALSE
      BY JobIsTyped
    <3>3. queue' \in Seq(JobType) /\ Jobs(queue') = Jobs(queue) \cup {Job("unpin", cid)}
      BY <1>0, <3>1, <3>2, JobsAppend DEF HeldInv, AddJob
    <3> QED BY <3>1, <3>2, <3>3
  <2> QED BY <2>1, <2>2
<1>2. update' \in [Updater -> UpdateType]
  BY DEF Has
<1>3. HeldInv' /\ RowsInv'
  BY <1>0, <1>1, <1>2 DEF HeldInv, RowsInv
<1>4. PoolTypeOK'
  <2>1. \A k \in 1..Len(queue') : queue'[k] \in JobType
    BY <1>1
  <2>2. \A k \in 1..Len(queue') : queue'[k].cid \in Cid
    BY <2>1 DEF JobType
  <2> QED BY <1>0, <2>2 DEF PoolTypeOK
<1>5. CallbackInv'
  BY <1>0, CallbackStays DEF CallbackInv, Stored
<1>6. JobInv'
  BY <1>0, <1>1 DEF JobInv
<1>7. MarkedIsComplete'
  BY <1>0 DEF MarkedIsComplete
<1>8. UpdateInv'
  <2>1. UpdateOK(c)'
    BY DEF UpdateOK, Has
  <2>2. \A d \in Updater \ {c} : UpdateOK(d)'
    BY <1>0 DEF UpdateInv, UpdateOK, Has
  <2> QED BY <1>0, <2>1, <2>2 DEF UpdateInv
<1>9. LateInv'
  <2>1. Known' \subseteq Known \cup {Nothing}
    BY DEF Known, Has
  <2>2. \A i \in minted : i.asset # Nothing
    BY <1>0, PoolAssumption DEF PoolTypeOK, AssetIds
  <2>3. \A i : OnItsWay(i)' => OnItsWay(i)
    BY <1>1 DEF OnItsWay
  <2> QED BY <1>0, <2>1, <2>2, <2>3 DEF LateInv
<1>10. PinInv'
  <2>1. \A job \in Jobs(queue') : job.does = "unpin" => Forsaken(job.cid)'
    BY <1>0, <1>1, ForsakenStays DEF PinInv
  <2>2. \A f \in pspFiles : PinnedOrWillBe(f) => PinnedOrWillBe(f)'
    BY <1>1, PinStays
  <2> QED BY <1>0, <2>1, <2>2 DEF PinInv
<1> QED BY <1>3, <1>4, <1>5, <1>6, <1>7, <1>8, <1>9, <1>10 DEF IInv

LEMMA FetchKeepsIInv ==
    ASSUME IInv, NEW c \in Updater, Fetch(c)
    PROVE  IInv'
<1> DEFINE new == published \ (badAssets \cup badFiles)
<1>1. update' = [update EXCEPT ![c] = Update(TRUE, new, Nothing, {})]
  BY DEF Fetch
<1>2. new \in SUBSET Entry /\ new \subseteq published /\ HeldInv
  BY DEF IInv, PoolTypeOK, Entry
<1> HIDE DEF new
<1>3. Has(c, TRUE, new, Nothing, {})
  BY <1>1, <1>2, UpdateHas
<1>4. UNCHANGED <<poolTables, queue, external, copies, callback, issuing, config, late, gaveUp>>
  BY DEF Fetch, past
<1>5. issuing' \in IssuingType /\ issuing'.on = issuing.on
  BY <1>2, <1>4 DEF HeldInv
<1>6. badAssets' = badAssets /\ badFiles' = badFiles /\ badAssets \subseteq AssetIds /\ badFiles \subseteq File
  BY <1>4 DEF copies, IInv, PoolTypeOK
<1> QED
  BY <1>2, <1>3, <1>4, <1>5, <1>6, ListedKeepsIInv DEF Has

LEMMA UpdatedKeepsIInv ==
    ASSUME IInv, NEW c \in Updater, Updated(c)
    PROVE  IInv'
<1>1. HeldInv /\ update' = [update EXCEPT ![c] = Update(FALSE, {}, Nothing, {})]
  BY DEF Updated, NoUpdate, IInv
<1>2. Has(c, FALSE, {}, Nothing, {})
  BY <1>1, UpdateHas
<1>3. issuing' \in IssuingType /\ issuing'.on = issuing.on
  BY <1>1 DEF Updated, Issuing, IssuingType, HeldInv
<1> QED
  BY <1>2, <1>3, ListedKeepsIInv DEF Updated, IInv, PoolTypeOK, past, external

LEMMA RememberKeepsIInv ==
    ASSUME IInv, NEW c \in Updater, Remember(c)
    PROVE  IInv'
<1> DEFINE new == update[c].new \ {update[c].now}
<1>1. HeldInv /\ Left(c, new, Nothing, {}) /\ update[c].new \subseteq published
  BY DEF Remember, IInv, UpdateInv, UpdateOK
<1>2. new \in SUBSET Entry /\ new \subseteq published
  BY <1>1, UpdateFields
<1> HIDE DEF new
<1>3. Has(c, TRUE, new, Nothing, {})
  BY <1>1, <1>2, UpdateHas DEF Left
<1>4. /\ badAssets' = badAssets \cup ({update[c].now} \cap AssetIds)
      /\ badFiles' = badFiles \cup ({update[c].now} \cap File)
      /\ UNCHANGED <<poolTables, queue, external, callback, issuing, config, late, gaveUp>>
  BY DEF Remember, past
<1>5. issuing' \in IssuingType /\ issuing'.on = issuing.on
  BY <1>1, <1>4 DEF HeldInv
<1>6. /\ badAssets \subseteq badAssets' /\ badAssets' \subseteq AssetIds /\ badFiles' \subseteq File
      /\ badAssets' \subseteq badAssets \cup {update[c].now}
  BY <1>4 DEF IInv, PoolTypeOK
<1> QED
  BY <1>2, <1>3, <1>4, <1>5, <1>6, ListedKeepsIInv DEF Has

LEMMA UnpinGoneKeepsIInv ==
    ASSUME IInv, NEW c \in Updater, UnpinGone(c)
    PROVE  IInv'
<1>1. PICK x \in update[c].gone :
        /\ Left(c, update[c].new, update[c].now, update[c].gone \ {x})
        /\ IF update[c].now \in AssetIds
           THEN IF autoRemoveBad /\ x.index \notin pspAssets THEN AddJob("unpin", x.cid) ELSE UNCHANGED queue
           ELSE IF autoRemoveBad /\ x \notin pspFiles THEN AddJob("unpin", x) ELSE UNCHANGED queue
  BY DEF UnpinGone
<1>2. HeldInv /\ UpdateOK(c) /\ issuing \in IssuingType
  BY DEF IInv, UpdateInv, HeldInv
<1>3. /\ update[c].new \subseteq Entry /\ update[c].now \in Entry \cup {Nothing}
      /\ update[c].gone \subseteq Issuance \cup File
  BY <1>2, UpdateFields
<1>4. Has(c, TRUE, update[c].new, update[c].now, update[c].gone \ {x})
  BY <1>1, <1>2, <1>3, UpdateHas DEF Left
<1>5. UNCHANGED queue \/ \E cid \in Cid : Forsaken(cid) /\ AddJob("unpin", cid)
  <2>1. CASE update[c].now \in AssetIds
    <3>1. x \in minted /\ x.asset = update[c].now /\ update[c].now \in published
      BY <1>2, <2>1, PoolAssumption DEF UpdateOK
    <3>2. Forsaken(x.cid) /\ x.cid \in Cid
      BY <3>1 DEF Forsaken, Cid, IInv, PoolTypeOK
    <3> QED BY <1>1, <2>1, <3>2
  <2>2. CASE update[c].now \notin AssetIds
    <3>1. x = update[c].now /\ update[c].now \in published \cup {Nothing}
      BY <1>2, <2>2 DEF UpdateOK
    <3>2. x # Nothing
      BY <1>3, PoolAssumption
    <3>3. Forsaken(x) /\ x \in Cid
      BY <1>3, <2>2, <3>1, <3>2 DEF Forsaken, Cid, Entry
    <3> QED BY <1>1, <2>2, <3>3
  <2> QED BY <2>1, <2>2
<1>6. UNCHANGED <<poolTables, external, copies, callback, issuing, config, late, gaveUp>>
  BY DEF UnpinGone, past
<1>7. \A y \in update[c].gone \ {x} :
        IF update[c].now \in AssetIds THEN y \in minted /\ y.asset = update[c].now ELSE y = update[c].now
  BY <1>2 DEF UpdateOK
<1>8. update[c].new \subseteq published /\ update[c].now \in published \cup {Nothing}
  BY <1>2 DEF UpdateOK
<1>9. badAssets \subseteq AssetIds /\ badFiles \subseteq File
  BY DEF IInv, PoolTypeOK
<1>10. badAssets' = badAssets /\ badFiles' = badFiles /\ issuing' = issuing
  BY <1>6 DEF copies
<1>11. issuing' \in IssuingType /\ issuing'.on = issuing.on
  BY <1>2, <1>10
<1> QED
  BY <1>4, <1>5, <1>6, <1>7, <1>8, <1>9, <1>10, <1>11, ListedKeepsIInv DEF Has

LEMMA ReportKeepsIInv ==
    ASSUME IInv, NEW c \in Updater, NEW x \in Entry, Report(c, x)
    PROVE  IInv'
<1> USE DEF copies, external, config
<1>0. PoolTypeOK /\ HeldInv /\ RowsInv /\ CallbackInv /\ JobInv /\ MarkedIsComplete /\ UpdateInv /\ LateInv /\ PinInv
  BY DEF IInv
<1> DEFINE gone == IF x \in AssetIds THEN MembersOf(x) ELSE {x}
           there == {i.index : i \in MembersOf(x)}
<1>1. /\ update[c].on /\ x \in update[c].new /\ Left(c, update[c].new, x, gone)
      /\ UNCHANGED <<assets, minted, queue, external, copies, callback, issuing, config, gaveUp>>
  BY DEF Report
<1>2. /\ x \in AssetIds => /\ pspAssets' = pspAssets \ there /\ pspFiles' = pspFiles
                           /\ late' = late \cup {i.index : i \in {j \in Promised : j.asset = x}}
      /\ x \notin AssetIds => pspFiles' = pspFiles \ {x} /\ pspAssets' = pspAssets /\ late' = late
  BY DEF Report
<1>3. x \in published /\ update[c].new \subseteq published /\ update[c].new \in SUBSET Entry
  BY <1>0, <1>1, UpdateFields DEF UpdateInv, UpdateOK
<1>4. MembersOf(x) \subseteq minted /\ \A i \in MembersOf(x) : i.asset = x
  BY <1>0 DEF MembersOf, PoolTypeOK
<1>5. gone \in SUBSET (Issuance \cup File)
  BY <1>0, <1>4 DEF Entry, PoolTypeOK
<1>6. \A y \in gone : IF x \in AssetIds THEN y \in minted /\ y.asset = x ELSE y = x
  BY <1>4
<1> HIDE DEF gone
<1>7. Has(c, TRUE, update[c].new, x, gone)
  BY <1>0, <1>1, <1>3, <1>5, UpdateHas DEF Left
<1>8. /\ pspFiles' \subseteq pspFiles /\ pspAssets' \subseteq pspAssets /\ late \subseteq late'
      /\ pspFiles \subseteq pspFiles' \cup {x}
  BY <1>2
<1>9. Stored' = Stored
  BY <1>1, <1>3, <1>8 DEF Stored
<1>10. PoolTypeOK'
  BY <1>0, <1>1, <1>8 DEF PoolTypeOK
<1>11. HeldInv'
  BY <1>0, <1>1, <1>7 DEF HeldInv, Has
<1>12. RowsInv'
  <2>1. IsFiniteSet(pspFiles')
    BY <1>0, <1>8, FS_Subset DEF RowsInv
  <2> QED BY <1>0, <1>1, <2>1 DEF RowsInv
<1>13. CallbackInv' /\ JobInv'
  BY <1>0, <1>1, <1>9, CallbackStays DEF CallbackInv, JobInv
<1>14. MarkedIsComplete'
  <2>1. pspFiles' \cup published' = pspFiles \cup published
    BY <1>9 DEF Stored
  <2> QED BY <1>0, <1>1, <1>8, <2>1 DEF MarkedIsComplete
<1>15. UpdateInv'
  <2>1. UpdateOK(c)'
    BY <1>1, <1>3, <1>6, <1>7 DEF UpdateOK, Has
  <2>2. \A d \in Updater \ {c} : UpdateOK(d)'
    BY <1>0, <1>1, <1>7 DEF UpdateInv, UpdateOK, Has
  <2> QED BY <1>0, <1>1, <2>1, <2>2 DEF UpdateInv
<1>16. LateInv'
  <2> SUFFICES ASSUME NEW i \in minted, i.asset \in Known', (i.index \in pspAssets \/ OnItsWay(i))'
               PROVE  i.index \in late'
    BY <1>1 DEF LateInv
  <2>1. Known' \subseteq Known \cup {x}
    BY <1>1, <1>7 DEF Known, Has
  <2>2. i.index \in pspAssets' \/ OnItsWay(i)
    BY <1>1 DEF OnItsWay
  <2>3. CASE i.asset \in Known
    BY <1>0, <1>8, <2>2, <2>3 DEF LateInv
  <2>4. CASE i.asset = x
    <3>1. i \in Issuance /\ x \in AssetIds
      BY <1>0, <2>4 DEF PoolTypeOK, AssetIds
    <3>2. i.index \notin pspAssets'
      <4>1. PICK j \in assets : j.index = i.index
        BY <1>0 DEF RowsInv
      <4>2. j.asset = x
        BY <1>0, <2>4, <3>1, <4>1, PoolAssumption DEF PoolTypeOK
      <4> QED BY <1>2, <3>1, <4>1, <4>2 DEF MembersOf
    <3>3. OnItsWay(i)
      BY <2>2, <3>2
    <3>4. i \in Promised
      <4>1. CASE \E job \in Jobs(queue) : job.member /\ job.on = i
        BY <4>1 DEF Promised, Jobs
      <4>2. CASE \E d \in Caller : callback[d].member /\ callback[d].on = i
        <5>1. DOMAIN callback = Caller
          BY <1>0 DEF HeldInv
        <5> QED BY <4>2, <5>1 DEF Promised
      <4> QED BY <3>3, <4>1, <4>2 DEF OnItsWay
    <3> QED BY <1>2, <2>4, <3>1, <3>4
  <2> QED BY <2>1, <2>3, <2>4
<1>17. PinInv'
  <2>1. \A f : Forsaken(f) => Forsaken(f)'
    BY <1>1, ForsakenStays
  <2>2. \A f \in pspFiles : PinnedOrWillBe(f) => PinnedOrWillBe(f)'
    BY <1>1, PinStays
  <2> QED BY <1>0, <1>1, <1>8, <2>1, <2>2 DEF PinInv
<1> QED BY <1>10, <1>11, <1>12, <1>13, <1>14, <1>15, <1>16, <1>17 DEF IInv

-----------------------------------------------------------------------------
(* An issuance is processed.                                               *)

LEMMA AddAssetKeepsIInv ==
    ASSUME IInv, NEW i \in Issuance, AddAsset(i)
    PROVE  IInv'
<1>0. PoolTypeOK /\ HeldInv /\ RowsInv /\ CallbackInv /\ JobInv /\ MarkedIsComplete /\ UpdateInv /\ LateInv /\ PinInv
  BY DEF IInv
<1>1. /\ assets' = {j \in assets : j.index # i.index} \cup {i} /\ minted' = minted \cup {i}
      /\ issuing' = Issuing(i, FALSE) /\ callback[Analyzer] = NoCallback
      /\ UNCHANGED <<pspFiles, pspAssets, queue, node, published, badAssets, badFiles, callback, update,
                     subscribed, autoRemoveBad, late, gaveUp>>
  BY DEF AddAsset, external, copies, config
<1>2. issuing' \in IssuingType /\ issuing'.on = i
  BY <1>1 DEF Issuing, IssuingType
<1>3. PoolTypeOK'
  <2>1. \A j \in assets : j \in assets' \/ j.index = i.index
    BY <1>1
  <2>2. pspAssets \subseteq {j.index : j \in assets'}
    BY <1>0, <1>1, <2>1 DEF PoolTypeOK
  <2> QED BY <1>0, <1>1, <2>2 DEF PoolTypeOK
<1>4. HeldInv'
  BY <1>0, <1>1, <1>2 DEF HeldInv
<1>5. RowsInv'
  <2>1. IsFiniteSet(minted')
    BY <1>0, <1>1, FS_AddElement DEF RowsInv
  <2>2. \A m \in minted' : \E j \in assets' : j.index = m.index
    BY <1>0, <1>1 DEF RowsInv
  <2> QED BY <1>0, <1>1, <2>1, <2>2 DEF RowsInv
<1>6. CallbackInv'
  <2>1. \A c \in Caller : CallbackOK(c)'
    BY <1>0, <1>1, CallbackStays DEF CallbackInv, Stored
  <2>2. callback'[Analyzer].at = "done"
    BY <1>1 DEF NoCallback
  <2> QED BY <2>1, <2>2 DEF CallbackInv
<1>7. JobInv' /\ MarkedIsComplete'
  BY <1>0, <1>1 DEF JobInv, MarkedIsComplete
<1>8. UpdateInv'
  BY <1>0, <1>1, <1>2 DEF UpdateInv, UpdateOK
<1>9. LateInv'
  <2> SUFFICES ASSUME NEW m \in minted', m.asset \in Known', (m.index \in pspAssets \/ OnItsWay(m))'
               PROVE  m.index \in late
    BY <1>1 DEF LateInv
  <2>1. m.asset \in Known /\ (m.index \in pspAssets \/ OnItsWay(m)) /\ m \in Issuance
    BY <1>0, <1>1 DEF Known, OnItsWay, PoolTypeOK
  <2>2. CASE OnItsWay(m)
    <3>1. m # Nothing
      BY <2>1, PoolAssumption
    <3>2. m \in minted
      BY <1>0, <2>2, <3>1 DEF OnItsWay, JobInv, CallbackInv, CallbackOK
    <3> QED BY <1>0, <2>1, <3>2 DEF LateInv
  <2>3. CASE m.index \in pspAssets
    <3>1. PICK j \in minted : j.index = m.index /\ j \in Issuance
      BY <1>0, <2>3 DEF PoolTypeOK
    <3>2. j.asset = m.asset
      BY <2>1, <3>1, PoolAssumption
    <3> QED BY <1>0, <2>1, <2>3, <3>1, <3>2 DEF LateInv
  <2> QED BY <2>1, <2>2, <2>3
<1>10. PinInv'
  <2>1. \A f : Forsaken(f) => Forsaken(f)'
    BY <1>1, ForsakenStays
  <2>2. \A f \in pspFiles : PinnedOrWillBe(f) => PinnedOrWillBe(f)'
    BY <1>1, PinStays
  <2> QED BY <1>0, <1>1, <2>1, <2>2 DEF PinInv
<1> QED BY <1>3, <1>4, <1>5, <1>6, <1>7, <1>8, <1>9, <1>10 DEF IInv

\* What a thread's callback is about after a step.
Runs(c, on, member, urls, left, used, all, at) ==
    /\ callback' \in [Caller -> CallbackType]
    /\ callback'[c].on = on /\ callback'[c].member = member /\ callback'[c].urls = urls
    /\ callback'[c].left = left /\ callback'[c].used = used /\ callback'[c].all = all /\ callback'[c].at = at
    /\ \A d \in Caller \ {c} : callback'[d] = callback[d]

\* An issuance's callback starts.
LEMMA StartingRuns ==
    ASSUME HeldInv, NEW c \in Caller, NEW i \in Issuance, NEW member \in BOOLEAN, Starting(c, i, member)
    PROVE  Runs(c, i, member, i.urls, i.paid, 0, TRUE, "start")
<1> DEFINE cb == [on |-> i, member |-> member, urls |-> i.urls, left |-> i.paid, used |-> 0,
                  all |-> TRUE, at |-> "start"]
<1>1. cb \in CallbackType
  BY PoolAssumption DEF CallbackType
<1>2. /\ cb.on = i /\ cb.member = member /\ cb.urls = i.urls /\ cb.left = i.paid /\ cb.used = 0
      /\ cb.all = TRUE /\ cb.at = "start"
  OBVIOUS
<1>3. callback' = [callback EXCEPT ![c] = cb]
  BY DEF Starting
<1> HIDE DEF cb
<1>4. /\ callback' \in [Caller -> CallbackType] /\ callback'[c] = cb
      /\ \A d \in Caller \ {c} : callback'[d] = callback[d]
  BY <1>1, <1>3 DEF HeldInv
<1> QED BY <1>2, <1>4 DEF Runs

LEMMA StartingOK ==
    ASSUME HeldInv, NEW c \in Caller, NEW i \in Issuance, i \in minted, NEW member \in BOOLEAN,
           Starting(c, i, member), UNCHANGED minted
    PROVE  CallbackOK(c)'
<1>1. Runs(c, i, member, i.urls, i.paid, 0, TRUE, "start")
  BY StartingRuns
<1>2. i.paid \in Nat /\ \A k \in 1..Len(i.urls) : i.urls[k] \in Jobs(i.urls)
  BY PoolAssumption DEF Jobs
<1> QED BY <1>1, <1>2 DEF CallbackOK, Runs

LEMMA CallbackFields ==
    ASSUME HeldInv, NEW c \in Caller
    PROVE  /\ callback[c].on \in Issuance \cup {Nothing} /\ callback[c].member \in BOOLEAN
           /\ callback[c].urls \in Seq(File) /\ callback[c].left \in Nat /\ callback[c].used \in Nat
           /\ callback[c].all \in BOOLEAN /\ callback[c].at \in {"start", "urls", "pin", "marked", "done"}
  BY DEF HeldInv, CallbackType

LEMMA ProcessKeepsIInv ==
    ASSUME IInv, ProcessNewMetaData
    PROVE  IInv'
<1> USE DEF copies, external, config, poolTables
<1>0. PoolTypeOK /\ HeldInv /\ RowsInv /\ CallbackInv /\ JobInv /\ MarkedIsComplete /\ UpdateInv /\ LateInv /\ PinInv
  BY DEF IInv
<1> DEFINE i == issuing.on
           member == ~IsAssetBad(i) /\ i.paid > 0
<1>1. /\ i # Nothing /\ issuing' = Issuing(Nothing, FALSE)
      /\ late' = IF member /\ \E c \in DOMAIN update : update[c].now = i.asset THEN late \cup {i.index} ELSE late
      /\ UNCHANGED <<assets, minted, pspFiles, pspAssets, node, published, badAssets, badFiles, update,
                     subscribed, autoRemoveBad, gaveUp>>
  BY DEF ProcessNewMetaData, NotIssuing
<1>2. \/ Starting(Analyzer, i, member) /\ UNCHANGED queue
      \/ queue' = Append(queue, CallWith(i, member)) /\ UNCHANGED callback
  BY DEF ProcessNewMetaData
<1>3. i \in minted /\ i \in Issuance /\ member \in BOOLEAN /\ Analyzer \in Caller
  BY <1>0, <1>1 DEF UpdateInv, PoolTypeOK, Caller
<1>4. issuing' \in IssuingType /\ issuing'.on = Nothing
  BY <1>1 DEF Issuing, IssuingType
<1>5. late \subseteq late'
  BY <1>1
<1>6. member /\ i.asset \in Known => i.index \in late'
  <2>1. \A c \in Updater : c \in DOMAIN update
    BY <1>0 DEF HeldInv
  <2> QED BY <1>1, <2>1 DEF Known, IsAssetBad
<1> HIDE DEF member
<1>7. /\ queue' \in Seq(JobType) /\ Jobs(queue) \subseteq Jobs(queue')
      /\ \A job \in Jobs(queue') \ Jobs(queue) : job.does = "call" /\ job.on = i /\ job.member = member
  <2>1. CASE UNCHANGED queue
    BY <1>0, <2>1 DEF HeldInv
  <2>2. CASE queue' = Append(queue, CallWith(i, member))
    <3>1. /\ CallWith(i, member).does = "call" /\ CallWith(i, member).on = i
          /\ CallWith(i, member).member = member
      BY DEF CallWith
    <3>2. CallWith(i, member) \in JobType
      BY <1>3 DEF CallWith, JobType, Cid
    <3>3. queue' \in Seq(JobType) /\ Jobs(queue') = Jobs(queue) \cup {CallWith(i, member)}
      BY <1>0, <2>2, <3>2, JobsAppend DEF HeldInv
    <3> QED BY <3>1, <3>3
  <2> QED BY <1>2, <2>1, <2>2
<1>8. /\ callback' \in [Caller -> CallbackType] /\ \A c \in Caller \ {Analyzer} : callback'[c] = callback[c]
      /\ \/ UNCHANGED callback
         \/ callback'[Analyzer].on = i /\ callback'[Analyzer].member = member /\ CallbackOK(Analyzer)'
  <2>1. CASE UNCHANGED callback
    BY <1>0, <2>1 DEF HeldInv
  <2>2. CASE Starting(Analyzer, i, member)
    <3>1. Runs(Analyzer, i, member, i.urls, i.paid, 0, TRUE, "start")
      BY <1>0, <1>3, <2>2, StartingRuns DEF Runs
    <3>2. CallbackOK(Analyzer)'
      BY <1>0, <1>1, <1>3, <2>2, StartingOK
    <3> QED BY <3>1, <3>2 DEF Runs
  <2> QED BY <1>2, <2>1, <2>2
<1>9. PoolTypeOK'
  <2>1. \A k \in 1..Len(queue') : queue'[k] \in JobType
    BY <1>7
  <2>2. \A k \in 1..Len(queue') : queue'[k].cid \in Cid
    BY <2>1 DEF JobType
  <2> QED BY <1>0, <1>1, <2>2 DEF PoolTypeOK
<1>10. HeldInv' /\ RowsInv'
  BY <1>0, <1>1, <1>4, <1>7, <1>8 DEF HeldInv, RowsInv
<1>11. CallbackInv'
  <2>1. \A c \in Caller : callback'[c] = callback[c] => CallbackOK(c)'
    BY <1>0, <1>1, CallbackStays DEF CallbackInv, Stored
  <2> QED BY <1>4, <1>8, <2>1 DEF CallbackInv
<1>12. JobInv'
  BY <1>0, <1>1, <1>3, <1>7 DEF JobInv
<1>13. MarkedIsComplete' /\ UpdateInv'
  BY <1>0, <1>1, <1>4 DEF MarkedIsComplete, UpdateInv, UpdateOK
<1>14. LateInv'
  <2> SUFFICES ASSUME NEW m \in minted, m.asset \in Known, m.index \in pspAssets \/ OnItsWay(m)'
               PROVE  m.index \in late'
    BY <1>1 DEF LateInv, Known
  <2>1. OnItsWay(m)' => OnItsWay(m) \/ (m = i /\ member)
    BY <1>7, <1>8 DEF OnItsWay
  <2> QED BY <1>0, <1>5, <1>6, <2>1 DEF LateInv
<1>15. PinInv'
  <2>1. \A f : Forsaken(f) => Forsaken(f)'
    BY <1>1, ForsakenStays
  <2>2. \A c \in Caller : callback[c].at = "pin" => callback'[c] = callback[c]
    BY <1>0, <1>1, <1>8 DEF CallbackInv
  <2>3. \A f \in pspFiles : PinnedOrWillBe(f) => PinnedOrWillBe(f)'
    BY <1>1, <1>7, <2>1, <2>2 DEF PinnedOrWillBe
  <2>4. \A job \in Jobs(queue') : job.does = "unpin" => Forsaken(job.cid)'
    BY <1>0, <1>7, <2>1 DEF PinInv
  <2> QED BY <1>0, <1>1, <2>3, <2>4 DEF PinInv
<1> QED BY <1>9, <1>10, <1>11, <1>12, <1>13, <1>14, <1>15 DEF IInv

-----------------------------------------------------------------------------
(* A callback.                                                             *)

\* A step of a callback: it goes on or ends, may have a file pinned and stored, and may mark
\* the asset.
LEMMA StepKeepsIInv ==
    ASSUME IInv, NEW c \in Caller, callback[c].at # "done",
           callback' \in [Caller -> CallbackType], \A d \in Caller \ {c} : callback'[d] = callback[d],
           CallbackOK(c)', callback'[c].member => callback[c].member /\ callback'[c].on = callback[c].on,
           UNCHANGED queue \/ \E cid \in Cid : AddJob("pin", cid),
           pspFiles \subseteq pspFiles', pspFiles' \subseteq File, IsFiniteSet(pspFiles'),
           pspAssets \subseteq pspAssets',
           \A x \in pspAssets' \ pspAssets :
              /\ callback[c].member /\ x = callback[c].on.index
              /\ \A k \in 1..Len(callback[c].on.urls) : callback[c].on.urls[k] \in Stored,
           \A f \in File : /\ subscribed
                           /\ \/ f \in pspFiles' \ pspFiles
                              \/ callback[c].at = "pin" /\ f = Head(callback[c].urls)
                           => PinnedOrWillBe(f)',
           UNCHANGED <<assets, minted, external, copies, update, issuing, config, late, gaveUp>>
    PROVE  IInv'
<1> USE DEF copies, external, config
<1>0. PoolTypeOK /\ HeldInv /\ RowsInv /\ CallbackInv /\ JobInv /\ MarkedIsComplete /\ UpdateInv /\ LateInv /\ PinInv
  BY DEF IInv
<1>1. /\ queue' \in Seq(JobType) /\ Jobs(queue) \subseteq Jobs(queue')
      /\ \A job \in Jobs(queue') \ Jobs(queue) : job.does = "pin" /\ job.member = FALSE
  <2>1. CASE UNCHANGED queue
    BY <1>0, <2>1 DEF HeldInv
  <2>2. CASE \E cid \in Cid : AddJob("pin", cid)
    <3>1. PICK cid \in Cid : AddJob("pin", cid)
      BY <2>2
    <3>2. Job("pin", cid) \in JobType /\ Job("pin", cid).does = "pin" /\ Job("pin", cid).member = FALSE
      BY JobIsTyped
    <3>3. queue' \in Seq(JobType) /\ Jobs(queue') = Jobs(queue) \cup {Job("pin", cid)}
      BY <1>0, <3>1, <3>2, JobsAppend DEF HeldInv, AddJob
    <3> QED BY <3>2, <3>3
  <2> QED BY <2>1, <2>2
<1>2. callback[c].on \in minted /\ callback[c].on \in Issuance
  BY <1>0 DEF CallbackInv, CallbackOK, PoolTypeOK
<1>3. PoolTypeOK'
  <2>1. \A k \in 1..Len(queue') : queue'[k] \in JobType
    BY <1>1
  <2>2. \A k \in 1..Len(queue') : queue'[k].cid \in Cid
    BY <2>1 DEF JobType
  <2>3. \E j \in assets : j.index = callback[c].on.index
    BY <1>0, <1>2 DEF RowsInv
  <2>4. pspAssets' \subseteq {j.index : j \in assets}
    BY <1>0, <2>3 DEF PoolTypeOK
  <2> QED BY <1>0, <2>2, <2>4 DEF PoolTypeOK
<1>4. HeldInv' /\ RowsInv'
  BY <1>0, <1>1 DEF HeldInv, RowsInv
<1>5. CallbackInv'
  <2>1. \A d \in Caller \ {c} : CallbackOK(d)'
    BY <1>0, CallbackStays DEF CallbackInv, Stored
  <2>2. issuing.on # Nothing => callback'[Analyzer].at = "done"
    BY <1>0 DEF CallbackInv, Caller
  <2> QED BY <2>1, <2>2 DEF CallbackInv
<1>6. JobInv'
  BY <1>0, <1>1 DEF JobInv
<1>7. MarkedIsComplete'
  <2> SUFFICES ASSUME NEW x \in pspAssets'
               PROVE  \E i \in minted : i.index = x /\ \A k \in 1..Len(i.urls) : i.urls[k] \in Stored'
    BY DEF MarkedIsComplete, Stored
  <2>1. Stored \subseteq Stored'
    BY DEF Stored
  <2>2. CASE x \in pspAssets
    <3>1. PICK i \in minted : i.index = x /\ \A k \in 1..Len(i.urls) : i.urls[k] \in Stored
      BY <1>0, <2>2 DEF MarkedIsComplete, Stored
    <3> QED BY <2>1, <3>1
  <2>3. CASE x \notin pspAssets
    BY <1>2, <2>1, <2>3
  <2> QED BY <2>2, <2>3
<1>8. UpdateInv'
  BY <1>0 DEF UpdateInv, UpdateOK
<1>9. LateInv'
  <2> SUFFICES ASSUME NEW m \in minted, m.asset \in Known, m.index \in pspAssets' \/ OnItsWay(m)'
               PROVE  m.index \in late
    BY DEF LateInv, Known
  <2>1. OnItsWay(m)' => OnItsWay(m)
    BY <1>1 DEF OnItsWay
  <2>2. CASE m.index \in pspAssets' \ pspAssets
    <3>1. callback[c].member /\ m.index = callback[c].on.index
      BY <2>2
    <3>2. OnItsWay(callback[c].on)
      BY <3>1 DEF OnItsWay
    <3>3. m.asset = callback[c].on.asset
      BY <1>0, <1>2, <3>1, PoolAssumption DEF PoolTypeOK
    <3> QED BY <1>0, <1>2, <3>1, <3>2, <3>3 DEF LateInv
  <2> QED BY <1>0, <2>1, <2>2 DEF LateInv
<1>10. PinInv'
  <2>1. \A f : Forsaken(f) => Forsaken(f)'
    BY ForsakenStays
  <2>2. ASSUME NEW f \in pspFiles, subscribed, PinnedOrWillBe(f) PROVE PinnedOrWillBe(f)'
    <3>1. CASE callback[c].at = "pin" /\ Head(callback[c].urls) = f
      <4>1. f \in File
        BY <1>0 DEF PoolTypeOK
      <4> QED BY <2>2, <3>1, <4>1
    <3>2. CASE ~(callback[c].at = "pin" /\ Head(callback[c].urls) = f)
      BY <1>1, <2>1, <2>2, <3>2 DEF PinnedOrWillBe
    <3> QED BY <3>1, <3>2
  <2>3. \A job \in Jobs(queue') : job.does = "unpin" => Forsaken(job.cid)'
    BY <1>0, <1>1, <2>1 DEF PinInv
  <2> QED BY <1>0, <2>2, <2>3 DEF PinInv
<1> QED BY <1>3, <1>4, <1>5, <1>6, <1>7, <1>8, <1>9, <1>10 DEF IInv

\* A callback ends.
LEMMA NoCallbackRuns ==
    ASSUME HeldInv, NEW c \in Caller, callback' = [callback EXCEPT ![c] = NoCallback]
    PROVE  /\ callback' \in [Caller -> CallbackType] /\ \A d \in Caller \ {c} : callback'[d] = callback[d]
           /\ callback'[c].at = "done" /\ callback'[c].on = Nothing /\ callback'[c].member = FALSE
           /\ CallbackOK(c)'
<1>1. NoCallback \in CallbackType
  BY DEF NoCallback, CallbackType
<1>2. NoCallback.at = "done" /\ NoCallback.on = Nothing /\ NoCallback.member = FALSE
  BY DEF NoCallback
<1>3. /\ callback' \in [Caller -> CallbackType] /\ callback'[c] = NoCallback
      /\ \A d \in Caller \ {c} : callback'[d] = callback[d]
  BY <1>1 DEF HeldInv
<1> QED BY <1>2, <1>3 DEF CallbackOK

LEMMA EndsKeepsIInv ==
    ASSUME IInv, NEW c \in Caller, callback[c].at \in {"start", "urls", "marked"},
           callback' = [callback EXCEPT ![c] = NoCallback],
           UNCHANGED queue \/ \E cid \in Cid : AddJob("pin", cid),
           UNCHANGED <<poolTables, external, copies, update, issuing, config, late, gaveUp>>
    PROVE  IInv'
<1>1. HeldInv /\ IsFiniteSet(pspFiles) /\ pspFiles \subseteq File
  BY DEF IInv, RowsInv, PoolTypeOK
<1>2. /\ callback' \in [Caller -> CallbackType] /\ \A d \in Caller \ {c} : callback'[d] = callback[d]
      /\ callback'[c].at = "done" /\ callback'[c].on = Nothing /\ callback'[c].member = FALSE
      /\ CallbackOK(c)'
  BY <1>1, NoCallbackRuns
<1>3. UNCHANGED <<assets, minted, pspFiles, pspAssets>>
  BY DEF poolTables
<1> QED BY <1>1, <1>2, <1>3, StepKeepsIInv

LEMMA PinSmallKeepsIInv ==
    ASSUME IInv, NEW c \in Caller, PinSmall(c)
    PROVE  IInv'
<1>1. HeldInv /\ callback[c].at = "start" /\ CallbackOK(c)
  BY DEF PinSmall, In, IInv, CallbackInv
<1>2. callback[c].on \in minted /\ callback[c].on \in Issuance
  BY <1>1 DEF CallbackOK, IInv, PoolTypeOK
<1>3. UNCHANGED queue \/ \E cid \in Cid : AddJob("pin", cid)
  BY <1>2 DEF PinSmall, Cid
<1>4. UNCHANGED <<poolTables, external, copies, update, issuing, config, late, gaveUp>>
  BY DEF PinSmall, past
<1>5. CASE callback[c].member
  <2>1. callback' = [callback EXCEPT ![c].at = "urls"]
    BY <1>5 DEF PinSmall
  <2>2. /\ callback' \in [Caller -> CallbackType] /\ \A d \in Caller \ {c} : callback'[d] = callback[d]
        /\ callback'[c].at = "urls" /\ callback'[c].on = callback[c].on
        /\ callback'[c].member = callback[c].member /\ callback'[c].urls = callback[c].urls
        /\ callback'[c].left = callback[c].left /\ callback'[c].used = callback[c].used
        /\ callback'[c].all = callback[c].all
    BY <1>1, <2>1 DEF HeldInv, CallbackType
  <2>3. UNCHANGED <<assets, minted, pspFiles, pspAssets, published>>
    BY <1>4 DEF poolTables, external
  <2>4. CallbackOK(c)'
    BY <1>1, <1>5, <2>2, <2>3 DEF CallbackOK, Stored
  <2>5. IsFiniteSet(pspFiles) /\ pspFiles \subseteq File
    BY DEF IInv, RowsInv, PoolTypeOK
  <2> QED BY <1>1, <1>3, <1>4, <2>2, <2>3, <2>4, <2>5, StepKeepsIInv
<1>6. CASE ~callback[c].member
  BY <1>1, <1>3, <1>4, <1>6, EndsKeepsIInv DEF PinSmall
<1> QED BY <1>5, <1>6

LEMMA AdmitKeepsIInv ==
    ASSUME IInv, NEW c \in Caller, Admit(c)
    PROVE  IInv'
<1>1. /\ HeldInv /\ callback[c].at = "urls" /\ CallbackOK(c) /\ callback[c].urls # << >>
      /\ SizeOf[Url(c)] <= callback[c].left /\ pspFiles' = pspFiles \cup {Url(c)}
      /\ callback' = [callback EXCEPT ![c].left = @ - SizeOf[Url(c)], ![c].used = @ + SizeOf[Url(c)], ![c].at = "pin"]
  BY DEF Admit, In, IInv, CallbackInv
<1>2. UNCHANGED <<assets, minted, pspAssets, queue, external, copies, update, issuing, config, late, gaveUp>>
  BY DEF Admit, past
<1>3. /\ callback[c].left \in Nat /\ callback[c].used \in Nat /\ Url(c) \in File
      /\ Url(c) = Head(callback[c].urls)
  BY <1>1, CallbackFields, JobsTail DEF Url
<1>4. SizeOf[Url(c)] \in Nat
  BY <1>3, PoolAssumption
<1>5. callback[c].left - SizeOf[Url(c)] \in Nat /\ callback[c].used + SizeOf[Url(c)] \in Nat
  BY <1>1, <1>3, <1>4
<1>6. /\ callback' \in [Caller -> CallbackType] /\ \A d \in Caller \ {c} : callback'[d] = callback[d]
      /\ callback'[c].at = "pin" /\ callback'[c].on = callback[c].on
      /\ callback'[c].member = callback[c].member /\ callback'[c].urls = callback[c].urls
      /\ callback'[c].left = callback[c].left - SizeOf[Url(c)]
      /\ callback'[c].used = callback[c].used + SizeOf[Url(c)]
      /\ callback'[c].all = callback[c].all
  BY <1>1, <1>5 DEF HeldInv, CallbackType
<1>7. Stored \subseteq Stored' /\ Url(c) \in Stored'
  BY <1>1, <1>2 DEF Stored, external
<1>8. callback'[c].used + callback'[c].left = callback[c].used + callback[c].left
  BY <1>3, <1>4, <1>6
<1>9. CallbackOK(c)'
  <2>1. /\ callback[c].on \in minted /\ callback[c].member
        /\ callback[c].used + callback[c].left = callback[c].on.paid
        /\ callback[c].all => \A k \in 1..Len(callback[c].on.urls) :
              callback[c].on.urls[k] \in Stored \cup Jobs(callback[c].urls)
    BY <1>1 DEF CallbackOK
  <2>2. callback'[c].on \in minted' /\ callback'[c].member
    BY <1>2, <1>6, <2>1
  <2>3. callback'[c].used + callback'[c].left = callback'[c].on.paid
    BY <1>6, <1>8, <2>1
  <2>4. callback'[c].urls # << >> /\ Head(callback'[c].urls) \in Stored'
    BY <1>1, <1>3, <1>6, <1>7
  <2>5. callback'[c].all => \A k \in 1..Len(callback'[c].on.urls) :
              callback'[c].on.urls[k] \in Stored' \cup Jobs(callback'[c].urls)
    BY <1>6, <1>7, <2>1
  <2> HIDE DEF Stored
  <2> QED BY <1>6, <2>2, <2>3, <2>4, <2>5 DEF CallbackOK
<1>10. IsFiniteSet(pspFiles') /\ pspFiles' \subseteq File /\ pspFiles \subseteq pspFiles'
  BY <1>1, <1>3, FS_AddElement DEF IInv, RowsInv, PoolTypeOK
<1>11. \A f \in pspFiles' \ pspFiles : PinnedOrWillBe(f)'
  BY <1>1, <1>3, <1>6 DEF PinnedOrWillBe
<1> QED BY <1>1, <1>2, <1>6, <1>9, <1>10, <1>11, StepKeepsIInv

LEMMA PinFileKeepsIInv ==
    ASSUME IInv, NEW c \in Caller, PinFile(c)
    PROVE  IInv'
<1>1. /\ HeldInv /\ callback[c].at = "pin" /\ CallbackOK(c)
      /\ IF subscribed THEN AddJob("pin", Url(c)) ELSE UNCHANGED queue
      /\ callback' = [callback EXCEPT ![c].urls = Tail(@), ![c].at = "urls"]
  BY DEF PinFile, In, IInv, CallbackInv
<1>2. UNCHANGED <<poolTables, external, copies, update, issuing, config, late, gaveUp>>
  BY DEF PinFile, past
<1>3. callback[c].urls # << >> /\ callback[c].urls \in Seq(File) /\ Head(callback[c].urls) \in Stored
  BY <1>1, CallbackFields DEF CallbackOK
<1>4. /\ Tail(callback[c].urls) \in Seq(File) /\ Url(c) \in File /\ Url(c) = Head(callback[c].urls)
      /\ Jobs(callback[c].urls) = Jobs(Tail(callback[c].urls)) \cup {Head(callback[c].urls)}
  BY <1>3, JobsTail DEF Url
<1>5. /\ callback' \in [Caller -> CallbackType] /\ \A d \in Caller \ {c} : callback'[d] = callback[d]
      /\ callback'[c].at = "urls" /\ callback'[c].on = callback[c].on
      /\ callback'[c].member = callback[c].member /\ callback'[c].urls = Tail(callback[c].urls)
      /\ callback'[c].left = callback[c].left /\ callback'[c].used = callback[c].used
      /\ callback'[c].all = callback[c].all
  BY <1>1, <1>4 DEF HeldInv, CallbackType
<1>6. UNCHANGED <<assets, minted, pspFiles, pspAssets, published, subscribed>> /\ Stored' = Stored
  BY <1>2 DEF poolTables, external, config, Stored
<1>7. CallbackOK(c)'
  BY <1>1, <1>3, <1>4, <1>5, <1>6 DEF CallbackOK
<1>8. UNCHANGED queue \/ \E cid \in Cid : AddJob("pin", cid)
  BY <1>1, <1>4 DEF Cid
<1>9. subscribed => \E job \in Jobs(queue') : job.does = "pin" /\ job.cid = Url(c)
  <2> SUFFICES ASSUME subscribed PROVE \E job \in Jobs(queue') : job.does = "pin" /\ job.cid = Url(c)
    OBVIOUS
  <2>1. /\ Job("pin", Url(c)) \in JobType /\ Job("pin", Url(c)).does = "pin"
        /\ Job("pin", Url(c)).cid = Url(c)
    BY <1>4, JobIsTyped DEF Cid
  <2>2. queue \in Seq(JobType) /\ queue' = Append(queue, Job("pin", Url(c)))
    BY <1>1 DEF HeldInv, AddJob
  <2> DEFINE job == Job("pin", Url(c))
  <2> HIDE DEF job
  <2>3. job \in JobType /\ queue' = Append(queue, job) /\ job.does = "pin" /\ job.cid = Url(c)
    BY <2>1, <2>2 DEF job
  <2>4. Jobs(queue') = Jobs(queue) \cup {job}
    BY <2>2, <2>3, JobsAppend
  <2> QED BY <2>3, <2>4
<1>10. \A f \in File : subscribed /\ f = Head(callback[c].urls) => PinnedOrWillBe(f)'
  BY <1>4, <1>9 DEF PinnedOrWillBe
<1>11. IsFiniteSet(pspFiles) /\ pspFiles \subseteq File
  BY DEF IInv, RowsInv, PoolTypeOK
<1> QED BY <1>1, <1>2, <1>5, <1>6, <1>7, <1>8, <1>10, <1>11, StepKeepsIInv

LEMMA PassKeepsIInv ==
    ASSUME IInv, NEW c \in Caller, Pass(c)
    PROVE  IInv'
<1>1. /\ HeldInv /\ callback[c].at = "urls" /\ CallbackOK(c) /\ callback[c].urls # << >>
      /\ callback' = [callback EXCEPT ![c].urls = Tail(@), ![c].all = FALSE]
  BY DEF Pass, In, IInv, CallbackInv
<1>2. UNCHANGED <<poolTables, queue, external, copies, update, issuing, config, late, gaveUp>>
  BY DEF Pass, past
<1>3. Tail(callback[c].urls) \in Seq(File)
  BY <1>1, CallbackFields, JobsTail
<1>4. /\ callback' \in [Caller -> CallbackType] /\ \A d \in Caller \ {c} : callback'[d] = callback[d]
      /\ callback'[c].at = "urls" /\ callback'[c].on = callback[c].on
      /\ callback'[c].member = callback[c].member
      /\ callback'[c].left = callback[c].left /\ callback'[c].used = callback[c].used
      /\ callback'[c].all = FALSE
  BY <1>1, <1>3 DEF HeldInv, CallbackType
<1>5. UNCHANGED <<assets, minted, pspFiles, pspAssets>>
  BY <1>2 DEF poolTables
<1>6. CallbackOK(c)'
  BY <1>1, <1>4, <1>5 DEF CallbackOK
<1>7. IsFiniteSet(pspFiles) /\ pspFiles \subseteq File
  BY DEF IInv, RowsInv, PoolTypeOK
<1> QED BY <1>1, <1>2, <1>4, <1>5, <1>6, <1>7, StepKeepsIInv

LEMMA MarkKeepsIInv ==
    ASSUME IInv, NEW c \in Caller, Mark(c)
    PROVE  IInv'
<1>1. HeldInv /\ callback[c].at = "urls" /\ CallbackOK(c) /\ callback[c].urls = << >>
  BY DEF Mark, In, IInv, CallbackInv
<1>2. UNCHANGED <<assets, minted, pspFiles, queue, external, copies, update, issuing, config, late, gaveUp>>
  BY DEF Mark, past
<1>3. CASE callback[c].all
  <2>1. /\ pspAssets' = pspAssets \cup {callback[c].on.index}
        /\ callback' = [callback EXCEPT ![c].at = "marked"]
    BY <1>3 DEF Mark
  <2>2. /\ callback' \in [Caller -> CallbackType] /\ \A d \in Caller \ {c} : callback'[d] = callback[d]
        /\ callback'[c].at = "marked" /\ callback'[c].on = callback[c].on
        /\ callback'[c].member = callback[c].member /\ callback'[c].urls = callback[c].urls
        /\ callback'[c].left = callback[c].left /\ callback'[c].used = callback[c].used
        /\ callback'[c].all = callback[c].all
    BY <1>1, <2>1 DEF HeldInv, CallbackType
  <2>3. CallbackOK(c)'
    BY <1>1, <1>2, <2>2 DEF CallbackOK, Stored, external
  <2>4. Jobs(callback[c].urls) = {}
    BY <1>1 DEF Jobs
  <2>5. callback[c].member /\ \A k \in 1..Len(callback[c].on.urls) : callback[c].on.urls[k] \in Stored
    BY <1>1, <1>3, <2>4 DEF CallbackOK
  <2>6. IsFiniteSet(pspFiles) /\ pspFiles \subseteq File
    BY DEF IInv, RowsInv, PoolTypeOK
  <2> QED BY <1>1, <1>2, <2>1, <2>2, <2>3, <2>5, <2>6, StepKeepsIInv
<1>4. CASE ~callback[c].all
  BY <1>1, <1>2, <1>4, EndsKeepsIInv DEF Mark, poolTables
<1> QED BY <1>3, <1>4

LEMMA PinMetadataKeepsIInv ==
    ASSUME IInv, NEW c \in Caller, PinMetadata(c)
    PROVE  IInv'
<1>1. callback[c].at = "marked" /\ callback[c].on \in Issuance
  BY DEF PinMetadata, In, IInv, CallbackInv, CallbackOK, PoolTypeOK
<1>2. UNCHANGED queue \/ \E cid \in Cid : AddJob("pin", cid)
  BY <1>1 DEF PinMetadata, Cid
<1>3. /\ UNCHANGED <<poolTables, external, copies, update, issuing, config, late, gaveUp>>
      /\ callback' = [callback EXCEPT ![c] = NoCallback]
  BY DEF PinMetadata, past
<1> QED BY <1>1, <1>2, <1>3, EndsKeepsIInv

LEMMA ThrowsKeepsIInv ==
    ASSUME IInv, NEW c \in Caller, CallbackThrows(c)
    PROVE  IInv'
<1>1. /\ callback[c].at = "urls" /\ callback' = [callback EXCEPT ![c] = NoCallback]
      /\ UNCHANGED <<poolTables, queue, external, copies, update, issuing, config, late, gaveUp>>
  BY DEF CallbackThrows, In
<1> QED BY <1>1, EndsKeepsIInv

-----------------------------------------------------------------------------
(* The IPFS queue.                                                         *)

\* A job that is not a call is done, or given up.
LEMMA GoneKeepsIInv ==
    ASSUME IInv, NEW k \in 1..Len(queue), queue' = Without(k), node' \subseteq Cid,
           \A f \in File : PinnedOrWillBe(f) => PinnedOrWillBe(f)',
           UNCHANGED <<poolTables, published, copies, threads, config, late>>
    PROVE  IInv'
<1> USE DEF copies, threads, config, poolTables
<1>0. PoolTypeOK /\ HeldInv /\ RowsInv /\ CallbackInv /\ JobInv /\ MarkedIsComplete /\ UpdateInv /\ LateInv /\ PinInv
  BY DEF IInv
<1>1. queue' \in Seq(JobType) /\ Jobs(queue') \subseteq Jobs(queue)
  BY <1>0, JobsWithout DEF HeldInv
<1>2. PoolTypeOK'
  <2>1. \A j \in 1..Len(queue') : queue'[j] \in JobType
    BY <1>1
  <2>2. \A j \in 1..Len(queue') : queue'[j].cid \in Cid
    BY <2>1 DEF JobType
  <2> QED BY <1>0, <2>2 DEF PoolTypeOK
<1>3. HeldInv' /\ RowsInv'
  BY <1>0, <1>1 DEF HeldInv, RowsInv
<1>4. CallbackInv' /\ JobInv'
  BY <1>0, <1>1, CallbackStays DEF CallbackInv, JobInv, Stored
<1>5. MarkedIsComplete' /\ UpdateInv'
  BY <1>0 DEF MarkedIsComplete, UpdateInv, UpdateOK
<1>6. LateInv'
  BY <1>0, <1>1 DEF LateInv, Known, OnItsWay
<1>7. PinInv'
  <2>1. \A f : Forsaken(f) => Forsaken(f)'
    BY ForsakenStays
  <2>2. \A job \in Jobs(queue') : job.does = "unpin" => Forsaken(job.cid)'
    BY <1>0, <1>1, <2>1 DEF PinInv
  <2> QED BY <1>0, <2>2 DEF PinInv, PoolTypeOK
<1> QED BY <1>2, <1>3, <1>4, <1>5, <1>6, <1>7 DEF IInv

LEMMA DoneKeepsIInv ==
    ASSUME IInv, NEW w \in Worker, Done(w)
    PROVE  IInv'
<1>1. PICK k \in 1..Len(queue) :
        /\ queue[k].does # "call"
        /\ node' = IF queue[k].does = "pin" THEN node \cup {queue[k].cid} ELSE node \ {queue[k].cid}
        /\ queue' = Without(k)
  BY DEF Done
<1>2. UNCHANGED <<poolTables, published, copies, threads, config, late, gaveUp>> /\ UNCHANGED callback
  BY DEF Done, past, threads
<1>3. queue \in Seq(JobType) /\ node \subseteq Cid /\ \A job \in Jobs(queue) : job.does = "unpin" => Forsaken(job.cid)
  BY DEF IInv, HeldInv, PoolTypeOK, PinInv
<1>4. queue[k] \in JobType /\ queue[k] \in Jobs(queue) /\ Jobs(queue) \subseteq Jobs(queue') \cup {queue[k]}
  BY <1>1, <1>3, JobsWithout
<1>5. node' \subseteq Cid
  <2>1. queue[k].cid \in Cid
    BY <1>4 DEF JobType
  <2> QED BY <1>1, <1>3, <2>1
<1>6. ASSUME NEW f \in File, PinnedOrWillBe(f) PROVE PinnedOrWillBe(f)'
  <2>1. Forsaken(f) => Forsaken(f)'
    BY <1>2, ForsakenStays DEF poolTables
  <2>2. CASE f \in node /\ f \notin node'
    <3>1. queue[k].does = "unpin" /\ queue[k].cid = f
      BY <1>1, <1>4, <2>2 DEF JobType
    <3> QED BY <1>3, <1>4, <2>1, <3>1 DEF PinnedOrWillBe
  <2>3. CASE \E job \in Jobs(queue) : job.does = "pin" /\ job.cid = f
    <3>1. PICK job \in Jobs(queue) : job.does = "pin" /\ job.cid = f
      BY <2>3
    <3>2. CASE job = queue[k]
      BY <1>1, <3>1, <3>2 DEF PinnedOrWillBe
    <3>3. CASE job # queue[k]
      BY <1>4, <3>1, <3>3 DEF PinnedOrWillBe
    <3> QED BY <3>2, <3>3
  <2> QED BY <1>2, <1>6, <2>1, <2>2, <2>3 DEF PinnedOrWillBe
<1> QED BY <1>1, <1>2, <1>5, <1>6, GoneKeepsIInv

LEMMA PinFailsKeepsIInv ==
    ASSUME IInv, NEW w \in Worker, PinFails(w)
    PROVE  IInv'
<1>1. PICK k \in 1..Len(queue) : gaveUp' = gaveUp \cup {queue[k].cid} /\ queue' = Without(k)
  BY DEF PinFails
<1>2. UNCHANGED <<poolTables, external, copies, threads, config, late>> /\ UNCHANGED <<node, published, callback>>
  BY DEF PinFails, threads, external
<1>3. Jobs(queue) \subseteq Jobs(queue') \cup {queue[k]}
  BY <1>1, JobsWithout DEF IInv, HeldInv
<1>4. ASSUME NEW f \in File, PinnedOrWillBe(f) PROVE PinnedOrWillBe(f)'
  <2>1. Forsaken(f) => Forsaken(f)'
    BY <1>2, ForsakenStays DEF poolTables
  <2> QED BY <1>1, <1>2, <1>3, <1>4, <2>1 DEF PinnedOrWillBe
<1>5. node' \subseteq Cid
  BY <1>2 DEF IInv, PoolTypeOK
<1> QED BY <1>1, <1>2, <1>4, <1>5, GoneKeepsIInv

LEMMA AnswerKeepsIInv ==
    ASSUME IInv, NEW w \in Worker, Answer(w)
    PROVE  IInv'
<1> USE DEF copies, external, config, poolTables
<1>0. PoolTypeOK /\ HeldInv /\ RowsInv /\ CallbackInv /\ JobInv /\ MarkedIsComplete /\ UpdateInv /\ LateInv /\ PinInv
  BY DEF IInv
<1>1. PICK k \in 1..Len(queue) :
        /\ queue[k].does = "call" /\ Starting(w, queue[k].on, queue[k].member) /\ queue' = Without(k)
  BY DEF Answer
<1>2. /\ callback[w] = NoCallback
      /\ UNCHANGED <<poolTables, external, copies, update, issuing, config, late, gaveUp>>
  BY DEF Answer, past
<1>3. /\ queue[k] \in JobType /\ queue[k] \in Jobs(queue) /\ queue' \in Seq(JobType)
      /\ Jobs(queue') \subseteq Jobs(queue) /\ Jobs(queue) \subseteq Jobs(queue') \cup {queue[k]}
  BY <1>0, <1>1, JobsWithout DEF HeldInv
<1>4. w \in Caller /\ w # Analyzer /\ callback[w].at = "done"
  BY <1>2, PoolAssumption DEF Caller, NoCallback
<1>5. PICK i \in minted, member \in BOOLEAN : i = queue[k].on /\ member = queue[k].member
  BY <1>0, <1>1, <1>3 DEF JobInv, JobType
<1>6. i \in Issuance /\ Starting(w, i, member)
  BY <1>0, <1>1, <1>5 DEF PoolTypeOK
<1>7. /\ callback' \in [Caller -> CallbackType] /\ \A d \in Caller \ {w} : callback'[d] = callback[d]
      /\ callback'[w].on = i /\ callback'[w].member = member
  <2>1. Runs(w, i, member, i.urls, i.paid, 0, TRUE, "start")
    BY <1>0, <1>4, <1>6, StartingRuns
  <2> QED BY <2>1 DEF Runs
<1>8. CallbackOK(w)'
  BY <1>0, <1>2, <1>4, <1>6, StartingOK
<1>9. PoolTypeOK'
  <2>1. \A j \in 1..Len(queue') : queue'[j] \in JobType
    BY <1>3
  <2>2. \A j \in 1..Len(queue') : queue'[j].cid \in Cid
    BY <2>1 DEF JobType
  <2> QED BY <1>0, <1>2, <2>2 DEF PoolTypeOK
<1>10. HeldInv' /\ RowsInv'
  BY <1>0, <1>2, <1>3, <1>7 DEF HeldInv, RowsInv
<1>11. CallbackInv'
  <2>1. \A d \in Caller \ {w} : CallbackOK(d)'
    BY <1>0, <1>2, <1>7, CallbackStays DEF CallbackInv, Stored
  <2>2. issuing.on # Nothing => callback'[Analyzer].at = "done"
    BY <1>0, <1>4, <1>7 DEF CallbackInv, Caller
  <2> QED BY <1>2, <1>8, <2>1, <2>2 DEF CallbackInv
<1>12. JobInv'
  BY <1>0, <1>2, <1>3 DEF JobInv
<1>13. MarkedIsComplete' /\ UpdateInv'
  BY <1>0, <1>2 DEF MarkedIsComplete, UpdateInv, UpdateOK
<1>14. LateInv'
  <2>1. \A m : OnItsWay(m)' => OnItsWay(m)
    BY <1>3, <1>5, <1>7 DEF OnItsWay
  <2> QED BY <1>0, <1>2, <2>1 DEF LateInv, Known
<1>15. PinInv'
  <2>1. \A f : Forsaken(f) => Forsaken(f)'
    BY <1>2, ForsakenStays
  <2>2. \A job \in Jobs(queue) : job.does = "pin" => job \in Jobs(queue')
    BY <1>1, <1>3
  <2>3. \A f \in pspFiles : PinnedOrWillBe(f) => PinnedOrWillBe(f)'
    BY <1>2, <1>4, <1>7, <2>1, <2>2 DEF PinnedOrWillBe
  <2>4. \A job \in Jobs(queue') : job.does = "unpin" => Forsaken(job.cid)'
    BY <1>0, <1>3, <2>1 DEF PinInv
  <2> QED BY <1>0, <1>2, <2>3, <2>4 DEF PinInv
<1> QED BY <1>9, <1>10, <1>11, <1>12, <1>13, <1>14, <1>15 DEF IInv

-----------------------------------------------------------------------------
(* A start.                                                                *)

\* Nobody runs anything.
LEMMA StoppedThreads ==
    ASSUME callback' = [c \in Caller |-> NoCallback], update' = [c \in Updater |-> NoUpdate],
           issuing' = NotIssuing
    PROVE  /\ callback' \in [Caller -> CallbackType] /\ update' \in [Updater -> UpdateType]
           /\ issuing' \in IssuingType /\ issuing'.on = Nothing
           /\ \A c \in Caller : CallbackOK(c)' /\ callback'[c].member = FALSE /\ callback'[c].at = "done"
           /\ \A c \in Updater : UpdateOK(c)'
           /\ Known' \subseteq badAssets' \cup {Nothing}
<1>1. /\ NoCallback \in CallbackType
      /\ NoCallback.at = "done" /\ NoCallback.on = Nothing /\ NoCallback.member = FALSE
  BY DEF NoCallback, CallbackType
<1>2. /\ NoUpdate \in UpdateType
      /\ NoUpdate.new = {} /\ NoUpdate.now = Nothing /\ NoUpdate.gone = {}
  BY DEF NoUpdate, Update, UpdateType
<1>3. issuing' \in IssuingType /\ issuing'.on = Nothing
  BY DEF NotIssuing, Issuing, IssuingType
<1>4. \A c \in Caller : callback'[c] = NoCallback
  OBVIOUS
<1>5. \A c \in Updater : update'[c] = NoUpdate
  OBVIOUS
<1>6. \A c \in Caller : CallbackOK(c)'
  BY <1>1, <1>4 DEF CallbackOK
<1>7. \A c \in Updater : UpdateOK(c)'
  BY <1>2, <1>5 DEF UpdateOK
<1>8. Known' \subseteq badAssets' \cup {Nothing}
  BY <1>2, <1>5 DEF Known
<1> QED BY <1>1, <1>2, <1>3, <1>4, <1>6, <1>7, <1>8

LEMMA InitIInv == PoolInit => IInv
<1> SUFFICES ASSUME PoolInit PROVE IInv
  OBVIOUS
<1> USE DEF PoolInit
<1>1. /\ NoCallback \in CallbackType
      /\ NoCallback.at = "done" /\ NoCallback.on = Nothing /\ NoCallback.member = FALSE
  BY DEF NoCallback, CallbackType
<1>2. /\ NoUpdate \in UpdateType
      /\ NoUpdate.new = {} /\ NoUpdate.now = Nothing /\ NoUpdate.gone = {}
  BY DEF NoUpdate, Update, UpdateType
<1>3. issuing \in IssuingType /\ issuing.on = Nothing
  BY DEF NotIssuing, Issuing, IssuingType
<1>4. callback \in [Caller -> CallbackType] /\ \A c \in Caller : callback[c] = NoCallback
  BY <1>1
<1>5. update \in [Updater -> UpdateType] /\ \A c \in Updater : update[c] = NoUpdate
  BY <1>2 DEF Updater
<1>6. queue \in Seq(JobType) /\ Jobs(queue) = {} /\ Len(queue) = 0
  BY DEF Jobs
<1>7. subscribed \in BOOLEAN /\ autoRemoveBad \in BOOLEAN
  BY PoolAssumption
<1>8. PoolTypeOK
  BY <1>6 DEF PoolTypeOK
<1>9. HeldInv
  BY <1>3, <1>4, <1>5, <1>6, <1>7 DEF HeldInv
<1>10. RowsInv
  BY FS_EmptySet DEF RowsInv
<1>11. CallbackInv /\ JobInv
  BY <1>1, <1>3, <1>4, <1>6 DEF CallbackInv, CallbackOK, JobInv
<1>12. MarkedIsComplete /\ LateInv /\ PinInv
  BY <1>6 DEF MarkedIsComplete, LateInv, PinInv
<1>13. UpdateInv
  BY <1>2, <1>3, <1>5 DEF UpdateInv, UpdateOK
<1> QED BY <1>8, <1>9, <1>10, <1>11, <1>12, <1>13 DEF IInv

LEMMA StartAnewKeepsIInv ==
    ASSUME IInv, StartAnew
    PROVE  IInv'
<1> USE DEF external, config, poolTables
<1>0. PoolTypeOK /\ HeldInv /\ RowsInv /\ CallbackInv /\ JobInv /\ MarkedIsComplete /\ UpdateInv /\ LateInv /\ PinInv
  BY DEF IInv
<1> DEFINE cids == {i.cid : i \in assets}
<1>1. /\ badAssets' = {} /\ badFiles' = {}
      /\ callback' = [c \in Caller |-> NoCallback] /\ update' = [c \in Updater |-> NoUpdate]
      /\ issuing' = NotIssuing
  BY DEF StartAnew, Stopped, Updater
<1>2. /\ UNCHANGED <<assets, minted, pspFiles, pspAssets, node, published, subscribed, autoRemoveBad>>
      /\ queue' = IF subscribed THEN queue \o PinsOf(cids) \o PinsOf(pspFiles) ELSE queue
  BY DEF StartAnew
<1>3. /\ callback' \in [Caller -> CallbackType] /\ update' \in [Updater -> UpdateType]
      /\ issuing' \in IssuingType /\ issuing'.on = Nothing
      /\ \A c \in Caller : CallbackOK(c)' /\ callback'[c].member = FALSE /\ callback'[c].at = "done"
      /\ \A c \in Updater : UpdateOK(c)'
      /\ Known' \subseteq badAssets' \cup {Nothing}
  BY <1>1, StoppedThreads
<1>4. cids \in SUBSET Cid /\ IsFiniteSet(cids) /\ pspFiles \in SUBSET Cid /\ IsFiniteSet(pspFiles)
  <2>1. IsFiniteSet(assets)
    BY <1>0, FS_Subset DEF RowsInv, PoolTypeOK
  <2>2. IsFiniteSet(cids)
    <3> DEFINE f == [i \in assets |-> i.cid]
    <3>1. f \in [assets -> cids] /\ \A x \in cids : \E i \in assets : f[i] = x
      OBVIOUS
    <3> HIDE DEF f
    <3>2. f \in Surjection(assets, cids)
      BY <3>1 DEF Surjection
    <3> QED BY <2>1, <3>2, FS_Surjection
  <2> QED BY <1>0, <2>2 DEF PoolTypeOK, RowsInv, Cid
<1> HIDE DEF cids
<1>5. /\ queue' \in Seq(JobType)
      /\ \A job \in Jobs(queue') : job \in Jobs(queue) \/ (job.does = "pin" /\ job.member = FALSE)
      /\ subscribed => \A f \in pspFiles : \E job \in Jobs(queue') : job.does = "pin" /\ job.cid = f
  <2>1. CASE ~subscribed
    BY <1>0, <1>2, <2>1 DEF HeldInv
  <2>2. CASE subscribed
    <3>1. PinsOf(cids) \in Seq(JobType) /\ Jobs(PinsOf(cids)) = {Job("pin", x) : x \in cids}
      BY <1>4, PinsOfAll
    <3>2. PinsOf(pspFiles) \in Seq(JobType) /\ Jobs(PinsOf(pspFiles)) = {Job("pin", x) : x \in pspFiles}
      BY <1>4, PinsOfAll
    <3> DEFINE p == PinsOf(cids)
               r == PinsOf(pspFiles)
    <3>3. p \in Seq(JobType) /\ r \in Seq(JobType) /\ queue \in Seq(JobType) /\ queue' = (queue \o p) \o r
      BY <1>0, <1>2, <2>2, <3>1, <3>2 DEF HeldInv
    <3> HIDE DEF p, r
    <3> DEFINE m == queue \o p
    <3>4. m \in Seq(JobType) /\ Jobs(m) = Jobs(queue) \cup Jobs(p) /\ queue' = m \o r
      BY <3>3, JobsConcat
    <3> HIDE DEF m
    <3>5. m \o r \in Seq(JobType) /\ Jobs(m \o r) = Jobs(m) \cup Jobs(r)
      BY <3>3, <3>4, JobsConcat
    <3>6. queue' \in Seq(JobType) /\ Jobs(queue') = Jobs(queue) \cup Jobs(p) \cup Jobs(r)
      BY <3>3, <3>4, <3>5
    <3>7. \A x \in cids \cup pspFiles :
             Job("pin", x).does = "pin" /\ Job("pin", x).cid = x /\ Job("pin", x).member = FALSE
      BY <1>4, JobIsTyped
    <3>8. \A job \in Jobs(p) \cup Jobs(r) : job.does = "pin" /\ job.member = FALSE
      BY <3>1, <3>2, <3>7 DEF p, r
    <3>9. \A f \in pspFiles : \E job \in Jobs(r) : job.does = "pin" /\ job.cid = f
      BY <3>2, <3>7 DEF r
    <3> QED BY <3>6, <3>8, <3>9
  <2> QED BY <2>1, <2>2
<1>6. PoolTypeOK'
  <2>1. \A j \in 1..Len(queue') : queue'[j] \in JobType
    BY <1>5
  <2>2. \A j \in 1..Len(queue') : queue'[j].cid \in Cid
    BY <2>1 DEF JobType
  <2> QED BY <1>0, <1>1, <1>2, <2>2 DEF PoolTypeOK
<1>7. HeldInv' /\ RowsInv'
  BY <1>0, <1>2, <1>3, <1>5 DEF HeldInv, RowsInv
<1>8. CallbackInv'
  BY <1>3 DEF CallbackInv
<1>9. JobInv'
  BY <1>0, <1>2, <1>5 DEF JobInv
<1>10. MarkedIsComplete' /\ UpdateInv'
  BY <1>0, <1>2, <1>3 DEF MarkedIsComplete, UpdateInv
<1>11. LateInv'
  <2>1. \A i \in minted : i.asset # Nothing
    BY <1>0, PoolAssumption DEF PoolTypeOK, AssetIds
  <2> QED BY <1>1, <1>2, <1>3, <2>1 DEF LateInv
<1>12. PinInv'
  <2>1. \A f : Forsaken(f) => Forsaken(f)'
    BY <1>2, ForsakenStays
  <2>2. \A job \in Jobs(queue') : job.does = "unpin" => Forsaken(job.cid)'
    BY <1>0, <1>5, <2>1 DEF PinInv
  <2>3. subscribed => \A f \in pspFiles : PinnedOrWillBe(f)'
    BY <1>5 DEF PinnedOrWillBe
  <2> QED BY <1>2, <2>2, <2>3 DEF PinInv
<1> QED BY <1>6, <1>7, <1>8, <1>9, <1>10, <1>11, <1>12 DEF IInv

-----------------------------------------------------------------------------

LEMMA NextIInv == IInv /\ [PoolNext]_poolVars => IInv'
<1> SUFFICES ASSUME IInv, [PoolNext]_poolVars PROVE IInv'
  OBVIOUS
<1>1. CASE UNCHANGED poolVars
  <2>1. /\ UNCHANGED <<poolTables, queue, node, badAssets, badFiles, callback, update, config, late, gaveUp>>
        /\ UNCHANGED <<issuing, published>>
    BY <1>1 DEF poolVars, external, copies, threads, past
  <2>2. issuing \in IssuingType /\ published \subseteq Entry
    BY DEF IInv, HeldInv, PoolTypeOK, Entry
  <2> QED BY <2>1, <2>2, QuietKeepsIInv
<1>2. CASE \E x \in AssetIds \cup File : Publish(x)
  BY <1>2, PublishKeepsIInv DEF Entry
<1>3. CASE GrowOld \/ FetchFails
  BY <1>3, GrowOldKeepsIInv, FetchFailsKeepsIInv
<1>4. CASE \E c \in {Analyzer, Keeper} : UpdateStep(c)
  <2>1. PICK c \in Updater : UpdateStep(c)
    BY <1>4 DEF Updater
  <2>2. CASE \E x \in Entry : Report(c, x)
    BY <2>2, ReportKeepsIInv
  <2>3. CASE Fetch(c) \/ UnpinGone(c) \/ Remember(c) \/ Updated(c)
    BY <2>3, FetchKeepsIInv, UnpinGoneKeepsIInv, RememberKeepsIInv, UpdatedKeepsIInv
  <2> QED BY <2>1, <2>2, <2>3 DEF UpdateStep, Entry
<1>5. CASE \E i \in Issuance : AddAsset(i)
  BY <1>5, AddAssetKeepsIInv
<1>6. CASE ProcessNewMetaData
  BY <1>6, ProcessKeepsIInv
<1>7. CASE \E c \in Caller : CallbackStep(c)
  BY <1>7, PinSmallKeepsIInv, AdmitKeepsIInv, PinFileKeepsIInv, PassKeepsIInv, MarkKeepsIInv,
     PinMetadataKeepsIInv, ThrowsKeepsIInv DEF CallbackStep
<1>8. CASE \E w \in Worker : Answer(w) \/ Done(w) \/ PinFails(w)
  BY <1>8, AnswerKeepsIInv, DoneKeepsIInv, PinFailsKeepsIInv
<1>9. CASE StartAnew
  BY <1>9, StartAnewKeepsIInv
<1> QED BY <1>1, <1>2, <1>3, <1>4, <1>5, <1>6, <1>7, <1>8, <1>9 DEF PoolNext

LEMMA IInvHolds == PoolSpec => []IInv
<1> QED BY InitIInv, NextIInv, PTL DEF PoolSpec

\* What the tables say of an asset is what was stored and paid for: an asset is part
\* of the pool only if all the files of metadata it was issued with were put into the
\* table, and no callback stores more than was paid for, whatever the files, the
\* issuances, the threads, and wherever callbacks and the process are cut off.
THEOREM PoolHolds == PoolSpec => []PoolInv
<1>1. IInv => PoolInv
  <2> SUFFICES ASSUME IInv PROVE PoolInv
    OBVIOUS
  <2>1. ASSUME NEW c \in Caller, callback[c].on # Nothing PROVE callback[c].used <= callback[c].on.paid
    <3>1. HeldInv /\ CallbackOK(c) /\ callback[c].left \in Nat /\ callback[c].used \in Nat
      BY CallbackFields DEF IInv, CallbackInv
    <3>2. callback[c].used + callback[c].left = callback[c].on.paid
      BY <2>1, <3>1 DEF CallbackOK
    <3> QED BY <3>1, <3>2
  <2> QED BY <2>1 DEF IInv, PoolInv, WithinPayment
<1> QED BY <1>1, IInvHolds, PTL

\* What a subscriber stores is pinned once the jobs are done, for every number of
\* threads and of ends of the process: unless the pin timed out, or the file, or an
\* asset with it as metadata, turned out bad.
THEOREM PinnedHolds == PoolSpec => []StoredIsPinned
<1>1. IInv => StoredIsPinned
  <2> SUFFICES ASSUME IInv, subscribed, queue = << >>, \A c \in Caller : callback[c] = NoCallback,
                      NEW f \in pspFiles \ (published \cup gaveUp)
               PROVE  f \in node \/ \E i \in minted : i.cid = f /\ i.asset \in published
    BY DEF StoredIsPinned
  <2>1. PinnedOrWillBe(f)
    BY DEF IInv, PinInv
  <2>2. Jobs(queue) = {} /\ \A c \in Caller : callback[c].at # "pin"
    BY DEF Jobs, NoCallback
  <2> QED BY <2>1, <2>2 DEF PinnedOrWillBe, Forsaken
<1> QED BY <1>1, IInvHolds, PTL

\* An asset known to be bad is part of the pool only if its metadata was on its way
\* when that became known, whichever of the two threads learned it and when.
THEOREM BadHolds == PoolSpec => []BadIsOut
<1>1. IInv => BadIsOut
  BY DEF IInv, BadIsOut, LateInv, Known, PoolTypeOK
<1> QED BY <1>1, IInvHolds, PTL
=============================================================================

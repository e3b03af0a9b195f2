------------------------------ MODULE Domains ------------------------------
(***************************************************************************)
(* DigiByte domains (DigiByteDomain.cpp; tables domains, domainsMasters).  *)
(*                                                                         *)
(* A master asset carries the list of all domains in its metadata, and may *)
(* name the next master.  An issuance of a master queues a job of the IPFS *)
(* group DIGIBYTEDOMAIN; once the metadata is there a thread of that queue *)
(* compares it with the tables and writes what changed, each statement     *)
(* being committed by itself.  A domain whose asset changed means that the *)
(* list was tampered with: the master "" is appointed and from then on     *)
(* domains are compromised.                                                *)
(*                                                                         *)
(* Abstractions                                                            *)
(*   - The job queue (module IpfsQueue) is a sequence: its jobs are taken  *)
(*     in order and are removed before their callback runs, so two threads *)
(*     can be in the callback, and what a dead process had taken is lost.  *)
(*   - A rewind does not touch these tables; that the analyzer processes   *)
(*     an issuance again is an issuance like any other.                    *)
(*   - The loop over the list reads the tables entry by entry; here it is  *)
(*     one step, so with several threads another callback writes before or *)
(*     after the whole loop.                                               *)
(*   - Metadata is well formed and has a valid CID.  A member "next" names *)
(*     an asset: an empty one would appoint "" like the list tampered with.*)
(***************************************************************************)
EXTENDS Integers, Sequences, FiniteSets

CONSTANTS
    Domain,      \* names of domains
    Asset,       \* asset ids
    Root,        \* the master the tables are built with
    EMPTY, NONE, \* the asset id "", and no member "next"
    Metadata,    \* what a master's metadata may say: [dns, next]
    Thread,      \* threads of the IPFS queue
    MaxIssued,   \* bound: issuances
    MaxRestarts  \* bound: ends of the process

Id == Asset \cup {EMPTY}

\* What is listed of some domains.
Lists(what) == UNION {[S -> what] : S \in SUBSET Domain}

ASSUME DomainAssumption ==
    /\ Root \in Asset /\ EMPTY \notin Asset /\ NONE \notin Id
    /\ \A m \in Metadata : m.dns \in Lists(Id) /\ m.next \in Asset \cup {NONE}
    /\ IsFiniteSet(Thread)
    /\ MaxIssued \in Nat /\ MaxRestarts \in Nat

VARIABLES
    domains,   \* table "domains", in the order of insertion
    masters,   \* table "domainsMasters"
    ram,       \* _masterDomainAssetId: the ids in it, and the last one
    jobs,      \* metadata to be handled
    parallel,  \* the threads that run: the program's configuration
    pc, work,  \* where each is in _callbackNewMetadata, and its vectors
    issued,    \* what was issued (history)
    followed,  \* what the metadata that callbacks were called with, one after the
               \* other and each at once, makes of an empty list (history)
    cut,       \* did a process die in a callback (history)
    restarts

tables == <<domains, masters, ram>>
thread == <<pc, work>>
history == <<issued, followed, cut>>
domainVars == <<tables, jobs, parallel, thread, history, restarts>>

Work(dns, next) == [new |-> {}, revoked |-> {}, dns |-> dns, next |-> next]
NoWork == Work(<< >>, NONE)

-----------------------------------------------------------------------------
(* Database.cpp.                                                           *)

Rows(d) == {k \in 1..Len(domains) : domains[k].domain = d}

Known(d) == Rows(d) # {}

\* getDomainAssetId: the first row that matches.
First(d) == CHOOSE k \in Rows(d) : \A l \in Rows(d) : k <= l
OwnerOf(d) == domains[First(d)].assetId

IsMaster(a) == a \in ram.ids
IsCompromised == ram.last = EMPTY

\* What initializeClassValues makes of the table: those that are not active,
\* then the last that is, or "".
Active(table) == {k \in 1..Len(table) : table[k].active}
LastActive(table) ==
    IF Active(table) = {} THEN EMPTY
    ELSE table[CHOOSE k \in Active(table) : \A l \in Active(table) : l <= k].assetId
Loaded(table) ==
    [ids  |-> {table[k].assetId : k \in 1..Len(table) \ Active(table)} \cup {LastActive(table)},
     last |-> LastActive(table)]

\* What metadata makes of a list of domains when it is taken as a whole.
EmptyList == [entry |-> << >>, bad |-> FALSE]
Follow(was, dns) ==
    LET old == DOMAIN was.entry
        changed == {d \in DOMAIN dns \cap old : was.entry[d].assetId # dns[d]}
    IN  IF was.bad THEN was
        ELSE IF \E d \in changed : dns[d] # EMPTY THEN [was EXCEPT !.bad = TRUE]
        ELSE [was EXCEPT !.entry =
                [d \in old \cup DOMAIN dns |->
                   IF d \in changed THEN [was.entry[d] EXCEPT !.revoked = TRUE]
                   ELSE IF d \in old THEN was.entry[d]
                   ELSE [assetId |-> dns[d], revoked |-> FALSE]]]

-----------------------------------------------------------------------------

\* Seeded fault: any asset's metadata is looked at.
ProcessAnyIssuance(a, m) ==
    /\ Cardinality(issued) < MaxIssued
    /\ issued' = issued \cup {[asset |-> a, meta |-> m, n |-> Cardinality(issued)]}
    /\ jobs' = IF IsCompromised THEN jobs ELSE Append(jobs, m)
    /\ UNCHANGED <<tables, parallel, thread, followed, cut, restarts>>

\* processAssetIssuance, called by the analyzer.
ProcessAssetIssuance(a, m) ==
    /\ Cardinality(issued) < MaxIssued
    /\ issued' = issued \cup {[asset |-> a, meta |-> m, n |-> Cardinality(issued)]}
    /\ jobs' = IF IsCompromised \/ ~IsMaster(a) THEN jobs ELSE Append(jobs, m)
    /\ UNCHANGED <<tables, parallel, thread, followed, cut, restarts>>

\* The metadata is there: the job goes and its callback is called.
Call(t) ==
    /\ t \in parallel /\ pc[t] = "idle" /\ jobs # << >>
    /\ jobs' = Tail(jobs)
    /\ pc' = [pc EXCEPT ![t] = "compare"]
    /\ work' = [work EXCEPT ![t] = Work(Head(jobs).dns, Head(jobs).next)]
    /\ followed' = Follow(followed, Head(jobs).dns)
    /\ UNCHANGED <<tables, parallel, issued, cut, restarts>>

Listed(t) == DOMAIN work[t].dns
Changed(t) == {d \in Listed(t) : Known(d) /\ OwnerOf(d) # work[t].dns[d]}
Tampered(t) == \E d \in Changed(t) : work[t].dns[d] # EMPTY

Return(t) == /\ pc' = [pc EXCEPT ![t] = "idle"]
             /\ work' = [work EXCEPT ![t] = NoWork]

\* What has changed is worked out before anything is written.
Compare(t) ==
    /\ pc[t] = "compare"
    /\ IF IsCompromised THEN Return(t)
       ELSE IF Tampered(t)
       THEN /\ pc' = [pc EXCEPT ![t] = "retire"]
            /\ work' = [work EXCEPT ![t] = Work(<< >>, EMPTY)]
       ELSE /\ pc' = [pc EXCEPT ![t] = "write"]
            /\ work' = [work EXCEPT ![t] = [new |-> {d \in Listed(t) : ~Known(d)}, revoked |-> Changed(t),
                                            dns |-> @.dns, next |-> @.next]]
    /\ UNCHANGED <<tables, jobs, parallel, history, restarts>>

\* Seeded fault: a domain that is added takes the place of the one there is.
ReplaceDomain(t) ==
    /\ pc[t] = "write"
    /\ \E d \in work[t].new :
          /\ domains' = Append(SelectSeq(domains, LAMBDA r : r.domain # d),
                               [domain |-> d, assetId |-> work[t].dns[d], revoked |-> FALSE])
          /\ work' = [work EXCEPT ![t].new = @ \ {d}]
    /\ UNCHANGED <<masters, ram, jobs, parallel, pc, history, restarts>>

AddDomain(t) ==
    /\ pc[t] = "write"
    /\ \E d \in work[t].new :
          /\ domains' = Append(domains, [domain |-> d, assetId |-> work[t].dns[d], revoked |-> FALSE])
          /\ work' = [work EXCEPT ![t].new = @ \ {d}]
    /\ UNCHANGED <<masters, ram, jobs, parallel, pc, history, restarts>>

\* Seeded fault: only the last row of the table can be revoked.
RevokeLast(t) ==
    /\ pc[t] = "write" /\ work[t].new = {}
    /\ \E d \in work[t].revoked :
          /\ domains' = [k \in 1..Len(domains) |->
                           IF domains[k].domain = d /\ k = Len(domains)
                           THEN [domains[k] EXCEPT !.revoked = TRUE] ELSE domains[k]]
          /\ work' = [work EXCEPT ![t].revoked = @ \ {d}]
    /\ UNCHANGED <<masters, ram, jobs, parallel, pc, history, restarts>>

RevokeDomain(t) ==
    /\ pc[t] = "write" /\ work[t].new = {}
    /\ \E d \in work[t].revoked :
          /\ domains' = [k \in 1..Len(domains) |->
                           IF domains[k].domain = d
                           THEN [domains[k] EXCEPT !.revoked = TRUE] ELSE domains[k]]
          /\ work' = [work EXCEPT ![t].revoked = @ \ {d}]
    /\ UNCHANGED <<masters, ram, jobs, parallel, pc, history, restarts>>

Written(t) ==
    /\ pc[t] = "write" /\ work[t].new = {} /\ work[t].revoked = {}
    /\ IF work[t].next = NONE THEN Return(t)
       ELSE pc' = [pc EXCEPT ![t] = "retire"] /\ UNCHANGED work
    /\ UNCHANGED <<tables, jobs, parallel, history, restarts>>

\* setMasterDomainAssetId: the last master is no longer active...
Retire(t) ==
    /\ pc[t] = "retire"
    /\ masters' = [k \in 1..Len(masters) |->
                     IF masters[k].assetId = ram.last
                     THEN [masters[k] EXCEPT !.active = FALSE] ELSE masters[k]]
    /\ pc' = [pc EXCEPT ![t] = "appoint"]
    /\ UNCHANGED <<domains, ram, jobs, parallel, work, history, restarts>>

\* ... and the next one is.
Appoint(t) ==
    /\ pc[t] = "appoint"
    /\ masters' = Append(masters, [assetId |-> work[t].next, active |-> TRUE])
    /\ ram' = [ids |-> ram.ids \cup {work[t].next}, last |-> work[t].next]
    /\ Return(t)
    /\ UNCHANGED <<domains, jobs, parallel, history, restarts>>

\* The process ends at any point and is started again.
Restart ==
    /\ restarts < MaxRestarts /\ restarts' = restarts + 1
    /\ ram' = Loaded(masters)
    /\ cut' = (cut \/ \E t \in Thread : pc[t] # "idle")
    /\ pc' = [t \in Thread |-> "idle"]
    /\ work' = [t \in Thread |-> NoWork]
    /\ UNCHANGED <<domains, masters, jobs, parallel, issued, followed>>

-----------------------------------------------------------------------------

DomainInit ==
    /\ domains = << >>
    /\ masters = <<[assetId |-> Root, active |-> TRUE]>>
    /\ ram = [ids |-> {Root}, last |-> Root]
    /\ jobs = << >>
    /\ parallel \in SUBSET Thread \ {{}}
    /\ pc = [t \in Thread |-> "idle"]
    /\ work = [t \in Thread |-> NoWork]
    /\ issued = {} /\ followed = EmptyList /\ cut = FALSE
    /\ restarts = 0

Callback(t) == \/ Call(t) \/ Compare(t) \/ AddDomain(t) \/ RevokeDomain(t)
               \/ Written(t) \/ Retire(t) \/ Appoint(t)

DomainNext ==
    \/ \E a \in Asset, m \in Metadata : ProcessAssetIssuance(a, m)
    \/ \E t \in Thread : Callback(t)
    \/ Restart

DomainSpec == DomainInit /\ [][DomainNext]_domainVars

-----------------------------------------------------------------------------
(* Properties.                                                             *)

Row == [domain : Domain, assetId : Id, revoked : BOOLEAN]
Master == [assetId : Id, active : BOOLEAN]

DomainTypeOK ==
    /\ domains \in Seq(Row) /\ masters \in Seq(Master) /\ ram \in [ids : SUBSET Id, last : Id]
    /\ jobs \in Seq(Metadata)
    /\ followed.entry \in Lists([assetId : Id, revoked : BOOLEAN])
    /\ followed = [entry |-> followed.entry, bad |-> followed.bad] /\ followed.bad \in BOOLEAN
    /\ parallel \subseteq Thread
    /\ pc \in [Thread -> {"idle", "compare", "write", "retire", "appoint"}]
    /\ work \in [Thread -> [new : SUBSET Domain, revoked : SUBSET Domain,
                          dns : Lists(Id), next : Id \cup {NONE}]]
    /\ \A t \in Thread : work[t].new \subseteq Listed(t) /\ work[t].revoked \subseteq Listed(t)

\* What goes back to the root by some issuances: the smallest set with the root
\* and all that the metadata of its members names.
Closed(all, S) ==
    /\ Root \in S
    /\ \A i \in all : i.asset \in S /\ i.meta.next # NONE => i.meta.next \in S
Trusted(all) == {a \in Asset : \A S \in SUBSET Asset : Closed(all, S) => a \in S}

\* Every master and every domain goes back to the root: it was named in the
\* metadata of a master that goes back to the root.
ChainOfTrust ==
    /\ \A k \in 1..Len(masters) : masters[k].assetId \in Trusted(issued) \cup {EMPTY}
    /\ \A k \in 1..Len(domains) : \E i \in issued :
          /\ i.asset \in Trusted(issued)
          /\ domains[k].domain \in DOMAIN i.meta.dns
          /\ i.meta.dns[domains[k].domain] = domains[k].assetId

\* Who owns a known domain never changes, whichever threads run callbacks at
\* the same time and whenever the process ends.
OwnersStay ==
    [][\A d \in Domain : Known(d) => Known(d)' /\ OwnerOf(d)' = OwnerOf(d)]_domainVars

\* Where one thread runs callbacks, nothing undoes that domains are
\* compromised, a job queued before and a new start included.
CompromiseIsFinal ==
    [][Cardinality(parallel) = 1 /\ IsCompromised => IsCompromised']_domainVars

\* Where one thread runs callbacks, and it is not between the statements that
\* replace a master, a new start would take up the same masters.
RestartAgrees ==
    Cardinality(parallel) = 1 /\ (\A t \in Thread : pc[t] # "appoint") =>
        Loaded(masters) = ram

\* The masters are those that were named, in the tables and in memory.
MastersInv == DomainTypeOK /\ ChainOfTrust /\ RestartAgrees

\* What was decided stands: who owns a domain, and that domains are compromised.
DecisionsStand == OwnersStay /\ CompromiseIsFinal

\* Where one thread runs callbacks, and no process died in one, the table is
\* what the metadata, taken one after the other as a whole, makes of it.
ListFollowed ==
    Cardinality(parallel) = 1 /\ ~cut /\ (\A t \in Thread : pc[t] = "idle") =>
        /\ followed.bad = IsCompromised
        /\ {domains[k].domain : k \in 1..Len(domains)} = DOMAIN followed.entry
        /\ \A k \in 1..Len(domains) :
              /\ domains[k].assetId = followed.entry[domains[k].domain].assetId
              /\ domains[k].revoked = followed.entry[domains[k].domain].revoked
=============================================================================

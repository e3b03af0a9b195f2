--------------------------- MODULE DomainsProofs ---------------------------
(***************************************************************************)
(* Proofs about module Domains, for any domains, assets, metadata, threads *)
(* and bounds.                                                             *)
(***************************************************************************)
EXTENDS Domains, FiniteSetTheorems, TLAPS

-----------------------------------------------------------------------------
(* The inductive invariant.                                                *)

\* Metadata of an issuance of a master that goes back to the root.
FromTrusted(all, dns, next) ==
    \E i \in all : i.asset \in Trusted(all) /\ i.meta.dns = dns /\ i.meta.next = next

IssuedInv == \A i \in issued : i.asset \in Asset /\ i.meta \in Metadata

\* What a thread holds, at each place of the callback.
Place(t) ==
    /\ pc[t] # "idle" => t \in parallel
    /\ pc[t] # "write" => work[t].new = {} /\ work[t].revoked = {}
    /\ pc[t] \in {"compare", "write"} => FromTrusted(issued, work[t].dns, work[t].next)
    /\ pc[t] \in {"retire", "appoint"} =>
         \/ FromTrusted(issued, work[t].dns, work[t].next) /\ work[t].next # NONE
         \/ work[t].next = EMPTY

WorkInv == \A t \in Thread : Place(t)

\* Where the masters and the domains come from.
OriginInv ==
    /\ \A k \in 1..Len(jobs) : FromTrusted(issued, jobs[k].dns, jobs[k].next)
    /\ ram.ids \subseteq Trusted(issued) \cup {EMPTY} /\ ram.last \in ram.ids
    /\ ChainOfTrust

TrustInv == DomainTypeOK /\ IssuedInv /\ WorkInv /\ OriginInv

\* With one thread, what table and memory say of the masters: only the last
\* one is active, and between the two statements none is.
OneThread == Cardinality(parallel) = 1

MasterInv ==
    /\ \A t \in Thread : pc[t] \in {"write", "retire", "appoint"} => ~IsCompromised
    /\ \A k \in Active(masters) : masters[k].assetId = ram.last
    /\ \/ (\A t \in Thread : pc[t] # "appoint") /\ Loaded(masters) = ram
       \/ /\ \E t \in Thread : pc[t] = "appoint"
          /\ Active(masters) = {}
          /\ ram.ids = {masters[k].assetId : k \in 1..Len(masters)}

\* With one thread, a domain has one row, and one that is to be added none.
RowInv ==
    /\ \A k, l \in 1..Len(domains) : domains[k].domain = domains[l].domain => k = l
    /\ \A t \in Thread : \A d \in work[t].new : ~Known(d)
    /\ \A t \in Thread : \A d \in work[t].revoked : Known(d)

\* followed is the table, but for the domains "more" that are yet to be added
\* with their owners in dns and for those that are yet to be revoked.
Ahead(more, dns, revoked) ==
    /\ DOMAIN followed.entry = {d \in Domain : Known(d)} \cup more
    /\ \A k \in 1..Len(domains) :
          /\ followed.entry[domains[k].domain].assetId = domains[k].assetId
          /\ followed.entry[domains[k].domain].revoked =
               (domains[k].revoked \/ domains[k].domain \in revoked)
    /\ \A d \in more : followed.entry[d].assetId = dns[d] /\ ~followed.entry[d].revoked

\* With one thread, and no process that died in a callback.
FollowInv ==
    /\ (\A t \in Thread : pc[t] = "idle") =>
         Ahead({}, << >>, {}) /\ followed.bad = IsCompromised
    /\ \A t \in Thread :
         /\ pc[t] = "compare" =>
              /\ followed.bad = (IsCompromised \/ Tampered(t))
              /\ IF followed.bad THEN Ahead({}, << >>, {})
                 ELSE Ahead({d \in Listed(t) : ~Known(d)}, work[t].dns, Changed(t))
         /\ pc[t] = "write" => Ahead(work[t].new, work[t].dns, work[t].revoked) /\ ~followed.bad
         /\ pc[t] \in {"retire", "appoint"} =>
              Ahead({}, << >>, {}) /\ followed.bad = (work[t].next = EMPTY)

IInv ==
    /\ TrustInv
    /\ OneThread => MasterInv /\ RowInv
    /\ OneThread /\ ~cut => FollowInv

-----------------------------------------------------------------------------
(* Numbers and tables.                                                     *)

\* Every nonempty set of natural numbers has a least element.
LEMMA Least ==
    ASSUME NEW S \in SUBSET Nat, S # {}
    PROVE  \E n \in S : \A m \in S : n <= m
<1>1. PICK n \in S : \A m \in S : <<m, n>> \notin OpToRel(<, Nat)
  BY NatLessThanWellFounded, WFMin
<1>2. ASSUME NEW m \in S PROVE n <= m
  <2>1. n \in Nat /\ m \in Nat /\ <<m, n>> \notin OpToRel(<, Nat)
    BY <1>1
  <2>2. ~(m < n)
    BY <2>1 DEF OpToRel
  <2>3. n \in Nat /\ m \in Nat
    OBVIOUS
  <2> QED BY <2>2, <2>3
<1> QED BY <1>2

\* A nonempty set of positions has a last one.
LEMMA Greatest ==
    ASSUME NEW n \in Nat, NEW S \in SUBSET (1..n), S # {}
    PROVE  \E k \in S : \A l \in S : l <= k
<1> DEFINE B == {b \in Nat : \A l \in S : l <= b}
<1>1. n \in B
  OBVIOUS
<1>2. PICK b \in B : \A c \in B : b <= c
  BY <1>1, Least
<1>3. b \in S
  <2> SUFFICES ASSUME b \notin S PROVE FALSE
    OBVIOUS
  <2>1. b # 0
    <3>1. PICK s \in S : TRUE
      OBVIOUS
    <3>2. s \in 1..n /\ s <= b
      BY <3>1
    <3> QED BY <3>2
  <2>2. b - 1 \in B
    BY <2>1
  <2> QED BY <2>2, <1>2
<1> QED BY <1>3

\* The last active master, if one is.
LEMMA LastActiveIs ==
    ASSUME NEW table \in Seq(Master)
    PROVE  /\ Active(table) = {} => LastActive(table) = EMPTY
           /\ Active(table) # {} => \E k \in Active(table) :
                 /\ \A l \in Active(table) : l <= k
                 /\ LastActive(table) = table[k].assetId
<1> DEFINE k == CHOOSE k \in Active(table) : \A l \in Active(table) : l <= k
<1>1. ASSUME Active(table) # {}
      PROVE  k \in Active(table) /\ \A l \in Active(table) : l <= k
  <2>1. Len(table) \in Nat /\ Active(table) \in SUBSET (1..Len(table))
    BY DEF Active
  <2>2. \E m \in Active(table) : \A l \in Active(table) : l <= m
    BY <2>1, <1>1, Greatest
  <2> QED BY <2>2
<1> QED BY <1>1 DEF LastActive

-----------------------------------------------------------------------------
(* What goes back to the root.                                             *)

LEMMA RootIsTrusted == \A all : Root \in Trusted(all)
BY DomainAssumption DEF Trusted, Closed

\* A master that a trusted one names is trusted.
LEMMA NamedIsTrusted ==
    ASSUME NEW all, NEW dns, NEW next \in Asset, FromTrusted(all, dns, next)
    PROVE  next \in Trusted(all)
<1>1. PICK i \in all : i.asset \in Trusted(all) /\ i.meta.next = next
  BY DEF FromTrusted
<1>2. ASSUME NEW S \in SUBSET Asset, Closed(all, S)
      PROVE  next \in S
  <2>1. i.asset \in S
    BY <1>1, <1>2 DEF Trusted
  <2> QED BY <1>1, <1>2, <2>1, DomainAssumption DEF Closed, Id
<1> QED BY <1>2 DEF Trusted

\* More issuances take no trust away.
LEMMA TrustGrows ==
    ASSUME NEW all, NEW more, all \subseteq more
    PROVE  /\ Trusted(all) \subseteq Trusted(more)
           /\ \A dns, next : FromTrusted(all, dns, next) => FromTrusted(more, dns, next)
<1>1. Trusted(all) \subseteq Trusted(more)
  <2>1. ASSUME NEW S \in SUBSET Asset, Closed(more, S) PROVE Closed(all, S)
    BY <2>1 DEF Closed
  <2> QED BY <2>1 DEF Trusted
<1> QED BY <1>1 DEF FromTrusted

-----------------------------------------------------------------------------
(* Types, and where everything comes from.                                 *)

LEMMA TrustInit == DomainInit => TrustInv
<1> SUFFICES ASSUME DomainInit PROVE TrustInv
  OBVIOUS
<1>1. DomainTypeOK
  <2>1. << >> \in [{} -> [assetId : Id, revoked : BOOLEAN]]
    OBVIOUS
  <2>2. followed.entry \in Lists([assetId : Id, revoked : BOOLEAN])
    BY <2>1 DEF DomainInit, EmptyList, Lists
  <2>3. << >> \in Lists(Id)
    <3>1. << >> \in [{} -> Id]
      OBVIOUS
    <3> QED BY <3>1 DEF Lists
  <2>4. NoWork \in [new : SUBSET Domain, revoked : SUBSET Domain, dns : Lists(Id), next : Id \cup {NONE}]
        /\ NoWork.new = {} /\ NoWork.revoked = {}
    BY <2>3 DEF NoWork, Work
  <2>5. work \in [Thread -> [new : SUBSET Domain, revoked : SUBSET Domain, dns : Lists(Id), next : Id \cup {NONE}]]
        /\ \A t \in Thread : work[t].new \subseteq Listed(t) /\ work[t].revoked \subseteq Listed(t)
    BY <2>4 DEF DomainInit
  <2>6. /\ masters \in Seq(Master) /\ ram \in [ids : SUBSET Id, last : Id]
    BY DomainAssumption DEF DomainInit, Master, Id
  <2> QED BY <2>2, <2>5, <2>6 DEF DomainInit, DomainTypeOK, EmptyList
<1>2. IssuedInv /\ WorkInv
  BY DEF DomainInit, IssuedInv, WorkInv, Place, NoWork, Work
<1>3. OriginInv
  BY RootIsTrusted DEF DomainInit, OriginInv, ChainOfTrust
<1> QED BY <1>1, <1>2, <1>3 DEF TrustInv

LEMMA ProcessKeepsTrust ==
    ASSUME TrustInv, NEW a \in Asset, NEW m \in Metadata, ProcessAssetIssuance(a, m)
    PROVE  TrustInv'
<1> USE DEF TrustInv
<1> DEFINE i == [asset |-> a, meta |-> m, n |-> Cardinality(issued)]
<1>1. issued' = issued \cup {i} /\ issued \subseteq issued' /\ IssuedInv'
  BY DEF ProcessAssetIssuance, IssuedInv
<1>2. i.asset = a /\ i.meta = m /\ i \in issued'
  BY <1>1
<1> HIDE DEF i
<1>3. Trusted(issued) \subseteq Trusted(issued')
      /\ \A dns, next : FromTrusted(issued, dns, next) => FromTrusted(issued', dns, next)
  BY <1>1, TrustGrows
<1>4. jobs' \in Seq(Metadata)
      /\ \A k \in 1..Len(jobs') : FromTrusted(issued', jobs'[k].dns, jobs'[k].next)
  <2>1. CASE jobs' = jobs
    BY <2>1, <1>3 DEF DomainTypeOK, OriginInv
  <2>2. CASE IsMaster(a) /\ jobs' = Append(jobs, m)
    <3>1. a \in Trusted(issued')
      BY <2>2, <1>3, DomainAssumption DEF IsMaster, OriginInv
    <3>2. FromTrusted(issued', m.dns, m.next)
      BY <3>1, <1>2 DEF FromTrusted
    <3>3. jobs' \in Seq(Metadata)
          /\ \A k \in 1..Len(jobs') : (k \in 1..Len(jobs) /\ jobs'[k] = jobs[k]) \/ jobs'[k] = m
      BY <2>2 DEF DomainTypeOK
    <3>4. ASSUME NEW k \in 1..Len(jobs')
          PROVE  FromTrusted(issued', jobs'[k].dns, jobs'[k].next)
      BY <3>2, <3>3, <1>3 DEF OriginInv
    <3> QED BY <3>3, <3>4
  <2> QED BY <2>1, <2>2 DEF ProcessAssetIssuance
<1>5. DomainTypeOK'
  BY <1>4 DEF ProcessAssetIssuance, DomainTypeOK, tables, thread, Listed
<1>6. WorkInv'
  BY <1>3 DEF WorkInv, Place, ProcessAssetIssuance, thread
<1>7. OriginInv'
  <2>1. ChainOfTrust'
    BY <1>1, <1>3 DEF OriginInv, ChainOfTrust, ProcessAssetIssuance, tables
  <2> QED BY <2>1, <1>3, <1>4 DEF OriginInv, ProcessAssetIssuance, tables
<1> QED BY <1>1, <1>5, <1>6, <1>7

\* The history stays a list of domains.
LEMMA FollowType ==
    ASSUME DomainTypeOK, NEW m \in Metadata
    PROVE  LET next == Follow(followed, m.dns)
           IN  /\ next = [entry |-> next.entry, bad |-> next.bad] /\ next.bad \in BOOLEAN
               /\ next.entry \in Lists([assetId : Id, revoked : BOOLEAN])
<1> USE DEF Lists
<1> DEFINE Entry == [assetId : Id, revoked : BOOLEAN]
           changed == {d \in DOMAIN m.dns \cap DOMAIN followed.entry : followed.entry[d].assetId # m.dns[d]}
           all == DOMAIN followed.entry \cup DOMAIN m.dns
           e(d) == IF d \in changed THEN [followed.entry[d] EXCEPT !.revoked = TRUE]
                   ELSE IF d \in DOMAIN followed.entry THEN followed.entry[d]
                   ELSE [assetId |-> m.dns[d], revoked |-> FALSE]
<1>1. PICK S \in SUBSET Domain : followed.entry \in [S -> Entry]
  BY DEF DomainTypeOK
<1>2. all \in SUBSET Domain
  BY <1>1, DomainAssumption
<1>3. ASSUME NEW d \in all PROVE e(d) \in Entry
  <2>1. d \in DOMAIN followed.entry => followed.entry[d] \in Entry
    BY <1>1
  <2>2. d \notin DOMAIN followed.entry => m.dns[d] \in Id
    BY DomainAssumption
  <2> QED BY <2>1, <2>2
<1> HIDE DEF e, all
<1>4. [d \in all |-> e(d)] \in [all -> Entry]
  BY <1>3
<1>5. followed = [entry |-> followed.entry, bad |-> followed.bad]
  BY DEF DomainTypeOK
<1>6. Follow(followed, m.dns) \in {followed, [entry |-> followed.entry, bad |-> TRUE],
                                  [entry |-> [d \in all |-> e(d)], bad |-> followed.bad]}
  BY <1>5 DEF Follow, e, all
<1>7. [d \in all |-> e(d)] \in Lists(Entry) /\ followed.entry \in Lists(Entry)
  BY <1>1, <1>2, <1>4
<1> HIDE DEF Lists, Entry
<1> DEFINE x == [d \in all |-> e(d)]
<1> HIDE DEF x
<1>8. followed.bad \in BOOLEAN
  BY DEF DomainTypeOK
<1> DEFINE n == Follow(followed, m.dns)
<1>9. n \in {[entry |-> followed.entry, bad |-> followed.bad],
         [entry |-> followed.entry, bad |-> TRUE], [entry |-> x, bad |-> followed.bad]}
  BY <1>5, <1>6 DEF x
<1> HIDE DEF n
<1>10. n = [entry |-> n.entry, bad |-> n.bad] /\ n.bad \in BOOLEAN /\ n.entry \in Lists(Entry)
  <2>1. CASE n = [entry |-> followed.entry, bad |-> followed.bad]
    BY <2>1, <1>7, <1>8
  <2>2. CASE n = [entry |-> followed.entry, bad |-> TRUE]
    BY <2>2, <1>7, <1>8
  <2>3. CASE n = [entry |-> x, bad |-> followed.bad]
    BY <2>3, <1>7, <1>8 DEF x
  <2> QED BY <2>1, <2>2, <2>3, <1>9
<1> QED BY <1>10 DEF n, Entry

LEMMA CallKeepsTrust ==
    ASSUME TrustInv, NEW t \in Thread, Call(t)
    PROVE  TrustInv'
<1> USE DEF TrustInv
<1> DEFINE w == Work(Head(jobs).dns, Head(jobs).next)
<1>1. jobs' \in Seq(Metadata) /\ Head(jobs) \in Metadata /\ 1 \in 1..Len(jobs) /\ Head(jobs) = jobs[1]
      /\ \A k \in 1..Len(jobs') : k + 1 \in 1..Len(jobs) /\ jobs'[k] = jobs[k + 1]
  BY DEF DomainTypeOK, Call
<1>2. work' = [work EXCEPT ![t] = w] /\ pc' = [pc EXCEPT ![t] = "compare"]
  BY DEF Call
<1>3. w \in [new : SUBSET Domain, revoked : SUBSET Domain, dns : Lists(Id), next : Id \cup {NONE}]
      /\ w.new = {} /\ w.revoked = {} /\ FromTrusted(issued, w.dns, w.next)
  BY <1>1, DomainAssumption DEF OriginInv, Id, Work
<1> HIDE DEF w
<1>4. DomainTypeOK'
  <2>1. followed' = Follow(followed, Head(jobs).dns)
    BY DEF Call
  <2>2. /\ followed' = [entry |-> followed'.entry, bad |-> followed'.bad]
        /\ followed'.bad \in BOOLEAN /\ followed'.entry \in Lists([assetId : Id, revoked : BOOLEAN])
    BY <2>1, <1>1, FollowType
  <2>3. work' \in [Thread -> [new : SUBSET Domain, revoked : SUBSET Domain,
                              dns : Lists(Id), next : Id \cup {NONE}]]
        /\ pc' \in [Thread -> {"idle", "compare", "write", "retire", "appoint"}]
        /\ \A u \in Thread : work'[u].new \subseteq DOMAIN work'[u].dns
                             /\ work'[u].revoked \subseteq DOMAIN work'[u].dns
    BY <1>2, <1>3 DEF DomainTypeOK, Listed
  <2> QED BY <1>1, <2>2, <2>3 DEF Call, DomainTypeOK, tables, Listed
<1>5. WorkInv'
  BY <1>2, <1>3 DEF WorkInv, Place, Call, DomainTypeOK
<1>6. OriginInv'
  BY <1>1 DEF OriginInv, ChainOfTrust, Call, tables
<1>7. IssuedInv'
  BY DEF IssuedInv, Call
<1> QED BY <1>4, <1>5, <1>6, <1>7

\* What thread t did touches nothing of the other threads' callbacks.
LEMMA PlacesKept ==
    ASSUME WorkInv, NEW t \in Thread, Place(t)', UNCHANGED <<parallel, issued>>,
           \A u \in Thread \ {t} : pc'[u] = pc[u] /\ work'[u] = work[u]
    PROVE  WorkInv'
BY DEF WorkInv, Place

LEMMA CompareKeepsTrust ==
    ASSUME TrustInv, NEW t \in Thread, Compare(t)
    PROVE  TrustInv'
<1> USE DEF TrustInv
<1> DEFINE W == [new : SUBSET Domain, revoked : SUBSET Domain, dns : Lists(Id), next : Id \cup {NONE}]
           w == work'[t]
<1>1. /\ pc' = [pc EXCEPT ![t] = pc'[t]] /\ work' = [work EXCEPT ![t] = w]
      /\ pc'[t] \in {"idle", "write", "retire"} /\ w \in W
      /\ w.new \subseteq DOMAIN w.dns /\ w.revoked \subseteq DOMAIN w.dns
      /\ Place(t)'
  <2>1. CASE IsCompromised
    <3>1. NoWork \in W /\ NoWork.new = {} /\ NoWork.revoked = {}
      <4>1. << >> \in [{} -> Id]
        OBVIOUS
      <4> QED BY <4>1 DEF NoWork, Work, Lists
    <3>2. pc' = [pc EXCEPT ![t] = "idle"] /\ work' = [work EXCEPT ![t] = NoWork]
      BY <2>1 DEF Compare, Return
    <3> QED BY <3>1, <3>2 DEF DomainTypeOK, Place
  <2>2. CASE ~IsCompromised /\ Tampered(t)
    <3>1. Work(<< >>, EMPTY) \in W /\ Work(<< >>, EMPTY).next = EMPTY
          /\ Work(<< >>, EMPTY).new = {} /\ Work(<< >>, EMPTY).revoked = {}
      <4>1. << >> \in [{} -> Id]
        OBVIOUS
      <4> QED BY <4>1 DEF Work, Lists, Id
    <3>2. pc' = [pc EXCEPT ![t] = "retire"] /\ work' = [work EXCEPT ![t] = Work(<< >>, EMPTY)]
      BY <2>2 DEF Compare
    <3> QED BY <3>1, <3>2 DEF DomainTypeOK, Place, WorkInv, Compare, history
  <2>3. CASE ~IsCompromised /\ ~Tampered(t)
    <3> DEFINE v == [new |-> {d \in Listed(t) : ~Known(d)}, revoked |-> Changed(t),
                  dns |-> work[t].dns, next |-> work[t].next]
    <3>1. pc' = [pc EXCEPT ![t] = "write"] /\ work' = [work EXCEPT ![t] = v]
      BY <2>3 DEF Compare
    <3>2. work[t] \in W /\ Listed(t) \subseteq Domain /\ Changed(t) \subseteq Listed(t)
      BY DEF DomainTypeOK, Listed, Lists, Changed
    <3>3. /\ v \in W /\ v.dns = work[t].dns /\ v.next = work[t].next
          /\ v.new \subseteq Listed(t) /\ v.revoked \subseteq Listed(t)
      BY <3>2
    <3> HIDE DEF v
    <3> QED BY <3>1, <3>3 DEF DomainTypeOK, Place, WorkInv, Compare, history, Listed
  <2> QED BY <2>1, <2>2, <2>3
<1>2. UNCHANGED <<domains, masters, ram, jobs, parallel, issued, followed>>
  BY DEF Compare, tables, history
<1> HIDE DEF w
<1>3. DomainTypeOK'
  BY <1>1, <1>2 DEF DomainTypeOK, Listed
<1>4. WorkInv'
  BY <1>1, <1>2, PlacesKept DEF DomainTypeOK
<1>5. IssuedInv' /\ OriginInv'
  BY <1>2 DEF IssuedInv, OriginInv, ChainOfTrust
<1> QED BY <1>3, <1>4, <1>5

\* What is left to write becomes less.
LEMMA WorkShrinks ==
    ASSUME DomainTypeOK, NEW t \in Thread, NEW d,
           \/ work' = [work EXCEPT ![t].new = @ \ {d}]
           \/ work' = [work EXCEPT ![t].revoked = @ \ {d}]
    PROVE  /\ work' \in [Thread -> [new : SUBSET Domain, revoked : SUBSET Domain,
                                    dns : Lists(Id), next : Id \cup {NONE}]]
           /\ \A u \in Thread : /\ work'[u].dns = work[u].dns /\ work'[u].next = work[u].next
                                /\ work'[u].new \subseteq work[u].new
                                /\ work'[u].revoked \subseteq work[u].revoked
<1> DEFINE W == [new : SUBSET Domain, revoked : SUBSET Domain, dns : Lists(Id), next : Id \cup {NONE}]
<1>1. work \in [Thread -> W]
  BY DEF DomainTypeOK
<1>2. /\ [work[t] EXCEPT !.new = @ \ {d}] \in W
      /\ [work[t] EXCEPT !.revoked = @ \ {d}] \in W
  <2>1. work[t] \in W
    BY <1>1
  <2> QED BY <2>1
<1>3. work' \in [Thread -> W]
  <2> HIDE DEF W
  <2> QED BY <1>1, <1>2
<1> QED BY <1>1, <1>3

LEMMA AddKeepsTrust ==
    ASSUME TrustInv, NEW t \in Thread, AddDomain(t)
    PROVE  TrustInv'
<1> USE DEF TrustInv
<1>1. PICK d \in work[t].new :
         /\ domains' = Append(domains, [domain |-> d, assetId |-> work[t].dns[d], revoked |-> FALSE])
         /\ work' = [work EXCEPT ![t].new = @ \ {d}]
  BY DEF AddDomain
<1> DEFINE row == [domain |-> d, assetId |-> work[t].dns[d], revoked |-> FALSE]
<1>2. d \in DOMAIN work[t].dns /\ d \in Domain /\ work[t].dns[d] \in Id
  BY DEF DomainTypeOK, Lists, Listed
<1>3. row \in Row /\ row.domain = d /\ row.assetId = work[t].dns[d]
  BY <1>2 DEF Row
<1> HIDE DEF row
<1>4. /\ domains' \in Seq(Row)
      /\ \A k \in 1..Len(domains') : (k \in 1..Len(domains) /\ domains'[k] = domains[k]) \/ domains'[k] = row
  BY <1>1, <1>3 DEF row, DomainTypeOK
<1>5. UNCHANGED <<masters, ram, jobs, parallel, pc, issued, followed>> /\ pc[t] = "write"
  BY DEF AddDomain, history
<1>6. DomainTypeOK'
  BY <1>1, <1>4, <1>5, WorkShrinks DEF DomainTypeOK, Listed
<1>7. Place(t)'
  BY <1>1, <1>5 DEF DomainTypeOK, WorkInv, Place
<1>8. WorkInv'
  BY <1>1, <1>5, <1>7, PlacesKept DEF DomainTypeOK
<1>9. IssuedInv' /\ OriginInv'
  <2>1. PICK i \in issued : i.asset \in Trusted(issued) /\ i.meta.dns = work[t].dns
    BY <1>5 DEF WorkInv, Place, FromTrusted
  <2>2. ChainOfTrust'
    BY <2>1, <1>2, <1>3, <1>4, <1>5 DEF OriginInv, ChainOfTrust
  <2> QED BY <2>2, <1>5 DEF OriginInv, IssuedInv
<1> QED BY <1>6, <1>8, <1>9

\* What a revocation leaves of the rows.
LEMMA RevokeRows ==
    ASSUME DomainTypeOK, NEW t \in Thread, RevokeDomain(t)
    PROVE  \E d \in work[t].revoked :
             /\ work' = [work EXCEPT ![t].revoked = @ \ {d}]
             /\ domains' \in Seq(Row) /\ Len(domains') = Len(domains)
             /\ \A k \in 1..Len(domains) :
                  /\ domains'[k].domain = domains[k].domain
                  /\ domains'[k].assetId = domains[k].assetId
                  /\ domains'[k].revoked = (domains[k].revoked \/ domains[k].domain = d)
<1>1. PICK d \in work[t].revoked :
         /\ domains' = [k \in 1..Len(domains) |->
                           IF domains[k].domain = d
                           THEN [domains[k] EXCEPT !.revoked = TRUE] ELSE domains[k]]
         /\ work' = [work EXCEPT ![t].revoked = @ \ {d}]
  BY DEF RevokeDomain
<1>2. ASSUME NEW k \in 1..Len(domains)
      PROVE  /\ domains'[k] \in Row
             /\ domains'[k].domain = domains[k].domain
             /\ domains'[k].assetId = domains[k].assetId
             /\ domains'[k].revoked = (domains[k].revoked \/ domains[k].domain = d)
  <2>1. domains[k] \in Row
    BY DEF DomainTypeOK
  <2>2. CASE domains[k].domain = d
    BY <1>1, <2>1, <2>2 DEF Row
  <2>3. CASE domains[k].domain # d
    <3>1. domains'[k] = domains[k]
      BY <1>1, <2>3
    <3> QED BY <2>1, <2>3, <3>1 DEF Row
  <2> QED BY <2>2, <2>3
<1>3. domains' \in Seq(Row) /\ Len(domains') = Len(domains)
  <2>1. Len(domains) \in Nat
    BY DEF DomainTypeOK
  <2>2. domains' \in [1..Len(domains) -> Row]
    BY <1>1, <1>2
  <2> HIDE DEF Row
  <2> QED BY <2>1, <2>2
<1> QED BY <1>1, <1>2, <1>3

LEMMA RevokeKeepsTrust ==
    ASSUME TrustInv, NEW t \in Thread, RevokeDomain(t)
    PROVE  TrustInv'
<1> USE DEF TrustInv
<1>1. PICK d \in work[t].revoked :
         /\ work' = [work EXCEPT ![t].revoked = @ \ {d}]
         /\ domains' \in Seq(Row) /\ Len(domains') = Len(domains)
         /\ \A k \in 1..Len(domains) :
              /\ domains'[k].domain = domains[k].domain
              /\ domains'[k].assetId = domains[k].assetId
  BY RevokeRows
<1>2. UNCHANGED <<masters, ram, jobs, parallel, pc, issued, followed>> /\ pc[t] = "write"
  BY DEF RevokeDomain, history
<1>3. DomainTypeOK'
  BY <1>1, <1>2, WorkShrinks DEF DomainTypeOK, Listed
<1>4. Place(t)'
  BY <1>1, <1>2 DEF DomainTypeOK, WorkInv, Place
<1>5. WorkInv'
  BY <1>1, <1>2, <1>4, PlacesKept DEF DomainTypeOK
<1>6. IssuedInv' /\ OriginInv'
  <2>1. ChainOfTrust'
    BY <1>1, <1>2 DEF OriginInv, ChainOfTrust
  <2> QED BY <2>1, <1>2 DEF OriginInv, IssuedInv
<1> QED BY <1>3, <1>5, <1>6

\* A thread that has returned holds nothing.
LEMMA ReturnPlace ==
    ASSUME DomainTypeOK, NEW t \in Thread, Return(t)
    PROVE  /\ pc' \in [Thread -> {"idle", "compare", "write", "retire", "appoint"}]
           /\ work' \in [Thread -> [new : SUBSET Domain, revoked : SUBSET Domain,
                                    dns : Lists(Id), next : Id \cup {NONE}]]
           /\ \A u \in Thread : Listed(u)' = DOMAIN work'[u].dns /\ work'[u].new \subseteq Listed(u)'
                                /\ work'[u].revoked \subseteq Listed(u)'
           /\ Place(t)'
           /\ \A u \in Thread \ {t} : pc'[u] = pc[u] /\ work'[u] = work[u]
<1>1. /\ NoWork \in [new : SUBSET Domain, revoked : SUBSET Domain, dns : Lists(Id), next : Id \cup {NONE}]
      /\ NoWork.new = {} /\ NoWork.revoked = {}
  <2>1. << >> \in [{} -> Id]
    OBVIOUS
  <2> QED BY <2>1 DEF NoWork, Work, Lists
<1> QED BY <1>1 DEF Return, DomainTypeOK, Place, Listed

LEMMA WrittenKeepsTrust ==
    ASSUME TrustInv, NEW t \in Thread, Written(t)
    PROVE  TrustInv'
<1> USE DEF TrustInv
<1>1. UNCHANGED <<domains, masters, ram, jobs, parallel, issued, followed>>
  BY DEF Written, tables, history
<1>2. IssuedInv' /\ OriginInv'
  BY <1>1 DEF IssuedInv, OriginInv, ChainOfTrust
<1>3. CASE Return(t)
  <2>1. WorkInv'
    BY <1>1, <1>3, ReturnPlace, PlacesKept
  <2>2. DomainTypeOK'
    BY <1>1, <1>3, ReturnPlace DEF DomainTypeOK
  <2> QED BY <2>1, <2>2, <1>2
<1>4. CASE work[t].next # NONE /\ pc' = [pc EXCEPT ![t] = "retire"] /\ UNCHANGED work
  <2>1. Place(t)'
    BY <1>1, <1>4 DEF WorkInv, Place, DomainTypeOK, Written
  <2>2. WorkInv'
    BY <1>1, <1>4, <2>1, PlacesKept DEF DomainTypeOK
  <2>3. DomainTypeOK'
    BY <1>1, <1>4 DEF DomainTypeOK, Listed
  <2> QED BY <2>2, <2>3, <1>2
<1> QED BY <1>3, <1>4 DEF Written

\* What the statement of Retire leaves of the masters.
LEMMA RetireRows ==
    ASSUME DomainTypeOK, NEW t \in Thread, Retire(t)
    PROVE  /\ masters' \in Seq(Master) /\ Len(masters') = Len(masters)
           /\ \A k \in 1..Len(masters) :
                /\ masters'[k].assetId = masters[k].assetId
                /\ masters'[k].active = (masters[k].active /\ masters[k].assetId # ram.last)
<1>1. masters' = [k \in 1..Len(masters) |->
                    IF masters[k].assetId = ram.last
                    THEN [masters[k] EXCEPT !.active = FALSE] ELSE masters[k]]
  BY DEF Retire
<1>2. ASSUME NEW k \in 1..Len(masters)
      PROVE  /\ masters'[k] \in Master
             /\ masters'[k].assetId = masters[k].assetId
             /\ masters'[k].active = (masters[k].active /\ masters[k].assetId # ram.last)
  <2>1. masters[k] \in Master
    BY DEF DomainTypeOK
  <2>2. CASE masters[k].assetId = ram.last
    BY <1>1, <2>1, <2>2 DEF Master
  <2>3. CASE masters[k].assetId # ram.last
    <3>1. masters'[k] = masters[k]
      BY <1>1, <2>3
    <3> QED BY <2>1, <2>3, <3>1 DEF Master
  <2> QED BY <2>2, <2>3
<1>3. masters' \in Seq(Master) /\ Len(masters') = Len(masters)
  <2>1. Len(masters) \in Nat
    BY DEF DomainTypeOK
  <2>2. masters' \in [1..Len(masters) -> Master]
    BY <1>1, <1>2
  <2> HIDE DEF Master
  <2> QED BY <2>1, <2>2
<1> QED BY <1>1, <1>2, <1>3

LEMMA RetireKeepsTrust ==
    ASSUME TrustInv, NEW t \in Thread, Retire(t)
    PROVE  TrustInv'
<1> USE DEF TrustInv
<1>1. /\ masters' \in Seq(Master) /\ Len(masters') = Len(masters)
      /\ \A k \in 1..Len(masters) : masters'[k].assetId = masters[k].assetId
  BY RetireRows
<1>2. UNCHANGED <<domains, ram, jobs, parallel, work, issued, followed>>
      /\ pc[t] = "retire" /\ pc' = [pc EXCEPT ![t] = "appoint"]
  BY DEF Retire, history
<1>3. DomainTypeOK'
  BY <1>1, <1>2 DEF DomainTypeOK, Listed
<1>4. Place(t)'
  BY <1>2 DEF DomainTypeOK, WorkInv, Place
<1>5. WorkInv'
  BY <1>2, <1>4, PlacesKept DEF DomainTypeOK
<1>6. IssuedInv' /\ OriginInv'
  <2>1. ChainOfTrust'
    BY <1>1, <1>2 DEF OriginInv, ChainOfTrust
  <2> QED BY <2>1, <1>2 DEF OriginInv, IssuedInv
<1> QED BY <1>3, <1>5, <1>6

\* The next master is a trusted one, or none.
LEMMA NextMaster ==
    ASSUME TrustInv, NEW t \in Thread, pc[t] = "appoint"
    PROVE  work[t].next \in Id /\ work[t].next \in Trusted(issued) \cup {EMPTY}
<1>1. CASE work[t].next = EMPTY
  BY <1>1 DEF Id
<1>2. CASE FromTrusted(issued, work[t].dns, work[t].next) /\ work[t].next # NONE
  <2>1. work[t].next \in Asset
    BY <1>2, DomainAssumption DEF FromTrusted, TrustInv, IssuedInv
  <2> QED BY <1>2, <2>1, NamedIsTrusted DEF Id
<1> QED BY <1>1, <1>2 DEF TrustInv, WorkInv, Place

LEMMA AppointKeepsTrust ==
    ASSUME TrustInv, NEW t \in Thread, Appoint(t)
    PROVE  TrustInv'
<1> USE DEF TrustInv
<1> DEFINE row == [assetId |-> work[t].next, active |-> TRUE]
<1>1. row \in Master /\ row.assetId = work[t].next /\ row.assetId \in Trusted(issued) \cup {EMPTY}
  BY NextMaster DEF Appoint, Master
<1> HIDE DEF row
<1>2. /\ masters' \in Seq(Master)
      /\ \A k \in 1..Len(masters') : (k \in 1..Len(masters) /\ masters'[k] = masters[k]) \/ masters'[k] = row
  <2>1. masters' = Append(masters, row)
    BY DEF Appoint, row
  <2> QED BY <1>1, <2>1 DEF DomainTypeOK
<1>3. ram' \in [ids : SUBSET Id, last : Id] /\ ram'.ids = ram.ids \cup {work[t].next}
      /\ ram'.last = work[t].next
  <2>1. work[t].next \in Id /\ ram' = [ids |-> ram.ids \cup {work[t].next}, last |-> work[t].next]
    BY NextMaster DEF Appoint
  <2>2. ram.ids \subseteq Id
    BY DEF DomainTypeOK
  <2> QED BY <2>1, <2>2
<1>4. UNCHANGED <<domains, jobs, parallel, issued, followed>> /\ Return(t)
  BY DEF Appoint, history
<1>5. DomainTypeOK'
  BY <1>2, <1>3, <1>4, ReturnPlace DEF DomainTypeOK
<1>6. WorkInv'
  BY <1>4, ReturnPlace, PlacesKept
<1>7. IssuedInv' /\ OriginInv'
  <2>1. ChainOfTrust'
    BY <1>1, <1>2, <1>4 DEF OriginInv, ChainOfTrust
  <2> QED BY <2>1, <1>1, <1>3, <1>4 DEF OriginInv, IssuedInv
<1> QED BY <1>5, <1>6, <1>7

LEMMA RestartKeepsTrust ==
    ASSUME TrustInv, Restart
    PROVE  TrustInv'
<1> USE DEF TrustInv
<1>1. UNCHANGED <<domains, masters, jobs, parallel, issued, followed>>
  BY DEF Restart
<1>2. /\ ram' = Loaded(masters)
      /\ LastActive(masters) \in Trusted(issued) \cup {EMPTY} /\ LastActive(masters) \in Id
      /\ \A k \in 1..Len(masters) : masters[k].assetId \in Id /\ masters[k].assetId \in Trusted(issued) \cup {EMPTY}
  <2>1. ASSUME NEW k \in 1..Len(masters)
        PROVE  masters[k].assetId \in Id /\ masters[k].assetId \in Trusted(issued) \cup {EMPTY}
    <3>1. masters \in Seq(Master)
      BY DEF DomainTypeOK
    <3>2. masters[k] \in Master
      BY <3>1
    <3>3. masters[k].assetId \in Id
      BY <3>2 DEF Master
    <3>4. masters[k].assetId \in Trusted(issued) \cup {EMPTY}
      BY DEF OriginInv, ChainOfTrust
    <3> QED BY <3>3, <3>4
  <2>2. LastActive(masters) = EMPTY \/ \E k \in 1..Len(masters) : LastActive(masters) = masters[k].assetId
    BY LastActiveIs DEF DomainTypeOK, Active
  <2> QED BY <2>1, <2>2 DEF Restart, Id
<1>3. ram' \in [ids : SUBSET Id, last : Id] /\ ram'.ids \subseteq Trusted(issued) \cup {EMPTY}
      /\ ram'.last \in ram'.ids
  BY <1>2 DEF Loaded
<1>4. /\ NoWork \in [new : SUBSET Domain, revoked : SUBSET Domain, dns : Lists(Id), next : Id \cup {NONE}]
      /\ NoWork.new = {} /\ NoWork.revoked = {}
  <2>1. << >> \in [{} -> Id]
    OBVIOUS
  <2> QED BY <2>1 DEF NoWork, Work, Lists
<1>5. \A t \in Thread : pc'[t] = "idle" /\ work'[t] = NoWork
  BY DEF Restart
<1>6. DomainTypeOK'
  BY <1>1, <1>3, <1>4 DEF DomainTypeOK, Restart, Listed
<1>7. WorkInv'
  BY <1>4, <1>5 DEF WorkInv, Place
<1>8. IssuedInv' /\ OriginInv'
  <2>1. ChainOfTrust'
    BY <1>1 DEF OriginInv, ChainOfTrust
  <2> QED BY <2>1, <1>1, <1>3 DEF OriginInv, IssuedInv
<1> QED BY <1>6, <1>7, <1>8

LEMMA StutterKeepsTrust ==
    ASSUME TrustInv, UNCHANGED domainVars
    PROVE  TrustInv'
BY DEF TrustInv, DomainTypeOK, IssuedInv, WorkInv, Place, OriginInv, ChainOfTrust, Listed,
       domainVars, tables, thread, history

-----------------------------------------------------------------------------
(* The masters, where one thread runs callbacks.                           *)

\* The other threads are idle.
LEMMA OthersIdle ==
    ASSUME TrustInv, OneThread
    PROVE  \A t, u \in Thread : (pc[t] # "idle" \/ t \in parallel) /\ u # t => pc[u] = "idle"
<1>1. IsFiniteSet(parallel)
  BY FS_Subset, DomainAssumption DEF TrustInv, DomainTypeOK
<1>2. \E p : parallel = {p}
  BY <1>1, FS_Singleton DEF OneThread
<1> QED BY <1>2 DEF TrustInv, WorkInv, Place

\* A step that leaves the masters alone.
LEMMA MastersUntouched ==
    ASSUME MasterInv, UNCHANGED <<masters, ram>>,
           \A t \in Thread : pc'[t] = "appoint" <=> pc[t] = "appoint",
           \A t \in Thread : pc'[t] \in {"write", "retire", "appoint"} => ~IsCompromised
    PROVE  MasterInv'
BY DEF MasterInv, IsCompromised

\* Between the two statements no master is active, and memory has them all.
LEMMA RetireKeepsMasters ==
    ASSUME TrustInv, OneThread, MasterInv, NEW t \in Thread, Retire(t)
    PROVE  MasterInv'
<1>1. /\ Len(masters') = Len(masters) /\ masters' \in Seq(Master)
      /\ \A k \in 1..Len(masters) :
           /\ masters'[k].assetId = masters[k].assetId
           /\ masters'[k].active = (masters[k].active /\ masters[k].assetId # ram.last)
  BY RetireRows DEF TrustInv
<1>2. ~IsCompromised /\ Loaded(masters) = ram
      /\ \A k \in Active(masters) : masters[k].assetId = ram.last
  BY OthersIdle DEF MasterInv, Retire
<1>3. Active(masters') = {}
  BY <1>1, <1>2 DEF Active
<1>4. ram.ids = {masters[k].assetId : k \in 1..Len(masters)}
  <2>1. /\ ram.ids = {masters[k].assetId : k \in 1..Len(masters) \ Active(masters)} \cup {LastActive(masters)}
        /\ ram.last = LastActive(masters)
    BY <1>2 DEF Loaded
  <2>2. \E k \in 1..Len(masters) : masters[k].assetId = LastActive(masters)
    BY <2>1, <1>2, LastActiveIs DEF TrustInv, DomainTypeOK, IsCompromised, Active
  <2> QED BY <2>1, <2>2, <1>2
<1>6. pc'[t] = "appoint" /\ ram' = ram
  BY DEF Retire, TrustInv, DomainTypeOK
<1>5. ram'.ids = {masters'[k].assetId : k \in 1..Len(masters')}
  <2>1. \A x : (\E k \in 1..Len(masters) : x = masters[k].assetId)
                 <=> \E k \in 1..Len(masters') : x = masters'[k].assetId
    BY <1>1
  <2>2. {masters[k].assetId : k \in 1..Len(masters)} = {masters'[k].assetId : k \in 1..Len(masters')}
    BY <2>1
  <2> QED BY <1>4, <1>6, <2>2
<1> QED BY <1>2, <1>3, <1>5, <1>6 DEF MasterInv, IsCompromised

LEMMA AppointKeepsMasters ==
    ASSUME TrustInv, OneThread, MasterInv, NEW t \in Thread, Appoint(t)
    PROVE  MasterInv'
<1> DEFINE row == [assetId |-> work[t].next, active |-> TRUE]
<1>1. Active(masters) = {} /\ ram.ids = {masters[k].assetId : k \in 1..Len(masters)}
  BY DEF MasterInv, Appoint
<1>2. row \in Master /\ row.assetId = work[t].next /\ row.active
  BY NextMaster DEF Appoint, Master
<1>3. masters' = Append(masters, row) /\ ram' = [ids |-> ram.ids \cup {work[t].next}, last |-> work[t].next]
  BY DEF Appoint
<1> HIDE DEF row
<1> DEFINE n == Len(masters) + 1
<1>4. /\ masters' \in Seq(Master) /\ Len(masters') = n /\ n \in Nat
      /\ masters'[n] = row
      /\ \A k \in 1..Len(masters) : masters'[k] = masters[k] /\ k # n
      /\ 1..n = (1..Len(masters)) \cup {n}
  BY <1>2, <1>3 DEF TrustInv, DomainTypeOK
<1> HIDE DEF n
<1>5. Active(masters') = {n}
  BY <1>1, <1>2, <1>4 DEF Active
<1>6. LastActive(masters') = work[t].next
  BY <1>2, <1>4, <1>5, LastActiveIs
<1>7. {masters'[k].assetId : k \in 1..Len(masters') \ Active(masters')} = ram.ids
  BY <1>1, <1>4, <1>5
<1>8. Loaded(masters') = ram'
  BY <1>3, <1>6, <1>7 DEF Loaded
<1>9. \A u \in Thread : pc'[u] = "idle"
  BY OthersIdle DEF Appoint, Return, TrustInv, DomainTypeOK
<1>10. \A k \in Active(masters') : masters'[k].assetId = ram'.last
  BY <1>2, <1>3, <1>4, <1>5
<1> QED BY <1>8, <1>9, <1>10 DEF MasterInv

\* A new start finds in the table what there was in memory.
LEMMA RestartKeepsMasters ==
    ASSUME TrustInv, MasterInv, Restart
    PROVE  MasterInv'
<1>1. UNCHANGED masters /\ ram' = Loaded(masters) /\ \A t \in Thread : pc'[t] = "idle"
  BY DEF Restart
<1>2. \A k \in Active(masters) : masters[k].assetId = Loaded(masters).last
  BY DEF MasterInv
<1> QED BY <1>1, <1>2 DEF MasterInv

LEMMA StepKeepsMasters ==
    ASSUME TrustInv, OneThread, MasterInv, [DomainNext]_domainVars
    PROVE  MasterInv'
<1>1. ASSUME NEW a \in Asset, NEW m \in Metadata, ProcessAssetIssuance(a, m) PROVE MasterInv'
  BY <1>1, MastersUntouched DEF ProcessAssetIssuance, tables, thread, MasterInv
<1>2. ASSUME NEW t \in Thread, Callback(t) PROVE MasterInv'
  <2> USE DEF TrustInv, DomainTypeOK
  <2>1. CASE Call(t)
    BY <2>1, MastersUntouched DEF Call, tables, MasterInv
  <2>2. CASE Compare(t)
    BY <2>2, MastersUntouched DEF Compare, Return, tables, MasterInv
  <2>3. CASE AddDomain(t)
    BY <2>3, MastersUntouched DEF AddDomain, MasterInv
  <2>4. CASE RevokeDomain(t)
    BY <2>4, MastersUntouched DEF RevokeDomain, MasterInv
  <2>5. CASE Written(t)
    BY <2>5, MastersUntouched DEF Written, Return, tables, MasterInv
  <2> QED BY <2>1, <2>2, <2>3, <2>4, <2>5, <1>2, RetireKeepsMasters, AppointKeepsMasters DEF Callback
<1>3. CASE UNCHANGED domainVars
  BY <1>3, MastersUntouched DEF domainVars, tables, thread, MasterInv
<1> QED BY <1>1, <1>2, <1>3, RestartKeepsMasters DEF DomainNext

LEMMA MastersInit ==
    ASSUME DomainInit
    PROVE  MasterInv
<1> DEFINE row == [assetId |-> Root, active |-> TRUE]
<1>1. row \in Master /\ row.assetId = Root /\ row.active
  BY DomainAssumption DEF Master, Id
<1>2. masters = <<row>>
  BY DEF DomainInit
<1> HIDE DEF row
<1>3. masters \in Seq(Master) /\ 1..Len(masters) = {1} /\ masters[1] = row
  BY <1>1, <1>2
<1>4. Active(masters) = {1}
  BY <1>1, <1>3 DEF Active
<1>5. LastActive(masters) = Root
  BY <1>1, <1>3, <1>4, LastActiveIs
<1>6. {masters[k].assetId : k \in 1..Len(masters) \ Active(masters)} = {}
  BY <1>3, <1>4
<1>7. ram = [ids |-> {Root}, last |-> Root] /\ \A t \in Thread : pc[t] = "idle"
  BY DEF DomainInit
<1>8. Loaded(masters) = ram
  BY <1>5, <1>6, <1>7 DEF Loaded
<1>9. \A k \in Active(masters) : masters[k].assetId = ram.last
  BY <1>1, <1>3, <1>4, <1>7
<1> QED BY <1>7, <1>8, <1>9 DEF MasterInv

-----------------------------------------------------------------------------
(* Who owns a domain.                                                      *)

\* The first row of a known domain.
LEMMA FirstIs ==
    ASSUME DomainTypeOK, NEW d, Known(d)
    PROVE  /\ First(d) \in Rows(d) /\ First(d) \in 1..Len(domains)
           /\ \A l \in Rows(d) : First(d) <= l
<1>1. Rows(d) \in SUBSET Nat /\ Rows(d) # {}
  BY DEF Rows, Known
<1>2. \E k \in Rows(d) : \A l \in Rows(d) : k <= l
  BY <1>1, Least
<1> QED BY <1>2 DEF First, Rows

\* Rows that are only added behind, or whose owner is left alone, change no owner.
LEMMA OwnerKept ==
    ASSUME DomainTypeOK, DomainTypeOK', NEW d, Known(d),
           Len(domains) <= Len(domains'),
           \A k \in 1..Len(domains) : /\ domains'[k].domain = domains[k].domain
                                      /\ domains'[k].assetId = domains[k].assetId
    PROVE  Known(d)' /\ OwnerOf(d)' = OwnerOf(d)
<1>1. First(d) \in Rows(d)' /\ Known(d)'
  <2>1. First(d) \in 1..Len(domains) /\ domains[First(d)].domain = d
    BY FirstIs DEF Rows
  <2>2. First(d) \in 1..Len(domains') /\ domains'[First(d)].domain = d
    BY <2>1 DEF DomainTypeOK
  <2> QED BY <2>2 DEF Rows, Known
<1>2. First(d)' \in Rows(d)' /\ \A l \in Rows(d)' : First(d)' <= l
  <2>1. Rows(d)' \in SUBSET Nat /\ Rows(d)' # {}
    BY <1>1 DEF Rows
  <2>2. \E k \in Rows(d)' : \A l \in Rows(d)' : k <= l
    BY <2>1, Least
  <2> QED BY <2>2 DEF First
<1>3. First(d)' \in Rows(d)
  <2>1. First(d)' <= First(d)
    BY <1>1, <1>2
  <2>2. First(d)' \in 1..Len(domains)
    BY <2>1, <1>2, FirstIs DEF Rows, DomainTypeOK
  <2> QED BY <2>2, <1>2 DEF Rows
<1>4. First(d)' = First(d)
  <2>1. First(d)' <= First(d) /\ First(d) <= First(d)'
    BY <1>1, <1>2, <1>3, FirstIs
  <2>2. First(d)' \in Int /\ First(d) \in Int
    BY <1>3, FirstIs DEF Rows
  <2> QED BY <2>1, <2>2
<1> QED BY <1>1, <1>4, FirstIs DEF OwnerOf

LEMMA StepKeepsTrust ==
    ASSUME TrustInv, [DomainNext]_domainVars
    PROVE  TrustInv'
<1>1. ASSUME NEW t \in Thread, Callback(t) PROVE TrustInv'
  BY <1>1, CallKeepsTrust, CompareKeepsTrust, AddKeepsTrust, RevokeKeepsTrust,
     WrittenKeepsTrust, RetireKeepsTrust, AppointKeepsTrust DEF Callback
<1> QED BY <1>1, ProcessKeepsTrust, RestartKeepsTrust, StutterKeepsTrust DEF DomainNext

\* What a step does to the table of domains.
LEMMA RowsGrow ==
    ASSUME TrustInv, [DomainNext]_domainVars
    PROVE  /\ Len(domains) <= Len(domains')
           /\ \A k \in 1..Len(domains) : /\ domains'[k].domain = domains[k].domain
                                         /\ domains'[k].assetId = domains[k].assetId
<1> USE DEF TrustInv
<1>1. CASE UNCHANGED domains
  BY <1>1 DEF DomainTypeOK
<1>2. ASSUME NEW t \in Thread, AddDomain(t)
      PROVE  /\ Len(domains) <= Len(domains')
             /\ \A k \in 1..Len(domains) : domains'[k] = domains[k]
  BY <1>2 DEF AddDomain, DomainTypeOK
<1>3. ASSUME NEW t \in Thread, RevokeDomain(t)
      PROVE  /\ Len(domains) <= Len(domains')
             /\ \A k \in 1..Len(domains) : /\ domains'[k].domain = domains[k].domain
                                           /\ domains'[k].assetId = domains[k].assetId
  BY <1>3, RevokeRows DEF DomainTypeOK
<1>4. \/ UNCHANGED domains
      \/ \E t \in Thread : AddDomain(t) \/ RevokeDomain(t)
  <2>1. ASSUME NEW t \in Thread, Callback(t), ~AddDomain(t), ~RevokeDomain(t) PROVE UNCHANGED domains
    BY <2>1 DEF Callback, Call, Compare, Written, Retire, Appoint, tables
  <2>2. ASSUME NEW a \in Asset, NEW m \in Metadata, ProcessAssetIssuance(a, m) PROVE UNCHANGED domains
    BY <2>2 DEF ProcessAssetIssuance, tables
  <2>3. Restart \/ UNCHANGED domainVars => UNCHANGED domains
    BY DEF Restart, domainVars, tables
  <2> QED BY <2>1, <2>2, <2>3 DEF DomainNext
<1> QED BY <1>1, <1>2, <1>3, <1>4

\* Nothing undoes that domains are compromised.
LEMMA CompromiseStays ==
    ASSUME TrustInv, OneThread, MasterInv, [DomainNext]_domainVars, IsCompromised
    PROVE  IsCompromised'
<1>1. \A t \in Thread : pc[t] # "appoint"
  BY DEF MasterInv
<1>2. CASE Restart
  BY <1>1, <1>2 DEF Restart, MasterInv, IsCompromised
<1>3. CASE ~Restart
  <2>1. UNCHANGED ram
    <3>1. ASSUME NEW t \in Thread, Callback(t) PROVE UNCHANGED ram
      BY <3>1, <1>1 DEF Callback, Call, Compare, AddDomain, RevokeDomain, Written, Retire, Appoint, tables
    <3>2. ASSUME NEW a \in Asset, NEW m \in Metadata, ProcessAssetIssuance(a, m) PROVE UNCHANGED ram
      BY <3>2 DEF ProcessAssetIssuance, tables
    <3> QED BY <3>1, <3>2, <1>3 DEF DomainNext, domainVars, tables
  <2> QED BY <2>1 DEF IsCompromised
<1> QED BY <1>2, <1>3

\* The configuration stays.
LEMMA SameThreads ==
    ASSUME [DomainNext]_domainVars
    PROVE  UNCHANGED parallel
BY DEF DomainNext, Callback, Call, Compare, AddDomain, RevokeDomain, Written, Retire, Appoint,
       ProcessAssetIssuance, Restart, domainVars

-----------------------------------------------------------------------------
(* One row for each domain, where one thread runs callbacks.               *)

\* A step that leaves the table alone, and lets no work be added.
LEMMA RowsUntouched ==
    ASSUME RowInv, UNCHANGED domains,
           \A t \in Thread : /\ \A d \in work'[t].new : ~Known(d)
                             /\ \A d \in work'[t].revoked : Known(d)
    PROVE  RowInv'
BY DEF RowInv, Known, Rows

LEMMA AddKeepsRows ==
    ASSUME TrustInv, OneThread, RowInv, NEW t \in Thread, AddDomain(t)
    PROVE  RowInv'
<1> USE DEF TrustInv
<1>1. PICK d \in work[t].new :
         /\ domains' = Append(domains, [domain |-> d, assetId |-> work[t].dns[d], revoked |-> FALSE])
         /\ work' = [work EXCEPT ![t].new = @ \ {d}]
  BY DEF AddDomain
<1> DEFINE row == [domain |-> d, assetId |-> work[t].dns[d], revoked |-> FALSE]
           n == Len(domains) + 1
<1>2. row.domain = d
  OBVIOUS
<1> HIDE DEF row
<1>3. /\ Len(domains') = n /\ n \in Nat /\ domains'[n] = row
      /\ \A k \in 1..Len(domains) : domains'[k] = domains[k]
      /\ 1..n = (1..Len(domains)) \cup {n}
  BY <1>1 DEF DomainTypeOK, row
<1> HIDE DEF n
<1>4. ~Known(d)
  BY <1>1 DEF RowInv
<1>5. \A e : Known(e)' <=> Known(e) \/ e = d
  BY <1>2, <1>3 DEF Known, Rows
<1>6. ASSUME NEW u \in Thread
      PROVE  work'[u].new \subseteq work[u].new \ {d} /\ work'[u].revoked = work[u].revoked
  <2>1. CASE u = t
    BY <1>1, <2>1 DEF DomainTypeOK
  <2>2. CASE u # t
    <3>1. work[u].new = {}
      BY <2>2, OthersIdle DEF WorkInv, Place, AddDomain
    <3>2. work'[u] = work[u]
      BY <1>1, <2>2 DEF DomainTypeOK
    <3> QED BY <3>1, <3>2
  <2> QED BY <2>1, <2>2
<1>7. \A k, l \in 1..Len(domains') : domains'[k].domain = domains'[l].domain => k = l
  <2>1. \A k \in 1..Len(domains) : domains[k].domain # d
    BY <1>4 DEF Known, Rows
  <2> QED BY <1>2, <1>3, <2>1 DEF RowInv
<1> QED BY <1>5, <1>6, <1>7 DEF RowInv

LEMMA RevokeKeepsRows ==
    ASSUME TrustInv, RowInv, NEW t \in Thread, RevokeDomain(t)
    PROVE  RowInv'
<1> USE DEF TrustInv
<1>1. PICK d \in work[t].revoked :
         /\ work' = [work EXCEPT ![t].revoked = @ \ {d}]
         /\ Len(domains') = Len(domains)
         /\ \A k \in 1..Len(domains) : domains'[k].domain = domains[k].domain
  BY RevokeRows
<1>2. \A e : Known(e)' <=> Known(e)
  BY <1>1 DEF Known, Rows
<1>3. \A u \in Thread : work'[u].new \subseteq work[u].new /\ work'[u].revoked \subseteq work[u].revoked
  BY <1>1, WorkShrinks
<1> QED BY <1>1, <1>2, <1>3 DEF RowInv

\* A thread that has returned has nothing to write.
LEMMA ReturnKeepsRows ==
    ASSUME TrustInv, RowInv, UNCHANGED domains, NEW t \in Thread, Return(t)
    PROVE  RowInv'
<1>1. \A u \in Thread : u # t => work'[u] = work[u]
  BY DEF Return, TrustInv, DomainTypeOK
<1>2. work'[t].new = {} /\ work'[t].revoked = {}
  BY DEF Return, TrustInv, DomainTypeOK, NoWork, Work
<1> QED BY <1>1, <1>2, RowsUntouched DEF RowInv

LEMMA StepKeepsRows ==
    ASSUME TrustInv, OneThread, RowInv, [DomainNext]_domainVars
    PROVE  RowInv'
<1> USE DEF TrustInv
<1>1. CASE UNCHANGED <<domains, work>>
  BY <1>1, RowsUntouched DEF RowInv
<1>2. ASSUME NEW t \in Thread, Callback(t) PROVE RowInv'
  <2>1. CASE Call(t)
    <3>1. \A u \in Thread : u # t => work'[u] = work[u]
      BY <2>1 DEF Call
    <3>2. work'[t].new = {} /\ work'[t].revoked = {}
      BY <2>1 DEF Call, DomainTypeOK, Work
    <3> QED BY <2>1, <3>1, <3>2, RowsUntouched DEF RowInv, Call, tables
  <2>2. CASE Compare(t)
    <3>1. UNCHANGED domains
      BY <2>2 DEF Compare, tables
    <3>2. \A u \in Thread : u # t => work'[u] = work[u]
      <4>1. CASE Return(t)
        BY <4>1 DEF Return
      <4>2. CASE work' = [work EXCEPT ![t] = Work(<< >>, EMPTY)]
        BY <4>2
      <4>3. CASE work' = [work EXCEPT ![t] = [new |-> {d \in Listed(t) : ~Known(d)}, revoked |-> Changed(t),
                                              dns |-> @.dns, next |-> @.next]]
        BY <4>3
      <4> QED BY <2>2, <4>1, <4>2, <4>3 DEF Compare
    <3>3. \/ work'[t].new = {} /\ work'[t].revoked = {}
          \/ work'[t].new = {d \in Listed(t) : ~Known(d)} /\ work'[t].revoked = Changed(t)
      BY <2>2 DEF Compare, Return, DomainTypeOK, Work, NoWork
    <3> QED BY <3>1, <3>2, <3>3, RowsUntouched DEF RowInv, Changed
  <2>3. CASE Written(t)
    <3>1. UNCHANGED domains
      BY <2>3 DEF Written, tables
    <3> QED BY <2>3, <3>1, <1>1, ReturnKeepsRows DEF Written
  <2>4. CASE Retire(t)
    BY <2>4, <1>1 DEF Retire
  <2>5. CASE Appoint(t)
    BY <2>5, ReturnKeepsRows DEF Appoint
  <2> QED BY <1>2, <2>1, <2>2, <2>3, <2>4, <2>5, AddKeepsRows, RevokeKeepsRows DEF Callback
<1>3. ASSUME NEW a \in Asset, NEW m \in Metadata, ProcessAssetIssuance(a, m) PROVE RowInv'
  BY <1>1, <1>3 DEF ProcessAssetIssuance, tables, thread
<1>4. CASE Restart
  <2>1. \A u \in Thread : work'[u].new = {} /\ work'[u].revoked = {}
    BY <1>4 DEF Restart, NoWork, Work
  <2> QED BY <1>4, <2>1, RowsUntouched DEF Restart
<1> QED BY <1>1, <1>2, <1>3, <1>4 DEF DomainNext, domainVars, tables, thread

\* The owner of a domain that one row is of.
LEMMA OwnerIs ==
    ASSUME DomainTypeOK, RowInv, NEW k \in 1..Len(domains), NEW d, domains[k].domain = d
    PROVE  Known(d) /\ OwnerOf(d) = domains[k].assetId
<1>1. Rows(d) = {k}
  BY DEF Rows, RowInv
<1>2. Known(d)
  BY <1>1 DEF Known
<1>3. First(d) = k
  BY <1>1, <1>2, FirstIs
<1> QED BY <1>2, <1>3 DEF OwnerOf

-----------------------------------------------------------------------------
(* The table and the metadata, where one thread runs callbacks and none    *)
(* was cut short.                                                          *)

LEMMA FollowUntouched ==
    ASSUME FollowInv, UNCHANGED <<domains, followed, pc, work, ram>>
    PROVE  FollowInv'
<1>1. \A more, dns, revoked : Ahead(more, dns, revoked) => Ahead(more, dns, revoked)'
  BY DEF Ahead, Known, Rows
<1>2. \A t \in Thread : Listed(t)' = Listed(t) /\ Changed(t)' = Changed(t)
  BY DEF Listed, Changed, Known, Rows, OwnerOf, First
<1>3. \A t \in Thread : Tampered(t)' = Tampered(t)
  BY <1>2 DEF Tampered
<1>4. IsCompromised' = IsCompromised /\ \A d : Known(d)' = Known(d)
  BY DEF IsCompromised, Known, Rows
<1>5. (\A t \in Thread : pc'[t] = "idle") => Ahead({}, << >>, {})' /\ followed'.bad = IsCompromised'
  BY <1>1, <1>4 DEF FollowInv
<1>6. ASSUME NEW t \in Thread, pc'[t] = "compare"
      PROVE  /\ followed'.bad = (IsCompromised \/ Tampered(t))'
             /\ IF followed'.bad THEN Ahead({}, << >>, {})'
                ELSE Ahead({d \in Listed(t) : ~Known(d)}, work[t].dns, Changed(t))'
  <2>1. {d \in Listed(t) : ~Known(d)}' = {d \in Listed(t) : ~Known(d)}
    BY <1>2, <1>4
  <2>2. /\ followed.bad = (IsCompromised \/ Tampered(t))
        /\ IF followed.bad THEN Ahead({}, << >>, {})
           ELSE Ahead({d \in Listed(t) : ~Known(d)}, work[t].dns, Changed(t))
    BY <1>6 DEF FollowInv
  <2>3. followed'.bad = (IsCompromised \/ Tampered(t))'
    BY <2>2, <1>3, <1>4
  <2>4. ~followed.bad => Ahead({d \in Listed(t) : ~Known(d)}, work[t].dns, Changed(t))'
    BY <2>1, <2>2, <1>2 DEF Ahead, Known, Rows
  <2> QED BY <2>2, <2>3, <2>4, <1>1
<1>7. ASSUME NEW t \in Thread
      PROVE  /\ pc'[t] = "write" => Ahead(work[t].new, work[t].dns, work[t].revoked)' /\ ~followed'.bad
             /\ pc'[t] \in {"retire", "appoint"} =>
                  Ahead({}, << >>, {})' /\ followed'.bad = (work'[t].next = EMPTY)
  BY <1>1 DEF FollowInv, Ahead, Known, Rows
<1> QED BY <1>5, <1>6, <1>7 DEF FollowInv

\* What a callback is called with is compared with the table that all metadata
\* before made.
LEMMA CallKeepsFollow ==
    ASSUME TrustInv, OneThread, RowInv, FollowInv, NEW t \in Thread, Call(t)
    PROVE  FollowInv'
<1> USE DEF TrustInv
<1> DEFINE dns == Head(jobs).dns
           old == {d \in Domain : Known(d)}
           ch == {d \in DOMAIN dns : Known(d) /\ OwnerOf(d) # dns[d]}
<1>1. \A u \in Thread : pc[u] = "idle"
  BY OthersIdle DEF Call
<1>2. Ahead({}, << >>, {}) /\ followed.bad = IsCompromised
  BY <1>1 DEF FollowInv
<1>3. UNCHANGED <<domains, ram>> /\ followed' = Follow(followed, dns)
  BY DEF Call, tables
<1>4. /\ work'[t].dns = dns /\ pc'[t] = "compare"
      /\ \A u \in Thread : u # t => pc'[u] = "idle"
  BY <1>1 DEF Call, DomainTypeOK, Work
<1>5. dns \in Lists(Id) /\ DOMAIN dns \subseteq Domain
  <2>1. Head(jobs) \in Metadata
    BY DEF Call, DomainTypeOK
  <2> QED BY <2>1, DomainAssumption DEF Lists
<1> HIDE DEF dns
<1>6. DOMAIN followed.entry = old
  BY <1>2 DEF Ahead
<1>7. ASSUME NEW d \in old PROVE followed.entry[d].assetId = OwnerOf(d)
  <2>1. PICK k \in 1..Len(domains) : domains[k].domain = d
    BY DEF Known, Rows
  <2> QED BY <2>1, <1>2, OwnerIs DEF Ahead
<1>8. ch = {d \in DOMAIN dns \cap DOMAIN followed.entry : followed.entry[d].assetId # dns[d]}
  BY <1>5, <1>6, <1>7
<1>9. Changed(t)' = ch /\ (Tampered(t)' <=> \E d \in ch : dns[d] # EMPTY)
  BY <1>3, <1>4 DEF Changed, Tampered, Listed, Known, OwnerOf, First, Rows
<1>10. \A d : Known(d)' <=> Known(d)
  BY <1>3 DEF Known, Rows
<1> HIDE DEF ch, old
<1>11. /\ followed'.bad = (IsCompromised \/ Tampered(t))'
       /\ IF followed'.bad THEN Ahead({}, << >>, {})'
          ELSE Ahead({d \in Listed(t) : ~Known(d)}, work[t].dns, Changed(t))'
  <2> DEFINE more == {d \in DOMAIN dns : ~Known(d)}
             e(d) == IF d \in ch THEN [followed.entry[d] EXCEPT !.revoked = TRUE]
                     ELSE IF d \in DOMAIN followed.entry THEN followed.entry[d]
                     ELSE [assetId |-> dns[d], revoked |-> FALSE]
  <2>1. CASE followed.bad
    <3>1. followed' = followed
      BY <2>1, <1>3 DEF Follow
    <3>2. IsCompromised'
      BY <2>1, <1>2, <1>3 DEF IsCompromised
    <3>3. Ahead({}, << >>, {})'
      BY <3>1, <1>2, <1>3 DEF Ahead, Known, Rows
    <3> QED BY <3>1, <3>2, <3>3, <2>1
  <2>2. CASE ~followed.bad /\ \E d \in ch : dns[d] # EMPTY
    <3>1. followed'.bad /\ followed'.entry = followed.entry
      BY <2>2, <1>3, <1>8 DEF Follow, DomainTypeOK
    <3>2. Tampered(t)' /\ Ahead({}, << >>, {})'
      BY <3>1, <2>2, <1>2, <1>3, <1>9 DEF Ahead, Known, Rows
    <3> QED BY <3>1, <3>2
  <2>3. CASE ~followed.bad /\ ~\E d \in ch : dns[d] # EMPTY
    <3>1. /\ ~followed'.bad
          /\ followed'.entry = [d \in DOMAIN followed.entry \cup DOMAIN dns |-> e(d)]
          /\ followed'.bad = FALSE
      BY <2>3, <1>3, <1>8 DEF Follow, DomainTypeOK
    <3>2. ~IsCompromised' /\ ~Tampered(t)'
      BY <2>3, <1>2, <1>3, <1>9 DEF IsCompromised
    <3>3. /\ Listed(t)' = DOMAIN dns
          /\ {d \in Listed(t) : ~Known(d)}' = more
      BY <1>4, <1>10 DEF Listed
    <3>4. DOMAIN followed'.entry = {d \in Domain : Known(d)} \cup more
      BY <3>1, <1>5, <1>6 DEF old
    <3>5. ASSUME NEW d \in more PROVE followed'.entry[d].assetId = dns[d] /\ ~followed'.entry[d].revoked
      <4>1. d \notin ch /\ d \notin DOMAIN followed.entry
        BY <1>6, <1>8 DEF old
      <4> QED BY <3>1, <4>1
    <3>6. ASSUME NEW k \in 1..Len(domains)
          PROVE  /\ followed'.entry[domains[k].domain].assetId = domains[k].assetId
                 /\ followed'.entry[domains[k].domain].revoked =
                      (domains[k].revoked \/ domains[k].domain \in ch)
      <4> DEFINE d == domains[k].domain
      <4>1. d \in DOMAIN followed.entry
        <5>1. domains[k] \in Row
          BY DEF DomainTypeOK
        <5> QED BY <5>1, <1>6, OwnerIs DEF old, Row
      <4>2. followed.entry[d] \in [assetId : Id, revoked : BOOLEAN]
        BY <4>1 DEF DomainTypeOK, Lists
      <4>3. followed.entry[d].assetId = domains[k].assetId /\ followed.entry[d].revoked = domains[k].revoked
        <5>1. followed.entry[d].assetId = domains[k].assetId
              /\ followed.entry[d].revoked = (domains[k].revoked \/ d \in {})
          BY <1>2 DEF Ahead
        <5>2. domains[k].revoked \in BOOLEAN
          <6>1. domains[k] \in Row
            BY DEF DomainTypeOK
          <6> QED BY <6>1 DEF Row
        <5> QED BY <5>1, <5>2
      <4>4. followed'.entry[d] = e(d)
        BY <3>1, <4>1
      <4>5. CASE d \in ch
        BY <4>2, <4>3, <4>4, <4>5
      <4>6. CASE d \notin ch
        <5>1. domains[k].revoked \in BOOLEAN
          <6>1. domains[k] \in Row
            BY DEF DomainTypeOK
          <6> QED BY <6>1 DEF Row
        <5> QED BY <4>1, <4>3, <4>4, <4>6, <5>1
      <4> QED BY <4>5, <4>6
    <3>7. Ahead({d \in Listed(t) : ~Known(d)}, work[t].dns, Changed(t))'
      BY <3>3, <3>4, <3>5, <3>6, <1>3, <1>4, <1>9, <1>10 DEF Ahead
    <3> QED BY <3>1, <3>2, <3>7
  <2> QED BY <2>1, <2>2, <2>3
<1> QED BY <1>4, <1>11 DEF FollowInv

LEMMA CompareKeepsFollow ==
    ASSUME TrustInv, OneThread, FollowInv, NEW t \in Thread, Compare(t)
    PROVE  FollowInv'
<1> USE DEF TrustInv
<1>1. /\ UNCHANGED <<domains, followed, ram>> /\ pc[t] = "compare"
      /\ \A u \in Thread : u # t => pc'[u] = "idle"
  BY OthersIdle DEF Compare, Return, tables, history, DomainTypeOK
<1>2. /\ followed.bad = (IsCompromised \/ Tampered(t))
      /\ IF followed.bad THEN Ahead({}, << >>, {})
         ELSE Ahead({d \in Listed(t) : ~Known(d)}, work[t].dns, Changed(t))
  BY <1>1 DEF FollowInv
<1>3. CASE IsCompromised
  <2>1. pc'[t] = "idle"
    BY <1>3 DEF Compare, Return, DomainTypeOK
  <2>2. Ahead({}, << >>, {})' /\ IsCompromised' /\ followed'.bad
    BY <1>1, <1>2, <1>3 DEF Ahead, IsCompromised, Known, Rows
  <2> QED BY <1>1, <2>1, <2>2 DEF FollowInv
<1>4. CASE ~IsCompromised /\ Tampered(t)
  <2>1. pc'[t] = "retire" /\ work'[t].next = EMPTY
    BY <1>4 DEF Compare, DomainTypeOK, Work
  <2>2. Ahead({}, << >>, {})' /\ followed'.bad
    BY <1>1, <1>2, <1>4 DEF Ahead, Known, Rows
  <2> QED BY <1>1, <2>1, <2>2 DEF FollowInv
<1>5. CASE ~IsCompromised /\ ~Tampered(t)
  <2>1. /\ pc'[t] = "write"
        /\ work'[t].new = {d \in Listed(t) : ~Known(d)} /\ work'[t].revoked = Changed(t)
        /\ work'[t].dns = work[t].dns
    BY <1>5 DEF Compare, DomainTypeOK
  <2>2. Ahead({d \in Listed(t) : ~Known(d)}, work[t].dns, Changed(t)) /\ ~followed.bad
    BY <1>2, <1>5
  <2>3. Ahead(work[t].new, work[t].dns, work[t].revoked)' /\ ~followed'.bad
    BY <1>1, <2>1, <2>2 DEF Ahead, Known, Rows
  <2> QED BY <1>1, <2>1, <2>3 DEF FollowInv
<1> QED BY <1>3, <1>4, <1>5

LEMMA AddKeepsFollow ==
    ASSUME TrustInv, OneThread, RowInv, FollowInv, NEW t \in Thread, AddDomain(t)
    PROVE  FollowInv'
<1> USE DEF TrustInv
<1>1. PICK d \in work[t].new :
         /\ domains' = Append(domains, [domain |-> d, assetId |-> work[t].dns[d], revoked |-> FALSE])
         /\ work' = [work EXCEPT ![t].new = @ \ {d}]
  BY DEF AddDomain
<1> DEFINE row == [domain |-> d, assetId |-> work[t].dns[d], revoked |-> FALSE]
           n == Len(domains) + 1
<1>2. row.domain = d /\ row.assetId = work[t].dns[d] /\ row.revoked = FALSE
  OBVIOUS
<1> HIDE DEF row
<1>3. /\ Len(domains') = n /\ n \in Nat /\ domains'[n] = row
      /\ \A k \in 1..Len(domains) : domains'[k] = domains[k]
      /\ 1..n = (1..Len(domains)) \cup {n}
  BY <1>1 DEF DomainTypeOK, row
<1> HIDE DEF n
<1>4. d \in Domain /\ ~Known(d) /\ d \notin work[t].revoked
  BY <1>1 DEF RowInv, DomainTypeOK
<1>5. \A e : Known(e)' <=> Known(e) \/ e = d
  BY <1>2, <1>3 DEF Known, Rows
<1>6. /\ work'[t].new = work[t].new \ {d} /\ work'[t].revoked = work[t].revoked
      /\ work'[t].dns = work[t].dns
  BY <1>1 DEF DomainTypeOK
<1>7. /\ UNCHANGED <<pc, ram, followed>> /\ pc[t] = "write"
      /\ \A u \in Thread : u # t => pc[u] = "idle"
  BY OthersIdle DEF AddDomain, history
<1>8. Ahead(work[t].new, work[t].dns, work[t].revoked) /\ ~followed.bad
  BY <1>7 DEF FollowInv
<1>9. Ahead(work[t].new, work[t].dns, work[t].revoked)'
  <2>1. DOMAIN followed'.entry = {e \in Domain : Known(e)}' \cup work'[t].new
    BY <1>1, <1>4, <1>5, <1>6, <1>7, <1>8 DEF Ahead
  <2>2. ASSUME NEW k \in 1..Len(domains')
        PROVE  /\ followed'.entry[domains'[k].domain].assetId = domains'[k].assetId
               /\ followed'.entry[domains'[k].domain].revoked =
                    (domains'[k].revoked \/ domains'[k].domain \in work'[t].revoked)
    <3>1. CASE k \in 1..Len(domains)
      BY <3>1, <1>3, <1>6, <1>7, <1>8 DEF Ahead
    <3>2. CASE k = n
      <4>1. followed.entry[d].assetId = work[t].dns[d] /\ ~followed.entry[d].revoked
        BY <1>1, <1>8 DEF Ahead
      <4>2. followed.entry[d].revoked \in BOOLEAN
        <5>1. d \in DOMAIN followed.entry
          BY <1>1, <1>8 DEF Ahead
        <5>2. followed.entry[d] \in [assetId : Id, revoked : BOOLEAN]
          BY <5>1 DEF DomainTypeOK, Lists
        <5> QED BY <5>2
      <4> QED BY <3>2, <4>1, <4>2, <1>2, <1>3, <1>4, <1>6, <1>7
    <3> QED BY <3>1, <3>2, <1>3
  <2>3. \A e \in work'[t].new : followed'.entry[e].assetId = work'[t].dns[e] /\ ~followed'.entry[e].revoked
    BY <1>6, <1>7, <1>8 DEF Ahead
  <2> QED BY <2>1, <2>2, <2>3 DEF Ahead
<1> QED BY <1>7, <1>8, <1>9 DEF FollowInv

LEMMA RevokeKeepsFollow ==
    ASSUME TrustInv, OneThread, FollowInv, NEW t \in Thread, RevokeDomain(t)
    PROVE  FollowInv'
<1> USE DEF TrustInv
<1>1. PICK d \in work[t].revoked :
         /\ work' = [work EXCEPT ![t].revoked = @ \ {d}]
         /\ Len(domains') = Len(domains)
         /\ \A k \in 1..Len(domains) :
              /\ domains'[k].domain = domains[k].domain
              /\ domains'[k].assetId = domains[k].assetId
              /\ domains'[k].revoked = (domains[k].revoked \/ domains[k].domain = d)
  BY RevokeRows
<1>2. \A e : Known(e)' <=> Known(e)
  BY <1>1 DEF Known, Rows
<1>3. /\ work'[t].new = {} /\ work[t].new = {} /\ work'[t].revoked = work[t].revoked \ {d}
  BY <1>1 DEF DomainTypeOK, RevokeDomain
<1>4. /\ UNCHANGED <<pc, ram, followed>> /\ pc[t] = "write"
      /\ \A u \in Thread : u # t => pc[u] = "idle"
  BY OthersIdle DEF RevokeDomain, history
<1>5. Ahead(work[t].new, work[t].dns, work[t].revoked) /\ ~followed.bad
  BY <1>4 DEF FollowInv
<1>6. Ahead(work[t].new, work[t].dns, work[t].revoked)'
  <2>1. ASSUME NEW k \in 1..Len(domains')
        PROVE  /\ followed'.entry[domains'[k].domain].assetId = domains'[k].assetId
               /\ followed'.entry[domains'[k].domain].revoked =
                    (domains'[k].revoked \/ domains'[k].domain \in work'[t].revoked)
    <3>1. k \in 1..Len(domains)
      BY <1>1
    <3>2. /\ followed.entry[domains[k].domain].assetId = domains[k].assetId
          /\ followed.entry[domains[k].domain].revoked =
               (domains[k].revoked \/ domains[k].domain \in work[t].revoked)
      BY <3>1, <1>5 DEF Ahead
    <3>3. /\ domains'[k].domain = domains[k].domain
          /\ domains'[k].assetId = domains[k].assetId
          /\ domains'[k].revoked = (domains[k].revoked \/ domains[k].domain = d)
      BY <3>1, <1>1
    <3>4. (domains[k].revoked \/ domains[k].domain \in work[t].revoked) =
            ((domains[k].revoked \/ domains[k].domain = d) \/ domains[k].domain \in work'[t].revoked)
      BY <1>1, <1>3
    <3> QED BY <3>2, <3>3, <3>4, <1>4
  <2> QED BY <2>1, <1>2, <1>3, <1>4, <1>5 DEF Ahead
<1> QED BY <1>4, <1>5, <1>6 DEF FollowInv

\* Where all is written, followed is the table.
LEMMA AllWritten ==
    ASSUME NEW dns, Ahead({}, dns, {}), UNCHANGED <<domains, followed>>
    PROVE  Ahead({}, << >>, {})'
BY DEF Ahead, Known, Rows

LEMMA WrittenKeepsFollow ==
    ASSUME TrustInv, OneThread, MasterInv, FollowInv, NEW t \in Thread, Written(t)
    PROVE  FollowInv'
<1> USE DEF TrustInv
<1>1. /\ UNCHANGED <<domains, followed, ram>> /\ pc[t] = "write"
      /\ \A u \in Thread : u # t => pc'[u] = "idle"
  BY OthersIdle DEF Written, Return, tables, history, DomainTypeOK
<1>2. Ahead({}, work[t].dns, {}) /\ ~followed.bad /\ ~IsCompromised
  BY <1>1 DEF FollowInv, MasterInv, Written
<1>3. Ahead({}, << >>, {})' /\ ~followed'.bad /\ ~IsCompromised'
  BY <1>1, <1>2, AllWritten DEF IsCompromised
<1>4. followed'.bad = FALSE /\ IsCompromised' = FALSE
  BY <1>1, <1>3 DEF DomainTypeOK, IsCompromised
<1>5. CASE Return(t)
  BY <1>1, <1>3, <1>4, <1>5 DEF FollowInv, Return, DomainTypeOK
<1>6. CASE work[t].next # NONE /\ pc' = [pc EXCEPT ![t] = "retire"] /\ UNCHANGED work
  <2>1. work[t].next # EMPTY
    BY <1>1, DomainAssumption DEF WorkInv, Place, FromTrusted, IssuedInv, Id
  <2> QED BY <2>1, <1>1, <1>3, <1>4, <1>6 DEF FollowInv, DomainTypeOK
<1> QED BY <1>5, <1>6 DEF Written

LEMMA RetireKeepsFollow ==
    ASSUME TrustInv, OneThread, FollowInv, NEW t \in Thread, Retire(t)
    PROVE  FollowInv'
<1>1. /\ UNCHANGED <<domains, followed, ram, work>> /\ pc[t] = "retire" /\ pc'[t] = "appoint"
      /\ \A u \in Thread : u # t => pc'[u] = "idle"
  BY OthersIdle DEF Retire, history, DomainTypeOK, TrustInv
<1>2. Ahead({}, << >>, {})' /\ followed'.bad = (work'[t].next = EMPTY)
  BY <1>1, AllWritten DEF FollowInv
<1> QED BY <1>1, <1>2 DEF FollowInv

LEMMA AppointKeepsFollow ==
    ASSUME TrustInv, OneThread, FollowInv, NEW t \in Thread, Appoint(t)
    PROVE  FollowInv'
<1>1. /\ UNCHANGED <<domains, followed>> /\ pc[t] = "appoint" /\ ram'.last = work[t].next
      /\ \A u \in Thread : pc'[u] = "idle"
  BY OthersIdle DEF Appoint, Return, history, DomainTypeOK, TrustInv
<1>2. Ahead({}, << >>, {})' /\ followed'.bad = IsCompromised'
  BY <1>1, AllWritten DEF FollowInv, IsCompromised
<1> QED BY <1>1, <1>2 DEF FollowInv

\* A process that dies between two callbacks loses nothing.
LEMMA RestartKeepsFollow ==
    ASSUME TrustInv, OneThread, MasterInv, FollowInv, Restart, ~cut'
    PROVE  FollowInv'
<1>1. \A t \in Thread : pc[t] = "idle" /\ pc'[t] = "idle"
  BY DEF Restart
<1>2. Ahead({}, << >>, {}) /\ followed.bad = IsCompromised /\ UNCHANGED <<domains, followed, ram>>
  BY <1>1 DEF FollowInv, MasterInv, Restart
<1> QED BY <1>1, <1>2, AllWritten DEF FollowInv, IsCompromised

LEMMA FollowInit ==
    ASSUME DomainInit
    PROVE  RowInv /\ FollowInv
<1>1. /\ domains = << >> /\ Len(domains) = 0 /\ DOMAIN followed.entry = {} /\ followed.bad = FALSE
      /\ ram.last = Root /\ \A t \in Thread : pc[t] = "idle" /\ work[t].new = {} /\ work[t].revoked = {}
  BY DEF DomainInit, EmptyList, NoWork, Work
<1>2. RowInv
  BY <1>1 DEF RowInv
<1>3. IsCompromised = FALSE
  BY <1>1, DomainAssumption DEF IsCompromised
<1>4. Ahead({}, << >>, {})
  BY <1>1 DEF Ahead, Known, Rows
<1> QED BY <1>1, <1>2, <1>3, <1>4 DEF FollowInv

-----------------------------------------------------------------------------
(* Theorems.                                                               *)

MastersIInv == TrustInv /\ (OneThread => MasterInv)

LEMMA MastersInductive == DomainSpec => []MastersIInv
<1>1. DomainInit => MastersIInv
  BY TrustInit, MastersInit DEF MastersIInv
<1>2. MastersIInv /\ [DomainNext]_domainVars => MastersIInv'
  BY StepKeepsTrust, StepKeepsMasters, SameThreads DEF MastersIInv, OneThread
<1> QED BY <1>1, <1>2, PTL DEF DomainSpec

\* The types hold; every master and every domain goes back to the root, whatever
\* the threads interleave and wherever the process ends; and with one thread a new
\* start takes up the masters there were (DigiByteDomain.cpp processAssetIssuance,
\* _callbackNewMetadata; Database.cpp setMasterDomainAssetId, initializeClassValues).
THEOREM MastersHold == DomainSpec => []MastersInv
<1>1. MastersIInv => MastersInv
  BY DEF MastersIInv, MastersInv, TrustInv, OriginInv, OneThread, MasterInv, RestartAgrees
<1> QED BY <1>1, MastersInductive, PTL

\* No step gives a known domain another owner, with any threads, and with one thread
\* none undoes that domains are compromised (the same functions).
THEOREM DecisionsHold == DomainSpec => DecisionsStand
<1>1. TrustInv /\ TrustInv' /\ [DomainNext]_domainVars =>
        [\A d \in Domain : Known(d) => Known(d)' /\ OwnerOf(d)' = OwnerOf(d)]_domainVars
  BY RowsGrow, OwnerKept DEF TrustInv
<1>2. MastersIInv /\ [DomainNext]_domainVars =>
        [Cardinality(parallel) = 1 /\ IsCompromised => IsCompromised']_domainVars
  BY CompromiseStays DEF MastersIInv, OneThread
<1>3. MastersIInv => TrustInv
  BY DEF MastersIInv
<1> QED BY <1>1, <1>2, <1>3, MastersInductive, PTL
        DEF DomainSpec, DecisionsStand, OwnersStay, CompromiseIsFinal

LEMMA IInvInductive == DomainSpec => []IInv
<1>1. DomainInit => IInv
  BY TrustInit, MastersInit, FollowInit DEF IInv
<1>2. IInv /\ [DomainNext]_domainVars => IInv'
  <2> SUFFICES ASSUME IInv, [DomainNext]_domainVars PROVE IInv'
    OBVIOUS
  <2>1. TrustInv /\ TrustInv' /\ UNCHANGED parallel
    BY StepKeepsTrust, SameThreads DEF IInv
  <2>2. OneThread => (MasterInv /\ RowInv)'
    BY StepKeepsMasters, StepKeepsRows DEF IInv
  <2>3. ASSUME OneThread, ~cut', ~cut PROVE FollowInv'
    <3>1. MasterInv /\ RowInv /\ FollowInv
      BY <2>3 DEF IInv
    <3>2. ASSUME NEW a \in Asset, NEW m \in Metadata, ProcessAssetIssuance(a, m) PROVE FollowInv'
      BY <3>1, <3>2, FollowUntouched DEF ProcessAssetIssuance, tables, thread
    <3>3. ASSUME NEW t \in Thread, Callback(t) PROVE FollowInv'
      BY <2>1, <2>3, <3>1, <3>3, CallKeepsFollow, CompareKeepsFollow, AddKeepsFollow, RevokeKeepsFollow,
         WrittenKeepsFollow, RetireKeepsFollow, AppointKeepsFollow DEF Callback
    <3>4. CASE UNCHANGED domainVars
      BY <3>1, <3>4, FollowUntouched DEF domainVars, tables, thread, history
    <3> QED BY <2>1, <2>3, <3>1, <3>2, <3>3, <3>4, RestartKeepsFollow DEF DomainNext
  <2>4. cut => cut'
    BY DEF DomainNext, Callback, Call, Compare, AddDomain, RevokeDomain, Written, Retire, Appoint,
           ProcessAssetIssuance, Restart, domainVars, history
  <2> QED BY <2>1, <2>2, <2>3, <2>4 DEF IInv, OneThread
<1> QED BY <1>1, <1>2, PTL DEF DomainSpec

\* With one thread, and no process that died in a callback, the table and memory are
\* what the metadata, taken one after the other and each as a whole, makes of them:
\* that a callback writes statement by statement, compared beforehand, loses nothing
\* (DigiByteDomain.cpp _callbackNewMetadata).
THEOREM ListHolds == DomainSpec => []ListFollowed
<1>1. IInv => ListFollowed
  <2> SUFFICES ASSUME IInv, OneThread, ~cut, \A t \in Thread : pc[t] = "idle"
               PROVE  /\ followed.bad = IsCompromised
                      /\ {domains[k].domain : k \in 1..Len(domains)} = DOMAIN followed.entry
                      /\ \A k \in 1..Len(domains) :
                            /\ domains[k].assetId = followed.entry[domains[k].domain].assetId
                            /\ domains[k].revoked = followed.entry[domains[k].domain].revoked
    BY DEF ListFollowed, OneThread
  <2>1. Ahead({}, << >>, {}) /\ followed.bad = IsCompromised
    BY DEF IInv, FollowInv
  <2>2. \A k \in 1..Len(domains) : domains[k].domain \in Domain /\ domains[k].revoked \in BOOLEAN
    <3>1. \A k \in 1..Len(domains) : domains[k] \in Row
      BY DEF IInv, TrustInv, DomainTypeOK
    <3> QED BY <3>1 DEF Row
  <2>3. {domains[k].domain : k \in 1..Len(domains)} = DOMAIN followed.entry
    BY <2>1, <2>2 DEF Ahead, Known, Rows
  <2>4. ASSUME NEW k \in 1..Len(domains)
        PROVE  /\ domains[k].assetId = followed.entry[domains[k].domain].assetId
               /\ domains[k].revoked = followed.entry[domains[k].domain].revoked
    <3>1. /\ followed.entry[domains[k].domain].assetId = domains[k].assetId
          /\ followed.entry[domains[k].domain].revoked =
               (domains[k].revoked \/ domains[k].domain \in {})
      BY <2>1 DEF Ahead
    <3> QED BY <3>1, <2>2
  <2> QED BY <2>1, <2>3, <2>4
<1> QED BY <1>1, IInvInductive, PTL
=============================================================================

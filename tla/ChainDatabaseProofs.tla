------------------------ MODULE ChainDatabaseProofs ------------------------
(***************************************************************************)
(* For every set of outputs, addresses, feeds, ballots and assets, and for *)
(* any number of blocks, prunes, rewinds and deaths of the process:        *)
(*                                                                         *)
(*   - the clear of a height takes away exactly what processing wrote from *)
(*     that height on, as long as no asset is issued again and no revoked  *)
(*     address is revoked again (ErasedHolds; where it does not: the       *)
(*     switches Reissue and RevokeAgain of ChainDatabase);                 *)
(*   - the tables keep RollbackLedger's promise, as long as besides no     *)
(*     rewind reaches below the exchange rates a prune left and the        *)
(*     process does not die inside a prune or a rewind (RefinesHolds);     *)
(*   - and then their rows have the types and dates they should            *)
(*     (TypeCorrect).                                                      *)
(*                                                                         *)
(* Every statement touches one table, so the argument is made table by     *)
(* table: Table(u, k, x, v, a) is the database with those five tables.     *)
(* The promise rests on RollbackInv: with the rows a prune is about to put *)
(* back, no row is of a height above the open block, and what the          *)
(* statements of a rewind have deleted so far is gone.  Each step is then  *)
(* a step of the ledger: processing, a statement of a clear and putting    *)
(* back leave what a clear of each recorded block would leave, a prune     *)
(* leaves what is answered of the blocks that stay (the votes by           *)
(* arithmetic modulo 2^32 over sums of rows, the rates because the newest  *)
(* older one of each feed is kept), and a rewind and a death lose no more  *)
(* than the open block.                                                    *)
(***************************************************************************)
EXTENDS ChainDatabase, TLAPS, FiniteSetTheorems, WellFoundedInduction, NaturalsInduction

Table(u, k, x, v, a) ==
    [utxos |-> u, kyc |-> k, exchange |-> x, votes |-> v, assets |-> a]

-----------------------------------------------------------------------------
(* clearBlocksAboveHeight, table by table.                                 *)

CreatedBelow(u, h) == {w \in u : w.created < h}
Undestroyed(u, h) == {[w EXCEPT !.destroyed = IF @ >= h THEN NULL ELSE @] : w \in u}
Unrevoked(k, h) == {[w EXCEPT !.revoked = IF @ >= h THEN NULL ELSE @] : w \in k}
RowsBelow(s, h) == {r \in s : r.height < h}
AssetsBelow(a, h) == {r \in a : ~(r.created > 1 /\ r.created >= h)}

\* Each statement changes its own table only.
LEMMA Statements ==
    ASSUME NEW u, NEW k, NEW x, NEW v, NEW a, NEW h
    PROVE  /\ DeleteAssets(Table(u, k, x, v, a), h) = Table(u, k, x, v, AssetsBelow(a, h))
           /\ DeleteExchange(Table(u, k, x, v, a), h) = Table(u, k, RowsBelow(x, h), v, a)
           /\ DeleteKyc(Table(u, k, x, v, a), h) = Table(u, RowsBelow(k, h), x, v, a)
           /\ ResetRevoked(Table(u, k, x, v, a), h) = Table(u, Unrevoked(k, h), x, v, a)
           /\ DeleteUtxos(Table(u, k, x, v, a), h) = Table(CreatedBelow(u, h), k, x, v, a)
           /\ ResetDestroyed(Table(u, k, x, v, a), h) = Table(Undestroyed(u, h), k, x, v, a)
           /\ DeleteVotes(Table(u, k, x, v, a), h) = Table(u, k, x, RowsBelow(v, h), a)
<1>1. DeleteAssets(Table(u, k, x, v, a), h) = Table(u, k, x, v, AssetsBelow(a, h))
  <2>1. Table(u, k, x, v, a).assets = a
    BY DEF Table
  <2>2. DeleteAssets(Table(u, k, x, v, a), h)
          = [Table(u, k, x, v, a) EXCEPT !.assets = AssetsBelow(a, h)]
    BY <2>1 DEF DeleteAssets, AssetsBelow
  <2>3. QED BY <2>2 DEF Table
<1>2. DeleteExchange(Table(u, k, x, v, a), h) = Table(u, k, RowsBelow(x, h), v, a)
  BY DEF DeleteExchange, Table, RowsBelow
<1>3. DeleteKyc(Table(u, k, x, v, a), h) = Table(u, RowsBelow(k, h), x, v, a)
  BY DEF DeleteKyc, Table, RowsBelow
<1>4. ResetRevoked(Table(u, k, x, v, a), h) = Table(u, Unrevoked(k, h), x, v, a)
  BY DEF ResetRevoked, Table, Unrevoked
<1>5. DeleteUtxos(Table(u, k, x, v, a), h) = Table(CreatedBelow(u, h), k, x, v, a)
  BY DEF DeleteUtxos, Table, CreatedBelow
<1>6. ResetDestroyed(Table(u, k, x, v, a), h) = Table(Undestroyed(u, h), k, x, v, a)
  BY DEF ResetDestroyed, Table, Undestroyed
<1>7. DeleteVotes(Table(u, k, x, v, a), h) = Table(u, k, x, RowsBelow(v, h), a)
  BY DEF DeleteVotes, Table, RowsBelow
<1>8. QED BY <1>1, <1>2, <1>3, <1>4, <1>5, <1>6, <1>7

\* All of them.
LEMMA ClearTables ==
    ASSUME NEW u, NEW k, NEW x, NEW v, NEW a, NEW h
    PROVE  Clear(Table(u, k, x, v, a), h)
             = Table(Undestroyed(CreatedBelow(u, h), h), Unrevoked(RowsBelow(k, h), h),
                     RowsBelow(x, h), RowsBelow(v, h), AssetsBelow(a, h))
BY Statements DEF Clear

-----------------------------------------------------------------------------
(* addToDatabase, table by table.                                          *)

Marked(u, ins, H) ==
    {[w EXCEPT !.destroyed = IF w.out \in ins THEN H ELSE @] : w \in u}
Fresh(outs, H) == {[out |-> o, created |-> H, destroyed |-> NULL] : o \in outs}
Added(u, outs, H) == u \cup Fresh(outs, H)
Revoked(k, b, H) == {[w EXCEPT !.revoked = IF w.address = b THEN H ELSE @] : w \in k}

OneRow(u) == \A p, q \in u : p.out = q.out => p = q
SpentOuts(u) == {w.out : w \in {r \in u : r.destroyed = NULL}}

\* spendUTXO: a row that is marked was unspent, so the clear restores it.
LEMMA SpendCleared ==
    ASSUME NEW u \in SUBSET UtxoRow, OneRow(u), NEW H \in Nat, NEW h \in 1 .. H,
           NEW ins \in SUBSET SpentOuts(u)
    PROVE  /\ Marked(u, ins, H) \subseteq UtxoRow
           /\ OneRow(Marked(u, ins, H))
           /\ \A o : (\A w \in u : w.out # o) => \A w \in Marked(u, ins, H) : w.out # o
           /\ Undestroyed(CreatedBelow(Marked(u, ins, H), h), h)
                 = Undestroyed(CreatedBelow(u, h), h)
<1> DEFINE Mark(w) == [w EXCEPT !.destroyed = IF w.out \in ins THEN H ELSE @]
           Reset(w) == [w EXCEPT !.destroyed = IF @ >= h THEN NULL ELSE @]
<1>1. \A w \in u : Mark(w) \in UtxoRow /\ Mark(w).out = w.out /\ Mark(w).created = w.created
  BY DEF UtxoRow
<1>2. \A w \in u : w.out \in ins => w.destroyed = NULL
  BY DEF SpentOuts, OneRow
<1>3. \A w \in u : Reset(Mark(w)) = Reset(w)
  <2> SUFFICES ASSUME NEW w \in u PROVE Reset(Mark(w)) = Reset(w)
    OBVIOUS
  <2>1. w \in UtxoRow
    OBVIOUS
  <2>2. CASE w.out \in ins
    <3>1. w.destroyed = 0
      BY <2>2, <1>2 DEF NULL
    <3>2. Mark(w) = [w EXCEPT !.destroyed = H]
      BY <2>2
    <3>3. Mark(w).destroyed = H /\ [Mark(w) EXCEPT !.destroyed = 0] = [w EXCEPT !.destroyed = 0]
      BY <2>1, <3>2 DEF UtxoRow
    <3>. HIDE DEF Mark
    <3>4. Reset(Mark(w)) = [Mark(w) EXCEPT !.destroyed = 0]
      BY <3>3, H >= h DEF NULL
    <3>5. Reset(w) = [w EXCEPT !.destroyed = 0]
      BY <3>1 DEF NULL
    <3> QED BY <3>3, <3>4, <3>5
  <2>3. CASE w.out \notin ins
    <3>1. Mark(w) = w
      BY <2>1, <2>3 DEF UtxoRow
    <3> QED BY <3>1
  <2> QED BY <2>2, <2>3
<1>4. Marked(u, ins, H) = {Mark(w) : w \in u}
  BY DEF Marked
<1>5. /\ Undestroyed(CreatedBelow(u, h), h) = {Reset(w) : w \in CreatedBelow(u, h)}
      /\ Undestroyed(CreatedBelow(Marked(u, ins, H), h), h)
           = {Reset(w) : w \in CreatedBelow(Marked(u, ins, H), h)}
  BY DEF Undestroyed
<1> HIDE DEF Mark, Reset
<1>6. CreatedBelow(Marked(u, ins, H), h) = {Mark(w) : w \in CreatedBelow(u, h)}
  BY <1>1, <1>4 DEF CreatedBelow
<1>7. Undestroyed(CreatedBelow(Marked(u, ins, H), h), h) = Undestroyed(CreatedBelow(u, h), h)
  <2>1. \A w \in CreatedBelow(u, h) : Reset(Mark(w)) = Reset(w)
    BY <1>3 DEF CreatedBelow
  <2> QED BY <1>5, <1>6, <2>1
<1>8. OneRow(Marked(u, ins, H))
  BY <1>1, <1>4 DEF OneRow
<1> QED BY <1>1, <1>4, <1>7, <1>8

\* createUTXO
LEMMA CreateCleared ==
    ASSUME NEW u \in SUBSET UtxoRow, OneRow(u), NEW H \in Nat, NEW h \in 1 .. H,
           NEW outs \in SUBSET Out, \A o \in outs : \A w \in u : w.out # o
    PROVE  /\ Added(u, outs, H) \in SUBSET UtxoRow
           /\ OneRow(Added(u, outs, H))
           /\ CreatedBelow(Added(u, outs, H), h) = CreatedBelow(u, h)
<1>1. Fresh(outs, H) \subseteq UtxoRow
  BY DEF Fresh, UtxoRow, NULL
<1>2. \A w \in Fresh(outs, H) : w.created = H /\ w.out \in outs
                              /\ w = [out |-> w.out, created |-> H, destroyed |-> NULL]
  BY DEF Fresh
<1>3. OneRow(u \cup Fresh(outs, H))
  BY <1>2 DEF OneRow
<1>4. CreatedBelow(u \cup Fresh(outs, H), h) = CreatedBelow(u, h)
  BY <1>2 DEF CreatedBelow
<1> QED BY <1>1, <1>3, <1>4 DEF Added

\* revokeKYC
LEMMA RevokeCleared ==
    ASSUME NEW k \in SUBSET KycRow, NEW H \in Nat, NEW h \in 1 .. H, NEW b,
           \A w \in k : w.address = b => w.revoked = NULL
    PROVE  /\ Revoked(k, b, H) \subseteq KycRow
           /\ Unrevoked(RowsBelow(Revoked(k, b, H), h), h) = Unrevoked(RowsBelow(k, h), h)
<1> DEFINE Mark(w) == [w EXCEPT !.revoked = IF w.address = b THEN H ELSE @]
           Reset(w) == [w EXCEPT !.revoked = IF @ >= h THEN NULL ELSE @]
<1>1. \A w \in k : Mark(w) \in KycRow /\ Mark(w).height = w.height
  <2> SUFFICES ASSUME NEW w \in k PROVE Mark(w) \in KycRow /\ Mark(w).height = w.height
    OBVIOUS
  <2>1. w \in KycRow
    OBVIOUS
  <2> QED BY <2>1 DEF KycRow
<1>2. \A w \in k : Reset(Mark(w)) = Reset(w)
  <2> SUFFICES ASSUME NEW w \in k PROVE Reset(Mark(w)) = Reset(w)
    OBVIOUS
  <2>1. w \in KycRow
    OBVIOUS
  <2>2. CASE w.address = b
    <3>1. w.revoked = 0
      BY <2>2 DEF NULL
    <3>2. Mark(w) = [w EXCEPT !.revoked = H]
      BY <2>2
    <3>3. Mark(w).revoked = H /\ [Mark(w) EXCEPT !.revoked = 0] = [w EXCEPT !.revoked = 0]
      BY <2>1, <3>2 DEF KycRow
    <3>. HIDE DEF Mark
    <3>4. Reset(Mark(w)) = [Mark(w) EXCEPT !.revoked = 0]
      BY <3>3, H >= h DEF NULL
    <3>5. Reset(w) = [w EXCEPT !.revoked = 0]
      BY <3>1 DEF NULL
    <3> QED BY <3>3, <3>4, <3>5
  <2>3. CASE w.address # b
    <3>1. Mark(w) = w
      BY <2>1, <2>3 DEF KycRow
    <3> QED BY <3>1
  <2> QED BY <2>2, <2>3
<1>3. Revoked(k, b, H) = {Mark(w) : w \in k}
  BY DEF Revoked
<1>4. /\ Unrevoked(RowsBelow(k, h), h) = {Reset(w) : w \in RowsBelow(k, h)}
      /\ Unrevoked(RowsBelow(Revoked(k, b, H), h), h)
           = {Reset(w) : w \in RowsBelow(Revoked(k, b, H), h)}
  BY DEF Unrevoked
<1> HIDE DEF Mark, Reset
<1>5. RowsBelow(Revoked(k, b, H), h) = {Mark(w) : w \in RowsBelow(k, h)}
  BY <1>1, <1>3 DEF RowsBelow
<1>6. \A w \in RowsBelow(k, h) : Reset(Mark(w)) = Reset(w)
  BY <1>2 DEF RowsBelow
<1>7. Unrevoked(RowsBelow(Revoked(k, b, H), h), h) = Unrevoked(RowsBelow(k, h), h)
  BY <1>4, <1>5, <1>6
<1>8. Revoked(k, b, H) \subseteq KycRow
  BY <1>1, <1>3
<1> QED BY <1>7, <1>8

\* addVote: rows of the present height only are added, or replaced by a sum.
VotedOn(cast) == {b \in Ballot : cast[b] > 0}
Sum(v, b, cast, H) ==
    cast[b] + MapThenSumSet(LAMBDA r : r.count, {r \in v : r.ballot = b /\ r.height = H})
Counts(v, cast, H) ==
    {[ballot |-> b, height |-> H, count |-> Sum(v, b, cast, H)] : b \in VotedOn(cast)}
Voted(v, cast, H) ==
    {r \in v : ~(r.height = H /\ r.ballot \in VotedOn(cast))} \cup Counts(v, cast, H)

LEMMA VoteAdded ==
    ASSUME NEW u, NEW k, NEW x, NEW v, NEW a, NEW cast, NEW H \in Nat
    PROVE  AddVote(Table(u, k, x, v, a), cast, H) = Table(u, k, x, Voted(v, cast, H), a)
<1>1. Table(u, k, x, v, a).votes = v
  BY DEF Table
<1>2. AddVote(Table(u, k, x, v, a), cast, H)
        = [Table(u, k, x, v, a) EXCEPT !.votes = Voted(v, cast, H)]
  BY <1>1 DEF AddVote, Voted, Counts, Sum, VotedOn
<1>3. [Table(u, k, x, v, a) EXCEPT !.votes = Voted(v, cast, H)]
        = Table(u, k, x, Voted(v, cast, H), a)
  BY DEF Table
<1> QED BY <1>2, <1>3

LEMMA VoteCleared ==
    ASSUME NEW v, NEW cast, NEW H \in Nat, NEW h \in 1 .. H
    PROVE  RowsBelow(Voted(v, cast, H), h) = RowsBelow(v, h)
<1>1. \A r \in Counts(v, cast, H) : r.height = H
  BY DEF Counts
<1> QED BY <1>1 DEF RowsBelow, Voted

\* What the rows of utxos and kyc must be like for all this.
Good(u, k) == u \in SUBSET UtxoRow /\ OneRow(u) /\ k \in SUBSET KycRow

\* What a clear leaves is the same.
SameBelow(d, e, H) == \A h \in 1 .. H : Clear(d, h) = Clear(e, h)

\* The part every transaction has.
LEMMA TransactionCleared ==
    ASSUME NEW u, NEW k, NEW x, NEW v, NEW a, NEW kk, NEW xx, NEW aa,
           NEW H \in Nat \ {0}, Good(u, k), kk \in SUBSET KycRow,
           \A h \in 1 .. H : /\ Unrevoked(RowsBelow(kk, h), h) = Unrevoked(RowsBelow(k, h), h)
                             /\ RowsBelow(xx, h) = RowsBelow(x, h)
                             /\ AssetsBelow(aa, h) = AssetsBelow(a, h),
           NEW ins \in SUBSET SpentOuts(u), NEW outs \in SUBSET Out,
           \A o \in outs : \A w \in u : w.out # o, NEW cast, NEW e,
           e = AddVote(CreateUTXO(SpendUTXO(Table(u, kk, xx, v, aa), ins, H), outs, H), cast, H)
    PROVE  /\ SameBelow(e, Table(u, k, x, v, a), H)
           /\ e = Table(Added(Marked(u, ins, H), outs, H), kk, xx, Voted(v, cast, H), aa)
           /\ Good(Added(Marked(u, ins, H), outs, H), kk)
<1> DEFINE u1 == Marked(u, ins, H)
           u2 == Added(u1, outs, H)
           w == Voted(v, cast, H)
<1>1. SpendUTXO(Table(u, kk, xx, v, aa), ins, H) = Table(u1, kk, xx, v, aa)
  <2>1. Table(u, kk, xx, v, aa).utxos = u
    BY DEF Table
  <2>2. SpendUTXO(Table(u, kk, xx, v, aa), ins, H) = [Table(u, kk, xx, v, aa) EXCEPT !.utxos = u1]
    BY <2>1 DEF SpendUTXO, Marked
  <2> HIDE DEF u1
  <2>3. QED BY <2>2 DEF Table
<1>2. CreateUTXO(Table(u1, kk, xx, v, aa), outs, H) = Table(u2, kk, xx, v, aa)
  <2> HIDE DEF u1
  <2>1. Table(u1, kk, xx, v, aa).utxos = u1
    BY DEF Table
  <2>2. CreateUTXO(Table(u1, kk, xx, v, aa), outs, H) = [Table(u1, kk, xx, v, aa) EXCEPT !.utxos = u2]
    BY <2>1 DEF CreateUTXO, Fresh, Added
  <2> HIDE DEF u2
  <2>3. QED BY <2>2 DEF Table
<1>3. /\ AddVote(Table(u2, kk, xx, v, aa), cast, H) = Table(u2, kk, xx, w, aa)
      /\ \A h \in 1 .. H : RowsBelow(w, h) = RowsBelow(v, h)
  <2> HIDE DEF u2
  <2>1. H \in Nat
    OBVIOUS
  <2>2. AddVote(Table(u2, kk, xx, v, aa), cast, H) = Table(u2, kk, xx, Voted(v, cast, H), aa)
    BY <2>1, VoteAdded
  <2>3. \A h \in 1 .. H : RowsBelow(Voted(v, cast, H), h) = RowsBelow(v, h)
    BY <2>1, VoteCleared
  <2> QED BY <2>2, <2>3
<1>4. e = Table(u2, kk, xx, w, aa)
  <2> HIDE DEF u1, u2
  <2> QED BY <1>1, <1>2, <1>3
<1>5. ASSUME NEW h \in 1 .. H
      PROVE  Undestroyed(CreatedBelow(u2, h), h) = Undestroyed(CreatedBelow(u, h), h)
             /\ u2 \in SUBSET UtxoRow /\ OneRow(u2)
  <2>1. /\ u1 \in SUBSET UtxoRow /\ OneRow(u1)
        /\ \A o \in outs : \A r \in u1 : r.out # o
        /\ Undestroyed(CreatedBelow(u1, h), h) = Undestroyed(CreatedBelow(u, h), h)
    BY SpendCleared DEF Good
  <2> HIDE DEF u1
  <2>2. H \in Nat /\ outs \in SUBSET Out /\ h \in 1 .. H /\ u1 \in SUBSET UtxoRow
    BY <2>1
  <2>3. OneRow(u1)
    BY <2>1
  <2>4. \A o \in outs : \A r \in u1 : r.out # o
    BY <2>1
  <2>5. u2 \in SUBSET UtxoRow /\ OneRow(u2) /\ CreatedBelow(u2, h) = CreatedBelow(u1, h)
    BY <2>2, <2>3, <2>4, CreateCleared
  <2> QED BY <2>1, <2>5
<1>6. SameBelow(e, Table(u, k, x, v, a), H)
  <2> SUFFICES ASSUME NEW h \in 1 .. H PROVE Clear(e, h) = Clear(Table(u, k, x, v, a), h)
    BY DEF SameBelow
  <2> HIDE DEF u1, u2
  <2> QED BY <1>3, <1>4, <1>5, ClearTables
<1>7. Good(u2, kk)
  <2>1. 1 \in 1 .. H
    OBVIOUS
  <2> QED BY <1>5, <2>1 DEF Good
<1>8. u2 = Added(Marked(u, ins, H), outs, H) /\ w = Voted(v, cast, H)
  OBVIOUS
<1> HIDE DEF u1, u2, w
<1> QED BY <1>4, <1>6, <1>7, <1>8

\* What is left below H by the part of a transaction that depends on its type.
SameLeft(k, x, a, kk, xx, aa, H) ==
    \A h \in 1 .. H : /\ Unrevoked(RowsBelow(kk, h), h) = Unrevoked(RowsBelow(k, h), h)
                      /\ RowsBelow(xx, h) = RowsBelow(x, h)
                      /\ AssetsBelow(aa, h) = AssetsBelow(a, h)

\* The same of the action: kk, xx and aa are the tables after the part that
\* depends on the type of the transaction.
LEMMA AddToDatabaseCleared ==
    ASSUME NEW u, NEW k, NEW x, NEW v, NEW a, NEW kk, NEW xx, NEW aa,
           db = Table(u, k, x, v, a), height \in Nat \ {0}, Good(u, k), kk \in SUBSET KycRow,
           SameLeft(k, x, a, kk, xx, aa, height), AddToDatabase(Table(u, kk, xx, v, aa))
    PROVE  /\ SameBelow(db', db, height)
           /\ \E ins \in SUBSET SpentOuts(u), outs \in SUBSET Out, cast \in [Ballot -> 0 .. MaxCast] :
                 /\ db' = Table(Added(Marked(u, ins, height), outs, height), kk, xx,
                                Voted(v, cast, height), aa)
                 /\ Good(Added(Marked(u, ins, height), outs, height), kk)
<1>1. db.utxos = u
  BY DEF Table
<1>2. {w.out : w \in Unspent(db)} = SpentOuts(u)
  BY <1>1 DEF Unspent, SpentOuts, NULL
<1>3. Outs(db) = {w.out : w \in u}
  BY <1>1 DEF Outs
<1>4. PICK ins \in SUBSET SpentOuts(u), outs \in SUBSET (Out \ Outs(db)),
                   cast \in [Ballot -> 0 .. MaxCast] :
         db' = AddVote(CreateUTXO(SpendUTXO(Table(u, kk, xx, v, aa), ins, height), outs, height),
                       cast, height)
  BY <1>2 DEF AddToDatabase
<1>5. outs \in SUBSET Out /\ \A o \in outs : \A w \in u : w.out # o
  BY <1>3, <1>4
<1>6. /\ SameBelow(db', db, height)
      /\ db' = Table(Added(Marked(u, ins, height), outs, height), kk, xx, Voted(v, cast, height), aa)
      /\ Good(Added(Marked(u, ins, height), outs, height), kk)
  BY <1>4, <1>5, TransactionCleared DEF SameLeft
<1> QED BY <1>4, <1>5, <1>6

-----------------------------------------------------------------------------
(* The inductive invariant: an output has one row.                         *)

RowsInv ==
    /\ \E u, k, x, v, a : db = Table(u, k, x, v, a) /\ Good(u, k)
    /\ blocks \subseteq Nat \ {0} /\ height \in Nat \ {0}
    /\ step \in 1 .. 8

\* Rows of kyc, exchange and assets that are well formed and of heights to H.
UpToNow(k, x, a, H) ==
    /\ x \subseteq RateRow /\ a \subseteq AssetRow
    /\ \A r \in k : r.height <= H /\ r.revoked <= H
    /\ \A r \in x : r.height <= H
    /\ \A r \in a : r.created <= H

\* A record is revoked after it is made, and both while the chain is that high.
KycDated(k) == \A r \in k : r.height \in 1 .. MaxHeight /\ r.revoked \in {NULL} \cup r.height .. MaxHeight

\* What the part that depends on the type of a transaction makes of them.
Step(k, x, a, kk, xx, aa, H) ==
    /\ kk \in SUBSET KycRow
    /\ SameLeft(k, x, a, kk, xx, aa, H)
    /\ UpToNow(k, x, a, H) => UpToNow(kk, xx, aa, H)
    /\ UpToNow(k, x, a, H) /\ H <= MaxHeight /\ KycDated(k) => KycDated(kk)

\* Transaction type by transaction type.
LEMMA ProcessTxParts ==
    ASSUME RowsInv, ~Reissue, ~RevokeAgain, ProcessTx,
           NEW u, NEW k, NEW x, NEW v, NEW a, db = Table(u, k, x, v, a), Good(u, k)
    PROVE  \E kk, xx, aa : Step(k, x, a, kk, xx, aa, height) /\ AddToDatabase(Table(u, kk, xx, v, aa))
<1>1. height \in Nat \ {0} /\ k \in SUBSET KycRow
  BY DEF RowsInv, Good
<1>2. /\ db.kyc = k /\ db.exchange = x /\ db.assets = a
  BY DEF Table
<1>3. CASE Standard
  <2>1. AddToDatabase(Table(u, k, x, v, a))
    BY <1>3 DEF Standard
  <2>2. Step(k, x, a, k, x, a, height)
    BY <1>1 DEF Step, SameLeft
  <2> QED BY <2>1, <2>2
<1>4. CASE KycIssuance
  <2>1. PICK b \in Address : AddToDatabase(AddKYC(db, b, height))
    BY <1>4 DEF KycIssuance
  <2>2. CASE \E w \in db.kyc : w.address = b
    <3>1. AddToDatabase(Table(u, k, x, v, a))
      BY <2>1, <2>2 DEF AddKYC
    <3>2. Step(k, x, a, k, x, a, height)
      BY <1>1 DEF Step, SameLeft
    <3> QED BY <3>1, <3>2
  <2>3. CASE ~ \E w \in db.kyc : w.address = b
    <3> DEFINE new == [address |-> b, height |-> height, revoked |-> NULL]
    <3>1. AddKYC(db, b, height) = [db EXCEPT !.kyc = k \cup {new}]
      BY <1>2, <2>3 DEF AddKYC
    <3>2. new \in KycRow /\ new.height = height
      BY <1>1 DEF KycRow, NULL
    <3> HIDE DEF new
    <3>3. AddKYC(db, b, height) = Table(u, k \cup {new}, x, v, a)
      BY <3>1 DEF Table
    <3>4. \A h \in 1 .. height : RowsBelow(k \cup {new}, h) = RowsBelow(k, h)
      BY <1>1, <3>2 DEF RowsBelow
    <3>5. k \cup {new} \in SUBSET KycRow
      BY <1>1, <3>2
    <3>6. AddToDatabase(Table(u, k \cup {new}, x, v, a))
      BY <2>1, <3>3
    <3>7. new.revoked <= height
      BY <1>1 DEF new, NULL
    <3>8. UpToNow(k, x, a, height) => UpToNow(k \cup {new}, x, a, height)
      BY <1>1, <3>2, <3>7 DEF UpToNow
    <3>9. height <= MaxHeight /\ KycDated(k) => KycDated(k \cup {new})
      <4>1. new.revoked = NULL
        BY DEF new
      <4> QED BY <1>1, <3>2, <4>1, DatabaseAssumption DEF KycDated
    <3>10. Step(k, x, a, k \cup {new}, x, a, height)
      BY <3>4, <3>5, <3>8, <3>9 DEF Step, SameLeft
    <3> QED BY <3>6, <3>10
  <2> QED BY <2>2, <2>3
<1>5. CASE KycRevoke
  <2>1. PICK b \in Address : /\ \A w \in db.kyc : w.address = b /\ w.revoked # NULL => RevokeAgain
                             /\ AddToDatabase(RevokeKYC(db, b, height))
    BY <1>5 DEF KycRevoke
  <2>2. \A w \in k : w.address = b => w.revoked = NULL
    BY <1>2, <2>1
  <2>3. RevokeKYC(db, b, height) = [db EXCEPT !.kyc = Revoked(k, b, height)]
    BY <1>2 DEF RevokeKYC, Revoked
  <2>4. RevokeKYC(db, b, height) = Table(u, Revoked(k, b, height), x, v, a)
    BY <2>3 DEF Table
  <2>5. \A h \in 1 .. height :
           /\ Revoked(k, b, height) \subseteq KycRow
           /\ Unrevoked(RowsBelow(Revoked(k, b, height), h), h) = Unrevoked(RowsBelow(k, h), h)
    BY <1>1, <2>2, RevokeCleared
  <2>6. Revoked(k, b, height) \in SUBSET KycRow
    <3>1. 1 \in 1 .. height
      BY <1>1
    <3> QED BY <2>5, <3>1
  <2>7. AddToDatabase(Table(u, Revoked(k, b, height), x, v, a))
    BY <2>1, <2>4
  <2>8. /\ UpToNow(k, x, a, height) => UpToNow(Revoked(k, b, height), x, a, height)
        /\ UpToNow(k, x, a, height) /\ height <= MaxHeight /\ KycDated(k) => KycDated(Revoked(k, b, height))
    <3> DEFINE Mark(w) == [w EXCEPT !.revoked = IF w.address = b THEN height ELSE @]
    <3>1. \A w \in k : Mark(w).height = w.height /\ Mark(w).revoked \in {height, w.revoked}
      BY <1>1 DEF KycRow
    <3>2. Revoked(k, b, height) = {Mark(w) : w \in k}
      BY DEF Revoked
    <3> HIDE DEF Mark
    <3>3. UpToNow(k, x, a, height) => UpToNow(Revoked(k, b, height), x, a, height)
      BY <1>1, <3>1, <3>2 DEF UpToNow
    <3>4. ASSUME UpToNow(k, x, a, height), height <= MaxHeight, KycDated(k)
          PROVE  KycDated(Revoked(k, b, height))
      <4>1. MaxHeight \in Nat
        BY DatabaseAssumption
      <4>2. \A w \in k : w.height \in 1 .. MaxHeight /\ w.height <= height
        BY <3>4 DEF UpToNow, KycDated
      <4>3. \A w \in k : height \in w.height .. MaxHeight
        BY <1>1, <3>4, <4>1, <4>2
      <4>4. \A w \in k : w.revoked \in {NULL} \cup w.height .. MaxHeight
        BY <3>4 DEF KycDated
      <4>5. \A w \in k : /\ Mark(w).height \in 1 .. MaxHeight
                         /\ Mark(w).revoked \in {NULL} \cup Mark(w).height .. MaxHeight
        BY <3>1, <4>2, <4>3, <4>4
      <4> QED BY <3>2, <4>5 DEF KycDated
    <3> QED BY <3>3, <3>4
  <2>9. Step(k, x, a, Revoked(k, b, height), x, a, height)
    BY <2>5, <2>6, <2>8 DEF Step, SameLeft
  <2> QED BY <2>7, <2>9
<1>6. CASE ExchangePublish
  <2>1. PICK f \in Feed, r \in Rate : AddToDatabase(AddExchangeRate(db, f, r, height))
    BY <1>6 DEF ExchangePublish
  <2> DEFINE new == [feed |-> f, height |-> height, value |-> r]
  <2>2. AddExchangeRate(db, f, r, height) = [db EXCEPT !.exchange = x \cup {new}]
    BY <1>2 DEF AddExchangeRate
  <2>3. new.height = height
    OBVIOUS
  <2> HIDE DEF new
  <2>4. AddExchangeRate(db, f, r, height) = Table(u, k, x \cup {new}, v, a)
    BY <2>2 DEF Table
  <2>5. \A h \in 1 .. height : RowsBelow(x \cup {new}, h) = RowsBelow(x, h)
    BY <1>1, <2>3 DEF RowsBelow
  <2>6. AddToDatabase(Table(u, k, x \cup {new}, v, a))
    BY <2>1, <2>4
  <2>7. new \in RateRow
    BY <1>1 DEF new, RateRow
  <2>8. UpToNow(k, x, a, height) => UpToNow(k, x \cup {new}, a, height)
    BY <1>1, <2>3, <2>7 DEF UpToNow
  <2>9. Step(k, x, a, k, x \cup {new}, a, height)
    BY <1>1, <2>5, <2>8 DEF Step, SameLeft
  <2> QED BY <2>6, <2>9
<1>7. CASE DigiAssetIssuance
  <2>1. PICK y \in Asset : /\ \A r \in db.assets : r.asset = y => Reissue
                           /\ AddToDatabase(AddAsset(db, y, height))
    BY <1>7 DEF DigiAssetIssuance
  <2>2. height > 1
    BY <1>7 DEF DigiAssetIssuance
  <2> DEFINE new == [asset |-> y, created |-> height, updated |-> height]
  <2>3. AddAsset(db, y, height) = [db EXCEPT !.assets = a \cup {new}]
    BY <1>2, <2>1 DEF AddAsset
  <2>4. new.created = height
    OBVIOUS
  <2> HIDE DEF new
  <2>5. AddAsset(db, y, height) = Table(u, k, x, v, a \cup {new})
    BY <2>3 DEF Table
  <2>6. \A h \in 1 .. height : AssetsBelow(a \cup {new}, h) = AssetsBelow(a, h)
    BY <1>1, <2>2, <2>4 DEF AssetsBelow
  <2>7. AddToDatabase(Table(u, k, x, v, a \cup {new}))
    BY <2>1, <2>5
  <2>8. new \in AssetRow
    BY <1>1 DEF new, AssetRow
  <2>9. UpToNow(k, x, a, height) => UpToNow(k, x, a \cup {new}, height)
    BY <1>1, <2>4, <2>8 DEF UpToNow
  <2>10. Step(k, x, a, k, x, a \cup {new}, height)
    BY <1>1, <2>6, <2>9 DEF Step, SameLeft
  <2> QED BY <2>7, <2>10
<1> QED BY <1>3, <1>4, <1>5, <1>6, <1>7 DEF ProcessTx

\* What processing does to all tables.
LEMMA ProcessTxTables ==
    ASSUME RowsInv, ~Reissue, ~RevokeAgain, ProcessTx,
           NEW u, NEW k, NEW x, NEW v, NEW a, db = Table(u, k, x, v, a), Good(u, k)
    PROVE  /\ SameBelow(db', db, height)
           /\ \E kk, xx, aa : \E ins \in SUBSET SpentOuts(u), outs \in SUBSET Out,
                 cast \in [Ballot -> 0 .. MaxCast] :
                 /\ Step(k, x, a, kk, xx, aa, height)
                 /\ db' = Table(Added(Marked(u, ins, height), outs, height), kk, xx,
                                Voted(v, cast, height), aa)
                 /\ Good(Added(Marked(u, ins, height), outs, height), kk)
<1>1. PICK kk, xx, aa : Step(k, x, a, kk, xx, aa, height) /\ AddToDatabase(Table(u, kk, xx, v, aa))
  BY ProcessTxParts
<1>2. height \in Nat \ {0} /\ kk \in SUBSET KycRow /\ SameLeft(k, x, a, kk, xx, aa, height)
  BY <1>1 DEF RowsInv, Step
<1>3. /\ SameBelow(db', db, height)
      /\ \E ins \in SUBSET SpentOuts(u), outs \in SUBSET Out, cast \in [Ballot -> 0 .. MaxCast] :
            /\ db' = Table(Added(Marked(u, ins, height), outs, height), kk, xx,
                           Voted(v, cast, height), aa)
            /\ Good(Added(Marked(u, ins, height), outs, height), kk)
  BY <1>1, <1>2, AddToDatabaseCleared
<1> QED BY <1>1, <1>3

LEMMA ProcessTxCleared ==
    ASSUME RowsInv, ~Reissue, ~RevokeAgain, ProcessTx
    PROVE  /\ SameBelow(db', db, height)
           /\ \E u, k, x, v, a : db' = Table(u, k, x, v, a) /\ Good(u, k)
<1> PICK u, k, x, v, a : db = Table(u, k, x, v, a) /\ Good(u, k)
  BY DEF RowsInv
<1> QED BY ProcessTxTables

\* The statements of a clear keep what Good says.
LEMMA ClearGood ==
    ASSUME NEW u, NEW k, Good(u, k), NEW h \in Nat
    PROVE  /\ Good(CreatedBelow(u, h), k) /\ Good(Undestroyed(u, h), k)
           /\ Good(u, RowsBelow(k, h)) /\ Good(u, Unrevoked(k, h))
<1>1. Good(CreatedBelow(u, h), k) /\ Good(u, RowsBelow(k, h))
  BY DEF Good, CreatedBelow, RowsBelow, OneRow
<1>2. Good(Undestroyed(u, h), k)
  <2> DEFINE Reset(w) == [w EXCEPT !.destroyed = IF @ >= h THEN NULL ELSE @]
  <2>1. \A w \in u : Reset(w) \in UtxoRow /\ Reset(w).out = w.out
    BY DEF Good, UtxoRow, NULL
  <2>2. Undestroyed(u, h) = {Reset(w) : w \in u}
    BY DEF Undestroyed
  <2> HIDE DEF Reset
  <2>3. OneRow(Undestroyed(u, h))
    BY <2>1, <2>2 DEF Good, OneRow
  <2> QED BY <2>1, <2>2, <2>3 DEF Good
<1>3. Good(u, Unrevoked(k, h))
  <2> DEFINE Reset(w) == [w EXCEPT !.revoked = IF @ >= h THEN NULL ELSE @]
  <2>1. \A w \in k : Reset(w) \in KycRow
    BY DEF Good, KycRow, NULL
  <2>2. Unrevoked(k, h) = {Reset(w) : w \in k}
    BY DEF Unrevoked
  <2> HIDE DEF Reset
  <2> QED BY <2>1, <2>2 DEF Good
<1>4. QED BY <1>1, <1>2, <1>3

\* A new database has the rows' invariant.
LEMMA InitRows == Init => RowsInv
<1> SUFFICES ASSUME Init PROVE RowsInv
  OBVIOUS
<1>1. db = Table({}, {}, {}, {}, {})
  BY DEF Init, Table
<1>2. Good({}, {})
  BY DEF Good, OneRow
<1>3. blocks \subseteq Nat \ {0} /\ height \in Nat \ {0} /\ step \in 1 .. 8
  BY DEF Init
<1>4. QED BY <1>1, <1>2, <1>3 DEF RowsInv

\* Every step keeps it.
LEMMA NextRows ==
    ASSUME RowsInv, ~Reissue, ~RevokeAgain, [Next]_vars
    PROVE  RowsInv'
<1> DEFINE GoodDb == \E u, k, x, v, a : db = Table(u, k, x, v, a) /\ Good(u, k)
           Numbers == blocks \subseteq Nat \ {0} /\ height \in Nat \ {0} /\ step \in 1 .. 8
<1>0. /\ GoodDb /\ Numbers
      /\ GoodDb' /\ Numbers' => RowsInv'
  BY DEF RowsInv
<1> PICK u, k, x, v, a : db = Table(u, k, x, v, a) /\ Good(u, k)
  BY <1>0
<1>1. CASE ProcessTx
  <2>1. UNCHANGED <<blocks, height, step>>
    BY <1>1 DEF ProcessTx, Standard, KycIssuance, KycRevoke, ExchangePublish,
                DigiAssetIssuance, AddToDatabase
  <2>2. GoodDb'
    BY <1>1, ProcessTxCleared
  <2> HIDE DEF GoodDb
  <2> QED BY <1>0, <2>1, <2>2
<1>2. CASE BlockDone
  BY <1>0, <1>2 DEF BlockDone
<1>3. CASE PruneExchange
  <2>1. /\ db' = [db EXCEPT !.exchange = {r \in @ : r.height >= PruneHeight(EXCHANGE)}]
        /\ UNCHANGED <<blocks, height, step>>
    BY <1>3 DEF PruneExchange
  <2>2. PICK y : db' = [db EXCEPT !.exchange = y]
    BY <2>1
  <2>3. db' = Table(u, k, y, v, a)
    BY <2>2 DEF Table
  <2>4. GoodDb'
    BY <2>3
  <2> HIDE DEF GoodDb
  <2> QED BY <1>0, <2>1, <2>4
<1>4. CASE PruneUTXO
  <2> DEFINE y == {w \in u : w.destroyed = NULL \/ w.destroyed >= PruneHeight(UTXO)}
  <2>0. db.utxos = u
    BY DEF Table
  <2>1. /\ db' = [db EXCEPT !.utxos = y]
        /\ UNCHANGED <<blocks, height, step>>
    BY <1>4, <2>0 DEF PruneUTXO
  <2>2. Good(y, k)
    BY DEF Good, OneRow
  <2> HIDE DEF y
  <2>3. db' = Table(y, k, x, v, a)
    BY <2>1 DEF Table
  <2>4. GoodDb'
    BY <2>2, <2>3
  <2> HIDE DEF GoodDb
  <2> QED BY <1>0, <2>1, <2>4
<1>5. CASE PruneVote
  <2>1. /\ db' = [db EXCEPT !.votes = {r \in @ : r.height >= PruneHeight(VOTE)}]
        /\ UNCHANGED <<blocks, height, step>>
    BY <1>5 DEF PruneVote
  <2>2. PICK y : db' = [db EXCEPT !.votes = y]
    BY <2>1
  <2>3. db' = Table(u, k, x, y, a)
    BY <2>2 DEF Table
  <2>4. GoodDb'
    BY <2>3
  <2> HIDE DEF GoodDb
  <2> QED BY <1>0, <2>1, <2>4
<1>6. CASE RemoveNonReachable
  BY <1>0, <1>6 DEF RemoveNonReachable
<1>7. CASE PutBackRate
  <2>1. PICK r \in keptRates : db' = [db EXCEPT !.exchange = db.exchange \cup {r}]
    BY <1>7 DEF PutBackRate
  <2>2. db' = Table(u, k, db.exchange \cup {r}, v, a)
    BY <2>1 DEF Table
  <2>3. GoodDb'
    BY <2>2
  <2>4. UNCHANGED <<blocks, height, step>>
    BY <1>7 DEF PutBackRate
  <2> HIDE DEF GoodDb
  <2> QED BY <1>0, <2>3, <2>4
<1>8. CASE PutBackVote
  <2>1. PICK r \in keptVotes : db' = [db EXCEPT !.votes = db.votes \cup {r}]
    BY <1>8 DEF PutBackVote
  <2>2. db' = Table(u, k, x, db.votes \cup {r}, a)
    BY <2>1 DEF Table
  <2>3. GoodDb'
    BY <2>2
  <2>4. UNCHANGED <<blocks, height, step>>
    BY <1>8 DEF PutBackVote
  <2> HIDE DEF GoodDb
  <2> QED BY <1>0, <2>3, <2>4
<1>9. CASE SetBeenPruned
  BY <1>0, <1>9 DEF SetBeenPruned
<1>10. CASE InsertBlock
  BY <1>0, <1>10 DEF InsertBlock, pruneVars
<1>11. CASE Rewind
  BY <1>0, <1>11 DEF Rewind, pruneVars
<1>12. CASE ClearStatement
  <2>1. /\ db' = Cleared(step, db, height) /\ step' = step + 1 /\ step \in 1 .. 7
        /\ UNCHANGED <<blocks, height>>
    BY <1>0, <1>12 DEF ClearStatement
  <2>2. height \in Nat
    BY <1>0
  <2>3. GoodDb'
    <3>1. CASE step = 1
      BY <2>1, <3>1, Statements DEF Cleared
    <3>2. CASE step = 2
      BY <2>1, <3>2, Statements DEF Cleared
    <3>3. CASE step = 3
      BY <2>1, <2>2, <3>3, Statements, ClearGood DEF Cleared
    <3>4. CASE step = 4
      BY <2>1, <2>2, <3>4, Statements, ClearGood DEF Cleared
    <3>5. CASE step = 5
      BY <2>1, <2>2, <3>5, Statements, ClearGood DEF Cleared
    <3>6. CASE step = 6
      BY <2>1, <2>2, <3>6, Statements, ClearGood DEF Cleared
    <3>7. CASE step = 7
      BY <2>1, <3>7, Statements DEF Cleared
    <3> QED BY <2>1, <3>1, <3>2, <3>3, <3>4, <3>5, <3>6, <3>7
  <2> HIDE DEF GoodDb
  <2> QED BY <1>0, <2>1, <2>3
<1>13. CASE ClearBlocks
  <2>1. UNCHANGED <<db, height>> /\ step' = 1 /\ blocks' \subseteq blocks
    BY <1>13 DEF ClearBlocks
  <2>2. GoodDb'
    BY <1>0, <2>1
  <2> HIDE DEF GoodDb
  <2> QED BY <1>0, <2>1, <2>2
<1>14. CASE Crash
  BY <1>0, <1>14 DEF Crash
<1>15. CASE Startup
  BY <1>0, <1>15 DEF Startup
<1>16. CASE UNCHANGED vars
  BY <1>0, <1>16 DEF vars
<1> QED
  BY <1>1, <1>2, <1>3, <1>4, <1>5, <1>6, <1>7, <1>8, <1>9, <1>10, <1>11, <1>12, <1>13,
     <1>14, <1>15, <1>16 DEF Next, Prune

-----------------------------------------------------------------------------

\* An output never has two rows, nor utxos and kyc a malformed one, whatever
\* is pruned, rolled back or interrupted (Database.cpp, tables utxos and kyc).
THEOREM RowsKept == ~Reissue /\ ~RevokeAgain => (Spec => []RowsInv)
<1> SUFFICES ASSUME ~Reissue, ~RevokeAgain PROVE Spec => []RowsInv
  OBVIOUS
<1>1. RowsInv /\ [Next]_vars => RowsInv'
  BY NextRows
<1>2. QED BY InitRows, <1>1, PTL DEF Spec

\* clearBlocksAboveHeight undoes addToDatabase: whatever a transaction wrote,
\* clearing its height or any lower one leaves what it would have left before.
THEOREM ErasedHolds == ~Reissue /\ ~RevokeAgain => (Spec => ProcessedIsErased)
<1> SUFFICES ASSUME ~Reissue, ~RevokeAgain PROVE Spec => ProcessedIsErased
  OBVIOUS
<1> DEFINE Erased == ProcessTx => \A h \in 1 .. height : Clear(db', h) = Clear(db, h)
<1>1. RowsInv /\ [Next]_vars => [Erased]_vars
  BY ProcessTxCleared DEF SameBelow
<1>2. Spec => []RowsInv
  BY RowsKept
<1>3. QED BY <1>1, <1>2, PTL DEF Spec, ProcessedIsErased

-----------------------------------------------------------------------------
(* Sums of the counts of finite sets of rows                                *)

\* A set of naturals that is not empty has a least one.
LEMMA Least ==
    ASSUME NEW S \in SUBSET Nat, S # {}
    PROVE  \E n \in S : \A m \in S : n <= m
<1>1. PICK n \in S : \A m \in S : <<m, n>> \notin OpToRel(<, Nat)
  BY NatLessThanWellFounded, WFMin
<1>2. ASSUME NEW m \in S PROVE n <= m
  <2>1. n \in Nat /\ m \in Nat /\ <<m, n>> \notin OpToRel(<, Nat)
    BY <1>1
  <2>2. ~(m < n)
    BY <2>1 DEF OpToRel
  <2>3. n \in Nat /\ m \in Nat
    OBVIOUS
  <2> QED BY <2>2, <2>3
<1> QED BY <1>2

\* Of sets of elements of a finite set, one is smallest.
LEMMA Smallest ==
    ASSUME NEW S, IsFiniteSet(S), NEW B \in SUBSET (SUBSET S), B # {}
    PROVE  \E s \in B : \A t \in B : Cardinality(s) <= Cardinality(t)
<1> DEFINE N == {Cardinality(s) : s \in B}
<1>1. N \in SUBSET Nat /\ N # {}
  BY FS_Subset, FS_CardinalityType
<1>2. PICK n \in N : \A m \in N : n <= m
  BY <1>1, Least
<1> QED BY <1>2

Countable(S) == IsFiniteSet(S) /\ \A r \in S : r.count \in Nat

Picked(s) == CHOOSE r \in s : TRUE

\* The recursion of a sum, on the sets of D.
Summing(g, D) == \A s \in D : g[s] = IF s = {} THEN 0 ELSE Picked(s).count + g[s \ {Picked(s)}]

\* A row is picked from a set that has one.
LEMMA PickedInside ==
    ASSUME NEW s, s # {}
    PROVE  Picked(s) \in s
BY DEF Picked

\* What is left of a finite set without the row that is picked.
LEMMA LessPicked ==
    ASSUME NEW S, IsFiniteSet(S), NEW s \in SUBSET S, s # {}
    PROVE  /\ Picked(s) \in s /\ s \ {Picked(s)} \in SUBSET S
           /\ Cardinality(s) \in Nat /\ Cardinality(s \ {Picked(s)}) = Cardinality(s) - 1
           /\ Cardinality(s) # 0
<1>1. Picked(s) \in s
  BY PickedInside
<1>2. IsFiniteSet(s)
  BY FS_Subset
<1>3. Cardinality(s) \in Nat /\ Cardinality(s \ {Picked(s)}) = Cardinality(s) - 1
  BY <1>1, <1>2, FS_RemoveElement, FS_CardinalityType
<1>4. Cardinality(s) # 0
  BY <1>2, FS_EmptySet
<1> QED BY <1>1, <1>3, <1>4

\* The function a sum names exists.
LEMMA SummingExists ==
    ASSUME NEW S, Countable(S)
    PROVE  \E g \in [SUBSET S -> Nat] : Summing(g, SUBSET S)
<1> DEFINE UpTo(n) == {s \in SUBSET S : Cardinality(s) <= n}
           Bad == {n \in Nat : ~ \E g \in [UpTo(n) -> Nat] : Summing(g, UpTo(n))}
<1>0. IsFiniteSet(S) /\ \A r \in S : r.count \in Nat
  BY DEF Countable
<1>1. Bad = {}
  <2> SUFFICES ASSUME Bad # {} PROVE FALSE
    OBVIOUS
  <2>1. PICK n \in Bad : \A m \in Bad : n <= m
    <3>1. Bad \in SUBSET Nat
      OBVIOUS
    <3> HIDE DEF Bad
    <3> QED BY <3>1, Least
  <2>2. n \in Nat /\ ~ \E g \in [UpTo(n) -> Nat] : Summing(g, UpTo(n))
    OBVIOUS
  <2>3. CASE n = 0
    <3> DEFINE g == [s \in UpTo(0) |-> 0]
    <3>1. \A s \in UpTo(0) : s = {}
      <4>1. ASSUME NEW s \in UpTo(0) PROVE s = {}
        <5>1. IsFiniteSet(s) /\ Cardinality(s) \in Nat
          BY <1>0, FS_Subset, FS_CardinalityType
        <5>2. Cardinality(s) = 0
          BY <5>1
        <5> QED BY <5>1, <5>2, FS_EmptySet
      <4> QED BY <4>1
    <3>2. g \in [UpTo(0) -> Nat]
      OBVIOUS
    <3>3. Summing(g, UpTo(0))
      BY <3>1 DEF Summing
    <3> HIDE DEF g
    <3> QED BY <2>2, <2>3, <3>2, <3>3
  <2>4. CASE n # 0
    <3>1. n - 1 \in Nat /\ ~(n <= n - 1)
      BY <2>2, <2>4
    <3>2. PICK g \in [UpTo(n - 1) -> Nat] : Summing(g, UpTo(n - 1))
      BY <2>1, <3>1
    <3> DEFINE h == [s \in UpTo(n) |-> IF s = {} THEN 0 ELSE Picked(s).count + g[s \ {Picked(s)}]]
    <3>3. ASSUME NEW s \in UpTo(n), s # {}
          PROVE  s \ {Picked(s)} \in UpTo(n - 1) /\ Picked(s).count \in Nat
      <4>1. /\ Picked(s) \in s /\ s \ {Picked(s)} \in SUBSET S
            /\ Cardinality(s) \in Nat /\ Cardinality(s \ {Picked(s)}) = Cardinality(s) - 1
        BY <1>0, <3>3, LessPicked
      <4>2. Picked(s).count \in Nat
        BY <1>0, <4>1
      <4> QED BY <2>2, <4>1, <4>2
    <3>4. ASSUME NEW s \in UpTo(n - 1) PROVE s \in UpTo(n) /\ h[s] = g[s]
      <4>1. IsFiniteSet(s) /\ Cardinality(s) \in Nat
        BY <1>0, FS_Subset, FS_CardinalityType
      <4>2. s \in UpTo(n)
        BY <2>2, <4>1
      <4>3. h[s] = IF s = {} THEN 0 ELSE Picked(s).count + g[s \ {Picked(s)}]
        BY <4>2
      <4>4. g[s] = IF s = {} THEN 0 ELSE Picked(s).count + g[s \ {Picked(s)}]
        BY <3>2 DEF Summing
      <4> QED BY <4>2, <4>3, <4>4
    <3>5. h \in [UpTo(n) -> Nat]
      <4> SUFFICES ASSUME NEW s \in UpTo(n) PROVE h[s] \in Nat
        OBVIOUS
      <4>1. CASE s = {}
        BY <4>1
      <4>2. CASE s # {}
        <5>1. s \ {Picked(s)} \in UpTo(n - 1) /\ Picked(s).count \in Nat
          BY <3>3, <4>2
        <5>2. g[s \ {Picked(s)}] \in Nat
          BY <5>1, <3>2
        <5>3. h[s] = Picked(s).count + g[s \ {Picked(s)}]
          BY <4>2
        <5> QED BY <5>1, <5>2, <5>3
      <4> QED BY <4>1, <4>2
    <3>6. ASSUME NEW s \in UpTo(n)
          PROVE  h[s] = IF s = {} THEN 0 ELSE Picked(s).count + h[s \ {Picked(s)}]
      <4>1. h[s] = IF s = {} THEN 0 ELSE Picked(s).count + g[s \ {Picked(s)}]
        OBVIOUS
      <4>2. s # {} => h[s \ {Picked(s)}] = g[s \ {Picked(s)}]
        BY <3>3, <3>4
      <4> HIDE DEF h
      <4> QED BY <4>1, <4>2
    <3> HIDE DEF h
    <3>7. Summing(h, UpTo(n))
      BY <3>6 DEF Summing
    <3> QED BY <2>2, <3>5, <3>7
  <2> QED BY <2>3, <2>4
<1>2. Cardinality(S) \in Nat /\ UpTo(Cardinality(S)) = SUBSET S
  <2>1. Cardinality(S) \in Nat
    BY <1>0, FS_CardinalityType
  <2>2. \A s \in SUBSET S : Cardinality(s) <= Cardinality(S)
    BY <1>0, FS_Subset
  <2> QED BY <2>1, <2>2
<1>3. \E g \in [UpTo(Cardinality(S)) -> Nat] : Summing(g, UpTo(Cardinality(S)))
  BY <1>1, <1>2
<1> HIDE DEF UpTo, Bad
<1> QED BY <1>2, <1>3

\* What the counts of a set of rows add up to.
Counted(S) == MapThenSumSet(LAMBDA r : r.count, S)

\* A sum is the value of its function.
LEMMA SumNamed ==
    ASSUME NEW S, Countable(S)
    PROVE  \E g \in [SUBSET S -> Nat] : Summing(g, SUBSET S) /\ Counted(S) = g[S]
<1> DEFINE It(f) == f = [s \in SUBSET S |-> IF s = {} THEN 0 ELSE Picked(s).count + f[s \ {Picked(s)}]]
           it == CHOOSE f : It(f)
<1>1. Counted(S) = it[S]
  BY DEF Counted, MapThenSumSet, MapThenFoldSet, Picked
<1> HIDE DEF it
<1>2. PICK g \in [SUBSET S -> Nat] : Summing(g, SUBSET S)
  BY SummingExists
<1>3. It(g)
  BY <1>2 DEF Summing
<1> HIDE DEF It
<1>4. It(it)
  BY <1>3 DEF it
<1>5. it \in [SUBSET S -> Nat] /\ Summing(it, SUBSET S)
  <2>1. it = [s \in SUBSET S |-> IF s = {} THEN 0 ELSE Picked(s).count + it[s \ {Picked(s)}]]
    BY <1>4 DEF It
  <2>2. DOMAIN it = SUBSET S
    BY <2>1
  <2>3. Summing(it, SUBSET S)
    BY <2>1 DEF Summing
  <2>4. \A s \in SUBSET S : it[s] = g[s]
    <3> DEFINE B == {s \in SUBSET S : it[s] # g[s]}
    <3> SUFFICES ASSUME B # {} PROVE FALSE
      OBVIOUS
    <3>1. IsFiniteSet(S)
      BY DEF Countable
    <3>2. PICK s \in B : \A t \in B : Cardinality(s) <= Cardinality(t)
      <4>1. B \in SUBSET (SUBSET S)
        OBVIOUS
      <4> HIDE DEF B
      <4> QED BY <3>1, <4>1, Smallest
    <3>3. s \in SUBSET S /\ it[s] # g[s]
      OBVIOUS
    <3>4. s # {}
      BY <1>2, <2>3, <3>3 DEF Summing
    <3>5. /\ s \ {Picked(s)} \in SUBSET S
          /\ Cardinality(s) \in Nat /\ Cardinality(s \ {Picked(s)}) = Cardinality(s) - 1
      BY <3>1, <3>3, <3>4, LessPicked
    <3>6. it[s \ {Picked(s)}] = g[s \ {Picked(s)}]
      <4>1. ~(Cardinality(s) <= Cardinality(s \ {Picked(s)}))
        BY <3>5
      <4> QED BY <3>2, <3>5, <4>1
    <3> QED BY <1>2, <2>3, <3>3, <3>4, <3>6 DEF Summing
  <2>5. it = [s \in SUBSET S |-> it[s]]
    BY <2>1
  <2>6. it \in [SUBSET S -> Nat]
    BY <2>4, <2>5
  <2> QED BY <2>3, <2>6
<1> QED BY <1>1, <1>5

\* So a sum follows its recursion, from one set of rows to the next.
LEMMA SumSteps ==
    ASSUME NEW S, Countable(S)
    PROVE  /\ Counted(S) \in Nat
           /\ S = {} => Counted(S) = 0
           /\ S # {} => Counted(S) = Picked(S).count + Counted(S \ {Picked(S)})
<1>1. PICK g \in [SUBSET S -> Nat] : Summing(g, SUBSET S) /\ Counted(S) = g[S]
  BY SumNamed
<1>2. Counted(S) \in Nat /\ (S = {} => Counted(S) = 0)
  BY <1>1 DEF Summing
<1>3. ASSUME S # {} PROVE Counted(S) = Picked(S).count + Counted(S \ {Picked(S)})
  <2> DEFINE T == S \ {Picked(S)}
  <2>1. Countable(T) /\ IsFiniteSet(T) /\ T \in SUBSET S
    BY FS_Subset DEF Countable
  <2>2. PICK f \in [SUBSET T -> Nat] : Summing(f, SUBSET T) /\ Counted(T) = f[T]
    <3> HIDE DEF T
    <3> QED BY <2>1, SumNamed
  <2>3. \A s \in SUBSET T : f[s] = g[s]
    <3> DEFINE B == {s \in SUBSET T : f[s] # g[s]}
    <3> SUFFICES ASSUME B # {} PROVE FALSE
      OBVIOUS
    <3> HIDE DEF T
    <3>2. PICK s \in B : \A t \in B : Cardinality(s) <= Cardinality(t)
      <4>1. B \in SUBSET (SUBSET T)
        OBVIOUS
      <4> HIDE DEF B
      <4> QED BY <2>1, <4>1, Smallest
    <3>3. s \in SUBSET T /\ s \in SUBSET S /\ f[s] # g[s]
      BY <2>1
    <3>4. s # {}
      BY <1>1, <2>2, <3>3 DEF Summing
    <3>5. /\ s \ {Picked(s)} \in SUBSET T
          /\ Cardinality(s) \in Nat /\ Cardinality(s \ {Picked(s)}) = Cardinality(s) - 1
      BY <2>1, <3>3, <3>4, LessPicked
    <3>6. f[s \ {Picked(s)}] = g[s \ {Picked(s)}]
      <4>1. ~(Cardinality(s) <= Cardinality(s \ {Picked(s)}))
        BY <3>5
      <4> QED BY <3>2, <3>5, <4>1
    <3> QED BY <1>1, <2>2, <3>3, <3>4, <3>6 DEF Summing
  <2>4. Counted(T) = g[T]
    BY <2>2, <2>3
  <2>5. g[S] = Picked(S).count + g[T]
    BY <1>1, <1>3 DEF Summing
  <2> QED BY <1>1, <2>4, <2>5
<1> QED BY <1>2, <1>3

\* One row more.
LEMMA SumAdd ==
    ASSUME NEW S, NEW y, Countable(S), y \notin S, y.count \in Nat
    PROVE  Counted(S \cup {y}) = y.count + Counted(S)
<1> DEFINE U == S \cup {y}
           B == {T \in SUBSET U : \E z \in U \ T : Counted(T \cup {z}) # z.count + Counted(T)}
<1>1. Countable(U) /\ IsFiniteSet(U)
  BY FS_AddElement DEF Countable
<1>2. \A T \in SUBSET U : Countable(T) /\ IsFiniteSet(T)
  BY <1>1, FS_Subset DEF Countable
<1>3. B = {}
  <2> SUFFICES ASSUME B # {} PROVE FALSE
    OBVIOUS
  <2> HIDE DEF U
  <2>1. PICK T \in B : \A R \in B : Cardinality(T) <= Cardinality(R)
    <3>1. B \in SUBSET (SUBSET U)
      OBVIOUS
    <3> HIDE DEF B
    <3> QED BY <1>1, <3>1, Smallest
  <2>2. PICK z \in U \ T : Counted(T \cup {z}) # z.count + Counted(T)
    OBVIOUS
  <2>3. T \in SUBSET U /\ T \cup {z} \in SUBSET U /\ T \cup {z} # {}
    OBVIOUS
  <2> DEFINE p == Picked(T \cup {z})
             R == T \ {p}
  <2>4. p \in T \cup {z} /\ Counted(T \cup {z}) = p.count + Counted((T \cup {z}) \ {p})
    <3>1. Countable(T \cup {z})
      BY <1>2, <2>3
    <3> QED BY <2>3, <3>1, SumSteps, PickedInside
  <2> HIDE DEF p
  <2>5. p \in T
    <3>1. p = z => (T \cup {z}) \ {p} = T
      OBVIOUS
    <3> QED BY <2>2, <2>4, <3>1
  <2>6. R \in SUBSET U /\ R \notin B
    <3>1. Cardinality(R) = Cardinality(T) - 1 /\ Cardinality(T) \in Nat
      BY <1>2, <2>3, <2>5, FS_RemoveElement, FS_CardinalityType
    <3>2. ~(Cardinality(T) <= Cardinality(R))
      BY <3>1
    <3> HIDE DEF B
    <3> QED BY <2>1, <2>3, <3>2
  <2>7. p \in U \ R /\ z \in U \ R /\ R \cup {p} = T /\ R \cup {z} = (T \cup {z}) \ {p}
    BY <2>2, <2>3, <2>5
  <2>8. Counted(T) = p.count + Counted(R) /\ Counted((T \cup {z}) \ {p}) = z.count + Counted(R)
    <3>1. \A q \in U \ R : Counted(R \cup {q}) = q.count + Counted(R)
      BY <2>6
    <3> HIDE DEF R, B
    <3> QED BY <2>7, <3>1
  <2>9. p.count \in Nat /\ z.count \in Nat /\ Counted(R) \in Nat
    <3>1. Countable(R)
      BY <1>2, <2>6
    <3>2. Counted(R) \in Nat
      BY <3>1, SumSteps
    <3> QED BY <1>1, <2>7, <3>2 DEF Countable
  <2> HIDE DEF R, B
  <2> QED BY <2>2, <2>4, <2>8, <2>9
<1>4. S \in SUBSET U /\ y \in U \ S
  OBVIOUS
<1> QED BY <1>3, <1>4

\* The rows of two sets that share none.
LEMMA SumUnion ==
    ASSUME NEW S, NEW T, Countable(S), Countable(T), S \cap T = {}
    PROVE  /\ Countable(S \cup T)
           /\ Counted(S \cup T) = Counted(S) + Counted(T)
<1> DEFINE B == {R \in SUBSET T : Counted(S \cup R) # Counted(S) + Counted(R)}
<1>1. IsFiniteSet(T) /\ IsFiniteSet(S)
  BY DEF Countable
<1>2. \A R \in SUBSET T : Countable(R) /\ IsFiniteSet(R) /\ Countable(S \cup R)
  BY <1>1, FS_Subset, FS_Union DEF Countable
<1>3. B = {}
  <2> SUFFICES ASSUME B # {} PROVE FALSE
    OBVIOUS
  <2>1. PICK R \in B : \A Q \in B : Cardinality(R) <= Cardinality(Q)
    <3>1. B \in SUBSET (SUBSET T)
      OBVIOUS
    <3> HIDE DEF B
    <3> QED BY <1>1, <3>1, Smallest
  <2>2. R \in SUBSET T /\ Counted(S \cup R) # Counted(S) + Counted(R)
    OBVIOUS
  <2>3. Counted(S) \in Nat /\ Counted(R) \in Nat
    BY <1>2, <2>2, SumSteps
  <2>4. R # {}
    <3>1. ASSUME R = {} PROVE FALSE
      <4>1. Counted(R) = 0 /\ S \cup R = S
        BY <1>2, <2>2, <3>1, SumSteps
      <4> HIDE DEF B
      <4> QED BY <2>2, <2>3, <4>1
    <3> QED BY <3>1
  <2>5. PICK z \in R : TRUE
    BY <2>4
  <2> DEFINE Q == R \ {z}
  <2>6. Q \in SUBSET T /\ Q \notin B
    <3>1. Cardinality(Q) = Cardinality(R) - 1 /\ Cardinality(R) \in Nat
      BY <1>2, <2>2, <2>5, FS_RemoveElement, FS_CardinalityType
    <3>2. ~(Cardinality(R) <= Cardinality(Q))
      BY <3>1
    <3> HIDE DEF B
    <3> QED BY <2>1, <2>2, <3>2
  <2>7. Counted(S \cup Q) = Counted(S) + Counted(Q)
    BY <2>6
  <2>8. Q \cup {z} = R /\ (S \cup Q) \cup {z} = S \cup R /\ z \notin Q /\ z \notin S \cup Q
    BY <2>2, <2>5
  <2>9. z.count \in Nat
    BY <2>2, <2>5 DEF Countable
  <2> HIDE DEF B
  <2>10. Countable(Q) /\ Countable(S \cup Q)
    BY <1>2, <2>6
  <2> HIDE DEF Q
  <2>11. Counted(Q \cup {z}) = z.count + Counted(Q)
    BY <2>8, <2>9, <2>10, SumAdd
  <2>12. Counted((S \cup Q) \cup {z}) = z.count + Counted(S \cup Q)
    BY <2>8, <2>9, <2>10, SumAdd
  <2>13. Counted(Q) \in Nat
    BY <2>10, SumSteps
  <2>14. Counted(R) = z.count + Counted(Q) /\ Counted(S \cup R) = z.count + Counted(S \cup Q)
    BY <2>8, <2>11, <2>12
  <2>15. Counted(S \cup R) = Counted(S) + Counted(R)
    BY <2>3, <2>7, <2>9, <2>13, <2>14
  <2> QED BY <2>2, <2>15
<1>4. T \in SUBSET T
  OBVIOUS
<1> QED BY <1>2, <1>3, <1>4

\* Division with remainder.
LEMMA Divided ==
    ASSUME NEW c \in Nat \ {0}, NEW s \in Nat
    PROVE  /\ s % c \in 0 .. c - 1 /\ s % c \in Nat /\ s \div c \in Nat
           /\ s = c * (s \div c) + (s % c)
OBVIOUS

LEMMA Remainder ==
    ASSUME NEW c \in Nat \ {0}, NEW s \in Nat, NEW r \in 0 .. c - 1, NEW q \in Nat, s = c * q + r
    PROVE  s % c = r
OBVIOUS

\* A number may be reduced before another one is added.
LEMMA ReducedFirst ==
    ASSUME NEW c \in Nat \ {0}, NEW s \in Nat, NEW t \in Nat
    PROVE  ((s % c) + t) % c = (s + t) % c
<1> DEFINE r == s % c
           q == s \div c
           m == r + t
           e == m % c
           d == m \div c
<1>1. r \in Nat /\ q \in Nat /\ s = c * q + r
  BY Divided
<1> HIDE DEF r, q
<1>2. m \in Nat
  BY <1>1
<1>3. m = r + t
  OBVIOUS
<1> HIDE DEF m
<1>4. e \in 0 .. c - 1 /\ d \in Nat /\ m = c * d + e
  BY <1>2, Divided
<1> HIDE DEF e, d
<1>5. q + d \in Nat /\ c * (q + d) = c * q + c * d
  BY <1>1, <1>4
<1>6. s + t = c * (q + d) + e
  <2> DEFINE cq == c * q
             cd == c * d
             cqd == c * (q + d)
  <2>1. cq \in Int /\ cd \in Int
    BY <1>1, <1>4
  <2>2. s = cq + r /\ m = cd + e /\ cqd = cq + cd
    BY <1>1, <1>4, <1>5
  <2> HIDE DEF cq, cd, cqd
  <2>3. s + t = cqd + e
    BY <1>1, <1>3, <1>4, <2>1, <2>2
  <2> QED BY <2>3 DEF cqd
<1>7. s + t \in Nat
  OBVIOUS
<1>8. (s + t) % c = e
  <2> DEFINE z == s + t
             w == q + d
  <2>1. z \in Nat /\ w \in Nat /\ z = c * w + e
    BY <1>5, <1>6, <1>7
  <2> HIDE DEF z, w
  <2>2. z % c = e
    BY <1>4, <2>1, Remainder
  <2> QED BY <2>2 DEF z
<1> QED BY <1>8 DEF e, m, r

-----------------------------------------------------------------------------
(* What the queries answer, table by table.                                *)

Unspents(u) == {w \in u : w.destroyed = NULL}
RatesTable(x) == Table({}, {}, x, {}, {})
VotesTable(v) == Table({}, {}, {}, v, {})

SameRates(x, y, h) ==
    \A f \in Feed : /\ AcceptedRate(RatesTable(x), f, h) = AcceptedRate(RatesTable(y), f, h)
                    /\ CurrentRate(RatesTable(x), f) = CurrentRate(RatesTable(y), f)

SameVotes(v, w) == \A b \in Ballot : VoteCount(VotesTable(v), b) = VoteCount(VotesTable(w), b)

\* Tables with the same outputs, records and assets, and rates and votes that
\* answer the same, answer the same.
LEMMA SameAnswers ==
    ASSUME NEW u, NEW k, NEW x, NEW v, NEW a, NEW uu, NEW xx, NEW vv, NEW h,
           Unspents(u) = Unspents(uu), SameRates(x, xx, h), SameVotes(v, vv)
    PROVE  View(Table(u, k, x, v, a), h) = View(Table(uu, k, xx, vv, a), h)
<1>1. ASSUME NEW p, NEW q, NEW y, NEW z, NEW b
      PROVE  /\ Table(p, q, y, z, b).utxos = p /\ Table(p, q, y, z, b).kyc = q
             /\ Table(p, q, y, z, b).exchange = y
             /\ Table(p, q, y, z, b).votes = z /\ Table(p, q, y, z, b).assets = b
  BY DEF Table
<1>2. ASSUME NEW p, NEW q, NEW y, NEW z, NEW b
      PROVE  /\ Unspent(Table(p, q, y, z, b)) = Unspents(p)
             /\ \A f : AcceptedRate(Table(p, q, y, z, b), f, h) = AcceptedRate(RatesTable(y), f, h)
             /\ \A f : CurrentRate(Table(p, q, y, z, b), f) = CurrentRate(RatesTable(y), f)
             /\ \A c : VoteCount(Table(p, q, y, z, b), c) = VoteCount(VotesTable(z), c)
  <2>1. Unspent(Table(p, q, y, z, b)) = Unspents(p)
    BY <1>1 DEF Unspent, Unspents
  <2>2. \A f : AcceptedRate(Table(p, q, y, z, b), f, h) = AcceptedRate(RatesTable(y), f, h)
    BY <1>1 DEF AcceptedRate, RatesBefore, RatesTable
  <2>3. \A f : CurrentRate(Table(p, q, y, z, b), f) = CurrentRate(RatesTable(y), f)
    BY <1>1 DEF CurrentRate, RatesTable
  <2>4. \A c : VoteCount(Table(p, q, y, z, b), c) = VoteCount(VotesTable(z), c)
    <3> SUFFICES ASSUME NEW c
                 PROVE  VoteCount(Table(p, q, y, z, b), c) = VoteCount(VotesTable(z), c)
      OBVIOUS
    <3>1. /\ VoteCount(Table(p, q, y, z, b), c)
               = Counted({r \in Table(p, q, y, z, b).votes : r.ballot = c}) % CountRange
          /\ VoteCount(VotesTable(z), c) = Counted({r \in VotesTable(z).votes : r.ballot = c}) % CountRange
      BY DEF VoteCount, VotesOn, Counted
    <3>2. Table(p, q, y, z, b).votes = VotesTable(z).votes
      BY <1>1 DEF VotesTable
    <3> QED BY <3>1, <3>2
  <2> QED BY <2>1, <2>2, <2>3, <2>4
<1>3. ASSUME NEW p, NEW y, NEW z
      PROVE  View(Table(p, k, y, z, a), h)
               = [unspent  |-> Unspents(p), kyc |-> k, assets |-> a,
                  accepted |-> [f \in Feed |-> AcceptedRate(RatesTable(y), f, h)],
                  current  |-> [f \in Feed |-> CurrentRate(RatesTable(y), f)],
                  votes    |-> [b \in Ballot |-> VoteCount(VotesTable(z), b)]]
  BY <1>1, <1>2 DEF View
<1>4. /\ [f \in Feed |-> AcceptedRate(RatesTable(x), f, h)] = [f \in Feed |-> AcceptedRate(RatesTable(xx), f, h)]
      /\ [f \in Feed |-> CurrentRate(RatesTable(x), f)] = [f \in Feed |-> CurrentRate(RatesTable(xx), f)]
      /\ [b \in Ballot |-> VoteCount(VotesTable(v), b)] = [b \in Ballot |-> VoteCount(VotesTable(vv), b)]
  BY DEF SameRates, SameVotes
<1> QED BY <1>3, <1>4

-----------------------------------------------------------------------------
(* pruneExchange                                                           *)

\* The rates a prune to p leaves: the recent ones, and the newest before.
RatesLeft(x, p) ==
    {r \in x : r.height >= p} \cup
    {r \in x : r.height < p /\ \A s \in x : s.feed = r.feed /\ s.height < p => s.height <= r.height}

\* For a rate before p there is one as new that is left.
LEMMA NewestLeft ==
    ASSUME NEW x \in SUBSET RateRow, NEW p \in Int, NEW r \in x, r.height < p
    PROVE  \E s \in RatesLeft(x, p) : s.feed = r.feed /\ s.height < p /\ s.height >= r.height
<1> DEFINE older == {s \in x : s.feed = r.feed /\ s.height < p}
           N == {p - s.height : s \in older}
<1>1. \A s \in x : s.height \in Nat
  BY DEF RateRow
<1>2. N \in SUBSET Nat /\ N # {}
  BY <1>1
<1>3. PICK n \in N : \A m \in N : n <= m
  <2> HIDE DEF N
  <2> QED BY <1>2, Least
<1>4. PICK s \in older : n = p - s.height
  OBVIOUS
<1>5. ASSUME NEW q \in older PROVE q.height <= s.height
  <2>1. p - q.height \in N /\ q.height \in Nat /\ s.height \in Nat
    BY <1>1
  <2>2. p - s.height <= p - q.height
    BY <1>3, <1>4, <2>1
  <2> HIDE DEF N, older
  <2> QED BY <2>1, <2>2
<1>6. s \in RatesLeft(x, p)
  BY <1>4, <1>5 DEF RatesLeft
<1> QED BY <1>4, <1>5, <1>6

\* Old rates but the newest are not accepted, nor current.
LEMMA RatesPruned ==
    ASSUME NEW x \in SUBSET RateRow, NEW p \in Int, NEW h \in Nat, p <= h, p - 1 <= h - Leniency
    PROVE  SameRates(x, RatesLeft(x, p), h)
<1> DEFINE y == RatesLeft(x, p)
<1>0. /\ Leniency \in Nat /\ \A s \in x : s.height \in Nat
      /\ y \in SUBSET x
  BY DatabaseAssumption DEF RateRow, RatesLeft
<1>1. ASSUME NEW r \in x, r.height < p
      PROVE  \E s \in y : s.feed = r.feed /\ s.height < p /\ s.height >= r.height
  BY <1>1, NewestLeft
<1>2. ASSUME NEW r \in x, r \notin y
      PROVE  r.height < p /\ \E s \in x : s.feed = r.feed /\ s.height < p /\ s.height > r.height
  BY <1>0, <1>2 DEF RatesLeft
<1> HIDE DEF y
<1> SUFFICES ASSUME NEW f \in Feed
             PROVE  /\ AcceptedRate(RatesTable(x), f, h) = AcceptedRate(RatesTable(y), f, h)
                    /\ CurrentRate(RatesTable(x), f) = CurrentRate(RatesTable(y), f)
  BY DEF SameRates, y
<1> DEFINE Before(z) == {r \in z : r.feed = f /\ r.height < h}
           Live(z) == {r \in Before(z) : \A s \in Before(z) : s.height > r.height => s.height > h - Leniency}
           Newest(z) == {q \in z : q.feed = f /\ \A s \in z : s.feed = f => s.height <= q.height}
<1>3. Live(x) \subseteq Live(y)
  <2> SUFFICES ASSUME NEW r \in Live(x) PROVE r \in Live(y)
    OBVIOUS
  <2>1. r \in x /\ r.feed = f /\ r.height < h
    OBVIOUS
  <2>2. \A s \in x : s.feed = f /\ s.height < h /\ s.height > r.height => s.height > h - Leniency
    OBVIOUS
  <2>3. r \in y
    <3> SUFFICES ASSUME r \notin y PROVE FALSE
      OBVIOUS
    <3>1. PICK s \in x : s.feed = r.feed /\ s.height < p /\ s.height > r.height
      BY <1>2, <2>1
    <3>2. s.height < h /\ s.height > h - Leniency
      BY <1>0, <2>1, <2>2, <3>1
    <3> QED BY <1>0, <3>1, <3>2
  <2>4. \A s \in y : s \in x
    BY <1>0
  <2> QED BY <2>1, <2>2, <2>3, <2>4
<1>4. Live(y) \subseteq Live(x)
  <2> SUFFICES ASSUME NEW r \in Live(y) PROVE r \in Live(x)
    OBVIOUS
  <2>1. r \in x /\ r \in y /\ r.feed = f /\ r.height < h
    BY <1>0
  <2>2. \A s \in y : s.feed = f /\ s.height < h /\ s.height > r.height => s.height > h - Leniency
    OBVIOUS
  <2>3. ASSUME NEW s \in x, s.feed = f, s.height < h, s.height > r.height PROVE s.height > h - Leniency
    <3>1. CASE s \in y
      BY <2>2, <2>3, <3>1
    <3>2. CASE s \notin y
      <4>1. s.height < p
        BY <1>2, <3>2
      <4>2. PICK q \in y : q.feed = f /\ q.height < p /\ q.height >= s.height
        BY <1>1, <2>3, <4>1
      <4>3. q.height \in Nat /\ s.height \in Nat /\ r.height \in Nat
        BY <1>0, <2>1
      <4>4. q.height < h /\ q.height > r.height
        BY <2>3, <4>2, <4>3
      <4>5. q.height > h - Leniency
        BY <2>2, <4>2, <4>4
      <4> QED BY <1>0, <4>2, <4>3, <4>5
    <3> QED BY <3>1, <3>2
  <2> QED BY <2>1, <2>3
<1>5. Newest(x) \subseteq Newest(y)
  <2> SUFFICES ASSUME NEW r \in Newest(x) PROVE r \in Newest(y)
    OBVIOUS
  <2>1. r \in x /\ r.feed = f /\ \A s \in x : s.feed = f => s.height <= r.height
    OBVIOUS
  <2>2. r \in y
    BY <1>0, <1>2, <2>1
  <2> QED BY <1>0, <2>1, <2>2
<1>6. Newest(y) \subseteq Newest(x)
  <2> SUFFICES ASSUME NEW r \in Newest(y) PROVE r \in Newest(x)
    OBVIOUS
  <2>1. r \in x /\ r \in y /\ r.feed = f /\ \A s \in y : s.feed = f => s.height <= r.height
    BY <1>0
  <2>2. ASSUME NEW s \in x, s.feed = f PROVE s.height <= r.height
    <3>1. CASE s \in y
      BY <2>1, <2>2, <3>1
    <3>2. CASE s \notin y
      <4>1. s.height < p
        BY <1>2, <3>2
      <4>2. PICK q \in y : q.feed = f /\ q.height < p /\ q.height >= s.height
        BY <1>1, <2>2, <4>1
      <4>3. q.height \in Nat /\ s.height \in Nat /\ r.height \in Nat /\ q.height <= r.height
        BY <1>0, <2>1, <4>2
      <4> QED BY <4>2, <4>3
    <3> QED BY <3>1, <3>2
  <2> QED BY <2>1, <2>2
<1>7. Live(x) = Live(y) /\ Newest(x) = Newest(y)
  BY <1>3, <1>4, <1>5, <1>6
<1>8. ASSUME NEW z PROVE RatesTable(z).exchange = z
  BY DEF RatesTable, Table
<1>9. ASSUME NEW z
      PROVE  /\ AcceptedRate(RatesTable(z), f, h)
                  = {r.value : r \in {q \in Live(z) : \A s \in Live(z) : q.value <= s.value}}
             /\ CurrentRate(RatesTable(z), f) = {r.value : r \in Newest(z)}
  BY <1>8 DEF AcceptedRate, CurrentRate, RatesBefore
<1> HIDE DEF Live, Newest
<1> QED BY <1>7, <1>9

\* A prune and a clear of a later height do not disturb each other.
LEMMA RatesLeftBelow ==
    ASSUME NEW x \in SUBSET RateRow, NEW p \in Int, NEW b \in Nat, p <= b
    PROVE  RowsBelow(RatesLeft(x, p), b) = RatesLeft(RowsBelow(x, b), p)
<1>1. \A r \in x : r.height \in Nat
  BY DEF RateRow
<1>2. \A r \in x : r.height < p => r.height < b
  BY <1>1
<1> QED BY <1>1, <1>2 DEF RowsBelow, RatesLeft

-----------------------------------------------------------------------------
(* pruneUTXO                                                               *)

UtxosLeft(u, p) == {w \in u : w.destroyed = NULL \/ w.destroyed >= p}

\* Outputs spent before p are asked for no more, now or after a clear.
LEMMA UtxosPruned ==
    ASSUME NEW u \in SUBSET UtxoRow, NEW p \in Nat
    PROVE  /\ Unspents(UtxosLeft(u, p)) = Unspents(u)
           /\ \A b \in Nat : p <= b =>
                 Unspents(Undestroyed(CreatedBelow(UtxosLeft(u, p), b), b))
                    = Unspents(Undestroyed(CreatedBelow(u, b), b))
<1>1. Unspents(UtxosLeft(u, p)) = Unspents(u)
  BY DEF Unspents, UtxosLeft
<1>2. ASSUME NEW b \in Nat, p <= b
      PROVE  Unspents(Undestroyed(CreatedBelow(UtxosLeft(u, p), b), b))
                = Unspents(Undestroyed(CreatedBelow(u, b), b))
  <2> DEFINE Reset(w) == [w EXCEPT !.destroyed = IF @ >= b THEN NULL ELSE @]
  <2>1. \A w \in u : w.destroyed \in Nat /\ (Reset(w).destroyed = NULL => w.destroyed = NULL \/ w.destroyed >= b)
    BY DEF UtxoRow, NULL
  <2>2. ASSUME NEW z PROVE Undestroyed(z, b) = {Reset(w) : w \in z}
    BY DEF Undestroyed
  <2> HIDE DEF Reset
  <2>3. CreatedBelow(UtxosLeft(u, p), b) = {w \in CreatedBelow(u, b) : w.destroyed = NULL \/ w.destroyed >= p}
    BY DEF CreatedBelow, UtxosLeft
  <2>4. \A w \in CreatedBelow(u, b) :
           Reset(w).destroyed = NULL => w \in CreatedBelow(UtxosLeft(u, p), b)
    BY <1>2, <2>1, <2>3 DEF CreatedBelow
  <2> QED BY <2>2, <2>3, <2>4 DEF Unspents
<1> QED BY <1>1, <1>2

-----------------------------------------------------------------------------
(* pruneVote                                                               *)

CountOf(v, b) == Counted({r \in v : r.ballot = b})
OldVotes(v, b, p) == {r \in v : r.ballot = b /\ r.height < p}

\* The rows pruneVote puts back, and what the table then has.
SumsLeft(v, p) ==
    {[r EXCEPT !.count = Counted(OldVotes(v, r.ballot, p)) % CountRange] :
        r \in {w \in v : w.height < p /\ \A s \in OldVotes(v, w.ballot, p) : s.height <= w.height}}
VotesLeft(v, p) == {r \in v : r.height >= p} \cup SumsLeft(v, p)

\* Finite sets of votes have sums.
LEMMA VotesCountable ==
    ASSUME NEW v \in SUBSET VoteRow, IsFiniteSet(v)
    PROVE  Countable(v) /\ \A w \in SUBSET v : Countable(w)
BY FS_Subset DEF Countable, VoteRow

\* The rows put back for a ballot: one that has the sum, if there was any.
LEMMA OneSum ==
    ASSUME NEW v \in SUBSET VoteRow, IsFiniteSet(v), NEW p \in Int, NEW b
    PROVE  /\ OldVotes(v, b, p) = {} => {r \in SumsLeft(v, p) : r.ballot = b} = {}
           /\ OldVotes(v, b, p) # {} =>
                 \E r : /\ {q \in SumsLeft(v, p) : q.ballot = b} = {r}
                        /\ r \in VoteRow /\ r.height < p
                        /\ r.count = Counted(OldVotes(v, b, p)) % CountRange
<1> DEFINE old == OldVotes(v, b, p)
           sum == Counted(old) % CountRange
           S == {r \in SumsLeft(v, p) : r.ballot = b}
           new == {w \in old : \A s \in old : s.height <= w.height}
           Put(r) == [r EXCEPT !.count = Counted(OldVotes(v, r.ballot, p)) % CountRange]
<1>1. old \in SUBSET v /\ \A r \in old : r \in VoteRow /\ r.height \in Nat /\ r.ballot = b /\ r.height < p
  BY DEF OldVotes, VoteRow
<1>2. \A r \in v : Put(r).ballot = r.ballot
  BY DEF VoteRow
<1>3. S = {Put(r) : r \in new}
  <2>1. SumsLeft(v, p)
          = {Put(r) : r \in {w \in v : w.height < p /\ \A s \in OldVotes(v, w.ballot, p) : s.height <= w.height}}
    BY DEF SumsLeft
  <2>2. new = {w \in v : w.ballot = b /\ w.height < p /\ \A s \in OldVotes(v, w.ballot, p) : s.height <= w.height}
    BY DEF OldVotes
  <2> HIDE DEF Put, new
  <2> QED BY <1>2, <2>1, <2>2
<1>4. CASE old = {}
  BY <1>3, <1>4
<1>5. CASE old # {}
  <2>1. PICK r \in new : TRUE
    <3> DEFINE N == {p - s.height : s \in old}
    <3>1. N \in SUBSET Nat /\ N # {}
      BY <1>1, <1>5
    <3>2. PICK n \in N : \A m \in N : n <= m
      <4> HIDE DEF N
      <4> QED BY <3>1, Least
    <3>3. PICK s \in old : n = p - s.height
      OBVIOUS
    <3>4. ASSUME NEW q \in old PROVE q.height <= s.height
      <4>1. p - q.height \in N /\ q.height \in Nat /\ s.height \in Nat
        BY <1>1
      <4>2. p - s.height <= p - q.height
        BY <3>2, <3>3, <4>1
      <4> HIDE DEF N, old
      <4> QED BY <4>1, <4>2
    <3> QED BY <3>4
  <2>2. sum \in Nat
    <3>1. Countable(old)
      BY <1>1, VotesCountable
    <3>2. Counted(old) \in Nat
      BY <3>1, SumSteps
    <3> QED BY <3>2, DatabaseAssumption
  <2>3. r \in old /\ r \in VoteRow
    BY <1>1
  <2> HIDE DEF sum
  <2>4. ASSUME NEW q \in new PROVE Put(q) = [r EXCEPT !.count = sum]
    <3>1. q \in VoteRow /\ q.ballot = b /\ r.ballot = b /\ q.height = r.height
      BY <1>1
    <3>2. Put(q) = [q EXCEPT !.count = sum]
      BY <3>1 DEF sum
    <3>3. r \in VoteRow
      BY <2>3
    <3> HIDE DEF Put, new, old
    <3> QED BY <3>1, <3>2, <3>3 DEF VoteRow
  <2> DEFINE row == [r EXCEPT !.count = sum]
  <2>5. row \in VoteRow /\ row.height < p /\ row.count = sum
    <3>1. r.height < p
      BY <1>1, <2>3
    <3> HIDE DEF old, new
    <3> QED BY <2>2, <2>3, <3>1 DEF VoteRow
  <2>6. S = {row}
    <3> HIDE DEF Put, S, new, old, row
    <3>1. \A q \in new : Put(q) = row
      BY <2>4 DEF row
    <3> QED BY <1>3, <2>1, <3>1
  <2>7. row.count = Counted(OldVotes(v, b, p)) % CountRange
    BY <2>5 DEF sum
  <2> HIDE DEF row
  <2> QED BY <1>5, <2>5, <2>6, <2>7
<1> QED BY <1>4, <1>5

\* The sums answer as the rows did that they replace.
LEMMA VotesPruned ==
    ASSUME NEW v \in SUBSET VoteRow, IsFiniteSet(v), NEW p \in Int, NEW b
    PROVE  CountOf(VotesLeft(v, p), b) % CountRange = CountOf(v, b) % CountRange
<1> DEFINE old == OldVotes(v, b, p)
           recent == {r \in v : r.ballot = b /\ r.height >= p}
           put == {r \in SumsLeft(v, p) : r.ballot = b}
<1>1. \A r \in v : r.height \in Nat
  BY DEF VoteRow
<1>2. /\ {r \in v : r.ballot = b} = recent \cup old /\ recent \cap old = {}
      /\ {r \in VotesLeft(v, p) : r.ballot = b} = recent \cup put
  BY <1>1 DEF OldVotes, VotesLeft
<1>3. Countable(old) /\ Countable(recent)
  BY VotesCountable DEF OldVotes
<1> HIDE DEF old, recent, put
<1>4. /\ Counted(recent) \in Nat /\ Counted(old) \in Nat
      /\ CountOf(v, b) = Counted(recent) + Counted(old)
  BY <1>2, <1>3, SumSteps, SumUnion DEF CountOf
<1>5. CASE old = {}
  <2>1. put = {}
    BY <1>5, OneSum DEF old, put
  <2>2. Counted(old) = 0
    BY <1>3, <1>5, SumSteps
  <2>3. CountOf(VotesLeft(v, p), b) = Counted(recent)
    BY <1>2, <2>1 DEF CountOf
  <2> QED BY <1>4, <2>2, <2>3
<1>6. CASE old # {}
  <2>1. PICK r : put = {r} /\ r \in VoteRow /\ r.height < p /\ r.count = Counted(old) % CountRange
    BY <1>6, OneSum DEF old, put
  <2>2. r \notin recent /\ r.count \in Nat
    BY <2>1 DEF recent, VoteRow
  <2>3. Counted(recent \cup {r}) = r.count + Counted(recent)
    BY <1>3, <2>2, SumAdd
  <2>4. CountOf(VotesLeft(v, p), b) = (Counted(old) % CountRange) + Counted(recent)
    BY <1>2, <2>1, <2>3 DEF CountOf
  <2>5. CountRange \in Nat \ {0}
    BY DatabaseAssumption
  <2>6. ((Counted(old) % CountRange) + Counted(recent)) % CountRange = (Counted(old) + Counted(recent)) % CountRange
    BY <1>4, <2>5, ReducedFirst
  <2>7. Counted(old) + Counted(recent) = Counted(recent) + Counted(old)
    BY <1>4
  <2> QED BY <1>4, <2>4, <2>6, <2>7
<1> QED BY <1>5, <1>6

\* So every vote count stays.
LEMMA SameVotesPruned ==
    ASSUME NEW v \in SUBSET VoteRow, IsFiniteSet(v), NEW p \in Int
    PROVE  SameVotes(v, VotesLeft(v, p))
<1>1. ASSUME NEW w, NEW b PROVE VoteCount(VotesTable(w), b) = CountOf(w, b) % CountRange
  <2>1. VotesTable(w).votes = w
    BY DEF VotesTable, Table
  <2>2. VoteCount(VotesTable(w), b) = Counted({r \in VotesTable(w).votes : r.ballot = b}) % CountRange
    BY DEF VoteCount, VotesOn, Counted
  <2> QED BY <2>1, <2>2 DEF CountOf
<1> QED BY <1>1, VotesPruned DEF SameVotes

\* What is put back is well formed and older than p.
LEMMA VotesLeftRows ==
    ASSUME NEW v \in SUBSET VoteRow, IsFiniteSet(v), NEW p \in Int
    PROVE  /\ VotesLeft(v, p) \in SUBSET VoteRow /\ IsFiniteSet(VotesLeft(v, p))
           /\ \A r \in SumsLeft(v, p) : r.height < p
           /\ \A H \in Int : (\A r \in v : r.height <= H) => \A r \in VotesLeft(v, p) : r.height <= H
<1> DEFINE new == {w \in v : w.height < p /\ \A s \in OldVotes(v, w.ballot, p) : s.height <= w.height}
           Put(r) == [r EXCEPT !.count = Counted(OldVotes(v, r.ballot, p)) % CountRange]
           S == {Put(r) : r \in new}
<1>1. SumsLeft(v, p) = S
  BY DEF SumsLeft
<1>2. \A r \in v : Counted(OldVotes(v, r.ballot, p)) % CountRange \in Nat
  <2>1. ASSUME NEW b PROVE Counted(OldVotes(v, b, p)) \in Nat
    <3>1. Countable(OldVotes(v, b, p))
      BY VotesCountable DEF OldVotes
    <3> QED BY <3>1, SumSteps
  <2> QED BY <2>1, DatabaseAssumption
<1>3. \A r \in new : Put(r) \in VoteRow /\ Put(r).height = r.height
  BY <1>2 DEF VoteRow
<1>4. IsFiniteSet(new)
  BY FS_Subset
<1>5. IsFiniteSet(S)
  <2> DEFINE f == [r \in new |-> Put(r)]
  <2>1. f \in Surjection(new, S)
    <3> HIDE DEF Put, new
    <3> QED BY DEF Surjection
  <2> HIDE DEF f, S, new
  <2> QED BY <1>4, <2>1, FS_Surjection
<1>6. IsFiniteSet({r \in v : r.height >= p})
  BY FS_Subset
<1> HIDE DEF Put, S
<1>7. IsFiniteSet(VotesLeft(v, p))
  BY <1>1, <1>5, <1>6, FS_Union DEF VotesLeft
<1>8. S \in SUBSET VoteRow /\ \A r \in S : \E w \in new : r.height = w.height
  BY <1>3 DEF S
<1> QED BY <1>1, <1>7, <1>8 DEF VotesLeft

\* Pruning and clearing a later height do not disturb each other.
LEMMA VotesLeftBelow ==
    ASSUME NEW v \in SUBSET VoteRow, IsFiniteSet(v), NEW p \in Int, NEW b \in Nat, p <= b
    PROVE  RowsBelow(VotesLeft(v, p), b) = VotesLeft(RowsBelow(v, b), p)
<1> DEFINE w == RowsBelow(v, b)
<1>1. \A r \in v : r.height \in Nat /\ (r.height < p => r.height < b)
  BY DEF VoteRow
<1>2. \A c : OldVotes(w, c, p) = OldVotes(v, c, p)
  BY <1>1 DEF OldVotes, RowsBelow
<1>3. {r \in w : r.height < p /\ \A s \in OldVotes(w, r.ballot, p) : s.height <= r.height}
        = {r \in v : r.height < p /\ \A s \in OldVotes(v, r.ballot, p) : s.height <= r.height}
  <2>1. \A r : r \in w /\ r.height < p <=> r \in v /\ r.height < p
    BY <1>1 DEF RowsBelow
  <2> HIDE DEF w
  <2>2. \A r : r \in w /\ r.height < p /\ (\A s \in OldVotes(w, r.ballot, p) : s.height <= r.height)
           <=> r \in v /\ r.height < p /\ (\A s \in OldVotes(v, r.ballot, p) : s.height <= r.height)
    BY <1>2, <2>1, Zenon
  <2> QED BY <2>2, Zenon
<1>4. SumsLeft(w, p) = SumsLeft(v, p)
  BY <1>2, <1>3 DEF SumsLeft
<1>5. \A r \in SumsLeft(v, p) : r.height < p
  BY VotesLeftRows
<1>6. \A r \in SumsLeft(v, p) : r.height \in Nat
  <2>1. VotesLeft(v, p) \in SUBSET VoteRow
    BY VotesLeftRows, ZenonT(40)
  <2>2. SumsLeft(v, p) \subseteq VoteRow
    BY <2>1, Zenon DEF VotesLeft
  <2> QED BY <2>2 DEF VoteRow
<1>7. \A r \in SumsLeft(v, p) : r.height < b
  <2>1. ASSUME NEW r \in SumsLeft(v, p) PROVE r.height < b
    <3>1. r.height \in Nat /\ r.height < p
      BY <1>5, <1>6
    <3> QED BY <3>1
  <2> QED BY <2>1
<1> DEFINE sums == SumsLeft(v, p)
<1>8. SumsLeft(w, p) = sums /\ \A r \in sums : r.height < b
  BY <1>4, <1>7
<1> HIDE DEF sums
<1>9. RowsBelow({r \in v : r.height >= p} \cup sums, b) = {r \in w : r.height >= p} \cup sums
  BY <1>8 DEF RowsBelow
<1>10. VotesLeft(v, p) = {r \in v : r.height >= p} \cup sums
  BY DEF VotesLeft, sums
<1>11. VotesLeft(w, p) = {r \in w : r.height >= p} \cup sums
  BY <1>8 DEF VotesLeft
<1> QED BY <1>9, <1>10, <1>11, Zenon

-----------------------------------------------------------------------------
(* The inductive invariant of the rollback: the rows, with those a prune is  *)
(* about to put back, are well formed, and none is of a height above the     *)
(* block that is open but while a rewind is about to delete it.             *)

RowTypes(d) ==
    /\ d = Table(d.utxos, d.kyc, d.exchange, d.votes, d.assets)
    /\ Good(d.utxos, d.kyc)
    /\ d.exchange \subseteq RateRow /\ d.assets \subseteq AssetRow
    /\ d.votes \subseteq VoteRow /\ IsFiniteSet(d.votes)

\* What the i-th statement of a clear of height H leaves has no height above H.
Under(i, d, H) ==
    /\ i = 1 => \A r \in d.assets : r.created <= H
    /\ i = 2 => \A r \in d.exchange : r.height <= H
    /\ i = 3 => \A r \in d.kyc : r.height <= H
    /\ i = 4 => \A r \in d.kyc : r.revoked <= H
    /\ i = 5 => \A r \in d.utxos : r.created <= H
    /\ i = 6 => \A r \in d.utxos : r.destroyed <= H
    /\ i = 7 => \A r \in d.votes : r.height <= H

UnderAll(d, H) == \A i \in 1 .. 7 : Under(i, d, H)

\* What it takes away is gone.
Gone(i, d, H) ==
    /\ i = 1 => \A r \in d.assets : r.created <= 1 \/ r.created < H
    /\ i = 2 => \A r \in d.exchange : r.height < H
    /\ i = 3 => \A r \in d.kyc : r.height < H
    /\ i = 4 => \A r \in d.kyc : r.revoked < H
    /\ i = 5 => \A r \in d.utxos : r.created < H
    /\ i = 6 => \A r \in d.utxos : r.destroyed < H
    /\ i = 7 => \A r \in d.votes : r.height < H

GoneAll(d, H) == \A i \in 1 .. 7 : Gone(i, d, H)

RowsUnder ==
    /\ pc \notin {"clear", "down"} => UnderAll(Whole, height)
    /\ pc = "clear" => \A i \in 1 .. step - 1 : Gone(i, Whole, height)

NothingKept == pc \notin {"unreachable", "keep"} => keptRates = {} /\ keptVotes = {}

TopOpen ==
    /\ height \in blocks
    /\ pc # "clear" => \A b \in blocks : b <= height
    /\ pc = "down" => step = 1

RatesThere == ratesFrom \in Nat /\ RatesComplete(height)

RollbackInv == RowsInv /\ RowTypes(Whole) /\ RowsUnder /\ NothingKept /\ TopOpen /\ RatesThere

-----------------------------------------------------------------------------
(* Tables as records                                                       *)

\* The tables of a database.
LEMMA TableParts ==
    ASSUME NEW u, NEW k, NEW x, NEW v, NEW a
    PROVE  /\ Table(u, k, x, v, a).utxos = u /\ Table(u, k, x, v, a).kyc = k
           /\ Table(u, k, x, v, a).exchange = x
           /\ Table(u, k, x, v, a).votes = v /\ Table(u, k, x, v, a).assets = a
BY DEF Table

RowsOf(u, k, x, v, a) ==
    /\ Good(u, k) /\ x \subseteq RateRow /\ a \subseteq AssetRow
    /\ v \subseteq VoteRow /\ IsFiniteSet(v)

UnderOf(u, k, x, v, a, H) ==
    /\ UpToNow(k, x, a, H)
    /\ \A r \in u : r.created <= H /\ r.destroyed <= H
    /\ \A r \in v : r.height <= H

\* What RowTypes and UnderAll say, table by table.
LEMMA RowTypesOf ==
    ASSUME NEW u, NEW k, NEW x, NEW v, NEW a
    PROVE  /\ RowTypes(Table(u, k, x, v, a)) <=> RowsOf(u, k, x, v, a)
           /\ \A H : x \subseteq RateRow /\ a \subseteq AssetRow =>
                 (UnderAll(Table(u, k, x, v, a), H) <=> UnderOf(u, k, x, v, a, H))
<1> DEFINE d == Table(u, k, x, v, a)
<1>1. d.utxos = u /\ d.kyc = k /\ d.exchange = x /\ d.votes = v /\ d.assets = a
  BY TableParts
<1>2. d = Table(u, k, x, v, a)
  OBVIOUS
<1> HIDE DEF d
<1>3. RowTypes(d) <=> RowsOf(u, k, x, v, a)
  BY <1>1, <1>2 DEF RowTypes, RowsOf
<1>4. ASSUME NEW H, x \subseteq RateRow, a \subseteq AssetRow
      PROVE  UnderAll(d, H) <=> UnderOf(u, k, x, v, a, H)
  <2>1. /\ Under(1, d, H) <=> \A r \in a : r.created <= H
        /\ Under(2, d, H) <=> \A r \in x : r.height <= H
        /\ Under(3, d, H) <=> \A r \in k : r.height <= H
        /\ Under(4, d, H) <=> \A r \in k : r.revoked <= H
        /\ Under(5, d, H) <=> \A r \in u : r.created <= H
        /\ Under(6, d, H) <=> \A r \in u : r.destroyed <= H
        /\ Under(7, d, H) <=> \A r \in v : r.height <= H
    BY <1>1 DEF Under
  <2>2. UnderAll(d, H) <=> /\ Under(1, d, H) /\ Under(2, d, H) /\ Under(3, d, H) /\ Under(4, d, H)
                           /\ Under(5, d, H) /\ Under(6, d, H) /\ Under(7, d, H)
    BY DEF UnderAll
  <2> QED BY <1>4, <2>1, <2>2, Zenon DEF UnderOf, UpToNow
<1> QED BY <1>3, <1>4 DEF d

Joined(d, x, v) == [d EXCEPT !.exchange = @ \cup x, !.votes = @ \cup v]

\* Whole is the tables and the rows kept aside.
LEMMA WholeJoined ==
    /\ Whole = Joined(db, keptRates, keptVotes)
    /\ Whole' = Joined(db', keptRates', keptVotes')
BY DEF Whole, Joined

\* Which is a union in two of the tables.
LEMMA JoinedTable ==
    ASSUME NEW u, NEW k, NEW x, NEW v, NEW a, NEW y, NEW w
    PROVE  Joined(Table(u, k, x, v, a), y, w) = Table(u, k, x \cup y, v \cup w, a)
<1> DEFINE X == x \cup y
           V == v \cup w
<1>1. Joined(Table(u, k, x, v, a), y, w) = [Table(u, k, x, v, a) EXCEPT !.exchange = X, !.votes = V]
  <2> DEFINE d == Table(u, k, x, v, a)
  <2>1. d.exchange = x /\ d.votes = v
    BY TableParts
  <2> HIDE DEF d
  <2>2. Joined(d, y, w) = [d EXCEPT !.exchange = X, !.votes = V]
    BY <2>1 DEF Joined
  <2> QED BY <2>2 DEF d
<1> HIDE DEF X, V
<1>2. Joined(Table(u, k, x, v, a), y, w) = Table(u, k, X, V, a)
  BY <1>1 DEF Table
<1> QED BY <1>2 DEF X, V

\* The tables, when nothing waits to be put back.
LEMMA WholeIsDb ==
    ASSUME RowsInv, keptRates = {}, keptVotes = {}
    PROVE  Whole = db
<1> PICK u, k, x, v, a : db = Table(u, k, x, v, a)
  BY DEF RowsInv
<1>1. Whole = Table(u, k, x \cup {}, v \cup {}, a)
  BY WholeJoined, JoinedTable
<1> QED BY <1>1

LEMMA WholeIsDbNext ==
    ASSUME RowsInv', keptRates' = {}, keptVotes' = {}
    PROVE  Whole' = db'
<1> PICK u, k, x, v, a : db' = Table(u, k, x, v, a)
  BY DEF RowsInv
<1>1. Whole' = Table(u, k, x \cup {}, v \cup {}, a)
  BY WholeJoined, JoinedTable
<1> QED BY <1>1

\* A well-formed database is made of well-formed tables.
LEMMA RowTypesTable ==
    ASSUME NEW d, RowTypes(d)
    PROVE  \E u, k, x, v, a : d = Table(u, k, x, v, a) /\ RowsOf(u, k, x, v, a)
<1> DEFINE u == d.utxos  k == d.kyc  x == d.exchange  v == d.votes  a == d.assets
<1>1. d = Table(u, k, x, v, a) /\ RowsOf(u, k, x, v, a)
  BY DEF RowTypes, RowsOf
<1> QED BY <1>1

-----------------------------------------------------------------------------
(* Processing                                                              *)

\* A transaction's rows are well formed, and of heights up to the present one.
LEMMA UtxosWritten ==
    ASSUME NEW u \in SUBSET UtxoRow, NEW H \in Nat, NEW ins, NEW outs,
           \A r \in u : r.created <= H /\ r.destroyed <= H
    PROVE  \A r \in Added(Marked(u, ins, H), outs, H) : r.created <= H /\ r.destroyed <= H
<1> DEFINE Mark(w) == [w EXCEPT !.destroyed = IF w.out \in ins THEN H ELSE @]
<1>1. \A w \in u : Mark(w).created = w.created /\ Mark(w).destroyed \in {H, w.destroyed}
  BY DEF UtxoRow
<1>2. Marked(u, ins, H) = {Mark(w) : w \in u}
  BY DEF Marked
<1> HIDE DEF Mark
<1>3. \A r \in Marked(u, ins, H) : r.created <= H /\ r.destroyed <= H
  BY <1>1, <1>2
<1>4. \A r \in Fresh(outs, H) : r.created <= H /\ r.destroyed <= H
  BY DEF Fresh, NULL
<1> QED BY <1>3, <1>4 DEF Added

\* Votes of a transaction are well formed.
LEMMA VotesWritten ==
    ASSUME NEW v \in SUBSET VoteRow, IsFiniteSet(v), NEW H \in Nat,
           NEW cast \in [Ballot -> 0 .. MaxCast], \A r \in v : r.height <= H
    PROVE  /\ Voted(v, cast, H) \in SUBSET VoteRow /\ IsFiniteSet(Voted(v, cast, H))
           /\ \A r \in Voted(v, cast, H) : r.height <= H
<1> DEFINE Row(b) == [ballot |-> b, height |-> H, count |-> Sum(v, b, cast, H)]
<1>1. ASSUME NEW b \in Ballot PROVE Sum(v, b, cast, H) \in Nat
  <2> DEFINE same == {r \in v : r.ballot = b /\ r.height = H}
  <2>1. Countable(same)
    BY VotesCountable
  <2>2. Sum(v, b, cast, H) = cast[b] + Counted(same)
    BY DEF Sum, Counted
  <2> HIDE DEF same
  <2>3. cast[b] \in Nat /\ Counted(same) \in Nat
    <3>1. cast[b] \in 0 .. MaxCast /\ MaxCast \in Nat
      BY DatabaseAssumption
    <3>2. Counted(same) \in Nat
      BY <2>1, SumSteps
    <3> QED BY <3>1, <3>2
  <2> QED BY <2>2, <2>3
<1>2. Counts(v, cast, H) = {Row(b) : b \in VotedOn(cast)} /\ VotedOn(cast) \in SUBSET Ballot
  BY DEF Counts, VotedOn
<1>3. \A b \in VotedOn(cast) : Row(b) \in VoteRow /\ Row(b).height = H
  BY <1>1, <1>2 DEF VoteRow
<1> HIDE DEF Row
<1>4. IsFiniteSet(Counts(v, cast, H))
  <2> DEFINE f == [b \in VotedOn(cast) |-> Row(b)]
  <2>1. f \in Surjection(VotedOn(cast), Counts(v, cast, H))
    BY <1>2 DEF Surjection
  <2>2. IsFiniteSet(VotedOn(cast))
    BY <1>2, FS_Subset, DatabaseAssumption
  <2> HIDE DEF f
  <2> QED BY <2>1, <2>2, FS_Surjection
<1> DEFINE rest == {r \in v : ~(r.height = H /\ r.ballot \in VotedOn(cast))}
<1>5. IsFiniteSet(rest) /\ rest \in SUBSET v
  BY FS_Subset
<1>6. Voted(v, cast, H) = rest \cup Counts(v, cast, H)
  BY DEF Voted
<1> HIDE DEF rest
<1>7. IsFiniteSet(Voted(v, cast, H))
  BY <1>4, <1>5, <1>6, FS_Union
<1>8. \A r \in Counts(v, cast, H) : r \in VoteRow /\ r.height = H
  BY <1>2, <1>3
<1>9. \A r \in Voted(v, cast, H) : r \in v \/ r \in Counts(v, cast, H)
  BY <1>5, <1>6
<1> QED BY <1>7, <1>8, <1>9

\* Processing a transaction keeps the tables well formed.
LEMMA ProcessTxRows ==
    ASSUME RowsInv, ~Reissue, ~RevokeAgain, ProcessTx, RowTypes(db), UnderAll(db, height)
    PROVE  RowTypes(db') /\ UnderAll(db', height)
<1>1. PICK u, k, x, v, a : db = Table(u, k, x, v, a) /\ RowsOf(u, k, x, v, a)
  BY RowTypesTable
<1>2. Good(u, k) /\ height \in Nat
  BY <1>1 DEF RowsOf, RowsInv
<1>3. PICK kk, xx, aa : \E ins \in SUBSET SpentOuts(u), outs \in SUBSET Out,
                           cast \in [Ballot -> 0 .. MaxCast] :
         /\ Step(k, x, a, kk, xx, aa, height)
         /\ db' = Table(Added(Marked(u, ins, height), outs, height), kk, xx, Voted(v, cast, height), aa)
         /\ Good(Added(Marked(u, ins, height), outs, height), kk)
  BY <1>1, <1>2, ProcessTxTables
<1>4. PICK ins \in SUBSET SpentOuts(u), outs \in SUBSET Out, cast \in [Ballot -> 0 .. MaxCast] :
         /\ Step(k, x, a, kk, xx, aa, height)
         /\ db' = Table(Added(Marked(u, ins, height), outs, height), kk, xx, Voted(v, cast, height), aa)
         /\ Good(Added(Marked(u, ins, height), outs, height), kk)
  BY <1>3
<1> DEFINE uu == Added(Marked(u, ins, height), outs, height)
           vv == Voted(v, cast, height)
<1>5. UnderOf(u, k, x, v, a, height)
  BY <1>1, RowTypesOf DEF RowsOf
<1>6. UpToNow(kk, xx, aa, height)
  BY <1>4, <1>5 DEF Step, UnderOf
<1>7. \A r \in uu : r.created <= height /\ r.destroyed <= height
  BY <1>2, <1>5, UtxosWritten DEF Good, UnderOf
<1>8. /\ vv \in SUBSET VoteRow /\ IsFiniteSet(vv)
      /\ \A r \in vv : r.height <= height
  BY <1>1, <1>2, <1>5, VotesWritten DEF RowsOf, UnderOf
<1>9. Good(uu, kk) /\ db' = Table(uu, kk, xx, vv, aa)
  BY <1>4
<1> HIDE DEF uu, vv
<1>10. RowsOf(uu, kk, xx, vv, aa) /\ UnderOf(uu, kk, xx, vv, aa, height)
  BY <1>6, <1>7, <1>8, <1>9 DEF RowsOf, UnderOf, UpToNow
<1>11. xx \subseteq RateRow /\ aa \subseteq AssetRow
  BY <1>6 DEF UpToNow
<1> QED BY <1>9, <1>10, <1>11, RowTypesOf
-----------------------------------------------------------------------------
(* Clearing                                                                *)

\* Resetting a column at H and then at a lower b is resetting it at b.
LEMMA ResetTwice ==
    ASSUME NEW u \in SUBSET UtxoRow, NEW k \in SUBSET KycRow, NEW H \in Nat, NEW b \in 1 .. H
    PROVE  /\ Undestroyed(CreatedBelow(Undestroyed(u, H), b), b) = Undestroyed(CreatedBelow(u, b), b)
           /\ Unrevoked(RowsBelow(Unrevoked(k, H), b), b) = Unrevoked(RowsBelow(k, b), b)
<1>1. Undestroyed(CreatedBelow(Undestroyed(u, H), b), b) = Undestroyed(CreatedBelow(u, b), b)
  <2> DEFINE Reset(w, h) == [w EXCEPT !.destroyed = IF @ >= h THEN NULL ELSE @]
  <2>1. ASSUME NEW w \in u
        PROVE  Reset(w, H).created = w.created /\ Reset(Reset(w, H), b) = Reset(w, b)
    <3>1. w \in UtxoRow /\ w.destroyed \in Nat
      BY DEF UtxoRow
    <3>2. CASE w.destroyed >= H
      <4>1. Reset(w, H) = [w EXCEPT !.destroyed = 0] /\ Reset(w, b) = [w EXCEPT !.destroyed = 0]
        BY <3>1, <3>2 DEF NULL
      <4> DEFINE z == [w EXCEPT !.destroyed = 0]
      <4>2. z.destroyed = 0 /\ z.created = w.created /\ [z EXCEPT !.destroyed = 0] = z
        BY <3>1 DEF UtxoRow
      <4>3. Reset(z, b) = z
        <5> HIDE DEF z
        <5>1. ~(z.destroyed >= b) /\ [z EXCEPT !.destroyed = z.destroyed] = z
          BY <4>2
        <5> QED BY <5>1
      <4> HIDE DEF Reset, z
      <4> QED BY <4>1, <4>2, <4>3 DEF z
    <3>3. CASE ~(w.destroyed >= H)
      <4>1. Reset(w, H) = w
        BY <3>1, <3>3 DEF UtxoRow
      <4> HIDE DEF Reset
      <4> QED BY <4>1
    <3> QED BY <3>2, <3>3
  <2>2. \A z, h : Undestroyed(z, h) = {Reset(w, h) : w \in z}
    BY DEF Undestroyed
  <2> HIDE DEF Reset
  <2>3. CreatedBelow(Undestroyed(u, H), b) = {Reset(w, H) : w \in CreatedBelow(u, b)}
    BY <2>1, <2>2 DEF CreatedBelow
  <2>4. \A w \in CreatedBelow(u, b) : Reset(Reset(w, H), b) = Reset(w, b)
    BY <2>1 DEF CreatedBelow
  <2>5. Undestroyed(CreatedBelow(Undestroyed(u, H), b), b)
           = {Reset(z, b) : z \in {Reset(w, H) : w \in CreatedBelow(u, b)}}
    BY <2>2, <2>3
  <2>6. Undestroyed(CreatedBelow(u, b), b) = {Reset(w, b) : w \in CreatedBelow(u, b)}
    BY <2>2
  <2> QED BY <2>4, <2>5, <2>6
<1>2. Unrevoked(RowsBelow(Unrevoked(k, H), b), b) = Unrevoked(RowsBelow(k, b), b)
  <2> DEFINE Reset(w, h) == [w EXCEPT !.revoked = IF @ >= h THEN NULL ELSE @]
  <2>1. ASSUME NEW w \in k
        PROVE  Reset(w, H).height = w.height /\ Reset(Reset(w, H), b) = Reset(w, b)
    <3>1. w \in KycRow /\ w.revoked \in Nat
      BY DEF KycRow
    <3>2. CASE w.revoked >= H
      <4>1. Reset(w, H) = [w EXCEPT !.revoked = 0] /\ Reset(w, b) = [w EXCEPT !.revoked = 0]
        BY <3>1, <3>2 DEF NULL
      <4> DEFINE z == [w EXCEPT !.revoked = 0]
      <4>2. z.revoked = 0 /\ z.height = w.height /\ [z EXCEPT !.revoked = 0] = z
        BY <3>1 DEF KycRow
      <4>3. Reset(z, b) = z
        <5> HIDE DEF z
        <5>1. ~(z.revoked >= b) /\ [z EXCEPT !.revoked = z.revoked] = z
          BY <4>2
        <5> QED BY <5>1
      <4> HIDE DEF Reset, z
      <4> QED BY <4>1, <4>2, <4>3 DEF z
    <3>3. CASE ~(w.revoked >= H)
      <4>1. Reset(w, H) = w
        BY <3>1, <3>3 DEF KycRow
      <4> HIDE DEF Reset
      <4> QED BY <4>1
    <3> QED BY <3>2, <3>3
  <2>2. \A z, h : Unrevoked(z, h) = {Reset(w, h) : w \in z}
    BY DEF Unrevoked
  <2> HIDE DEF Reset
  <2>3. RowsBelow(Unrevoked(k, H), b) = {Reset(w, H) : w \in RowsBelow(k, b)}
    BY <2>1, <2>2 DEF RowsBelow
  <2>4. \A w \in RowsBelow(k, b) : Reset(Reset(w, H), b) = Reset(w, b)
    BY <2>1 DEF RowsBelow
  <2>5. Unrevoked(RowsBelow(Unrevoked(k, H), b), b)
           = {Reset(z, b) : z \in {Reset(w, H) : w \in RowsBelow(k, b)}}
    BY <2>2, <2>3
  <2>6. Unrevoked(RowsBelow(k, b), b) = {Reset(w, b) : w \in RowsBelow(k, b)}
    BY <2>2
  <2> QED BY <2>4, <2>5, <2>6
<1> QED BY <1>1, <1>2

\* Deleting from H and then from a lower b is deleting from b.
LEMMA BelowTwice ==
    ASSUME NEW H \in Nat, NEW b \in 1 .. H
    PROVE  /\ \A u \in SUBSET UtxoRow : CreatedBelow(CreatedBelow(u, H), b) = CreatedBelow(u, b)
           /\ \A k \in SUBSET KycRow : RowsBelow(RowsBelow(k, H), b) = RowsBelow(k, b)
           /\ \A x \in SUBSET RateRow : RowsBelow(RowsBelow(x, H), b) = RowsBelow(x, b)
           /\ \A v \in SUBSET VoteRow : RowsBelow(RowsBelow(v, H), b) = RowsBelow(v, b)
           /\ \A a \in SUBSET AssetRow : AssetsBelow(AssetsBelow(a, H), b) = AssetsBelow(a, b)
<1>1. \A n \in Nat : n < b => n < H
  OBVIOUS
<1>2. \A u \in SUBSET UtxoRow : CreatedBelow(CreatedBelow(u, H), b) = CreatedBelow(u, b)
  BY <1>1 DEF CreatedBelow, UtxoRow
<1>3. \A s : (\A r \in s : r.height \in Nat) => RowsBelow(RowsBelow(s, H), b) = RowsBelow(s, b)
  BY <1>1 DEF RowsBelow
<1>4. \A a \in SUBSET AssetRow : AssetsBelow(AssetsBelow(a, H), b) = AssetsBelow(a, b)
  <2>1. \A n \in Nat : n >= H => n >= b
    OBVIOUS
  <2> QED BY <2>1 DEF AssetsBelow, AssetRow
<1>5. /\ \A k \in SUBSET KycRow : \A r \in k : r.height \in Nat
      /\ \A x \in SUBSET RateRow : \A r \in x : r.height \in Nat
      /\ \A v \in SUBSET VoteRow : \A r \in v : r.height \in Nat
  BY DEF KycRow, RateRow, VoteRow
<1> QED BY <1>2, <1>3, <1>4, <1>5

\* One statement of a clear of height H: what a later, lower clear leaves is
\* what it would have left.
LEMMA StatementCleared ==
    ASSUME NEW d, RowTypes(d), NEW H \in Nat, NEW b \in 1 .. H, NEW i \in 1 .. 7
    PROVE  Clear(Cleared(i, d, H), b) = Clear(d, b)
<1>1. PICK u, k, x, v, a : d = Table(u, k, x, v, a) /\ RowsOf(u, k, x, v, a)
  BY RowTypesTable
<1>2. /\ u \in SUBSET UtxoRow /\ k \in SUBSET KycRow /\ x \in SUBSET RateRow
      /\ v \in SUBSET VoteRow /\ a \in SUBSET AssetRow
  BY <1>1 DEF RowsOf, Good
<1>3. /\ CreatedBelow(CreatedBelow(u, H), b) = CreatedBelow(u, b)
       /\ RowsBelow(RowsBelow(k, H), b) = RowsBelow(k, b)
       /\ RowsBelow(RowsBelow(x, H), b) = RowsBelow(x, b)
       /\ RowsBelow(RowsBelow(v, H), b) = RowsBelow(v, b)
       /\ AssetsBelow(AssetsBelow(a, H), b) = AssetsBelow(a, b)
  BY <1>2, BelowTwice
<1>4. /\ Undestroyed(CreatedBelow(Undestroyed(u, H), b), b) = Undestroyed(CreatedBelow(u, b), b)
       /\ Unrevoked(RowsBelow(Unrevoked(k, H), b), b) = Unrevoked(RowsBelow(k, b), b)
  BY <1>2, ResetTwice
<1>5. CASE i = 1
  <2>1. Cleared(i, d, H) = Table(u, k, x, v, AssetsBelow(a, H))
    BY <1>1, <1>5, Statements DEF Cleared
  <2> QED BY <1>1, <1>3, <2>1, ClearTables
<1>6. CASE i = 2
  <2>1. Cleared(i, d, H) = Table(u, k, RowsBelow(x, H), v, a)
    BY <1>1, <1>6, Statements DEF Cleared
  <2> QED BY <1>1, <1>3, <2>1, ClearTables
<1>7. CASE i = 3
  <2>1. Cleared(i, d, H) = Table(u, RowsBelow(k, H), x, v, a)
    BY <1>1, <1>7, Statements DEF Cleared
  <2> QED BY <1>1, <1>3, <2>1, ClearTables
<1>8. CASE i = 4
  <2>1. Cleared(i, d, H) = Table(u, Unrevoked(k, H), x, v, a)
    BY <1>1, <1>8, Statements DEF Cleared
  <2> QED BY <1>1, <1>4, <2>1, ClearTables
<1>9. CASE i = 5
  <2>1. Cleared(i, d, H) = Table(CreatedBelow(u, H), k, x, v, a)
    BY <1>1, <1>9, Statements DEF Cleared
  <2> QED BY <1>1, <1>3, <2>1, ClearTables
<1>10. CASE i = 6
  <2>1. Cleared(i, d, H) = Table(Undestroyed(u, H), k, x, v, a)
    BY <1>1, <1>10, Statements DEF Cleared
  <2> QED BY <1>1, <1>4, <2>1, ClearTables
<1>11. CASE i = 7
  <2>1. Cleared(i, d, H) = Table(u, k, x, RowsBelow(v, H), a)
    BY <1>1, <1>11, Statements DEF Cleared
  <2> QED BY <1>1, <1>3, <2>1, ClearTables
<1> QED BY <1>5, <1>6, <1>7, <1>8, <1>9, <1>10, <1>11

\* It keeps rows well formed, and what earlier statements left out stays out.
LEMMA StatementRows ==
    ASSUME NEW d, RowTypes(d), NEW H \in Nat \ {0}, NEW i \in 1 .. 7
    PROVE  /\ RowTypes(Cleared(i, d, H)) /\ Gone(i, Cleared(i, d, H), H)
           /\ \A j \in 1 .. 7 : Gone(j, d, H) => Gone(j, Cleared(i, d, H), H)
<1>1. PICK u, k, x, v, a : d = Table(u, k, x, v, a) /\ RowsOf(u, k, x, v, a)
  BY RowTypesTable
<1>2. /\ u \in SUBSET UtxoRow /\ k \in SUBSET KycRow /\ x \in SUBSET RateRow
      /\ v \in SUBSET VoteRow /\ a \in SUBSET AssetRow /\ Good(u, k) /\ IsFiniteSet(v)
      /\ H \in Nat
  BY <1>1 DEF RowsOf, Good
<1>3. CASE i = 1
  <2> DEFINE y == AssetsBelow(a, H)
  <2>1. Cleared(i, d, H) = Table(u, k, x, v, y)
    BY <1>1, <1>3, Statements DEF Cleared
  <2>2. y \subseteq a /\ \A r \in y : r.created <= 1 \/ r.created < H
    BY <1>2 DEF AssetsBelow, AssetRow
  <2> HIDE DEF y
  <2>3. RowTypes(Cleared(i, d, H))
    BY <1>1, <1>2, <2>1, <2>2, RowTypesOf DEF RowsOf
  <2> QED BY <1>1, <1>3, <2>1, <2>2, <2>3, TableParts DEF Gone
<1>4. CASE i = 2
  <2> DEFINE y == RowsBelow(x, H)
  <2>1. Cleared(i, d, H) = Table(u, k, y, v, a)
    BY <1>1, <1>4, Statements DEF Cleared
  <2>2. y \subseteq x /\ \A r \in y : r.height < H
    BY <1>2 DEF RowsBelow, RateRow
  <2> HIDE DEF y
  <2>3. RowTypes(Cleared(i, d, H))
    BY <1>1, <1>2, <2>1, <2>2, RowTypesOf DEF RowsOf
  <2> QED BY <1>1, <1>4, <2>1, <2>2, <2>3, TableParts DEF Gone
<1>5. CASE i = 3
  <2> DEFINE y == RowsBelow(k, H)
  <2>1. Cleared(i, d, H) = Table(u, y, x, v, a)
    BY <1>1, <1>5, Statements DEF Cleared
  <2>2. y \subseteq k /\ \A r \in y : r.height < H
    BY <1>2 DEF RowsBelow, KycRow
  <2>3. Good(u, y)
    BY <1>2, ClearGood
  <2> HIDE DEF y
  <2>4. RowTypes(Cleared(i, d, H))
    BY <1>1, <1>2, <2>1, <2>3, RowTypesOf DEF RowsOf
  <2> QED BY <1>1, <1>5, <2>1, <2>2, <2>4, TableParts DEF Gone
<1>6. CASE i = 4
  <2> DEFINE y == Unrevoked(k, H)
             Reset(w) == [w EXCEPT !.revoked = IF @ >= H THEN NULL ELSE @]
  <2>1. Cleared(i, d, H) = Table(u, y, x, v, a)
    BY <1>1, <1>6, Statements DEF Cleared
  <2>2. \A r \in y : \E w \in k : r.height = w.height /\ r.revoked <= w.revoked /\ r.revoked < H
    <3>1. \A w \in k : Reset(w).height = w.height /\ Reset(w).revoked <= w.revoked /\ Reset(w).revoked < H
      BY <1>2 DEF KycRow, NULL
    <3>2. y = {Reset(w) : w \in k}
      BY DEF Unrevoked
    <3> HIDE DEF y, Reset
    <3> QED BY <3>1, <3>2
  <2>3. Good(u, y)
    BY <1>2, ClearGood
  <2>4. (\A w \in k : w.revoked < H) => \A r \in y : r.revoked < H
    BY <2>2
  <2> HIDE DEF y
  <2>5. RowTypes(Cleared(i, d, H))
    BY <1>1, <1>2, <2>1, <2>3, RowTypesOf DEF RowsOf
  <2> QED BY <1>1, <1>6, <2>1, <2>2, <2>4, <2>5, TableParts DEF Gone
<1>7. CASE i = 5
  <2> DEFINE y == CreatedBelow(u, H)
  <2>1. Cleared(i, d, H) = Table(y, k, x, v, a)
    BY <1>1, <1>7, Statements DEF Cleared
  <2>2. y \subseteq u /\ \A r \in y : r.created < H
    BY <1>2 DEF CreatedBelow, UtxoRow
  <2>3. Good(y, k)
    BY <1>2, ClearGood
  <2> HIDE DEF y
  <2>4. RowTypes(Cleared(i, d, H))
    BY <1>1, <1>2, <2>1, <2>3, RowTypesOf DEF RowsOf
  <2> QED BY <1>1, <1>7, <2>1, <2>2, <2>4, TableParts DEF Gone
<1>8. CASE i = 6
  <2> DEFINE y == Undestroyed(u, H)
             Reset(w) == [w EXCEPT !.destroyed = IF @ >= H THEN NULL ELSE @]
  <2>1. Cleared(i, d, H) = Table(y, k, x, v, a)
    BY <1>1, <1>8, Statements DEF Cleared
  <2>2. \A r \in y : \E w \in u : r.created = w.created /\ r.destroyed < H
    <3>1. \A w \in u : Reset(w).created = w.created /\ Reset(w).destroyed < H
      BY <1>2 DEF UtxoRow, NULL
    <3>2. y = {Reset(w) : w \in u}
      BY DEF Undestroyed
    <3> HIDE DEF y, Reset
    <3> QED BY <3>1, <3>2
  <2>3. Good(y, k)
    BY <1>2, ClearGood
  <2> HIDE DEF y
  <2>5. RowTypes(Cleared(i, d, H))
    BY <1>1, <1>2, <2>1, <2>3, RowTypesOf DEF RowsOf
  <2> QED BY <1>1, <1>8, <2>1, <2>2, <2>5, TableParts DEF Gone
<1>9. CASE i = 7
  <2> DEFINE y == RowsBelow(v, H)
  <2>1. Cleared(i, d, H) = Table(u, k, x, y, a)
    BY <1>1, <1>9, Statements DEF Cleared
  <2>2. y \subseteq v /\ \A r \in y : r.height < H
    BY <1>2 DEF RowsBelow, VoteRow
  <2> HIDE DEF y
  <2>3. IsFiniteSet(y)
    BY <1>2, <2>2, FS_Subset
  <2>4. RowTypes(Cleared(i, d, H))
    BY <1>1, <1>2, <2>1, <2>2, <2>3, RowTypesOf DEF RowsOf
  <2> QED BY <1>1, <1>9, <2>1, <2>2, <2>4, TableParts DEF Gone
<1> QED BY <1>3, <1>4, <1>5, <1>6, <1>7, <1>8, <1>9

\* A clear of a height from which nothing is left takes nothing.
LEMMA NothingLeft ==
    ASSUME NEW d, RowTypes(d), NEW H \in Nat \ {0}, GoneAll(d, H)
    PROVE  Clear(d, H) = d /\ UnderAll(d, H)
<1>1. PICK u, k, x, v, a : d = Table(u, k, x, v, a) /\ RowsOf(u, k, x, v, a)
  BY RowTypesTable
<1>2. /\ u \in SUBSET UtxoRow /\ k \in SUBSET KycRow /\ x \in SUBSET RateRow
      /\ v \in SUBSET VoteRow /\ a \in SUBSET AssetRow
  BY <1>1 DEF RowsOf, Good
<1>3. /\ \A r \in a : r.created <= 1 \/ r.created < H
      /\ \A r \in x : r.height < H
      /\ \A r \in k : r.height < H /\ r.revoked < H
      /\ \A r \in u : r.created < H /\ r.destroyed < H
      /\ \A r \in v : r.height < H
  <2>1. /\ d.utxos = u /\ d.kyc = k /\ d.exchange = x /\ d.votes = v /\ d.assets = a
    BY <1>1, TableParts
  <2>2. /\ Gone(1, d, H) /\ Gone(2, d, H) /\ Gone(3, d, H) /\ Gone(4, d, H)
        /\ Gone(5, d, H) /\ Gone(6, d, H) /\ Gone(7, d, H)
    BY DEF GoneAll
  <2> QED BY <2>1, <2>2 DEF Gone
<1>0. UnderAll(d, H)
  <2>1. UnderOf(u, k, x, v, a, H)
    BY <1>2, <1>3 DEF UnderOf, UpToNow, UtxoRow, KycRow, RateRow, VoteRow, AssetRow
  <2> QED BY <1>1, <1>2, <2>1, RowTypesOf
<1>4. CreatedBelow(u, H) = u
  BY <1>2, <1>3 DEF CreatedBelow, UtxoRow
<1>5. RowsBelow(k, H) = k
  BY <1>2, <1>3 DEF RowsBelow, KycRow
<1>6. RowsBelow(x, H) = x
  BY <1>2, <1>3 DEF RowsBelow, RateRow
<1>7. RowsBelow(v, H) = v
  BY <1>2, <1>3 DEF RowsBelow, VoteRow
<1>8. AssetsBelow(a, H) = a
  BY <1>2, <1>3 DEF AssetsBelow, AssetRow
<1>9. Undestroyed(u, H) = u
  <2> DEFINE Reset(w) == [w EXCEPT !.destroyed = IF @ >= H THEN NULL ELSE @]
  <2>1. \A w \in u : ~(w.destroyed >= H) /\ w \in UtxoRow
    BY <1>2, <1>3 DEF UtxoRow
  <2>2. \A w \in u : Reset(w) = w
    BY <2>1 DEF UtxoRow
  <2>3. Undestroyed(u, H) = {Reset(w) : w \in u}
    BY DEF Undestroyed
  <2> HIDE DEF Reset
  <2> QED BY <2>2, <2>3
<1>10. Unrevoked(k, H) = k
  <2> DEFINE Reset(w) == [w EXCEPT !.revoked = IF @ >= H THEN NULL ELSE @]
  <2>1. \A w \in k : ~(w.revoked >= H) /\ w \in KycRow
    BY <1>2, <1>3 DEF KycRow
  <2>2. \A w \in k : Reset(w) = w
    BY <2>1 DEF KycRow
  <2>3. Unrevoked(k, H) = {Reset(w) : w \in k}
    BY DEF Unrevoked
  <2> HIDE DEF Reset
  <2> QED BY <2>2, <2>3
<1> QED BY <1>0, <1>1, <1>4, <1>5, <1>6, <1>7, <1>8, <1>9, <1>10, ClearTables

\* Nor does the clear of a height above all rows.
LEMMA NothingAbove ==
    ASSUME NEW d, RowTypes(d), NEW H \in Nat \ {0}, UnderAll(d, H)
    PROVE  Clear(d, H + 1) = d
<1>1. PICK u, k, x, v, a : d = Table(u, k, x, v, a) /\ RowsOf(u, k, x, v, a)
  BY RowTypesTable
<1>2. /\ u \in SUBSET UtxoRow /\ k \in SUBSET KycRow /\ x \in SUBSET RateRow
      /\ v \in SUBSET VoteRow /\ a \in SUBSET AssetRow
  BY <1>1 DEF RowsOf, Good
<1>3. UnderOf(u, k, x, v, a, H)
  BY <1>1, <1>2, RowTypesOf
<1>4. \A n \in Nat : n <= H => n < H + 1
  OBVIOUS
<1>5. /\ d.utxos = u /\ d.kyc = k /\ d.exchange = x /\ d.votes = v /\ d.assets = a
  BY <1>1, TableParts
<1>6. GoneAll(d, H + 1)
  BY <1>2, <1>3, <1>4, <1>5
  DEF GoneAll, Gone, UnderOf, UpToNow, UtxoRow, KycRow, RateRow, VoteRow, AssetRow
<1> QED BY <1>6, NothingLeft

\* No prune reaches above the block that is open.
LEMMA PruneHeights ==
    ASSUME height \in Nat \ {0}
    PROVE  /\ PruneMax \in Int /\ PruneMax <= height
           /\ PruneHeight(EXCHANGE) \in Int /\ PruneHeight(EXCHANGE) <= height - Leniency
           /\ \A k : /\ PruneHeight(k) \in Int /\ PruneHeight(k) <= height
                     /\ k # EXCHANGE => PruneHeight(k) = PruneMax
<1>1. Leniency \in Nat /\ PruneAge \in Nat
  BY DatabaseAssumption
<1>2. PruneMax = height - PruneAge \/ PruneMax = 0
  BY DEF PruneMax
<1>3. PruneMax \in Int /\ PruneMax <= height
  BY <1>1, <1>2
<1>4. \A k : PruneHeight(k) = PruneMax \/ (k = EXCHANGE /\ PruneHeight(k) = height - Leniency)
  BY DEF PruneHeight
<1>5. PruneHeight(EXCHANGE) <= height - Leniency /\ PruneHeight(EXCHANGE) \in Int
  BY <1>1, <1>3 DEF PruneHeight
<1> QED BY <1>1, <1>3, <1>4, <1>5

\* The greater of two numbers.
LEMMA MaxOfTwo ==
    ASSUME NEW m \in Nat, NEW n \in Int
    PROVE  Max({m, n}) \in Nat /\ Max({m, n}) \in {m, n} /\ m <= Max({m, n}) /\ n <= Max({m, n})
<1>1. PICK p \in {m, n} : \A y \in {m, n} : p >= y
  <2>1. CASE m >= n
    BY <2>1
  <2>2. CASE ~(m >= n)
    BY <2>2
  <2> QED BY <2>1, <2>2
<1>2. Max({m, n}) \in {m, n} /\ \A y \in {m, n} : Max({m, n}) >= y
  BY <1>1 DEF Max
<1>3. Max({m, n}) \in Int /\ Max({m, n}) >= m /\ Max({m, n}) >= n
  BY <1>2
<1> HIDE DEF Max
<1> QED BY <1>2, <1>3

\* Whole after each prune.
LEMMA ExchangePruned ==
    ASSUME NEW u, NEW k, NEW x, NEW v, NEW a, db = Table(u, k, x, v, a),
           keptVotes = {}, PruneExchange
    PROVE  Whole' = Table(u, k, RatesLeft(x, PruneHeight(EXCHANGE)), v, a)
<1> DEFINE p == PruneHeight(EXCHANGE)
           recent == {r \in x : r.height >= p}
           newest == {r \in x : r.height < p /\ \A s \in x : s.feed = r.feed /\ s.height < p => s.height <= r.height}
<1>1. db.exchange = x
  BY TableParts
<1>2. db' = [db EXCEPT !.exchange = recent] /\ keptRates' = FirstEntries(db, p) /\ keptVotes' = {}
  BY <1>1 DEF PruneExchange
<1>3. FirstEntries(db, p) = newest
  BY <1>1 DEF FirstEntries, RatesBefore
<1>4. RatesLeft(x, p) = recent \cup newest
  BY DEF RatesLeft
<1> HIDE DEF recent, newest, p
<1>5. db' = Table(u, k, recent, v, a)
  BY <1>2 DEF Table
<1>6. Whole' = Table(u, k, recent \cup newest, v \cup {}, a)
  BY <1>2, <1>3, <1>5, WholeJoined, JoinedTable
<1>7. v \cup {} = v
  OBVIOUS
<1> QED BY <1>4, <1>6, <1>7 DEF p

\* The same of the outputs ...
LEMMA UtxoPruned ==
    ASSUME NEW u, NEW k, NEW x, NEW v, NEW a, db = Table(u, k, x, v, a),
           keptRates = {}, keptVotes = {}, PruneUTXO
    PROVE  Whole' = Table(UtxosLeft(u, PruneHeight(UTXO)), k, x, v, a)
<1> DEFINE left == UtxosLeft(u, PruneHeight(UTXO))
<1>1. db.utxos = u
  BY TableParts
<1>2. db' = [db EXCEPT !.utxos = left] /\ keptRates' = {} /\ keptVotes' = {}
  BY <1>1 DEF PruneUTXO, UtxosLeft
<1> HIDE DEF left
<1>3. db' = Table(left, k, x, v, a)
  BY <1>2 DEF Table
<1>4. Whole' = Table(left, k, x \cup {}, v \cup {}, a)
  BY <1>2, <1>3, WholeJoined, JoinedTable
<1> QED BY <1>4 DEF left

\* ... and of the votes.
LEMMA VotePruned ==
    ASSUME NEW u, NEW k, NEW x, NEW v, NEW a, db = Table(u, k, x, v, a),
           keptRates = {}, PruneVote
    PROVE  Whole' = Table(u, k, x, VotesLeft(v, PruneHeight(VOTE)), a)
<1> DEFINE p == PruneHeight(VOTE)
           recent == {r \in v : r.height >= p}
<1>1. db.votes = v
  BY TableParts
<1>2. db' = [db EXCEPT !.votes = recent] /\ keptVotes' = SummedVotes(db, p) /\ keptRates' = {}
  BY <1>1 DEF PruneVote
<1>3. SummedVotes(db, p) = SumsLeft(v, p)
  <2> DEFINE old(b) == {w \in db.votes : w.ballot = b /\ w.height < p}
  <2>1. SummedVotes(db, p)
          = {[w EXCEPT !.count = Counted(old(w.ballot)) % CountRange] :
               w \in {y \in db.votes : y.height < p /\ \A z \in old(y.ballot) : z.height <= y.height}}
    BY DEF SummedVotes, Counted
  <2>2. \A b : old(b) = OldVotes(v, b, p)
    BY <1>1 DEF OldVotes
  <2> HIDE DEF old
  <2> QED BY <1>1, <2>1, <2>2 DEF SumsLeft
<1>4. VotesLeft(v, p) = recent \cup SumsLeft(v, p)
  BY DEF VotesLeft
<1> HIDE DEF recent, p
<1>5. db' = Table(u, k, x, recent, a)
  BY <1>2 DEF Table
<1>6. Whole' = Table(u, k, x \cup {}, recent \cup SumsLeft(v, p), a)
  BY <1>2, <1>3, <1>5, WholeJoined, JoinedTable
<1>7. x \cup {} = x
  OBVIOUS
<1> QED BY <1>4, <1>6, <1>7 DEF p

\* A prune changes neither what is answered now nor what is answered of a block
\* that stays: the same of any table with the rows that are left.
Pruned(d, e, p, kind) ==
    /\ RowTypes(e)
    /\ \A H \in Nat : UnderAll(d, H) => UnderAll(e, H)
    /\ \A b \in Nat : p <= b /\ (kind = EXCHANGE => p <= 0 \/ p - 1 <= b - Leniency) =>
          View(Clear(e, b), b) = View(Clear(d, b), b) /\ View(e, b) = View(d, b)

\* pruneExchange is such a step ...
LEMMA RatesPrunedAway ==
    ASSUME NEW u, NEW k, NEW x, NEW v, NEW a, RowsOf(u, k, x, v, a), NEW p \in Int
    PROVE  Pruned(Table(u, k, x, v, a), Table(u, k, RatesLeft(x, p), v, a), p, EXCHANGE)
<1> DEFINE y == RatesLeft(x, p)
<1>1. x \in SUBSET RateRow /\ y \subseteq x /\ a \subseteq AssetRow
  BY DEF RowsOf, RatesLeft
<1>2. RowTypes(Table(u, k, y, v, a))
  <2> HIDE DEF y
  <2>1. RowsOf(u, k, y, v, a)
    BY <1>1 DEF RowsOf
  <2> QED BY <2>1, RowTypesOf
<1>3. ASSUME NEW H, UnderAll(Table(u, k, x, v, a), H) PROVE UnderAll(Table(u, k, y, v, a), H)
  <2> HIDE DEF y
  <2>1. UnderOf(u, k, x, v, a, H)
    BY <1>1, <1>3, RowTypesOf
  <2>2. UnderOf(u, k, y, v, a, H)
    BY <1>1, <2>1 DEF UnderOf, UpToNow
  <2>3. y \subseteq RateRow
    BY <1>1
  <2> QED BY <1>1, <2>2, <2>3, RowTypesOf
<1>4. ASSUME NEW b \in Nat, p <= b, p - 1 <= b - Leniency
      PROVE  /\ View(Clear(Table(u, k, y, v, a), b), b) = View(Clear(Table(u, k, x, v, a), b), b)
             /\ View(Table(u, k, y, v, a), b) = View(Table(u, k, x, v, a), b)
  <2>1. SameRates(x, y, b)
    BY <1>1, <1>4, RatesPruned
  <2>2. RowsBelow(y, b) = RatesLeft(RowsBelow(x, b), p) /\ RowsBelow(x, b) \in SUBSET RateRow
    BY <1>1, <1>4, RatesLeftBelow DEF RowsBelow
  <2>3. SameRates(RowsBelow(x, b), RowsBelow(y, b), b)
    BY <1>4, <2>2, RatesPruned
  <2>4. \A w : SameVotes(w, w)
    BY DEF SameVotes
  <2> HIDE DEF y
  <2> QED BY <2>1, <2>3, <2>4, SameAnswers, ClearTables
<1>5. ASSUME p <= 0 PROVE y = x
  BY <1>1, <1>5 DEF RatesLeft, RateRow
<1>6. \A b \in Nat : p <= b /\ (p <= 0 \/ p - 1 <= b - Leniency) =>
         /\ View(Clear(Table(u, k, y, v, a), b), b) = View(Clear(Table(u, k, x, v, a), b), b)
         /\ View(Table(u, k, y, v, a), b) = View(Table(u, k, x, v, a), b)
  <2> HIDE DEF y
  <2>1. CASE p <= 0
    BY <1>5, <2>1
  <2>2. CASE ~(p <= 0)
    BY <1>4, <2>2
  <2> QED BY <2>1, <2>2
<1> DEFINE d == Table(u, k, x, v, a)
           e == Table(u, k, y, v, a)
<1>7. RowTypes(e) /\ \A H : UnderAll(d, H) => UnderAll(e, H)
  BY <1>2, <1>3
<1>8. \A b \in Nat : p <= b /\ (p <= 0 \/ p - 1 <= b - Leniency) =>
         View(Clear(e, b), b) = View(Clear(d, b), b) /\ View(e, b) = View(d, b)
  BY <1>6
<1> HIDE DEF d, e
<1>9. Pruned(d, e, p, EXCHANGE)
  BY <1>7, <1>8 DEF Pruned
<1> QED BY <1>9 DEF d, e

\* ... pruneUTXO ...
LEMMA UtxosPrunedAway ==
    ASSUME NEW u, NEW k, NEW x, NEW v, NEW a, RowsOf(u, k, x, v, a), NEW p \in Nat
    PROVE  Pruned(Table(u, k, x, v, a), Table(UtxosLeft(u, p), k, x, v, a), p, UTXO)
<1> DEFINE y == UtxosLeft(u, p)
<1>1. u \in SUBSET UtxoRow /\ y \subseteq u /\ x \subseteq RateRow /\ a \subseteq AssetRow
  BY DEF RowsOf, UtxosLeft, Good
<1>2. RowTypes(Table(y, k, x, v, a))
  <2> HIDE DEF y
  <2>1. RowsOf(y, k, x, v, a)
    BY <1>1 DEF RowsOf, Good, OneRow
  <2> QED BY <2>1, RowTypesOf
<1>3. ASSUME NEW H, UnderAll(Table(u, k, x, v, a), H) PROVE UnderAll(Table(y, k, x, v, a), H)
  <2> HIDE DEF y
  <2>1. UnderOf(u, k, x, v, a, H)
    BY <1>1, <1>3, RowTypesOf
  <2>2. UnderOf(y, k, x, v, a, H)
    BY <1>1, <2>1 DEF UnderOf
  <2> QED BY <1>1, <2>2, RowTypesOf
<1>4. ASSUME NEW b \in Nat, p <= b
      PROVE  /\ View(Clear(Table(y, k, x, v, a), b), b) = View(Clear(Table(u, k, x, v, a), b), b)
             /\ View(Table(y, k, x, v, a), b) = View(Table(u, k, x, v, a), b)
  <2>1. Unspents(y) = Unspents(u)
    BY <1>1, UtxosPruned
  <2>2. Unspents(Undestroyed(CreatedBelow(y, b), b)) = Unspents(Undestroyed(CreatedBelow(u, b), b))
    BY <1>1, <1>4, UtxosPruned
  <2>3. (\A w : SameVotes(w, w)) /\ (\A w : SameRates(w, w, b))
    BY DEF SameVotes, SameRates
  <2> HIDE DEF y
  <2> QED BY <2>1, <2>2, <2>3, SameAnswers, ClearTables
<1> QED BY <1>2, <1>3, <1>4 DEF Pruned, EXCHANGE, UTXO

\* ... and pruneVote.
LEMMA VotesPrunedAway ==
    ASSUME NEW u, NEW k, NEW x, NEW v, NEW a, RowsOf(u, k, x, v, a), NEW p \in Nat
    PROVE  Pruned(Table(u, k, x, v, a), Table(u, k, x, VotesLeft(v, p), a), p, VOTE)
<1> DEFINE y == VotesLeft(v, p)
<1>1. v \in SUBSET VoteRow /\ IsFiniteSet(v) /\ x \subseteq RateRow /\ a \subseteq AssetRow
  BY DEF RowsOf
<1>2. /\ y \in SUBSET VoteRow /\ IsFiniteSet(y)
      /\ \A H \in Int : (\A r \in v : r.height <= H) => \A r \in y : r.height <= H
  BY <1>1, VotesLeftRows
<1>3. RowTypes(Table(u, k, x, y, a))
  <2> HIDE DEF y
  <2>1. RowsOf(u, k, x, y, a)
    BY <1>2 DEF RowsOf
  <2> QED BY <2>1, RowTypesOf
<1>4. ASSUME NEW H \in Nat, UnderAll(Table(u, k, x, v, a), H) PROVE UnderAll(Table(u, k, x, y, a), H)
  <2> HIDE DEF y
  <2>1. UnderOf(u, k, x, v, a, H)
    BY <1>1, <1>4, RowTypesOf
  <2>2. UnderOf(u, k, x, y, a, H)
    BY <1>2, <2>1 DEF UnderOf
  <2> QED BY <1>1, <2>2, RowTypesOf
<1>5. ASSUME NEW b \in Nat, p <= b
      PROVE  /\ View(Clear(Table(u, k, x, y, a), b), b) = View(Clear(Table(u, k, x, v, a), b), b)
             /\ View(Table(u, k, x, y, a), b) = View(Table(u, k, x, v, a), b)
  <2>1. SameVotes(v, y)
    BY <1>1, SameVotesPruned
  <2>2. RowsBelow(y, b) = VotesLeft(RowsBelow(v, b), p) /\ RowsBelow(v, b) \in SUBSET VoteRow
    BY <1>1, <1>5, VotesLeftBelow DEF RowsBelow
  <2>3. IsFiniteSet(RowsBelow(v, b))
    BY <1>1, FS_Subset DEF RowsBelow
  <2>4. SameVotes(RowsBelow(v, b), RowsBelow(y, b))
    BY <2>2, <2>3, SameVotesPruned
  <2>5. \A w : SameRates(w, w, b)
    BY DEF SameRates
  <2> HIDE DEF y
  <2> QED BY <2>1, <2>4, <2>5, SameAnswers, ClearTables
<1> QED BY <1>3, <1>4, <1>5 DEF Pruned, EXCHANGE, VOTE

PruneStarts == PruneExchange \/ PruneUTXO \/ PruneVote

\* So for each of the three prunes.
LEMMA PrunedWhole ==
    ASSUME RollbackInv, PruneStarts
    PROVE  /\ Whole = db
           /\ Pruned(Whole, Whole', PruneHeight(stage'), stage')
<1>1. pc = "prune" /\ keptRates = {} /\ keptVotes = {} /\ height \in Nat \ {0} /\ RowsInv /\ RowTypes(Whole)
  BY DEF RollbackInv, NothingKept, RowsInv, PruneStarts, PruneExchange, PruneUTXO, PruneVote
<1>2. Whole = db
  BY <1>1, WholeIsDb
<1>3. PICK u, k, x, v, a : db = Table(u, k, x, v, a) /\ RowsOf(u, k, x, v, a)
  BY <1>1, <1>2, RowTypesTable
<1>4. CASE PruneExchange
  <2>1. stage' = EXCHANGE /\ PruneHeight(EXCHANGE) \in Int
    BY <1>1, <1>4, PruneHeights DEF PruneExchange
  <2>2. Whole' = Table(u, k, RatesLeft(x, PruneHeight(EXCHANGE)), v, a)
    BY <1>1, <1>3, <1>4, ExchangePruned
  <2> QED BY <1>2, <1>3, <2>1, <2>2, RatesPrunedAway
<1>5. CASE PruneUTXO
  <2>1. stage' = UTXO /\ PruneHeight(UTXO) \in Nat
    <3>1. PruneMax > 0 /\ stage' = UTXO
      BY <1>5 DEF PruneUTXO, StagesLeft
    <3> QED BY <1>1, <3>1, PruneHeights DEF EXCHANGE, UTXO
  <2>2. Whole' = Table(UtxosLeft(u, PruneHeight(UTXO)), k, x, v, a)
    BY <1>1, <1>3, <1>5, UtxoPruned
  <2> QED BY <1>2, <1>3, <2>1, <2>2, UtxosPrunedAway
<1>6. CASE PruneVote
  <2>1. stage' = VOTE /\ PruneHeight(VOTE) \in Nat
    <3>1. PruneMax > 0 /\ stage' = VOTE
      BY <1>6 DEF PruneVote, StagesLeft
    <3> QED BY <1>1, <3>1, PruneHeights DEF EXCHANGE, VOTE
  <2>2. Whole' = Table(u, k, x, VotesLeft(v, PruneHeight(VOTE)), a)
    BY <1>1, <1>3, <1>6, VotePruned
  <2> QED BY <1>2, <1>3, <2>1, <2>2, VotesPrunedAway
<1> QED BY <1>2, <1>4, <1>5, <1>6 DEF PruneStarts

-----------------------------------------------------------------------------
(* Every step keeps the invariant.                                         *)

\* Initially nothing has a row.
LEMMA InitRollback == Init => RollbackInv
<1> SUFFICES ASSUME Init PROVE RollbackInv
  OBVIOUS
<1>1. RowsInv
  BY InitRows
<1>2. /\ db = Table({}, {}, {}, {}, {}) /\ keptRates = {} /\ keptVotes = {}
      /\ height = 1 /\ blocks = {1} /\ pc = "tx" /\ ratesFrom = 0
  BY DEF Init, Table
<1>3. Whole = Table({}, {}, {}, {}, {})
  BY <1>1, <1>2, WholeIsDb
<1>4. RowsOf({}, {}, {}, {}, {}) /\ UnderOf({}, {}, {}, {}, {}, 1)
  BY FS_EmptySet DEF RowsOf, UnderOf, Good, OneRow, UpToNow
<1>5. RowTypes(Whole) /\ UnderAll(Whole, 1)
  BY <1>3, <1>4, RowTypesOf
<1>6. RatesThere /\ TopOpen /\ NothingKept /\ RowsUnder
  BY <1>2, <1>5 DEF RatesThere, RatesComplete, TopOpen, NothingKept, RowsUnder
<1> QED BY <1>1, <1>5, <1>6 DEF RollbackInv

\* Steps that leave the tables, and what a prune keeps, as they are.
LEMMA SameTables ==
    ASSUME RollbackInv, RowsInv', Whole' = Whole, height' = height,
           pc' = "clear" => step' = 1,
           pc' \notin {"clear", "down"} => UnderAll(Whole, height)
    PROVE  RowTypes(Whole') /\ RowsUnder'
<1>1. RowTypes(Whole')
  BY DEF RollbackInv
<1>2. RowsUnder'
  BY DEF RowsUnder
<1> QED BY <1>1, <1>2

\* What a prune put aside goes back row by row.
LEMMA PutBack ==
    ASSUME RowsInv, PutBackRate \/ PutBackVote
    PROVE  Whole' = Whole
<1> PICK u, k, x, v, a : db = Table(u, k, x, v, a)
  BY DEF RowsInv
<1>1. db.exchange = x /\ db.votes = v
  BY TableParts
<1>2. Whole = Table(u, k, x \cup keptRates, v \cup keptVotes, a)
  BY WholeJoined, JoinedTable
<1>3. CASE PutBackRate
  <2>1. PICK r \in keptRates : /\ db' = [db EXCEPT !.exchange = x \cup {r}]
                               /\ keptRates' = keptRates \ {r} /\ keptVotes' = keptVotes
    BY <1>1, <1>3 DEF PutBackRate
  <2> DEFINE y == x \cup {r}
  <2>2. y \cup (keptRates \ {r}) = x \cup keptRates
    OBVIOUS
  <2> HIDE DEF y
  <2>3. db' = Table(u, k, y, v, a)
    BY <2>1 DEF Table, y
  <2>4. Whole' = Table(u, k, y \cup (keptRates \ {r}), v \cup keptVotes, a)
    BY <2>1, <2>3, WholeJoined, JoinedTable
  <2> QED BY <1>2, <2>2, <2>4
<1>4. CASE PutBackVote
  <2>1. PICK r \in keptVotes : /\ db' = [db EXCEPT !.votes = v \cup {r}]
                               /\ keptVotes' = keptVotes \ {r} /\ keptRates' = keptRates
    BY <1>1, <1>4 DEF PutBackVote
  <2> DEFINE y == v \cup {r}
  <2>2. y \cup (keptVotes \ {r}) = v \cup keptVotes
    OBVIOUS
  <2> HIDE DEF y
  <2>3. db' = Table(u, k, x, y, a)
    BY <2>1 DEF Table, y
  <2>4. Whole' = Table(u, k, x \cup keptRates, y \cup (keptVotes \ {r}), a)
    BY <2>1, <2>3, WholeJoined, JoinedTable
  <2> QED BY <1>2, <2>2, <2>4
<1> QED BY <1>3, <1>4

\* A step that is not torn.
Untorn == ~DeepRewind /\ ~CrashTorn

\* Every step keeps RollbackInv.
LEMMA NextRollback ==
    ASSUME RollbackInv, ~Reissue, ~RevokeAgain, Untorn, [Next]_vars
    PROVE  RollbackInv'
<1>0. /\ RowsInv' /\ RowsInv /\ RowTypes(Whole) /\ RowsUnder /\ NothingKept /\ TopOpen /\ RatesThere
      /\ height \in Nat \ {0} /\ blocks \subseteq Nat \ {0}
  BY NextRows DEF RollbackInv, RowsInv
<1> SUFFICES RowTypes(Whole') /\ RowsUnder' /\ NothingKept' /\ TopOpen' /\ RatesThere'
  BY <1>0 DEF RollbackInv
<1>1. CASE ProcessTx
  <2>1. pc = "tx" /\ UNCHANGED <<blocks, height, pc, pruneVars, step>>
    BY <1>1 DEF ProcessTx, Standard, KycIssuance, KycRevoke, ExchangePublish,
                DigiAssetIssuance, AddToDatabase
  <2>2. keptRates = {} /\ keptVotes = {} /\ keptRates' = {} /\ keptVotes' = {}
    BY <1>0, <2>1 DEF NothingKept, pruneVars
  <2>3. Whole = db /\ Whole' = db'
    BY <1>0, <2>2, WholeIsDb, WholeIsDbNext
  <2>4. RowTypes(Whole') /\ UnderAll(Whole', height)
    BY <1>0, <1>1, <2>1, <2>3, ProcessTxRows DEF RowsUnder
  <2>5. RowsUnder' /\ NothingKept' /\ TopOpen' /\ RatesThere'
    BY <1>0, <2>1, <2>2, <2>4 DEF RowsUnder, NothingKept, TopOpen, RatesThere, RatesComplete, pruneVars
  <2> QED BY <2>4, <2>5
<1>2. CASE BlockDone
  <2>1. pc = "tx" /\ pc' = "prune" /\ UNCHANGED <<db, blocks, height, keptRates, keptVotes, step, ratesFrom>>
    BY <1>2 DEF BlockDone
  <2>2. Whole' = Whole
    BY <2>1 DEF Whole
  <2>3. RowTypes(Whole') /\ RowsUnder'
    BY <1>0, <2>1, <2>2, SameTables DEF RowsUnder
  <2> QED BY <1>0, <2>1, <2>3 DEF NothingKept, TopOpen, RatesThere, RatesComplete
<1>3. CASE PruneStarts
  <2>1. /\ pc = "prune" /\ pc' = "unreachable" /\ UNCHANGED <<blocks, height, step>>
    BY <1>3 DEF PruneStarts, PruneExchange, PruneUTXO, PruneVote
  <2>2. Pruned(Whole, Whole', PruneHeight(stage'), stage')
    BY <1>3, PrunedWhole
  <2>3. RowTypes(Whole') /\ UnderAll(Whole', height)
    BY <1>0, <2>1, <2>2 DEF Pruned, RowsUnder
  <2>4. RatesThere'
    <3>1. CASE PruneExchange
      <4> DEFINE p == PruneHeight(EXCHANGE)
      <4>1. ratesFrom' = Max({ratesFrom, p})
        BY <3>1 DEF PruneExchange
      <4>2. p \in Int /\ p <= height - Leniency
        BY <1>0, PruneHeights
      <4>3. ratesFrom \in Nat /\ (ratesFrom = 0 \/ height - Leniency >= ratesFrom - 1)
        BY <1>0 DEF RatesThere, RatesComplete
      <4> HIDE DEF p
      <4>4. ratesFrom' \in Nat /\ ratesFrom' \in {ratesFrom, p}
        BY <4>1, <4>2, <4>3, MaxOfTwo
      <4>5. Leniency \in Nat
        BY DatabaseAssumption
      <4>6. ratesFrom' = 0 \/ height - Leniency >= ratesFrom' - 1
        <5>1. CASE ratesFrom' = ratesFrom
          BY <4>3, <5>1
        <5>2. CASE ratesFrom' = p
          <6>1. p - 1 <= height - Leniency
            BY <1>0, <4>2, <4>5
          <6> QED BY <5>2, <6>1, <1>0, <4>2, <4>5
        <5> QED BY <4>4, <5>1, <5>2
      <4> QED BY <2>1, <4>4, <4>6 DEF RatesThere, RatesComplete
    <3>2. CASE PruneUTXO \/ PruneVote
      <4>1. ratesFrom' = ratesFrom
        BY <3>2 DEF PruneUTXO, PruneVote
      <4> QED BY <1>0, <2>1, <4>1 DEF RatesThere, RatesComplete
    <3> QED BY <1>3, <3>1, <3>2 DEF PruneStarts
  <2> QED BY <1>0, <2>1, <2>3, <2>4 DEF RowsUnder, NothingKept, TopOpen
<1>4. CASE RemoveNonReachable
  <2>1. /\ pc = "unreachable" /\ pc' = "keep" /\ UNCHANGED <<db, height, pruneVars, step>>
        /\ blocks' = {b \in blocks : b >= PruneHeight(stage)}
    BY <1>4 DEF RemoveNonReachable
  <2>2. Whole' = Whole
    BY <2>1 DEF Whole, pruneVars
  <2>3. RowTypes(Whole') /\ RowsUnder'
    BY <1>0, <2>1, <2>2, SameTables DEF RowsUnder
  <2>4. height \in blocks' /\ \A b \in blocks' : b <= height
    BY <1>0, <2>1, PruneHeights DEF TopOpen
  <2> QED BY <1>0, <2>1, <2>3, <2>4 DEF NothingKept, TopOpen, RatesThere, RatesComplete, pruneVars
<1>5. CASE PutBackRate \/ PutBackVote
  <2>1. pc = "keep" /\ UNCHANGED <<blocks, height, pc, step, ratesFrom>>
    BY <1>5 DEF PutBackRate, PutBackVote
  <2>2. Whole' = Whole
    BY <1>0, <1>5, PutBack
  <2>3. RowTypes(Whole') /\ RowsUnder'
    BY <1>0, <2>1, <2>2, SameTables DEF RowsUnder
  <2> QED BY <1>0, <2>1, <2>3 DEF NothingKept, TopOpen, RatesThere, RatesComplete
<1>6. CASE SetBeenPruned
  <2>1. /\ pc = "keep" /\ pc' = "prune" /\ keptRates = {} /\ keptVotes = {}
        /\ UNCHANGED <<db, blocks, height, keptRates, keptVotes, step, ratesFrom>>
    BY <1>6 DEF SetBeenPruned
  <2>2. Whole' = Whole
    BY <2>1 DEF Whole
  <2>3. RowTypes(Whole') /\ RowsUnder'
    BY <1>0, <2>1, <2>2, SameTables DEF RowsUnder
  <2> QED BY <1>0, <2>1, <2>3 DEF NothingKept, TopOpen, RatesThere, RatesComplete
<1>7. CASE InsertBlock
  <2>1. /\ pc = "prune" /\ pc' = "tx" /\ height' = height + 1 /\ blocks' = blocks \cup {height + 1}
        /\ UNCHANGED <<db, pruneVars, step>>
    BY <1>7 DEF InsertBlock
  <2>2. Whole' = Whole
    BY <2>1 DEF Whole, pruneVars
  <2>3. UnderAll(Whole, height)
    BY <1>0, <2>1 DEF RowsUnder
  <2>4. RowTypes(Whole') /\ UnderAll(Whole', height + 1)
    <3>1. PICK u, k, x, v, a : Whole = Table(u, k, x, v, a) /\ RowsOf(u, k, x, v, a)
      BY <1>0, RowTypesTable
    <3>2. x \subseteq RateRow /\ a \subseteq AssetRow
      BY <3>1 DEF RowsOf
    <3>3. UnderOf(u, k, x, v, a, height)
      BY <2>3, <3>1, <3>2, RowTypesOf
    <3>4. UnderOf(u, k, x, v, a, height + 1)
      <4>1. u \subseteq UtxoRow /\ k \subseteq KycRow /\ v \subseteq VoteRow
        BY <3>1 DEF RowsOf, Good
      <4>2. \A n \in Nat : n <= height => n <= height + 1
        BY <1>0
      <4>3. UpToNow(k, x, a, height + 1)
        BY <3>2, <3>3, <4>1, <4>2 DEF UnderOf, UpToNow, KycRow, RateRow, AssetRow
      <4> QED BY <3>3, <4>1, <4>2, <4>3 DEF UnderOf, UtxoRow, VoteRow
    <3> QED BY <1>0, <2>2, <3>1, <3>2, <3>4, RowTypesOf
  <2>5. RowsUnder'
    BY <2>1, <2>4 DEF RowsUnder
  <2>6. TopOpen'
    BY <1>0, <2>1 DEF TopOpen
  <2>7. RatesThere'
    <3>1. Leniency \in Nat
      BY DatabaseAssumption
    <3> QED BY <1>0, <2>1, <3>1 DEF RatesThere, RatesComplete, pruneVars
  <2>8. NothingKept'
    BY <1>0, <2>1 DEF NothingKept, pruneVars
  <2> QED BY <2>4, <2>5, <2>6, <2>7, <2>8
<1>8. CASE Rewind
  <2>1. /\ pc \in {"tx", "prune"} /\ pc' = "clear" /\ step' = 1
        /\ height' \in blocks /\ RatesThere'
        /\ UNCHANGED <<db, blocks, pruneVars>>
    BY <1>0, <1>8 DEF Rewind, Untorn, RatesThere, RatesComplete, pruneVars
  <2>2. Whole' = Whole
    BY <2>1 DEF Whole, pruneVars
  <2>3. RowTypes(Whole') /\ RowsUnder'
    BY <1>0, <2>1, <2>2 DEF RowsUnder
  <2> QED BY <1>0, <2>1, <2>3 DEF NothingKept, TopOpen, pruneVars
<1>9. CASE ClearStatement
  <2>1. /\ pc = "clear" /\ pc' = "clear" /\ db' = Cleared(step, db, height) /\ step' = step + 1
        /\ step \in 1 .. 7 /\ UNCHANGED <<blocks, height, pruneVars>>
    BY <1>0, <1>9 DEF ClearStatement, RowsInv
  <2>2. keptRates = {} /\ keptVotes = {} /\ keptRates' = {} /\ keptVotes' = {}
    BY <1>0, <2>1 DEF NothingKept, pruneVars
  <2>3. Whole = db /\ Whole' = db'
    BY <1>0, <2>2, WholeIsDb, WholeIsDbNext
  <2>4. /\ RowTypes(Whole') /\ Gone(step, Whole', height)
        /\ \A j \in 1 .. 7 : Gone(j, Whole, height) => Gone(j, Whole', height)
    BY <1>0, <2>1, <2>3, StatementRows
  <2>5. \A j \in 1 .. step - 1 : Gone(j, Whole, height)
    BY <1>0, <2>1 DEF RowsUnder
  <2>6. \A j \in 1 .. step' - 1 : Gone(j, Whole', height)
    <3>1. \A j \in 1 .. step' - 1 : j \in 1 .. 7 /\ (j = step \/ j \in 1 .. step - 1)
      BY <2>1
    <3> QED BY <2>4, <2>5, <3>1
  <2>7. RowsUnder'
    BY <2>1, <2>6 DEF RowsUnder
  <2> QED BY <1>0, <2>1, <2>2, <2>4, <2>7 DEF NothingKept, TopOpen, RatesThere, RatesComplete, pruneVars
<1>10. CASE ClearBlocks
  <2>1. /\ pc = "clear" /\ pc' = "tx" /\ step = 8 /\ blocks' = {b \in blocks : b <= height}
        /\ UNCHANGED <<db, height, pruneVars>>
    BY <1>10 DEF ClearBlocks
  <2>2. Whole' = Whole
    BY <2>1 DEF Whole, pruneVars
  <2>3. UnderAll(Whole, height)
    <3>1. GoneAll(Whole, height)
      BY <1>0, <2>1 DEF RowsUnder, GoneAll
    <3> QED BY <1>0, <3>1, NothingLeft
  <2>4. RowTypes(Whole') /\ RowsUnder'
    BY <2>1, <2>2, <2>3, <1>0 DEF RowsUnder
  <2> QED BY <1>0, <2>1, <2>4 DEF NothingKept, TopOpen, RatesThere, RatesComplete, pruneVars
<1>11. CASE Crash
  <2>1. /\ pc \in {"tx", "prune", "clear", "down"} \/ pc \notin {"unreachable", "keep"}
        /\ pc # "down" /\ ~Torn /\ pc' = "down" /\ keptRates' = {} /\ keptVotes' = {} /\ step' = 1
        /\ height' \in blocks /\ (\A c \in blocks : c <= height') /\ UNCHANGED <<db, blocks, ratesFrom>>
    BY <1>11 DEF Crash, Untorn, Torn
  <2>2. pc \notin {"unreachable", "keep"} /\ keptRates = {} /\ keptVotes = {}
    BY <1>0, <2>1 DEF Torn, NothingKept
  <2>3. Whole' = Whole
    BY <2>1, <2>2 DEF Whole
  <2>4. height' = height
    <3>1. \A b \in blocks : b <= height
      BY <1>0, <2>1 DEF Torn, TopOpen
    <3>2. height' \in Nat /\ height \in Nat /\ height' <= height /\ height <= height'
      BY <1>0, <2>1, <3>1 DEF TopOpen
    <3> QED BY <3>2
  <2>5. RowTypes(Whole') /\ RowsUnder'
    BY <1>0, <2>1, <2>3 DEF RowsUnder
  <2> QED BY <1>0, <2>1, <2>4, <2>5 DEF NothingKept, TopOpen, RatesThere, RatesComplete
<1>12. CASE Startup
  <2>1. pc = "down" /\ pc' = "clear" /\ UNCHANGED <<db, blocks, height, pruneVars, step>>
    BY <1>12 DEF Startup
  <2>2. Whole' = Whole
    BY <2>1 DEF Whole, pruneVars
  <2>3. step = 1
    BY <1>0, <2>1 DEF TopOpen
  <2>4. RowTypes(Whole') /\ RowsUnder'
    BY <1>0, <2>1, <2>2, <2>3 DEF RowsUnder
  <2> QED BY <1>0, <2>1, <2>4 DEF NothingKept, TopOpen, RatesThere, RatesComplete, pruneVars
<1>13. CASE UNCHANGED vars
  <2>1. Whole' = Whole
    BY <1>13 DEF Whole, vars
  <2> QED BY <1>0, <1>13, <2>1 DEF vars, RowsUnder, NothingKept, TopOpen, RatesThere, RatesComplete
<1> QED
  BY <1>1, <1>2, <1>3, <1>4, <1>5, <1>6, <1>7, <1>8, <1>9, <1>10, <1>11, <1>12, <1>13
  DEF Next, Prune, PruneStarts

-----------------------------------------------------------------------------
(* The refinement                                                          *)

\* The blocks on record, and what Ledger's past is.
OnRecord == {b \in Recorded : RatesComplete(b)}

\* The record as a function of the blocks on it.
LEMMA PastOnRecord ==
    /\ DOMAIN Past(OnRecord) = OnRecord /\ DOMAIN Past(OnRecord)' = OnRecord'
    /\ Past(OnRecord) = [b \in OnRecord |-> View(Clear(Whole, b), b)]
    /\ Past(OnRecord)' = [b \in OnRecord' |-> View(Clear(Whole', b), b)]
BY DEF Past

\* It is what the ledger is given.
LEMMA LedgerPast ==
    /\ Past({b \in Recorded : RatesComplete(b)}) = Past(OnRecord)
    /\ Past({b \in Recorded : RatesComplete(b)})' = Past(OnRecord)'
BY DEF OnRecord

\* The steps of the ledger, in terms of the tables.
LEMMA RecordStep ==
    ASSUME OnRecord' = OnRecord,
           \A b \in OnRecord : View(Clear(Whole', b), b) = View(Clear(Whole, b), b),
           Now' = Now \/ pc = "tx"
    PROVE  Ledger!Next
<1>1. Past(OnRecord)' = Past(OnRecord)
  BY PastOnRecord
<1>2. Ledger!Record
  BY <1>1, LedgerPast DEF Ledger!Record
<1> QED BY <1>2 DEF Ledger!Next

\* A block is opened.
LEMMA OpenStep ==
    ASSUME pc # "tx", pc' = "tx", NEW h, h \notin OnRecord, OnRecord' = OnRecord \cup {h},
           \A b \in OnRecord : b < h,
           \A b \in OnRecord : View(Clear(Whole', b), b) = View(Clear(Whole, b), b),
           Now' = View(Clear(Whole', h), h)
    PROVE  Ledger!Next
<1>1. h \in DOMAIN Past(OnRecord)' \ DOMAIN Past(OnRecord)
  BY PastOnRecord
<1>2. Past(OnRecord)' = [b \in DOMAIN Past(OnRecord) \cup {h} |-> IF b = h THEN Now' ELSE Past(OnRecord)[b]]
  BY PastOnRecord
<1>3. \A b \in DOMAIN Past(OnRecord) : b < h
  BY PastOnRecord
<1>0. ~(pc = "tx") /\ pc' = "tx"
  OBVIOUS
<1>4. Ledger!Open
  BY <1>1, <1>2, <1>3, <1>0, LedgerPast, ZenonT(60) DEF Ledger!Open
<1> QED BY <1>4 DEF Ledger!Next

\* A block is rolled back to.
LEMMA RollbackStep ==
    ASSUME NEW h \in OnRecord, OnRecord' = {b \in OnRecord : b <= h},
           \A b \in OnRecord : View(Clear(Whole', b), b) = View(Clear(Whole, b), b),
           Now' = View(Clear(Whole, h), h)
    PROVE  Ledger!Next
<1>1. Now' = Past(OnRecord)[h] /\ h \in DOMAIN Past(OnRecord)
  BY PastOnRecord
<1>2. Past(OnRecord)' = [b \in {j \in DOMAIN Past(OnRecord) : j <= h} |-> Past(OnRecord)[b]]
  BY PastOnRecord
<1>3. Ledger!Rollback
  BY <1>1, <1>2, LedgerPast DEF Ledger!Rollback
<1> QED BY <1>3 DEF Ledger!Next

\* Blocks leave the record, the answers stay.
LEMMA ForgetStep ==
    ASSUME OnRecord' \subseteq OnRecord, Now' = Now,
           \A b \in OnRecord' : View(Clear(Whole', b), b) = View(Clear(Whole, b), b)
    PROVE  Ledger!Next
<1>1. Past(OnRecord)' = [b \in DOMAIN Past(OnRecord)' |-> Past(OnRecord)[b]]
  BY PastOnRecord
<1>2. DOMAIN Past(OnRecord)' \subseteq DOMAIN Past(OnRecord)
  BY PastOnRecord
<1>3. Ledger!Forget
  BY <1>1, <1>2, LedgerPast DEF Ledger!Forget
<1> QED BY <1>3 DEF Ledger!Next

\* Outside a prune's deletion every block that has a row up to the open one is on record.
LEMMA RecordedIs ==
    /\ pc # "unreachable" => Recorded = {b \in blocks : b <= height}
    /\ pc' # "unreachable" => Recorded' = {b \in blocks' : b <= height'}
    /\ pc = "unreachable" => Recorded = {b \in blocks : b <= height /\ b >= PruneHeight(stage)}
BY DEF Recorded

\* What is answered now, by the phase.
LEMMA NowIs ==
    /\ pc \in {"clear", "down"} => Now = View(Clear(Whole, height), height)
    /\ pc \notin {"clear", "down"} => Now = View(Whole, height)
    /\ pc' \in {"clear", "down"} => Now' = View(Clear(Whole', height'), height')
    /\ pc' \notin {"clear", "down"} => Now' = View(Whole', height')
BY DEF Now

\* While nothing but pc and the like changes, the record stays.
LEMMA RecordStays ==
    ASSUME blocks' = blocks, height' = height, ratesFrom' = ratesFrom,
           pc # "unreachable", pc' # "unreachable"
    PROVE  OnRecord' = OnRecord
BY RecordedIs DEF OnRecord, RatesComplete

\* A step that leaves the record, the height and the tables as they are.
LEMMA QuietStep ==
    ASSUME Whole' = Whole, height' = height, OnRecord' = OnRecord,
           \/ pc = "tx"
           \/ pc \in {"clear", "down"} /\ pc' \in {"clear", "down"}
           \/ pc \notin {"clear", "down"} /\ pc' \notin {"clear", "down"}
    PROVE  Ledger!Next
<1>1. Now' = Now \/ pc = "tx"
  BY NowIs
<1>2. \A b \in OnRecord : View(Clear(Whole', b), b) = View(Clear(Whole, b), b)
  OBVIOUS
<1> QED BY <1>1, <1>2, RecordStep

\* The start of a prune: the blocks whose answers it takes leave the record.
LEMMA PruneForgets ==
    ASSUME RollbackInv, RollbackInv', PruneStarts
    PROVE  Ledger!Next
<1>0. /\ RowTypes(Whole) /\ RowsUnder /\ TopOpen /\ RatesThere
      /\ height \in Nat \ {0} /\ blocks \subseteq Nat \ {0} /\ RatesThere'
      /\ Leniency \in Nat
  BY DatabaseAssumption DEF RollbackInv, RowsInv
<1>1. /\ pc = "prune" /\ pc' = "unreachable" /\ UNCHANGED <<blocks, height>>
      /\ stage' \in {EXCHANGE, UTXO, VOTE}
  BY DEF PruneStarts, PruneExchange, PruneUTXO, PruneVote
<1> DEFINE p == PruneHeight(stage')
<1>2. Pruned(Whole, Whole', p, stage') /\ p \in Int /\ p <= height
  BY <1>0, PrunedWhole, PruneHeights
<1>3. Recorded' = {b \in blocks : b <= height /\ b >= p}
  BY <1>1 DEF Recorded, PruneHeight, PruneMax
<1>4. stage' = EXCHANGE => p <= height - Leniency /\ ratesFrom' = Max({ratesFrom, p})
  <2>1. ASSUME stage' = EXCHANGE PROVE PruneExchange
    BY <2>1 DEF PruneStarts, PruneUTXO, PruneVote, EXCHANGE, UTXO, VOTE
  <2>2. ASSUME PruneExchange, stage' = EXCHANGE PROVE ratesFrom' = Max({ratesFrom, p})
    BY <2>2 DEF PruneExchange
  <2>3. stage' = EXCHANGE => p <= height - Leniency
    BY <1>0, PruneHeights
  <2> QED BY <2>1, <2>2, <2>3
<1>5. stage' # EXCHANGE => ratesFrom' = ratesFrom
  BY DEF PruneStarts, PruneExchange, PruneUTXO, PruneVote
<1> HIDE DEF p
<1>6. ratesFrom \in Nat /\ ratesFrom' \in Nat /\ ratesFrom <= ratesFrom'
      /\ (stage' = EXCHANGE => p <= ratesFrom')
  BY <1>0, <1>2, <1>4, <1>5, MaxOfTwo DEF RatesThere
<1>7. ASSUME NEW b \in Nat, RatesComplete(b)'
      PROVE  RatesComplete(b) /\ (stage' = EXCHANGE => p <= 0 \/ p - 1 <= b - Leniency)
  <2>1. ratesFrom' = 0 \/ b - Leniency >= ratesFrom' - 1
    BY <1>7 DEF RatesComplete
  <2>2. CASE ratesFrom' = 0
    BY <1>0, <1>2, <1>6, <2>2 DEF RatesComplete
  <2>3. CASE b - Leniency >= ratesFrom' - 1
    <3>0. /\ b - Leniency \in Int
          /\ \A d, m, n \in Int : m <= n /\ d >= n - 1 => d >= m - 1 /\ m - 1 <= d
      BY <1>0
    <3>1. b - Leniency >= ratesFrom - 1
      BY <1>6, <2>3, <3>0
    <3>2. stage' = EXCHANGE => p - 1 <= b - Leniency
      BY <1>2, <1>6, <2>3, <3>0
    <3> QED BY <3>1, <3>2 DEF RatesComplete
  <2> QED BY <2>1, <2>2, <2>3
<1>8. OnRecord' \subseteq OnRecord
  <2>1. Recorded = {b \in blocks : b <= height}
    BY <1>1, RecordedIs
  <2> QED BY <1>0, <1>3, <1>7, <2>1 DEF OnRecord
<1>9. \A b \in OnRecord' : View(Clear(Whole', b), b) = View(Clear(Whole, b), b)
  <2>1. \A b \in OnRecord' : b \in Nat /\ p <= b /\ RatesComplete(b)'
    BY <1>0, <1>2, <1>3 DEF OnRecord
  <2> QED BY <1>2, <1>7, <2>1 DEF Pruned
<1>10. Now' = Now
  <2>1. Now = View(Whole, height) /\ Now' = View(Whole', height)
    BY <1>1, NowIs
  <2>2. stage' = EXCHANGE => p - 1 <= height - Leniency
    BY <1>0, <1>2, <1>4
  <2> QED BY <1>0, <1>2, <2>1, <2>2 DEF Pruned
<1> QED BY <1>8, <1>9, <1>10, ForgetStep

\* Every step is one of the ledger's.
LEMMA NextRefines ==
    ASSUME RollbackInv, RollbackInv', ~Reissue, ~RevokeAgain, Untorn, [Next]_vars
    PROVE  Ledger!Next
<1>0. /\ RowTypes(Whole) /\ RowsUnder /\ NothingKept /\ TopOpen /\ RatesThere /\ RowsInv
      /\ RowsInv' /\ NothingKept' /\ RatesThere'
      /\ height \in Nat \ {0} /\ blocks \subseteq Nat \ {0}
  BY DEF RollbackInv, RowsInv
<1>1. CASE ProcessTx
  <2>1. pc = "tx" /\ pc' = "tx" /\ UNCHANGED <<blocks, height, pruneVars>>
    BY <1>1 DEF ProcessTx, Standard, KycIssuance, KycRevoke, ExchangePublish,
                DigiAssetIssuance, AddToDatabase
  <2>2. Whole = db /\ Whole' = db'
    <3>1. keptRates = {} /\ keptVotes = {} /\ keptRates' = {} /\ keptVotes' = {}
      BY <1>0, <2>1 DEF NothingKept
    <3> QED BY <1>0, <3>1, WholeIsDb, WholeIsDbNext
  <2>3. \A b \in 1 .. height : Clear(db', b) = Clear(db, b)
    BY <1>0, <1>1, ProcessTxCleared DEF SameBelow
  <2>4. OnRecord' = OnRecord
    BY <2>1, RecordStays DEF pruneVars
  <2>5. \A b \in OnRecord : b \in 1 .. height
    BY <1>0 DEF OnRecord, Recorded
  <2> QED BY <2>1, <2>2, <2>3, <2>4, <2>5, RecordStep
<1>2. CASE BlockDone
  <2>1. pc = "tx" /\ pc' = "prune" /\ UNCHANGED <<db, blocks, height, keptRates, keptVotes, ratesFrom>>
    BY <1>2 DEF BlockDone
  <2>2. Whole' = Whole /\ OnRecord' = OnRecord
    BY <2>1, RecordStays DEF Whole
  <2> QED BY <2>1, <2>2, QuietStep
<1>3. CASE PruneStarts
  BY <1>3, PruneForgets
<1>4. CASE RemoveNonReachable
  <2>1. /\ pc = "unreachable" /\ pc' = "keep" /\ UNCHANGED <<db, height, pruneVars>>
        /\ blocks' = {b \in blocks : b >= PruneHeight(stage)}
    BY <1>4 DEF RemoveNonReachable
  <2>2. Whole' = Whole
    BY <2>1 DEF Whole, pruneVars
  <2>3. Recorded' = Recorded
    BY <2>1, RecordedIs
  <2>4. OnRecord' = OnRecord
    BY <2>1, <2>3 DEF OnRecord, RatesComplete, pruneVars
  <2> QED BY <2>1, <2>2, <2>4, QuietStep
<1>5. CASE PutBackRate \/ PutBackVote
  <2>1. pc = "keep" /\ UNCHANGED <<blocks, height, pc, ratesFrom>>
    BY <1>5 DEF PutBackRate, PutBackVote
  <2>2. Whole' = Whole
    BY <1>0, <1>5, PutBack
  <2> QED BY <2>1, <2>2, RecordStays, QuietStep
<1>6. CASE SetBeenPruned
  <2>1. /\ pc = "keep" /\ pc' = "prune"
        /\ UNCHANGED <<db, blocks, height, keptRates, keptVotes, ratesFrom>>
    BY <1>6 DEF SetBeenPruned
  <2>2. Whole' = Whole
    BY <2>1 DEF Whole
  <2> QED BY <2>1, <2>2, RecordStays, QuietStep
<1>7. CASE InsertBlock
  <2>1. /\ pc = "prune" /\ pc' = "tx" /\ height' = height + 1 /\ blocks' = blocks \cup {height + 1}
        /\ UNCHANGED <<db, pruneVars>>
    BY <1>7 DEF InsertBlock
  <2>2. Whole' = Whole
    BY <2>1 DEF Whole, pruneVars
  <2>3. Clear(Whole, height + 1) = Whole
    BY <1>0, <2>1, NothingAbove DEF RowsUnder
  <2>4. \A b \in blocks : b <= height
    BY <1>0, <2>1 DEF TopOpen
  <2>5. Recorded = blocks /\ Recorded' = blocks \cup {height + 1}
    <3>1. \A b \in blocks \cup {height + 1} : b <= height + 1
      BY <1>0, <2>4
    <3> QED BY <2>1, <2>4, <3>1, RecordedIs
  <2>6. OnRecord' = OnRecord \cup {height + 1}
    <3>1. RatesComplete(height)' /\ height' = height + 1
      BY <1>0, <2>1 DEF RatesThere
    <3>2. \A b : RatesComplete(b)' <=> RatesComplete(b)
      BY <2>1 DEF RatesComplete, pruneVars
    <3>3. RatesComplete(height + 1)
      BY <1>0, <2>1, <3>2 DEF RatesThere, RatesComplete, pruneVars
    <3>4. OnRecord' = {b \in Recorded' : RatesComplete(b)}
      BY <3>2 DEF OnRecord
    <3> QED BY <2>5, <3>3, <3>4 DEF OnRecord
  <2>7. height + 1 \notin OnRecord /\ \A b \in OnRecord : b < height + 1
    BY <1>0, <2>4, <2>5 DEF OnRecord
  <2>8. Now' = View(Clear(Whole', height + 1), height + 1)
    BY <2>1, <2>2, <2>3, NowIs
  <2> QED BY <2>1, <2>2, <2>6, <2>7, <2>8, OpenStep
<1>8. CASE Rewind
  <2>1. /\ pc \in {"tx", "prune"} /\ pc' = "clear"
        /\ height' \in blocks /\ height' < height /\ RatesComplete(height')
        /\ UNCHANGED <<db, blocks, pruneVars>>
    BY <1>8 DEF Rewind, Untorn
  <2>2. Whole' = Whole
    BY <2>1 DEF Whole, pruneVars
  <2>3. Recorded = blocks /\ Recorded' = {b \in blocks : b <= height'}
    BY <1>0, <2>1, RecordedIs DEF TopOpen
  <2>4. height' \in OnRecord /\ OnRecord' = {b \in OnRecord : b <= height'}
    BY <2>1, <2>3 DEF OnRecord, RatesComplete, pruneVars
  <2>5. Now' = View(Clear(Whole, height'), height')
    BY <2>1, <2>2, NowIs
  <2> QED BY <2>2, <2>4, <2>5, RollbackStep
<1>9. CASE ClearStatement
  <2>1. /\ pc = "clear" /\ pc' = "clear" /\ db' = Cleared(step, db, height)
        /\ step \in 1 .. 7 /\ UNCHANGED <<blocks, height, pruneVars>>
    BY <1>0, <1>9 DEF ClearStatement, RowsInv
  <2>2. Whole = db /\ Whole' = db'
    <3>1. keptRates = {} /\ keptVotes = {} /\ keptRates' = {} /\ keptVotes' = {}
      BY <1>0, <2>1 DEF NothingKept
    <3> QED BY <1>0, <3>1, WholeIsDb, WholeIsDbNext
  <2>3. \A b \in 1 .. height : Clear(Whole', b) = Clear(Whole, b)
    BY <1>0, <2>1, <2>2, StatementCleared
  <2>4. OnRecord' = OnRecord
    BY <2>1, RecordStays DEF pruneVars
  <2>5. \A b \in OnRecord : b \in 1 .. height
    BY <1>0 DEF OnRecord, Recorded
  <2>6. Now' = Now
    <3>1. height \in 1 .. height
      BY <1>0
    <3> QED BY <2>1, <2>3, <3>1, NowIs
  <2> QED BY <2>3, <2>4, <2>5, <2>6, RecordStep
<1>10. CASE ClearBlocks
  <2>1. /\ pc = "clear" /\ pc' = "tx" /\ step = 8 /\ blocks' = {b \in blocks : b <= height}
        /\ UNCHANGED <<db, height, pruneVars>>
    BY <1>10 DEF ClearBlocks
  <2>2. Whole' = Whole
    BY <2>1 DEF Whole, pruneVars
  <2>3. Clear(Whole, height) = Whole
    <3>1. GoneAll(Whole, height)
      BY <1>0, <2>1 DEF RowsUnder, GoneAll
    <3> QED BY <1>0, <3>1, NothingLeft
  <2>4. OnRecord' = OnRecord
    <3>1. Recorded' = Recorded
      BY <2>1, RecordedIs
    <3> QED BY <2>1, <3>1 DEF OnRecord, RatesComplete, pruneVars
  <2>5. Now' = Now
    BY <2>1, <2>2, <2>3, NowIs
  <2> QED BY <2>2, <2>4, <2>5, RecordStep
<1>11. CASE Crash
  <2>1. /\ pc # "down" /\ pc' = "down" /\ keptRates' = {} /\ keptVotes' = {}
        /\ height' \in blocks /\ (\A c \in blocks : c <= height') /\ UNCHANGED <<db, blocks, ratesFrom>>
        /\ ~Torn
    BY <1>11 DEF Crash, Untorn
  <2>2. pc \notin {"unreachable", "keep"} /\ keptRates = {} /\ keptVotes = {}
    BY <1>0, <2>1 DEF Torn, NothingKept
  <2>3. Whole' = Whole
    BY <2>1, <2>2 DEF Whole
  <2>4. height' = height /\ \A b \in blocks : b <= height
    <3>1. \A b \in blocks : b <= height
      BY <1>0, <2>1 DEF Torn, TopOpen
    <3>2. height' \in Nat /\ height \in Nat /\ height' <= height /\ height <= height'
      BY <1>0, <2>1, <3>1 DEF TopOpen
    <3> QED BY <3>1, <3>2
  <2>5. OnRecord' = OnRecord
    BY <2>1, <2>2, <2>4, RecordStays
  <2>6. CASE pc = "clear"
    BY <2>1, <2>3, <2>4, <2>5, <2>6, QuietStep
  <2>7. CASE pc # "clear"
    <3>1. height \in OnRecord /\ \A b \in OnRecord : b <= height
      BY <1>0, <2>2, <2>4, RecordedIs DEF OnRecord, TopOpen, RatesThere
    <3>2. OnRecord' = {b \in OnRecord : b <= height}
      BY <2>5, <3>1
    <3>3. Now' = View(Clear(Whole, height), height)
      BY <2>1, <2>3, <2>4, NowIs
    <3> QED BY <2>3, <3>1, <3>2, <3>3, RollbackStep
  <2> QED BY <2>6, <2>7
<1>12. CASE Startup
  <2>1. pc = "down" /\ pc' = "clear" /\ UNCHANGED <<db, blocks, height, pruneVars>>
    BY <1>12 DEF Startup
  <2>2. Whole' = Whole /\ ratesFrom' = ratesFrom
    BY <2>1 DEF Whole, pruneVars
  <2> QED BY <2>1, <2>2, RecordStays, QuietStep
<1>13. CASE UNCHANGED vars
  <2>1. Whole' = Whole /\ OnRecord' = OnRecord /\ Now' = Now
    BY <1>13 DEF Whole, OnRecord, Recorded, RatesComplete, Now, vars, PruneHeight, PruneMax
  <2> QED BY <2>1, RecordStep
<1> QED
  BY <1>1, <1>2, <1>3, <1>4, <1>5, <1>6, <1>7, <1>8, <1>9, <1>10, <1>11, <1>12, <1>13
  DEF Next, Prune, PruneStarts

\* And it starts as the ledger does.
LEMMA InitRefines == Init => Ledger!Init
<1> SUFFICES ASSUME Init PROVE Ledger!Init
  OBVIOUS
<1>1. RollbackInv
  BY InitRollback
<1>2. Whole = db /\ height = 1 /\ blocks = {1} /\ pc = "tx" /\ ratesFrom = 0
  BY <1>1, WholeIsDb DEF Init, RollbackInv
<1>3. RowTypes(Whole) /\ GoneAll(Whole, 1)
  <2>1. db.utxos = {} /\ db.kyc = {} /\ db.exchange = {} /\ db.votes = {} /\ db.assets = {}
    BY DEF Init
  <2> QED BY <1>1, <1>2, <2>1 DEF RollbackInv, GoneAll, Gone
<1>4. Clear(Whole, 1) = Whole
  BY <1>3, NothingLeft
<1>5. OnRecord = {1}
  BY <1>2 DEF OnRecord, Recorded, RatesComplete
<1>6. Now = View(Whole, 1)
  BY <1>2, NowIs
<1>7. Past(OnRecord) = [b \in {1} |-> Now]
  BY <1>4, <1>5, <1>6, PastOnRecord
<1> QED BY <1>7, LedgerPast DEF Ledger!Init

\* The tables keep RollbackLedger's promise: clearBlocksAboveHeight down to a
\* block brings back every answer the queries gave when the block was opened,
\* and neither a prune nor a death of the process changes an answer.
THEOREM RefinesHolds == ~Reissue /\ ~RevokeAgain /\ ~DeepRewind /\ ~CrashTorn => (Spec => Refines)
<1> SUFFICES ASSUME ~Reissue, ~RevokeAgain, ~DeepRewind, ~CrashTorn PROVE Spec => Refines
  OBVIOUS
<1>1. RollbackInv /\ [Next]_vars => RollbackInv'
  BY NextRollback DEF Untorn
<1>2. Spec => []RollbackInv
  BY InitRollback, <1>1, PTL DEF Spec
<1>3. RollbackInv /\ RollbackInv' /\ [Next]_vars => Ledger!Next
  BY NextRefines DEF Untorn
<1> QED BY InitRefines, <1>2, <1>3, PTL DEF Spec, Refines, Ledger!Spec

-----------------------------------------------------------------------------
(* The types                                                                *)

\* An output is spent after it is made, and both while the chain is that high.
UtxosDated(u) == \A r \in u : r.created \in 1 .. MaxHeight /\ r.destroyed \in {NULL} \cup r.created .. MaxHeight

Dated(d) == UtxosDated(d.utxos) /\ KycDated(d.kyc)

\* Where the thread is.
Placed ==
    /\ blocks \subseteq 1 .. MaxHeight
    /\ flags \in [EXCHANGE .. VOTE -> Int]
    /\ pc \in {"tx", "prune", "unreachable", "keep", "clear", "down"}
    /\ stage \in EXCHANGE .. VOTE + 1
    /\ pc \in {"unreachable", "keep"} => stage # VOTE + 1
    /\ crashes \in 0 .. MaxCrashes

TypeInv == RollbackInv /\ Dated(db) /\ Placed

\* What a transaction makes of the outputs is dated when it is processed.
LEMMA UtxosAddedDated ==
    ASSUME NEW u \in SUBSET UtxoRow, NEW H \in 1 .. MaxHeight, NEW ins, NEW outs, UtxosDated(u),
           \A r \in u : r.created <= H
    PROVE  UtxosDated(Added(Marked(u, ins, H), outs, H))
<1> DEFINE Mark(w) == [w EXCEPT !.destroyed = IF w.out \in ins THEN H ELSE @]
<1>0. MaxHeight \in Nat
  BY DatabaseAssumption
<1>1. \A w \in u : Mark(w).created = w.created /\ Mark(w).destroyed \in {H, w.destroyed}
  BY DEF UtxoRow
<1>2. Marked(u, ins, H) = {Mark(w) : w \in u}
  BY DEF Marked
<1> HIDE DEF Mark
<1>3. \A w \in u : w.created \in 1 .. MaxHeight /\ H \in w.created .. MaxHeight
  BY <1>0 DEF UtxosDated
<1>4. \A w \in u : w.destroyed \in {NULL} \cup w.created .. MaxHeight
  BY DEF UtxosDated
<1>5. \A w \in u : /\ Mark(w).created \in 1 .. MaxHeight
                   /\ Mark(w).destroyed \in {NULL} \cup Mark(w).created .. MaxHeight
  BY <1>1, <1>3, <1>4
<1>6. \A r \in Fresh(outs, H) : r.created = H /\ r.destroyed = NULL
  BY DEF Fresh
<1> QED BY <1>2, <1>5, <1>6 DEF Added, UtxosDated

LEMMA ProcessTxDated ==
    ASSUME RowsInv, ~Reissue, ~RevokeAgain, ProcessTx, RowTypes(db), UnderAll(db, height),
           height \in 1 .. MaxHeight, Dated(db)
    PROVE  Dated(db')
<1>1. PICK u, k, x, v, a : db = Table(u, k, x, v, a) /\ RowsOf(u, k, x, v, a)
  BY RowTypesTable
<1>2. Good(u, k) /\ u \in SUBSET UtxoRow
  BY <1>1 DEF RowsOf, Good
<1>3. PICK kk, xx, aa : \E ins \in SUBSET SpentOuts(u), outs \in SUBSET Out,
                           cast \in [Ballot -> 0 .. MaxCast] :
         /\ Step(k, x, a, kk, xx, aa, height)
         /\ db' = Table(Added(Marked(u, ins, height), outs, height), kk, xx, Voted(v, cast, height), aa)
         /\ Good(Added(Marked(u, ins, height), outs, height), kk)
  BY <1>1, <1>2, ProcessTxTables
<1>4. PICK ins \in SUBSET SpentOuts(u), outs \in SUBSET Out, cast \in [Ballot -> 0 .. MaxCast] :
         /\ Step(k, x, a, kk, xx, aa, height)
         /\ db' = Table(Added(Marked(u, ins, height), outs, height), kk, xx, Voted(v, cast, height), aa)
  BY <1>3
<1> DEFINE uu == Added(Marked(u, ins, height), outs, height)
           vv == Voted(v, cast, height)
<1>5. UnderOf(u, k, x, v, a, height)
  BY <1>1, RowTypesOf DEF RowsOf
<1>6. UtxosDated(u) /\ KycDated(k)
  BY <1>1, TableParts DEF Dated
<1>7. KycDated(kk)
  BY <1>4, <1>5, <1>6 DEF Step, UnderOf
<1>8. UtxosDated(uu)
  BY <1>2, <1>5, <1>6, UtxosAddedDated DEF UnderOf
<1>9. db' = Table(uu, kk, xx, vv, aa)
  BY <1>4
<1> HIDE DEF uu, vv
<1>10. db'.utxos = uu /\ db'.kyc = kk
  BY <1>9, TableParts
<1> QED BY <1>7, <1>8, <1>10 DEF Dated

\* A statement of a clear takes rows and dates away.
LEMMA StatementDated ==
    ASSUME NEW u, NEW k, NEW x, NEW v, NEW a, Good(u, k), NEW h \in Nat, NEW i \in 1 .. 7,
           UtxosDated(u), KycDated(k)
    PROVE  Dated(Cleared(i, Table(u, k, x, v, a), h))
<1> DEFINE d == Table(u, k, x, v, a)
<1>1. UtxosDated(CreatedBelow(u, h)) /\ KycDated(RowsBelow(k, h))
  BY DEF UtxosDated, KycDated, CreatedBelow, RowsBelow
<1>2. UtxosDated(Undestroyed(u, h))
  <2> DEFINE Reset(w) == [w EXCEPT !.destroyed = IF @ >= h THEN NULL ELSE @]
  <2>1. \A w \in u : Reset(w).created = w.created /\ Reset(w).destroyed \in {NULL, w.destroyed}
    BY DEF Good, UtxoRow
  <2>2. Undestroyed(u, h) = {Reset(w) : w \in u}
    BY DEF Undestroyed
  <2> HIDE DEF Reset
  <2> QED BY <2>1, <2>2 DEF UtxosDated
<1>3. KycDated(Unrevoked(k, h))
  <2> DEFINE Reset(w) == [w EXCEPT !.revoked = IF @ >= h THEN NULL ELSE @]
  <2>1. \A w \in k : Reset(w).height = w.height /\ Reset(w).revoked \in {NULL, w.revoked}
    BY DEF Good, KycRow
  <2>2. Unrevoked(k, h) = {Reset(w) : w \in k}
    BY DEF Unrevoked
  <2> HIDE DEF Reset
  <2> QED BY <2>1, <2>2 DEF KycDated
<1>4. PICK uu, kk, xx, vv, aa : /\ Cleared(i, d, h) = Table(uu, kk, xx, vv, aa)
                                /\ uu \in {u, CreatedBelow(u, h), Undestroyed(u, h)}
                                /\ kk \in {k, RowsBelow(k, h), Unrevoked(k, h)}
  <2>1. CASE i = 1
    BY <2>1, Statements DEF Cleared
  <2>2. CASE i = 2
    BY <2>2, Statements DEF Cleared
  <2>3. CASE i = 3
    BY <2>3, Statements DEF Cleared
  <2>4. CASE i = 4
    BY <2>4, Statements DEF Cleared
  <2>5. CASE i = 5
    BY <2>5, Statements DEF Cleared
  <2>6. CASE i = 6
    BY <2>6, Statements DEF Cleared
  <2>7. CASE i = 7
    BY <2>7, Statements DEF Cleared
  <2> QED BY <2>1, <2>2, <2>3, <2>4, <2>5, <2>6, <2>7
<1>5. UtxosDated(uu) /\ KycDated(kk)
  BY <1>1, <1>2, <1>3, <1>4
<1>6. Cleared(i, d, h).utxos = uu /\ Cleared(i, d, h).kyc = kk
  BY <1>4, TableParts
<1> QED BY <1>5, <1>6 DEF Dated

\* No other step touches a date.
LEMMA NextDated ==
    ASSUME TypeInv, ~Reissue, ~RevokeAgain, [Next]_vars
    PROVE  Dated(db')
<1>0. /\ RowsInv /\ RowTypes(Whole) /\ RowsUnder /\ NothingKept /\ TopOpen /\ Dated(db)
      /\ height \in 1 .. MaxHeight /\ height \in Nat
  BY DatabaseAssumption DEF TypeInv, RollbackInv, Placed, TopOpen, RowsInv
<1>1. PICK u, k, x, v, a : db = Table(u, k, x, v, a) /\ Good(u, k)
  BY <1>0 DEF RowsInv
<1>2. db.utxos = u /\ db.kyc = k /\ UtxosDated(u) /\ KycDated(k)
  BY <1>0, <1>1, TableParts DEF Dated
<1>3. CASE ProcessTx
  <2>1. pc = "tx"
    BY <1>3 DEF ProcessTx, Standard, KycIssuance, KycRevoke, ExchangePublish,
                DigiAssetIssuance, AddToDatabase
  <2>2. Whole = db
    BY <1>0, <2>1, WholeIsDb DEF NothingKept
  <2>3. RowTypes(db) /\ UnderAll(db, height)
    BY <1>0, <2>1, <2>2 DEF RowsUnder
  <2> QED BY <1>0, <1>3, <2>3, ProcessTxDated
<1>4. CASE ClearStatement
  <2>1. db' = Cleared(step, db, height) /\ step \in 1 .. 7
    BY <1>0, <1>4 DEF ClearStatement, RowsInv
  <2>2. PICK i : i = step
    OBVIOUS
  <2>3. PICK h : h = height
    OBVIOUS
  <2>4. Dated(Cleared(i, Table(u, k, x, v, a), h))
    BY <1>0, <1>1, <1>2, <2>1, <2>2, <2>3, StatementDated
  <2>5. db' = Cleared(i, Table(u, k, x, v, a), h)
    BY <1>1, <2>1, <2>2, <2>3
  <2>6. PICK d : d = Cleared(i, Table(u, k, x, v, a), h)
    OBVIOUS
  <2> QED BY <2>4, <2>5, <2>6 DEF Dated
<1>5. CASE PruneUTXO
  <2>1. db' = [db EXCEPT !.utxos = {w \in @ : w.destroyed = NULL \/ w.destroyed >= PruneHeight(UTXO)}]
    BY <1>5 DEF PruneUTXO
  <2>2. db'.utxos \subseteq u /\ db'.kyc = k
    BY <1>1, <1>2, <2>1 DEF Table
  <2> QED BY <1>2, <2>2 DEF Dated, UtxosDated
<1>6. CASE PruneExchange \/ PruneVote \/ PutBackRate \/ PutBackVote
  <2>1. \E y : db' = [db EXCEPT !.exchange = y] \/ db' = [db EXCEPT !.votes = y]
    BY <1>6 DEF PruneExchange, PruneVote, PutBackRate, PutBackVote
  <2>2. db'.utxos = u /\ db'.kyc = k
    BY <1>1, <1>2, <2>1 DEF Table
  <2> QED BY <1>2, <2>2 DEF Dated
<1>7. CASE UNCHANGED db
  BY <1>0, <1>7 DEF Dated
<1>8. CASE \/ BlockDone \/ RemoveNonReachable \/ SetBeenPruned \/ InsertBlock
           \/ Rewind \/ ClearBlocks \/ Crash \/ Startup \/ UNCHANGED vars
  <2>1. UNCHANGED db
    BY <1>8 DEF BlockDone, RemoveNonReachable, SetBeenPruned, InsertBlock, Rewind, ClearBlocks,
                Crash, Startup, vars
  <2> QED BY <1>7, <2>1
<1> QED BY <1>3, <1>4, <1>5, <1>6, <1>8 DEF Next, Prune

\* The thread is at one of its places, and its bounds hold.
LEMMA NextPlaced ==
    ASSUME TypeInv, [Next]_vars
    PROVE  Placed'
<1>0. /\ Placed /\ height \in blocks /\ height \in Nat \ {0}
      /\ MaxHeight \in Nat \ {0} /\ MaxCrashes \in Nat
  BY DatabaseAssumption DEF TypeInv, RollbackInv, TopOpen, RowsInv
<1>1. CASE ProcessTx
  <2>1. UNCHANGED <<blocks, pc, pruneVars, crashes>>
    BY <1>1 DEF ProcessTx, Standard, KycIssuance, KycRevoke, ExchangePublish,
                DigiAssetIssuance, AddToDatabase
  <2> QED BY <1>0, <2>1 DEF Placed, pruneVars
<1>2. CASE BlockDone
  BY <1>0, <1>2 DEF Placed, BlockDone, EXCHANGE, VOTE
<1>3. CASE PruneExchange \/ PruneUTXO \/ PruneVote
  BY <1>0, <1>3 DEF Placed, PruneExchange, PruneUTXO, PruneVote, EXCHANGE, UTXO, VOTE
<1>4. CASE RemoveNonReachable
  BY <1>0, <1>4 DEF Placed, RemoveNonReachable, pruneVars
<1>5. CASE PutBackRate \/ PutBackVote
  BY <1>0, <1>5 DEF Placed, PutBackRate, PutBackVote
<1>6. CASE SetBeenPruned
  <2>1. /\ pc = "keep" /\ pc' = "prune" /\ stage' = stage + 1 /\ UNCHANGED <<blocks, crashes>>
        /\ flags' = [flags EXCEPT ![stage] = PruneHeight(stage)]
    BY <1>6 DEF SetBeenPruned
  <2>2. stage \in EXCHANGE .. VOTE
    BY <1>0, <2>1 DEF Placed, EXCHANGE, VOTE
  <2>3. PruneHeight(stage) \in Int
    BY <1>0, PruneHeights
  <2>4. flags' \in [EXCHANGE .. VOTE -> Int]
    BY <1>0, <2>1, <2>2, <2>3 DEF Placed
  <2> QED BY <1>0, <2>1, <2>2, <2>4 DEF Placed, EXCHANGE, VOTE
<1>7. CASE InsertBlock
  <2>1. height + 1 \in 1 .. MaxHeight
    BY <1>0, <1>7 DEF InsertBlock
  <2> QED BY <1>0, <1>7, <2>1 DEF Placed, InsertBlock, pruneVars
<1>8. CASE Rewind
  BY <1>0, <1>8 DEF Placed, Rewind, pruneVars
<1>9. CASE ClearStatement \/ ClearBlocks \/ Startup
  BY <1>0, <1>9 DEF Placed, ClearStatement, ClearBlocks, Startup, pruneVars
<1>10. CASE Crash
  BY <1>0, <1>10 DEF Placed, Crash, EXCHANGE, VOTE
<1>11. CASE UNCHANGED vars
  BY <1>0, <1>11 DEF Placed, vars
<1> QED
  BY <1>1, <1>2, <1>3, <1>4, <1>5, <1>6, <1>7, <1>8, <1>9, <1>10, <1>11 DEF Next, Prune

LEMMA InitTyped == Init => TypeInv
<1> SUFFICES ASSUME Init PROVE TypeInv
  OBVIOUS
<1>1. Dated(db)
  BY DEF Init, Dated, UtxosDated, KycDated
<1>2. Placed
  BY DatabaseAssumption DEF Init, Placed, EXCHANGE, VOTE
<1> QED BY <1>1, <1>2, InitRollback DEF TypeInv

\* The tables have the types of their columns, and what a prune keeps aside too.
LEMMA TypeInvTypes ==
    ASSUME TypeInv
    PROVE  TypeOK
<1>1. PICK u, k, x, v, a : db = Table(u, k, x, v, a) /\ Good(u, k)
  BY DEF TypeInv, RollbackInv, RowsInv
<1>2. Whole = Table(u, k, x \cup keptRates, v \cup keptVotes, a)
  BY <1>1, WholeJoined, JoinedTable
<1>3. RowsOf(u, k, x \cup keptRates, v \cup keptVotes, a)
  BY <1>2, RowTypesOf DEF TypeInv, RollbackInv
<1>4. /\ x \subseteq RateRow /\ keptRates \subseteq RateRow /\ a \subseteq AssetRow
      /\ v \subseteq VoteRow /\ keptVotes \subseteq VoteRow
  BY <1>3 DEF RowsOf
<1>5. db \in Tables
  BY <1>1, <1>4 DEF Tables, Table, Good
<1>6. /\ blocks \subseteq 1 .. MaxHeight /\ height \in blocks /\ step \in 1 .. 8
      /\ ratesFrom \in Nat
  BY DEF TypeInv, RollbackInv, TopOpen, RowsInv, RatesThere, Placed
<1>7. UtxosDated(db.utxos) /\ KycDated(db.kyc)
  BY DEF TypeInv, Dated
<1> QED BY <1>4, <1>5, <1>6, <1>7 DEF TypeOK, TypeInv, Placed, UtxosDated, KycDated

\* The tables are well formed at every step of processing, prune, rewind and
\* restart: no spend or revocation is dated before what it ends, and a block has
\* its row while it is open (Database.cpp and ChainAnalyzer.cpp).
THEOREM TypeCorrect == ~Reissue /\ ~RevokeAgain /\ ~DeepRewind /\ ~CrashTorn => (Spec => []TypeOK)
<1> SUFFICES ASSUME ~Reissue, ~RevokeAgain, ~DeepRewind, ~CrashTorn PROVE Spec => []TypeOK
  OBVIOUS
<1>1. TypeInv /\ [Next]_vars => TypeInv'
  <2> SUFFICES ASSUME TypeInv, [Next]_vars PROVE TypeInv'
    OBVIOUS
  <2>1. RollbackInv'
    BY NextRollback DEF TypeInv, Untorn
  <2> QED BY <2>1, NextDated, NextPlaced DEF TypeInv, Dated
<1>2. TypeInv => TypeOK
  BY TypeInvTypes
<1> QED BY InitTyped, <1>1, <1>2, PTL DEF Spec

=============================================================================

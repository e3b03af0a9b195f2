--------------------------- MODULE RollbackLedger ---------------------------
(***************************************************************************)
(* What the chain data tables promise to the chain analyzer: the answers   *)
(* of the database as they were when a block was opened come back when     *)
(* that block is rolled back to, for every block still on record; pruning  *)
(* may take blocks off the record and does nothing else.                   *)
(***************************************************************************)
EXTENDS Integers

VARIABLES
    now,        \* what the database answers
    past,       \* past[h]: what it answered when block h was opened
    processing  \* is the open block being processed

Init == \E h \in {1} : past = [k \in {h} |-> now]

\* Processing the open block changes the answers, never the past; while the past
\* stays as it is nothing else changes them.
Record == UNCHANGED past /\ (now' # now => processing)

\* The next block is opened: its record is made of the answers of this moment.
Open ==
    /\ ~processing /\ processing'
    /\ \E h \in DOMAIN past' \ DOMAIN past :
          /\ \A k \in DOMAIN past : k < h
          /\ past' = [k \in DOMAIN past \cup {h} |-> IF k = h THEN now' ELSE past[k]]

Rollback ==
    \E h \in DOMAIN past :
        /\ now' = past[h]
        /\ past' = [k \in {j \in DOMAIN past : j <= h} |-> past[k]]

\* Blocks too old to be rolled back to leave the record.
Forget ==
    /\ now' = now
    /\ DOMAIN past' \subseteq DOMAIN past
    /\ past' = [k \in DOMAIN past' |-> past[k]]

Next == Record \/ Open \/ Forget \/ Rollback

Spec == Init /\ [][Next]_<<now, past>>

=============================================================================

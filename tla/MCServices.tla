----------------------------- MODULE MCServices -----------------------------
(* What an issuance sets going: domains and storage pools.  They share      *)
(* nothing but the IPFS queue, so a behaviour is one of either.             *)
EXTENDS Domains, StoragePools, TLC

CONSTANTS d1, d2, A, B, f1, f2, c1, c2

VARIABLE part

Dns(x, y) == d1 :> x @@ d2 :> y
MCMetadata ==
    {[dns |-> d1 :> A, next |-> NONE],
     [dns |-> Dns(A, B), next |-> B],
     [dns |-> Dns(EMPTY, B), next |-> NONE],
     [dns |-> Dns(B, A), next |-> B]}

\* The first issuance does not pay for its second file, which the second one
\* has too and pays for; its asset is issued again with the first file too, unpaid.
MCIssuance ==
    {[index |-> 2, asset |-> A, cid |-> c1, urls |-> <<f1, f2>>, small |-> TRUE, paid |-> 2],
     [index |-> 3, asset |-> B, cid |-> c2, urls |-> <<f2>>, small |-> FALSE, paid |-> 2],
     [index |-> 3, asset |-> B, cid |-> c1, urls |-> <<f1, f2>>, small |-> FALSE, paid |-> 0]}
MCSizeOf == f1 :> 1 @@ f2 :> 2

Init ==
    /\ part \in {"domains", "pools"}
    /\ DomainInit /\ PoolInit
    /\ part = "domains" => subscribed /\ autoRemoveBad
    /\ part = "pools" => parallel = Thread

Next ==
    \/ part = "domains" /\ DomainNext /\ UNCHANGED <<poolVars, part>>
    \/ part = "pools" /\ PoolNext /\ UNCHANGED <<domainVars, part>>

Symmetry == Permutations(Thread)

Spec == Init /\ [][Next]_<<domainVars, poolVars, part>>
=============================================================================

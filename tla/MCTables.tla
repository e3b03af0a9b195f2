------------------------------ MODULE MCTables ------------------------------
(* The tables of the chain under a rewind and a prune, and the statistics    *)
(* summed up from them.  Statistics has the outputs it reads as a table of   *)
(* its own, so a behaviour is one of either module.                          *)
EXTENDS ChainDatabase, Statistics, TLC

CONSTANTS a1, a2, o1, o2, o3

VARIABLE part

MCRate == {1, 2}

MCOwner == o1 :> a1 @@ o2 :> a2 @@ o3 :> a1
MCDigiByte == o1 :> 1 @@ o2 :> 2 @@ o3 :> 2
MCAssets == o1 :> 0 @@ o2 :> 1 @@ o3 :> 1
MCEffect == {[made |-> {}, spent |-> {}], [made |-> {o2}, spent |-> {o1}],
             [made |-> {o3}, spent |-> {o2}]}
MCDelay == {-1, 3}

Symmetry == Permutations(Caller)

TablesInit ==
    /\ part \in {"tables", "statistics"}
    /\ Init /\ StatsInit
    /\ part = "tables" => canAddress

TablesNext ==
    \/ part = "tables" /\ Next /\ UNCHANGED <<statsVars, part>>
    \/ part = "statistics" /\ StatsNext /\ UNCHANGED <<vars, part>>

\* The tables are well formed, and every block falls in one window of the statistics.
TablesInv == TypeOK /\ StatsTypeOK /\ WindowsAreComplete

TablesSpec == TablesInit /\ [][TablesNext]_<<vars, statsVars, part>>
=============================================================================

-------------------------- MODULE MCChainAnalyzer --------------------------
(* The block tree ChainAnalyzer is checked on:                             *)
(*                                                                         *)
(*   g0 -- g1 -- a2 -- a3 -- a4                                            *)
(*           \     \-- b3                                                  *)
(*            \- c2 -- c3                                                  *)
(*                                                                         *)
(* a fork two deep, a fork one deep, and chains of different height.       *)
EXTENDS ChainAnalyzer

CONSTANTS g0, g1, a2, a3, a4, b3, c2, c3

MCBlock == {g0, g1, a2, a3, a4, b3, c2, c3}

MCHt == [b \in MCBlock |-> CASE b = g0 -> 0
                             [] b = g1 -> 1
                             [] b \in {a2, c2} -> 2
                             [] b \in {a3, b3, c3} -> 3
                             [] b = a4 -> 4]

MCChain == [b \in MCBlock |-> CASE b = g0 -> {g0}
                                [] b = g1 -> {g0, g1}
                                [] b = a2 -> {g0, g1, a2}
                                [] b = a3 -> {g0, g1, a2, a3}
                                [] b = a4 -> {g0, g1, a2, a3, a4}
                                [] b = b3 -> {g0, g1, a2, b3}
                                [] b = c2 -> {g0, g1, c2}
                                [] b = c3 -> {g0, g1, c2, c3}]

\* One transaction per block, two in a3 and c3: a block can be half processed.
MCTxCount == [b \in MCBlock |-> CASE b = g0 -> 0
                                  [] b \in {a3, c3} -> 2
                                  [] OTHER -> 1]

MCAssetTx == {<<a3, 2>>}

KeepAll     == <<FALSE, FALSE, FALSE>>
PruneAll    == <<TRUE, TRUE, TRUE>>

NoPruning == -1

=============================================================================

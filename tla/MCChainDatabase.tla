-------------------------- MODULE MCChainDatabase --------------------------
(* Values for ChainDatabase's constants.                                   *)
EXTENDS ChainDatabase

CONSTANTS o1, o2, a1, a2, f1, b1, b2, x1

None == {}
MCRate == {1, 2}
PruneAll == {EXCHANGE, UTXO, VOTE}
=============================================================================

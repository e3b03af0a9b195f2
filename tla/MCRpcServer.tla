------------------------------ MODULE MCRpcServer ------------------------------
(***************************************************************************)
(* TLC instances of RpcServer: a pool of two threads and a few calls.       *)
(***************************************************************************)
EXTENDS RpcServer

\* rpcallow* is set, and send or asyncclear forbidden by name
OneForbidden == {[k \in {"*", m} |-> k = "*"] : m \in {"send", "clear"}}

\* send is allowed by name and nothing else
OnlySend == {[k \in {"send"} |-> TRUE]}
================================================================================

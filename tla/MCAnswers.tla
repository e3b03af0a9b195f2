----------------------------- MODULE MCAnswers -----------------------------
(* Values for ChainQueries' constants.                                     *)
EXTENDS ChainQueries

CONSTANTS X, Y
=============================================================================

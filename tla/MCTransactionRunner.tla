------------------------ MODULE MCTransactionRunner -------------------------
(* TransactionRunner for TLC: the bounds are in the .cfg files.             *)
EXTENDS TransactionRunner
=============================================================================

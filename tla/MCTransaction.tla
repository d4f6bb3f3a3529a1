--------------------------- MODULE MCTransaction ----------------------------
(* Transaction for TLC: the calls and bounds are in the .cfg files.         *)
EXTENDS Transaction
=============================================================================

---------------------------- MODULE MCSessionUse ----------------------------
(* SessionUse for TLC: the calls and sessions are in the .cfg files.        *)
EXTENDS SessionUse
=============================================================================

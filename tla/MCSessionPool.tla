-------------------------- MODULE MCSessionPool ---------------------------
(* SessionPool on small sets for TLC.                                      *)
EXTENDS SessionPool, TLC

\* Sessions and callers are interchangeable: no action names one of them.
Symmetry == Permutations(Sessions) \cup Permutations(Callers)
===========================================================================

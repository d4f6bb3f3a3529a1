----------------------- MODULE MCMultiplexedSession -----------------------
(* MultiplexedSession on small sets for TLC: see the .cfg files.           *)
EXTENDS MultiplexedSession
===========================================================================

----------------------- MODULE MCPartialResultStream ------------------------
(* PartialResultStream for TLC: the bounds are in the .cfg files.          *)
EXTENDS PartialResultStream
=============================================================================

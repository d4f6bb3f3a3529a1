----------------------------- MODULE RowStream -----------------------------
(***************************************************************************)
(* What a query promises its reader: the rows of the result, each once and *)
(* in order, and then the end of the stream, or at some point an error.    *)
(***************************************************************************)
EXTENDS Naturals, Sequences

CONSTANT Rows       \* the rows of the result, in order

VARIABLES
  seen,             \* the rows emitted so far
  outcome           \* "open", "ended" or "failed": what the reader was told

RowInit == seen = <<>> /\ outcome = "open"

Deliver == /\ outcome # "ended"
           /\ \E n \in Len(seen) + 1 .. Len(Rows) : seen' = SubSeq(Rows, 1, n)
           /\ UNCHANGED outcome

\* The end may come with the last rows.
Finish == /\ outcome = "open"
          /\ seen' = Rows
          /\ outcome' = "ended"

\* An error may come at any time; rows under way may trail it.
Fail == /\ outcome = "open"
        /\ outcome' = "failed"
        /\ UNCHANGED seen

RowNext == Deliver \/ Finish \/ Fail
RowSpec == RowInit /\ [][RowNext]_<<seen, outcome>>
=============================================================================

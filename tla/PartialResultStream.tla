------------------------ MODULE PartialResultStream ------------------------
(***************************************************************************)
(* partialResultStream() of src/src/partial-result-stream.ts: it runs a    *)
(* streaming request, assembles rows from the chunks of the response, and  *)
(* when the request breaks repeats it from the last resume token.          *)
(*                                                                         *)
(*   request -> requestsStream -> checkpoint stream -> PartialResultStream *)
(*               (pipe)            (queue)              (inbox, out)       *)
(*                                                                         *)
(* The data of a result are its fragments 1..Total.  A value is one        *)
(* fragment, or several when the server splits it over chunks; Width       *)
(* values make a row.  A resume token is the last fragment it covers.      *)
(***************************************************************************)
EXTENDS Integers, Sequences, FiniteSets

CONSTANTS
  Total,            \* fragments in the result
  ValueEnds,        \* the fragments that end a value
  Width,            \* fields of a row
  MaxChunk,         \* bound: fragments in a chunk
  PipeSize,         \* chunks requestsStream buffers
  MaxQueued,        \* maxQueued
  HighWaters,       \* how many rows a reader's side may buffer before push() says stop
  MaxResumeRetries, \* options.maxResumeRetries
  HasDeadline,      \* options.gaxOptions.timeout is finite
  Faults,           \* how a request may break: "retryable", "fatal"
  RepeatPaused,     \* may it break in the former way while a slow reader is served?
  MaxBreaks,        \* bound: breaks
  BareTokens,       \* the fragments after which a token may come on a chunk without values
  MaxEmpties        \* bound: chunks without values

ASSUME ResultAssumption ==
  /\ Total \in Nat \ {0} /\ Width \in Nat \ {0} /\ MaxChunk \in Nat \ {0}
  /\ ValueEnds \subseteq 1..Total /\ Total \in ValueEnds
  /\ Cardinality(ValueEnds) % Width = 0

ASSUME StreamAssumption ==
  /\ PipeSize \in Nat \ {0} /\ MaxQueued \in Nat /\ HighWaters \subseteq Nat \ {0}
  /\ MaxResumeRetries \in Nat \ {0} /\ HasDeadline \in BOOLEAN
  /\ Faults \subseteq {"retryable", "fatal"} /\ MaxBreaks \in Nat
  /\ RepeatPaused \in BOOLEAN /\ BareTokens \subseteq 0..Total /\ MaxEmpties \in Nat

VARIABLES
  highWater,       \* the reader's, one of HighWaters
  request,         \* "idle", "streaming", "done"; "broken" and "refused": an error waits for
                   \* retry(); "remaking" and "abandoned": what retry() decided, still to run;
                   \* "dead": the checkpoint stream is destroyed
  sent,            \* the last fragment the server sent on this request
  empties,         \* how many chunks without values it sent
  pipe,            \* chunks in requestsStream
  queue,           \* chunks the checkpoint stream holds back
  lastResumeToken, \* 0: none, or one that covers nothing, which comes to the same
  tokenless,       \* withoutCheckpointCount
  inbox,           \* chunks written to PartialResultStream and not transformed
  gate,            \* "open", "waiting" (_tryResume's timer is set), "shut" (next() never called)
  pendingValue,    \* _pendingValue, <<>>: none
  pendingForResume,\* _pendingValueForResume
  values,          \* _values
  numPushFailed,   \* _numPushFailed
  out,             \* the rows pushed to the reader
  read,            \* how many of them the reader has taken
  outcome,         \* what the reader was told first: "open", "ended", "failed"
  breaks           \* how often a request broke

requestVars == <<highWater, request, sent, empties, breaks>>
queueVars   == <<queue, lastResumeToken, tokenless>>
valueVars   == <<pendingValue, pendingForResume, values>>
readerVars  == <<out, read, outcome>>
vars == <<highWater, request, sent, empties, breaks, pipe, queue, lastResumeToken,
          tokenless, inbox, gate, pendingValue, pendingForResume, values,
          numPushFailed, out, read, outcome>>

---------------------------------------------------------------------------
(* The result                                                              *)

Fragments(a, b) == [j \in 1..b - a + 1 |-> a + j - 1]

\* How many values are complete with fragment p, and the value f belongs to.
Complete(p) == Cardinality(ValueEnds \cap 1..p)
ValueOf(f)  == Complete(f - 1) + 1

\* The first and the last fragment of value v.
FirstOf(v) == CHOOSE f \in 1..Total : ValueOf(f) = v /\ (f = 1 \/ f - 1 \in ValueEnds)
LastOf(v)  == CHOOSE e \in ValueEnds : Complete(e) = v

\* What fragments a..b carry of value v, and the values, or parts of values,
\* they carry.
Part(a, b, v) == Fragments(IF FirstOf(v) < a THEN a ELSE FirstOf(v),
                           IF LastOf(v) > b THEN b ELSE LastOf(v))
Pieces(a, b) ==
  [i \in 1..ValueOf(b) - ValueOf(a) + 1 |-> Part(a, b, ValueOf(a) + i - 1)]

\* A sequence of values, cut into rows; RowsIn is how many are complete.
RowsIn(vs) == Len(vs) \div Width
Cut(vs)    == [r \in 1..RowsIn(vs) |-> SubSeq(vs, (r - 1) * Width + 1, r * Width)]

Rows == Cut(Pieces(1, Total))

\* What is known of an unfinished value after fragment p.
Half(p) == IF p = 0 \/ p \in ValueEnds THEN <<>>
           ELSE Fragments(FirstOf(ValueOf(p)), p)

\* A chunk; final marks what endListener sends after the last request.
Chunk(a, b, token, last) ==
  [from |-> a, to |-> b, token |-> token, last |-> last, final |-> FALSE]
FlushChunk ==
  [from |-> Total + 1, to |-> Total, token |-> TRUE, last |-> FALSE, final |-> TRUE]

HasValues(c) == c.from <= c.to

---------------------------------------------------------------------------
(* The request                                                             *)

\* requestFn(lastResumeToken): the server goes on after the token.
MakeRequest == sent' = lastResumeToken

\* 'reading': the reader asks for the first row.
Start ==
  /\ request = "idle"
  /\ request' = "streaming"
  /\ MakeRequest
  /\ UNCHANGED <<highWater, empties, breaks, pipe, inbox, gate, numPushFailed>>
  /\ UNCHANGED <<queueVars, valueVars, readerVars>>

\* The server sends a chunk of n fragments, with or without a token.  One of
\* none has metadata, statistics or a token only.
Send(n, token, last) ==
  /\ request = "streaming"
  /\ sent + n <= Total /\ Len(pipe) < PipeSize
  /\ last => sent + n = Total
  /\ n = 0 => empties < MaxEmpties /\ (token => sent \in BareTokens)
  /\ pipe' = Append(pipe, Chunk(sent + 1, sent + n, token, last))
  /\ sent' = sent + n
  /\ empties' = IF n = 0 THEN empties + 1 ELSE empties
  /\ UNCHANGED <<highWater, request, breaks, inbox, gate, numPushFailed>>
  /\ UNCHANGED <<queueVars, valueVars, readerVars>>

\* endListener: a fake token empties the checkpoint stream, then the streams end.
End ==
  /\ request = "streaming" /\ sent = Total
  /\ request' = "done"
  /\ pipe' = Append(pipe, FlushChunk)
  /\ UNCHANGED <<highWater, sent, empties, breaks, inbox, gate, numPushFailed>>
  /\ UNCHANGED <<queueVars, valueVars, readerVars>>

\* A reader whose side takes the whole result: push() never says stop.
KeepsUp == highWater > Len(Rows)

\* The request fails; the intercepted 'error' schedules retry().
Break(fault) ==
  /\ request = "streaming" /\ breaks < MaxBreaks
  /\ fault = "retryable" => KeepsUp \/ RepeatPaused
  /\ request' = IF fault = "retryable" THEN "broken" ELSE "refused"
  /\ breaks' = breaks + 1
  /\ UNCHANGED <<highWater, sent, empties, pipe, inbox, gate, numPushFailed>>
  /\ UNCHANGED <<queueVars, valueVars, readerVars>>

---------------------------------------------------------------------------
(* The checkpoint stream                                                   *)

\* 'paused' stopped requestsStream and 'resumed' has not come; a stream
\* destroyed by _tryResume() never resumes it.
Paused == gate = "waiting" \/ numPushFailed = MaxResumeRetries

\* Mutant: maxQueued is ignored.
TokenReleases(c) == c.token

\* The chunks held back are passed on by a token, or when they are too many.
Releases(c) == c.token \/ Len(queue) >= MaxQueued

\* A chunk reaches the checkpoint stream.
Checkpoint ==
  /\ pipe # <<>> /\ ~Paused /\ request # "dead"
  /\ LET c == Head(pipe) held == Append(queue, c)
     IN  /\ tokenless' = IF c.token THEN 0 ELSE tokenless + 1
         /\ lastResumeToken' = IF c.token THEN c.to ELSE lastResumeToken
         /\ inbox' = IF Releases(c) THEN inbox \o held ELSE inbox
         /\ queue' = IF Releases(c) THEN <<>> ELSE held
  /\ pipe' = Tail(pipe)
  /\ UNCHANGED <<gate, numPushFailed, requestVars, valueVars, readerVars>>

---------------------------------------------------------------------------
(* Assembling rows                                                         *)

\* The chunk's values, the first joined with the pending one.
MergedValues(c) ==
  LET vs == Pieces(c.from, c.to)
  IN  IF pendingValue = <<>> THEN vs ELSE <<pendingValue \o Head(vs)>> \o Tail(vs)

\* Mutant: what is pending at a token is not cleared by a later token.
ForResumeKept(c, pend) == IF c.token /\ pend # <<>> THEN pend ELSE pendingForResume

\* _pendingValueForResume after chunk c leaves pend pending.
ForResume(c, pend) == IF c.token THEN pend ELSE pendingForResume

Push(rows) == out' = out \o rows

\* _addChunk(): push the rows the chunk completes, keep the rest.
AddChunk(c) ==
  LET vs   == MergedValues(c)
      cut  == c.to \notin ValueEnds
      pend == IF cut THEN vs[Len(vs)] ELSE <<>>
      done == values \o (IF cut THEN SubSeq(vs, 1, Len(vs) - 1) ELSE vs)
  IN  /\ pendingValue' = pend
      /\ pendingForResume' = ForResume(c, pend)
      /\ values' = SubSeq(done, RowsIn(done) * Width + 1, Len(done))
      /\ Push(Cut(done))

\* What push() may answer when so many rows are unread, TRUE for stop.  A probe
\* of _tryResume() is an element of the buffer too, until it is read: it may
\* fill what the rows have not filled.
Stops(unread) == IF unread >= highWater THEN {TRUE}
                 ELSE IF KeepsUp THEN {FALSE} ELSE BOOLEAN

\* _transform(), which does not call _addChunk() for a chunk without values.
Transform ==
  /\ inbox # <<>> /\ gate = "open"
  /\ LET c == Head(inbox)
     IN  /\ IF HasValues(c) THEN AddChunk(c) ELSE UNCHANGED <<valueVars, out>>
         /\ IF c.final \/ c.last
            THEN /\ gate' = "shut"
                 /\ outcome' = IF outcome = "open" THEN "ended" ELSE outcome
            ELSE /\ \E stop \in Stops(Len(out') - read) :
                      gate' = IF out' # out /\ stop THEN "waiting" ELSE "open"
                 /\ UNCHANGED outcome
  /\ inbox' = Tail(inbox)
  /\ UNCHANGED <<pipe, numPushFailed, read, requestVars, queueVars>>

\* The reader is still not ready: poll again, or end the stream with an error.
FailedPush ==
  /\ numPushFailed' = numPushFailed + 1
  /\ IF numPushFailed' = MaxResumeRetries
     THEN /\ gate' = "shut"
          /\ outcome' = IF outcome = "open" THEN "failed" ELSE outcome
     ELSE UNCHANGED <<gate, outcome>>

\* _tryResume(): push(undefined) is the probe.
TryResume ==
  /\ gate = "waiting"
  /\ \E stop \in Stops(Len(out) - read) :
       IF stop THEN FailedPush
               ELSE gate' = "open" /\ numPushFailed' = 0 /\ UNCHANGED outcome
  /\ UNCHANGED <<pipe, inbox, out, read, requestVars, queueVars, valueVars>>

\* The reader takes a row.
Read ==
  /\ read < Len(out)
  /\ read' = read + 1
  /\ UNCHANGED <<pipe, inbox, gate, numPushFailed, out, outcome>>
  /\ UNCHANGED <<requestVars, queueVars, valueVars>>

---------------------------------------------------------------------------
(* Retrying                                                                *)

\* setImmediate callbacks run when the streams have moved all they can.
Settled == /\ pipe = <<>> \/ Paused
           /\ inbox = <<>> \/ gate # "open"

\* Mutant: a retry is made however many chunks came without a token.
NeverTooMany == FALSE

TooManyQueued == tokenless > MaxQueued

\* retry(): decide whether to repeat the request.
Retry ==
  /\ Settled
  /\ \/ request = "broken" /\ ~TooManyQueued /\ request' = "remaking"
     \/ request = "broken" /\ (TooManyQueued \/ HasDeadline) /\ request' = "abandoned"
     \/ request = "refused" /\ request' = "abandoned"
  /\ UNCHANGED <<highWater, sent, empties, breaks, pipe, inbox, gate, numPushFailed>>
  /\ UNCHANGED <<queueVars, valueVars, readerVars>>

\* The checkpoint stream is reset and the request made again.
Remake ==
  /\ Settled /\ request = "remaking"
  /\ request' = "streaming"
  /\ queue' = <<>>
  /\ pendingValue' = IF lastResumeToken > 0 THEN pendingForResume ELSE pendingValue
  /\ MakeRequest
  /\ UNCHANGED <<highWater, empties, breaks, pipe, inbox, gate, numPushFailed>>
  /\ UNCHANGED <<lastResumeToken, tokenless, pendingForResume, values, readerVars>>

\* The checkpoint stream is destroyed: it passes on what it holds ...
Abandon ==
  /\ Settled /\ request = "abandoned"
  /\ request' = "dead"
  /\ inbox' = inbox \o queue
  /\ queue' = <<>>
  /\ UNCHANGED <<highWater, sent, empties, breaks, pipe, gate, numPushFailed>>
  /\ UNCHANGED <<lastResumeToken, tokenless, valueVars, readerVars>>

\* Mutant: nobody listens to the checkpoint stream's 'error'.
ReportUnheard == request = "dead" /\ UNCHANGED vars

\* ... and the reader is told of the error.
Report ==
  /\ request = "dead" /\ outcome = "open"
  /\ inbox = <<>> \/ gate # "open"
  /\ outcome' = "failed"
  /\ UNCHANGED <<pipe, inbox, gate, numPushFailed, out, read>>
  /\ UNCHANGED <<requestVars, queueVars, valueVars>>

---------------------------------------------------------------------------
Init ==
  /\ highWater \in HighWaters
  /\ request = "idle" /\ sent = 0 /\ empties = 0 /\ breaks = 0
  /\ pipe = <<>> /\ queue = <<>> /\ inbox = <<>>
  /\ lastResumeToken = 0 /\ tokenless = 0
  /\ pendingValue = <<>> /\ pendingForResume = <<>> /\ values = <<>>
  /\ gate = "open" /\ numPushFailed = 0
  /\ out = <<>> /\ read = 0 /\ outcome = "open"

Serve == \/ \E n \in 0..MaxChunk, token, last \in BOOLEAN : Send(n, token, last)
         \/ End
         \/ \E fault \in Faults : Break(fault)

Next == \/ Start \/ Serve \/ Checkpoint \/ Transform \/ TryResume \/ Read
        \/ Retry \/ Remake \/ Abandon \/ Report

Spec == Init /\ [][Next]_vars

\* The server answers or the request fails; streams flow, timers fire and
\* setImmediate callbacks run.  Nothing makes the reader read.
FairSpec ==
  /\ Spec
  /\ WF_vars(Serve) /\ WF_vars(Checkpoint) /\ WF_vars(Transform) /\ WF_vars(TryResume)
  /\ WF_vars(Retry) /\ WF_vars(Remake) /\ WF_vars(Abandon) /\ WF_vars(Report)

---------------------------------------------------------------------------
(* Properties                                                              *)

\* A chunk carries the fragments from..to, or none.
Chunks == {c \in [from : 1..Total + 1, to : 0..Total, token : BOOLEAN, last : BOOLEAN,
                  final : BOOLEAN] : c.from <= c.to + 1}

\* Every variable stays in the set its code counterpart ranges over.
TypeOK ==
  /\ highWater \in HighWaters
  /\ request \in {"idle", "streaming", "done", "broken", "refused", "remaking",
                  "abandoned", "dead"}
  /\ sent \in 0..Total /\ lastResumeToken \in 0..Total
  /\ breaks \in 0..MaxBreaks /\ empties \in 0..MaxEmpties /\ tokenless \in Nat
  /\ pipe \in Seq(Chunks) /\ queue \in Seq(Chunks) /\ inbox \in Seq(Chunks)
  /\ Len(queue) <= MaxQueued
  /\ gate \in {"open", "waiting", "shut"}
  /\ pendingValue \in Seq(1..Total) /\ pendingForResume \in Seq(1..Total)
  /\ values \in Seq(Seq(1..Total)) /\ Len(values) < Width
  /\ numPushFailed \in 0..MaxResumeRetries
  /\ out \in Seq(Seq(Seq(1..Total))) /\ read \in 0..Len(out)
  /\ outcome \in {"open", "ended", "failed"}

\* To its reader the stream is a RowStream: over breaks and repeated requests
\* each row comes once, whole and in order, and the end only after the last of
\* them.  It takes BareTokens and RepeatPaused that do no harm: see RowsProper
\* and NothingTwice.
Reader == INSTANCE RowStream WITH seen <- out
RefinesRowStream == Reader!RowSpec

\* A repeated request finds the half-received value and row exactly as they
\* were at the token it resumes from, under the same conditions.
ResumesWhereItStopped ==
  [][Remake => /\ pendingValue' = Half(lastResumeToken)
               /\ Len(values) = (ValueOf(lastResumeToken + 1) - 1) % Width]_vars

\* A stream that was started ends or fails, even if its reader stops reading.
Settles == (request # "idle") ~> (outcome # "open")

\* "a stream that will properly assemble these rows, as well as retry after an
\* error" (partial-result-stream.ts:478): each row emitted is the result's.
RowsProper == \A r \in 1..Len(out) : r <= Len(Rows) /\ out[r] = Rows[r]

\* "it's unsafe for the query to be retried, as we wouldn't want to emit the
\* same data multiple times" (partial-result-stream.ts:481): the rows emitted
\* are the first rows of the result.
NothingTwice == Len(out) <= Len(Rows) /\ out = SubSeq(Rows, 1, Len(out))
===========================================================================

---------------------------- MODULE Transaction ----------------------------
(***************************************************************************)
(* A read/write Transaction of src/src/transaction.ts, its requests in     *)
(* flight, and what the backend does with them.                            *)
(*                                                                         *)
(* The first stream begins the transaction as it runs ("inline begin");    *)
(* the streams opened before its answer wait for the id.  batchUpdate()    *)
(* never waits.  The user opens calls in any order and at any time until   *)
(* he commits, rolls back or ends, and commits when his calls are done.    *)
(* A response may overtake another: each is executed, then answered.       *)
(***************************************************************************)
EXTENDS Integers, FiniteSets

CONSTANTS
  Streams,    \* the user's read(), run() and runStream() calls
  Batches,    \* the user's batchUpdate() calls
  Overlap,    \* may batchUpdate() run while another call begins the transaction?
  MaxBreaks,  \* bound: requests of streams that break and are made again
  MaxAsks     \* bound: times the backend asks for the commit to be repeated

ASSUME CallAssumption == /\ Streams \cap Batches = {}
                         /\ Overlap \in BOOLEAN
                         /\ MaxBreaks \in Nat /\ MaxAsks \in Nat

Calls == Streams \cup Batches
None  == 0     \* no transaction id, no token

VARIABLES
  inRunner,   \* _useInRunner
  id,         \* id: the backend's transaction this object stands for, or None
  begun,      \* _inlineBeginStarted
  token,      \* _latestPreCommitToken: its seqNum, or None
  ended,      \* ended
  phase,      \* phase[c]: where call c is; "waiting" is _waitingRequests
  direct,     \* direct[r]: _wrapWithIdWaiter() returned makeRequest itself
  selector,   \* selector[c]: the id call c was sent with; None: it begins one
  ranIn,      \* ranIn[c]: the transaction the backend ran it in, None: not yet
  reply,      \* reply[c]: the token in the backend's answer, or None
  beginning,  \* who waits for a BeginTransaction: "user", "stream", "commit"
  commit,     \* "none", "beginning", "sent", "ok", "failed"
  carried,    \* the token the Commit in flight carries
  target,     \* the id it carries; None: a single-use transaction
  retried,    \* _retryCommit
  rollback,   \* "none", "sent", "done"
  started,    \* backend: how many transactions it has begun
  issued,     \* backend: how many tokens it has issued
  committed,  \* backend: the transaction it committed, or None
  heard,      \* history: the tokens received
  hopeless,   \* history: the beginning failed and nobody will begin again
  breaks, asks

txVars      == <<id, begun, token, ended>>
callVars    == <<phase, direct, selector, ranIn, reply>>
commitVars  == <<commit, carried, target, retried, rollback>>
backendVars == <<started, issued, committed>>
countVars   == <<inRunner, breaks, asks>>
vars == <<txVars, callVars, beginning, commitVars, backendVars, heard, hopeless, countVars>>

InFlight(c) == phase[c] \in {"sent", "flowing"}
Busy(c)     == phase[c] \in {"waiting", "sent", "flowing", "broken"}
Done        == \A c \in Calls : ~Busy(c)

\* Nothing is under way that could bring an id.
Quiet == Done /\ beginning = {}

\* The user has not finished with the transaction.
Open == commit = "none" /\ rollback = "none" /\ ~ended

---------------------------------------------------------------------------
(* What requests do to the transaction                                     *)

\* Mutant: whatever token came last wins.
LastToken(t) == token' = t

\* Mutant: a response without a token leaves 'undefined' behind.
TokenUndefined(t) == token' = IF t = None THEN -1 ELSE t

\* _updatePrecommitToken()
UpdatePrecommitToken(t) == token' = IF token < t THEN t ELSE token

Hear(t) == /\ UpdatePrecommitToken(t)
           /\ heard' = IF t = None THEN heard ELSE heard \cup {t}

\* The calls S go to the backend with the transaction's id, if it has one.
Send(S, with, ph) ==
  /\ phase'    = [c \in Calls |-> IF c \in S THEN "sent" ELSE ph[c]]
  /\ selector' = [c \in Calls |-> IF c \in S THEN with ELSE selector[c]]

\* What the backend did for call c is of no more interest.
Forget(c, to) == /\ phase' = [phase EXCEPT ![c] = to]
                 /\ selector' = [selector EXCEPT ![c] = None]
                 /\ ranIn' = [ranIn EXCEPT ![c] = None]
                 /\ reply' = [reply EXCEPT ![c] = None]
                 /\ UNCHANGED direct

Waiting == {r \in Streams : phase[r] = "waiting"}

\* _update(): the id is known, _releaseWaitingRequests().
Update(t, ph) == id' = t /\ Send(Waiting, t, ph)

---------------------------------------------------------------------------
(* The user's calls                                                        *)

\* Mutant: the lock is not taken.
WrapFree(r) == /\ direct' = [direct EXCEPT ![r] = id # None \/ ~begun]
               /\ begun' = begun

\* _wrapWithIdWaiter(): does stream r wait for an id that another brings?
WrapWithIdWaiter(r) == /\ direct' = [direct EXCEPT ![r] = id # None \/ ~begun]
                       /\ begun' = (begun \/ id = None)

\* createReadStream() and runStream(): the stream exists, nobody reads it yet.
OpenStream(r) ==
  /\ Open /\ phase[r] = "idle"
  /\ phase' = [phase EXCEPT ![r] = "open"]
  /\ WrapWithIdWaiter(r)
  /\ UNCHANGED <<id, token, ended, selector, ranIn, reply, beginning>>
  /\ UNCHANGED <<commitVars, backendVars, heard, hopeless, countVars>>

\* The function _wrapWithIdWaiter() returned is called: send, or queue.
MakeRequest(r) == \/ direct[r] /\ Send({r}, id, phase)
                  \/ /\ ~direct[r]
                     /\ phase' = [phase EXCEPT ![r] = "waiting"]
                     /\ UNCHANGED selector

RequestFrame == /\ UNCHANGED <<direct, ranIn, reply, txVars, beginning, commitVars, backendVars>>
                /\ UNCHANGED <<heard, hopeless, countVars>>

\* The user starts to read: 'reading' makes the request.
ReadStream(r) ==
  /\ Open /\ phase[r] = "open"
  /\ "user" \notin beginning
  /\ Overlap \/ id # None \/ \A b \in Batches : ~Busy(b)
  /\ MakeRequest(r)
  /\ RequestFrame

\* partialResultStream repeats a request that broke.
Repeat(r) == phase[r] = "broken" /\ MakeRequest(r) /\ RequestFrame

\* batchUpdate(): sent at once, with the id or with a begin of its own.
BatchUpdate(b) ==
  /\ Open /\ phase[b] = "idle"
  /\ "user" \notin beginning
  /\ Overlap \/ id # None \/ Quiet
  /\ Send({b}, id, phase)
  /\ RequestFrame

\* begin(), called by the user (or by a retrying runner) before anything else.
Begin ==
  /\ Open /\ id = None /\ beginning = {}
  /\ \A c \in Calls : phase[c] = "idle"
  /\ beginning' = {"user"}
  /\ UNCHANGED <<txVars, callVars, commitVars, backendVars, heard, hopeless, countVars>>

---------------------------------------------------------------------------
(* The backend and the answers                                             *)

\* The backend runs a statement; its answer may carry a precommit token.
Execute(c, withToken) ==
  /\ phase[c] = "sent" /\ ranIn[c] = None
  /\ started' = IF selector[c] = None THEN started + 1 ELSE started
  /\ ranIn' = [ranIn EXCEPT ![c] = IF selector[c] = None THEN started + 1 ELSE selector[c]]
  /\ issued' = IF withToken THEN issued + 1 ELSE issued
  /\ reply' = [reply EXCEPT ![c] = IF withToken THEN issued + 1 ELSE None]
  /\ UNCHANGED <<txVars, phase, direct, selector, beginning, commitVars, committed>>
  /\ UNCHANGED <<heard, hopeless, countVars>>

\* Mutant: the answer to an inline begin is not looked at.
RespondDeaf(c) ==
  /\ Hear(reply[c])
  /\ phase' = [phase EXCEPT ![c] = IF c \in Streams THEN "flowing" ELSE "ok"]
  /\ UNCHANGED <<id, selector>>

\* 'response' of a stream, the callback of batchUpdate().
TakeResponse(c) ==
  LET ph == [phase EXCEPT ![c] = IF c \in Streams THEN "flowing" ELSE "ok"]
  IN  /\ Hear(reply[c])
      /\ IF id = None /\ selector[c] = None
         THEN Update(ranIn[c], ph)
         ELSE phase' = ph /\ UNCHANGED <<id, selector>>

Respond(c) ==
  /\ phase[c] = "sent" /\ ranIn[c] # None
  /\ TakeResponse(c)
  /\ reply' = [reply EXCEPT ![c] = None]
  /\ UNCHANGED <<direct, ranIn, begun, ended, beginning, commitVars, backendVars, hopeless, countVars>>

\* The stream has been read to its end.
Complete(r) ==
  /\ phase[r] = "flowing"
  /\ phase' = [phase EXCEPT ![r] = "ok"]
  /\ UNCHANGED selector
  /\ RequestFrame

\* The request breaks in a way partialResultStream repeats it after.
Break(r) ==
  /\ InFlight(r) /\ breaks < MaxBreaks
  /\ Forget(r, "broken")
  /\ breaks' = breaks + 1
  /\ UNCHANGED <<txVars, beginning, commitVars>>
  /\ UNCHANGED <<backendVars, heard, hopeless, inRunner, asks>>

\* Mutant: the stream that failed to begin the transaction leaves it at that.
NoRescue(aborted) == UNCHANGED beginning

\* The 'error' listener of a stream: begin the transaction the failed stream
\* did not begin, for those that wait.
Rescue(aborted) ==
  beginning' = IF id = None /\ inRunner /\ ~aborted
               THEN beginning \cup {"stream"} ELSE beginning

\* A call fails for good.
Fail(c, aborted) ==
  /\ InFlight(c)
  /\ Forget(c, "failed")
  /\ IF c \in Streams THEN Rescue(aborted) ELSE UNCHANGED beginning
  /\ hopeless' = (hopeless \/ (c \in Streams /\ id = None /\ (aborted \/ ~inRunner)))
  /\ UNCHANGED <<txVars, commitVars, backendVars, heard, countVars>>

---------------------------------------------------------------------------
(* Commit, rollback, end                                                   *)

\* The Commit request: what commit() read of the transaction as it ran.
SendCommit(t) == commit' = "sent" /\ target' = t /\ carried' = token'

\* commit() on a transaction whose calls are done.
Commit ==
  /\ Open /\ Done /\ "user" \notin beginning
  /\ \/ /\ id # None \/ ~inRunner
        /\ UNCHANGED token
        /\ SendCommit(id)
        /\ UNCHANGED beginning
     \/ /\ id = None /\ inRunner
        /\ commit' = "beginning"
        /\ beginning' = beginning \cup {"commit"}
        /\ UNCHANGED <<token, carried, target>>
  /\ UNCHANGED <<id, begun, ended, callVars, retried, rollback, backendVars>>
  /\ UNCHANGED <<heard, hopeless, countVars>>

\* Mutant: commit() does not go on when its begin() has succeeded.
CommitForgotten(who, t) == UNCHANGED <<commit, target, carried>>

\* commit() is called again when its begin() has succeeded.
AfterBegin(who, t) ==
  IF who = "commit" THEN SendCommit(t) ELSE UNCHANGED <<commit, target, carried>>

\* begin() succeeds: the new id replaces whatever there was.
BeginOk(who, t) ==
  /\ who \in beginning /\ t \in {None, issued + 1}
  /\ beginning' = beginning \ {who}
  /\ started' = started + 1
  /\ issued' = IF t = None THEN issued ELSE t
  /\ Hear(t)
  /\ Update(started + 1, phase)
  /\ UNCHANGED <<direct, ranIn, reply>>
  /\ AfterBegin(who, started + 1)
  /\ UNCHANGED <<begun, ended, retried, rollback, committed, hopeless, countVars>>

\* begin() fails: commit() reports it and does not call end().
BeginFail(who) ==
  /\ who \in beginning
  /\ beginning' = beginning \ {who}
  /\ hopeless' = TRUE
  /\ commit' = IF who = "commit" THEN "failed" ELSE commit
  /\ UNCHANGED <<txVars, callVars, carried, target, retried, rollback, backendVars>>
  /\ UNCHANGED <<heard, countVars>>

\* The transaction is over: end().
CommitDone(how) == /\ commit' = how
                   /\ ended' = TRUE
                   /\ UNCHANGED <<carried, target, retried, token, heard>>

\* 'MultiplexedSessionRetry': repeat the commit with the token, but once only.
AskedAgain ==
  \/ /\ ~retried
     /\ retried' = TRUE
     /\ Hear(issued')
     /\ SendCommit(id)
     /\ UNCHANGED ended
  \/ retried /\ CommitDone("ok")

CommitAsked ==
  /\ commit = "sent" /\ asks < MaxAsks
  /\ asks' = asks + 1
  /\ issued' = issued + 1
  /\ AskedAgain
  /\ UNCHANGED <<id, begun, callVars, beginning, rollback, started, committed>>
  /\ UNCHANGED <<hopeless, inRunner, breaks>>

\* The backend commits, the transaction it was told or one for the purpose.
CommitOk ==
  /\ commit = "sent"
  /\ committed' = IF target = None THEN started + 1 ELSE target
  /\ started' = IF target = None THEN started + 1 ELSE started
  /\ CommitDone("ok")
  /\ UNCHANGED <<id, begun, callVars, beginning, rollback, issued, hopeless, countVars>>

CommitFail ==
  /\ commit = "sent"
  /\ CommitDone("failed")
  /\ UNCHANGED <<id, begun, callVars, beginning, rollback, backendVars, hopeless, countVars>>

\* rollback(): nothing to do, and no end(), for a transaction without an id.
Rollback ==
  /\ Open /\ Done /\ "user" \notin beginning
  /\ rollback' = IF id = None THEN "done" ELSE "sent"
  /\ UNCHANGED <<txVars, callVars, beginning, commit, carried, target, retried>>
  /\ UNCHANGED <<backendVars, heard, hopeless, countVars>>

\* The answer, an error or not.
RollbackDone ==
  /\ rollback = "sent"
  /\ rollback' = "done"
  /\ ended' = TRUE
  /\ UNCHANGED <<id, begun, token, callVars, beginning, commit, carried, target, retried>>
  /\ UNCHANGED <<backendVars, heard, hopeless, countVars>>

\* end(), called by the user.
End ==
  /\ Open /\ Done
  /\ ended' = TRUE
  /\ UNCHANGED <<id, begun, token, callVars, beginning, commitVars, backendVars>>
  /\ UNCHANGED <<heard, hopeless, countVars>>

---------------------------------------------------------------------------
Init ==
  /\ inRunner \in BOOLEAN
  /\ id = None /\ begun = FALSE /\ token = None /\ ended = FALSE
  /\ phase = [c \in Calls |-> "idle"] /\ direct = [c \in Calls |-> TRUE]
  /\ selector = [c \in Calls |-> None] /\ ranIn = [c \in Calls |-> None]
  /\ reply = [c \in Calls |-> None]
  /\ beginning = {} /\ heard = {} /\ hopeless = FALSE
  /\ commit = "none" /\ carried = None /\ target = None /\ retried = FALSE
  /\ rollback = "none"
  /\ started = 0 /\ issued = 0 /\ committed = None
  /\ breaks = 0 /\ asks = 0

User == \/ \E r \in Streams : OpenStream(r) \/ ReadStream(r)
        \/ \E b \in Batches : BatchUpdate(b)
        \/ Begin \/ Commit \/ Rollback \/ End

Answer(c) == \/ \E withToken \in BOOLEAN : Execute(c, withToken)
             \/ Respond(c)
             \/ \E aborted \in BOOLEAN : Fail(c, aborted)

BeginAnswer(who) == \/ \E t \in {None, issued + 1} : BeginOk(who, t)
                    \/ BeginFail(who)

CommitAnswer == CommitAsked \/ CommitOk \/ CommitFail

Next == \/ User
        \/ \E c \in Calls : Answer(c)
        \/ \E r \in Streams : Complete(r) \/ Break(r) \/ Repeat(r)
        \/ \E who \in {"user", "stream", "commit"} : BeginAnswer(who)
        \/ CommitAnswer \/ RollbackDone

Spec == Init /\ [][Next]_vars

\* Every RPC is answered or fails, and broken requests are repeated.  Nothing
\* makes the user call, read or finish.
FairSpec ==
  /\ Spec
  /\ \A c \in Calls : WF_vars(Answer(c))
  /\ \A r \in Streams : WF_vars(Repeat(r))
  /\ \A who \in {"user", "stream", "commit"} : WF_vars(BeginAnswer(who))
  /\ WF_vars(CommitAnswer) /\ WF_vars(RollbackDone)

---------------------------------------------------------------------------
(* Properties                                                              *)

\* Every variable stays in the set its code counterpart ranges over.
TypeOK ==
  /\ inRunner \in BOOLEAN /\ begun \in BOOLEAN /\ ended \in BOOLEAN
  /\ retried \in BOOLEAN /\ hopeless \in BOOLEAN
  /\ id \in Nat /\ token \in Nat /\ carried \in Nat /\ target \in Nat
  /\ started \in Nat /\ issued \in Nat /\ committed \in Nat
  /\ breaks \in 0..MaxBreaks /\ asks \in 0..MaxAsks
  /\ phase \in [Calls -> {"idle", "open", "waiting", "sent", "flowing", "broken",
                          "ok", "failed"}]
  /\ direct \in [Calls -> BOOLEAN] /\ selector \in [Calls -> Nat]
  /\ ranIn \in [Calls -> Nat] /\ reply \in [Calls -> Nat]
  /\ beginning \subseteq {"user", "stream", "commit"}
  /\ heard \subseteq Nat
  /\ commit \in {"none", "beginning", "sent", "ok", "failed"}
  /\ rollback \in {"none", "sent", "done"}

Begins(c) == phase[c] = "sent" /\ selector[c] = None

\* "make sure the inline begin transaction can happen only once"
\* (transaction.ts:1805): at most one request in flight begins a transaction,
\* however many streams are opened at once, break and are repeated.
BeginsOnce == \A c, d \in Calls : Begins(c) /\ Begins(d) => c = d

\* When commit() reports success, the transaction the backend committed is
\* the one every statement reported as done ran in: no update is lost.
NothingLost ==
  commit = "ok" => /\ committed # None
                   /\ \A c \in Calls : phase[c] = "ok" => ranIn[c] = committed

\* Every Commit request carries the newest of the tokens received so far,
\* whatever the order of the responses that brought them.
SendsNewest ==
  [][commit' = "sent" /\ (commit # "sent" \/ retried # retried') =>
       /\ carried' \in heard' \cup {None}
       /\ \A t \in heard' : t <= carried']_vars

\* Streams that wait for the id get it, unless the beginning was aborted or
\* failed, or the user never reads the stream that is to begin.
Unanswered == id = None /\ Waiting # {}
IdArrives ==
  Unanswered ~> \/ ~Unanswered \/ hopeless
                \/ \E r \in Streams : phase[r] = "open" /\ direct[r]

\* commit() calls back, also when the backend asks for it to be repeated.
CommitAnswered == (commit # "none") ~> (commit \in {"ok", "failed"})

\* The stream should "retry after an error" (partial-result-stream.ts:479):
\* a request that waits while the id is known is sent.
QueueServed ==
  \A r \in Streams : (phase[r] = "waiting" /\ id # None) ~> phase[r] # "waiting"
=============================================================================

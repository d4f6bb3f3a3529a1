------------------------- MODULE TransactionRunner -------------------------
(***************************************************************************)
(* The retry loop of src/src/transaction-runner.ts around a user function, *)
(* with the requests the function has in flight.                           *)
(*                                                                         *)
(* Attempt n runs the function on transaction n.  In callback mode the     *)
(* runner intercepts the errors that call for a new attempt, and the old   *)
(* function never hears of them: it stays behind, its other requests in    *)
(* flight.  In promise mode the function rejects.  The user's function     *)
(* goes on when all it asked for has called back, does not catch the error *)
(* of a commit, and ends by commit(), by end() or by rollback() with an id.*)
(*                                                                         *)
(* The transaction of the first attempt is begun by its first request, or, *)
(* if none was answered, by commit() itself.  Should that begin fail, the  *)
(* callback of commit() has the error and the transaction never ends.      *)
(*                                                                         *)
(* Left out is the begin() a stream's error sets off when there is no id   *)
(* yet (transaction.ts:952, 1572): nobody awaits it, and it is taken to    *)
(* succeed, or to fail with an error that is not intercepted.              *)
(***************************************************************************)
EXTENDS Integers, FiniteSets

CONSTANTS
  Requests,   \* the requests a function makes before it commits
  MaxFaults   \* bound: errors that are followed by another attempt

ASSUME FaultAssumption == MaxFaults \in Nat

Attempts == 1..(MaxFaults + 1)

\* What a request may fail with: "internal" stands for the internal errors
\* isRetryableInternalError() knows, "fatal" for all that is not retried.
Errors == {"aborted", "internal", "notFound", "fatal"}

VARIABLES
  callback,  \* TransactionRunner, else AsyncTransactionRunner
  loop,      \* where run() is
  attempts,  \* attempts: how many have failed
  fn,        \* fn[n]: the user function of attempt n; "starting": commit() begins the
             \* transaction; "unended": over, with a transaction that did not end
  req,       \* req[n][q]: a request of attempt n, or how it called back
  tx,        \* backend: what became of transaction n
  verdict,   \* the promise of _run(): "pending", "ok" or the error
  lost       \* history: commits that were made and reported as failed

vars == <<callback, loop, attempts, fn, req, tx, verdict, lost>>

Current == attempts + 1

ShouldRetry(e) == e \in {"aborted", "internal", "notFound"}

Settled == loop \in {"returned", "threw"}

\* A failed commit or statement the backend has ended the transaction for.
After(n, e) == IF e = "aborted" THEN [tx EXCEPT ![n] = "aborted"] ELSE tx

---------------------------------------------------------------------------
(* run()                                                                   *)

\* Mutant: a new attempt is given the promise of the last one.
GetTransactionKept ==
  /\ loop = "getting"
  /\ IF attempts = 0
     THEN loop' = "running" /\ fn' = [fn EXCEPT ![Current] = "running"]
     ELSE loop' = "beginning" /\ UNCHANGED fn
  /\ UNCHANGED <<callback, attempts, req, tx, verdict, lost>>

\* getTransaction(): the first attempt has its transaction, later ones begin.
GetTransaction ==
  /\ loop = "getting"
  /\ IF attempts = 0
     THEN loop' = "running" /\ fn' = [fn EXCEPT ![Current] = "running"]
     ELSE loop' = "beginning" /\ UNCHANGED fn
  /\ verdict' = "pending"
  /\ UNCHANGED <<callback, attempts, req, tx, lost>>

BeginOk ==
  /\ loop = "beginning"
  /\ loop' = "running"
  /\ fn' = [fn EXCEPT ![Current] = "running"]
  /\ UNCHANGED <<callback, attempts, req, tx, verdict, lost>>

\* begin() runs outside the try block: any error of it ends the loop.
BeginFail ==
  /\ loop = "beginning"
  /\ loop' = "threw"
  /\ UNCHANGED <<callback, attempts, fn, req, tx, verdict, lost>>

Retryable(e) == e \in {"aborted", "internal"}

\* The catch block: another attempt after a delay, or the error is thrown.
Catch ==
  /\ attempts' = IF Retryable(verdict) THEN attempts + 1 ELSE attempts
  /\ loop' = IF Retryable(verdict) THEN "waiting" ELSE "threw"

\* _run() has settled.
Settle ==
  /\ loop = "running" /\ verdict # "pending"
  /\ \/ verdict = "ok" /\ loop' = "returned" /\ UNCHANGED attempts
     \/ verdict # "ok" /\ Catch
  /\ UNCHANGED <<callback, fn, req, tx, verdict, lost>>

\* The delay is over: the next attempt or, if the timeout has passed by now,
\* a DeadlineError.
Wake ==
  /\ loop = "waiting"
  /\ loop' \in {"getting", "threw"}
  /\ UNCHANGED <<callback, attempts, fn, req, tx, verdict, lost>>

---------------------------------------------------------------------------
(* The user function and what it asks for                                  *)

\* The promise of _run() settles once, for the attempt it belongs to.
Conclude(n, how) ==
  verdict' = IF n = Current /\ loop = "running" /\ verdict = "pending" THEN how ELSE verdict

\* Mutant: the intercepted error is passed on as well.
InterceptDeaf(e) == FALSE

\* _interceptErrors(): is the error kept from the function?
Intercept(e) == callback /\ ShouldRetry(e)

Free(n) == /\ fn[n] = "running"
           /\ \A q \in Requests : req[n][q] \notin {"sent", "cut"}

Issue(n, q) ==
  /\ fn[n] = "running" /\ req[n][q] = "idle"
  /\ req' = [req EXCEPT ![n][q] = "sent"]
  /\ UNCHANGED <<callback, loop, attempts, fn, tx, verdict, lost>>

\* A fault that leads to another attempt is one of at most MaxFaults.
Bounded(e) == Retryable(e) => attempts < MaxFaults

\* Mutant: the function is cut off and nobody is told.
CutSilently(n, q, e) == /\ req' = [req EXCEPT ![n][q] = IF Intercept(e) THEN "cut" ELSE e]
                        /\ UNCHANGED verdict

\* A request calls back, or its error rejects _run() instead.
CallBack(n, q, e) ==
  /\ req' = [req EXCEPT ![n][q] = IF Intercept(e) THEN "cut" ELSE e]
  /\ IF callback /\ ShouldRetry(e) THEN Conclude(n, e) ELSE UNCHANGED verdict

\* An answer to a function that is over interests nobody and is left out.
Answer(n, q, e) ==
  /\ fn[n] = "running" /\ req[n][q] = "sent" /\ Bounded(e)
  /\ e = "ok" => tx[n] = "active"
  /\ tx' = After(n, e)
  /\ CallBack(n, q, e)
  /\ UNCHANGED <<callback, loop, attempts, fn, lost>>

\* Promise mode: the function rejects with the error of one of its requests.
Throw(n, q) ==
  /\ ~callback /\ fn[n] = "running" /\ req[n][q] \in Errors
  /\ fn' = [fn EXCEPT ![n] = "over"]
  /\ Conclude(n, req[n][q])
  /\ UNCHANGED <<callback, loop, attempts, req, tx, lost>>

\* The id of a transaction: a retry has begun its own, an answer brought one,
\* or the begin() with which a stream answers an error that does not abort.
MayHaveId(n) == n > 1 \/ \E q \in Requests : req[n][q] \notin {"idle", "aborted"}
MayLackId(n) == n = 1 /\ \A q \in Requests : req[n][q] # "ok"

\* The function commits, whether or not it caught an error of a request.
Commit(n) ==
  /\ Free(n)
  /\ \/ MayHaveId(n) /\ fn' = [fn EXCEPT ![n] = "committing"]
     \/ MayLackId(n) /\ fn' = [fn EXCEPT ![n] = "starting"]
  /\ UNCHANGED <<callback, loop, attempts, req, tx, verdict, lost>>

\* commit() has begun a transaction, whatever became of one before.
CommitBegun(n) ==
  /\ fn[n] = "starting"
  /\ fn' = [fn EXCEPT ![n] = "committing"]
  /\ tx' = [tx EXCEPT ![n] = "active"]
  /\ UNCHANGED <<callback, loop, attempts, req, verdict, lost>>

\* Its begin() fails.  An error that is not intercepted goes to the callback
\* of commit(), and end(), which _run() waits for, is not called.
CommitUnbegun(n, e) ==
  /\ fn[n] = "starting" /\ Bounded(e)
  /\ IF callback /\ ~Intercept(e)
     THEN fn' = [fn EXCEPT ![n] = "unended"] /\ UNCHANGED verdict
     ELSE fn' = [fn EXCEPT ![n] = "over"] /\ Conclude(n, e)
  /\ UNCHANGED <<callback, loop, attempts, req, tx, lost>>

\* The backend commits, and the answer arrives or is lost.
Committed(n, e) ==
  /\ fn[n] = "committing" /\ tx[n] = "active"
  /\ e \in {"ok", "internal"} /\ Bounded(e)
  /\ tx' = [tx EXCEPT ![n] = "committed"]
  /\ lost' = IF e = "internal" THEN lost + 1 ELSE lost
  /\ fn' = [fn EXCEPT ![n] = "over"]
  /\ Conclude(n, e)
  /\ UNCHANGED <<callback, loop, attempts, req>>

\* The backend does not commit.  In callback mode an error that is not
\* intercepted goes to the callback and the transaction ends: _run() resolves.
CommitFail(n, e) ==
  /\ fn[n] = "committing" /\ Bounded(e)
  /\ tx' = After(n, e)
  /\ fn' = [fn EXCEPT ![n] = "over"]
  /\ Conclude(n, IF callback /\ ~Intercept(e) THEN "ok" ELSE e)
  /\ UNCHANGED <<callback, loop, attempts, req, lost>>

\* rollback() or end(): the function is done with the transaction.
Finish(n) ==
  /\ Free(n)
  /\ fn' = [fn EXCEPT ![n] = "over"]
  /\ Conclude(n, "ok")
  /\ UNCHANGED <<callback, loop, attempts, req, tx, lost>>

---------------------------------------------------------------------------
Init ==
  /\ callback \in BOOLEAN
  /\ loop = "getting" /\ attempts = 0
  /\ fn = [n \in Attempts |-> "none"]
  /\ req = [n \in Attempts |-> [q \in Requests |-> "idle"]]
  /\ tx = [n \in Attempts |-> "active"]
  /\ verdict = "pending" /\ lost = 0

Run == GetTransaction \/ BeginOk \/ BeginFail \/ Settle \/ Wake

Reply(n) == \/ \E q \in Requests, e \in Errors \cup {"ok"} : Answer(n, q, e)
            \/ \E e \in Errors \cup {"ok"} : Committed(n, e)
            \/ \E e \in Errors : CommitFail(n, e) \/ CommitUnbegun(n, e)
            \/ CommitBegun(n)

Function(n) == \/ \E q \in Requests : Issue(n, q) \/ Throw(n, q)
               \/ Commit(n) \/ Finish(n)

Next == Run \/ \E n \in Attempts : Reply(n) \/ Function(n)

Spec == Init /\ [][Next]_vars

\* Timers fire, requests are answered, and the function, which has only so
\* much to ask for, comes to an end.
FairSpec == /\ Spec
            /\ WF_vars(Run)
            /\ \A n \in Attempts : WF_vars(Reply(n)) /\ WF_vars(Function(n))

---------------------------------------------------------------------------
(* Properties                                                              *)

\* Every variable stays in the set its code counterpart ranges over.
TypeOK ==
  /\ callback \in BOOLEAN
  /\ loop \in {"getting", "beginning", "running", "waiting", "returned", "threw"}
  /\ attempts \in 0..MaxFaults /\ lost \in Nat
  /\ fn \in [Attempts -> {"none", "running", "starting", "committing", "over", "unended"}]
  /\ req \in [Attempts -> [Requests -> {"idle", "sent", "ok", "cut"} \cup Errors]]
  /\ tx \in [Attempts -> {"active", "aborted", "committed"}]
  /\ verdict \in {"pending", "ok"} \cup Errors

Applied == {n \in Attempts : tx[n] = "committed"}

\* "stop the current function execution" (transaction-runner.ts:298): once
\* the runner has moved on from an attempt, its function commits no more,
\* though its requests are still being answered.
StaleNeverCommits == [][\A n \in Attempts : n \in Applied' \ Applied => n = Current]_vars

\* The function takes effect once, and once more at most for every commit
\* whose answer was lost: nothing else makes the runner repeat what was done.
AppliedOnce == Cardinality(Applied) <= 1 + lost

\* When run() fails, by an error or the deadline, nothing was committed, or
\* the answer of the commit was lost.
FailedMeansNothing == loop = "threw" /\ lost = 0 => Applied = {}

\* The function of the first attempt, in callback mode, asked for nothing that
\* was answered, and the begin() of its commit() failed.
Unended == callback /\ fn[1] = "unended" /\ \A q \in Requests : req[1][q] # "ok"

\* run() settles, though a function cut off never hears of its request: the
\* one thing that leaves it waiting is a first commit() that could not begin.
RunSettles == <>(Settled \/ Unended)
=============================================================================

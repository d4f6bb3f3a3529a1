----------------------------- MODULE SessionUse -----------------------------
(***************************************************************************)
(* What the operations of src/src/database.ts do with the sessions that    *)
(* SessionFactory gives them: take one, begin or send a request on it,     *)
(* retry on another when the backend has lost it, and give it back, either *)
(* directly or by the 'end' event of a transaction (_releaseOnEnd()).      *)
(*                                                                         *)
(* The pool is reduced to what SessionLease promises: sessions that are    *)
(* free, lent to one caller at a time.  Multiplexed sessions are one       *)
(* session, shared by all and never released.  Each call is one user's     *)
(* use of one operation; the table of what an operation does is Listens,   *)
(* Begins, Restarts, Registers and Releases below.                         *)
(***************************************************************************)
EXTENDS Integers, FiniteSets

CONSTANTS
  Calls,      \* users' calls of operations
  Sessions,   \* the regular sessions of the pool
  Shared,     \* the multiplexed session
  None,       \* no session
  Ops,        \* the operations called
  MaxLosses   \* bound: sessions the backend loses

\* The operations of Database; "request" and "requestStream" stand for
\* makePooledRequest_() and makePooledStreamingRequest_(), "runTransaction"
\* for both forms of it, in which a TransactionRunner runs.
AllOps == {"getSnapshot", "getTransaction", "createBatchTransaction", "runStream",
           "runPartitionedUpdate", "batchWriteAtLeastOnce", "writeAtLeastOnce",
           "request", "requestStream", "runTransaction"}

ASSUME UseAssumption == /\ Shared \notin Sessions /\ None \notin Sessions \cup {Shared}
                        /\ Ops \subseteq AllOps /\ MaxLosses \in Nat

VARIABLES
  mux,       \* isMultiplexedEnabled()
  op,        \* op[c]: the operation c called
  at,        \* at[c]: where it is; "fresh": a runner's function runs and nothing has
             \* begun its transaction; "using": the user has the transaction;
             \* "unheard": it failed, and its user was not told
  nested,    \* nested[c]: its stream is piped from the stream of a retry
  session,   \* session[c]: the session it works on
  free,      \* the sessions in the pool
  ticks,     \* sessions to release when 'end' is emitted, on the next tick
  dead,      \* sessions the backend has lost
  noted,     \* sessions whose lastError is 'Session not found'
  losses,
  twice,     \* history: a session was released that nobody had
  known,     \* history: lost sessions an operation has started over from
  by         \* by[s]: history: the operation that had s last, or how it was left in a
             \* state no code gets s back from

vars == <<mux, op, at, nested, session, free, ticks, dead, noted, losses, twice, known, by>>
poolVars == <<free, noted, dead, twice>>
callVars == <<op, at, nested, session>>

\* Ways to leave a session in which no code releases it any more.
Abandonments == {"rollback", "commit", "early end"}

Working(c) == at[c] \in {"begin", "fresh", "run", "flowing", "using"}

---------------------------------------------------------------------------
(* What an operation does                                                  *)

\* _releaseOnEnd() is called before the first request.
Listens == {"getTransaction", "createBatchTransaction", "runStream", "writeAtLeastOnce"}

\* It repeats itself and pipes the new stream into the user's, which an error
\* of the new stream does not destroy.
Piping == {"runStream", "batchWriteAtLeastOnce"}

\* The first request is a BeginTransaction.
Begins == {"getSnapshot", "createBatchTransaction", "runPartitionedUpdate"}

\* 'Session not found' makes it start over with another session.
Restarts(o, e) ==
  /\ e = "notFound"
  /\ \/ o \in {"getSnapshot", "runStream"} /\ ~mux
     \/ o \in {"batchWriteAtLeastOnce", "runTransaction"}

\* Mutant: the session that was lost is not marked.
RegistersNot(o) == FALSE

\* When it starts over it has set session.lastError.
Registers(o) == o # "runTransaction"

\* Mutant: an operation that fails does not release.
ReleasesOnSuccess(c, e) == e = "ok"

\* When its requests end with e it releases the session or ends the
\* transaction whose 'end' event does.
Releases(c, e) ==
  \/ op[c] \in {"getSnapshot", "runStream", "runPartitionedUpdate",
                "writeAtLeastOnce", "request", "requestStream", "runTransaction"}
  \/ op[c] = "batchWriteAtLeastOnce" /\ e = "ok"

---------------------------------------------------------------------------
(* SessionFactory                                                          *)

\* Mutant: release() forgets to drop a session that is lost.
ReleaseAny(S, marks) ==
  LET R == S \cap Sessions IN
  /\ free' = free \cup R
  /\ twice' = (twice \/ R \cap free # {})
  /\ noted' = marks \ R
  /\ UNCHANGED dead

\* release() of each session of S: not a multiplexed one.  The pool replaces
\* one marked as lost: from then on its name stands for another.
Release(S, marks) ==
  LET R == S \cap Sessions IN
  /\ free' = free \cup R
  /\ twice' = (twice \/ R \cap free # {})
  /\ noted' = marks \ R
  /\ dead' = dead \ (R \cap marks)

KeepAll(marks) == noted' = marks /\ UNCHANGED <<free, twice, dead>>

Start(c, o) ==
  /\ at[c] = "idle"
  /\ op' = [op EXCEPT ![c] = o]
  /\ at' = [at EXCEPT ![c] = "getting"]
  /\ UNCHANGED <<mux, nested, session, poolVars, ticks, losses, known, by>>

\* What its user sees of its end.
Outcome(c, e) == IF nested[c] /\ e # "ok" THEN "unheard" ELSE "done"

First(o) == CASE o \in Begins -> "begin"
              [] o = "getTransaction" -> "using"
              [] o = "runTransaction" -> "fresh"
              [] OTHER -> "run"

\* getSession(), getSessionForReadWrite(), getSessionForPartitionedOps(): the
\* pool's session or the shared one, whichever of the three is asked.
GetSession(c) ==
  /\ at[c] = "getting"
  /\ at' = [at EXCEPT ![c] = First(op[c])]
  /\ \E s \in IF mux THEN {Shared} ELSE free :
       /\ session' = [session EXCEPT ![c] = s]
       /\ free' = free \ {s}
       /\ by' = IF mux THEN by ELSE [by EXCEPT ![s] = op[c]]
  /\ UNCHANGED <<mux, op, nested, ticks, dead, noted, twice, losses, known>>

\* No session: the error goes to the user.
GetSessionFail(c) ==
  /\ at[c] = "getting"
  /\ at' = [at EXCEPT ![c] = Outcome(c, "fatal")]
  /\ UNCHANGED <<mux, op, nested, session, poolVars, ticks, losses, known, by>>

---------------------------------------------------------------------------
(* Requests and their answers                                              *)

\* A request on a lost session is answered so, and no other is.
Plausible(c, e) == (e = "notFound") <=> session[c] \in dead

\* Mutant: the multiplexed session is released as well.
EndSoonAny(c) == ticks' = ticks \cup {session[c]}

\* snapshot.end() and the like: 'end' is emitted on the next tick.
EndSoon(c) == ticks' = IF session[c] \in Sessions THEN ticks \cup {session[c]} ELSE ticks

\* Mutant: the session is released at once and by the 'end' event again.
GiveBackTwice(c, marks) == EndSoon(c) /\ Release({session[c]}, marks)

\* The session is given back by the 'end' event, or directly.
GiveBack(c, marks) == IF op[c] \in Listens
                      THEN EndSoon(c) /\ KeepAll(marks)
                      ELSE Release({session[c]}, marks) /\ UNCHANGED ticks

\* The operation is through with its session, and may forget to give it back.
Leave(c, e, marks) ==
  IF Releases(c, e) THEN GiveBack(c, marks) ELSE KeepAll(marks) /\ UNCHANGED ticks

\* A runner that begins a retry: an error here does not pass its catch block.
BeginsRetry(c) == op[c] = "runTransaction" /\ at[c] = "begin"

\* The sessions whose lastError says they are lost, when c's is 'not found':
\* set by the runner for every attempt, by others before they start over.
Marks(c, e) ==
  IF /\ e = "notFound" /\ session[c] \in Sessions /\ ~BeginsRetry(c)
     /\ op[c] = "runTransaction" \/ (Restarts(op[c], e) /\ Registers(op[c]))
  THEN noted \cup {session[c]} ELSE noted

Reruns == {"runPartitionedUpdate", "runTransaction"}

\* BeginTransaction, or the request that begins a runner's transaction,
\* succeeds: the user has the transaction, or it runs.
Begun(c) ==
  /\ at[c] \in {"begin", "fresh"} /\ Plausible(c, "ok")
  /\ at' = [at EXCEPT ![c] = IF op[c] \in Reruns THEN "run" ELSE "using"]
  /\ UNCHANGED <<mux, op, nested, session, poolVars, ticks, losses, known, by>>

\* The first row or response: from here on the stream is not repeated.
Flow(c) ==
  /\ at[c] = "run" /\ op[c] \in {"runStream", "batchWriteAtLeastOnce"}
  /\ Plausible(c, "ok")
  /\ at' = [at EXCEPT ![c] = "flowing"]
  /\ UNCHANGED <<mux, op, nested, session, poolVars, ticks, losses, known, by>>

\* Mutant: the session is released whatever the error.
BeginAgainReleased(c) ==
  /\ at[c] \in {"fresh", "run"} /\ op[c] \in Reruns
  /\ Plausible(c, "aborted")
  /\ at' = [at EXCEPT ![c] = "begin"]
  /\ Release({session[c]}, noted)
  /\ UNCHANGED <<mux, op, nested, session, ticks, losses, known, by>>

\* What was aborted begins again on the same session.
BeginAgain(c) ==
  /\ at[c] \in {"fresh", "run"} /\ op[c] \in Reruns
  /\ Plausible(c, "aborted")
  /\ at' = [at EXCEPT ![c] = "begin"]
  /\ UNCHANGED <<mux, op, nested, session, poolVars, ticks, losses, known, by>>

\* 'Session not found' starts the operation over.
Restart(c) ==
  /\ at[c] \in {"begin", "fresh", "run"}
  /\ Plausible(c, "notFound") /\ Restarts(op[c], "notFound")
  /\ at' = [at EXCEPT ![c] = "getting"]
  /\ Leave(c, "notFound", Marks(c, "notFound"))
  /\ known' = (IF BeginsRetry(c) THEN known ELSE known \cup ({session[c]} \cap Sessions)) \cap dead'
  /\ nested' = [nested EXCEPT ![c] = op[c] \in Piping]
  /\ UNCHANGED <<mux, op, session, losses, by>>

\* The requests are over, well or not, and the operation with them.
Complete(c, e) ==
  /\ \/ at[c] \in {"fresh", "run", "flowing"}
     \/ at[c] = "begin" /\ e # "ok"
  /\ e \in {"ok", "fatal", "notFound"} /\ Plausible(c, e)
  /\ at[c] = "flowing" \/ ~Restarts(op[c], e)
  /\ at' = [at EXCEPT ![c] = Outcome(c, e)]
  /\ Leave(c, e, Marks(c, e))
  /\ known' = known \cap dead'
  /\ UNCHANGED <<mux, op, nested, session, losses, by>>

---------------------------------------------------------------------------
(* The user                                                                *)

\* commit(), rollback() with an id, end() or close(): the transaction ends.
UserEnds(c) ==
  /\ at[c] = "using"
  /\ at' = [at EXCEPT ![c] = "done"]
  /\ EndSoon(c)
  /\ UNCHANGED <<mux, op, nested, session, poolVars, losses, known, by>>

\* c's session is left so.
Abandon(c, how) == by' = IF mux THEN by ELSE [by EXCEPT ![session[c]] = how]

\* rollback() before anything has run: it calls back and ends nothing, and a
\* TransactionRunner in callback mode waits for the end.
RollbackUnbegun(c) ==
  /\ (at[c] = "using" /\ op[c] = "getTransaction") \/ at[c] = "fresh"
  /\ at' = [at EXCEPT ![c] = "done"]
  /\ Abandon(c, "rollback")
  /\ UNCHANGED <<mux, op, nested, session, poolVars, ticks, losses, known>>

\* commit() before anything has run begins the transaction, and that fails: it
\* calls back with the error and ends nothing either.
CommitUnbegun(c) ==
  /\ at[c] = "fresh" /\ Plausible(c, "fatal")
  /\ at' = [at EXCEPT ![c] = "done"]
  /\ Abandon(c, "commit")
  /\ UNCHANGED <<mux, op, nested, session, poolVars, ticks, losses, known>>

\* The user ends or destroys the stream of runStream(): it is unpiped, its
\* source never ends, and neither does the snapshot.
StopEarly(c) ==
  /\ at[c] \in {"run", "flowing"} /\ op[c] = "runStream"
  /\ at' = [at EXCEPT ![c] = "done"]
  /\ Abandon(c, "early end")
  /\ UNCHANGED <<mux, op, nested, session, poolVars, ticks, losses, known>>

\* abort() of makePooledStreamingRequest_(): released here and not again.
Abort(c) ==
  /\ at[c] = "run" /\ op[c] = "requestStream"
  /\ at' = [at EXCEPT ![c] = "done"]
  /\ Release({session[c]}, noted)
  /\ known' = known \cap dead'
  /\ UNCHANGED <<mux, op, nested, session, ticks, losses, by>>

---------------------------------------------------------------------------
(* The process and the backend                                             *)

\* The 'end' event: the listener of _releaseOnEnd().
EmitEnd(s) ==
  /\ s \in ticks
  /\ ticks' = ticks \ {s}
  /\ Release({s}, noted)
  /\ known' = known \cap dead'
  /\ UNCHANGED <<mux, callVars, losses, by>>

\* The backend loses a session, the shared one too.
Lose(s) ==
  /\ s \notin dead /\ losses < MaxLosses
  /\ s = Shared <=> mux
  /\ dead' = dead \cup {s}
  /\ losses' = losses + 1
  /\ UNCHANGED <<mux, callVars, free, ticks, noted, twice, known, by>>

\* MultiplexedSession replaces the shared session, in time.
Refresh ==
  /\ Shared \in dead
  /\ dead' = dead \ {Shared}
  /\ UNCHANGED <<mux, callVars, free, ticks, noted, twice, losses, known, by>>

---------------------------------------------------------------------------
Init ==
  /\ mux \in BOOLEAN
  /\ op \in [Calls -> {"none"}] /\ at = [c \in Calls |-> "idle"]
  /\ session = [c \in Calls |-> None] /\ nested = [c \in Calls |-> FALSE]
  /\ free = Sessions /\ ticks = {} /\ dead = {} /\ noted = {}
  /\ losses = 0 /\ known = {} /\ twice = FALSE /\ by = [s \in Sessions |-> "none"]

Answer(c) == \/ Begun(c) \/ Flow(c) \/ BeginAgain(c)
             \/ Restart(c) \/ CommitUnbegun(c)
             \/ \E e \in {"ok", "fatal", "notFound"} : Complete(c, e)

User(c) == UserEnds(c) \/ RollbackUnbegun(c) \/ StopEarly(c) \/ Abort(c)

Next == \/ \E c \in Calls : \/ \E o \in Ops : Start(c, o)
                            \/ GetSession(c) \/ GetSessionFail(c) \/ Answer(c) \/ User(c)
        \/ \E s \in Sessions \cup {Shared} : EmitEnd(s) \/ Lose(s)
        \/ Refresh

Spec == Init /\ [][Next]_vars

\* The pool serves its queue in order, requests are answered and not aborted
\* for ever, events are emitted, the shared session is refreshed, and users
\* end what they were given.
FairSpec ==
  /\ Spec
  /\ \A c \in Calls : /\ SF_vars(GetSession(c)) /\ WF_vars(User(c)) /\ WF_vars(Answer(c))
                      /\ SF_vars(\E e \in {"ok", "fatal", "notFound"} : Complete(c, e))
  /\ \A s \in Sessions : WF_vars(EmitEnd(s))
  /\ WF_vars(Refresh)

---------------------------------------------------------------------------
(* Properties                                                              *)

\* Every variable stays in the set its code counterpart ranges over.
TypeOK ==
  /\ mux \in BOOLEAN /\ twice \in BOOLEAN /\ losses \in 0..MaxLosses
  /\ op \in [Calls -> Ops \cup {"none"}]
  /\ at \in [Calls -> {"idle", "getting", "begin", "fresh", "run", "flowing", "using",
                    "done", "unheard"}]
  /\ nested \in [Calls -> BOOLEAN]
  /\ session \in [Calls -> Sessions \cup {Shared, None}]
  /\ known \subseteq Sessions
  /\ free \subseteq Sessions /\ ticks \subseteq Sessions /\ noted \subseteq Sessions
  /\ dead \subseteq Sessions \cup {Shared}
  /\ by \in [Sessions -> AllOps \cup Abandonments \cup {"none"}]

\* A regular session is in one place: with one working call, or due to be
\* released, or in the pool.  No operation keeps using what it gave back.
InOnePlace ==
  \A c \in Calls : Working(c) /\ session[c] # Shared =>
    /\ session[c] \notin free \cup ticks
    /\ \A d \in Calls \ {c} : Working(d) => session[d] # session[c]

\* release() is never called for a session that is in the pool already: the
\* pool would throw a ReleaseError, or take it from its next borrower.
ReleasedOnce == ~twice

\* Sessions that nobody uses and nothing is going to release.
Leaked == {s \in Sessions \ (free \cup ticks) : \A c \in Calls : Working(c) => session[c] # s}

\* An operation that succeeds, fails or starts over, in whatever order its
\* errors and events come, gives its session back; the exceptions are a
\* failed createBatchTransaction() or batchWriteAtLeastOnce(), a transaction
\* rolled back before it was begun or whose commit() failed to begin it, and a
\* runStream() ended early, which its documentation suggests
\* (database.ts:3137-3145).
NoOtherLeak ==
  \A s \in Leaked : by[s] \in {"createBatchTransaction", "batchWriteAtLeastOnce"} \cup Abandonments

\* "we can safely retry the query on a new session" (database.ts:3192): a
\* session that an operation started over from is not in the pool again, for
\* the operation or another to be given, until the pool has replaced it.  The
\* runner whose begin() of a retry fails is excepted: it leaves no mark.
RetriedElsewhere == free \cap known = {}

\* Every call comes to an end its user hears of, if only from the callback of
\* a commit() or rollback() that leaves the operation itself waiting, unless
\* leaks have emptied the pool, or the stream that was to replace a lost one
\* failed as well.
CallsSettle ==
  \A c \in Calls :
    (at[c] # "idle") ~> \/ at[c] = "done" \/ Leaked = Sessions
                        \/ nested[c] /\ at[c] = "unheard"
=============================================================================

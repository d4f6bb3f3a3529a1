---------------------- MODULE TransactionRunnerProofs ----------------------
(***************************************************************************)
(* Proofs about TransactionRunner, for any requests of the function and    *)
(* any number of attempts.                                                 *)
(***************************************************************************)
EXTENDS TransactionRunner, FiniteSetTheorems, TLAPS

\* Attempt n can do no more than let its requests be answered: its function
\* has not begun, is over, or waits for a request that was cut off.
Still(n) == \/ fn[n] \in {"none", "over", "unended"}
            \/ fn[n] = "running" /\ \E q \in Requests : req[n][q] = "cut"

\* The attempt whose _run() the loop is waiting for.
Live(n) == n = Current /\ loop = "running" /\ verdict = "pending"

OneAlive == \A n \in Attempts : ~Live(n) => Still(n)

\* An attempt to come has not begun; one that begins has no verdict yet.
Ahead(n) == n > Current \/ (n = Current /\ loop \in {"getting", "beginning", "waiting"})
FutureIdle == /\ \A n \in Attempts : Ahead(n) => fn[n] = "none"
              /\ \A n \in Attempts : fn[n] = "none" => \A q \in Requests : req[n][q] = "idle"
              /\ loop = "beginning" => verdict = "pending"

\* Where an error will lead to another attempt there is one left.
Spare == /\ loop = "running" /\ Retryable(verdict) => attempts < MaxFaults
         /\ \A n \in Attempts, q \in Requests :
              n = Current /\ Retryable(req[n][q]) => attempts < MaxFaults

\* One commit is not a lost one if _run() resolved, and none if it did not.
Resolved == loop \in {"running", "returned"} /\ verdict = "ok"
CommitsCounted == Cardinality(Applied) <= lost + (IF Resolved THEN 1 ELSE 0)

Control == TypeOK /\ OneAlive /\ FutureIdle /\ Spare
IInv == Control /\ CommitsCounted

---------------------------------------------------------------------------
LEMMA AttemptsFacts ==
  /\ MaxFaults \in Nat /\ Attempts \subseteq Nat /\ IsFiniteSet(Attempts)
  /\ \A k \in 0..MaxFaults : k + 1 \in Attempts
  /\ \A k \in 0..MaxFaults : k < MaxFaults => k + 1 \in 0..MaxFaults
<1>1. MaxFaults \in Nat
  BY FaultAssumption
<1>2. IsFiniteSet(Attempts)
  BY <1>1, FS_Interval DEF Attempts
<1>3. QED
  BY <1>1, <1>2 DEF Attempts

LEMMA InitControl ==
  ASSUME Init
  PROVE  Control
<1>1. TypeOK
  BY AttemptsFacts DEF Init, TypeOK
<1>2. OneAlive /\ FutureIdle
  BY DEF Init, OneAlive, FutureIdle, Live, Still, Ahead
<1>3. Spare
  BY DEF Init, Spare, Retryable
<1>4. QED
  BY <1>1, <1>2, <1>3 DEF Control

---------------------------------------------------------------------------
\* The steps of run().

\* The first attempt begins to run, a later one begins its transaction.
LEMMA GetTransactionKeeps ==
  ASSUME Control, GetTransaction
  PROVE  Control'
<1> USE DEF Control
<1>1. Current \in Attempts /\ attempts \in 0..MaxFaults /\ attempts' = attempts
  BY AttemptsFacts DEF TypeOK, GetTransaction, Current
<1>2. TypeOK'
  BY <1>1 DEF GetTransaction, TypeOK
<1>3. fn[Current] = "none" /\ \A q \in Requests : req[Current][q] = "idle"
  BY <1>1 DEF GetTransaction, FutureIdle, Ahead
<1>4. OneAlive' /\ FutureIdle'
  BY <1>1, <1>3, AttemptsFacts DEF GetTransaction, OneAlive, FutureIdle, Live, Still, Ahead, Current, TypeOK
<1>5. Spare'
  BY <1>1 DEF GetTransaction, Spare, Retryable, Current
<1>6. QED
  BY <1>2, <1>4, <1>5

\* A later attempt begins to run.
LEMMA BeginOkKeeps ==
  ASSUME Control, BeginOk
  PROVE  Control'
<1> USE DEF Control
<1>1. Current \in Attempts /\ attempts \in 0..MaxFaults /\ attempts' = attempts
  BY AttemptsFacts DEF TypeOK, BeginOk, Current
<1>2. TypeOK'
  BY <1>1 DEF BeginOk, TypeOK
<1>3. fn[Current] = "none" /\ (\A q \in Requests : req[Current][q] = "idle") /\ verdict' = "pending"
  BY <1>1 DEF BeginOk, FutureIdle, Ahead
<1>4. OneAlive' /\ FutureIdle'
  BY <1>1, <1>3, AttemptsFacts DEF BeginOk, OneAlive, FutureIdle, Live, Still, Ahead, Current, TypeOK
<1>5. Spare'
  BY <1>1, <1>3 DEF BeginOk, Spare, Retryable, Current
<1>6. QED
  BY <1>2, <1>4, <1>5

\* The loop ends before an attempt, or goes on to the next after its delay.
LEMMA PauseKeeps ==
  ASSUME Control, BeginFail \/ Wake
  PROVE  Control'
<1> USE DEF Control
<1>1. TypeOK'
  BY DEF BeginFail, Wake, TypeOK
<1>2. OneAlive' /\ FutureIdle'
  BY DEF BeginFail, Wake, OneAlive, FutureIdle, Live, Still, Ahead, Current
<1>3. Spare'
  BY DEF BeginFail, Wake, Spare, Retryable, Current
<1>4. QED
  BY <1>1, <1>2, <1>3

\* _run() has settled: the loop returns, throws, or prepares one more attempt.
LEMMA SettleKeeps ==
  ASSUME Control, Settle
  PROVE  Control'
<1> USE DEF Control
<1>1. CASE attempts' = attempts
  <2>1. TypeOK' /\ loop' \in {"returned", "threw", "waiting"}
    BY <1>1 DEF Settle, Catch, TypeOK
  <2>2. loop' # "waiting"
    BY <1>1 DEF Settle, Catch, TypeOK
  <2>3. OneAlive' /\ FutureIdle' /\ Spare'
    BY <1>1, <2>1, <2>2 DEF Settle, OneAlive, FutureIdle, Live, Still, Ahead, Current, Spare, Retryable
  <2>4. QED
    BY <2>1, <2>3
<1>2. CASE attempts' = attempts + 1 /\ Retryable(verdict) /\ loop' = "waiting"
  <2>1. attempts < MaxFaults
    BY <1>2 DEF Settle, Spare
  <2>2. TypeOK'
    BY <1>2, <2>1, AttemptsFacts DEF Settle, TypeOK
  <2>3. OneAlive'
    BY <1>2 DEF Settle, OneAlive, Live, Still
  <2>4. FutureIdle'
    <3>1. \A n \in Attempts : Ahead(n)' => n > Current
      BY <1>2, AttemptsFacts DEF Settle, Ahead, Current, TypeOK
    <3>2. QED
      BY <1>2, <3>1 DEF Settle, FutureIdle, Ahead
  <2>5. Spare'
    <3>1. \A n \in Attempts : n = Current' => n > Current
      BY <1>2, AttemptsFacts DEF Current, TypeOK
    <3>2. \A n \in Attempts, q \in Requests : n = Current' => req[n][q] = "idle"
      BY <3>1 DEF FutureIdle, Ahead
    <3>3. QED
      BY <1>2, <3>2 DEF Settle, Spare, Retryable
  <2>6. QED
    BY <2>2, <2>3, <2>4, <2>5
<1>3. QED
  BY <1>1, <1>2 DEF Settle, Catch

---------------------------------------------------------------------------
\* The steps of a function, whichever attempt's.  Most of them keep the loop.

Loop == UNCHANGED <<callback, loop, attempts>>

\* A function that does something has begun, and its attempt is not ahead.
LEMMA BegunIsNotAhead ==
  ASSUME Control, NEW n \in Attempts, fn[n] # "none"
  PROVE  ~Ahead(n)
BY DEF Control, FutureIdle

\* What concludes _run() concludes it for the live attempt.
LEMMA ConcludeEffect ==
  ASSUME Control, Loop, NEW n \in Attempts, NEW how \in {"ok"} \cup Errors, Conclude(n, how)
  PROVE  /\ verdict' \in {"pending", "ok"} \cup Errors
         /\ ~Live(n) => verdict' = verdict
         /\ Live(n) => verdict' = how /\ ~Live(n)'
         /\ \A m \in Attempts : Live(m)' => Live(m) /\ m # n
BY DEF Conclude, Loop, Live, Control, TypeOK, Current, Errors

\* A step of attempt n's function that changes fn[n] and req[n] only, leaves
\* the function still if its attempt is not live afterwards, and keeps Spare.
LEMMA FunctionStep ==
  ASSUME Control, Loop, TypeOK', NEW n \in Attempts, fn[n] # "none", fn'[n] # "none",
         \A m \in Attempts \ {n} : fn'[m] = fn[m] /\ req'[m] = req[m],
         \A m \in Attempts : Live(m)' => Live(m),
         \A m \in Attempts \ {n} : Live(m) => Live(m)',
         ~Live(n)' => Still(n)',
         loop = "beginning" => verdict' = verdict,
         Spare'
  PROVE  Control'
<1> USE DEF Control
<1>1. OneAlive'
  <2>1. \A m \in Attempts \ {n} : Still(m) => Still(m)'
    BY DEF Still
  <2>2. \A m \in Attempts \ {n} : ~Live(m)' => Still(m)'
    BY <2>1 DEF OneAlive
  <2>3. QED
    BY <2>2 DEF OneAlive
<1>2. FutureIdle'
  <2>1. \A m \in Attempts : Ahead(m)' => Ahead(m) /\ m # n
    BY BegunIsNotAhead DEF Ahead, Loop, Current
  <2>2. QED
    BY <2>1 DEF FutureIdle, Loop
<1>3. QED
  BY <1>1, <1>2

LEMMA IssueKeeps ==
  ASSUME Control, NEW n \in Attempts, NEW q \in Requests, Issue(n, q)
  PROVE  Control'
<1>1. TypeOK'
  BY DEF Issue, Control, TypeOK
<1>2. /\ Loop /\ fn[n] # "none" /\ fn' = fn /\ verdict' = verdict
      /\ \A m \in Attempts \ {n} : req'[m] = req[m]
      /\ \A m \in Attempts : Live(m)' <=> Live(m)
  BY DEF Issue, Loop, Live, Current, Control, TypeOK
<1>3. Still(n) => Still(n)'
  BY DEF Issue, Still, Control, TypeOK
<1>4. Spare'
  BY DEF Issue, Control, Spare, Retryable, Current, TypeOK
<1>5. QED
  BY <1>1, <1>2, <1>3, <1>4, FunctionStep DEF Control, OneAlive

\* An answer: passed on, or cut off in favour of another attempt.
LEMMA AnswerKeeps ==
  ASSUME Control, NEW n \in Attempts, NEW q \in Requests, NEW e \in Errors \cup {"ok"},
         Answer(n, q, e)
  PROVE  Control'
<1> DEFINE cut == callback /\ ShouldRetry(e)
<1>1. /\ Loop /\ fn[n] = "running" /\ fn' = fn /\ req[n][q] = "sent"
      /\ Retryable(e) => attempts < MaxFaults
      /\ req' = [req EXCEPT ![n][q] = IF cut THEN "cut" ELSE e]
      /\ IF cut THEN Conclude(n, e) ELSE verdict' = verdict
  BY DEF Answer, CallBack, Intercept, Loop, Bounded
<1>2. TypeOK'
  <2>1. tx' \in [Attempts -> {"active", "aborted", "committed"}]
    BY DEF Answer, After, Control, TypeOK
  <2>2. req' \in [Attempts -> [Requests -> {"idle", "sent", "ok", "cut"} \cup Errors]]
    BY <1>1 DEF Control, TypeOK
  <2>3. verdict' \in {"pending", "ok"} \cup Errors
    BY <1>1, ConcludeEffect DEF Control, TypeOK
  <2>4. QED
    BY <1>1, <2>1, <2>2, <2>3 DEF Answer, Loop, Control, TypeOK
<1>3. \A m \in Attempts \ {n} : req'[m] = req[m]
  BY <1>1 DEF Control, TypeOK
<1>4. /\ \A m \in Attempts : Live(m)' => Live(m)
      /\ \A m \in Attempts \ {n} : Live(m) => Live(m)'
      /\ loop = "beginning" => verdict' = verdict
  <2>1. CASE ~cut
    BY <1>1, <2>1 DEF Live, Loop, Current
  <2>2. CASE cut
    <3>1. Conclude(n, e)
      BY <1>1, <2>2
    <3>2. \A m \in Attempts : Live(m)' => Live(m)
      BY <1>1, <3>1, ConcludeEffect
    <3>3. \A m \in Attempts \ {n} : Live(m) => n # Current
      BY DEF Live
    <3>4. QED
      BY <1>1, <3>1, <3>2, <3>3 DEF Conclude, Live, Loop, Current
  <2>3. QED
    BY <2>1, <2>2
<1>5. ~Live(n)' => Still(n)'
  <2>1. CASE cut
    BY <1>1, <2>1 DEF Still, Control, TypeOK
  <2>2. CASE ~cut
    <3>1. Live(n)' <=> Live(n)
      BY <1>1, <2>2 DEF Live, Loop, Current
    <3>2. Still(n) => Still(n)'
      BY <1>1, <2>2 DEF Still, Control, TypeOK
    <3>3. QED
      BY <3>1, <3>2 DEF Control, OneAlive
  <2>3. QED
    BY <2>1, <2>2
<1>6. Spare'
  <2>1. loop' = "running" /\ Retryable(verdict') => attempts' < MaxFaults
    BY <1>1 DEF Conclude, Control, Spare, Loop
  <2>2. ASSUME NEW m \in Attempts, NEW p \in Requests, m = Current', Retryable(req'[m][p])
        PROVE  attempts' < MaxFaults
    <3>1. req'[m][p] \in {req[m][p], "cut", e}
      BY <1>1 DEF Control, TypeOK
    <3>2. QED
      BY <1>1, <2>2, <3>1 DEF Control, Spare, Retryable, Loop, Current
  <2>3. QED
    BY <2>1, <2>2 DEF Spare
<1>7. QED
  BY <1>1, <1>2, <1>3, <1>4, <1>5, <1>6, FunctionStep

\* A function that is over has concluded its attempt.
LEMMA OverKeeps ==
  ASSUME Control, Loop, TypeOK', NEW n \in Attempts, NEW how \in {"ok"} \cup Errors,
         fn[n] # "none", fn' = [fn EXCEPT ![n] = "over"], req' = req,
         Conclude(n, how), Live(n) /\ Retryable(how) => attempts < MaxFaults
  PROVE  Control'
<1>1. fn'[n] = "over" /\ \A m \in Attempts \ {n} : fn'[m] = fn[m]
  BY DEF Control, TypeOK
<1>2. \A m \in Attempts : Live(m)' => Live(m)
  BY ConcludeEffect
<1>3. \A m \in Attempts \ {n} : Live(m) => Live(m)'
  BY DEF Conclude, Live, Loop, Current
<1>4. loop = "beginning" => verdict' = verdict
  BY DEF Conclude
<1>5. Spare'
  <2>1. loop' = "running" /\ Retryable(verdict') => attempts' < MaxFaults
    BY ConcludeEffect DEF Control, Spare, Loop
  <2>2. QED
    BY <2>1 DEF Control, Spare, Loop, Current
<1>6. Still(n)'
  BY <1>1 DEF Still
<1>7. QED
  BY <1>1, <1>2, <1>3, <1>4, <1>5, <1>6, FunctionStep

LEMMA ThrowKeeps ==
  ASSUME Control, NEW n \in Attempts, NEW q \in Requests, Throw(n, q)
  PROVE  Control'
<1>1. req[n][q] \in Errors /\ Loop /\ Conclude(n, req[n][q]) /\ fn[n] # "none"
  BY DEF Throw, Loop
<1>2. Live(n) /\ Retryable(req[n][q]) => attempts < MaxFaults
  BY DEF Live, Control, Spare
<1>3. TypeOK'
  BY <1>1, ConcludeEffect DEF Throw, Control, TypeOK
<1>4. QED
  BY <1>1, <1>2, <1>3, OverKeeps DEF Throw

LEMMA FinishKeeps ==
  ASSUME Control, NEW n \in Attempts, Finish(n)
  PROVE  Control'
<1>1. Loop /\ Conclude(n, "ok") /\ fn[n] # "none"
  BY DEF Finish, Free, Loop
<1>2. TypeOK'
  BY <1>1, ConcludeEffect DEF Finish, Control, TypeOK
<1>3. QED
  BY <1>1, <1>2, OverKeeps DEF Finish, Retryable

LEMMA CommittedKeeps ==
  ASSUME Control, NEW n \in Attempts, NEW e \in Errors \cup {"ok"}, Committed(n, e)
  PROVE  Control'
<1>1. Loop /\ Conclude(n, e) /\ fn[n] # "none" /\ (Retryable(e) => attempts < MaxFaults)
  BY DEF Committed, Loop, Bounded
<1>2. TypeOK'
  BY <1>1, ConcludeEffect DEF Committed, Control, TypeOK
<1>3. QED
  BY <1>1, <1>2, OverKeeps DEF Committed

\* The begin() of a commit() fails: the attempt is concluded, or waits for ever.
LEMMA CommitUnbegunKeeps ==
  ASSUME Control, NEW n \in Attempts, NEW e \in Errors, CommitUnbegun(n, e)
  PROVE  Control'
<1>1. /\ Loop /\ fn[n] = "starting" /\ (Retryable(e) => attempts < MaxFaults)
      /\ req' = req /\ tx' = tx /\ lost' = lost
  BY DEF CommitUnbegun, Loop, Bounded
<1>2. CASE callback /\ ~Intercept(e)
  <2>1. fn' = [fn EXCEPT ![n] = "unended"] /\ verdict' = verdict
    BY <1>2 DEF CommitUnbegun
  <2>2. TypeOK' /\ Spare'
    BY <1>1, <2>1 DEF Loop, Control, TypeOK, Spare, Current
  <2>3. \A m \in Attempts : Live(m)' <=> Live(m)
    BY <1>1, <2>1 DEF Loop, Live, Current
  <2>4. fn'[n] = "unended" /\ \A m \in Attempts \ {n} : fn'[m] = fn[m] /\ req'[m] = req[m]
    BY <1>1, <2>1 DEF Control, TypeOK
  <2>5. Still(n)'
    BY <2>4 DEF Still
  <2>6. QED
    BY <1>1, <2>1, <2>2, <2>3, <2>4, <2>5, FunctionStep
<1>3. CASE ~(callback /\ ~Intercept(e))
  <2>1. fn' = [fn EXCEPT ![n] = "over"] /\ Conclude(n, e)
    BY <1>3 DEF CommitUnbegun
  <2>2. TypeOK'
    BY <1>1, <2>1, ConcludeEffect DEF Loop, Control, TypeOK
  <2>3. QED
    BY <1>1, <2>1, <2>2, OverKeeps
<1>4. QED
  BY <1>2, <1>3

LEMMA CommitFailKeeps ==
  ASSUME Control, NEW n \in Attempts, NEW e \in Errors, CommitFail(n, e)
  PROVE  Control'
<1> DEFINE how == IF callback /\ ~Intercept(e) THEN "ok" ELSE e
<1>1. /\ Loop /\ Conclude(n, how) /\ fn[n] # "none" /\ how \in {"ok"} \cup Errors
      /\ Retryable(how) => attempts < MaxFaults
  BY DEF CommitFail, Loop, Bounded, Retryable
<1>2. tx' \in [Attempts -> {"active", "aborted", "committed"}]
  BY DEF CommitFail, After, Control, TypeOK
<1>3. TypeOK'
  BY <1>1, <1>2, ConcludeEffect DEF CommitFail, Control, TypeOK
<1>4. QED
  BY <1>1, <1>3, OverKeeps DEF CommitFail

\* Only a function that is not cut off commits.
LEMMA CommitKeeps ==
  ASSUME Control, NEW n \in Attempts, Commit(n) \/ CommitBegun(n)
  PROVE  Control'
<1>1. /\ Loop /\ req' = req /\ verdict' = verdict /\ fn[n] # "none" /\ fn'[n] # "none"
      /\ \A m \in Attempts \ {n} : fn'[m] = fn[m]
      /\ \A m \in Attempts : Live(m)' <=> Live(m)
  BY DEF Commit, CommitBegun, Free, Loop, Live, Current, Control, TypeOK
<1>2. ~Still(n)
  BY DEF Commit, CommitBegun, Free, Still
<1>3. TypeOK' /\ Spare'
  BY DEF Commit, CommitBegun, Control, TypeOK, Spare, Current
<1>4. QED
  BY <1>1, <1>2, <1>3, FunctionStep DEF Control, OneAlive

---------------------------------------------------------------------------
LEMMA NextControl ==
  ASSUME Control, [Next]_vars
  PROVE  Control'
<1>1. CASE Run
  BY <1>1, GetTransactionKeeps, BeginOkKeeps, PauseKeeps, SettleKeeps DEF Run
<1>2. ASSUME NEW n \in Attempts, Reply(n)
      PROVE  Control'
  BY <1>2, AnswerKeeps, CommittedKeeps, CommitFailKeeps, CommitKeeps, CommitUnbegunKeeps DEF Reply
<1>3. ASSUME NEW n \in Attempts, Function(n)
      PROVE  Control'
  BY <1>3, IssueKeeps, ThrowKeeps, CommitKeeps, FinishKeeps DEF Function
<1>4. CASE UNCHANGED vars
  BY <1>4 DEF vars, Control, TypeOK, OneAlive, FutureIdle, Spare, Live, Still, Ahead, Current, Retryable
<1>5. QED
  BY <1>1, <1>2, <1>3, <1>4 DEF Next

\* Whoever commits is the live attempt; no other step commits anything.
LEMMA CommitsAreLive ==
  ASSUME Control, [Next]_vars, NEW n \in Attempts, n \in Applied' \ Applied
  PROVE  Live(n) /\ \E e \in Errors \cup {"ok"} : Committed(n, e)
<1>1. tx[n] # "committed" /\ tx'[n] = "committed"
  BY DEF Applied
<1>2. ASSUME NEW m \in Attempts, tx' = After(m, "aborted") \/ tx' = tx
      PROVE  FALSE
  BY <1>1, <1>2 DEF After, Control, TypeOK
<1>3. ~Run /\ ~UNCHANGED vars
  BY <1>1 DEF Run, GetTransaction, BeginOk, BeginFail, Settle, Wake, vars
<1>4. ASSUME NEW m \in Attempts
      PROVE  ~Function(m)
  BY <1>1 DEF Function, Issue, Throw, Commit, Finish
<1>5. ASSUME NEW m \in Attempts, Reply(m)
      PROVE  m = n /\ \E e \in Errors \cup {"ok"} : Committed(n, e)
  <2>1. ASSUME NEW e \in Errors \cup {"ok"}, tx' = After(m, e)
        PROVE  FALSE
    BY <1>2, <2>1 DEF After
  <2>2. ~CommitBegun(m) /\ \A e \in Errors : ~CommitUnbegun(m, e)
    BY <1>1 DEF CommitBegun, CommitUnbegun, Control, TypeOK
  <2>3. PICK e \in Errors \cup {"ok"} : Committed(m, e)
    BY <1>5, <2>1, <2>2 DEF Reply, Answer, CommitFail
  <2>4. m = n
    BY <1>1, <2>3 DEF Committed, Control, TypeOK
  <2>5. QED
    BY <2>3, <2>4
<1>6. \E e \in Errors \cup {"ok"} : Committed(n, e)
  BY <1>3, <1>4, <1>5 DEF Next
<1>7. fn[n] = "committing"
  BY <1>6 DEF Committed
<1>8. ~Still(n)
  BY <1>7 DEF Still
<1>9. QED
  BY <1>6, <1>8 DEF Control, OneAlive

\* The commits are counted: by 'lost' or by the verdict.
LEMMA NextCounted ==
  ASSUME IInv, [Next]_vars
  PROVE  CommitsCounted'
<1>1. Control /\ Control' /\ CommitsCounted
  BY NextControl DEF IInv
<1>2. IsFiniteSet(Applied) /\ Cardinality(Applied) \in Nat /\ lost \in Nat
  <2>1. IsFiniteSet(Applied)
    BY AttemptsFacts, FS_Subset DEF Applied
  <2>2. QED
    BY <1>1, <2>1, FS_CardinalityType DEF Control, TypeOK
<1>3. CASE Applied' \subseteq Applied /\ lost' = lost /\ (Resolved => Resolved')
  <2>1. Cardinality(Applied') <= Cardinality(Applied) /\ Cardinality(Applied') \in Nat
    BY <1>2, <1>3, FS_Subset, FS_CardinalityType
  <2>2. QED
    BY <1>1, <1>2, <1>3, <2>1 DEF CommitsCounted
<1>4. ASSUME NEW n \in Attempts, n \in Applied' \ Applied
      PROVE  CommitsCounted'
  <2>1. Live(n) /\ \E e \in Errors \cup {"ok"} : Committed(n, e)
    BY <1>1, <1>4, CommitsAreLive
  <2>2. PICK e \in {"ok", "internal"} : Committed(n, e)
    BY <2>1 DEF Committed
  <2>3. ~Resolved /\ Cardinality(Applied) <= lost
    BY <1>1, <1>2, <2>1 DEF Live, Resolved, CommitsCounted
  <2>4. verdict' = e /\ loop' = "running" /\ lost' = IF e = "internal" THEN lost + 1 ELSE lost
    BY <2>1, <2>2 DEF Committed, Conclude, Live
  <2>5. Applied' = Applied \cup {n}
    BY <1>1, <2>2 DEF Committed, Applied, Control, TypeOK
  <2>6. Cardinality(Applied') <= Cardinality(Applied) + 1 /\ Cardinality(Applied') \in Nat
    <3>1. /\ IsFiniteSet(Applied \cup {n})
          /\ Cardinality(Applied \cup {n}) = IF n \in Applied THEN Cardinality(Applied)
                                              ELSE Cardinality(Applied) + 1
      BY <1>2, FS_AddElement
    <3>2. QED
      BY <1>2, <2>5, <3>1
  <2>7. CASE e = "ok"
    <3>1. Resolved' /\ lost' = lost
      BY <2>4, <2>7 DEF Resolved
    <3>2. QED
      BY <1>2, <2>3, <2>6, <3>1 DEF CommitsCounted
  <2>8. CASE e = "internal"
    <3>1. lost' = lost + 1 /\ ~Resolved'
      BY <2>4, <2>8 DEF Resolved
    <3>2. QED
      BY <1>2, <2>3, <2>6, <3>1 DEF CommitsCounted
  <2>9. QED
    BY <2>7, <2>8
<1>5. CASE Applied' \subseteq Applied
  <2>1. lost' = lost \/ \E n \in Attempts, e \in Errors \cup {"ok"} : Committed(n, e)
    BY DEF Next, Run, Reply, Function, GetTransaction, BeginOk, BeginFail, Settle, Wake,
           Answer, CommitFail, CommitBegun, CommitUnbegun, Issue, Throw, Commit, Finish, vars
  <2>2. ASSUME NEW n \in Attempts, NEW e \in Errors \cup {"ok"}, Committed(n, e)
        PROVE  FALSE
    BY <1>1, <1>5, <2>2 DEF Committed, Applied, Control, TypeOK
  <2>3. lost' = lost
    BY <2>1, <2>2
  <2>4. Resolved => Resolved'
    BY <1>1 DEF Resolved, Next, Run, Reply, Function, GetTransaction, BeginOk, BeginFail, Settle,
           Wake, Answer, CallBack, Conclude, Committed, CommitFail, CommitBegun, CommitUnbegun,
           Issue, Throw, Commit, Finish, vars
  <2>5. QED
    BY <1>3, <1>5, <2>3, <2>4
<1>6. Applied' \subseteq Attempts
  BY DEF Applied
<1>7. QED
  BY <1>4, <1>5, <1>6

---------------------------------------------------------------------------
\* IInv is inductive: the runner never leaves an attempt behind that may yet
\* commit, and every commit is accounted for.
THEOREM Inductive == Spec => []IInv
<1>1. Init => IInv
  <2> SUFFICES ASSUME Init PROVE IInv
    OBVIOUS
  <2>1. Applied = {}
    BY DEF Init, Applied
  <2>2. CommitsCounted
    BY <2>1, FS_EmptySet DEF Init, CommitsCounted, Resolved
  <2>3. QED
    BY <2>2, InitControl DEF IInv
<1>2. IInv /\ [Next]_vars => IInv'
  BY NextControl, NextCounted DEF IInv
<1>3. QED
  BY <1>1, <1>2, PTL DEF Spec

\* Every variable of the runner stays in its type.
THEOREM TypeCorrect == Spec => []TypeOK
<1>1. IInv => TypeOK
  BY DEF IInv, Control
<1>2. QED
  BY <1>1, Inductive, PTL

\* Once the runner has moved on from an attempt its function commits nothing,
\* however many requests it has in flight.
THEOREM StaleIsHarmless == Spec => StaleNeverCommits
<1>1. IInv /\ [Next]_vars => \A n \in Attempts : n \in Applied' \ Applied => n = Current
  BY CommitsAreLive DEF IInv, Live
<1>2. IInv /\ [Next]_vars => [\A n \in Attempts : n \in Applied' \ Applied => n = Current]_vars
  BY <1>1
<1>3. QED
  BY <1>2, Inductive, PTL DEF Spec, StaleNeverCommits

LEMMA AppliedIsFinite == IsFiniteSet(Applied)
BY AttemptsFacts, FS_Subset DEF Applied

\* The function takes effect once at most, lost answers apart.
THEOREM OnceApplied == Spec => []AppliedOnce
<1>1. IInv => AppliedOnce
  <2>1. Cardinality(Applied) \in Nat
    BY AppliedIsFinite, FS_CardinalityType
  <2>2. QED
    BY <2>1 DEF IInv, Control, TypeOK, CommitsCounted, AppliedOnce
<1>2. QED
  BY <1>1, Inductive, PTL

\* A run that fails has committed nothing, lost answers apart.
THEOREM FailureIsClean == Spec => []FailedMeansNothing
<1>1. IInv => FailedMeansNothing
  <2> SUFFICES ASSUME IInv, loop = "threw", lost = 0
               PROVE  Applied = {}
    BY DEF FailedMeansNothing
  <2>1. Cardinality(Applied) \in Nat /\ Cardinality(Applied) <= 0
    BY AppliedIsFinite, FS_CardinalityType DEF IInv, CommitsCounted, Resolved
  <2>2. QED
    BY <2>1, AppliedIsFinite, FS_EmptySet
<1>2. QED
  BY <1>1, Inductive, PTL
---------------------------------------------------------------------------
(* What run() waits for                                                    *)

\* The attempt whose _run() is waited for can still move: its function has
\* begun and is not over, and no request of it was cut off in silence.  The
\* exception is a commit() that could not begin.
AwaitedAlive == \A n \in Attempts : Live(n) /\ fn[n] # "unended" => ~Still(n)

\* Such a commit() is the first attempt's, in callback mode, after requests
\* none of which was answered, and run() waits for it.
UnendedKnown ==
  \A n \in Attempts :
    /\ fn[n] \in {"starting", "unended"} => n = 1 /\ \A q \in Requests : req[n][q] # "ok"
    /\ fn[n] = "unended" => callback /\ Live(n)

\* A step after which attempt n is no longer waited for, and which changes
\* the function and the requests of no other.
LEMMA AliveOthers ==
  ASSUME AwaitedAlive, NEW n \in Attempts,
         \A m \in Attempts \ {n} : fn'[m] = fn[m] /\ req'[m] = req[m],
         \A m \in Attempts : Live(m)' => Live(m) /\ m # n
  PROVE  AwaitedAlive'
BY DEF AwaitedAlive, Still

\* What an attempt's function asks for, and how it ends.
LEMMA AliveFunction ==
  ASSUME Control, AwaitedAlive, NEW n \in Attempts, Reply(n) \/ Function(n)
  PROVE  AwaitedAlive'
<1>1. ASSUME NEW q \in Requests, Issue(n, q) PROVE AwaitedAlive'
  BY <1>1 DEF Issue, AwaitedAlive, Live, Still, Current, Control, TypeOK
<1>2. ASSUME Commit(n) \/ CommitBegun(n) PROVE AwaitedAlive'
  BY <1>2 DEF Commit, CommitBegun, AwaitedAlive, Live, Still, Current, Control, TypeOK
<1>3. ASSUME NEW q \in Requests, NEW e \in Errors \cup {"ok"}, Answer(n, q, e)
      PROVE  AwaitedAlive'
  <2>1. /\ Loop /\ fn' = fn /\ req[n][q] = "sent"
        /\ req' = [req EXCEPT ![n][q] = IF callback /\ ShouldRetry(e) THEN "cut" ELSE e]
    BY <1>3 DEF Answer, CallBack, Intercept, Loop
  <2>2. CASE callback /\ ShouldRetry(e)
    <3>1. Conclude(n, e)
      BY <1>3, <2>2 DEF Answer, CallBack
    <3>2. \A m \in Attempts : Live(m)' => Live(m) /\ m # n
      BY <2>1, <3>1, ConcludeEffect
    <3>3. QED
      BY <2>1, <3>2, AliveOthers DEF Control, TypeOK
  <2>3. CASE ~(callback /\ ShouldRetry(e))
    <3>1. verdict' = verdict
      BY <1>3, <2>3 DEF Answer, CallBack
    <3>2. e # "cut" /\ \A m \in Attempts : Live(m)' => Live(m)
      BY <2>1, <3>1 DEF Live, Loop, Current, Errors
    <3>3. \A m \in Attempts, p \in Requests : req'[m][p] = "cut" => req[m][p] = "cut"
      BY <2>1, <2>3, <3>2 DEF Control, TypeOK
    <3>4. QED
      BY <2>1, <3>2, <3>3 DEF AwaitedAlive, Still
  <2>4. QED
    BY <2>2, <2>3
<1>4. ASSUME NEW how \in {"ok"} \cup Errors, Loop, Conclude(n, how),
             fn' = [fn EXCEPT ![n] = "over"], req' = req
      PROVE  AwaitedAlive'
  <2>1. \A m \in Attempts : Live(m)' => Live(m) /\ m # n
    BY <1>4, ConcludeEffect
  <2>2. QED
    BY <1>4, <2>1, AliveOthers DEF Control, TypeOK
<1>5. ASSUME NEW q \in Requests, Throw(n, q) PROVE AwaitedAlive'
  BY <1>4, <1>5 DEF Throw, Loop
<1>6. ASSUME Finish(n) PROVE AwaitedAlive'
  BY <1>4, <1>6 DEF Finish, Loop
<1>7. ASSUME NEW e \in Errors \cup {"ok"}, Committed(n, e) PROVE AwaitedAlive'
  BY <1>4, <1>7 DEF Committed, Loop
<1>8. ASSUME NEW e \in Errors, CommitFail(n, e) PROVE AwaitedAlive'
  <2>1. PICK how \in {"ok"} \cup Errors : Conclude(n, how)
    BY <1>8 DEF CommitFail
  <2>2. QED
    BY <1>4, <1>8, <2>1 DEF CommitFail, Loop
<1>9. ASSUME NEW e \in Errors, CommitUnbegun(n, e) PROVE AwaitedAlive'
  <2>1. CASE callback /\ ~Intercept(e)
    <3>1. /\ fn'[n] = "unended" /\ req' = req
          /\ \A m \in Attempts \ {n} : fn'[m] = fn[m]
          /\ \A m \in Attempts : Live(m)' <=> Live(m)
      BY <1>9, <2>1 DEF CommitUnbegun, Live, Current, Control, TypeOK
    <3>2. QED
      BY <3>1 DEF AwaitedAlive, Still
  <2>2. CASE ~(callback /\ ~Intercept(e))
    BY <1>4, <1>9, <2>2 DEF CommitUnbegun, Loop
  <2>3. QED
    BY <2>1, <2>2
<1>10. QED
  BY <1>1, <1>2, <1>3, <1>5, <1>6, <1>7, <1>8, <1>9 DEF Reply, Function

\* Every step leaves the attempt that is waited for able to move.
LEMMA AliveKept ==
  ASSUME Control, AwaitedAlive, [Next]_vars
  PROVE  AwaitedAlive'
<1>1. CASE GetTransaction \/ BeginOk
  <2>1. Current \in Attempts /\ attempts' = attempts /\ req' = req
    BY <1>1, AttemptsFacts DEF Control, TypeOK, GetTransaction, BeginOk, Current
  <2>2. \A q \in Requests : req[Current][q] = "idle"
    BY <1>1, <2>1 DEF GetTransaction, BeginOk, Control, FutureIdle, Ahead
  <2>3. loop' = "running" => fn'[Current] = "running"
    BY <1>1, <2>1 DEF GetTransaction, BeginOk, Control, TypeOK
  <2>4. QED
    BY <2>1, <2>2, <2>3 DEF AwaitedAlive, Live, Still, Current
<1>2. CASE BeginFail \/ Settle \/ Wake
  <2>1. loop' # "running"
    BY <1>2 DEF BeginFail, Settle, Catch, Wake
  <2>2. QED
    BY <2>1 DEF AwaitedAlive, Live
<1>3. CASE UNCHANGED vars
  BY <1>3 DEF vars, AwaitedAlive, Live, Still, Current
<1>4. QED
  BY <1>1, <1>2, <1>3, AliveFunction DEF Next, Run

\* A step of attempt n's function that leaves 'unended' as it is.
LEMMA UnendedOther ==
  ASSUME UnendedKnown, NEW n \in Attempts, Loop, fn[n] # "unended",
         \A m \in Attempts \ {n} : fn'[m] = fn[m] /\ req'[m] = req[m],
         verdict' = verdict \/ n = Current,
         fn'[n] \notin {"starting", "unended"}
  PROVE  UnendedKnown'
BY DEF UnendedKnown, Live, Loop, Current

LEMMA UnendedFunction ==
  ASSUME Control, UnendedKnown, NEW n \in Attempts, Reply(n) \/ Function(n)
  PROVE  UnendedKnown'
<1>1. ASSUME Commit(n) PROVE UnendedKnown'
  BY <1>1 DEF Commit, Free, MayLackId, UnendedKnown, Live, Current, Control, TypeOK
<1>2. ASSUME NEW e \in Errors, CommitUnbegun(n, e), callback /\ ~Intercept(e) PROVE UnendedKnown'
  <2>1. fn[n] = "starting" /\ ~Still(n)
    BY <1>2 DEF CommitUnbegun, Still
  <2>2. Live(n)
    BY <2>1 DEF Control, OneAlive
  <2>3. QED
    BY <1>2, <2>1, <2>2 DEF CommitUnbegun, UnendedKnown, Live, Current, Control, TypeOK
<1>3. ASSUME NEW how, Conclude(n, how)
      PROVE  verdict' = verdict \/ n = Current
  BY <1>3 DEF Conclude
<1>4. CASE \/ \E q \in Requests : Issue(n, q) \/ Throw(n, q)
           \/ \E q \in Requests, e \in Errors \cup {"ok"} : Answer(n, q, e)
           \/ \E e \in Errors \cup {"ok"} : Committed(n, e)
           \/ \E e \in Errors : CommitFail(n, e)
           \/ Finish(n) \/ CommitBegun(n)
  <2>1. Loop /\ fn[n] \in {"running", "starting", "committing"}
    BY <1>4 DEF Loop, Issue, Throw, Answer, Committed, CommitFail, Finish, Free, CommitBegun
  <2>2. fn'[n] \in {"running", "committing", "over"} /\ \A m \in Attempts \ {n} : fn'[m] = fn[m]
    BY <1>4 DEF Issue, Throw, Answer, Committed, CommitFail, Finish, Free, CommitBegun, Control, TypeOK
  <2>3. \A m \in Attempts \ {n} : req'[m] = req[m]
    BY <1>4 DEF Issue, Throw, Answer, CallBack, Committed, CommitFail, Finish, CommitBegun,
                Control, TypeOK
  <2>4. verdict' = verdict \/ n = Current
    BY <1>3, <1>4 DEF Issue, Throw, Answer, CallBack, Committed, CommitFail, Finish, CommitBegun
  <2>5. QED
    BY <2>1, <2>2, <2>3, <2>4, UnendedOther
<1>5. ASSUME NEW e \in Errors, CommitUnbegun(n, e), ~(callback /\ ~Intercept(e))
      PROVE  UnendedKnown'
  <2>1. Loop /\ fn[n] = "starting" /\ fn' = [fn EXCEPT ![n] = "over"] /\ req' = req /\ Conclude(n, e)
    BY <1>5 DEF CommitUnbegun, Loop
  <2>2. fn'[n] = "over" /\ \A m \in Attempts \ {n} : fn'[m] = fn[m]
    BY <2>1 DEF Control, TypeOK
  <2>3. QED
    BY <1>3, <2>1, <2>2, UnendedOther
<1>6. QED
  BY <1>1, <1>2, <1>4, <1>5 DEF Reply, Function

LEMMA UnendedKept ==
  ASSUME Control, UnendedKnown, [Next]_vars
  PROVE  UnendedKnown'
<1>1. CASE GetTransaction \/ BeginOk
  <2>1. loop # "running" /\ \A n \in Attempts : fn[n] # "unended"
    BY <1>1 DEF GetTransaction, BeginOk, UnendedKnown, Live
  <2>2. \A n \in Attempts : fn'[n] \in {fn[n], "running"} /\ req' = req
    BY <1>1 DEF GetTransaction, BeginOk, Control, TypeOK
  <2>3. QED
    BY <2>1, <2>2 DEF UnendedKnown
<1>2. CASE BeginFail \/ Settle \/ Wake
  <2>1. \A n \in Attempts : fn[n] # "unended"
    BY <1>2 DEF BeginFail, Settle, Wake, UnendedKnown, Live
  <2>2. fn' = fn /\ req' = req
    BY <1>2 DEF BeginFail, Settle, Wake
  <2>3. QED
    BY <2>1, <2>2 DEF UnendedKnown
<1>3. CASE UNCHANGED vars
  BY <1>3 DEF vars, UnendedKnown, Live, Current
<1>4. QED
  BY <1>1, <1>2, <1>3, UnendedFunction DEF Next, Run

\* While run() waits there is exactly one attempt that can move, the one it
\* waits for: however its requests fail, run() is not left waiting for a
\* function that will not come to an end, and nobody else's goes on.  The one
\* exception is a function that is over with a transaction that did not end.
THEOREM OnlyAwaitedMoves ==
  Spec => [](\A n \in Attempts : Live(n) <=> ~Still(n) \/ fn[n] = "unended")
<1>1. Init => AwaitedAlive /\ UnendedKnown
  BY DEF Init, AwaitedAlive, UnendedKnown, Live
<1>2. IInv /\ AwaitedAlive /\ UnendedKnown /\ [Next]_vars => AwaitedAlive' /\ UnendedKnown'
  BY AliveKept, UnendedKept DEF IInv
<1>3. Spec => [](AwaitedAlive /\ UnendedKnown)
  BY <1>1, <1>2, Inductive, PTL DEF Spec
<1>4. IInv /\ AwaitedAlive /\ UnendedKnown
        => \A n \in Attempts : Live(n) <=> ~Still(n) \/ fn[n] = "unended"
  BY DEF IInv, Control, OneAlive, AwaitedAlive, UnendedKnown
<1>5. QED
  BY <1>3, <1>4, Inductive, PTL

\* run() is left waiting only by the first attempt in callback mode, when none
\* of its requests was answered and the begin() of its commit() failed.
THEOREM OnlyUnbegunWaits == Spec => [](\A n \in Attempts : fn[n] = "unended" => n = 1 /\ Unended)
<1>1. Init => UnendedKnown
  BY DEF Init, UnendedKnown
<1>2. IInv /\ UnendedKnown /\ [Next]_vars => UnendedKnown'
  BY UnendedKept DEF IInv
<1>3. UnendedKnown => \A n \in Attempts : fn[n] = "unended" => n = 1 /\ Unended
  BY DEF UnendedKnown, Unended
<1>4. QED
  BY <1>1, <1>2, <1>3, Inductive, PTL DEF Spec
=============================================================================

------------------------ MODULE MultiplexedSession ------------------------
(***************************************************************************)
(* The multiplexed session of src/src/multiplexed-session.ts: one session,  *)
(* cached and shared by all callers, created at start-up, created on demand *)
(* when there is none, and replaced every seven days by a timer.            *)
(*                                                                          *)
(* Time runs in refresh intervals (weeks): a CreateSession call carries a   *)
(* deadline far below that, so no week passes while one is in flight.       *)
(***************************************************************************)
EXTENDS Integers

CONSTANTS
  Callers,     \* concurrent users of getSession()
  ExpiryAge    \* weeks after which a session is older than its 30 days: 5

ASSUME ExpiryAssumption == ExpiryAge \in Nat \ {0}

VARIABLES
  session,   \* _multiplexedSession: its age in weeks, or NoSession for null
  shared,    \* _sharedMuxSessionWaitPromise is not null
  inflight,  \* the number of unanswered CreateSession calls
  upkeep,    \* "new", then "starting" while createSession() awaits its call,
             \* then "armed" once _maintain() has set the timer, or "abandoned"
  phase,     \* phase[c]: "idle", "waiting" for the shared promise, "served"
  misses     \* history: failed refreshes in a row of the current session

vars == <<session, shared, inflight, upkeep, phase, misses>>

NoSession == -1
Expired   == session = ExpiryAge

---------------------------------------------------------------------------
\* Mutant: nobody looks at the shared promise.
CreateAlways == inflight' = inflight + 1 /\ shared' = TRUE

\* Mutant: a promise is awaited that nobody started.
JoinOnly == inflight' = inflight /\ shared' = TRUE

\* _createSession() up to its await: join the call in flight or start one.
JoinOrCreate == /\ inflight' = IF shared THEN inflight ELSE inflight + 1
                /\ shared' = TRUE

\* createSession(), called by SessionFactory's constructor.
CreateSession == /\ upkeep = "new"
                 /\ upkeep' = "starting"
                 /\ JoinOrCreate
                 /\ UNCHANGED <<session, phase, misses>>

\* getSession(): the cached session whatever its age, else the shared promise.
GetSession(c) ==
  /\ upkeep # "new"
  /\ phase[c] = "idle"
  /\ \/ /\ session # NoSession
        /\ phase' = [phase EXCEPT ![c] = "served"]
        /\ UNCHANGED <<shared, inflight>>
     \/ /\ session = NoSession
        /\ phase' = [phase EXCEPT ![c] = "waiting"]
        /\ JoinOrCreate
  /\ UNCHANGED <<session, upkeep, misses>>

\* The caller is through with the session; there is nothing to release.
Done(c) == /\ phase[c] = "served"
           /\ phase' = [phase EXCEPT ![c] = "idle"]
           /\ UNCHANGED <<session, shared, inflight, upkeep, misses>>

\* Mutant: the shared promise swallows the error.
SettleServed(p) == [c \in Callers |-> IF phase[c] = "waiting" THEN "served" ELSE phase[c]]

\* The shared promise settles: everyone who awaits it goes on to state p.
Settle(p) == [c \in Callers |-> IF phase[c] = "waiting" THEN p ELSE phase[c]]

\* A CreateSession call is answered; finally() resets the shared promise.
EndCall(p) == /\ inflight > 0
              /\ inflight' = inflight - 1
              /\ shared' = FALSE
              /\ phase' = Settle(p)

\* Success: the session is replaced and, after the first call, _maintain()
\* sets the timer.
CreateOk == /\ EndCall("served")
            /\ session' = 0
            /\ misses' = 0
            /\ upkeep' = IF upkeep = "starting" THEN "armed" ELSE upkeep

\* Failure: those who wait are rejected and the old session stays.  If it was
\* the first call, _maintain() never runs.
CreateFail == /\ EndCall("idle")
              /\ upkeep' = IF upkeep = "starting" THEN "abandoned" ELSE upkeep
              /\ misses' = IF session # NoSession /\ misses < ExpiryAge
                           THEN misses + 1 ELSE misses
              /\ UNCHANGED session

\* Mutant: the timer only replaces a session that is missing.
RefreshMissing == IF upkeep = "armed" /\ session = NoSession
                  THEN JoinOrCreate ELSE UNCHANGED <<shared, inflight>>

\* The interval _maintain() sets fires, if it was set.
Refresh == IF upkeep = "armed" THEN JoinOrCreate ELSE UNCHANGED <<shared, inflight>>

\* The session's age a week later; beyond ExpiryAge it is all the same.
Older == IF session \in 0..ExpiryAge - 1 THEN session + 1 ELSE session

\* A week passes.
Week == /\ upkeep # "new"
        /\ inflight = 0
        /\ session' = Older
        /\ Refresh
        /\ UNCHANGED <<upkeep, phase, misses>>

---------------------------------------------------------------------------
Init == /\ session = NoSession
        /\ shared = FALSE /\ inflight = 0
        /\ upkeep = "new"
        /\ phase = [c \in Callers |-> "idle"]
        /\ misses = 0

Next == \/ CreateSession \/ CreateOk \/ CreateFail \/ Week
        \/ \E c \in Callers : GetSession(c) \/ Done(c)

Spec == Init /\ [][Next]_vars

\* A CreateSession call is always answered, by its deadline if by nothing else.
FairSpec == Spec /\ WF_vars(CreateOk \/ CreateFail)

---------------------------------------------------------------------------
(* Properties                                                              *)

\* The range of every variable, from which the proofs start.
TypeOK == /\ session \in {NoSession} \cup 0..ExpiryAge
          /\ shared \in BOOLEAN
          /\ inflight \in Nat
          /\ upkeep \in {"new", "starting", "armed", "abandoned"}
          /\ phase \in [Callers -> {"idle", "waiting", "served"}]
          /\ misses \in 0..ExpiryAge

\* However many callers and timers ask at once, one CreateSession call is out,
\* and the shared promise is set exactly while it is.
SingleFlight == inflight = IF shared THEN 1 ELSE 0

\* A caller who is told its request succeeded has a session, never null.
NeverNull == \A c \in Callers : phase[c] = "served" => session # NoSession

\* Under a running timer a session expires only after the refreshes of all
\* the weeks before, four for a 30-day session, failed.
FourChances == upkeep = "armed" /\ Expired => misses >= ExpiryAge - 1

\* Every caller that waits is answered.
Answered == \A c \in Callers : phase[c] = "waiting" ~> phase[c] # "waiting"
===========================================================================

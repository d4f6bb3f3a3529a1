--------------------- MODULE MultiplexedSessionProofs ---------------------
(***************************************************************************)
(* Proofs about MultiplexedSession, for any callers and any expiry.        *)
(***************************************************************************)
EXTENDS MultiplexedSession, TLAPS

\* The session's age is at most the failed refreshes since it was created,
\* plus the one under way.
AgeIsMissed ==
  upkeep = "armed" => session # NoSession /\ session <= misses + inflight

\* Nobody waits on a promise that no call will settle.
WaitersAreServed == \A c \in Callers : phase[c] = "waiting" => inflight > 0

IInv == TypeOK /\ SingleFlight /\ WaitersAreServed /\ NeverNull /\ AgeIsMissed

---------------------------------------------------------------------------
\* _createSession() keeps one call in flight and the shared promise set.
LEMMA JoinOrCreateEffect ==
  ASSUME IInv, JoinOrCreate
  PROVE  inflight' = 1 /\ shared' = TRUE
BY DEF JoinOrCreate, IInv, TypeOK, SingleFlight

\* An answer leaves no call in flight and nobody waiting.
LEMMA EndCallEffect ==
  ASSUME IInv, NEW p \in {"idle", "served"}, EndCall(p)
  PROVE  /\ inflight = 1 /\ inflight' = 0 /\ shared' = FALSE
         /\ phase' \in [Callers -> {"idle", "served"}]
         /\ \A c \in Callers : phase'[c] = "served" => p = "served" \/ phase[c] = "served"
<1>1. inflight = 1 /\ inflight' = 0 /\ shared' = FALSE
  BY DEF EndCall, IInv, TypeOK, SingleFlight
<1>2. phase' = [c \in Callers |-> IF phase[c] = "waiting" THEN p ELSE phase[c]]
  BY DEF EndCall, Settle
<1>3. QED
  BY <1>1, <1>2 DEF IInv, TypeOK

\* The start-up call keeps the invariant.
LEMMA CreateSessionKeeps ==
  ASSUME IInv, CreateSession
  PROVE  IInv'
<1>1. inflight' = 1 /\ shared' = TRUE
  BY JoinOrCreateEffect DEF CreateSession
<1>2. QED
  BY <1>1 DEF CreateSession, IInv, TypeOK, SingleFlight, WaitersAreServed, NeverNull,
              AgeIsMissed

\* A request keeps the invariant: it only ever waits on a call in flight.
LEMMA GetSessionKeeps ==
  ASSUME IInv, NEW c \in Callers, GetSession(c)
  PROVE  IInv'
<1>1. CASE session # NoSession /\ phase' = [phase EXCEPT ![c] = "served"]
           /\ UNCHANGED <<shared, inflight>>
  BY <1>1 DEF GetSession, IInv, TypeOK, SingleFlight, WaitersAreServed, NeverNull, AgeIsMissed
<1>2. CASE session = NoSession /\ phase' = [phase EXCEPT ![c] = "waiting"] /\ JoinOrCreate
  <2>1. inflight' = 1 /\ shared' = TRUE
    BY <1>2, JoinOrCreateEffect
  <2>2. session' = session /\ upkeep' = upkeep /\ misses' = misses
    BY DEF GetSession
  <2>3. \A d \in Callers : phase'[d] = "served" => phase[d] = "served"
    BY <1>2 DEF IInv, TypeOK
  <2>4. TypeOK' /\ SingleFlight' /\ WaitersAreServed' /\ NeverNull'
    BY <1>2, <2>1, <2>2, <2>3 DEF IInv, TypeOK, SingleFlight, WaitersAreServed, NeverNull
  <2>5. AgeIsMissed'
    BY <1>2, <2>2 DEF IInv, AgeIsMissed
  <2>6. QED
    BY <2>4, <2>5 DEF IInv
<1>3. QED
  BY <1>1, <1>2 DEF GetSession

\* A caller who leaves keeps the invariant.
LEMMA DoneKeeps ==
  ASSUME IInv, NEW c \in Callers, Done(c)
  PROVE  IInv'
BY DEF Done, IInv, TypeOK, SingleFlight, WaitersAreServed, NeverNull, AgeIsMissed

\* A new session keeps the invariant.
LEMMA CreateOkKeeps ==
  ASSUME IInv, CreateOk
  PROVE  IInv'
<1>1. /\ inflight = 1 /\ inflight' = 0 /\ shared' = FALSE
      /\ phase' \in [Callers -> {"idle", "served"}]
  BY EndCallEffect DEF CreateOk
<1>2. session' = 0 /\ misses' = 0 /\ upkeep' \in {"new", "armed", "abandoned"}
  BY DEF CreateOk, IInv, TypeOK
<1>3. TypeOK'
  <2>1. 0 \in 0..ExpiryAge
    BY ExpiryAssumption
  <2>2. phase' \in [Callers -> {"idle", "waiting", "served"}]
    BY <1>1
  <2>3. QED
    BY <1>1, <1>2, <2>1, <2>2 DEF TypeOK
<1>4. SingleFlight' /\ WaitersAreServed'
  BY <1>1 DEF SingleFlight, WaitersAreServed
<1>5. NeverNull' /\ AgeIsMissed'
  BY <1>1, <1>2 DEF NeverNull, AgeIsMissed, NoSession
<1>6. QED
  BY <1>3, <1>4, <1>5 DEF IInv

\* A failed call keeps the invariant: the miss makes up for the call.
LEMMA CreateFailKeeps ==
  ASSUME IInv, CreateFail
  PROVE  IInv'
<1>1. /\ inflight = 1 /\ inflight' = 0 /\ shared' = FALSE
      /\ phase' \in [Callers -> {"idle", "served"}]
      /\ \A c \in Callers : phase'[c] = "served" => phase[c] = "served"
  BY EndCallEffect DEF CreateFail
<1>2. session' = session /\ upkeep' \in {"new", "armed", "abandoned"}
      /\ (upkeep' = "armed" => upkeep = "armed")
  BY DEF CreateFail, IInv, TypeOK
<1>3. misses' = IF session # NoSession /\ misses < ExpiryAge THEN misses + 1 ELSE misses
  BY DEF CreateFail
<1>4. TypeOK'
  <2>1. misses' \in 0..ExpiryAge
    BY <1>3, ExpiryAssumption DEF IInv, TypeOK
  <2>2. phase' \in [Callers -> {"idle", "waiting", "served"}]
    BY <1>1
  <2>3. QED
    BY <1>1, <1>2, <2>1, <2>2 DEF IInv, TypeOK
<1>5. SingleFlight' /\ WaitersAreServed' /\ NeverNull'
  BY <1>1, <1>2 DEF IInv, SingleFlight, WaitersAreServed, NeverNull
<1>6. AgeIsMissed'
  BY <1>1, <1>2, <1>3, ExpiryAssumption DEF IInv, TypeOK, AgeIsMissed, NoSession
<1>7. QED
  BY <1>4, <1>5, <1>6 DEF IInv

\* A week keeps the invariant: with the timer set, a call makes up for it.
LEMMA WeekKeeps ==
  ASSUME IInv, Week
  PROVE  IInv'
<1>1. /\ inflight = 0 /\ upkeep' = upkeep /\ phase' = phase /\ misses' = misses
      /\ session' = IF session \in 0..ExpiryAge - 1 THEN session + 1 ELSE session
  BY DEF Week, Older
<1>2. CASE upkeep = "armed" /\ JoinOrCreate
  <2>1. inflight' = 1 /\ shared' = TRUE
    BY <1>2, JoinOrCreateEffect
  <2>2. QED
    BY <1>1, <1>2, <2>1, ExpiryAssumption
       DEF IInv, TypeOK, SingleFlight, WaitersAreServed, NeverNull, AgeIsMissed, NoSession
<1>3. CASE upkeep # "armed" /\ UNCHANGED <<shared, inflight>>
  BY <1>1, <1>3, ExpiryAssumption
     DEF IInv, TypeOK, SingleFlight, WaitersAreServed, NeverNull, AgeIsMissed, NoSession
<1>4. QED
  BY <1>2, <1>3 DEF Week, Refresh

---------------------------------------------------------------------------
\* The invariant holds in every state of every behaviour.
THEOREM Inductive == Spec => []IInv
<1>1. Init => IInv
  <2> SUFFICES ASSUME Init PROVE IInv
    OBVIOUS
  <2>1. TypeOK
    <3>1. 0 \in 0..ExpiryAge
      BY ExpiryAssumption
    <3>2. phase \in [Callers -> {"idle", "waiting", "served"}]
      BY DEF Init
    <3>3. QED
      BY <3>1, <3>2 DEF Init, TypeOK
  <2>2. SingleFlight /\ WaitersAreServed /\ NeverNull /\ AgeIsMissed
    BY DEF Init, SingleFlight, WaitersAreServed, NeverNull, AgeIsMissed
  <2>3. QED
    BY <2>1, <2>2 DEF IInv
<1>2. IInv /\ [Next]_vars => IInv'
  <2> SUFFICES ASSUME IInv, [Next]_vars PROVE IInv'
    OBVIOUS
  <2>1. CASE Next
    BY <2>1, CreateSessionKeeps, CreateOkKeeps, CreateFailKeeps, WeekKeeps,
       GetSessionKeeps, DoneKeeps DEF Next
  <2>2. CASE UNCHANGED vars
    BY <2>2 DEF vars, IInv, TypeOK, SingleFlight, WaitersAreServed, NeverNull, AgeIsMissed
  <2>3. QED
    BY <2>1, <2>2
<1>3. QED
  BY <1>1, <1>2, PTL DEF Spec

\* One CreateSession call is in flight, however many ask, and the shared
\* promise is set exactly while it is.
THEOREM OneCall == Spec => []SingleFlight
<1>1. IInv => SingleFlight
  BY DEF IInv
<1>2. QED
  BY <1>1, Inductive, PTL

\* A caller waits only while a call is in flight, and is never served null.
THEOREM NobodyForgotten == Spec => [](WaitersAreServed /\ NeverNull)
<1>1. IInv => WaitersAreServed /\ NeverNull
  BY DEF IInv
<1>2. QED
  BY <1>1, Inductive, PTL

\* With the timer set, a session expires only after all its refreshes failed.
THEOREM RefreshedInTime == Spec => []FourChances
<1>1. IInv => FourChances
  <2> SUFFICES ASSUME IInv, upkeep = "armed", session = ExpiryAge
               PROVE  misses >= ExpiryAge - 1
    BY DEF FourChances, Expired
  <2>1. inflight \in 0..1
    BY DEF IInv, TypeOK, SingleFlight
  <2>2. QED
    BY <2>1, ExpiryAssumption DEF IInv, TypeOK, AgeIsMissed
<1>2. QED
  BY <1>1, Inductive, PTL
===========================================================================

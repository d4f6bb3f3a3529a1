-------------------------- MODULE SessionUseProofs --------------------------
(***************************************************************************)
(* Proofs about SessionUse, for any calls, sessions and losses.            *)
(***************************************************************************)
EXTENDS SessionUse, TLAPS

\* A call at work has a session of the kind the factory gives out, and is the
\* one that had it last; what it calls is an operation.
Holds == /\ \A c \in Calls : at[c] # "idle" => op[c] \in Ops
         /\ \A c \in Calls : Working(c) =>
              /\ session[c] \in IF mux THEN {Shared} ELSE Sessions
              /\ session[c] \in Sessions => by[session[c]] = op[c]
              /\ op[c] = "getTransaction" => at[c] = "using"

\* No session is due to be released that is in the pool.
Apart == free \cap ticks = {}

\* A lost session that was started over from is marked until it is replaced.
Marked == known \subseteq dead \cap noted

IInv == /\ TypeOK /\ InOnePlace /\ ReleasedOnce /\ NoOtherLeak /\ RetriedElsewhere
        /\ Holds /\ Apart /\ Marked

---------------------------------------------------------------------------
\* The operations that may leave a session behind.
Leaky == {"createBatchTransaction", "batchWriteAtLeastOnce"} \cup Abandonments

WorkPlaces == {"begin", "fresh", "run", "flowing", "using"}

\* A step that returns the sessions 'back' to the pool, with marks as the
\* lost ones, and announces the release of the sessions 'due'.
Gives(back, due, marks) ==
  /\ free' = free \cup back /\ ticks' = ticks \cup due
  /\ twice' = twice /\ noted' = marks \ back /\ dead' = dead \ (back \cap marks)

\* What is released or announced is the session of call c, if it is regular.
Own(c, S) == S \subseteq {session[c]} \cap Sessions

\* release() of a session that is not in the pool is one return.
LEMMA ReleaseEffect ==
  ASSUME IInv, NEW S, S \cap free = {}, NEW marks, Release(S, marks), UNCHANGED ticks
  PROVE  Gives(S \cap Sessions, {}, marks)
BY DEF Release, Gives, IInv, ReleasedOnce, TypeOK

LEMMA EndSoonEffect ==
  ASSUME IInv, NEW c \in Calls, EndSoon(c), NEW marks, KeepAll(marks)
  PROVE  Gives({}, {session[c]} \cap Sessions, marks)
BY DEF EndSoon, KeepAll, Gives, IInv, TypeOK

LEMMA WorkingSession ==
  ASSUME IInv, NEW c \in Calls, Working(c)
  PROVE  /\ {session[c]} \cap free = {} /\ op[c] \in Ops /\ op[c] \in AllOps
         /\ session[c] \in Sessions => session[c] \notin ticks /\ ~mux
         /\ at[c] # "idle"
<1>1. session[c] \in Sessions => session[c] # Shared
  BY UseAssumption
<1>2. Shared \notin free
  BY UseAssumption DEF IInv, TypeOK
<1>3. mux => session[c] = Shared
  BY DEF IInv, Holds
<1>4. QED
  BY <1>1, <1>2, <1>3, UseAssumption DEF IInv, InOnePlace, Holds, Working, TypeOK

\* When an operation leaves its session, it gives it back or is a leaky one.
LEMMA LeaveEffect ==
  ASSUME IInv, NEW c \in Calls, Working(c), at[c] # "using", NEW e, NEW marks, Leave(c, e, marks)
  PROVE  \E back, due \in SUBSET ({session[c]} \cap Sessions) :
           /\ Gives(back, due, marks) /\ back \cap due = {}
           /\ session[c] \in Sessions => session[c] \in back \cup due \/ op[c] \in Leaky
<1>1. CASE Releases(c, e) /\ op[c] \in Listens
  <2>1. Gives({}, {session[c]} \cap Sessions, marks)
    BY <1>1, EndSoonEffect DEF Leave, GiveBack
  <2>2. QED
    BY <2>1
<1>2. CASE Releases(c, e) /\ op[c] \notin Listens
  <2>1. Release({session[c]}, marks) /\ UNCHANGED ticks
    BY <1>2 DEF Leave, GiveBack
  <2>2. Gives({session[c]} \cap Sessions, {}, marks)
    BY <2>1, ReleaseEffect, WorkingSession
  <2>3. QED
    BY <2>2
<1>3. CASE ~Releases(c, e)
  <2>1. Gives({}, {}, marks)
    BY <1>3 DEF Leave, KeepAll, Gives, IInv, TypeOK
  <2>2. op[c] # "getTransaction"
    BY DEF IInv, Holds
  <2>3. op[c] \in Leaky
    BY <1>3, <2>2, WorkingSession DEF Releases, Leaky, AllOps
  <2>4. QED
    BY <2>1, <2>3
<1>4. QED
  BY <1>1, <1>2, <1>3

\* What the marks are made of.
LEMMA MarksType ==
  ASSUME IInv, NEW c \in Calls, NEW e
  PROVE  noted \subseteq Marks(c, e) /\ Marks(c, e) \subseteq Sessions
BY DEF Marks, IInv, TypeOK

---------------------------------------------------------------------------
\* A step that changes nothing but where call c is, which goes on working or
\* has no session before or after.
LEMMA MoveKeeps ==
  ASSUME IInv, NEW c \in Calls, NEW x, at' = [at EXCEPT ![c] = x],
         x \in {"getting", "begin", "fresh", "run", "flowing", "using", "done", "unheard"},
         Working(c) <=> x \in WorkPlaces,
         op[c] = "getTransaction" /\ Working(c) => x = "using",
         \/ at[c] # "idle" /\ op' = op
         \/ at[c] = "idle" /\ \E o \in Ops : op' = [op EXCEPT ![c] = o],
         UNCHANGED <<mux, nested, session, poolVars, ticks, losses, known, by>>
  PROVE  IInv'
<1>1. \A d \in Calls : (Working(d)' <=> Working(d)) /\ (Working(d) => op'[d] = op[d])
  BY DEF Working, WorkPlaces, IInv, TypeOK
<1>2. TypeOK'
  BY DEF IInv, TypeOK, poolVars
<1>3. InOnePlace' /\ ReleasedOnce' /\ RetriedElsewhere' /\ Apart' /\ Marked'
  BY <1>1 DEF IInv, InOnePlace, ReleasedOnce, RetriedElsewhere, Apart, Marked, poolVars
<1>4. Leaked' = Leaked
  BY <1>1 DEF Leaked, poolVars
<1>5. NoOtherLeak'
  BY <1>4 DEF IInv, NoOtherLeak
<1>6. Holds'
  <2>1. \A d \in Calls : at'[d] # "idle" => op'[d] \in Ops
    BY DEF IInv, Holds, TypeOK
  <2>2. ASSUME NEW d \in Calls, Working(d)'
        PROVE  /\ session'[d] \in IF mux' THEN {Shared} ELSE Sessions
               /\ session'[d] \in Sessions => by'[session'[d]] = op'[d]
               /\ op'[d] = "getTransaction" => at'[d] = "using"
    BY <1>1, <2>2 DEF IInv, Holds, TypeOK
  <2>3. QED
    BY <2>1, <2>2 DEF Holds
<1>7. QED
  BY <1>2, <1>3, <1>5, <1>6 DEF IInv

\* A step in which call c leaves its session for x: what it does to the pool,
\* and the sessions it is known to have started over from.
Departs(c, x, back, due, marks, more) ==
  /\ Working(c) /\ x \in {"getting", "done", "unheard"} /\ at' = [at EXCEPT ![c] = x]
  /\ UNCHANGED <<mux, op, session, losses>> /\ nested' \in [Calls -> BOOLEAN]
  /\ Own(c, back) /\ Own(c, due) /\ back \cap due = {}
  /\ noted \subseteq marks /\ marks \subseteq Sessions
  /\ Gives(back, due, marks)
  /\ by' = by \/ (back \cup due = {} /\ \E how \in Abandonments : Abandon(c, how))
  /\ session[c] \in Sessions => session[c] \in back \cup due \/ by'[session[c]] \in Leaky
  /\ Own(c, more) /\ more \subseteq dead \cap marks
  /\ known' = (known \cup more) \cap dead'

LEMMA DepartKeeps ==
  ASSUME IInv, NEW c \in Calls, NEW x, NEW back, NEW due, NEW marks, NEW more,
         Departs(c, x, back, due, marks, more)
  PROVE  IInv'
<1> USE DEF Departs, Own
<1>1. \A d \in Calls : Working(d)' <=> Working(d) /\ d # c
  BY DEF Working, IInv, TypeOK
<1>2. session[c] \notin free \cup ticks \/ session[c] \notin Sessions
  BY WorkingSession
<1>3. by' \in [Sessions -> AllOps \cup Abandonments \cup {"none"}]
      /\ \A s \in Sessions : s # session[c] => by'[s] = by[s]
  BY DEF Abandon, IInv, TypeOK
<1>4. TypeOK'
  BY <1>3 DEF Gives, IInv, TypeOK
<1>5. InOnePlace'
  <2>1. ASSUME NEW d \in Calls, Working(d), d # c, session[d] # Shared
        PROVE  session[d] \notin free \cup ticks /\ session[d] # session[c]
    BY <2>1 DEF IInv, InOnePlace
  <2>2. QED
    BY <1>1, <2>1 DEF Gives, IInv, InOnePlace
<1>6. ReleasedOnce' /\ Apart'
  BY <1>2 DEF Gives, IInv, ReleasedOnce, Apart
<1>7. Marked' /\ RetriedElsewhere'
  BY <1>2 DEF Gives, IInv, Marked, RetriedElsewhere
<1>8. Holds'
  <2>1. \A d \in Calls : at'[d] # "idle" => op'[d] \in Ops
    BY WorkingSession DEF IInv, Holds, TypeOK
  <2>2. ASSUME NEW d \in Calls, Working(d)'
        PROVE  /\ session'[d] \in IF mux' THEN {Shared} ELSE Sessions
               /\ session'[d] \in Sessions => by'[session'[d]] = op'[d]
               /\ op'[d] = "getTransaction" => at'[d] = "using"
    <3>1. Working(d) /\ d # c /\ at'[d] = at[d]
      BY <1>1, <2>2 DEF IInv, TypeOK
    <3>2. session[d] \in Sessions => session[d] # session[c]
      BY <3>1, UseAssumption DEF IInv, InOnePlace
    <3>3. QED
      BY <3>1, <3>2, <1>3 DEF IInv, Holds
  <2>3. QED
    BY <2>1, <2>2 DEF Holds
<1>9. NoOtherLeak'
  <2>1. ASSUME NEW s \in Leaked', s # session[c]
        PROVE  s \in Leaked /\ by'[s] = by[s]
    BY <2>1, <1>1, <1>3 DEF Leaked, Gives
  <2>2. ASSUME NEW s \in Leaked', s = session[c]
        PROVE  by'[s] \in Leaky
    BY <2>2 DEF Leaked, Gives
  <2>3. QED
    BY <2>1, <2>2 DEF IInv, NoOtherLeak, Leaky
<1>10. QED
  BY <1>4, <1>5, <1>6, <1>7, <1>8, <1>9 DEF IInv

---------------------------------------------------------------------------
LEMMA StartKeeps ==
  ASSUME IInv, NEW c \in Calls, NEW o \in Ops, Start(c, o)
  PROVE  IInv'
<1>1. at[c] = "idle" /\ at' = [at EXCEPT ![c] = "getting"] /\ op' = [op EXCEPT ![c] = o]
  BY DEF Start
<1>2. ~Working(c) /\ "getting" \notin WorkPlaces
  BY <1>1 DEF Working, WorkPlaces
<1>3. QED
  BY <1>1, <1>2, MoveKeeps DEF Start

\* The pool lends a session nobody has; the multiplexed one is for all.
LEMMA GetSessionKeeps ==
  ASSUME IInv, NEW c \in Calls, GetSession(c)
  PROVE  IInv'
<1>1. /\ at[c] = "getting" /\ at' = [at EXCEPT ![c] = First(op[c])]
      /\ UNCHANGED <<mux, op, nested, ticks, dead, noted, twice, losses, known>>
  BY DEF GetSession
<1>2. PICK s \in IF mux THEN {Shared} ELSE free :
        /\ session' = [session EXCEPT ![c] = s] /\ free' = free \ {s}
        /\ by' = IF mux THEN by ELSE [by EXCEPT ![s] = op[c]]
  BY DEF GetSession
<1>3. op[c] \in Ops /\ op[c] \in AllOps
  BY <1>1, UseAssumption DEF IInv, Holds
<1>4. First(op[c]) \in {"begin", "fresh", "using", "run"} /\ (op[c] = "getTransaction" => First(op[c]) = "using")
  BY DEF First, Begins
<1>5. ~Working(c) /\ \A d \in Calls : Working(d)' <=> Working(d) \/ d = c
  BY <1>1, <1>4 DEF Working, IInv, TypeOK
<1>6. (mux => s = Shared) /\ (~mux => s \in Sessions /\ s \in free /\ s # Shared) /\ Shared \notin free
  BY <1>2, UseAssumption DEF IInv, TypeOK
<1>7. TypeOK'
  BY <1>1, <1>2, <1>3, <1>4, <1>6 DEF IInv, TypeOK
<1>8. \A d \in Calls : Working(d) => session'[d] = session[d] /\ (session[d] = s => s = Shared)
  BY <1>2, <1>5, <1>6 DEF IInv, InOnePlace, TypeOK
<1>9. session'[c] = s
  BY <1>2 DEF IInv, TypeOK
<1>10. InOnePlace'
  <2>1. s # Shared => s \notin free' \cup ticks'
    BY <1>1, <1>2, <1>6 DEF IInv, Apart
  <2>2. ASSUME NEW d \in Calls, Working(d)', session'[d] # Shared
        PROVE  /\ session'[d] \notin free' \cup ticks'
               /\ \A f \in Calls \ {d} : Working(f)' => session'[f] # session'[d]
    <3>1. CASE d = c
      BY <1>5, <1>8, <1>9, <2>1, <2>2, <3>1
    <3>2. CASE d # c
      <4>1. Working(d) /\ session'[d] = session[d] /\ session[d] # s
        BY <1>5, <1>8, <2>2, <3>2
      <4>2. \A f \in Calls \ {d} : Working(f) => session'[f] # session'[d]
        BY <1>8, <2>2, <4>1 DEF IInv, InOnePlace
      <4>3. session'[d] \notin free' \cup ticks'
        BY <1>1, <1>2, <2>2, <4>1 DEF IInv, InOnePlace
      <4>4. QED
        BY <1>5, <1>9, <4>1, <4>2, <4>3
    <3>3. QED
      BY <3>1, <3>2
  <2>3. QED
    BY <2>2 DEF InOnePlace
<1>11. ReleasedOnce' /\ Apart' /\ Marked' /\ RetriedElsewhere'
  BY <1>1, <1>2 DEF IInv, ReleasedOnce, Apart, Marked, RetriedElsewhere
<1>12. Holds'
  <2>1. \A d \in Calls : at'[d] # "idle" => op'[d] \in Ops
    BY <1>1, <1>3 DEF IInv, Holds, TypeOK
  <2>2. ASSUME NEW d \in Calls, Working(d)'
        PROVE  /\ session'[d] \in IF mux' THEN {Shared} ELSE Sessions
               /\ session'[d] \in Sessions => by'[session'[d]] = op'[d]
               /\ op'[d] = "getTransaction" => at'[d] = "using"
    <3>1. CASE d = c
      BY <1>1, <1>2, <1>4, <1>6, <1>9, <3>1, UseAssumption DEF IInv, TypeOK
    <3>2. CASE d # c
      <4>1. Working(d) /\ session'[d] = session[d] /\ at'[d] = at[d]
        BY <1>1, <1>5, <1>8, <2>2, <3>2 DEF IInv, TypeOK
      <4>2. session[d] \in Sessions => session[d] # s
        BY <1>8, <4>1, UseAssumption
      <4>3. session[d] \in Sessions => by'[session[d]] = by[session[d]]
        BY <1>2, <4>2 DEF IInv, TypeOK
      <4>4. QED
        BY <1>1, <4>1, <4>3 DEF IInv, Holds
    <3>3. QED
      BY <3>1, <3>2
  <2>3. QED
    BY <2>1, <2>2 DEF Holds
<1>13. NoOtherLeak'
  <2>1. ASSUME NEW t \in Leaked'
        PROVE  t \in Leaked /\ by'[t] = by[t]
    <3>1. t # s
      BY <1>5, <1>9, <2>1 DEF Leaked
    <3>2. t \in Sessions \ (free \cup ticks)
      BY <1>1, <1>2, <2>1, <3>1 DEF Leaked
    <3>3. \A d \in Calls : Working(d) => session[d] # t
      BY <1>5, <1>8, <2>1 DEF Leaked
    <3>4. by'[t] = by[t]
      BY <1>2, <3>1, <3>2 DEF IInv, TypeOK
    <3>5. QED
      BY <3>2, <3>3, <3>4 DEF Leaked
  <2>2. QED
    BY <2>1 DEF IInv, NoOtherLeak
<1>14. QED
  BY <1>7, <1>10, <1>11, <1>12, <1>13 DEF IInv

LEMMA GetSessionFailKeeps ==
  ASSUME IInv, NEW c \in Calls, GetSessionFail(c)
  PROVE  IInv'
<1>1. Outcome(c, "fatal") \in {"done", "unheard"}
  BY DEF Outcome
<1>2. ~Working(c) /\ Outcome(c, "fatal") \notin WorkPlaces /\ at[c] # "idle" /\ op' = op
  BY <1>1 DEF GetSessionFail, Working, WorkPlaces
<1>3. QED
  BY <1>1, <1>2, MoveKeeps DEF GetSessionFail

\* Answers after which the call keeps its session.
LEMMA GoOnKeeps ==
  ASSUME IInv, NEW c \in Calls, Begun(c) \/ Flow(c) \/ BeginAgain(c)
  PROVE  IInv'
<1>1. PICK x \in WorkPlaces : at' = [at EXCEPT ![c] = x]
  BY DEF Begun, Flow, BeginAgain, WorkPlaces
<1>2. Working(c) /\ at[c] # "idle" /\ at[c] # "using"
  BY DEF Begun, Flow, BeginAgain, Working
<1>3. op[c] # "getTransaction"
  BY <1>2 DEF IInv, Holds
<1>4. op' = op /\ UNCHANGED <<mux, nested, session, poolVars, ticks, losses, known, by>>
  BY DEF Begun, Flow, BeginAgain
<1>5. QED
  BY <1>1, <1>2, <1>3, <1>4, MoveKeeps DEF WorkPlaces

\* Answers after which it leaves the session.
LEMMA RestartKeeps ==
  ASSUME IInv, NEW c \in Calls, Restart(c)
  PROVE  IInv'
<1> DEFINE marks == Marks(c, "notFound")
           more  == IF BeginsRetry(c) THEN {} ELSE {session[c]} \cap Sessions
<1>1. Working(c) /\ at[c] # "using" /\ at' = [at EXCEPT ![c] = "getting"]
  BY DEF Restart, Working
<1>2. noted \subseteq marks /\ marks \in SUBSET Sessions
  BY MarksType
<1>3. PICK back, due \in SUBSET ({session[c]} \cap Sessions) :
        /\ Gives(back, due, marks) /\ back \cap due = {}
        /\ session[c] \in Sessions => session[c] \in back \cup due \/ op[c] \in Leaky
  BY <1>1, LeaveEffect DEF Restart
<1>4. session[c] \in Sessions => by[session[c]] = op[c]
  BY <1>1 DEF IInv, Holds
<1>5. more \in SUBSET (({session[c]} \cap Sessions) \cap dead \cap marks)
  BY DEF Restart, Plausible, Restarts, Marks, Registers, BeginsRetry
<1>6. known' = (known \cup more) \cap dead'
  BY DEF Restart
<1>7. nested' \in [Calls -> BOOLEAN] /\ by' = by /\ UNCHANGED <<mux, op, session, losses>>
  BY DEF Restart, IInv, TypeOK
<1>8. Departs(c, "getting", back, due, marks, more)
  BY <1>1, <1>2, <1>3, <1>4, <1>5, <1>6, <1>7 DEF Departs, Own
<1>9. QED
  BY <1>8, DepartKeeps

LEMMA CompleteKeeps ==
  ASSUME IInv, NEW c \in Calls, NEW e \in {"ok", "fatal", "notFound"}, Complete(c, e)
  PROVE  IInv'
<1> DEFINE marks == Marks(c, e)
<1>1. Working(c) /\ at[c] # "using" /\ at' = [at EXCEPT ![c] = Outcome(c, e)]
      /\ Outcome(c, e) \in {"getting", "done", "unheard"}
  BY DEF Complete, Working, Outcome
<1>2. noted \subseteq marks /\ marks \in SUBSET Sessions
  BY MarksType
<1>3. PICK back, due \in SUBSET ({session[c]} \cap Sessions) :
        /\ Gives(back, due, marks) /\ back \cap due = {}
        /\ session[c] \in Sessions => session[c] \in back \cup due \/ op[c] \in Leaky
  BY <1>1, LeaveEffect DEF Complete
<1>4. session[c] \in Sessions => by[session[c]] = op[c]
  BY <1>1 DEF IInv, Holds
<1>5. known' = (known \cup {}) \cap dead'
  BY DEF Complete
<1>6. nested' \in [Calls -> BOOLEAN] /\ by' = by /\ UNCHANGED <<mux, op, session, losses>>
  BY DEF Complete, IInv, TypeOK
<1>7. Departs(c, Outcome(c, e), back, due, marks, {})
  BY <1>1, <1>2, <1>3, <1>4, <1>5, <1>6 DEF Departs, Own
<1>8. QED
  BY <1>7, DepartKeeps

---------------------------------------------------------------------------
\* The user ends his transaction, or aborts his stream, or leaves both.
LEMMA KnownIsDead ==
  ASSUME IInv
  PROVE  known = (known \cup {}) \cap dead /\ noted \in SUBSET Sessions
BY DEF IInv, Marked, TypeOK

LEMMA UserEndsKeeps ==
  ASSUME IInv, NEW c \in Calls, UserEnds(c)
  PROVE  IInv'
<1>1. Working(c) /\ at' = [at EXCEPT ![c] = "done"] /\ by' = by /\ dead' = dead /\ known' = known
      /\ nested' \in [Calls -> BOOLEAN] /\ UNCHANGED <<mux, op, session, losses>>
  BY DEF UserEnds, Working, poolVars, IInv, TypeOK
<1>2. Gives({}, {session[c]} \cap Sessions, noted)
  BY EndSoonEffect DEF UserEnds, poolVars, KeepAll
<1>3. Departs(c, "done", {}, {session[c]} \cap Sessions, noted, {})
  BY <1>1, <1>2, KnownIsDead DEF Departs, Own
<1>4. QED
  BY <1>3, DepartKeeps

LEMMA AbortKeeps ==
  ASSUME IInv, NEW c \in Calls, Abort(c)
  PROVE  IInv'
<1>1. Working(c) /\ at' = [at EXCEPT ![c] = "done"] /\ by' = by
      /\ known' = (known \cup {}) \cap dead'
      /\ nested' \in [Calls -> BOOLEAN] /\ UNCHANGED <<mux, op, session, losses>>
  BY DEF Abort, Working, IInv, TypeOK
<1>2. Gives({session[c]} \cap Sessions, {}, noted)
  BY <1>1, ReleaseEffect, WorkingSession DEF Abort
<1>3. Departs(c, "done", {session[c]} \cap Sessions, {}, noted, {})
  BY <1>1, <1>2, KnownIsDead DEF Departs, Own
<1>4. QED
  BY <1>3, DepartKeeps

LEMMA AbandonedKeeps ==
  ASSUME IInv, NEW c \in Calls, RollbackUnbegun(c) \/ CommitUnbegun(c) \/ StopEarly(c)
  PROVE  IInv'
<1>1. /\ Working(c) /\ at' = [at EXCEPT ![c] = "done"]
      /\ \E how \in Abandonments : Abandon(c, how)
      /\ UNCHANGED <<mux, op, nested, session, poolVars, ticks, losses, known>>
  BY DEF RollbackUnbegun, CommitUnbegun, StopEarly, Working, Abandonments
<1>2. Gives({}, {}, noted)
  BY <1>1 DEF Gives, poolVars, IInv, TypeOK
<1>3. session[c] \in Sessions => by'[session[c]] \in Leaky
  BY <1>1, WorkingSession DEF Abandon, Leaky, IInv, TypeOK
<1>4. nested' \in [Calls -> BOOLEAN] /\ dead' = dead
  BY <1>1 DEF poolVars, IInv, TypeOK
<1>5. Departs(c, "done", {}, {}, noted, {})
  BY <1>1, <1>2, <1>3, <1>4, KnownIsDead DEF Departs, Own
<1>6. QED
  BY <1>5, DepartKeeps

---------------------------------------------------------------------------
\* The 'end' event releases what nobody uses any more.
LEMMA EmitEndKeeps ==
  ASSUME IInv, NEW s, EmitEnd(s)
  PROVE  IInv'
<1>1. s \in ticks /\ s \in Sessions /\ s \notin free /\ ticks' = ticks \ {s}
  BY DEF EmitEnd, IInv, Apart, TypeOK
<1>2. /\ free' = free \cup {s} /\ twice' = twice /\ noted' = noted \ {s}
      /\ dead' = dead \ ({s} \cap noted) /\ known' = known \cap dead'
  BY <1>1 DEF EmitEnd, Release, IInv, TypeOK
<1>3. UNCHANGED <<mux, op, at, nested, session, losses, by>>
  BY DEF EmitEnd, callVars
<1>4. s # Shared
  BY <1>1, UseAssumption
<1>5. TypeOK' /\ ReleasedOnce' /\ Apart' /\ Marked' /\ RetriedElsewhere'
  BY <1>1, <1>2, <1>3 DEF IInv, TypeOK, ReleasedOnce, Apart, Marked, RetriedElsewhere
<1>6. InOnePlace' /\ Holds'
  BY <1>1, <1>2, <1>3, <1>4 DEF IInv, InOnePlace, Holds, Working
<1>7. Leaked' = Leaked
  BY <1>1, <1>2, <1>3 DEF Leaked, Working
<1>8. QED
  BY <1>3, <1>5, <1>6, <1>7 DEF IInv, NoOtherLeak

LEMMA BackendKeeps ==
  ASSUME IInv, NEW s \in Sessions \cup {Shared}, Lose(s) \/ Refresh
  PROVE  IInv'
<1>1. /\ known \cap Sessions \cap dead \subseteq dead'
      /\ dead' \subseteq Sessions \cup {Shared} /\ losses' \in 0..MaxLosses
      /\ UNCHANGED <<mux, op, at, nested, session, free, ticks, noted, twice, known, by>>
  BY UseAssumption DEF Lose, Refresh, callVars, IInv, TypeOK
<1>2. TypeOK' /\ ReleasedOnce' /\ Apart' /\ Marked' /\ RetriedElsewhere'
  BY <1>1 DEF IInv, TypeOK, ReleasedOnce, Apart, Marked, RetriedElsewhere
<1>3. InOnePlace' /\ Holds' /\ Leaked' = Leaked
  BY <1>1 DEF IInv, InOnePlace, Holds, Leaked, Working
<1>4. QED
  BY <1>1, <1>2, <1>3 DEF IInv, NoOtherLeak

---------------------------------------------------------------------------
LEMMA NextKeeps ==
  ASSUME IInv, [Next]_vars
  PROVE  IInv'
<1>1. ASSUME NEW c \in Calls, Answer(c)
      PROVE  IInv'
  BY <1>1, GoOnKeeps, RestartKeeps, CompleteKeeps, AbandonedKeeps DEF Answer
<1>2. ASSUME NEW c \in Calls, User(c)
      PROVE  IInv'
  BY <1>2, UserEndsKeeps, AbandonedKeeps, AbortKeeps DEF User
<1>3. CASE UNCHANGED vars
  BY <1>3 DEF vars, IInv, TypeOK, InOnePlace, ReleasedOnce, NoOtherLeak, RetriedElsewhere,
              Holds, Apart, Marked, Leaked, Working
<1>4. QED
  BY <1>1, <1>2, <1>3, StartKeeps, GetSessionKeeps, GetSessionFailKeeps, EmitEndKeeps,
     BackendKeeps DEF Next

LEMMA InitHolds ==
  ASSUME Init
  PROVE  IInv
<1>1. TypeOK
  <2>1. op \in [Calls -> Ops \cup {"none"}] /\ 0 \in 0..MaxLosses
    BY UseAssumption DEF Init
  <2>2. by \in [Sessions -> AllOps \cup Abandonments \cup {"none"}] /\ nested \in [Calls -> BOOLEAN]
    BY DEF Init
  <2>3. QED
    BY <2>1, <2>2 DEF Init, TypeOK
<1>2. \A c \in Calls : at[c] = "idle" /\ ~Working(c)
  BY DEF Init, Working
<1>3. Leaked = {}
  BY DEF Init, Leaked
<1>4. QED
  BY <1>1, <1>2, <1>3 DEF Init, IInv, InOnePlace, ReleasedOnce, NoOtherLeak, RetriedElsewhere,
                          Holds, Apart, Marked

\* IInv is inductive: sessions change hands and are never in two.
THEOREM Inductive == Spec => []IInv
<1>1. Init => IInv
  BY InitHolds
<1>2. IInv /\ [Next]_vars => IInv'
  BY NextKeeps
<1>3. QED
  BY <1>1, <1>2, PTL DEF Spec

\* Every variable stays in its type.
THEOREM TypeCorrect == Spec => []TypeOK
<1>1. IInv => TypeOK
  BY DEF IInv
<1>2. QED
  BY <1>1, Inductive, PTL

\* No operation uses a session that is in the pool, due to be released, or at
\* work for another call.
THEOREM OnePlace == Spec => []InOnePlace
<1>1. IInv => InOnePlace
  BY DEF IInv
<1>2. QED
  BY <1>1, Inductive, PTL

\* No session is released twice, directly or by events.
THEOREM OneRelease == Spec => []ReleasedOnce
<1>1. IInv => ReleasedOnce
  BY DEF IInv
<1>2. QED
  BY <1>1, Inductive, PTL

\* Every session comes back, but for the ways to lose it that are named.
THEOREM LeaksNamed == Spec => []NoOtherLeak
<1>1. IInv => NoOtherLeak
  BY DEF IInv
<1>2. QED
  BY <1>1, Inductive, PTL

\* What an operation started over from is not lent again.
THEOREM LostNotLent == Spec => []RetriedElsewhere
<1>1. IInv => RetriedElsewhere
  BY DEF IInv
<1>2. QED
  BY <1>1, Inductive, PTL

---------------------------------------------------------------------------
(* Multiplexed sessions and the pool                                       *)

\* The pool is as it was, and the shared session is never marked.
PoolUntouched == mux => free = Sessions /\ ticks = {} /\ noted = {} /\ known = {}

LEMMA UntouchedKept ==
  ASSUME IInv, PoolUntouched, [Next]_vars
  PROVE  PoolUntouched'
<1>1. mux' = mux
  BY DEF Next, vars, Answer, User, Start, GetSession, GetSessionFail, Begun, Flow, BeginAgain,
     Restart, Complete, UserEnds, RollbackUnbegun, CommitUnbegun, StopEarly, Abort,
     EmitEnd, Lose, Refresh
<1> SUFFICES ASSUME mux
             PROVE  free' = Sessions /\ ticks' = {} /\ noted' = {} /\ known' = {}
  BY <1>1 DEF PoolUntouched
<1>2. free = Sessions /\ ticks = {} /\ noted = {} /\ known = {}
  BY DEF PoolUntouched
<1>3. Shared \notin Sessions
  BY UseAssumption
<1>4. \A c \in Calls : Working(c) => session[c] = Shared
  BY DEF IInv, Holds
<1>5. ASSUME NEW c \in Calls, Working(c), NEW e, Leave(c, e, Marks(c, e))
      PROVE  free' = Sessions /\ ticks' = {} /\ noted' = {}
  <2>1. Marks(c, e) = {} /\ {session[c]} \cap Sessions = {}
    BY <1>2, <1>3, <1>4, <1>5 DEF Marks
  <2>2. QED
    BY <1>2, <1>5, <2>1 DEF Leave, GiveBack, KeepAll, EndSoon, Release
<1>6. ASSUME NEW c \in Calls, Restart(c)
      PROVE  free' = Sessions /\ ticks' = {} /\ noted' = {} /\ known' = {}
  <2>1. Working(c) /\ session[c] = Shared
    BY <1>4, <1>6 DEF Restart, Working
  <2>2. free' = Sessions /\ ticks' = {} /\ noted' = {}
    BY <1>5, <1>6, <2>1 DEF Restart
  <2>3. known' = {}
    BY <1>2, <1>3, <1>6, <2>1 DEF Restart
  <2>4. QED
    BY <2>2, <2>3
<1>7. ASSUME NEW c \in Calls, NEW e \in {"ok", "fatal", "notFound"}, Complete(c, e)
      PROVE  free' = Sessions /\ ticks' = {} /\ noted' = {} /\ known' = {}
  <2>1. Working(c)
    BY <1>7 DEF Complete, Working
  <2>2. QED
    BY <1>2, <1>5, <1>7, <2>1 DEF Complete
<1>8. ASSUME NEW c \in Calls, UserEnds(c) \/ Abort(c)
      PROVE  free' = Sessions /\ ticks' = {} /\ noted' = {} /\ known' = {}
  <2>1. session[c] = Shared
    BY <1>4, <1>8 DEF UserEnds, Abort, Working
  <2>2. QED
    BY <1>2, <1>3, <1>8, <2>1 DEF UserEnds, Abort, EndSoon, Release, poolVars
<1>9. ASSUME NEW c \in Calls, GetSession(c)
      PROVE  free' = Sessions /\ ticks' = {} /\ noted' = {} /\ known' = {}
  BY <1>2, <1>3, <1>9 DEF GetSession
<1>10. ASSUME NEW s \in Sessions \cup {Shared}, EmitEnd(s)
       PROVE  FALSE
  BY <1>2, <1>10 DEF EmitEnd
<1>11. CASE UNCHANGED <<free, ticks, noted, known>>
  BY <1>2, <1>11
<1>12. \/ UNCHANGED <<free, ticks, noted, known>>
       \/ \E c \in Calls : \/ Restart(c) \/ UserEnds(c) \/ Abort(c) \/ GetSession(c)
                           \/ \E e \in {"ok", "fatal", "notFound"} : Complete(c, e)
       \/ \E s \in Sessions \cup {Shared} : EmitEnd(s)
  BY DEF Next, vars, poolVars, Answer, User, Start, GetSessionFail, Begun, Flow, BeginAgain,
     RollbackUnbegun, CommitUnbegun, StopEarly, Lose, Refresh
<1>13. QED
  BY <1>6, <1>7, <1>8, <1>9, <1>10, <1>11, <1>12

\* With multiplexed sessions no operation takes a session of the pool, gives
\* it one, or marks one, however often the shared session is lost: release()
\* and the 'end' events leave the shared session alone.
THEOREM MuxLeavesPool == Spec => []PoolUntouched
<1>1. Init => PoolUntouched
  BY DEF Init, PoolUntouched
<1>2. IInv /\ PoolUntouched /\ [Next]_vars => PoolUntouched'
  BY UntouchedKept
<1>3. QED
  BY <1>1, <1>2, Inductive, PTL DEF Spec
=============================================================================

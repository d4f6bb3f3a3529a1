--------------------------- MODULE SessionPool ----------------------------
(***************************************************************************)
(* The session pool of src/src/session-pool.ts: callers acquire and release *)
(* sessions, housekeeping timers evict and ping the idle ones, and RPCs     *)
(* create and delete sessions in the background.                            *)
(*                                                                          *)
(* The program runs on one event loop.  A step below is what runs between   *)
(* two awaits.  Callers act at any time; timers and RPC completions are     *)
(* macrotasks and wait until no promise reaction is ready (Quiet), which is *)
(* how Node.js orders them.                                                 *)
(***************************************************************************)
EXTENDS Integers, Sequences, FiniteSets

CONSTANTS
  Sessions,     \* the sessions the backend can create
  Callers,      \* concurrent users of getSession()/release()
  None,         \* "holds no session"
  MinSize,      \* options.min, already cut to options.max
  MaxSize,      \* options.max
  IncStep,      \* options.incStep
  MaxIdle,      \* options.maxIdle
  FailModes,    \* what options.fail may be
  CanTimeOut,   \* options.acquireTimeout is finite
  IdleAge,      \* options.idlesAfter, in ticks
  ExpiryAge     \* the hour after which an unpinged session is gone, in ticks

ASSUME OptionsAssumption ==
  /\ MinSize \in Nat /\ MaxSize \in Nat /\ MinSize <= MaxSize
  /\ IncStep \in Nat \ {0}
  /\ MaxIdle \in Nat
  /\ FailModes \subseteq BOOLEAN /\ CanTimeOut \in BOOLEAN

ASSUME AgeAssumption ==
  /\ IdleAge \in Nat /\ ExpiryAge \in Nat
  /\ 0 < IdleAge /\ IdleAge < ExpiryAge

ASSUME SessionsAssumption == IsFiniteSet(Sessions) /\ None \notin Sessions

VARIABLES
  mode,       \* isOpen, split: "new", "open", "closing" (close() awaits its deletes), "closed"
  sessions,   \* _inventory.sessions, a stack: the newest at the end
  borrowed,   \* _inventory.borrowed
  pending,    \* _pending
  creating,   \* creating[n]: batchCreateSessions calls that still owe n sessions
  arriving,   \* created sessions whose setImmediate callback has not run
  pinging,    \* sessions whose keepAlive() is unanswered
  discarding, \* sessions whose ping failed and whose delete the ping awaits
  deleting,   \* sessions whose delete is unanswered (_requests)
  phase,      \* phase[c]: where caller c is
  queue,      \* _acquires: callers that wait for their turn to acquire
  held,       \* held[c]: the session c was given
  traces,     \* _traces: the sessions reported as leaked if not released
  late,       \* queued callers whose acquireTimeout has passed
  age,        \* now - lastUsed of the sessions in the inventory
  alive,      \* the sessions that exist at the backend
  failFast    \* options.fail, which no step changes

callerVars  == <<phase, queue, held, traces, late>>
storeVars   == <<sessions, borrowed, age>>
createVars  == <<pending, creating, arriving>>
serviceVars == <<pinging, discarding, deleting, alive>>
poolVars == <<mode, sessions, borrowed, pending, creating, arriving, pinging,
              discarding, deleting, phase, queue, held, traces, late, age, alive>>
vars == <<mode, sessions, borrowed, pending, creating, arriving, pinging,
          discarding, deleting, phase, queue, held, traces, late, age, alive, failFast>>

---------------------------------------------------------------------------
Inventory == {sessions[i] : i \in 1..Len(sessions)}
Held      == {held[c] : c \in Callers} \ {None}
Tracked   == Inventory \cup borrowed \cup arriving \cup deleting
Fresh     == Sessions \ (Tracked \cup Held \cup pinging \cup alive)

Size == Len(sessions) + Cardinality(borrowed) + pending
Full == Size >= MaxSize

\* There is no session and no room for one, and callers are not to wait.
Refuse == Full /\ failFast

\* Mutant: an hour is still valid.
ValidAtHour(s) == age[s] <= ExpiryAge

\* _isValidSession(), for a session of the inventory.
Valid(s) == age[s] < ExpiryAge

\* The task the concurrency-1 queue is running: one that loops in
\* getSession(), awaits an event, or has just been woken by one.
Acquiring == {c \in Callers : phase[c] \in {"running", "waiting", "woken"}}
Waiters   == {c \in Callers : phase[c] = "waiting"}

\* close() has nothing left to wait for.
Closable == mode = "closing" /\ deleting = {}

\* No promise reaction is ready, so the event loop takes the next macrotask.
Quiet == /\ Acquiring \subseteq Waiters
         /\ queue = <<>> \/ Acquiring # {}
         /\ ~Closable

\* emit('session-available'): the waiter's promise settles.
Wake(ph) == [c \in Callers |-> IF ph[c] = "waiting" THEN "woken" ELSE ph[c]]

\* Mutant: nobody listens to 'createError'.
RejectNobody(ph) == ph

\* Events that reject the waiter: 'close' and 'createError'.
Reject(ph) == [c \in Callers |-> IF ph[c] = "waiting" THEN "idle" ELSE ph[c]]

---------------------------------------------------------------------------
(* Creating sessions                                                       *)

\* Mutant: a new session goes below the older ones.
PushOldest(s) == /\ sessions' = <<s>> \o sessions
                 /\ age' = [age EXCEPT ![s] = 0]

\* _release(): the session goes on top, used just now.
Push(s) == /\ sessions' = Append(sessions, s)
           /\ age' = [age EXCEPT ![s] = 0]

\* Mutant: the pool counts the sessions it asks for twice.
CreateSessionsTwice(n) ==
  IF n <= 0 THEN UNCHANGED createVars
  ELSE /\ pending' = pending + 2 * n
       /\ creating' = [creating EXCEPT ![n] = @ + 1]
       /\ UNCHANGED arriving

\* _createSessions(n) up to its first await.
CreateSessions(n) ==
  IF n <= 0 THEN UNCHANGED createVars
  ELSE /\ pending' = pending + n
       /\ creating' = [creating EXCEPT ![n] = @ + 1]
       /\ UNCHANGED arriving

\* _fill(), when the pool's size is n.
Fill(n) == CreateSessions(MinSize - n)

\* Mutant: the maximum is not applied.
CreateAmountUncut ==
  IF Size + pending + IncStep < MinSize THEN MinSize - Size - pending ELSE IncStep

\* How many sessions a caller who finds none asks for: incStep, more if the
\* pool is below its minimum, never beyond the maximum.
CreateAmount ==
  LET wanted == IF Size + pending + IncStep < MinSize
                THEN MinSize - Size - pending ELSE IncStep
  IN  IF wanted + Size > MaxSize THEN MaxSize - Size ELSE wanted

\* Mutant: one call is taken off the list twice.
AnsweredTwice(n) == [creating EXCEPT ![n] = @ - 2]

\* The outstanding calls once one of those for n sessions is answered.
Answered(n) == [creating EXCEPT ![n] = @ - 1]

\* A session batch is answered, in full or in part.  The sessions are handed
\* to setImmediate; the loop asks again for those still owed.
BatchReply(n, S) ==
  LET rest == n - Cardinality(S)
  IN  /\ Quiet
      /\ creating[n] > 0
      /\ S # {} /\ S \subseteq Fresh /\ rest >= 0
      /\ creating' = IF rest = 0 THEN Answered(n) ELSE [Answered(n) EXCEPT ![rest] = @ + 1]
      /\ arriving' = arriving \cup S
      /\ alive' = alive \cup S
      /\ UNCHANGED <<mode, pending, pinging, discarding, deleting>>
      /\ UNCHANGED <<storeVars, callerVars>>

\* The call fails: the owed sessions are written off and 'createError'
\* rejects whoever waits.
BatchError(n) ==
  /\ Quiet
  /\ creating[n] > 0
  /\ creating' = Answered(n)
  /\ pending' = pending - n
  /\ phase' = Reject(phase)
  /\ UNCHANGED <<mode, arriving, queue, held, traces, late>>
  /\ UNCHANGED <<storeVars, serviceVars>>

\* The setImmediate callback of a created session: borrowed.add, _pending -= 1
\* and release(), which pushes it and wakes the waiter.
Arrive(s) ==
  /\ Quiet
  /\ s \in arriving
  /\ arriving' = arriving \ {s}
  /\ pending' = pending - 1
  /\ Push(s)
  /\ phase' = Wake(phase)
  /\ UNCHANGED <<mode, creating, borrowed, queue, held, traces, late>>
  /\ UNCHANGED serviceVars

---------------------------------------------------------------------------
(* Acquiring a session                                                     *)

Newest == sessions[Len(sessions)]

\* Mutant: the session stays on offer.
PopNothing(bs) == /\ sessions # <<>>
                  /\ borrowed' = bs
                  /\ UNCHANGED <<sessions, age>>

\* _borrowFrom(): pop the newest session of the inventory.
Pop(bs) == /\ sessions # <<>>
           /\ sessions' = SubSeq(sessions, 1, Len(sessions) - 1)
           /\ age' = [age EXCEPT ![Newest] = 0]
           /\ borrowed' = bs

\* The popped session is valid: it is the caller's.
TakeNewest(c) ==
  /\ Pop(borrowed \cup {Newest})
  /\ Valid(Newest)
  /\ held' = [held EXCEPT ![c] = Newest]
  /\ traces' = traces \cup {Newest}
  /\ phase' = [phase EXCEPT ![c] = "holding"]
  /\ UNCHANGED <<mode, createVars, serviceVars>>

\* The popped session is too old: it is forgotten and the caller tries again.
DropExpired(c) ==
  /\ Pop(borrowed)
  /\ ~Valid(Newest)
  /\ phase' = [phase EXCEPT ![c] = "running"]
  /\ UNCHANGED <<mode, held, traces, createVars, serviceVars>>

\* The request is answered with an error.
GiveUp(c) ==
  /\ phase' = [phase EXCEPT ![c] = "idle"]
  /\ UNCHANGED <<mode, held, traces, storeVars, createVars, serviceVars>>

\* Nothing to borrow, and the pool is configured to fail when it is full.
Exhausted(c) == sessions = <<>> /\ Refuse /\ GiveUp(c)

\* Nothing to borrow: wait for an event, after asking for sessions if there
\* is room and no more are under way than callers wait for.
AwaitSession(c) ==
  /\ sessions = <<>>
  /\ ~Refuse
  /\ phase' = [phase EXCEPT ![c] = "waiting"]
  /\ IF ~Full /\ pending <= Cardinality(Waiters)
     THEN CreateSessions(CreateAmount)
     ELSE UNCHANGED createVars
  /\ UNCHANGED <<mode, held, traces, storeVars, serviceVars>>

\* One round of the getSession() loop inside _acquire().
TryAcquire(c) == \/ TakeNewest(c)
                 \/ DropExpired(c)
                 \/ Exhausted(c)
                 \/ AwaitSession(c)

\* getSession() on an open pool: run at once if the queue is free, else queue.
GetSession(c) ==
  /\ mode = "open"
  /\ phase[c] = "idle"
  /\ UNCHANGED late
  /\ \/ /\ Acquiring = {} /\ queue = <<>>
        /\ TryAcquire(c)
        /\ UNCHANGED queue
     \/ /\ Acquiring # {} \/ queue # <<>>
        /\ phase' = [phase EXCEPT ![c] = "queued"]
        /\ queue' = Append(queue, c)
        /\ UNCHANGED <<mode, held, traces, storeVars, createVars, serviceVars>>

\* getSession() on a pool that is not open is refused on the spot.
GetSessionClosed(c) ==
  /\ mode # "open"
  /\ phase[c] = "idle"
  /\ UNCHANGED vars

\* The queue starts its next task, which gives up if it has waited too long.
StartNext(c) ==
  /\ Acquiring = {}
  /\ phase[c] = "queued" /\ queue # <<>> /\ c = Head(queue)
  /\ queue' = Tail(queue)
  /\ late' = late \ {c}
  /\ IF c \in late THEN GiveUp(c) ELSE TryAcquire(c)

\* The loop's next round, after an expired session was dropped: time may be up.
Retry(c) ==
  /\ phase[c] = "running"
  /\ TryAcquire(c) \/ (CanTimeOut /\ GiveUp(c))
  /\ UNCHANGED <<queue, late>>

\* 'session-available' was received: pop without looking whether one is there.
Resume(c) ==
  /\ phase[c] = "woken"
  /\ TakeNewest(c) \/ DropExpired(c)
  /\ UNCHANGED <<queue, late>>

\* acquireTimeout fires while the caller awaits an event.
TimeOut(c) ==
  /\ Quiet /\ CanTimeOut
  /\ phase[c] = "waiting"
  /\ GiveUp(c)
  /\ UNCHANGED <<queue, late>>

\* acquireTimeout passes while the caller is still queued: noticed at its turn.
BecomeLate(c) ==
  /\ Quiet /\ CanTimeOut
  /\ phase[c] = "queued" /\ c \notin late
  /\ late' = late \cup {c}
  /\ UNCHANGED <<mode, phase, queue, held, traces>>
  /\ UNCHANGED <<storeVars, createVars, serviceVars>>

---------------------------------------------------------------------------
(* Releasing a session                                                     *)

\* release() of a session the pool no longer lends throws: only the caller
\* changes.
ReleaseUnknown(c) ==
  /\ held[c] \notin borrowed
  /\ phase' = [phase EXCEPT ![c] = "idle"]
  /\ UNCHANGED <<traces, storeVars, alive>>

\* Mutant: the trace of a lost session stays.
ReleaseLostTraced(c) ==
  /\ held[c] \in borrowed
  /\ borrowed' = borrowed \ {held[c]}
  /\ traces' = traces
  /\ alive' = alive \ {held[c]}
  /\ phase' = [phase EXCEPT ![c] = "idle"]
  /\ UNCHANGED <<sessions, age>>

\* Mutant: losing a session emits 'session-available' all the same.
ReleaseLostWaking(c) ==
  /\ held[c] \in borrowed
  /\ borrowed' = borrowed \ {held[c]}
  /\ traces' = traces \ {held[c]}
  /\ alive' = alive \ {held[c]}
  /\ phase' = Wake([phase EXCEPT ![c] = "idle"])
  /\ UNCHANGED <<sessions, age>>

\* The last request said "Session not found": the session is forgotten, and
\* no event is emitted.
ReleaseLost(c) ==
  /\ held[c] \in borrowed
  /\ borrowed' = borrowed \ {held[c]}
  /\ traces' = traces \ {held[c]}
  /\ alive' = alive \ {held[c]}
  /\ phase' = [phase EXCEPT ![c] = "idle"]
  /\ UNCHANGED <<sessions, age>>

\* The session goes to the end of the inventory and the waiter is woken.
ReleaseToInventory(c) ==
  /\ held[c] \in borrowed
  /\ Push(held[c])
  /\ borrowed' = borrowed \ {held[c]}
  /\ traces' = traces \ {held[c]}
  /\ phase' = Wake([phase EXCEPT ![c] = "idle"])
  /\ UNCHANGED alive

\* A close() whose last delete was just answered goes first: its promise
\* reactions were queued before any caller's.
Release(c) ==
  /\ phase[c] = "holding"
  /\ ~Closable
  /\ held' = [held EXCEPT ![c] = None]
  /\ ReleaseUnknown(c) \/ ReleaseLost(c) \/ ReleaseToInventory(c)
  /\ UNCHANGED <<mode, queue, late, pinging, discarding, deleting, createVars>>

---------------------------------------------------------------------------
(* Housekeeping.  The inventory is ordered by last use (OldestFirst), so    *)
(* the idle sessions are a prefix of it.                                    *)

IdleCount == Cardinality({i \in 1..Len(sessions) : age[sessions[i]] >= IdleAge})

\* Mutant: a session that is due for a ping is taken for expired.
IdleAsExpiredCount == IdleCount

ExpiredCount == Cardinality({i \in 1..Len(sessions) : ~Valid(sessions[i])})

Slice(i, j) == {sessions[k] : k \in i..j}

\* Mutant: the loop's bounds are off by one.
EvictCountOver ==
  Cardinality({k \in 0..IdleCount-1 : IdleCount - k >= MaxIdle /\ Size - k >= MinSize})

\* The rounds of _evictIdleSessions' loop: down to maxIdle idle sessions,
\* and to min sessions in all.
EvictCount ==
  Cardinality({k \in 0..IdleCount-1 : IdleCount - k > MaxIdle /\ Size - k > MinSize})

\* The eviction timer: the most recently used of the idle sessions go.
EvictIdle ==
  LET first == IdleCount - EvictCount
      gone  == Slice(first + 1, IdleCount)
  IN  /\ Quiet
      /\ mode = "open"
      /\ EvictCount > 0
      /\ sessions' = SubSeq(sessions, 1, first)
                       \o SubSeq(sessions, IdleCount + 1, Len(sessions))
      /\ age' = [s \in Sessions |-> IF s \in gone THEN 0 ELSE age[s]]
      /\ deleting' = deleting \cup gone
      /\ UNCHANGED <<mode, borrowed, pinging, discarding, alive>>
      /\ UNCHANGED <<callerVars, createVars>>

\* The ping timer: every idle session is borrowed and sent a keep-alive,
\* except the expired ones, which are forgotten.  With nothing to ping the
\* pool is filled at once.
PingIdle ==
  LET idle == Slice(1, IdleCount)
      sent == Slice(ExpiredCount + 1, IdleCount)
  IN  /\ Quiet
      /\ mode = "open"
      /\ pinging \cup discarding = {}
      /\ sessions' = SubSeq(sessions, IdleCount + 1, Len(sessions))
      /\ age' = [s \in Sessions |-> IF s \in idle THEN 0 ELSE age[s]]
      /\ borrowed' = borrowed \cup sent
      /\ pinging' = sent
      /\ IF sent = {} THEN Fill(Size - IdleCount) ELSE UNCHANGED createVars
      /\ UNCHANGED <<mode, discarding, deleting, alive, callerVars>>

\* The round's promises are all settled once this one is, and the pool, whose
\* size is now n, is filled.
EndPing(p, d, n) == IF p \cup d = {} THEN Fill(n) ELSE UNCHANGED createVars

\* A keep-alive is answered and the session released.  On a pool closed in
\* the meantime release() throws and the session is deleted instead.
PingOk(s) ==
  /\ Quiet
  /\ s \in pinging
  /\ pinging' = pinging \ {s}
  /\ \/ /\ s \in borrowed
        /\ borrowed' = borrowed \ {s}
        /\ Push(s)
        /\ phase' = Wake(phase)
        /\ EndPing(pinging \ {s}, discarding, Size)
        /\ UNCHANGED <<discarding, deleting>>
     \/ /\ s \notin borrowed
        /\ discarding' = discarding \cup {s}
        /\ deleting' = deleting \cup {s}
        /\ UNCHANGED <<phase, storeVars, createVars>>
  /\ UNCHANGED <<mode, queue, held, traces, late, alive>>

\* Mutant: the session whose ping failed stays among the borrowed ones.
PingFailKept(s) ==
  /\ Quiet
  /\ s \in pinging
  /\ pinging' = pinging \ {s}
  /\ borrowed' = borrowed
  /\ discarding' = discarding \cup {s}
  /\ deleting' = deleting \cup {s}
  /\ UNCHANGED <<mode, sessions, age, alive, callerVars, createVars>>

\* A keep-alive fails: the session leaves the pool and is deleted.
PingFail(s) ==
  /\ Quiet
  /\ s \in pinging
  /\ pinging' = pinging \ {s}
  /\ borrowed' = borrowed \ {s}
  /\ discarding' = discarding \cup {s}
  /\ deleting' = deleting \cup {s}
  /\ UNCHANGED <<mode, sessions, age, alive, callerVars, createVars>>

\* Mutant: the delete of a session the backend no longer has is never over.
DeleteDoneOrStuck(s, ok) ==
  /\ Quiet
  /\ s \in deleting /\ s \in alive
  /\ deleting' = deleting \ {s}
  /\ discarding' = discarding \ {s}
  /\ alive' = IF ok THEN alive \ {s} ELSE alive
  /\ IF s \in discarding
     THEN EndPing(pinging, discarding \ {s}, Size) ELSE UNCHANGED createVars
  /\ UNCHANGED <<mode, pinging, storeVars, callerVars>>

\* A delete is answered.  An error is only reported; either way the session
\* is off the books, and the ping that awaited it is over.
DeleteDone(s, ok) ==
  /\ Quiet
  /\ s \in deleting
  /\ deleting' = deleting \ {s}
  /\ discarding' = discarding \ {s}
  /\ alive' = IF ok THEN alive \ {s} ELSE alive
  /\ IF s \in discarding
     THEN EndPing(pinging, discarding \ {s}, Size) ELSE UNCHANGED createVars
  /\ UNCHANGED <<mode, pinging, storeVars, callerVars>>

---------------------------------------------------------------------------
(* Opening and closing                                                     *)

Open ==
  /\ mode = "new"
  /\ mode' = "open"
  /\ Fill(Size)
  /\ UNCHANGED <<storeVars, serviceVars, callerVars>>

\* close(): stop housekeeping, reject the waiter, delete what the pool has.
Close ==
  /\ mode = "open"
  /\ mode' = "closing"
  /\ phase' = Reject(phase)
  /\ deleting' = deleting \cup Inventory \cup borrowed
  /\ UNCHANGED <<queue, held, traces, late, pinging, discarding, alive>>
  /\ UNCHANGED <<storeVars, createVars>>

\* _requests is idle: the inventory is emptied and close() calls back.
FinishClose ==
  /\ Closable
  /\ mode' = "closed"
  /\ sessions' = <<>>
  /\ borrowed' = {}
  /\ age' = [s \in Sessions |-> 0]
  /\ UNCHANGED <<callerVars, createVars, serviceVars>>

---------------------------------------------------------------------------
(* The backend and the clock                                               *)

\* Time passes: the inventory ages, and a session unused for an hour is gone.
Tick ==
  LET older == [s \in Sessions |-> IF s \in Inventory /\ age[s] < ExpiryAge
                                   THEN age[s] + 1 ELSE age[s]]
  IN  /\ Quiet
      /\ age' = older
      /\ older # age
      /\ alive' = alive \ {s \in Inventory : older[s] = ExpiryAge}
      /\ UNCHANGED <<mode, sessions, borrowed, pinging, discarding, deleting>>
      /\ UNCHANGED <<callerVars, createVars>>

\* A session nobody pings any more expires.
Expire(s) ==
  /\ Quiet
  /\ s \in alive \ (Tracked \cup Held \cup pinging)
  /\ alive' = alive \ {s}
  /\ UNCHANGED <<mode, pinging, discarding, deleting>>
  /\ UNCHANGED <<storeVars, callerVars, createVars>>

---------------------------------------------------------------------------
Init ==
  /\ mode = "new"
  /\ sessions = <<>> /\ borrowed = {} /\ arriving = {}
  /\ pending = 0
  /\ creating = [n \in 1..MaxSize |-> 0]
  /\ pinging = {} /\ discarding = {} /\ deleting = {}
  /\ phase = [c \in Callers |-> "idle"]
  /\ held = [c \in Callers |-> None]
  /\ queue = <<>> /\ traces = {} /\ late = {}
  /\ age = [s \in Sessions |-> 0]
  /\ alive = {}
  /\ failFast \in FailModes

Next ==
  /\ \/ Open \/ Close \/ FinishClose \/ EvictIdle \/ PingIdle \/ Tick
     \/ \E c \in Callers :
          \/ GetSession(c) \/ GetSessionClosed(c)
          \/ StartNext(c) \/ Retry(c) \/ Resume(c)
          \/ TimeOut(c) \/ BecomeLate(c) \/ Release(c)
     \/ \E n \in 1..MaxSize : BatchError(n) \/ \E S \in SUBSET Sessions : BatchReply(n, S)
     \/ \E s \in Sessions :
          \/ Arrive(s) \/ PingOk(s) \/ PingFail(s) \/ Expire(s)
          \/ \E ok \in BOOLEAN : DeleteDone(s, ok)
  /\ UNCHANGED failFast

Spec == Init /\ [][Next]_vars

\* Promise reactions run, timers fire and every RPC is answered: it carries a
\* deadline.
LoopFairness ==
  /\ \A c \in Callers :
       WF_poolVars(StartNext(c)) /\ WF_poolVars(Retry(c)) /\ WF_poolVars(Resume(c))
  /\ \A n \in 1..MaxSize :
       WF_poolVars(BatchError(n) \/ \E S \in SUBSET Sessions : BatchReply(n, S))
  /\ \A s \in Sessions :
       /\ WF_poolVars(Arrive(s))
       /\ WF_poolVars(PingOk(s) \/ PingFail(s))
       /\ WF_poolVars(\E ok \in BOOLEAN : DeleteDone(s, ok))
  /\ WF_poolVars(PingIdle) /\ WF_poolVars(FinishClose)

\* Where callers are to wait they give back what they borrow; with options.fail
\* no answer rests on it.
ReleaseFairness == \A c \in Callers : WF_poolVars(~failFast /\ Release(c))

FairSpec == Spec /\ LoopFairness /\ ReleaseFairness

---------------------------------------------------------------------------
(* Properties                                                              *)

\* Every variable stays in the set its code counterpart ranges over.  (failFast
\* never changes.)
TypeOK ==
  /\ mode \in {"new", "open", "closing", "closed"}
  /\ sessions \in Seq(Sessions)
  /\ borrowed \in SUBSET Sessions /\ arriving \in SUBSET Sessions
  /\ pinging \in SUBSET Sessions /\ discarding \in SUBSET Sessions
  /\ deleting \in SUBSET Sessions /\ traces \in SUBSET Sessions
  /\ alive \in SUBSET Sessions
  /\ pending \in Int
  /\ creating \in [1..MaxSize -> Nat]
  /\ phase \in [Callers -> {"idle", "queued", "running", "waiting", "woken", "holding"}]
  /\ queue \in Seq(Callers) /\ late \in SUBSET Callers
  /\ held \in [Callers -> Sessions \cup {None}]
  /\ age \in [Sessions -> 0..ExpiryAge]

\* options.max bounds the pool, sessions under creation included, through
\* every interleaving of callers' requests, fills, pings and partial replies.
WithinMax == Size <= MaxSize

\* What the backend owes: n sessions for each outstanding call for n.
Owed(calls) == UNION {{n} \X ((1..calls[n]) \X (1..n)) : n \in 1..MaxSize}

\* _pending is exactly what is still owed by the backend or about to enter
\* the inventory: it never drifts over partial batch replies and errors.
PendingExact == pending = Cardinality(Owed(creating)) + Cardinality(arriving)

\* No session has two borrowers, or is on offer while somebody (a caller or
\* a ping) uses it; until close() has finished, what a caller holds is in the
\* borrowed set, so that release() accepts it and close() deletes it.
NoSharing ==
  /\ \A c, d \in Callers : c # d /\ held[c] # None => held[c] # held[d]
  /\ \A i, j \in 1..Len(sessions) : i # j => sessions[i] # sessions[j]
  /\ Held \cap Inventory = {}
  /\ borrowed \cap Inventory = {}
  /\ mode # "closed" => Held \subseteq borrowed

\* The leak report of close() names exactly the sessions callers still hold,
\* never one that a ping borrowed or that was given back.
LeaksExact == mode # "closed" => traces = Held

\* A woken waiter finds the session it was woken for: nothing took it between
\* the event and the promise reaction, so pop() is never undefined.
WokenFindsSession ==
  \A c \in Callers : phase[c] = "woken" => sessions # <<>> /\ age[Newest] < ExpiryAge

\* The inventory is ordered by last use, which eviction and the rule "the
\* newest has expired, so has everything" rely on.
OldestFirst ==
  \A i, j \in 1..Len(sessions) : i < j => age[sessions[i]] >= age[sessions[j]]

\* While the pool is open it deletes no session that is on offer or in use.
InUseNotDeleted ==
  mode = "open" => deleting \cap (Held \cup Inventory \cup borrowed \cup arriving) = {}

\* Eviction takes only idle sessions, leaves options.min sessions in all and
\* options.maxIdle idle ones.
EvictionBounded ==
  [][LET gone == Inventory \cap (deleting' \ deleting)
     IN  mode' = "open" /\ gone # {} =>
           /\ \A s \in gone : age[s] >= IdleAge
           /\ Size' >= MinSize
           /\ IdleCount - Cardinality(gone) >= MaxIdle]_vars

\* An open pool loses no session that still exists at the backend: one that
\* leaves its books does so through a delete.
NothingOrphaned ==
  [][mode' = "open" =>
       \A s \in (alive \cap alive' \cap Tracked) \ Tracked' : s \in deleting]_vars

\* A request for a session is answered, with a session or an error, or the
\* pool is closed: with options.fail even if nobody gives back what he borrowed.
AcquireAnswered ==
  \A c \in Callers :
    (mode = "open" /\ phase[c] \in {"queued", "running", "waiting", "woken"})
      ~> (mode # "open" \/ phase[c] \in {"idle", "holding"})

\* close() calls back.
CloseCompletes == (mode = "closing") ~> (mode = "closed")

\* incStep sessions are created "when at least one more session is needed"
\* (session-pool.ts:146): a waiter on a pool with room sees sessions coming.
ShortageFilled ==
  \A c \in Callers :
    (mode = "open" /\ phase[c] = "waiting" /\ ~Full)
      ~> (mode # "open" \/ phase[c] # "waiting" \/ pending > 0)

\* The pool, to its callers, is a SessionLease.
Lease == INSTANCE SessionLease WITH open <- mode = "open", live <- alive, lease <- held
RefinesLease == Lease!LeaseSpec

===========================================================================

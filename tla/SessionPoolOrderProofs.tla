---------------------- MODULE SessionPoolOrderProofs ----------------------
(***************************************************************************)
(* Proofs about the order of the inventory, what exists at the backend,    *)
(* the leak report and the waiter that was woken, for every value of the   *)
(* constants.  They build on IInv, which says where a session can be.      *)
(***************************************************************************)
EXTENDS SessionPoolProofs

---------------------------------------------------------------------------
(* The invariant                                                           *)

\* A session that has expired on offer is gone at the backend; while the pool
\* serves, the others of the inventory exist there, and so do those in use.
Existing ==
  /\ \A s \in Inventory : ~Valid(s) => s \notin alive
  /\ Serving => /\ borrowed \cup arriving \subseteq alive
                /\ \A s \in Inventory : Valid(s) => s \in alive

\* The queue runs one task, and what woke it is still there: nothing pops or
\* empties the inventory, and close() is not over, before it has resumed.
Awake ==
  /\ \A c, d \in Acquiring : c = d
  /\ \A c \in Callers : phase[c] = "woken" =>
       /\ sessions # <<>> /\ Valid(Newest)
       /\ mode = "closing" => deleting # {}

OInv == OldestFirst /\ LeaksExact /\ Existing /\ Awake

---------------------------------------------------------------------------
(* What a step can do                                                      *)

\* What a caller's step leaves alone when it gets or forgets no session.
Stays == UNCHANGED <<mode, storeVars, serviceVars, arriving, held, traces>>

\* A caller that asks for a session gets the newest, drops an expired one, or
\* changes nothing but the queue, its phase and what is under creation.
LEMMA AskMoves ==
  ASSUME NEW c \in Callers,
         \/ GetSession(c) \/ GetSessionClosed(c) \/ StartNext(c) \/ Retry(c)
         \/ Resume(c) \/ TimeOut(c) \/ BecomeLate(c)
  PROVE  Stays \/ (phase[c] # "holding" /\ (TakeNewest(c) \/ DropExpired(c)))
<1>1. ASSUME GiveUp(c) PROVE Stays
  BY <1>1 DEF GiveUp, Stays, createVars
<1>2. ASSUME AwaitSession(c) PROVE Stays
  BY <1>2 DEF AwaitSession, CreateSessions, Stays, createVars
<1>3. ASSUME TryAcquire(c) PROVE Stays \/ TakeNewest(c) \/ DropExpired(c)
  BY <1>1, <1>2, <1>3 DEF TryAcquire, Exhausted
<1>4. CASE GetSession(c)
  BY <1>3, <1>4 DEF GetSession, Stays, createVars
<1>5. CASE GetSessionClosed(c)
  BY <1>5 DEF GetSessionClosed, Stays, vars, storeVars, serviceVars
<1>6. CASE StartNext(c)
  BY <1>1, <1>3, <1>6 DEF StartNext
<1>7. CASE Retry(c)
  BY <1>1, <1>3, <1>7 DEF Retry
<1>8. CASE Resume(c)
  BY <1>8 DEF Resume
<1>9. CASE TimeOut(c)
  BY <1>1, <1>9 DEF TimeOut
<1>10. CASE BecomeLate(c)
  BY <1>10 DEF BecomeLate, Stays, createVars
<1>11. QED
  BY <1>4, <1>5, <1>6, <1>7, <1>8, <1>9, <1>10

\* Every step of the pool, by what it does to its books.
LEMMA Moves ==
  ASSUME [Next]_vars
  PROVE  \/ Stays
         \/ \E c \in Callers : /\ phase[c] # "holding"
                               /\ TakeNewest(c) \/ DropExpired(c)
         \/ \E c \in Callers : Release(c)
         \/ Open \/ Close \/ FinishClose \/ EvictIdle \/ PingIdle \/ Tick
         \/ \E n \in 1..MaxSize, S \in SUBSET Sessions : BatchReply(n, S)
         \/ \E s \in Sessions : \/ Arrive(s) \/ PingOk(s) \/ PingFail(s) \/ Expire(s)
                                \/ \E ok \in BOOLEAN : DeleteDone(s, ok)
<1>1. CASE UNCHANGED vars
  BY <1>1 DEF vars, Stays, storeVars, serviceVars
<1>2. CASE \E n \in 1..MaxSize : BatchError(n)
  BY <1>2 DEF BatchError, Stays
<1>3. CASE \E c \in Callers : \/ GetSession(c) \/ GetSessionClosed(c)
                              \/ StartNext(c) \/ Retry(c) \/ Resume(c)
                              \/ TimeOut(c) \/ BecomeLate(c) \/ Release(c)
  BY <1>3, AskMoves
<1>4. QED
  BY <1>1, <1>2, <1>3 DEF Next

\* A release() keeps everything (it throws), forgets a lost session, or pushes
\* the session on top of the inventory.
LEMMA ReleaseMoves ==
  ASSUME IInv, NEW c \in Callers, Release(c)
  PROVE  /\ held[c] \in Held /\ held[c] \in Sessions /\ held[c] # None
         /\ Held' = Held \ {held[c]} /\ mode' = mode /\ deleting' = deleting
         /\ arriving' = arriving /\ held' = [held EXCEPT ![c] = None]
         /\ held[c] \notin Inventory
         /\ \/ /\ held[c] \notin borrowed /\ mode = "closed"
               /\ UNCHANGED <<sessions, age, borrowed, alive, traces>>
            \/ /\ held[c] \in borrowed /\ borrowed' = borrowed \ {held[c]}
               /\ traces' = traces \ {held[c]}
               /\ \/ UNCHANGED <<sessions, age>> /\ alive' = alive \ {held[c]}
                  \/ Push(held[c]) /\ alive' = alive
<1>1. held[c] # None /\ held[c] \in Sessions /\ held[c] \in Held
  BY SessionsAssumption DEF Release, IInv, TypeOK, Holders, Held
<1>2. held' = [held EXCEPT ![c] = None]
  BY DEF Release
<1>3. Held' = Held \ {held[c]}
  BY <1>1, <1>2 DEF IInv, TypeOK, Held, Holders
<1>4. held[c] \notin Inventory
  BY <1>1 DEF IInv, Places
<1>5. held[c] \notin borrowed => mode = "closed"
  BY <1>1 DEF IInv, Holders
<1>6. QED
  BY <1>1, <1>2, <1>3, <1>4, <1>5
  DEF Release, ReleaseUnknown, ReleaseLost, ReleaseToInventory, storeVars, createVars

---------------------------------------------------------------------------
(* The order of the inventory                                              *)

\* A set of indices that contains all smaller ones is an initial stretch, as
\* long as it has elements.
LEMMA PrefixCard ==
  ASSUME NEW n \in Nat, NEW A \in SUBSET (1..n),
         \A i, j \in 1..n : i < j /\ j \in A => i \in A,
         NEW i \in 1..n
  PROVE  i <= Cardinality(A) <=> i \in A
<1>1. IsFiniteSet(1..n) /\ IsFiniteSet(A) /\ Cardinality(A) \in Nat
  <2>1. 1 \in Int /\ n \in Int
    OBVIOUS
  <2>2. IsFiniteSet(1..n)
    BY <2>1, FS_Interval
  <2>3. IsFiniteSet(A)
    BY <2>2, FS_Subset
  <2>4. QED
    BY <2>2, <2>3, FS_CardinalityType
<1>2. ASSUME i \in A PROVE i <= Cardinality(A)
  <2>1. (1..i) \in SUBSET A
    BY <1>2
  <2>2. Cardinality(1..i) = i
    <3>1. 1 \in Int /\ i \in Int /\ 1 <= i
      OBVIOUS
    <3>2. QED
      BY <3>1, FS_Interval
  <2>3. Cardinality(1..i) <= Cardinality(A)
    BY <1>1, <2>1, FS_Subset
  <2>4. QED
    BY <2>2, <2>3
<1>3. ASSUME i \notin A PROVE Cardinality(A) < i
  <2>1. A \in SUBSET (1..i - 1)
    BY <1>3
  <2>2. IsFiniteSet(1..i - 1) /\ Cardinality(1..i - 1) = i - 1
    <3>1. 1 \in Int /\ i - 1 \in Int /\ (1 > i - 1 => i - 1 = 0)
      OBVIOUS
    <3>2. QED
      BY <3>1, FS_Interval
  <2>3. Cardinality(A) <= Cardinality(1..i - 1)
    BY <2>1, <2>2, FS_Subset
  <2>4. QED
    BY <1>1, <2>2, <2>3
<1>4. QED
  BY <1>1, <1>2, <1>3

\* In an ordered inventory the idle sessions come first, and the expired ones
\* first among them.
LEMMA OldPrefix ==
  ASSUME TypeOK, OldestFirst, NEW i \in 1..Len(sessions)
  PROVE  /\ i <= IdleCount <=> age[sessions[i]] >= IdleAge
         /\ i <= ExpiredCount <=> ~Valid(sessions[i])
<1> DEFINE n == Len(sessions)
           old == {k \in 1..n : age[sessions[k]] >= IdleAge}
           gone == {k \in 1..n : ~Valid(sessions[k])}
<1>1. n \in Nat /\ \A k \in 1..n : age[sessions[k]] \in 0..ExpiryAge
  BY DEF TypeOK
<1>2. \A k, j \in 1..n : k < j /\ j \in old => k \in old
  BY <1>1, AgeAssumption DEF OldestFirst
<1>3. \A k, j \in 1..n : k < j /\ j \in gone => k \in gone
  BY <1>1, AgeAssumption DEF OldestFirst, Valid
<1>4. old \in SUBSET (1..n) /\ gone \in SUBSET (1..n)
  OBVIOUS
<1>5. (i \in old <=> age[sessions[i]] >= IdleAge) /\ (i \in gone <=> ~Valid(sessions[i]))
  OBVIOUS
<1>6. IdleCount = Cardinality(old) /\ ExpiredCount = Cardinality(gone)
  BY DEF IdleCount, ExpiredCount
<1>7. i \in 1..n
  OBVIOUS
<1> HIDE DEF old, gone, n
<1>8. i <= Cardinality(old) <=> i \in old
  BY <1>1, <1>2, <1>4, <1>7, PrefixCard
<1>9. i <= Cardinality(gone) <=> i \in gone
  BY <1>1, <1>3, <1>4, <1>7, PrefixCard
<1>10. QED
  BY <1>5, <1>6, <1>8, <1>9

\* A push leaves the inventory ordered: what it adds was used just now.
LEMMA PushOrdered ==
  ASSUME TypeOK, OldestFirst, NEW s \in Sessions, s \notin Inventory, Push(s)
  PROVE  OldestFirst'
<1>1. Len(sessions) \in Nat /\ \A x \in Sessions : age[x] \in 0..ExpiryAge
      /\ \A i \in 1..Len(sessions) : sessions[i] \in Sessions
  BY DEF TypeOK
<1>2. /\ Len(sessions') = Len(sessions) + 1
      /\ \A i \in 1..Len(sessions) : sessions'[i] = sessions[i]
      /\ sessions'[Len(sessions) + 1] = s
  BY DEF Push, TypeOK
<1>3. age'[s] = 0 /\ \A i \in 1..Len(sessions) : age'[sessions[i]] = age[sessions[i]]
  BY <1>1 DEF Push, TypeOK, Inventory
<1>4. SUFFICES ASSUME NEW i \in 1..Len(sessions) + 1, NEW j \in 1..Len(sessions) + 1, i < j
               PROVE  age'[sessions'[i]] >= age'[sessions'[j]]
  BY <1>2 DEF OldestFirst
<1>5. CASE j = Len(sessions) + 1
  BY <1>1, <1>2, <1>3, <1>4, <1>5
<1>6. CASE j # Len(sessions) + 1
  BY <1>1, <1>2, <1>3, <1>4, <1>6 DEF OldestFirst
<1>7. QED
  BY <1>5, <1>6

\* Every step keeps the inventory ordered by last use.
LEMMA OrderKept ==
  ASSUME IInv, OldestFirst, [Next]_vars
  PROVE  OldestFirst'
<1>1. /\ Len(sessions) \in Nat /\ \A x \in Sessions : age[x] \in 0..ExpiryAge
      /\ \A i \in 1..Len(sessions) : sessions[i] \in Sessions /\ sessions[i] \in Inventory
      /\ Distinct(sessions) /\ TypeOK
  <2>1. Distinct(sessions) /\ TypeOK
    BY DEF IInv, Places
  <2>2. sessions \in Seq(Sessions) /\ age \in [Sessions -> 0..ExpiryAge]
    BY <2>1 DEF TypeOK
  <2>3. QED
    BY <2>1, <2>2 DEF Inventory
<1>2. CASE UNCHANGED <<sessions, age>>
  BY <1>2 DEF OldestFirst
<1>3. CASE \E c \in Callers : TakeNewest(c) \/ DropExpired(c)
  <2>1. Pop(borrowed')
    BY <1>3 DEF TakeNewest, DropExpired, Pop
  <2>2. /\ Len(sessions') = Len(sessions) - 1
        /\ \A x \in Sessions : x # Newest => age'[x] = age[x]
    BY <1>1, <2>1, PopEffect
  <2>3. \A i \in 1..Len(sessions) - 1 : sessions'[i] = sessions[i] /\ sessions[i] # Newest
    <3>1. sessions' = SubSeq(sessions, 1, Len(sessions) - 1) /\ sessions # <<>>
      BY <2>1 DEF Pop
    <3>2. Len(sessions) >= 1
      BY <3>1 DEF IInv, TypeOK
    <3>3. QED
      BY <1>1, <3>1, <3>2 DEF Distinct, Newest
  <2>4. QED
    BY <1>1, <2>2, <2>3 DEF OldestFirst
<1>4. CASE \E c \in Callers : Release(c)
  BY <1>1, <1>2, <1>4, ReleaseMoves, PushOrdered
<1>5. CASE \E s \in Sessions : Arrive(s) \/ PingOk(s)
  <2>1. PICK s \in Sessions : Arrive(s) \/ PingOk(s)
    BY <1>5
  <2>2. s \notin Inventory
    BY <2>1 DEF Arrive, PingOk, IInv, Places
  <2>3. QED
    BY <1>1, <1>2, <2>1, <2>2, PushOrdered DEF Arrive, PingOk, storeVars
<1>6. CASE EvictIdle
  <2> DEFINE first == IdleCount - EvictCount
             gone == Slice(first + 1, IdleCount)
  <2>1. /\ EvictCount \in 0..IdleCount /\ IdleCount \in 0..Len(sessions)
        /\ Len(sessions') = Len(sessions) - EvictCount
        /\ \A i \in 1..Len(sessions') :
             sessions'[i] = IF i <= first THEN sessions[i] ELSE sessions[i + EvictCount]
    BY <1>1, <1>6, EvictEffect, Numbers
  <2>2. \A x \in Sessions \ gone : age'[x] = age[x]
    BY <1>6, EvictEffect
  <2>3. Inventory' = Inventory \ gone
    BY <1>6, EvictEffect
  <2>4. \A i \in 1..Len(sessions') : sessions'[i] \in Inventory'
    BY DEF Inventory
  <2> HIDE DEF gone
  <2>5. \A i \in 1..Len(sessions') : age'[sessions'[i]] = age[sessions'[i]]
    BY <1>1, <2>2, <2>3, <2>4, Numbers
  <2>6. SUFFICES ASSUME NEW i \in 1..Len(sessions'), NEW j \in 1..Len(sessions'), i < j
                 PROVE  age[sessions'[i]] >= age[sessions'[j]]
    BY <2>5 DEF OldestFirst
  <2>7. EvictCount \in Int /\ first \in Int /\ first + EvictCount <= Len(sessions)
        /\ first >= 0 /\ EvictCount >= 0
    BY <1>1, <2>1
  <2>8. PICK k \in 1..Len(sessions), l \in 1..Len(sessions) :
          k < l /\ sessions'[i] = sessions[k] /\ sessions'[j] = sessions[l]
    <3> DEFINE at(h) == IF h <= first THEN h ELSE h + EvictCount
    <3>1. sessions'[i] = sessions[at(i)] /\ sessions'[j] = sessions[at(j)]
      BY <2>1
    <3>2. at(i) \in 1..Len(sessions) /\ at(j) \in 1..Len(sessions) /\ at(i) < at(j)
      BY <1>1, <2>1, <2>6, <2>7
    <3>3. QED
      BY <3>1, <3>2
  <2>9. QED
    BY <2>8 DEF OldestFirst
<1>7. CASE PingIdle
  <2> DEFINE idle == Slice(1, IdleCount)
  <2>1. /\ IdleCount \in 0..Len(sessions) /\ Len(sessions') = Len(sessions) - IdleCount
        /\ \A i \in 1..Len(sessions') : sessions'[i] = sessions[IdleCount + i]
    BY <1>1, <1>7, PingEffect, Numbers
  <2>2. Inventory' = Inventory \ idle /\ \A x \in Sessions \ idle : age'[x] = age[x]
    BY <1>7, PingEffect
  <2>3. \A i \in 1..Len(sessions') : sessions'[i] \in Inventory'
    BY DEF Inventory
  <2> HIDE DEF idle
  <2>4. \A i \in 1..Len(sessions') : age'[sessions'[i]] = age[sessions'[i]]
    BY <1>1, <2>2, <2>3, Numbers
  <2>5. QED
    BY <1>1, <2>1, <2>4, SMTT(20) DEF OldestFirst
<1>8. CASE FinishClose
  BY <1>8 DEF FinishClose, OldestFirst
<1>9. CASE Tick
  <2>1. sessions' = sessions /\ \A x \in Inventory :
          age'[x] = IF age[x] < ExpiryAge THEN age[x] + 1 ELSE age[x]
    BY <1>1, <1>9, Numbers DEF Tick
  <2>2. QED
    BY <1>1, <2>1, AgeAssumption DEF OldestFirst
<1>10. QED
  BY <1>2, <1>3, <1>4, <1>5, <1>6, <1>7, <1>8, <1>9, Moves
  DEF Stays, storeVars, Open, Close, BatchReply, PingFail, Expire, DeleteDone

---------------------------------------------------------------------------
(* The leak report                                                         *)

\* Every step keeps the leak report exact.
LEMMA LeaksKept ==
  ASSUME IInv, LeaksExact, [Next]_vars
  PROVE  LeaksExact'
<1>1. CASE /\ UNCHANGED <<held, traces>>
           /\ mode' # "closed" => mode # "closed"
  BY <1>1 DEF LeaksExact, Held
<1>2. CASE \E c \in Callers : phase[c] # "holding" /\ TakeNewest(c)
  <2>1. PICK c \in Callers : phase[c] # "holding" /\ TakeNewest(c)
    BY <1>2
  <2>2. Newest \in Sessions /\ held[c] = None /\ held \in [Callers -> Sessions \cup {None}]
    BY <2>1, PopEffect DEF TakeNewest, IInv, TypeOK, Places, Holders
  <2>3. Held' = Held \cup {Newest}
    BY <2>1, <2>2, SessionsAssumption DEF TakeNewest, Held
  <2>4. QED
    BY <2>1, <2>3 DEF TakeNewest, LeaksExact
<1>3. CASE \E c \in Callers : Release(c)
  <2>1. PICK c \in Callers : Release(c)
    BY <1>3
  <2>2. QED
    BY <2>1, ReleaseMoves DEF LeaksExact
<1>4. QED
  BY <1>1, <1>2, <1>3, Moves
  DEF Stays, callerVars, DropExpired, Open, Close, FinishClose, EvictIdle, PingIdle, Tick,
      BatchReply, Arrive, PingOk, PingFail, Expire, DeleteDone

---------------------------------------------------------------------------
(* What exists at the backend                                              *)

\* A step that adds nothing to the inventory, and touches no age in it.
LEMMA ExistingShrinks ==
  ASSUME Existing, Inventory' \subseteq Inventory,
         \A x \in Inventory' : age'[x] = age[x],
         Inventory' \cap alive' \subseteq alive,
         Serving' => /\ Serving
                     /\ borrowed' \cup arriving' \subseteq alive'
                     /\ Inventory' \cap alive \subseteq alive'
  PROVE  Existing'
BY DEF Existing, Valid

\* A step that pushes a session that exists.
LEMMA ExistingGrows ==
  ASSUME TypeOK, Existing, NEW s \in Sessions, s \notin Inventory, Push(s), alive' = alive,
         Serving' => Serving /\ s \in alive /\ borrowed' \cup arriving' \subseteq alive
  PROVE  Existing'
<1>1. Inventory' = Inventory \cup {s}
  <2>1. Inventory = Elems(sessions) /\ Inventory' = Elems(sessions')
    BY DEF Inventory, Elems
  <2>2. Elems(Append(sessions, s)) = Elems(sessions) \cup {s}
    BY PushElems DEF TypeOK
  <2>3. QED
    BY <2>1, <2>2 DEF Push
<1>2. age'[s] = 0 /\ \A x \in Inventory : age'[x] = age[x]
  BY Numbers DEF Push, TypeOK
<1>3. Valid(s)' /\ \A x \in Inventory : Valid(x)' <=> Valid(x)
  BY <1>2, AgeAssumption DEF Valid
<1>4. QED
  BY <1>1, <1>3 DEF Existing

\* Every step keeps what the pool relies on at the backend.
LEMMA ExistingKept ==
  ASSUME IInv, OldestFirst, Existing, [Next]_vars
  PROVE  Existing'
<1>1. TypeOK /\ Distinct(sessions) /\ Inventory \subseteq Sessions
  BY Numbers DEF IInv, Places
<1>2. CASE /\ UNCHANGED <<sessions, age>>
           /\ Inventory \cap alive' \subseteq alive
           /\ Serving' => /\ Serving
                          /\ borrowed' \cup arriving' \subseteq alive'
                          /\ Inventory \cap alive \subseteq alive'
  <2>1. Inventory' = Inventory
    BY <1>2 DEF Inventory
  <2>2. QED
    BY <1>2, <2>1, ExistingShrinks
<1>3. CASE Stays
  BY <1>2, <1>3 DEF Stays, storeVars, serviceVars, Existing, Serving
<1>4. CASE \E c \in Callers : TakeNewest(c) \/ DropExpired(c)
  <2>1. Pop(borrowed')
    BY <1>4 DEF TakeNewest, DropExpired, Pop
  <2>2. /\ Inventory' = Inventory \ {Newest} /\ Newest \in Inventory
        /\ \A x \in Sessions : x # Newest => age'[x] = age[x]
    BY <1>1, <2>1, PopEffect
  <2>3. /\ alive' = alive /\ arriving' = arriving /\ mode' = mode
        /\ borrowed' = borrowed \/ (borrowed' = borrowed \cup {Newest} /\ Valid(Newest))
    BY <1>4 DEF TakeNewest, DropExpired, Pop, createVars, serviceVars
  <2>4. Serving' => Serving /\ borrowed' \cup arriving' \subseteq alive'
    BY <2>2, <2>3 DEF Existing, Serving
  <2>5. QED
    BY <1>1, <2>2, <2>3, <2>4, ExistingShrinks
<1>5. CASE \E c \in Callers : Release(c)
  <2>1. PICK c \in Callers : Release(c)
    BY <1>5
  <2>2. /\ held[c] \in Sessions /\ held[c] \notin Inventory /\ held[c] \notin arriving
        /\ mode' = mode /\ arriving' = arriving
    BY <2>1, ReleaseMoves DEF IInv, Places
  <2>3. CASE /\ mode = "closed" /\ UNCHANGED <<sessions, age, borrowed, alive>>
    BY <1>2, <2>2, <2>3 DEF Serving
  <2>4. CASE /\ borrowed' = borrowed \ {held[c]} /\ UNCHANGED <<sessions, age>>
             /\ alive' = alive \ {held[c]}
    BY <1>2, <2>2, <2>4 DEF Serving, Existing
  <2>5. CASE /\ held[c] \in borrowed /\ borrowed' = borrowed \ {held[c]}
             /\ Push(held[c]) /\ alive' = alive
    <3>1. Serving' => Serving /\ held[c] \in alive /\ borrowed' \cup arriving' \subseteq alive
      BY <2>2, <2>5 DEF Serving, Existing
    <3>2. QED
      BY <1>1, <2>2, <2>5, <3>1, ExistingGrows
  <2>6. QED
    BY <2>1, <2>3, <2>4, <2>5, ReleaseMoves
<1>6. CASE Open \/ Close
  BY <1>2, <1>6
  DEF Open, Close, Fill, CreateSessions, createVars, storeVars, serviceVars, Existing, Serving
<1>7. CASE FinishClose
  BY <1>7 DEF FinishClose, Existing, Inventory, Serving
<1>8. CASE EvictIdle
  <2> DEFINE gone == Slice(IdleCount - EvictCount + 1, IdleCount)
  <2>1. /\ Inventory' = Inventory \ gone
        /\ age' = [s \in Sessions |-> IF s \in gone THEN 0 ELSE age[s]]
    BY <1>8, EvictEffect
  <2> HIDE DEF gone
  <2>2. /\ alive' = alive /\ borrowed' = borrowed /\ arriving' = arriving /\ mode' = mode
    BY <1>8 DEF EvictIdle, createVars
  <2>3. \A x \in Inventory' : age'[x] = age[x]
    BY <1>1, <2>1
  <2>4. QED
    BY <2>1, <2>2, <2>3, ExistingShrinks DEF Existing, Serving
<1>9. CASE PingIdle
  <2> DEFINE idle == Slice(1, IdleCount)
             sent == Slice(ExpiredCount + 1, IdleCount)
  <2>1. /\ Inventory' = Inventory \ idle /\ borrowed' = borrowed \cup sent
        /\ sent \subseteq idle /\ idle \subseteq Inventory
        /\ age' = [s \in Sessions |-> IF s \in idle THEN 0 ELSE age[s]]
    BY <1>9, PingEffect
  <2>2. ASSUME NEW s \in sent PROVE Valid(s) /\ s \in Inventory
    <3>1. PICK k \in ExpiredCount + 1..IdleCount : s = sessions[k]
      BY DEF Slice
    <3>2. k \in 1..Len(sessions) /\ ~(k <= ExpiredCount)
      BY <1>1, Numbers
    <3>3. QED
      BY <1>1, <3>1, <3>2, OldPrefix DEF Inventory
  <2> HIDE DEF idle, sent
  <2>3. /\ alive' = alive /\ arriving' = arriving /\ mode' = mode
    BY <1>9 DEF PingIdle, Fill, CreateSessions, createVars
  <2>4. \A x \in Inventory' : age'[x] = age[x]
    BY <1>1, <2>1
  <2>5. Serving' => Serving /\ borrowed' \cup arriving' \subseteq alive'
    BY <2>1, <2>2, <2>3 DEF Existing, Serving
  <2>6. QED
    BY <2>1, <2>3, <2>4, <2>5, ExistingShrinks
<1>10. CASE Tick
  <2> DEFINE dead == {s \in Inventory : age'[s] = ExpiryAge}
  <2>1. /\ UNCHANGED <<mode, sessions, borrowed, arriving>> /\ Inventory' = Inventory
        /\ \A s \in Inventory : /\ age[s] \in 0..ExpiryAge
                                /\ age'[s] = IF age[s] < ExpiryAge THEN age[s] + 1 ELSE age[s]
        /\ alive' = alive \ dead
    BY <1>1, <1>10 DEF Tick, TypeOK, Inventory, createVars
  <2>2. \A s \in Inventory : (Valid(s)' <=> s \notin dead) /\ (Valid(s)' => Valid(s))
    BY <2>1, AgeAssumption DEF Valid
  <2>3. Serving' => Serving /\ borrowed' \cup arriving' \subseteq alive'
    BY <2>1 DEF Serving, Existing, IInv, Places
  <2> HIDE DEF dead
  <2>4. QED
    BY <2>1, <2>2, <2>3 DEF Existing
<1>11. CASE \E n \in 1..MaxSize, S \in SUBSET Sessions : BatchReply(n, S)
  <2>1. PICK S \in SUBSET Sessions : S \subseteq Fresh /\ alive' = alive \cup S
             /\ arriving' = arriving \cup S /\ UNCHANGED <<mode, sessions, age, borrowed>>
    BY <1>11 DEF BatchReply, storeVars
  <2>2. S \cap Inventory = {}
    BY <2>1 DEF Fresh, Tracked
  <2>3. QED
    BY <1>2, <2>1, <2>2 DEF Existing, Serving
<1>12. CASE \E s \in Sessions : Arrive(s) \/ PingOk(s)
  <2>1. PICK s \in Sessions : Arrive(s) \/ PingOk(s)
    BY <1>12
  <2>2. s \notin Inventory /\ mode' = mode /\ alive' = alive
    BY <2>1 DEF Arrive, PingOk, IInv, Places, serviceVars
  <2>3. arriving' \subseteq arriving /\ borrowed' \subseteq borrowed
    BY <2>1 DEF Arrive, PingOk, EndPing, Fill, CreateSessions, createVars, storeVars
  <2>4. \/ Push(s) /\ s \in arriving \cup borrowed
        \/ UNCHANGED <<sessions, age>>
    BY <2>1 DEF Arrive, PingOk, storeVars
  <2>5. QED
    BY <1>1, <1>2, <2>2, <2>3, <2>4, ExistingGrows DEF Existing, Serving
<1>13. CASE \E s \in Sessions : PingFail(s)
  BY <1>2, <1>13 DEF PingFail, createVars, Existing, Serving
<1>14. CASE \E s \in Sessions : Expire(s)
  BY <1>2, <1>14 DEF Expire, storeVars, createVars, Tracked, Existing, Serving
<1>15. CASE \E s \in Sessions, ok \in BOOLEAN : DeleteDone(s, ok)
  <2>1. PICK s \in Sessions, ok \in BOOLEAN : DeleteDone(s, ok)
    BY <1>15
  <2>2. /\ s \in deleting /\ (alive' = alive \/ alive' = alive \ {s})
        /\ UNCHANGED <<mode, sessions, age, borrowed, arriving>>
    BY <2>1 DEF DeleteDone, EndPing, Fill, CreateSessions, createVars, storeVars
  <2>3. Serving => s \notin Inventory \cup borrowed \cup arriving
    BY <2>2 DEF IInv, UsedIsKept
  <2>4. QED
    BY <1>2, <2>2, <2>3 DEF Existing, Serving
<1>16. QED
  BY <1>3, <1>4, <1>5, <1>6, <1>7, <1>8, <1>9, <1>10, <1>11, <1>12, <1>13, <1>14, <1>15, Moves

---------------------------------------------------------------------------
(* The waiter that was woken                                               *)

\* Timers and replies come only when no waiter is between wake-up and pop.
LEMMA QuietNoneWoken ==
  ASSUME Quiet
  PROVE  \A c \in Callers : phase[c] # "woken"
BY DEF Quiet, Acquiring, Waiters

\* A step after which nobody is woken, and which starts no second task.
LEMMA AwakeIdly ==
  ASSUME \A c, d \in Acquiring' : c = d, \A c \in Callers : phase'[c] # "woken"
  PROVE  Awake'
BY DEF Awake

\* One round of the loop, by the only task there is.
LEMMA AwakeTries ==
  ASSUME IInv, NEW c \in Callers, Acquiring \subseteq {c},
         TryAcquire(c) \/ GiveUp(c)
  PROVE  Awake'
<1>1. /\ \A d \in Callers : d # c => phase'[d] = phase[d]
      /\ phase'[c] # "woken"
  BY DEF IInv, TypeOK, TryAcquire, TakeNewest, DropExpired, Exhausted, AwaitSession, GiveUp
<1>2. \A d \in Callers : d # c => phase[d] \notin {"running", "waiting", "woken"}
  BY DEF Acquiring
<1>3. Acquiring' \subseteq {c}
  BY <1>1, <1>2 DEF Acquiring
<1>4. QED
  BY <1>1, <1>2, <1>3, AwakeIdly

\* A push wakes the waiter, for which the session is there.
LEMMA AwakePushes ==
  ASSUME IInv, Awake, NEW s \in Sessions, Push(s), ~Closable,
         mode' = mode, deleting' = deleting,
         Acquiring' \subseteq Acquiring
  PROVE  Awake'
<1>1. sessions' # <<>> /\ Newest' = s /\ age'[s] = 0
  BY DEF Push, Newest, IInv, TypeOK
<1>2. Valid(Newest)'
  BY <1>1, AgeAssumption DEF Valid
<1>3. QED
  BY <1>1, <1>2 DEF Awake, Closable

\* Every step keeps the invariant about the woken waiter.
LEMMA AwakeKept ==
  ASSUME IInv, Awake, [Next]_vars
  PROVE  Awake'
<1>1. phase \in [Callers -> {"idle", "queued", "running", "waiting", "woken", "holding"}]
      /\ sessions \in Seq(Sessions)
  BY DEF IInv, TypeOK
<1>2. ASSUME phase' = phase, \A c \in Callers : phase[c] # "woken" PROVE Awake'
  BY <1>2, AwakeIdly DEF Awake, Acquiring
<1>3. ASSUME NEW c \in Callers, NEW p \in {"idle", "queued"},
             phase' = [phase EXCEPT ![c] = p], sessions' = sessions, age' = age,
             mode' = mode, deleting' = deleting
      PROVE  Awake'
  BY <1>1, <1>3 DEF Awake, Acquiring, Newest, Valid
<1>4. CASE \E c \in Callers : \/ GetSession(c) \/ GetSessionClosed(c)
                              \/ StartNext(c) \/ Retry(c) \/ Resume(c)
                              \/ TimeOut(c) \/ BecomeLate(c) \/ Release(c)
  <2>1. PICK c \in Callers : \/ GetSession(c) \/ GetSessionClosed(c)
                             \/ StartNext(c) \/ Retry(c) \/ Resume(c)
                             \/ TimeOut(c) \/ BecomeLate(c) \/ Release(c)
    BY <1>4
  <2>2. CASE GetSession(c)
    BY <1>3, <2>2, AwakeTries DEF GetSession, storeVars, serviceVars
  <2>3. CASE GetSessionClosed(c)
    BY <2>3 DEF GetSessionClosed, vars, Awake, Acquiring, Newest, Valid
  <2>4. CASE StartNext(c)
    BY <2>4, AwakeTries DEF StartNext
  <2>5. CASE Retry(c) \/ Resume(c)
    <3>1. Acquiring \subseteq {c}
      BY <2>5 DEF Retry, Resume, Awake, Acquiring
    <3>2. QED
      BY <2>5, <3>1, AwakeTries DEF Retry, Resume, TryAcquire
  <2>6. CASE TimeOut(c)
    BY <1>3, <2>6 DEF TimeOut, GiveUp, storeVars, serviceVars
  <2>7. CASE BecomeLate(c)
    BY <1>2, <2>7, QuietNoneWoken DEF BecomeLate
  <2>8. CASE Release(c)
    <3>1. CASE ReleaseUnknown(c) \/ ReleaseLost(c)
      BY <1>3, <2>8, <3>1 DEF Release, ReleaseUnknown, ReleaseLost, storeVars
    <3>2. CASE ReleaseToInventory(c)
      <4>1. Acquiring' \subseteq Acquiring
        BY <1>1, <3>2 DEF ReleaseToInventory, Wake, Acquiring
      <4>2. held[c] \in Sessions
        BY <2>8, ReleaseMoves
      <4>3. QED
        BY <2>8, <3>2, <4>1, <4>2, AwakePushes DEF Release, ReleaseToInventory
    <3>3. QED
      BY <2>8, <3>1, <3>2 DEF Release
  <2>9. QED
    BY <2>1, <2>2, <2>3, <2>4, <2>5, <2>6, <2>7, <2>8
<1>5. CASE Open
  BY <1>5 DEF Open, callerVars, storeVars, serviceVars, Awake, Acquiring, Newest, Valid
<1>6. CASE Close
  <2>1. ASSUME NEW c \in Callers, phase'[c] = "woken" PROVE deleting' # {}
    <3>1. phase[c] = "woken"
      BY <1>1, <1>6, <2>1 DEF Close, Reject
    <3>2. sessions # <<>>
      BY <3>1 DEF Awake
    <3>3. Inventory # {}
      <4>1. Len(sessions) \in Nat /\ Len(sessions) # 0
        BY <1>1, <3>2
      <4>2. 1 \in 1..Len(sessions)
        BY <4>1
      <4>3. QED
        BY <4>2 DEF Inventory
    <3>4. QED
      BY <1>6, <3>3 DEF Close
  <2>2. Acquiring' \subseteq Acquiring /\ \A c \in Callers : phase'[c] = "woken" => phase[c] = "woken"
    BY <1>1, <1>6 DEF Close, Reject, Acquiring
  <2>3. sessions' = sessions /\ age' = age
    BY <1>6 DEF Close, storeVars
  <2>4. QED
    BY <2>1, <2>2, <2>3 DEF Awake, Newest, Valid
<1>7. CASE FinishClose
  <2>1. \A c \in Callers : phase[c] # "woken"
    BY <1>7 DEF FinishClose, Closable, Awake
  <2>2. QED
    BY <1>2, <1>7, <2>1 DEF FinishClose, callerVars
<1>8. CASE EvictIdle \/ PingIdle \/ Tick
  BY <1>2, <1>8, QuietNoneWoken DEF EvictIdle, PingIdle, Tick, callerVars
<1>9. CASE \E n \in 1..MaxSize : BatchError(n)
  <2>1. \A c \in Callers : phase[c] # "woken"
    BY <1>9, QuietNoneWoken DEF BatchError
  <2>2. Acquiring' \subseteq Acquiring /\ \A c \in Callers : phase'[c] # "woken"
    BY <1>1, <1>9, <2>1 DEF BatchError, Reject, Acquiring
  <2>3. QED
    BY <2>2, AwakeIdly DEF Awake
<1>10. CASE \E n \in 1..MaxSize, S \in SUBSET Sessions : BatchReply(n, S)
  BY <1>2, <1>10, QuietNoneWoken DEF BatchReply, callerVars
<1>11. CASE \E s \in Sessions : Arrive(s) \/ PingOk(s)
  <2>1. PICK s \in Sessions : Arrive(s) \/ PingOk(s)
    BY <1>11
  <2>2. Quiet /\ ~Closable /\ mode' = mode
    BY <2>1 DEF Arrive, PingOk, Quiet
  <2>3. CASE Push(s) /\ deleting' = deleting /\ phase' = Wake(phase)
    <3>1. Acquiring' \subseteq Acquiring
      BY <1>1, <2>3 DEF Wake, Acquiring
    <3>2. QED
      BY <2>2, <2>3, <3>1, AwakePushes
  <2>4. CASE phase' = phase
    BY <1>2, <2>2, <2>4, QuietNoneWoken
  <2>5. QED
    BY <2>1, <2>3, <2>4 DEF Arrive, PingOk, serviceVars
<1>12. CASE \E s \in Sessions : PingFail(s) \/ Expire(s) \/ \E ok \in BOOLEAN : DeleteDone(s, ok)
  BY <1>2, <1>12, QuietNoneWoken DEF PingFail, Expire, DeleteDone, callerVars
<1>13. CASE UNCHANGED vars
  BY <1>13 DEF vars, Awake, Acquiring, Newest, Valid
<1>14. QED
  BY <1>4, <1>5, <1>6, <1>7, <1>8, <1>9, <1>10, <1>11, <1>12, <1>13 DEF Next

---------------------------------------------------------------------------
(* Callers who queue, and callers who wait                                 *)

\* The queue holds each queued caller once, and nobody else; only they can be
\* late.
QueueExact ==
  /\ Distinct(queue)
  /\ \A c \in Callers : phase[c] = "queued" <=> c \in Elems(queue)
  /\ late \subseteq Elems(queue)

\* Nobody waits for a session while one is on offer.
OfferTaken == \A c \in Callers : phase[c] = "waiting" => sessions = <<>>

\* A round of the loop leaves its caller out of the queue, and waiting only if
\* there is no session.
LEMMA RoundEffect ==
  ASSUME TypeOK, NEW c \in Callers, TryAcquire(c) \/ GiveUp(c)
  PROVE  /\ \A d \in Callers \ {c} : phase'[d] = phase[d]
         /\ phase'[c] # "queued"
         /\ phase'[c] = "waiting" => sessions' = <<>>
BY DEF TypeOK, TryAcquire, TakeNewest, DropExpired, Exhausted, GiveUp, AwaitSession, storeVars

LEMMA TailElems ==
  ASSUME NEW S, NEW q \in Seq(S), q # <<>>, Distinct(q)
  PROVE  /\ Distinct(Tail(q))
         /\ Elems(Tail(q)) = Elems(q) \ {Head(q)}
<1>1. /\ Head(q) = q[1] /\ Len(Tail(q)) = Len(q) - 1 /\ Len(q) \in Nat /\ Len(q) > 0
      /\ \A i \in 1..Len(Tail(q)) : Tail(q)[i] = q[i + 1]
  OBVIOUS
<1>2. \A i \in 1..Len(Tail(q)) : i + 1 \in 1..Len(q) /\ i + 1 # 1
  BY <1>1
<1>3. ASSUME NEW i \in 1..Len(q), i # 1
      PROVE  i - 1 \in 1..Len(Tail(q)) /\ Tail(q)[i - 1] = q[i]
  BY <1>1, <1>3
<1>4. Distinct(Tail(q))
  BY <1>1, <1>2 DEF Distinct
<1>5. Elems(Tail(q)) \subseteq Elems(q) \ {Head(q)}
  <2> SUFFICES ASSUME NEW i \in 1..Len(Tail(q)) PROVE Tail(q)[i] \in Elems(q) \ {Head(q)}
    BY DEF Elems
  <2>1. Tail(q)[i] = q[i + 1] /\ i + 1 \in 1..Len(q) /\ 1 \in 1..Len(q)
    BY <1>1, <1>2
  <2>2. q[i + 1] # q[1]
    BY <1>2, <2>1 DEF Distinct
  <2>3. QED
    BY <1>1, <2>1, <2>2 DEF Elems
<1>6. Elems(q) \ {Head(q)} \subseteq Elems(Tail(q))
  BY <1>1, <1>3 DEF Elems
<1>7. QED
  BY <1>4, <1>5, <1>6

\* Every step keeps the queue exact.
LEMMA QueueKept ==
  ASSUME TypeOK, QueueExact, [Next]_vars
  PROVE  QueueExact'
<1>1. /\ phase \in [Callers -> {"idle", "queued", "running", "waiting", "woken", "holding"}]
      /\ queue \in Seq(Callers)
  BY DEF TypeOK
<1>2. ASSUME UNCHANGED <<queue, late>>,
             \A c \in Callers : phase'[c] = "queued" <=> phase[c] = "queued"
      PROVE  QueueExact'
  BY <1>2 DEF QueueExact
<1>3. ASSUME NEW c \in Callers, phase[c] # "queued", TryAcquire(c) \/ GiveUp(c),
             UNCHANGED <<queue, late>>
      PROVE  QueueExact'
  BY <1>2, <1>3, RoundEffect
<1>4. ASSUME NEW c \in Callers, GetSession(c) PROVE QueueExact'
  <2>1. phase[c] = "idle" /\ late' = late
    BY <1>4 DEF GetSession
  <2>2. CASE TryAcquire(c) /\ UNCHANGED queue
    BY <1>3, <2>1, <2>2
  <2>3. CASE phase' = [phase EXCEPT ![c] = "queued"] /\ queue' = Append(queue, c)
    <3>1. c \notin Elems(queue)
      BY <2>1 DEF QueueExact
    <3>2. Elems(queue') = Elems(queue) \cup {c} /\ Distinct(queue')
      BY <1>1, <2>3, <3>1, PushElems DEF QueueExact
    <3>3. QED
      BY <1>1, <2>1, <2>3, <3>2 DEF QueueExact
  <2>4. QED
    BY <1>4, <2>2, <2>3 DEF GetSession
<1>5. ASSUME NEW c \in Callers, StartNext(c) PROVE QueueExact'
  <2>1. /\ queue # <<>> /\ c = Head(queue) /\ queue' = Tail(queue) /\ late' = late \ {c}
        /\ TryAcquire(c) \/ GiveUp(c)
    BY <1>5 DEF StartNext
  <2>2. Elems(queue') = Elems(queue) \ {c} /\ Distinct(queue')
    BY <1>1, <2>1, TailElems DEF QueueExact
  <2>3. QED
    BY <2>1, <2>2, RoundEffect DEF QueueExact
<1>6. ASSUME NEW c \in Callers, Retry(c) \/ Resume(c) \/ TimeOut(c) PROVE QueueExact'
  BY <1>3, <1>6 DEF Retry, Resume, TimeOut, TryAcquire
<1>7. ASSUME NEW c \in Callers, BecomeLate(c) PROVE QueueExact'
  BY <1>7 DEF BecomeLate, QueueExact
<1>8. ASSUME NEW c \in Callers, Release(c) PROVE QueueExact'
  BY <1>1, <1>2, <1>8
  DEF Release, ReleaseUnknown, ReleaseLost, ReleaseToInventory, Wake
<1>9. ASSUME NEW c \in Callers, GetSessionClosed(c) PROVE QueueExact'
  BY <1>2, <1>9 DEF GetSessionClosed, vars
<1>10. CASE Close \/ \E n \in 1..MaxSize : BatchError(n)
  BY <1>1, <1>2, <1>10 DEF Close, BatchError, Reject
<1>11. CASE \E s \in Sessions : Arrive(s) \/ PingOk(s)
  BY <1>1, <1>2, <1>11 DEF Arrive, PingOk, Wake
<1>12. CASE \/ Open \/ FinishClose \/ EvictIdle \/ PingIdle \/ Tick
            \/ \E n \in 1..MaxSize, S \in SUBSET Sessions : BatchReply(n, S)
            \/ \E s \in Sessions : PingFail(s) \/ Expire(s) \/ \E ok \in BOOLEAN : DeleteDone(s, ok)
  BY <1>2, <1>12
  DEF Open, FinishClose, EvictIdle, PingIdle, Tick, BatchReply, PingFail, Expire, DeleteDone,
      callerVars
<1>13. CASE UNCHANGED vars
  BY <1>2, <1>13 DEF vars
<1>14. QED
  BY <1>4, <1>5, <1>6, <1>7, <1>8, <1>9, <1>10, <1>11, <1>12, <1>13 DEF Next

\* Every step that puts a session on offer wakes who waits.
LEMMA OfferKept ==
  ASSUME IInv, Awake, OfferTaken, [Next]_vars
  PROVE  OfferTaken'
<1>1. /\ phase \in [Callers -> {"idle", "queued", "running", "waiting", "woken", "holding"}]
      /\ sessions \in Seq(Sessions) /\ TypeOK
  BY DEF IInv, TypeOK
<1>2. ASSUME sessions' = sessions, \A c \in Callers : phase'[c] = "waiting" => phase[c] = "waiting"
      PROVE  OfferTaken'
  BY <1>2 DEF OfferTaken
<1>3. ASSUME \A c \in Callers : phase'[c] # "waiting" PROVE OfferTaken'
  BY <1>3 DEF OfferTaken
<1>4. ASSUME NEW c \in Callers, Acquiring \subseteq {c}, TryAcquire(c) \/ GiveUp(c)
      PROVE  OfferTaken'
  BY <1>1, <1>4, RoundEffect DEF OfferTaken, Acquiring
<1>5. ASSUME NEW c \in Callers, \/ GetSession(c) \/ GetSessionClosed(c)
                                \/ StartNext(c) \/ Retry(c) \/ Resume(c)
                                \/ TimeOut(c) \/ BecomeLate(c) \/ Release(c)
      PROVE  OfferTaken'
  <2>1. CASE GetSession(c)
    BY <1>1, <1>2, <1>4, <2>1 DEF GetSession, storeVars
  <2>2. CASE StartNext(c)
    BY <1>4, <2>2 DEF StartNext
  <2>3. CASE Retry(c) \/ Resume(c) \/ TimeOut(c)
    <3>1. Acquiring \subseteq {c}
      BY <2>3 DEF Retry, Resume, TimeOut, Awake, Acquiring
    <3>2. QED
      BY <1>4, <2>3, <3>1 DEF Retry, Resume, TimeOut, TryAcquire
  <2>4. CASE BecomeLate(c) \/ GetSessionClosed(c)
    BY <1>2, <2>4 DEF BecomeLate, GetSessionClosed, storeVars, vars
  <2>5. CASE Release(c)
    BY <1>1, <1>2, <1>3, <2>5
    DEF Release, ReleaseUnknown, ReleaseLost, ReleaseToInventory, Wake, storeVars
  <2>6. QED
    BY <1>5, <2>1, <2>2, <2>3, <2>4, <2>5
<1>6. CASE Close \/ \E n \in 1..MaxSize : BatchError(n)
  BY <1>1, <1>3, <1>6 DEF Close, BatchError, Reject
<1>7. CASE \E s \in Sessions : Arrive(s) \/ PingOk(s)
  BY <1>1, <1>2, <1>3, <1>7 DEF Arrive, PingOk, Wake, storeVars
<1>8. CASE FinishClose
  BY <1>8 DEF FinishClose, OfferTaken
<1>9. CASE EvictIdle
  <2>1. EvictCount > 0 /\ EvictCount \in 0..IdleCount /\ IdleCount \in 0..Len(sessions)
    BY <1>1, <1>9, Numbers, EvictEffect DEF EvictIdle, IInv, Places
  <2>2. sessions # <<>>
    BY <1>1, <2>1
  <2>3. phase' = phase
    BY <1>9 DEF EvictIdle, callerVars
  <2>4. QED
    BY <2>2, <2>3 DEF OfferTaken
<1>10. CASE PingIdle
  <2>1. phase' = phase /\ sessions' = SubSeq(sessions, IdleCount + 1, Len(sessions))
    BY <1>10 DEF PingIdle, callerVars
  <2>2. IdleCount \in 0..Len(sessions)
    BY <1>1, Numbers
  <2>3. sessions = <<>> => sessions' = <<>>
    BY <1>1, <2>1, <2>2
  <2>4. QED
    BY <2>1, <2>3 DEF OfferTaken
<1>11. CASE \/ Open \/ Tick
            \/ \E n \in 1..MaxSize, S \in SUBSET Sessions : BatchReply(n, S)
            \/ \E s \in Sessions : PingFail(s) \/ Expire(s) \/ \E ok \in BOOLEAN : DeleteDone(s, ok)
  BY <1>2, <1>11
  DEF Open, Tick, BatchReply, PingFail, Expire, DeleteDone, callerVars, storeVars
<1>12. CASE UNCHANGED vars
  BY <1>2, <1>12 DEF vars
<1>13. QED
  BY <1>5, <1>6, <1>7, <1>8, <1>9, <1>10, <1>11, <1>12 DEF Next

---------------------------------------------------------------------------
(* The theorems                                                            *)

\* A pool just constructed satisfies the invariant.
LEMMA OInitHolds == Init => OInv
BY DEF Init, OInv, OldestFirst, LeaksExact, Held, Existing, Inventory, Awake, Acquiring

\* Every step keeps the invariant.
LEMMA ONextKeeps == IInv /\ OInv /\ [Next]_vars => OInv'
BY OrderKept, LeaksKept, ExistingKept, AwakeKept DEF OInv

\* The invariant holds in every state of every behaviour.
THEOREM OInductive == Spec => []OInv
<1>1. Spec => [][Next]_vars
  BY PTL DEF Spec
<1>2. QED
  BY <1>1, OInitHolds, ONextKeeps, Inductive, PTL DEF Spec

\* The inventory is ordered by last use.
THEOREM Ordered == Spec => []OldestFirst
<1>1. OInv => OldestFirst
  BY DEF OInv
<1>2. QED
  BY <1>1, OInductive, PTL

\* The leak report names exactly the sessions that callers hold.
THEOREM LeaksReported == Spec => []LeaksExact
<1>1. OInv => LeaksExact
  BY DEF OInv
<1>2. QED
  BY <1>1, OInductive, PTL

\* A woken waiter finds a session that is valid.
THEOREM WokenServed == Spec => []WokenFindsSession
<1>1. OInv => WokenFindsSession
  BY DEF OInv, Awake, Valid, WokenFindsSession
<1>2. QED
  BY <1>1, OInductive, PTL

\* Every caller in the queue will be started, and once: the queue forgets
\* nobody when callers come, time out and go in whatever order.
THEOREM NobodyForgotten == Spec => []QueueExact
<1>1. Init => QueueExact
  BY DEF Init, QueueExact, Distinct, Elems
<1>2. TypeOK /\ QueueExact /\ [Next]_vars => QueueExact'
  BY QueueKept
<1>3. QED
  BY <1>1, <1>2, TypeCorrect, PTL DEF Spec

\* No wake-up is lost: whenever a session is on offer the waiter has been
\* told, so that whoever still waits does so for a session in use or under
\* creation, or the pool has none at all.
THEOREM NoLostWakeup ==
  Spec => [](\A c \in Callers : phase[c] = "waiting" =>
               sessions = <<>> /\ (borrowed # {} \/ pending > 0 \/ Size = 0))
<1>1. Init => OfferTaken
  BY DEF Init, OfferTaken
<1>2. IInv /\ OInv /\ OfferTaken /\ [Next]_vars => OfferTaken'
  BY OfferKept DEF OInv
<1>3. Spec => []OfferTaken
  BY <1>1, <1>2, Inductive, OInductive, PTL DEF Spec
<1>4. ASSUME OfferTaken, PendingExact, Size \in 0..MaxSize, IInv,
             NEW c \in Callers, phase[c] = "waiting"
      PROVE  sessions = <<>> /\ (borrowed # {} \/ pending > 0 \/ Size = 0)
  <2>1. sessions = <<>> /\ Len(sessions) = 0
    BY <1>4 DEF OfferTaken
  <2>2. pending \in Nat
    BY <1>4, Account DEF IInv
  <2>3. borrowed = {} => Cardinality(borrowed) = 0
    BY FS_EmptySet
  <2>4. QED
    BY <2>1, <2>2, <2>3 DEF Size
<1>5. OfferTaken /\ PendingExact /\ Size \in 0..MaxSize /\ IInv =>
        \A c \in Callers : phase[c] = "waiting" =>
          sessions = <<>> /\ (borrowed # {} \/ pending > 0 \/ Size = 0)
  BY <1>4
<1>6. QED
  BY <1>3, <1>5, Inductive, PendingCounted, SizeCounts, PTL
===========================================================================

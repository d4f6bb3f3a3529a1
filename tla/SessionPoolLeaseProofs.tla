---------------------- MODULE SessionPoolLeaseProofs ----------------------
(***************************************************************************)
(* Proofs that the pool implements SessionLease, evicts within its limits  *)
(* and orphans no session, for every value of the constants.               *)
(***************************************************************************)
EXTENDS SessionPoolOrderProofs

---------------------------------------------------------------------------
(* What a step does to the pool's books                                    *)

\* A push adds one session to the inventory.
LEMMA PushBooks ==
  ASSUME TypeOK, NEW s \in Sessions, Push(s)
  PROVE  Inventory' = Inventory \cup {s}
<1>1. Inventory = Elems(sessions) /\ Inventory' = Elems(sessions')
  BY DEF Inventory, Elems
<1>2. Elems(Append(sessions, s)) = Elems(sessions) \cup {s}
  BY PushElems DEF TypeOK
<1>3. QED
  BY <1>1, <1>2 DEF Push

\* The ping round's sessions are those of the idle ones that are valid.
LEMMA SentValid ==
  ASSUME IInv, OldestFirst, NEW s \in Slice(1, IdleCount)
  PROVE  s \in Slice(ExpiredCount + 1, IdleCount) <=> Valid(s)
<1>1. /\ Len(sessions) \in Nat /\ IdleCount \in 0..Len(sessions)
      /\ ExpiredCount \in 0..IdleCount /\ TypeOK
  BY Numbers DEF IInv
<1>2. PICK k \in 1..IdleCount : s = sessions[k]
  BY DEF Slice
<1>3. k \in 1..Len(sessions)
  BY <1>1
<1>4. ASSUME Valid(s) PROVE s \in Slice(ExpiredCount + 1, IdleCount)
  <2>1. ~(k <= ExpiredCount)
    BY <1>1, <1>2, <1>3, <1>4, OldPrefix DEF IInv
  <2>2. k \in ExpiredCount + 1..IdleCount
    BY <1>1, <1>3, <2>1
  <2>3. QED
    BY <1>2, <2>2 DEF Slice
<1>5. ASSUME s \in Slice(ExpiredCount + 1, IdleCount) PROVE Valid(s)
  <2>1. PICK i \in ExpiredCount + 1..IdleCount : s = sessions[i]
    BY <1>5 DEF Slice
  <2>2. i \in 1..Len(sessions) /\ ~(i <= ExpiredCount)
    BY <1>1
  <2>3. QED
    BY <1>1, <2>1, <2>2, OldPrefix
<1>6. QED
  BY <1>4, <1>5

---------------------------------------------------------------------------
(* No session is orphaned                                                  *)

\* A session that leaves the books of an open pool and still exists was being
\* deleted.
LEMMA StepOrphansNothing ==
  ASSUME IInv, OInv, [Next]_vars, mode' = "open",
         NEW s \in alive \cap alive' \cap Tracked, s \notin Tracked'
  PROVE  s \in deleting
<1>1. TypeOK /\ Distinct(sessions)
  BY DEF IInv, Places
<1>2. CASE Stays
  BY <1>2 DEF Stays, storeVars, serviceVars, Tracked, Inventory
<1>3. CASE \E c \in Callers : TakeNewest(c) \/ DropExpired(c)
  <2>1. Pop(borrowed') /\ UNCHANGED <<arriving, deleting>>
    BY <1>3 DEF TakeNewest, DropExpired, Pop, createVars, serviceVars
  <2>2. Inventory' = Inventory \ {Newest} /\ Newest \in Inventory
    BY <1>1, <2>1, PopEffect
  <2>3. borrowed' = borrowed \cup {Newest} \/ (borrowed' = borrowed /\ ~Valid(Newest))
    BY <1>3 DEF TakeNewest, DropExpired, Pop
  <2>4. ~Valid(Newest) => Newest \notin alive
    BY <2>2 DEF OInv, Existing
  <2>5. QED
    BY <2>1, <2>2, <2>3, <2>4 DEF Tracked
<1>4. CASE \E c \in Callers : Release(c)
  <2>1. PICK c \in Callers : Release(c)
    BY <1>4
  <2>2. /\ arriving' = arriving /\ deleting' = deleting /\ held[c] \in Sessions
        /\ borrowed' = borrowed \ {held[c]}
        /\ \/ UNCHANGED <<sessions, age>> /\ alive' = alive \ {held[c]}
           \/ Push(held[c])
    BY <2>1, ReleaseMoves
  <2>3. CASE sessions' = sessions /\ alive' = alive \ {held[c]}
    BY <2>2, <2>3 DEF Tracked, Inventory
  <2>4. CASE Push(held[c])
    BY <1>1, <2>2, <2>4, PushBooks DEF Tracked
  <2>5. QED
    BY <2>2, <2>3, <2>4
<1>5. CASE EvictIdle
  <2>1. UNCHANGED <<borrowed, arriving>>
    BY <1>5 DEF EvictIdle, createVars
  <2>2. QED
    BY <1>5, <2>1, EvictEffect DEF Tracked
<1>6. CASE PingIdle
  <2> DEFINE idle == Slice(1, IdleCount)
             sent == Slice(ExpiredCount + 1, IdleCount)
  <2>1. Inventory' = Inventory \ idle /\ borrowed' = borrowed \cup sent
    BY <1>6, PingEffect
  <2>2. UNCHANGED <<arriving, deleting>>
    BY <1>6 DEF PingIdle, Fill, CreateSessions, createVars
  <2>3. s \in Inventory /\ Valid(s) /\ s \in idle => s \in sent
    BY SentValid DEF OInv
  <2> HIDE DEF idle, sent
  <2>4. s \in Inventory => Valid(s)
    BY DEF OInv, Existing
  <2>5. QED
    BY <2>1, <2>2, <2>3, <2>4 DEF Tracked
<1>7. CASE Open \/ Tick \/ \E x \in Sessions : Expire(x)
  BY <1>7 DEF Open, Tick, Expire, Fill, CreateSessions, createVars, storeVars, serviceVars,
              Tracked, Inventory
<1>8. CASE Close \/ FinishClose
  BY <1>8 DEF Close, FinishClose
<1>9. CASE \E n \in 1..MaxSize, S \in SUBSET Sessions : BatchReply(n, S)
  BY <1>9 DEF BatchReply, storeVars, Tracked, Inventory
<1>10. CASE \E x \in Sessions : Arrive(x) \/ PingOk(x)
  <2>1. PICK x \in Sessions : Arrive(x) \/ PingOk(x)
    BY <1>10
  <2>2. CASE Push(x) /\ deleting' = deleting
    <3>1. arriving \ {x} \subseteq arriving' /\ borrowed \ {x} \subseteq borrowed'
      BY <2>1, <2>2 DEF Arrive, PingOk, EndPing, Fill, CreateSessions, createVars, storeVars
    <3>2. QED
      BY <1>1, <2>2, <3>1, PushBooks DEF Tracked
  <2>3. CASE UNCHANGED <<storeVars, createVars>> /\ deleting' = deleting \cup {x}
    BY <2>3 DEF storeVars, createVars, Tracked, Inventory
  <2>4. QED
    BY <2>1, <2>2, <2>3 DEF Arrive, PingOk, serviceVars
<1>11. CASE \E x \in Sessions : PingFail(x)
  BY <1>11 DEF PingFail, createVars, Tracked, Inventory
<1>12. CASE \E x \in Sessions, ok \in BOOLEAN : DeleteDone(x, ok)
  BY <1>12 DEF DeleteDone, EndPing, Fill, CreateSessions, createVars, storeVars,
               Tracked, Inventory
<1>13. QED
  BY <1>2, <1>3, <1>4, <1>5, <1>6, <1>7, <1>8, <1>9, <1>10, <1>11, <1>12, Moves

\* An open pool loses no session that still exists at the backend.
THEOREM NotOrphaned == Spec => NothingOrphaned
<1>1. IInv /\ OInv /\ [Next]_vars =>
        [mode' = "open" =>
           \A s \in (alive \cap alive' \cap Tracked) \ Tracked' : s \in deleting]_vars
  BY StepOrphansNothing
<1>2. QED
  BY <1>1, Inductive, OInductive, PTL DEF Spec, NothingOrphaned

---------------------------------------------------------------------------
(* Eviction keeps within its limits                                        *)

\* The rounds of the eviction loop stop at maxIdle idle sessions and at min
\* sessions in all.
LEMMA EvictCountBounds ==
  ASSUME TypeOK, EvictCount > 0
  PROVE  /\ EvictCount \in Nat
         /\ EvictCount <= IdleCount - MaxIdle
         /\ EvictCount <= Size - MinSize
<1> DEFINE rounds == {k \in 0..IdleCount-1 : IdleCount - k > MaxIdle /\ Size - k > MinSize}
<1>1. /\ IdleCount \in Nat /\ Size \in Int /\ MaxIdle \in Nat /\ MinSize \in Nat
  BY Numbers, OptionsAssumption
<1>2. IsFiniteSet(0..IdleCount-1) /\ rounds \in SUBSET (0..IdleCount-1)
  <2>1. 0 \in Int /\ IdleCount-1 \in Int
    BY <1>1
  <2>2. QED
    BY <2>1, FS_Interval
<1>3. EvictCount = Cardinality(rounds)
  BY DEF EvictCount
<1>4. IsFiniteSet(rounds)
  BY <1>2, FS_Subset
<1>5. Cardinality(rounds) \in Nat
  BY <1>4, FS_CardinalityType
<1>6. rounds # {}
  BY <1>3, FS_EmptySet
<1>7. ASSUME NEW m \in Int, m >= 1, rounds \subseteq 0..m - 1 PROVE EvictCount <= m
  <2>1. 0 \in Int /\ m - 1 \in Int /\ 0 <= m - 1 /\ (m - 1) - 0 + 1 = m
    BY <1>7
  <2>2. IsFiniteSet(0..m - 1) /\ Cardinality(0..m - 1) = m
    BY <2>1, FS_Interval
  <2>3. QED
    BY <1>3, <1>7, <2>2, FS_Subset
<1>8. PICK k \in 0..IdleCount-1 : IdleCount - k > MaxIdle /\ Size - k > MinSize
  BY <1>6
<1>9. IdleCount - MaxIdle \in Int /\ IdleCount - MaxIdle >= 1
      /\ Size - MinSize \in Int /\ Size - MinSize >= 1
  BY <1>1, <1>8
<1>10. rounds \subseteq 0..(IdleCount - MaxIdle) - 1 /\ rounds \subseteq 0..(Size - MinSize) - 1
  BY <1>1
<1> HIDE DEF rounds
<1>11. QED
  BY <1>3, <1>5, <1>7, <1>9, <1>10

\* What an open pool starts to delete although it is on offer is what eviction
\* may take.
LEMMA StepEvictsBounded ==
  ASSUME IInv, OInv, [Next]_vars, mode' = "open",
         Inventory \cap (deleting' \ deleting) # {}
  PROVE  LET gone == Inventory \cap (deleting' \ deleting)
         IN  /\ \A s \in gone : age[s] >= IdleAge
             /\ Size' >= MinSize
             /\ IdleCount - Cardinality(gone) >= MaxIdle
<1> DEFINE gone == Inventory \cap (deleting' \ deleting)
           cut  == Slice(IdleCount - EvictCount + 1, IdleCount)
<1>1. EvictIdle
  <2>1. ASSUME NEW s \in Sessions, PingOk(s) \/ PingFail(s) PROVE gone = {}
    BY <2>1 DEF PingOk, PingFail, IInv, Places
  <2>2. ASSUME deleting' \subseteq deleting PROVE gone = {}
    BY <2>2
  <2>3. QED
    BY <2>1, <2>2, Moves, ReleaseMoves
    DEF Stays, serviceVars, TakeNewest, DropExpired, Open, Close, FinishClose, PingIdle, Tick,
        BatchReply, Arrive, Expire, DeleteDone
<1>2. /\ Len(sessions) \in Nat /\ IdleCount \in 0..Len(sessions)
      /\ Cardinality(borrowed) \in Nat /\ pending \in Int
      /\ sessions \in Seq(Sessions) /\ Inventory \subseteq Sessions
  BY Numbers DEF IInv, TypeOK
<1>3. /\ cut \subseteq Inventory /\ deleting' = deleting \cup cut
      /\ Len(sessions') = Len(sessions) - EvictCount
  BY <1>1, EvictEffect
<1>4. gone \subseteq cut
  BY <1>3
<1>5. /\ EvictCount \in Nat /\ EvictCount <= IdleCount - MaxIdle
      /\ EvictCount <= Size - MinSize
  BY <1>1, EvictCountBounds DEF EvictIdle, IInv
<1>6. EvictCount <= IdleCount
  BY <1>1, <1>2, EvictEffect
<1>7. ASSUME NEW s \in gone PROVE age[s] >= IdleAge
  <2>1. PICK i \in IdleCount - EvictCount + 1..IdleCount : s = sessions[i]
    BY <1>4 DEF Slice
  <2>2. i \in 1..Len(sessions) /\ i <= IdleCount
    BY <1>2, <1>5, <1>6
  <2>3. QED
    BY <2>1, <2>2, OldPrefix DEF IInv, OInv
<1>8. Size' >= MinSize
  <2>1. pending' = pending /\ borrowed' = borrowed
    BY <1>1 DEF EvictIdle, createVars
  <2>2. QED
    BY <1>2, <1>3, <1>5, <2>1, OptionsAssumption DEF Size
<1>9. IsFiniteSet(cut) /\ Cardinality(cut) <= EvictCount
  <2> DEFINE k == IdleCount
             m == k - EvictCount + 1
  <2>1. m \in 1..Len(sessions) + 1 /\ k \in m - 1..Len(sessions) /\ k - m + 1 = EvictCount
    BY <1>2, <1>5, <1>6
  <2>2. cut = {sessions[i] : i \in m..k}
    BY DEF Slice
  <2> HIDE DEF k, m, cut
  <2>3. IsFiniteSet(cut) /\ Cardinality(cut) <= k - m + 1
    BY <1>2, <2>1, <2>2, StretchCard
  <2>4. QED
    BY <2>1, <2>3
<1> HIDE DEF gone, cut
<1>10. IsFiniteSet(gone) /\ Cardinality(gone) <= Cardinality(cut)
  BY <1>4, <1>9, FS_Subset
<1>11. Cardinality(gone) \in Nat /\ Cardinality(cut) \in Nat
  BY <1>9, <1>10, FS_CardinalityType
<1>12. IdleCount - Cardinality(gone) >= MaxIdle
  BY <1>2, <1>5, <1>9, <1>10, <1>11, OptionsAssumption
<1>13. QED
  BY <1>7, <1>8, <1>12 DEF gone

\* Eviction takes only idle sessions, and leaves options.min sessions in all
\* and options.maxIdle idle ones.
THEOREM EvictsWithinLimits == Spec => EvictionBounded
<1>1. IInv /\ OInv /\ [Next]_vars =>
        [LET gone == Inventory \cap (deleting' \ deleting)
         IN  mode' = "open" /\ gone # {} =>
               /\ \A s \in gone : age[s] >= IdleAge
               /\ Size' >= MinSize
               /\ IdleCount - Cardinality(gone) >= MaxIdle]_vars
  BY StepEvictsBounded
<1>2. QED
  BY <1>1, Inductive, OInductive, PTL DEF Spec, EvictionBounded

---------------------------------------------------------------------------
(* The pool is a SessionLease                                              *)

\* No caller has a lease on a session that is in no caller's hands.
LEMMA LeasedHeld ==
  ASSUME NEW s, s \notin Held, s # None
  PROVE  ~Lease!Leased(s)
BY DEF Lease!Leased, Held

\* A pool just constructed has lent nothing.
LEMMA InitLease == Init => Lease!LeaseInit
BY DEF Init, Lease!LeaseInit

\* Every step of the pool is a step of the lease service, or invisible to it.
LEMMA StepLeases ==
  ASSUME IInv, OInv, [Next]_vars
  PROVE  [Lease!LeaseNext]_(Lease!leaseVars)
<1>1. TypeOK /\ Distinct(sessions) /\ None \notin Sessions
  BY SessionsAssumption DEF IInv, Places
<1>2. ASSUME UNCHANGED <<held, alive>>, mode' = "open" <=> mode = "open"
      PROVE  UNCHANGED Lease!leaseVars
  BY <1>2 DEF Lease!leaseVars
<1>3. ASSUME NEW S \in SUBSET Sessions, S \subseteq alive, alive' = alive \ S,
             mode = "open" => S \cap Held = {},
             held' = held, mode' = mode
      PROVE  [Lease!LeaseNext]_(Lease!leaseVars)
  <2>1. CASE S = {}
    BY <1>2, <1>3, <2>1
  <2>2. CASE S # {}
    <3>1. mode = "open" => \A s \in S : ~Lease!Leased(s)
      BY <1>1, <1>3, LeasedHeld
    <3>2. Lease!Retire(S)
      BY <1>3, <2>2, <3>1 DEF Lease!Retire
    <3>3. QED
      BY <3>2 DEF Lease!LeaseNext
  <2>3. QED
    BY <2>1, <2>2
<1>4. CASE Stays
  BY <1>2, <1>4 DEF Stays, serviceVars
<1>5. CASE \E c \in Callers : phase[c] # "holding" /\ DropExpired(c)
  BY <1>2, <1>5 DEF DropExpired, serviceVars
<1>6. CASE \E c \in Callers : phase[c] # "holding" /\ TakeNewest(c)
  <2>1. PICK c \in Callers : phase[c] # "holding" /\ TakeNewest(c)
    BY <1>6
  <2>2. Newest \in Inventory /\ Newest \in Sessions
    BY <1>1, <2>1, PopEffect DEF TakeNewest
  <2>3. held[c] = None
    BY <2>1 DEF IInv, Holders
  <2>4. ~Lease!Leased(Newest)
    BY <1>1, <2>2, LeasedHeld DEF IInv, Places
  <2>5. mode = "open" => Newest \in alive
    BY <2>1, <2>2 DEF TakeNewest, OInv, Existing, Serving
  <2>6. Lease!Grant(c, Newest)
    BY <2>1, <2>3, <2>4, <2>5 DEF TakeNewest, serviceVars, Lease!Grant
  <2>7. QED
    BY <2>2, <2>6 DEF Lease!LeaseNext
<1>7. CASE \E c \in Callers : Release(c)
  <2>1. PICK c \in Callers : Release(c)
    BY <1>7
  <2>2. /\ held[c] # None /\ held' = [held EXCEPT ![c] = None] /\ mode' = mode
        /\ alive' = alive \/ alive' = alive \ {held[c]}
    BY <2>1, ReleaseMoves
  <2>3. PICK lost \in BOOLEAN : alive' = IF lost THEN alive \ {held[c]} ELSE alive
    BY <2>2
  <2>4. Lease!Return(c, lost)
    BY <2>2, <2>3 DEF Lease!Return
  <2>5. QED
    BY <2>4 DEF Lease!LeaseNext
<1>8. CASE Open
  BY <1>8 DEF Open, serviceVars, callerVars, Lease!Serve, Lease!LeaseNext
<1>9. CASE Close
  BY <1>9 DEF Close, Lease!Shut, Lease!LeaseNext
<1>10. CASE FinishClose \/ EvictIdle \/ PingIdle
  BY <1>2, <1>10 DEF FinishClose, EvictIdle, PingIdle, Closable, callerVars, serviceVars
<1>11. CASE Tick
  <2> DEFINE dead == {s \in Inventory : age'[s] = ExpiryAge}
  <2>1. alive' = alive \ dead /\ held' = held /\ mode' = mode
    BY <1>11 DEF Tick, callerVars
  <2>2. alive' = alive \ (dead \cap alive) /\ dead \cap alive \in SUBSET Sessions
    BY <1>1, <2>1, Numbers
  <2>3. (dead \cap alive) \cap Held = {}
    BY DEF IInv, Places
  <2>4. QED
    BY <1>3, <2>1, <2>2, <2>3
<1>12. CASE \E n \in 1..MaxSize, S \in SUBSET Sessions : BatchReply(n, S)
  <2>1. PICK S \in SUBSET Sessions : S # {} /\ S \subseteq Fresh /\ alive' = alive \cup S
             /\ UNCHANGED <<mode, held>>
    BY <1>12 DEF BatchReply, callerVars
  <2>2. \A s \in S : ~Lease!Leased(s) /\ s \notin alive
    BY <1>1, <2>1, LeasedHeld DEF Fresh
  <2>3. Lease!Create(S)
    BY <2>1, <2>2 DEF Lease!Create
  <2>4. QED
    BY <2>3 DEF Lease!LeaseNext
<1>13. CASE \E s \in Sessions : Arrive(s) \/ PingOk(s) \/ PingFail(s)
  BY <1>2, <1>13 DEF Arrive, PingOk, PingFail, callerVars, serviceVars
<1>14. CASE \E s \in Sessions : Expire(s)
  <2>1. PICK s \in Sessions : Expire(s)
    BY <1>14
  <2>2. /\ {s} \in SUBSET Sessions /\ {s} \subseteq alive /\ alive' = alive \ {s}
        /\ {s} \cap Held = {} /\ held' = held /\ mode' = mode
    BY <2>1 DEF Expire, callerVars
  <2>3. QED
    BY <1>3, <2>2
<1>15. CASE \E s \in Sessions, ok \in BOOLEAN : DeleteDone(s, ok)
  <2>1. PICK s \in Sessions, ok \in BOOLEAN : DeleteDone(s, ok)
    BY <1>15
  <2> DEFINE S == IF ok THEN {s} \cap alive ELSE {}
  <2>2. /\ S \in SUBSET Sessions /\ S \subseteq alive /\ alive' = alive \ S
        /\ held' = held /\ mode' = mode /\ s \in deleting
    BY <2>1 DEF DeleteDone, callerVars
  <2>3. mode = "open" => S \cap Held = {}
    BY <2>2 DEF IInv, UsedIsKept, Serving
  <2> HIDE DEF S
  <2>4. QED
    BY <1>3, <2>2, <2>3
<1>16. QED
  BY <1>4, <1>5, <1>6, <1>7, <1>8, <1>9, <1>10, <1>11, <1>12, <1>13, <1>14, <1>15, Moves

\* The pool implements SessionLease: a session is lent to one caller at a
\* time, exists when it is lent, and is not deleted under its borrower while
\* the pool is open.
THEOREM ImplementsLease == Spec => RefinesLease
BY InitLease, StepLeases, Inductive, OInductive, PTL DEF Spec, RefinesLease, Lease!LeaseSpec

---------------------------------------------------------------------------
(* What close() waits for                                                  *)

\* The deletes that start while close() waits are those of keep-alives that
\* fail, of which no new ones are sent.
AwaitsLess == mode = "closing" /\ mode' = "closing" =>
                /\ pinging' \subseteq pinging
                /\ deleting' \ deleting \subseteq pinging \ pinging'

\* close() never waits for more than what was under way when it was called:
\* each delete and each keep-alive is answered once, which leaves less of
\* them, whatever callers go on doing with their sessions.
THEOREM CloseAwaitsLess == Spec => [][AwaitsLess]_vars
<1>1. ASSUME [Next]_vars, mode = "closing", mode' = "closing"
      PROVE  pinging' \subseteq pinging /\ deleting' \ deleting \subseteq pinging \ pinging'
  <2>1. CASE UNCHANGED <<pinging, deleting>>
    BY <2>1
  <2>2. CASE \E s \in Sessions : PingOk(s) \/ PingFail(s)
    BY <1>1, <2>2 DEF PingOk, PingFail
  <2>3. CASE \E s \in Sessions, ok \in BOOLEAN : DeleteDone(s, ok)
    BY <2>3 DEF DeleteDone
  <2>4. \/ UNCHANGED <<pinging, deleting>>
        \/ \E s \in Sessions : PingOk(s) \/ PingFail(s)
        \/ \E s \in Sessions, ok \in BOOLEAN : DeleteDone(s, ok)
    BY <1>1 DEF Next, vars, serviceVars, Open, Close, FinishClose, EvictIdle, PingIdle, Tick,
       GetSession, GetSessionClosed, StartNext, Retry, Resume, TimeOut, BecomeLate, Release,
       TryAcquire, TakeNewest, DropExpired, Exhausted, AwaitSession, GiveUp,
       BatchError, BatchReply, Arrive, Expire
  <2>5. QED
    BY <2>1, <2>2, <2>3, <2>4
<1>2. [Next]_vars => [AwaitsLess]_vars
  BY <1>1 DEF AwaitsLess
<1>3. QED
  BY <1>2, PTL DEF Spec
===========================================================================

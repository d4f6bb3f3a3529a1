------------------------ MODULE SessionPoolProofs -------------------------
(***************************************************************************)
(* Proofs about SessionPool, for every value of its constants.             *)
(***************************************************************************)
EXTENDS SessionPool, FiniteSetTheorems, SequenceTheorems, TLAPS

---------------------------------------------------------------------------
(* The inductive invariant                                                 *)

Elems(q)    == {q[i] : i \in 1..Len(q)}
Distinct(q) == \A i, j \in 1..Len(q) : i # j => q[i] # q[j]

\* Where a session can be: in at most one of the inventory, the borrowed set
\* and the sessions about to arrive; a session some caller holds or a ping
\* uses is in neither the inventory nor arriving.
Places ==
  /\ Distinct(sessions)
  /\ borrowed \cap Inventory = {}
  /\ arriving \cap (Inventory \cup borrowed \cup Held \cup pinging) = {}
  /\ pinging \cap (Inventory \cup Held) = {}
  /\ Held \cap Inventory = {}

\* Who holds a session: only a caller whose request was answered with one,
\* and no two callers the same.
Holders ==
  /\ \A c \in Callers : phase[c] = "holding" <=> held[c] # None
  /\ \A c, d \in Callers : c # d /\ held[c] # None => held[c] # held[d]
  /\ mode # "closed" => Held \subseteq borrowed

\* A pool that is not closing deletes no session that is on offer or in use.
Serving == mode \in {"new", "open"}

UsedIsKept ==
  Serving => deleting \cap (Held \cup Inventory \cup borrowed \cup arriving) = {}

IInv == TypeOK /\ WithinMax /\ Places /\ Holders /\ UsedIsKept

---------------------------------------------------------------------------
(* Sequences without repetition                                            *)

\* What pushing does to the elements of a sequence (_release's push).
LEMMA PushElems ==
  ASSUME NEW S, NEW q \in Seq(S), NEW s \in S
  PROVE  /\ Append(q, s) \in Seq(S)
         /\ Len(Append(q, s)) = Len(q) + 1
         /\ Elems(Append(q, s)) = Elems(q) \cup {s}
         /\ Distinct(q) /\ s \notin Elems(q) => Distinct(Append(q, s))
<1>1. /\ Append(q, s) \in Seq(S)
      /\ Len(Append(q, s)) = Len(q) + 1
      /\ \A i \in 1..Len(q) : Append(q, s)[i] = q[i]
      /\ Append(q, s)[Len(q) + 1] = s
  OBVIOUS
<1>2. Len(q) \in Nat
  OBVIOUS
<1>3. Elems(Append(q, s)) = Elems(q) \cup {s}
  <2>1. ASSUME NEW x \in Elems(Append(q, s)) PROVE x \in Elems(q) \cup {s}
    <3>1. PICK i \in 1..Len(q) + 1 : x = Append(q, s)[i]
      BY <1>1 DEF Elems
    <3>2. QED
      BY <1>1, <1>2, <3>1 DEF Elems
  <2>2. ASSUME NEW x \in Elems(q) \cup {s} PROVE x \in Elems(Append(q, s))
    <3>1. PICK i \in 1..Len(q) + 1 : x = Append(q, s)[i]
      BY <1>1, <1>2 DEF Elems
    <3>2. QED
      BY <1>1, <3>1 DEF Elems
  <2>3. QED
    BY <2>1, <2>2
<1>4. Distinct(q) /\ s \notin Elems(q) => Distinct(Append(q, s))
  BY <1>1, <1>2 DEF Elems, Distinct
<1>5. QED
  BY <1>1, <1>3, <1>4

\* What taking a contiguous part of a sequence does to its elements.
LEMMA PartElems ==
  ASSUME NEW S, NEW q \in Seq(S), NEW m \in 1..Len(q) + 1, NEW n \in m - 1..Len(q)
  PROVE  /\ SubSeq(q, m, n) \in Seq(S)
         /\ Len(SubSeq(q, m, n)) = n - m + 1
         /\ \A i \in 1..n - m + 1 : SubSeq(q, m, n)[i] = q[m + i - 1]
         /\ Elems(SubSeq(q, m, n)) = {q[i] : i \in m..n}
         /\ Distinct(q) => Distinct(SubSeq(q, m, n))
<1>1. Len(q) \in Nat /\ \A i \in 1..Len(q) : q[i] \in S
  OBVIOUS
<1>2. /\ SubSeq(q, m, n) \in Seq(S)
      /\ Len(SubSeq(q, m, n)) = n - m + 1
      /\ \A i \in 1..n - m + 1 : SubSeq(q, m, n)[i] = q[m + i - 1]
  <2>1. m \in Int /\ n \in Int /\ \A i \in m..n : q[i] \in S
    BY <1>1
  <2>2. QED
    BY <1>1, <2>1, SubSeqProperties
<1>3. Elems(SubSeq(q, m, n)) = {q[i] : i \in m..n}
  <2>1. ASSUME NEW x \in Elems(SubSeq(q, m, n)) PROVE x \in {q[i] : i \in m..n}
    <3>1. PICK i \in 1..n - m + 1 : x = q[m + i - 1]
      BY <1>2 DEF Elems
    <3>2. m + i - 1 \in m..n
      BY <1>1
    <3>3. QED
      BY <3>1, <3>2
  <2>2. ASSUME NEW i \in m..n PROVE q[i] \in Elems(SubSeq(q, m, n))
    <3>1. i - m + 1 \in 1..n - m + 1 /\ m + (i - m + 1) - 1 = i
      BY <1>1
    <3>2. QED
      BY <1>2, <3>1 DEF Elems
  <2>3. QED
    BY <2>1, <2>2
<1>4. Distinct(q) => Distinct(SubSeq(q, m, n))
  BY <1>1, <1>2 DEF Distinct
<1>5. QED
  BY <1>2, <1>3, <1>4

Cut(q, m, n) == SubSeq(q, 1, m - 1) \o SubSeq(q, n + 1, Len(q))

\* What cutting the stretch m..n out of a sequence does to its elements.
LEMMA CutElems ==
  ASSUME NEW S, NEW q \in Seq(S), NEW m \in 1..Len(q) + 1, NEW n \in m - 1..Len(q),
         Distinct(q)
  PROVE  /\ Cut(q, m, n) \in Seq(S)
         /\ Len(Cut(q, m, n)) = Len(q) - (n - m + 1)
         /\ Elems(Cut(q, m, n)) = Elems(q) \ {q[i] : i \in m..n}
         /\ Distinct(Cut(q, m, n))
         /\ \A i \in 1..Len(Cut(q, m, n)) :
              Cut(q, m, n)[i] = IF i <= m - 1 THEN q[i] ELSE q[n + i - (m - 1)]
<1> DEFINE a == SubSeq(q, 1, m - 1)
           b == SubSeq(q, n + 1, Len(q))
           r == a \o b
<1>1. Len(q) \in Nat
  OBVIOUS
<1>2. /\ a \in Seq(S) /\ Len(a) = m - 1
      /\ \A i \in 1..m - 1 : a[i] = q[i]
  <2>1. 1 \in 1..Len(q) + 1 /\ m - 1 \in 1 - 1..Len(q)
    BY <1>1
  <2>2. QED
    BY <1>1, <2>1, PartElems
<1>3. /\ b \in Seq(S) /\ Len(b) = Len(q) - n
      /\ \A i \in 1..Len(q) - n : b[i] = q[n + i]
  <2>1. n + 1 \in 1..Len(q) + 1 /\ Len(q) \in (n + 1) - 1..Len(q)
    BY <1>1
  <2>2. Len(q) - (n + 1) + 1 = Len(q) - n
    BY <1>1
  <2>3. /\ b \in Seq(S) /\ Len(b) = Len(q) - (n + 1) + 1
        /\ \A i \in 1..Len(q) - (n + 1) + 1 : b[i] = q[(n + 1) + i - 1]
    BY <2>1, PartElems
  <2>4. ASSUME NEW i \in 1..Len(q) - n PROVE b[i] = q[n + i]
    <3>1. b[i] = q[(n + 1) + i - 1]
      BY <2>2, <2>3
    <3>2. (n + 1) + i - 1 = n + i
      BY <1>1
    <3>3. QED
      BY <3>1, <3>2
  <2>5. QED
    BY <2>2, <2>3, <2>4
<1> HIDE DEF a, b
<1>4. /\ r \in Seq(S)
      /\ Len(r) = Len(q) - (n - m + 1)
      /\ \A i \in 1..Len(r) : r[i] = IF i <= m - 1 THEN q[i] ELSE q[n + i - (m - 1)]
  <2>1. /\ r \in Seq(S) /\ Len(r) = Len(a) + Len(b)
        /\ \A i \in 1..Len(a) + Len(b) :
             r[i] = IF i <= Len(a) THEN a[i] ELSE b[i - Len(a)]
    BY <1>2, <1>3, ConcatProperties
  <2>2. Len(r) = Len(q) - (n - m + 1)
    BY <1>1, <1>2, <1>3, <2>1
  <2>3. ASSUME NEW i \in 1..Len(r)
        PROVE  r[i] = IF i <= m - 1 THEN q[i] ELSE q[n + i - (m - 1)]
    <3>1. CASE i <= m - 1
      BY <1>1, <1>2, <1>3, <2>1, <3>1
    <3>2. CASE i > m - 1
      <4>1. i - (m - 1) \in 1..Len(q) - n
        BY <1>1, <2>2, <3>2
      <4>2. n + (i - (m - 1)) = n + i - (m - 1)
        BY <1>1
      <4>3. QED
        BY <1>2, <1>3, <2>1, <3>2, <4>1, <4>2, SMTT(20)
    <3>3. QED
      BY <1>1, <3>1, <3>2
  <2>4. QED
    BY <2>1, <2>2, <2>3
<1> HIDE DEF r
<1>5. Distinct(r)
  <2> DEFINE at(i) == IF i <= m - 1 THEN i ELSE n + i - (m - 1)
  <2>1. \A i \in 1..Len(r) : r[i] = q[at(i)] /\ at(i) \in 1..Len(q)
    BY <1>1, <1>4
  <2>2. \A i, j \in 1..Len(r) : i # j => at(i) # at(j)
    BY <1>1, <1>4
  <2>3. QED
    BY <2>1, <2>2 DEF Distinct
<1>6. Elems(r) = Elems(q) \ {q[i] : i \in m..n}
  <2>1. ASSUME NEW x \in Elems(r) PROVE x \in Elems(q) \ {q[i] : i \in m..n}
    <3>1. PICK i \in 1..Len(r) : x = r[i]
      BY DEF Elems
    <3>2. PICK j \in 1..Len(q) : j \notin m..n /\ x = q[j]
      <4>1. CASE i <= m - 1
        BY <1>1, <1>4, <3>1, <4>1
      <4>2. CASE i > m - 1
        <5>1. n + i - (m - 1) \in 1..Len(q) /\ n + i - (m - 1) \notin m..n
          BY <1>1, <1>4, <4>2
        <5>2. QED
          BY <1>4, <3>1, <4>2, <5>1
      <4>3. QED
        BY <1>1, <4>1, <4>2
    <3>3. x \notin {q[k] : k \in m..n}
      BY <1>1, <3>2 DEF Distinct
    <3>4. QED
      BY <3>2, <3>3 DEF Elems
  <2>2. ASSUME NEW x \in Elems(q) \ {q[i] : i \in m..n} PROVE x \in Elems(r)
    <3>1. PICK j \in 1..Len(q) : x = q[j] /\ j \notin m..n
      BY DEF Elems
    <3>2. PICK i \in 1..Len(r) : x = r[i]
      <4>1. CASE j < m
        BY <1>1, <1>4, <3>1, <4>1, SMTT(20)
      <4>2. CASE j > n
        <5>1. j - (n - m + 1) \in 1..Len(r) /\ ~(j - (n - m + 1) <= m - 1)
          BY <1>1, <1>4, <4>2
        <5>2. n + (j - (n - m + 1)) - (m - 1) = j
          BY <1>1
        <5>3. QED
          BY <1>4, <3>1, <5>1, <5>2
      <4>3. QED
        BY <1>1, <3>1, <4>1, <4>2
    <3>3. QED
      BY <3>2 DEF Elems
  <2>3. QED
    BY <2>1, <2>2
<1>7. QED
  BY <1>4, <1>5, <1>6 DEF a, b, r, Cut

\* A stretch of n sessions holds at most n different ones.
LEMMA StretchCard ==
  ASSUME NEW S, NEW q \in Seq(S), NEW m \in 1..Len(q) + 1, NEW n \in m - 1..Len(q),
         NEW T, T = {q[i] : i \in m..n}
  PROVE  IsFiniteSet(T) /\ T \subseteq S /\ Cardinality(T) <= n - m + 1
<1> DEFINE f == [i \in m..n |-> q[i]]
<1>1. f \in Surjection(m..n, T)
  BY DEF Surjection
<1>2. Len(q) \in Nat
  OBVIOUS
<1>3. IsFiniteSet(m..n) /\ Cardinality(m..n) = n - m + 1
  <2>1. m \in Int /\ n \in Int /\ (m > n => n - m + 1 = 0)
    BY <1>2
  <2>2. QED
    BY <2>1, FS_Interval
<1>4. IsFiniteSet(T) /\ Cardinality(T) <= Cardinality(m..n)
  BY <1>1, <1>3, FS_Surjection
<1>5. T \subseteq S
  BY <1>2
<1>6. QED
  BY <1>3, <1>4, <1>5

---------------------------------------------------------------------------
(* What the helpers of the actions do                                      *)

\* The numbers the pool computes are numbers, in every typed state.
LEMMA Numbers ==
  ASSUME TypeOK
  PROVE  /\ Len(sessions) \in Nat
         /\ Inventory = Elems(sessions) /\ Inventory \subseteq Sessions
         /\ IsFiniteSet(borrowed) /\ Cardinality(borrowed) \in Nat
         /\ Size \in Int
         /\ IdleCount \in 0..Len(sessions)
         /\ ExpiredCount \in 0..IdleCount
<1>1. Len(sessions) \in Nat /\ Inventory \subseteq Sessions
  BY DEF TypeOK, Inventory
<1>2. Inventory = Elems(sessions)
  BY DEF Inventory, Elems
<1>3. IsFiniteSet(borrowed) /\ Cardinality(borrowed) \in Nat
  BY SessionsAssumption, FS_Subset, FS_CardinalityType DEF TypeOK
<1>4. Size \in Int
  BY <1>1, <1>3 DEF Size, TypeOK
<1> DEFINE all == 1..Len(sessions)
           old == {i \in all : age[sessions[i]] >= IdleAge}
           gone == {i \in all : ~Valid(sessions[i])}
<1>5. IsFiniteSet(all) /\ Cardinality(all) = Len(sessions)
  <2>1. 1 \in Int /\ Len(sessions) \in Int /\ (1 > Len(sessions) => Len(sessions) = 0)
    BY <1>1
  <2>2. QED
    BY <2>1, FS_Interval
<1>6. gone \subseteq old
  <2>1. \A i \in all : age[sessions[i]] \in 0..ExpiryAge
    BY <1>1 DEF TypeOK
  <2>2. QED
    BY <2>1, AgeAssumption DEF Valid
<1>7. IsFiniteSet(old) /\ Cardinality(old) <= Len(sessions)
  <2>1. old \in SUBSET all
    OBVIOUS
  <2>2. QED
    BY <1>5, <2>1, FS_Subset
<1>8. Cardinality(gone) <= Cardinality(old) /\ IsFiniteSet(gone)
  <2>1. gone \in SUBSET old
    BY <1>6
  <2>2. QED
    BY <1>7, <2>1, FS_Subset
<1>9. Cardinality(old) \in Nat /\ Cardinality(gone) \in Nat
  BY <1>7, <1>8, FS_CardinalityType
<1>10. IdleCount = Cardinality(old) /\ ExpiredCount = Cardinality(gone)
  BY DEF IdleCount, ExpiredCount
<1> HIDE DEF old, gone
<1>11. QED
  BY <1>1, <1>2, <1>3, <1>4, <1>7, <1>8, <1>9, <1>10

\* _createSessions(n) adds n to _pending, and nothing if n is not positive.
LEMMA CreateEffect ==
  ASSUME TypeOK, NEW n \in Int, CreateSessions(n)
  PROVE  /\ pending' \in Int
         /\ pending' = IF n <= 0 THEN pending ELSE pending + n
         /\ creating' \in [1..MaxSize -> Nat]
         /\ arriving' = arriving
<1>1. CASE n <= 0
  BY <1>1 DEF CreateSessions, createVars, TypeOK
<1>2. CASE n > 0
  BY <1>2 DEF CreateSessions, TypeOK
<1>3. QED
  BY <1>1, <1>2

\* A push adds one session on top, last used just now.
LEMMA PushEffect ==
  ASSUME TypeOK, NEW s \in Sessions, Push(s)
  PROVE  /\ sessions' \in Seq(Sessions) /\ Len(sessions') = Len(sessions) + 1
         /\ Inventory' = Inventory \cup {s}
         /\ Distinct(sessions) /\ s \notin Inventory => Distinct(sessions')
         /\ age' \in [Sessions -> 0..ExpiryAge]
         /\ \A x \in Sessions : x # s => age'[x] = age[x]
<1>1. /\ Append(sessions, s) \in Seq(Sessions)
      /\ Len(Append(sessions, s)) = Len(sessions) + 1
      /\ Elems(Append(sessions, s)) = Elems(sessions) \cup {s}
      /\ Distinct(sessions) /\ s \notin Elems(sessions) => Distinct(Append(sessions, s))
  BY PushElems DEF TypeOK
<1>2. Inventory = Elems(sessions) /\ Inventory' = Elems(sessions')
  BY DEF Inventory, Elems
<1>3. /\ age' \in [Sessions -> 0..ExpiryAge]
      /\ \A x \in Sessions : x # s => age'[x] = age[x]
  BY AgeAssumption DEF Push, TypeOK
<1>4. sessions' = Append(sessions, s)
  BY DEF Push
<1>5. QED
  BY <1>1, <1>2, <1>3, <1>4

\* A pop takes the newest session out of the inventory, and only it.
LEMMA PopEffect ==
  ASSUME TypeOK, Distinct(sessions), NEW bs, Pop(bs)
  PROVE  /\ sessions' \in Seq(Sessions) /\ Len(sessions') = Len(sessions) - 1
         /\ Newest \in Inventory /\ Newest \in Sessions
         /\ Inventory' = Inventory \ {Newest}
         /\ Distinct(sessions')
         /\ age' \in [Sessions -> 0..ExpiryAge]
         /\ \A x \in Sessions : x # Newest => age'[x] = age[x]
         /\ borrowed' = bs
<1> DEFINE n == Len(sessions)
<1>1. n \in Nat /\ n >= 1
  BY DEF Pop, TypeOK
<1>2. Newest \in Inventory /\ Newest \in Sessions
  BY <1>1, Numbers DEF Newest, Inventory
<1>3. 1 \in 1..n + 1 /\ n - 1 \in 1 - 1..n /\ (n - 1) - 1 + 1 = n - 1
  BY <1>1
<1>4. /\ SubSeq(sessions, 1, n - 1) \in Seq(Sessions)
      /\ Len(SubSeq(sessions, 1, n - 1)) = n - 1
      /\ Elems(SubSeq(sessions, 1, n - 1)) = {sessions[i] : i \in 1..n - 1}
      /\ Distinct(SubSeq(sessions, 1, n - 1))
  <2>1. sessions \in Seq(Sessions)
    BY DEF TypeOK
  <2>2. /\ SubSeq(sessions, 1, n - 1) \in Seq(Sessions)
        /\ Len(SubSeq(sessions, 1, n - 1)) = (n - 1) - 1 + 1
    BY <1>3, <2>1, PartElems
  <2>4. Elems(SubSeq(sessions, 1, n - 1)) = {sessions[i] : i \in 1..n - 1}
    BY <1>3, <2>1, PartElems
  <2>5. Distinct(SubSeq(sessions, 1, n - 1))
    BY <1>3, <2>1, PartElems
  <2>3. QED
    BY <1>3, <2>2, <2>4, <2>5
<1>5. {sessions[i] : i \in 1..n - 1} = Inventory \ {Newest}
  BY <1>1 DEF Inventory, Newest, Distinct
<1>6. sessions' = SubSeq(sessions, 1, n - 1) /\ borrowed' = bs
  BY DEF Pop
<1>7. Inventory' = Elems(sessions')
  BY DEF Inventory, Elems
<1>8. /\ age' \in [Sessions -> 0..ExpiryAge]
      /\ \A x \in Sessions : x # Newest => age'[x] = age[x]
  BY <1>2, AgeAssumption DEF Pop, TypeOK
<1>9. QED
  BY <1>2, <1>4, <1>5, <1>6, <1>7, <1>8

---------------------------------------------------------------------------
(* Every action keeps the invariant: acquiring                             *)

\* Borrowing the newest session keeps the invariant.
LEMMA TakeNewestKeeps ==
  ASSUME IInv, NEW c \in Callers, phase[c] # "holding", TakeNewest(c),
         queue' \in Seq(Callers), late' \in SUBSET Callers
  PROVE  IInv'
<1>1. /\ sessions' \in Seq(Sessions) /\ Len(sessions') = Len(sessions) - 1
      /\ Newest \in Inventory /\ Newest \in Sessions
      /\ Inventory' = Inventory \ {Newest}
      /\ Distinct(sessions')
      /\ age' \in [Sessions -> 0..ExpiryAge]
      /\ \A x \in Sessions : x # Newest => age'[x] = age[x]
      /\ borrowed' = borrowed \cup {Newest}
  BY PopEffect DEF IInv, Places, TakeNewest
<1>2. Inventory \subseteq Sessions /\ IsFiniteSet(borrowed)
      /\ Cardinality(borrowed) \in Nat /\ Len(sessions) \in Nat
  BY Numbers DEF IInv
<1>3. held[c] = None /\ Newest # None
  BY <1>1, SessionsAssumption DEF IInv, Holders
<1>4. /\ held' = [held EXCEPT ![c] = Newest]
      /\ Held' = Held \cup {Newest}
  BY <1>1, <1>3 DEF IInv, TypeOK, Held, TakeNewest
<1>5. TypeOK'
  BY <1>1 DEF IInv, TypeOK, TakeNewest, createVars, serviceVars
<1>6. WithinMax'
  <2>1. Cardinality(borrowed') = Cardinality(borrowed) + 1
    BY <1>1, <1>2, FS_AddElement DEF IInv, Places
  <2>2. pending' = pending
    BY DEF TakeNewest, createVars
  <2>3. Size' = Size
    BY <1>1, <1>2, <2>1, <2>2 DEF Size, IInv, TypeOK
  <2>4. QED
    BY <2>3 DEF IInv, WithinMax
<1>7. Places'
  BY <1>1, <1>4 DEF IInv, Places, TakeNewest, createVars, serviceVars
<1>8. Holders'
  <2>1. \A d \in Callers : d # c => held'[d] = held[d] /\ held[d] # Newest
    BY <1>1, <1>3, <1>4 DEF IInv, TypeOK, Places, Held
  <2>2. held'[c] = Newest /\ phase'[c] = "holding"
    BY <1>4 DEF IInv, TypeOK, TakeNewest
  <2>3. \A d \in Callers : d # c => phase'[d] = phase[d]
    BY DEF IInv, TypeOK, TakeNewest
  <2>4. mode' # "closed" => Held' \subseteq borrowed'
    BY <1>1, <1>4 DEF IInv, Holders, TakeNewest
  <2>5. QED
    BY <1>3, <2>1, <2>2, <2>3, <2>4 DEF IInv, Holders
<1>9. UsedIsKept'
  <2>1. (Serving' <=> Serving) /\ deleting' = deleting /\ arriving' = arriving
    BY DEF TakeNewest, serviceVars, createVars, Serving
  <2>2. QED
    BY <1>1, <1>4, <2>1 DEF IInv, UsedIsKept
<1>10. QED
  BY <1>5, <1>6, <1>7, <1>8, <1>9 DEF IInv

\* Forgetting an expired session keeps the invariant.
LEMMA DropExpiredKeeps ==
  ASSUME IInv, NEW c \in Callers, phase[c] # "holding", DropExpired(c),
         queue' \in Seq(Callers), late' \in SUBSET Callers
  PROVE  IInv'
<1>1. /\ sessions' \in Seq(Sessions) /\ Len(sessions') = Len(sessions) - 1
      /\ Newest \in Inventory /\ Newest \in Sessions
      /\ Inventory' = Inventory \ {Newest}
      /\ Distinct(sessions')
      /\ age' \in [Sessions -> 0..ExpiryAge]
      /\ \A x \in Sessions : x # Newest => age'[x] = age[x]
      /\ borrowed' = borrowed
  BY PopEffect DEF IInv, Places, DropExpired
<1>2. Inventory \subseteq Sessions /\ Cardinality(borrowed) \in Nat /\ Len(sessions) \in Nat
  BY Numbers DEF IInv
<1>3. held' = held /\ Held' = Held
  BY DEF Held, DropExpired
<1>4. TypeOK'
  BY <1>1 DEF IInv, TypeOK, DropExpired, createVars, serviceVars
<1>5. WithinMax'
  <2>1. pending' = pending
    BY DEF DropExpired, createVars
  <2>2. Size' = Size - 1
    BY <1>1, <1>2, <2>1 DEF Size, IInv, TypeOK
  <2>3. QED
    BY <2>2, Numbers, OptionsAssumption DEF IInv, WithinMax
<1>6. Places'
  BY <1>1, <1>3 DEF IInv, Places, DropExpired, createVars, serviceVars
<1>7. Holders'
  BY <1>1, <1>3 DEF IInv, TypeOK, Holders, DropExpired
<1>8. UsedIsKept'
  <2>1. (Serving' <=> Serving) /\ deleting' = deleting /\ arriving' = arriving
    BY DEF DropExpired, serviceVars, createVars, Serving
  <2>2. QED
    BY <1>1, <1>3, <2>1 DEF IInv, UsedIsKept
<1>9. QED
  BY <1>4, <1>5, <1>6, <1>7, <1>8 DEF IInv

\* A step that moves no session keeps the invariant: all it may do is ask for
\* more sessions, within options.max, and change which callers queue or wait.
LEMMA NothingMovesKeeps ==
  ASSUME IInv, UNCHANGED <<storeVars, serviceVars, held, traces, arriving>>,
         mode' \in {"new", "open", "closing", "closed"},
         Serving' <=> Serving, mode' # "closed" => mode # "closed",
         pending' \in Int, Size - pending + pending' <= MaxSize,
         creating' \in [1..MaxSize -> Nat],
         phase' \in [Callers -> {"idle", "queued", "running", "waiting", "woken", "holding"}],
         \A c \in Callers : phase'[c] = "holding" <=> phase[c] = "holding",
         queue' \in Seq(Callers), late' \in SUBSET Callers
  PROVE  IInv'
<1>1. /\ sessions' = sessions /\ borrowed' = borrowed /\ age' = age
      /\ Inventory' = Inventory /\ Held' = Held
      /\ pinging' = pinging /\ discarding' = discarding /\ deleting' = deleting
      /\ alive' = alive /\ arriving' = arriving /\ held' = held /\ traces' = traces
  BY DEF storeVars, serviceVars, Inventory, Held
<1>2. TypeOK'
  BY <1>1 DEF IInv, TypeOK
<1>3. WithinMax'
  <2>1. Size' = Size - pending + pending'
    BY <1>1, Numbers DEF Size, IInv, TypeOK
  <2>2. QED
    BY <2>1 DEF WithinMax
<1>4. Places'
  BY <1>1 DEF IInv, Places
<1>5. Holders'
  BY <1>1 DEF IInv, Holders
<1>6. UsedIsKept'
  BY <1>1 DEF IInv, UsedIsKept
<1>7. QED
  BY <1>2, <1>3, <1>4, <1>5, <1>6 DEF IInv

\* A request that ends in an error keeps the invariant.
LEMMA GiveUpKeeps ==
  ASSUME IInv, NEW c \in Callers, phase[c] # "holding", GiveUp(c),
         queue' \in Seq(Callers), late' \in SUBSET Callers
  PROVE  IInv'
<1>1. /\ UNCHANGED <<storeVars, serviceVars, held, traces, arriving>>
      /\ mode' = mode /\ pending' = pending /\ creating' = creating
  BY DEF GiveUp, createVars
<1>2. /\ phase' \in [Callers -> {"idle", "queued", "running", "waiting", "woken", "holding"}]
      /\ \A d \in Callers : phase'[d] = "holding" <=> phase[d] = "holding"
  BY DEF GiveUp, IInv, TypeOK
<1>3. Size - pending + pending' <= MaxSize
  BY <1>1, Numbers DEF IInv, TypeOK, WithinMax
<1>4. QED
  BY <1>1, <1>2, <1>3, NothingMovesKeeps DEF IInv, TypeOK, Serving

\* What a caller asks for fits under options.max.
LEMMA AmountFits ==
  ASSUME IInv
  PROVE  CreateAmount \in Int /\ Size + CreateAmount <= MaxSize
<1>1. Size \in Int /\ pending \in Int
  <2>1. TypeOK
    BY DEF IInv
  <2>2. QED
    BY <2>1, Numbers DEF TypeOK
<1>2. MinSize \in Int /\ MaxSize \in Int /\ IncStep \in Int
  BY OptionsAssumption
<1> DEFINE wanted == IF Size + pending + IncStep < MinSize
                     THEN MinSize - Size - pending ELSE IncStep
<1>3. CreateAmount = IF wanted + Size > MaxSize THEN MaxSize - Size ELSE wanted
  BY DEF CreateAmount
<1>4. wanted \in Int
  BY <1>1, <1>2
<1> HIDE DEF wanted
<1>5. QED
  BY <1>1, <1>2, <1>3, <1>4

\* One round of _acquire()'s loop keeps the invariant.
LEMMA TryAcquireKeeps ==
  ASSUME IInv, NEW c \in Callers, phase[c] # "holding", TryAcquire(c),
         queue' \in Seq(Callers), late' \in SUBSET Callers
  PROVE  IInv'
<1>1. CASE TakeNewest(c)
  BY <1>1, TakeNewestKeeps
<1>2. CASE DropExpired(c)
  BY <1>2, DropExpiredKeeps
<1>3. CASE Exhausted(c)
  BY <1>3, GiveUpKeeps DEF Exhausted
<1>4. CASE AwaitSession(c)
  <2>1. /\ UNCHANGED <<storeVars, serviceVars, held, traces>> /\ mode' = mode
    BY <1>4 DEF AwaitSession
  <2>2. /\ phase' \in [Callers -> {"idle", "queued", "running", "waiting", "woken", "holding"}]
        /\ \A d \in Callers : phase'[d] = "holding" <=> phase[d] = "holding"
    BY <1>4 DEF AwaitSession, IInv, TypeOK
  <2>3. /\ pending' \in Int /\ creating' \in [1..MaxSize -> Nat] /\ arriving' = arriving
        /\ Size - pending + pending' <= MaxSize
    <3>1. CASE UNCHANGED createVars
      BY <3>1, Numbers DEF createVars, IInv, TypeOK, WithinMax
    <3>2. CASE CreateSessions(CreateAmount)
      <4>1. /\ pending' \in Int
            /\ pending' = IF CreateAmount <= 0 THEN pending ELSE pending + CreateAmount
            /\ creating' \in [1..MaxSize -> Nat]
            /\ arriving' = arriving
        BY <3>2, AmountFits, CreateEffect DEF IInv
      <4>2. /\ Size \in Int /\ pending \in Int /\ Size <= MaxSize
            /\ MaxSize \in Int
        BY Numbers, OptionsAssumption DEF IInv, TypeOK, WithinMax
      <4>3. Size - pending + pending' <= MaxSize
        BY <4>1, <4>2, AmountFits
      <4>4. QED
        BY <4>1, <4>3
    <3>3. QED
      BY <1>4, <3>1, <3>2 DEF AwaitSession
  <2>4. QED
    BY <2>1, <2>2, <2>3, NothingMovesKeeps DEF IInv, TypeOK, Serving
<1>5. QED
  BY <1>1, <1>2, <1>3, <1>4 DEF TryAcquire

\* getSession() keeps the invariant.
LEMMA GetSessionKeeps ==
  ASSUME IInv, NEW c \in Callers, GetSession(c)
  PROVE  IInv'
<1>1. CASE TryAcquire(c) /\ UNCHANGED queue
  BY <1>1, TryAcquireKeeps DEF GetSession, IInv, TypeOK
<1>2. CASE phase' = [phase EXCEPT ![c] = "queued"] /\ queue' = Append(queue, c)
           /\ UNCHANGED <<mode, held, traces, storeVars, createVars, serviceVars>>
  <2>1. queue' \in Seq(Callers) /\ late' \in SUBSET Callers
    BY <1>2 DEF GetSession, IInv, TypeOK
  <2>2. /\ phase' \in [Callers -> {"idle", "queued", "running", "waiting", "woken", "holding"}]
        /\ \A d \in Callers : phase'[d] = "holding" <=> phase[d] = "holding"
    BY <1>2 DEF GetSession, IInv, TypeOK
  <2>3. pending' = pending /\ Size - pending + pending' <= MaxSize
    BY <1>2, Numbers DEF IInv, TypeOK, WithinMax, createVars
  <2>4. QED
    BY <1>2, <2>1, <2>2, <2>3, NothingMovesKeeps DEF IInv, TypeOK, Serving, createVars
<1>3. QED
  BY <1>1, <1>2 DEF GetSession

\* The start of the queue's next task keeps the invariant.
LEMMA StartNextKeeps ==
  ASSUME IInv, NEW c \in Callers, StartNext(c)
  PROVE  IInv'
<1>1. queue' \in Seq(Callers) /\ late' \in SUBSET Callers
  BY HeadTailProperties DEF StartNext, IInv, TypeOK
<1>2. CASE TryAcquire(c)
  BY <1>1, <1>2, TryAcquireKeeps DEF StartNext
<1>3. CASE GiveUp(c)
  BY <1>1, <1>3, GiveUpKeeps DEF StartNext
<1>4. QED
  BY <1>2, <1>3 DEF StartNext

\* A further round of the loop keeps the invariant.
LEMMA RetryKeeps ==
  ASSUME IInv, NEW c \in Callers, Retry(c)
  PROVE  IInv'
BY TryAcquireKeeps, GiveUpKeeps DEF Retry, IInv, TypeOK

\* A woken waiter that pops a session keeps the invariant.
LEMMA ResumeKeeps ==
  ASSUME IInv, NEW c \in Callers, Resume(c)
  PROVE  IInv'
BY TakeNewestKeeps, DropExpiredKeeps DEF Resume, IInv, TypeOK

\* acquireTimeout keeps the invariant.
LEMMA TimeOutKeeps ==
  ASSUME IInv, NEW c \in Callers, TimeOut(c)
  PROVE  IInv'
BY GiveUpKeeps DEF TimeOut, IInv, TypeOK

\* The passing of a queued caller's timeout keeps the invariant.
LEMMA BecomeLateKeeps ==
  ASSUME IInv, NEW c \in Callers, BecomeLate(c)
  PROVE  IInv'
<1>1. late' \in SUBSET Callers
  BY DEF BecomeLate, IInv, TypeOK
<1>2. pending' = pending /\ Size - pending + pending' <= MaxSize
  BY Numbers DEF BecomeLate, IInv, TypeOK, WithinMax, createVars
<1>3. QED
  BY <1>1, <1>2, NothingMovesKeeps DEF BecomeLate, IInv, TypeOK, Serving, createVars

---------------------------------------------------------------------------
(* ... creating sessions and opening                                       *)

\* Taking a call off the list leaves a count of calls.
LEMMA AnsweredTyped ==
  ASSUME IInv, NEW n \in 1..MaxSize, creating[n] > 0
  PROVE  Answered(n) \in [1..MaxSize -> Nat]
<1>1. creating \in [1..MaxSize -> Nat]
  BY DEF IInv, TypeOK
<1>2. creating[n] - 1 \in Nat
  BY <1>1
<1>3. QED
  BY <1>1, <1>2 DEF Answered

\* A failed batchCreateSessions keeps the invariant.
LEMMA BatchErrorKeeps ==
  ASSUME IInv, NEW n \in 1..MaxSize, BatchError(n)
  PROVE  IInv'
<1>1. creating' \in [1..MaxSize -> Nat]
  BY AnsweredTyped DEF BatchError
<1>2. /\ phase' \in [Callers -> {"idle", "queued", "running", "waiting", "woken", "holding"}]
      /\ \A d \in Callers : phase'[d] = "holding" <=> phase[d] = "holding"
  BY DEF BatchError, Reject, IInv, TypeOK
<1>3. pending' \in Int /\ Size - pending + pending' <= MaxSize
  <2>1. /\ Size \in Int /\ pending \in Int /\ Size <= MaxSize
        /\ MaxSize \in Int
    BY Numbers, OptionsAssumption DEF IInv, TypeOK, WithinMax
  <2>2. pending' = pending - n
    BY DEF BatchError
  <2>3. QED
    BY <2>1, <2>2
<1>4. QED
  BY <1>1, <1>2, <1>3, NothingMovesKeeps DEF BatchError, IInv, TypeOK, Serving

\* Filling a pool of n sessions leaves it within options.max.
LEMMA FillFits ==
  ASSUME IInv, NEW n \in Int, n <= MaxSize, Fill(n)
  PROVE  /\ pending' \in Int /\ creating' \in [1..MaxSize -> Nat]
         /\ arriving' = arriving
         /\ n - pending + pending' <= MaxSize
<1>1. MinSize - n \in Int
  BY OptionsAssumption
<1>2. /\ pending' \in Int
      /\ pending' = IF MinSize - n <= 0 THEN pending ELSE pending + (MinSize - n)
      /\ creating' \in [1..MaxSize -> Nat]
      /\ arriving' = arriving
  BY <1>1, CreateEffect DEF Fill, IInv
<1>3. pending \in Int
  BY DEF IInv, TypeOK
<1>4. CASE MinSize - n <= 0
  BY <1>2, <1>3, <1>4
<1>5. CASE ~(MinSize - n <= 0)
  <2>1. pending' = pending + (MinSize - n)
    BY <1>2, <1>5
  <2>2. n - pending + pending' <= MaxSize
    BY <1>3, <2>1, OptionsAssumption
  <2>3. QED
    BY <1>2, <2>2
<1>6. QED
  BY <1>4, <1>5

\* open() keeps the invariant.
LEMMA OpenKeeps ==
  ASSUME IInv, Open
  PROVE  IInv'
<1>1. Size \in Int /\ Size <= MaxSize
  BY Numbers DEF IInv, WithinMax
<1>2. /\ pending' \in Int /\ creating' \in [1..MaxSize -> Nat]
      /\ arriving' = arriving
      /\ Size - pending + pending' <= MaxSize
  BY <1>1, FillFits DEF Open
<1>3. Serving' <=> Serving
  BY DEF Open, Serving
<1>4. QED
  BY <1>2, <1>3, NothingMovesKeeps DEF Open, IInv, TypeOK, callerVars

\* An answered batchCreateSessions keeps the invariant: the sessions are new.
LEMMA BatchReplyKeeps ==
  ASSUME IInv, NEW n \in 1..MaxSize, NEW S \in SUBSET Sessions, BatchReply(n, S)
  PROVE  IInv'
<1>1. S \cap (Inventory \cup borrowed \cup arriving \cup deleting \cup Held \cup pinging) = {}
  BY DEF BatchReply, Fresh, Tracked
<1>2. /\ sessions' = sessions /\ borrowed' = borrowed /\ age' = age
      /\ Inventory' = Inventory /\ Held' = Held
      /\ pinging' = pinging /\ deleting' = deleting /\ held' = held /\ mode' = mode
      /\ arriving' = arriving \cup S /\ alive' = alive \cup S /\ phase' = phase
      /\ pending' = pending
  BY DEF BatchReply, storeVars, callerVars, Inventory, Held
<1>3. creating' \in [1..MaxSize -> Nat]
  <2>1. IsFiniteSet(S) /\ Cardinality(S) \in Nat
    BY SessionsAssumption, FS_Subset, FS_CardinalityType
  <2>2. Answered(n) \in [1..MaxSize -> Nat]
    BY AnsweredTyped DEF BatchReply
  <2>3. CASE n - Cardinality(S) = 0
    BY <2>2, <2>3 DEF BatchReply
  <2>4. CASE n - Cardinality(S) # 0
    <3> DEFINE rest == n - Cardinality(S)
    <3>1. rest \in 1..MaxSize
      BY <2>1, <2>4, OptionsAssumption DEF BatchReply
    <3>2. creating' = [Answered(n) EXCEPT ![rest] = @ + 1]
      BY <2>4 DEF BatchReply
    <3> HIDE DEF rest
    <3>3. QED
      BY <2>2, <3>1, <3>2
  <2>5. QED
    BY <2>3, <2>4
<1>4. TypeOK'
  BY <1>2, <1>3 DEF IInv, TypeOK, BatchReply, callerVars
<1>5. WithinMax'
  BY <1>2 DEF IInv, WithinMax, Size
<1>6. Places'
  BY <1>1, <1>2 DEF IInv, Places
<1>7. Holders'
  BY <1>2 DEF IInv, Holders
<1>8. UsedIsKept'
  BY <1>1, <1>2 DEF IInv, UsedIsKept, Serving
<1>9. QED
  BY <1>4, <1>5, <1>6, <1>7, <1>8 DEF IInv

\* The entry of a created session into the inventory keeps the invariant.
LEMMA ArriveKeeps ==
  ASSUME IInv, NEW s \in Sessions, Arrive(s)
  PROVE  IInv'
<1>1. s \in arriving /\ s \notin Inventory
  BY DEF Arrive, IInv, Places
<1>2. /\ sessions' \in Seq(Sessions) /\ Len(sessions') = Len(sessions) + 1
      /\ Inventory' = Inventory \cup {s}
      /\ Distinct(sessions')
      /\ age' \in [Sessions -> 0..ExpiryAge]
      /\ \A x \in Sessions : x # s => age'[x] = age[x]
  BY <1>1, PushEffect DEF Arrive, IInv, Places
<1>3. /\ borrowed' = borrowed /\ Held' = Held /\ held' = held /\ mode' = mode
      /\ pinging' = pinging /\ deleting' = deleting /\ alive' = alive
      /\ arriving' = arriving \ {s}
  BY DEF Arrive, serviceVars, Held
<1>4. /\ phase' \in [Callers -> {"idle", "queued", "running", "waiting", "woken", "holding"}]
      /\ \A d \in Callers : phase'[d] = "holding" <=> phase[d] = "holding"
  BY DEF Arrive, Wake, IInv, TypeOK
<1>5. TypeOK'
  BY <1>2, <1>3, <1>4 DEF IInv, TypeOK, Arrive, serviceVars
<1>6. WithinMax'
  <2>1. /\ Len(sessions) \in Int /\ Cardinality(borrowed) \in Int /\ pending \in Int
    BY Numbers DEF IInv, TypeOK
  <2>2. pending' = pending - 1
    BY DEF Arrive
  <2>3. Cardinality(borrowed') = Cardinality(borrowed)
    BY <1>3
  <2>4. Size' = Size
    BY <1>2, <2>1, <2>2, <2>3 DEF Size
  <2>5. QED
    BY <2>4 DEF IInv, WithinMax
<1>7. Places'
  BY <1>1, <1>2, <1>3 DEF IInv, Places
<1>8. Holders'
  BY <1>3, <1>4 DEF IInv, Holders
<1>9. UsedIsKept'
  BY <1>1, <1>2, <1>3 DEF IInv, UsedIsKept, Places, Serving
<1>10. QED
  BY <1>5, <1>6, <1>7, <1>8, <1>9 DEF IInv

---------------------------------------------------------------------------
(* ... releasing                                                           *)

\* A release() that throws keeps the invariant.
LEMMA ReleaseUnknownKeeps ==
  ASSUME IInv, NEW c \in Callers, Release(c), ReleaseUnknown(c)
  PROVE  IInv'
<1>1. /\ sessions' = sessions /\ borrowed' = borrowed /\ age' = age
      /\ Inventory' = Inventory /\ pending' = pending /\ arriving' = arriving
      /\ pinging' = pinging /\ deleting' = deleting /\ alive' = alive /\ mode' = mode
  BY DEF Release, ReleaseUnknown, storeVars, createVars, Inventory
<1>2. /\ held' = [held EXCEPT ![c] = None] /\ phase' = [phase EXCEPT ![c] = "idle"]
  BY DEF Release, ReleaseUnknown
<1>3. Held' \subseteq Held
  BY <1>2 DEF IInv, TypeOK, Held
<1>4. TypeOK'
  BY <1>1, <1>2 DEF IInv, TypeOK, Release, ReleaseUnknown, createVars
<1>5. WithinMax'
  BY <1>1 DEF IInv, WithinMax, Size
<1>6. Places'
  BY <1>1, <1>3 DEF IInv, Places
<1>7. Holders'
  BY <1>1, <1>2, <1>3 DEF IInv, TypeOK, Holders
<1>8. UsedIsKept'
  BY <1>1, <1>3 DEF IInv, UsedIsKept, Serving
<1>9. QED
  BY <1>4, <1>5, <1>6, <1>7, <1>8 DEF IInv

\* The two releases the pool accepts take a session that nobody else holds out
\* of the borrowed set.
LEMMA ReleaseEffect ==
  ASSUME IInv, NEW c \in Callers, Release(c), held[c] \in borrowed,
         borrowed' = borrowed \ {held[c]}
  PROVE  /\ held[c] \in Sessions /\ held[c] \in Held
         /\ held[c] \notin Inventory /\ held[c] \notin arriving
         /\ Held' = Held \ {held[c]}
         /\ Cardinality(borrowed') = Cardinality(borrowed) - 1
         /\ pending' = pending /\ arriving' = arriving /\ mode' = mode
         /\ pinging' = pinging /\ deleting' = deleting
<1>1. held[c] \in Sessions /\ held[c] # None
  BY SessionsAssumption DEF IInv, TypeOK
<1>2. held[c] \in Held
  BY <1>1 DEF Held
<1>3. held' = [held EXCEPT ![c] = None]
  BY DEF Release
<1>4. Held' = Held \ {held[c]}
  BY <1>1, <1>3 DEF IInv, TypeOK, Held, Holders
<1>5. Cardinality(borrowed') = Cardinality(borrowed) - 1
  BY Numbers, FS_RemoveElement DEF IInv
<1>6. QED
  BY <1>1, <1>2, <1>4, <1>5 DEF IInv, Places, Release, createVars

\* A release() that forgets a lost session keeps the invariant.
LEMMA ReleaseLostKeeps ==
  ASSUME IInv, NEW c \in Callers, Release(c), ReleaseLost(c)
  PROVE  IInv'
<1>1. /\ held[c] \in Sessions /\ held[c] \in Held
      /\ held[c] \notin Inventory /\ held[c] \notin arriving
      /\ Held' = Held \ {held[c]}
      /\ Cardinality(borrowed') = Cardinality(borrowed) - 1
      /\ pending' = pending /\ arriving' = arriving /\ mode' = mode
      /\ pinging' = pinging /\ deleting' = deleting
  BY ReleaseEffect DEF ReleaseLost
<1>2. /\ sessions' = sessions /\ age' = age /\ Inventory' = Inventory
      /\ borrowed' = borrowed \ {held[c]} /\ alive' = alive \ {held[c]}
  BY DEF ReleaseLost, Inventory
<1>3. /\ held' = [held EXCEPT ![c] = None] /\ phase' = [phase EXCEPT ![c] = "idle"]
  BY DEF Release, ReleaseLost
<1>4. TypeOK'
  BY <1>1, <1>2, <1>3 DEF IInv, TypeOK, Release, ReleaseLost, createVars
<1>5. WithinMax'
  <2>1. Size' = Size - 1
    BY <1>1, <1>2, Numbers DEF Size, IInv, TypeOK
  <2>2. QED
    BY <2>1, Numbers, OptionsAssumption DEF IInv, WithinMax
<1>6. Places'
  BY <1>1, <1>2 DEF IInv, Places
<1>7. Holders'
  BY <1>1, <1>2, <1>3 DEF IInv, TypeOK, Holders
<1>8. UsedIsKept'
  BY <1>1, <1>2 DEF IInv, UsedIsKept, Serving
<1>9. QED
  BY <1>4, <1>5, <1>6, <1>7, <1>8 DEF IInv

\* A release() to the inventory keeps the invariant.
LEMMA ReleaseToInventoryKeeps ==
  ASSUME IInv, NEW c \in Callers, Release(c), ReleaseToInventory(c)
  PROVE  IInv'
<1>1. /\ held[c] \in Sessions /\ held[c] \in Held
      /\ held[c] \notin Inventory /\ held[c] \notin arriving
      /\ Held' = Held \ {held[c]}
      /\ Cardinality(borrowed') = Cardinality(borrowed) - 1
      /\ pending' = pending /\ arriving' = arriving /\ mode' = mode
      /\ pinging' = pinging /\ deleting' = deleting
  BY ReleaseEffect DEF ReleaseToInventory
<1>2. /\ sessions' \in Seq(Sessions) /\ Len(sessions') = Len(sessions) + 1
      /\ Inventory' = Inventory \cup {held[c]}
      /\ Distinct(sessions')
      /\ age' \in [Sessions -> 0..ExpiryAge]
      /\ \A x \in Sessions : x # held[c] => age'[x] = age[x]
  BY <1>1, PushEffect DEF ReleaseToInventory, IInv, Places
<1>3. borrowed' = borrowed \ {held[c]} /\ alive' = alive /\ held[c] \in borrowed
  BY DEF ReleaseToInventory
<1>4. held' = [held EXCEPT ![c] = None]
  BY DEF Release
<1>5. /\ phase' \in [Callers -> {"idle", "queued", "running", "waiting", "woken", "holding"}]
      /\ \A d \in Callers : d # c => (phase'[d] = "holding" <=> phase[d] = "holding")
      /\ phase'[c] = "idle"
  BY DEF ReleaseToInventory, Wake, IInv, TypeOK
<1>6. TypeOK'
  BY <1>1, <1>2, <1>3, <1>4, <1>5 DEF IInv, TypeOK, Release, ReleaseToInventory, createVars
<1>7. WithinMax'
  <2>1. Len(sessions) \in Nat /\ Cardinality(borrowed) \in Nat /\ pending \in Int
    BY Numbers DEF IInv, TypeOK
  <2>2. Size' = Size
    BY <1>1, <1>2, <2>1 DEF Size
  <2>3. QED
    BY <2>2 DEF IInv, WithinMax
<1>8. Places'
  BY <1>1, <1>2, <1>3 DEF IInv, Places
<1>9. Holders'
  BY <1>1, <1>3, <1>4, <1>5 DEF IInv, TypeOK, Holders
<1>10. UsedIsKept'
  BY <1>1, <1>2, <1>3 DEF IInv, UsedIsKept, Serving
<1>11. QED
  BY <1>6, <1>7, <1>8, <1>9, <1>10 DEF IInv

\* release() keeps the invariant.
LEMMA ReleaseKeeps ==
  ASSUME IInv, NEW c \in Callers, Release(c)
  PROVE  IInv'
BY ReleaseUnknownKeeps, ReleaseLostKeeps, ReleaseToInventoryKeeps DEF Release

---------------------------------------------------------------------------
(* ... housekeeping                                                        *)

\* What _evictIdleSessions() does to the inventory: the stretch before the
\* last idle session leaves it, the rest keeps its order and its ages.
LEMMA EvictEffect ==
  ASSUME IInv, EvictIdle
  PROVE  LET first == IdleCount - EvictCount
             gone  == Slice(first + 1, IdleCount)
         IN  /\ EvictCount \in 0..IdleCount
             /\ sessions' \in Seq(Sessions) /\ Distinct(sessions')
             /\ Len(sessions') = Len(sessions) - EvictCount
             /\ gone \subseteq Inventory /\ Inventory' = Inventory \ gone
             /\ \A i \in 1..Len(sessions') :
                  sessions'[i] = IF i <= first THEN sessions[i] ELSE sessions[i + EvictCount]
             /\ age' = [s \in Sessions |-> IF s \in gone THEN 0 ELSE age[s]]
             /\ deleting' = deleting \cup gone
<1> DEFINE first == IdleCount - EvictCount
           gone  == Slice(first + 1, IdleCount)
<1>1. /\ Len(sessions) \in Nat /\ IdleCount \in 0..Len(sessions)
      /\ Inventory = Elems(sessions) /\ Inventory \subseteq Sessions
  BY Numbers DEF IInv
<1>2. EvictCount \in 0..IdleCount
  <2> DEFINE rounds == {k \in 0..IdleCount-1 : IdleCount - k > MaxIdle /\ Size - k > MinSize}
  <2>1. /\ IsFiniteSet(0..IdleCount-1)
        /\ Cardinality(0..IdleCount-1) = IF 0 > IdleCount-1 THEN 0 ELSE (IdleCount-1)-0+1
    <3>1. 0 \in Int /\ IdleCount-1 \in Int
      BY <1>1
    <3>2. QED
      BY <3>1, FS_Interval
  <2>2. rounds \in SUBSET (0..IdleCount-1)
    OBVIOUS
  <2>3. IsFiniteSet(rounds) /\ Cardinality(rounds) <= Cardinality(0..IdleCount-1)
    BY <2>1, <2>2, FS_Subset
  <2>4. Cardinality(rounds) \in Nat
    BY <2>3, FS_CardinalityType
  <2>5. EvictCount = Cardinality(rounds)
    BY DEF EvictCount
  <2> HIDE DEF rounds
  <2>6. QED
    BY <1>1, <2>1, <2>3, <2>4, <2>5
<1>3. first + 1 \in 1..Len(sessions) + 1 /\ IdleCount \in (first + 1) - 1..Len(sessions)
      /\ (first + 1) - 1 = first
  BY <1>1, <1>2
<1>4. sessions \in Seq(Sessions) /\ Distinct(sessions)
  BY DEF IInv, TypeOK, Places
<1> DEFINE r == Cut(sessions, first + 1, IdleCount)
<1>5. /\ r \in Seq(Sessions)
      /\ Len(r) = Len(sessions) - (IdleCount - (first + 1) + 1)
      /\ Elems(r) = Elems(sessions) \ {sessions[k] : k \in first + 1..IdleCount}
      /\ Distinct(r)
      /\ \A i \in 1..Len(r) : r[i] = IF i <= (first + 1) - 1 THEN sessions[i]
                               ELSE sessions[IdleCount + i - ((first + 1) - 1)]
  <2> DEFINE m == first + 1
             n == IdleCount
  <2>1. m \in 1..Len(sessions) + 1 /\ n \in m - 1..Len(sessions)
    BY <1>3
  <2> HIDE DEF m, n
  <2>2. Cut(sessions, m, n) \in Seq(Sessions)
    BY <1>4, <2>1, CutElems
  <2>3. Len(Cut(sessions, m, n)) = Len(sessions) - (n - m + 1)
    BY <1>4, <2>1, CutElems
  <2>4. Elems(Cut(sessions, m, n)) = Elems(sessions) \ {sessions[k] : k \in m..n}
    BY <1>4, <2>1, CutElems
  <2>5. Distinct(Cut(sessions, m, n))
    BY <1>4, <2>1, CutElems
  <2>6. \A i \in 1..Len(Cut(sessions, m, n)) :
           Cut(sessions, m, n)[i] = IF i <= m - 1 THEN sessions[i] ELSE sessions[n + i - (m - 1)]
    BY <1>4, <2>1, CutElems
  <2>7. QED
    BY <2>2, <2>3, <2>4, <2>5, <2>6 DEF m, n
<1>6. /\ sessions' = r
      /\ age' = [s \in Sessions |-> IF s \in gone THEN 0 ELSE age[s]]
      /\ deleting' = deleting \cup gone
  BY <1>3 DEF EvictIdle, Cut
<1>7. gone = {sessions[k] : k \in first + 1..IdleCount}
  BY DEF Slice
<1>8. gone \subseteq Inventory
  <2>1. first + 1..IdleCount \subseteq 1..Len(sessions)
    BY <1>1, <1>2
  <2>2. QED
    BY <1>7, <2>1 DEF Inventory
<1>9. Inventory' = Inventory \ gone /\ Distinct(sessions')
      /\ sessions' \in Seq(Sessions)
  <2>1. Inventory' = Elems(sessions')
    BY DEF Inventory, Elems
  <2> HIDE DEF r
  <2>2. QED
    BY <1>1, <1>5, <1>6, <1>7, <2>1
<1> HIDE DEF r
<1>10. Len(sessions') = Len(sessions) - EvictCount
  BY <1>1, <1>2, <1>5, <1>6
<1>11. ASSUME NEW i \in 1..Len(sessions')
       PROVE  sessions'[i] = IF i <= first THEN sessions[i] ELSE sessions[i + EvictCount]
  <2>1. (first + 1) - 1 = first /\ IdleCount + i - ((first + 1) - 1) = i + EvictCount
    BY <1>1, <1>2, <1>10
  <2> HIDE DEF first
  <2>2. QED
    BY <1>5, <1>6, <2>1
<1>12. QED
  BY <1>2, <1>6, <1>8, <1>9, <1>10, <1>11

\* _evictIdleSessions() keeps the invariant.
LEMMA EvictIdleKeeps ==
  ASSUME IInv, EvictIdle
  PROVE  IInv'
<1> DEFINE gone == Slice(IdleCount - EvictCount + 1, IdleCount)
<1>1. /\ Len(sessions) \in Nat /\ IdleCount \in 0..Len(sessions)
      /\ Inventory \subseteq Sessions
  BY Numbers DEF IInv
<1>2. /\ age' = [s \in Sessions |-> IF s \in gone THEN 0 ELSE age[s]]
      /\ deleting' = deleting \cup gone
  BY EvictEffect
<1>3. gone \subseteq Inventory
  BY EvictEffect
<1>4. Inventory' = Inventory \ gone /\ Distinct(sessions')
      /\ Len(sessions') \in Nat /\ Len(sessions') <= Len(sessions)
      /\ sessions' \in Seq(Sessions)
  BY <1>1, EvictEffect
<1> HIDE DEF gone
<1>5. /\ borrowed' = borrowed /\ pinging' = pinging /\ alive' = alive /\ mode' = mode
       /\ pending' = pending /\ arriving' = arriving /\ held' = held /\ Held' = Held
       /\ phase' = phase
  BY DEF EvictIdle, callerVars, createVars, Held
<1>6. TypeOK'
  <2>1. age' \in [Sessions -> 0..ExpiryAge]
    BY <1>2, AgeAssumption DEF IInv, TypeOK
  <2>2. deleting' \in SUBSET Sessions
    BY <1>1, <1>2, <1>3 DEF IInv, TypeOK
  <2>3. QED
    BY <1>4, <1>5, <2>1, <2>2 DEF IInv, TypeOK, EvictIdle, callerVars, createVars
<1>7. WithinMax'
  <2>1. Size' <= Size /\ Size' \in Int
    BY <1>1, <1>4, <1>5, Numbers DEF Size, IInv, TypeOK
  <2>2. QED
    BY <2>1, Numbers, OptionsAssumption DEF IInv, WithinMax
<1>8. Places'
  BY <1>4, <1>5 DEF IInv, Places
<1>9. Holders'
  BY <1>5 DEF IInv, Holders
<1>10. UsedIsKept'
  <2>1. gone \cap (Held \cup borrowed \cup arriving) = {}
    BY <1>3 DEF IInv, Places
  <2>2. QED
    BY <1>2, <1>4, <1>5, <2>1 DEF IInv, UsedIsKept, Serving
<1>11. QED
  BY <1>6, <1>7, <1>8, <1>9, <1>10 DEF IInv

\* What _pingIdleSessions() does to the inventory: the idle sessions leave it,
\* the rest keeps its order and its ages.
LEMMA PingEffect ==
  ASSUME IInv, PingIdle
  PROVE  LET idle == Slice(1, IdleCount)
             sent == Slice(ExpiredCount + 1, IdleCount)
         IN  /\ sessions' \in Seq(Sessions) /\ Distinct(sessions')
             /\ Len(sessions') = Len(sessions) - IdleCount
             /\ idle \subseteq Inventory /\ sent \subseteq idle
             /\ Inventory' = Inventory \ idle
             /\ \A i \in 1..Len(sessions') : sessions'[i] = sessions[IdleCount + i]
             /\ age' = [s \in Sessions |-> IF s \in idle THEN 0 ELSE age[s]]
             /\ borrowed' = borrowed \cup sent
             /\ pinging' = sent
<1> DEFINE k == IdleCount
           e == ExpiredCount
           idle == Slice(1, k)
           sent == Slice(e + 1, k)
<1>1. /\ Len(sessions) \in Nat /\ k \in 0..Len(sessions) /\ e \in 0..k
  BY Numbers DEF IInv
<1>2. sessions \in Seq(Sessions) /\ Distinct(sessions)
  BY DEF IInv, TypeOK, Places
<1>3. /\ sessions' = SubSeq(sessions, k + 1, Len(sessions))
      /\ age' = [s \in Sessions |-> IF s \in idle THEN 0 ELSE age[s]]
      /\ borrowed' = borrowed \cup sent
      /\ pinging' = sent
  BY DEF PingIdle
<1>4. idle = {sessions[i] : i \in 1..k} /\ sent = {sessions[i] : i \in e + 1..k}
  BY DEF Slice
<1>5. /\ sessions' \in Seq(Sessions) /\ Len(sessions') = Len(sessions) - k
      /\ Elems(sessions') = {sessions[i] : i \in k + 1..Len(sessions)}
      /\ Distinct(sessions')
      /\ \A i \in 1..Len(sessions') : sessions'[i] = sessions[k + i]
  <2> DEFINE m == k + 1
             n == Len(sessions)
  <2>1. m \in 1..Len(sessions) + 1 /\ n \in m - 1..Len(sessions) /\ n - m + 1 = n - k
    BY <1>1
  <2>2. sessions' = SubSeq(sessions, m, n)
    BY <1>3
  <2> HIDE DEF m, n
  <2>3. sessions' \in Seq(Sessions) /\ Len(sessions') = n - m + 1
    BY <1>2, <2>1, <2>2, PartElems
  <2>4. Elems(SubSeq(sessions, m, n)) = {sessions[i] : i \in m..n}
    BY <1>2, <2>1, PartElems
  <2>5. Distinct(sessions')
    BY <1>2, <2>1, <2>2, PartElems
  <2>6. ASSUME NEW i \in 1..Len(sessions') PROVE sessions'[i] = sessions[m + i - 1]
    BY <1>2, <2>1, <2>2, <2>3, PartElems
  <2>7. \A i \in 1..Len(sessions') : m + i - 1 = k + i
    BY <1>1, <2>1, <2>3 DEF m
  <2>8. QED
    BY <2>1, <2>2, <2>3, <2>4, <2>5, <2>6, <2>7 DEF m, n
<1>6. Inventory' = Elems(sessions')
  BY DEF Inventory, Elems
<1>7. idle \subseteq Inventory /\ sent \subseteq idle
  <2>1. \A i \in 1..k : i \in 1..Len(sessions)
    BY <1>1
  <2>2. \A i \in e + 1..k : i \in 1..k
    BY <1>1
  <2>3. QED
    BY <1>4, <2>1, <2>2 DEF Inventory
<1>8. Inventory' = Inventory \ idle
  <2>1. ASSUME NEW x \in Inventory' PROVE x \in Inventory \ idle
    <3>1. PICK i \in k + 1..Len(sessions) : x = sessions[i]
      BY <1>5, <1>6
    <3>2. i \in 1..Len(sessions) /\ \A h \in 1..k : h # i /\ h \in 1..Len(sessions)
      BY <1>1
    <3>3. QED
      BY <1>2, <1>4, <3>1, <3>2 DEF Distinct, Inventory
  <2>2. ASSUME NEW x \in Inventory \ idle PROVE x \in Inventory'
    <3>1. PICK i \in 1..Len(sessions) : x = sessions[i]
      BY DEF Inventory
    <3>2. i \in k + 1..Len(sessions)
      BY <1>1, <1>4, <3>1
    <3>3. QED
      BY <1>5, <1>6, <3>1, <3>2
  <2>3. QED
    BY <2>1, <2>2
<1>9. QED
  BY <1>3, <1>5, <1>7, <1>8

\* _pingIdleSessions() up to its await keeps the invariant.
LEMMA PingIdleKeeps ==
  ASSUME IInv, PingIdle
  PROVE  IInv'
<1> DEFINE k == IdleCount
           e == ExpiredCount
           idle == Slice(1, k)
           sent == Slice(e + 1, k)
<1>1. /\ Len(sessions) \in Nat /\ k \in 0..Len(sessions) /\ e \in 0..k
      /\ Inventory = Elems(sessions) /\ Inventory \subseteq Sessions
      /\ IsFiniteSet(borrowed) /\ Cardinality(borrowed) \in Nat
  BY Numbers DEF IInv
<1>2. sessions \in Seq(Sessions) /\ Distinct(sessions) /\ pending \in Int /\ Size <= MaxSize
  BY DEF IInv, TypeOK, Places, WithinMax
<1>3. /\ age' = [s \in Sessions |-> IF s \in idle THEN 0 ELSE age[s]]
      /\ borrowed' = borrowed \cup sent
      /\ pinging' = sent
      /\ IF sent = {} THEN Fill(Size - k) ELSE UNCHANGED createVars
      /\ Held' = Held /\ held' = held /\ phase' = phase /\ mode' = mode
      /\ deleting' = deleting /\ alive' = alive
  BY DEF PingIdle, callerVars, Held
<1>4. idle = {sessions[i] : i \in 1..k} /\ sent = {sessions[i] : i \in e + 1..k}
  BY DEF Slice
<1>5. /\ sessions' \in Seq(Sessions) /\ Len(sessions') = Len(sessions) - k
      /\ Distinct(sessions')
      /\ idle \subseteq Inventory /\ sent \subseteq idle
      /\ Inventory' = Inventory \ idle
  BY PingEffect
<1>6. IsFiniteSet(sent) /\ Cardinality(sent) \in Nat /\ Cardinality(sent) <= k - e
  <2> DEFINE m == e + 1
  <2>1. m \in 1..Len(sessions) + 1 /\ k \in m - 1..Len(sessions) /\ k - m + 1 = k - e
    BY <1>1
  <2>2. sent = {sessions[i] : i \in m..k}
    BY <1>4
  <2> HIDE DEF m, k, e, sent
  <2>3. IsFiniteSet(sent) /\ Cardinality(sent) <= k - m + 1
    BY <1>2, <2>1, <2>2, StretchCard
  <2>4. QED
    BY <2>1, <2>3, FS_CardinalityType
<1> HIDE DEF idle, sent, k, e
<1>7. /\ IsFiniteSet(borrowed') /\ Cardinality(borrowed') \in Nat
      /\ Cardinality(borrowed') <= Cardinality(borrowed) + Cardinality(sent)
      /\ (sent = {} => borrowed' = borrowed)
  <2>1. /\ IsFiniteSet(borrowed \cup sent)
        /\ Cardinality(borrowed \cup sent) =
             Cardinality(borrowed) + Cardinality(sent) - Cardinality(borrowed \cap sent)
    BY <1>1, <1>6, FS_Union
  <2>2. IsFiniteSet(borrowed \cap sent) /\ Cardinality(borrowed \cap sent) \in Nat
    BY <1>1, FS_Intersection, FS_CardinalityType
  <2>3. Cardinality(borrowed \cup sent) \in Nat
    BY <2>1, FS_CardinalityType
  <2>4. QED
    BY <1>1, <1>3, <1>6, <2>1, <2>2, <2>3
<1>8. /\ pending' \in Int /\ creating' \in [1..MaxSize -> Nat] /\ arriving' = arriving
       /\ Size' <= MaxSize
  <2>1. CASE sent = {}
    <3>1. Size - k \in Int /\ Size - k <= MaxSize
      BY <1>1, <1>2, Numbers, OptionsAssumption DEF IInv
    <3>2. /\ pending' \in Int /\ creating' \in [1..MaxSize -> Nat] /\ arriving' = arriving
          /\ (Size - k) - pending + pending' <= MaxSize
      BY <1>3, <2>1, <3>1, FillFits
    <3>3. Size' = (Size - k) - pending + pending'
      <4>1. Len(sessions) \in Int /\ Cardinality(borrowed) \in Int /\ pending \in Int
        BY <1>1, <1>2
      <4>2. k \in Int /\ Len(sessions') = Len(sessions) - k /\ borrowed' = borrowed
        BY <1>1, <1>5, <1>7, <2>1
      <4>3. pending' \in Int
        BY <3>2
      <4>4. Size' = Len(sessions') + Cardinality(borrowed) + pending'
        BY <4>2 DEF Size
      <4>5. QED
        BY <4>1, <4>2, <4>3, <4>4 DEF Size
    <3>4. QED
      BY <3>2, <3>3
  <2>2. CASE sent # {}
    <3>1. pending' = pending /\ creating' = creating /\ arriving' = arriving
      BY <1>3, <2>2 DEF createVars
    <3>2. Size' <= Size /\ Size' \in Int /\ Size \in Int
      BY <1>1, <1>2, <1>5, <1>6, <1>7, <3>1, SMTT(20) DEF Size
    <3>3. QED
      BY <1>2, <3>1, <3>2, OptionsAssumption DEF IInv, TypeOK
  <2>3. QED
    BY <2>1, <2>2
<1>9. TypeOK'
  <2>1. age' \in [Sessions -> 0..ExpiryAge]
    BY <1>3, AgeAssumption DEF IInv, TypeOK
  <2>2. borrowed' \in SUBSET Sessions /\ pinging' \in SUBSET Sessions
    BY <1>1, <1>3, <1>5 DEF IInv, TypeOK
  <2>3. QED
    BY <1>3, <1>5, <1>8, <2>1, <2>2 DEF IInv, TypeOK, PingIdle, callerVars
<1>10. WithinMax'
  BY <1>8 DEF WithinMax
<1>11. Places'
  BY <1>3, <1>5, <1>8 DEF IInv, Places
<1>12. Holders'
  BY <1>3 DEF IInv, Holders
<1>13. UsedIsKept'
  BY <1>3, <1>5, <1>8 DEF IInv, UsedIsKept, Serving
<1>14. QED
  BY <1>9, <1>10, <1>11, <1>12, <1>13 DEF IInv

\* The fill that may end a round of pings stays within options.max.
LEMMA EndPingFits ==
  ASSUME IInv, NEW p, NEW d, EndPing(p, d, Size)
  PROVE  /\ pending' \in Int /\ creating' \in [1..MaxSize -> Nat]
         /\ arriving' = arriving
         /\ Size - pending + pending' <= MaxSize
<1>1. Size \in Int /\ Size <= MaxSize
  BY Numbers DEF IInv, WithinMax
<1>2. CASE Fill(Size)
  BY <1>1, <1>2, FillFits
<1>3. CASE UNCHANGED createVars
  BY <1>1, <1>3 DEF createVars, IInv, TypeOK
<1>4. QED
  BY <1>2, <1>3 DEF EndPing

\* A keep-alive that is answered keeps the invariant.
LEMMA PingOkKeeps ==
  ASSUME IInv, NEW s \in Sessions, PingOk(s)
  PROVE  IInv'
<1>1. /\ pinging' = pinging \ {s} /\ mode' = mode /\ held' = held /\ Held' = Held
      /\ s \notin Inventory /\ s \notin Held /\ s \notin arriving
  BY DEF PingOk, IInv, Places, Held
<1>2. Len(sessions) \in Nat /\ Cardinality(borrowed) \in Nat /\ IsFiniteSet(borrowed)
      /\ pending \in Int
  BY Numbers DEF IInv, TypeOK
<1>3. CASE /\ s \in borrowed
           /\ borrowed' = borrowed \ {s}
           /\ Push(s)
           /\ phase' = Wake(phase)
           /\ EndPing(pinging \ {s}, discarding, Size)
           /\ UNCHANGED <<discarding, deleting>>
  <2>1. /\ sessions' \in Seq(Sessions) /\ Len(sessions') = Len(sessions) + 1
        /\ Inventory' = Inventory \cup {s}
        /\ Distinct(sessions')
        /\ age' \in [Sessions -> 0..ExpiryAge]
    BY <1>1, <1>3, PushEffect DEF IInv, Places
  <2>2. Cardinality(borrowed') = Cardinality(borrowed) - 1
    BY <1>2, <1>3, FS_RemoveElement
  <2>3. /\ pending' \in Int /\ creating' \in [1..MaxSize -> Nat]
        /\ arriving' = arriving
        /\ Size - pending + pending' <= MaxSize
    BY <1>3, EndPingFits
  <2>4. /\ phase' \in [Callers -> {"idle", "queued", "running", "waiting", "woken", "holding"}]
        /\ \A d \in Callers : phase'[d] = "holding" <=> phase[d] = "holding"
    BY <1>3 DEF Wake, IInv, TypeOK
  <2>5. TypeOK'
    BY <1>1, <1>3, <2>1, <2>3, <2>4 DEF IInv, TypeOK, PingOk
  <2>6. WithinMax'
    <3>1. Size' = Size - pending + pending'
      BY <1>2, <2>1, <2>2, <2>3 DEF Size
    <3>2. QED
      BY <2>3, <3>1 DEF WithinMax
  <2>7. Places'
    BY <1>1, <1>3, <2>1, <2>3 DEF IInv, Places
  <2>8. Holders'
    BY <1>1, <1>3, <2>4 DEF IInv, Holders
  <2>9. UsedIsKept'
    BY <1>1, <1>3, <2>1, <2>3 DEF IInv, UsedIsKept, Serving
  <2>10. QED
    BY <2>5, <2>6, <2>7, <2>8, <2>9 DEF IInv
<1>4. CASE /\ s \notin borrowed
           /\ discarding' = discarding \cup {s}
           /\ deleting' = deleting \cup {s}
           /\ UNCHANGED <<phase, storeVars, createVars>>
  <2>1. /\ sessions' = sessions /\ borrowed' = borrowed /\ age' = age
        /\ Inventory' = Inventory /\ pending' = pending /\ arriving' = arriving
        /\ creating' = creating /\ phase' = phase
    BY <1>4 DEF storeVars, createVars, Inventory
  <2>2. TypeOK'
    BY <1>1, <1>4, <2>1 DEF IInv, TypeOK, PingOk
  <2>3. WithinMax'
    BY <2>1 DEF IInv, WithinMax, Size
  <2>4. Places'
    BY <1>1, <2>1 DEF IInv, Places
  <2>5. Holders'
    BY <1>1, <2>1 DEF IInv, Holders
  <2>6. UsedIsKept'
    BY <1>1, <1>4, <2>1 DEF IInv, UsedIsKept, Serving
  <2>7. QED
    BY <2>2, <2>3, <2>4, <2>5, <2>6 DEF IInv
<1>5. QED
  BY <1>3, <1>4 DEF PingOk

\* A keep-alive that fails keeps the invariant.
LEMMA PingFailKeeps ==
  ASSUME IInv, NEW s \in Sessions, PingFail(s)
  PROVE  IInv'
<1>1. /\ pinging' = pinging \ {s} /\ borrowed' = borrowed \ {s}
      /\ deleting' = deleting \cup {s}
      /\ mode' = mode /\ held' = held /\ Held' = Held /\ phase' = phase
      /\ sessions' = sessions /\ Inventory' = Inventory
      /\ arriving' = arriving /\ pending' = pending
      /\ s \notin Inventory /\ s \notin Held /\ s \notin arriving
  BY DEF PingFail, callerVars, createVars, IInv, Places, Held, Inventory
<1>2. TypeOK'
  BY <1>1 DEF PingFail, callerVars, createVars, IInv, TypeOK
<1>3. WithinMax'
  <2>1. Len(sessions) \in Nat /\ Cardinality(borrowed) \in Nat /\ pending \in Int
        /\ IsFiniteSet(borrowed)
    BY Numbers DEF IInv, TypeOK
  <2>2. Cardinality(borrowed') \in Nat /\ Cardinality(borrowed') <= Cardinality(borrowed)
    BY <1>1, <2>1, FS_Subset, FS_CardinalityType
  <2>3. Size' <= Size /\ Size \in Int /\ Size' \in Int
    BY <1>1, <2>1, <2>2 DEF Size
  <2>4. QED
    BY <2>3, OptionsAssumption DEF IInv, WithinMax
<1>4. Places'
  BY <1>1 DEF IInv, Places
<1>5. Holders'
  BY <1>1 DEF IInv, Holders
<1>6. UsedIsKept'
  BY <1>1 DEF IInv, UsedIsKept, Serving
<1>7. QED
  BY <1>2, <1>3, <1>4, <1>5, <1>6 DEF IInv

\* The answer to a delete keeps the invariant.
LEMMA DeleteDoneKeeps ==
  ASSUME IInv, NEW s \in Sessions, NEW ok \in BOOLEAN, DeleteDone(s, ok)
  PROVE  IInv'
<1>1. /\ sessions' = sessions /\ borrowed' = borrowed /\ age' = age
      /\ Inventory' = Inventory /\ Held' = Held /\ held' = held /\ phase' = phase
      /\ mode' = mode /\ pinging' = pinging /\ deleting' = deleting \ {s}
      /\ traces' = traces /\ queue' = queue /\ late' = late
  BY DEF DeleteDone, storeVars, callerVars, Inventory, Held
<1>2. /\ pending' \in Int /\ creating' \in [1..MaxSize -> Nat]
      /\ arriving' = arriving
      /\ Size - pending + pending' <= MaxSize
  <2>1. CASE EndPing(pinging, discarding \ {s}, Size)
    BY <2>1, EndPingFits
  <2>2. CASE UNCHANGED createVars
    BY <2>2, Numbers DEF createVars, IInv, TypeOK, WithinMax
  <2>3. QED
    BY <2>1, <2>2 DEF DeleteDone
<1>3. TypeOK'
  BY <1>1, <1>2 DEF IInv, TypeOK, DeleteDone
<1>4. WithinMax'
  <2>1. Size' = Size - pending + pending'
    BY <1>1, <1>2, Numbers DEF Size, IInv, TypeOK
  <2>2. QED
    BY <1>2, <2>1 DEF WithinMax
<1>5. Places'
  BY <1>1, <1>2 DEF IInv, Places
<1>6. Holders'
  BY <1>1 DEF IInv, Holders
<1>7. UsedIsKept'
  BY <1>1, <1>2 DEF IInv, UsedIsKept, Serving
<1>8. QED
  BY <1>3, <1>4, <1>5, <1>6, <1>7 DEF IInv

---------------------------------------------------------------------------
(* ... closing, the clock and the backend                                  *)

\* close() up to its await keeps the invariant.
LEMMA CloseKeeps ==
  ASSUME IInv, Close
  PROVE  IInv'
<1>1. /\ sessions' = sessions /\ borrowed' = borrowed /\ age' = age
      /\ pending' = pending /\ arriving' = arriving /\ pinging' = pinging
      /\ held' = held /\ Inventory' = Inventory /\ Held' = Held
      /\ mode = "open" /\ mode' = "closing"
  BY DEF Close, storeVars, createVars, Inventory, Held
<1>2. /\ phase' \in [Callers -> {"idle", "queued", "running", "waiting", "woken", "holding"}]
      /\ \A d \in Callers : phase'[d] = "holding" <=> phase[d] = "holding"
  BY DEF Close, Reject, IInv, TypeOK
<1>3. deleting' \in SUBSET Sessions
  BY Numbers DEF Close, IInv, TypeOK
<1>4. TypeOK'
  BY <1>1, <1>2, <1>3 DEF IInv, TypeOK, Close, createVars
<1>5. WithinMax'
  BY <1>1 DEF IInv, WithinMax, Size
<1>6. Places'
  BY <1>1 DEF IInv, Places
<1>7. Holders'
  BY <1>1, <1>2 DEF IInv, Holders
<1>8. UsedIsKept'
  BY <1>1 DEF UsedIsKept, Serving
<1>9. QED
  BY <1>4, <1>5, <1>6, <1>7, <1>8 DEF IInv

\* The end of close() keeps the invariant.
LEMMA FinishCloseKeeps ==
  ASSUME IInv, FinishClose
  PROVE  IInv'
<1>1. /\ sessions' = <<>> /\ borrowed' = {} /\ mode' = "closed"
      /\ pending' = pending /\ arriving' = arriving /\ pinging' = pinging
      /\ held' = held /\ Held' = Held /\ phase' = phase
  BY DEF FinishClose, callerVars, createVars, serviceVars, Held
<1>2. /\ sessions' \in Seq(Sessions) /\ Len(sessions') = 0
      /\ Inventory' = {} /\ Distinct(sessions')
  BY <1>1 DEF Inventory, Distinct
<1>3. TypeOK'
  <2>1. age' \in [Sessions -> 0..ExpiryAge]
    BY AgeAssumption DEF FinishClose
  <2>2. QED
    BY <1>1, <1>2, <2>1 DEF IInv, TypeOK, FinishClose, callerVars, createVars, serviceVars
<1>4. WithinMax'
  <2>1. Cardinality(borrowed') = 0
    BY <1>1, FS_EmptySet
  <2>2. Size' <= Size /\ Size' \in Int /\ Size \in Int
    BY <1>1, <1>2, <2>1, Numbers DEF Size, IInv, TypeOK
  <2>3. QED
    BY <2>2, OptionsAssumption DEF IInv, WithinMax
<1>5. Places'
  BY <1>1, <1>2 DEF IInv, Places
<1>6. Holders'
  BY <1>1 DEF IInv, Holders
<1>7. UsedIsKept'
  BY <1>1 DEF UsedIsKept, Serving
<1>8. QED
  BY <1>3, <1>4, <1>5, <1>6, <1>7 DEF IInv

\* A step that changes only ages and what the backend still has keeps the
\* invariant.
LEMMA OutsideKeeps ==
  ASSUME IInv,
         UNCHANGED <<mode, sessions, borrowed, pinging, discarding, deleting>>,
         UNCHANGED <<callerVars, createVars>>,
         age' \in [Sessions -> 0..ExpiryAge], alive' \in SUBSET Sessions
  PROVE  IInv'
<1>1. /\ sessions' = sessions /\ borrowed' = borrowed /\ mode' = mode
      /\ pending' = pending /\ arriving' = arriving /\ pinging' = pinging
      /\ deleting' = deleting /\ held' = held /\ phase' = phase
      /\ Inventory' = Inventory /\ Held' = Held
  BY DEF callerVars, createVars, Inventory, Held
<1>2. TypeOK'
  BY <1>1 DEF IInv, TypeOK, callerVars, createVars
<1>3. WithinMax'
  BY <1>1 DEF IInv, WithinMax, Size
<1>4. Places'
  BY <1>1 DEF IInv, Places
<1>5. Holders'
  BY <1>1 DEF IInv, Holders
<1>6. UsedIsKept'
  BY <1>1 DEF IInv, UsedIsKept, Serving
<1>7. QED
  BY <1>2, <1>3, <1>4, <1>5, <1>6 DEF IInv

\* The passing of time keeps the invariant.
LEMMA TickKeeps ==
  ASSUME IInv, Tick
  PROVE  IInv'
<1>1. age' \in [Sessions -> 0..ExpiryAge]
  BY AgeAssumption DEF Tick, IInv, TypeOK
<1>2. alive' \in SUBSET Sessions
  BY DEF Tick, IInv, TypeOK
<1>3. QED
  BY <1>1, <1>2, OutsideKeeps DEF Tick

\* The expiry of a session the pool has lost sight of keeps the invariant.
LEMMA ExpireKeeps ==
  ASSUME IInv, NEW s \in Sessions, Expire(s)
  PROVE  IInv'
BY OutsideKeeps DEF Expire, IInv, TypeOK, storeVars

\* A step in which nothing happens keeps the invariant: a stutter, and a
\* request the closed pool refuses.
LEMMA StutterKeeps ==
  ASSUME IInv, UNCHANGED vars
  PROVE  IInv'
BY OutsideKeeps DEF vars, callerVars, createVars, IInv, TypeOK

---------------------------------------------------------------------------
(* The theorems                                                            *)

\* A pool just constructed satisfies the invariant.
LEMMA InitHolds == Init => IInv
<1> SUFFICES ASSUME Init PROVE IInv
  OBVIOUS
<1>1. /\ sessions \in Seq(Sessions) /\ Len(sessions) = 0 /\ Inventory = {}
      /\ Distinct(sessions)
  BY DEF Init, Inventory, Distinct
<1>2. Held = {}
  BY DEF Init, Held
<1>3. TypeOK
  BY <1>1, AgeAssumption DEF Init, TypeOK
<1>4. WithinMax
  BY <1>1, FS_EmptySet, OptionsAssumption DEF Init, WithinMax, Size
<1>5. Places
  BY <1>1, <1>2 DEF Init, Places
<1>6. Holders
  BY <1>2 DEF Init, Holders
<1>7. UsedIsKept
  BY <1>1, <1>2 DEF Init, UsedIsKept
<1>8. QED
  BY <1>3, <1>4, <1>5, <1>6, <1>7 DEF IInv

\* Every step of the pool, its callers, its timers and the backend keeps the
\* invariant.
LEMMA NextKeeps == IInv /\ [Next]_vars => IInv'
<1> SUFFICES ASSUME IInv, [Next]_vars PROVE IInv'
  OBVIOUS
<1>1. CASE Open \/ Close \/ FinishClose
  BY <1>1, OpenKeeps, CloseKeeps, FinishCloseKeeps
<1>2. CASE EvictIdle \/ PingIdle \/ Tick
  BY <1>2, EvictIdleKeeps, PingIdleKeeps, TickKeeps
<1>3. CASE \E c \in Callers : \/ GetSession(c) \/ GetSessionClosed(c)
                              \/ StartNext(c) \/ Retry(c) \/ Resume(c)
                              \/ TimeOut(c) \/ BecomeLate(c) \/ Release(c)
  <2>1. PICK c \in Callers : \/ GetSession(c) \/ GetSessionClosed(c)
                             \/ StartNext(c) \/ Retry(c) \/ Resume(c)
                             \/ TimeOut(c) \/ BecomeLate(c) \/ Release(c)
    BY <1>3
  <2>2. CASE GetSession(c)
    BY <2>2, GetSessionKeeps
  <2>3. CASE GetSessionClosed(c)
    BY <2>3, StutterKeeps DEF GetSessionClosed
  <2>4. CASE StartNext(c)
    BY <2>4, StartNextKeeps
  <2>5. CASE Retry(c)
    BY <2>5, RetryKeeps
  <2>6. CASE Resume(c)
    BY <2>6, ResumeKeeps
  <2>7. CASE TimeOut(c)
    BY <2>7, TimeOutKeeps
  <2>8. CASE BecomeLate(c)
    BY <2>8, BecomeLateKeeps
  <2>9. CASE Release(c)
    BY <2>9, ReleaseKeeps
  <2>10. QED
    BY <2>1, <2>2, <2>3, <2>4, <2>5, <2>6, <2>7, <2>8, <2>9
<1>4. CASE \E n \in 1..MaxSize : BatchError(n) \/ \E S \in SUBSET Sessions : BatchReply(n, S)
  BY <1>4, BatchErrorKeeps, BatchReplyKeeps
<1>5. CASE \E s \in Sessions : \/ Arrive(s) \/ PingOk(s) \/ PingFail(s) \/ Expire(s)
                               \/ \E ok \in BOOLEAN : DeleteDone(s, ok)
  <2>1. PICK s \in Sessions : \/ Arrive(s) \/ PingOk(s) \/ PingFail(s) \/ Expire(s)
                              \/ \E ok \in BOOLEAN : DeleteDone(s, ok)
    BY <1>5
  <2>2. CASE Arrive(s)
    BY <2>2, ArriveKeeps
  <2>3. CASE PingOk(s)
    BY <2>3, PingOkKeeps
  <2>4. CASE PingFail(s)
    BY <2>4, PingFailKeeps
  <2>5. CASE Expire(s)
    BY <2>5, ExpireKeeps
  <2>6. CASE \E ok \in BOOLEAN : DeleteDone(s, ok)
    BY <2>6, DeleteDoneKeeps
  <2>7. QED
    BY <2>1, <2>2, <2>3, <2>4, <2>5, <2>6
<1>6. CASE UNCHANGED vars
  BY <1>6, StutterKeeps
<1>7. QED
  BY <1>1, <1>2, <1>3, <1>4, <1>5, <1>6 DEF Next

\* The invariant holds in every state of every behaviour.
THEOREM Inductive == Spec => []IInv
BY InitHolds, NextKeeps, PTL DEF Spec

\* Every variable stays in its type.
THEOREM TypeCorrect == Spec => []TypeOK
<1>1. IInv => TypeOK
  BY DEF IInv
<1>2. QED
  BY <1>1, Inductive, PTL

\* The pool, with the sessions it has asked for, never exceeds options.max.
THEOREM SizeBounded == Spec => []WithinMax
<1>1. IInv => WithinMax
  BY DEF IInv
<1>2. QED
  BY <1>1, Inductive, PTL

\* No session is lent twice, or lent while it is on offer, and what is lent
\* stays in the borrowed set until the pool has closed.
THEOREM NotShared == Spec => []NoSharing
<1>1. IInv => NoSharing
  BY DEF IInv, Places, Holders, Distinct, NoSharing
<1>2. QED
  BY <1>1, Inductive, PTL

\* While the pool is open it deletes no session that is on offer or in use.
THEOREM UsedNotDeleted == Spec => []InUseNotDeleted
<1>1. IInv => InUseNotDeleted
  BY DEF IInv, UsedIsKept, Serving, InUseNotDeleted
<1>2. QED
  BY <1>1, Inductive, PTL

---------------------------------------------------------------------------
(* What is owed: _pending and the calls it counts                          *)

\* The numbers up to n are n.
LEMMA UpTo ==
  ASSUME NEW n \in Nat
  PROVE  IsFiniteSet(1..n) /\ Cardinality(1..n) = n
<1>1. 1 \in Int /\ n \in Int
  OBVIOUS
<1>2. IsFiniteSet(1..n) /\ Cardinality(1..n) = IF 1 > n THEN 0 ELSE n - 1 + 1
  BY <1>1, FS_Interval
<1>3. (IF 1 > n THEN 0 ELSE n - 1 + 1) = n
  OBVIOUS
<1>4. QED
  BY <1>2, <1>3

\* A set whose elements are given a label has as many elements as before.
LEMMA Labelled ==
  ASSUME NEW a, NEW T, NEW n \in Nat, IsFiniteSet(T), Cardinality(T) = n
  PROVE  IsFiniteSet({a} \X T) /\ Cardinality({a} \X T) = n
<1> DEFINE S == {a}
<1>1. IsFiniteSet(S) /\ Cardinality(S) = 1
  BY FS_Singleton
<1> HIDE DEF S
<1>2. IsFiniteSet(S \X T) /\ Cardinality(S \X T) = Cardinality(S) * Cardinality(T)
  BY <1>1, FS_Product
<1>3. IsFiniteSet(S \X T) /\ Cardinality(S \X T) = n
  BY <1>1, <1>2
<1>4. QED
  BY <1>3 DEF S

\* One call more for n sessions: n sessions more are owed.
LEMMA OwedMore ==
  ASSUME NEW f \in [1..MaxSize -> Nat], NEW g \in [1..MaxSize -> Nat],
         NEW n \in 1..MaxSize, g = [f EXCEPT ![n] = @ + 1],
         IsFiniteSet(Owed(f))
  PROVE  IsFiniteSet(Owed(g)) /\ Cardinality(Owed(g)) = Cardinality(Owed(f)) + n
<1> DEFINE new == {n} \X ({f[n] + 1} \X (1..n))
<1>1. /\ f[n] \in Nat /\ g[n] = f[n] + 1
      /\ \A m \in 1..MaxSize : m # n => g[m] = f[m]
  OBVIOUS
<1>2. n \in Nat /\ n >= 1
  BY OptionsAssumption
<1>3. IsFiniteSet(new) /\ Cardinality(new) = n
  <2> DEFINE k     == f[n] + 1
             to    == 1..n
             block == {k} \X to
  <2>1. IsFiniteSet(to) /\ Cardinality(to) = n
    BY <1>2, UpTo
  <2> HIDE DEF k, to
  <2>2. IsFiniteSet(block) /\ Cardinality(block) = n
    BY <1>2, <2>1, Labelled
  <2> HIDE DEF block
  <2>3. IsFiniteSet({n} \X block) /\ Cardinality({n} \X block) = n
    BY <1>2, <2>2, Labelled
  <2>4. QED
    BY <2>3 DEF block, k, to
<1>4. Owed(g) = Owed(f) \cup new
  <2>1. ASSUME NEW x \in Owed(g) PROVE x \in Owed(f) \cup new
    <3>1. PICK m \in 1..MaxSize : x \in {m} \X ((1..g[m]) \X (1..m))
      BY DEF Owed
    <3>2. CASE m # n
      BY <1>1, <3>1, <3>2 DEF Owed
    <3>3. CASE m = n
      <4>1. PICK k \in 1..f[n] + 1, i \in 1..n : x = <<n, <<k, i>>>>
        BY <1>1, <3>1, <3>3
      <4>2. CASE k = f[n] + 1
        BY <4>1, <4>2
      <4>3. CASE k # f[n] + 1
        <5>1. k \in 1..f[n]
          BY <1>1, <4>3
        <5>2. x \in {n} \X ((1..f[n]) \X (1..n))
          BY <4>1, <5>1
        <5>3. QED
          BY <5>2 DEF Owed
      <4>4. QED
        BY <4>2, <4>3
    <3>4. QED
      BY <3>2, <3>3
  <2>2. ASSUME NEW x \in Owed(f) PROVE x \in Owed(g)
    <3>1. PICK m \in 1..MaxSize : x \in {m} \X ((1..f[m]) \X (1..m))
      BY DEF Owed
    <3>2. 1..f[m] \subseteq 1..g[m]
      BY <1>1
    <3>3. x \in {m} \X ((1..g[m]) \X (1..m))
      BY <3>1, <3>2
    <3>4. QED
      BY <3>3 DEF Owed
  <2>3. new \subseteq Owed(g)
    <3>1. f[n] + 1 \in 1..g[n]
      BY <1>1
    <3>2. new \subseteq {n} \X ((1..g[n]) \X (1..n))
      BY <3>1
    <3>3. QED
      BY <3>2 DEF Owed
  <2>4. QED
    BY <2>1, <2>2, <2>3
<1>5. Owed(f) \cap new = {}
  <2>1. ASSUME NEW x \in Owed(f), x \in new PROVE FALSE
    <3>1. PICK m \in 1..MaxSize : x \in {m} \X ((1..f[m]) \X (1..m))
      BY DEF Owed
    <3>2. PICK i \in 1..n : x = <<n, <<f[n] + 1, i>>>>
      BY <2>1
    <3>3. m = n /\ f[n] + 1 \in 1..f[m]
      BY <3>1, <3>2
    <3>4. QED
      BY <1>1, <3>3
  <2>2. QED
    BY <2>1
<1> HIDE DEF new
<1>6. /\ IsFiniteSet(Owed(f) \cup new)
      /\ Cardinality(Owed(f) \cup new)
           = Cardinality(Owed(f)) + Cardinality(new) - Cardinality(Owed(f) \cap new)
  BY <1>3, FS_Union
<1>7. Cardinality(Owed(f)) \in Nat
  BY FS_CardinalityType
<1>8. Cardinality(Owed(f) \cap new) = 0
  BY <1>5, FS_EmptySet
<1>9. IsFiniteSet(Owed(g)) /\ Cardinality(Owed(g)) = Cardinality(Owed(f)) + n - 0
  BY <1>3, <1>4, <1>6, <1>8
<1>10. QED
  BY <1>2, <1>7, <1>9

\* What is owed is finitely much.
LEMMA OwedFinite ==
  ASSUME NEW f \in [1..MaxSize -> Nat]
  PROVE  IsFiniteSet(Owed(f)) /\ Cardinality(Owed(f)) \in Nat
<1> DEFINE part(n) == {n} \X ((1..f[n]) \X (1..n))
           parts == {part(n) : n \in 1..MaxSize}
<1>1. IsFiniteSet(1..MaxSize)
  BY OptionsAssumption, FS_Interval
<1>2. IsFiniteSet(parts)
  <2> DEFINE each == [n \in 1..MaxSize |-> part(n)]
  <2> HIDE DEF part
  <2>1. each \in Surjection(1..MaxSize, parts)
    BY DEF Surjection
  <2>2. QED
    BY <1>1, <2>1, FS_Surjection
<1>3. ASSUME NEW n \in 1..MaxSize PROVE IsFiniteSet(part(n))
  <2>1. n \in Int /\ f[n] \in Int
    BY OptionsAssumption
  <2>2. IsFiniteSet(1..n) /\ IsFiniteSet(1..f[n])
    BY <2>1, FS_Interval
  <2>3. IsFiniteSet({n})
    BY FS_Singleton
  <2>4. IsFiniteSet((1..f[n]) \X (1..n))
    BY <2>2, FS_Product
  <2>5. QED
    BY <2>3, <2>4, FS_Product
<1>4. IsFiniteSet(UNION parts)
  <2> HIDE DEF part
  <2>1. \A T \in parts : IsFiniteSet(T)
    BY <1>3
  <2> HIDE DEF parts
  <2>2. QED
    BY <1>2, <2>1, FS_UNION
<1>5. QED
  BY <1>4, FS_CardinalityType DEF Owed

\* One call less for n sessions: n sessions less are owed.
LEMMA OwedLess ==
  ASSUME NEW f \in [1..MaxSize -> Nat], NEW n \in 1..MaxSize, f[n] > 0,
         NEW g, g = [f EXCEPT ![n] = @ - 1]
  PROVE  /\ g \in [1..MaxSize -> Nat]
         /\ Cardinality(Owed(g)) = Cardinality(Owed(f)) - n
<1>1. g \in [1..MaxSize -> Nat]
  <2>1. f[n] - 1 \in Nat
    OBVIOUS
  <2>2. QED
    BY <2>1
<1>2. f = [g EXCEPT ![n] = @ + 1]
  <2>1. g[n] + 1 = f[n]
    OBVIOUS
  <2>2. QED
    BY <2>1
<1>3. Cardinality(Owed(f)) = Cardinality(Owed(g)) + n
  BY <1>1, <1>2, OwedFinite, OwedMore
<1>4. Cardinality(Owed(g)) \in Nat
  BY <1>1, OwedFinite
<1>5. QED
  BY <1>1, <1>3, <1>4

\* The numbers of the account: what is pending is never negative, and so
\* neither is the size of the pool.
LEMMA Account ==
  ASSUME TypeOK, PendingExact
  PROVE  /\ pending \in Nat /\ Size \in Nat
         /\ Cardinality(Owed(creating)) \in Nat
         /\ IsFiniteSet(arriving) /\ Cardinality(arriving) \in Nat
<1>1. IsFiniteSet(arriving) /\ Cardinality(arriving) \in Nat
  BY SessionsAssumption, FS_Subset, FS_CardinalityType DEF TypeOK
<1>2. Cardinality(Owed(creating)) \in Nat
  BY OwedFinite DEF TypeOK
<1>3. pending \in Nat
  BY <1>1, <1>2 DEF PendingExact
<1>4. Len(sessions) \in Nat /\ Cardinality(borrowed) \in Nat
  BY Numbers
<1>5. QED
  BY <1>1, <1>2, <1>3, <1>4 DEF Size

\* Asking for n sessions adds them to both sides of the account, provided a
\* call for n can be recorded, which is so when n is at most options.max.
LEMMA CreateBooked ==
  ASSUME TypeOK, PendingExact, NEW n \in Int, n <= MaxSize, CreateSessions(n)
  PROVE  PendingExact'
<1>1. CASE n <= 0
  BY <1>1 DEF CreateSessions, createVars, PendingExact
<1>2. CASE n > 0
  <2>1. n \in 1..MaxSize
    BY <1>2, OptionsAssumption
  <2>2. /\ creating' = [creating EXCEPT ![n] = @ + 1]
        /\ creating' \in [1..MaxSize -> Nat]
        /\ pending' = pending + n /\ arriving' = arriving
    BY <1>2 DEF CreateSessions, TypeOK
  <2>3. creating \in [1..MaxSize -> Nat] /\ IsFiniteSet(Owed(creating))
    BY OwedFinite DEF TypeOK
  <2>4. Cardinality(Owed(creating')) = Cardinality(Owed(creating)) + n
    BY <2>1, <2>2, <2>3, OwedMore
  <2>5. QED
    BY <2>2, <2>4, Account DEF PendingExact
<1>3. QED
  BY <1>1, <1>2

\* open(), a caller who finds no session and a finished round of pings ask
\* for at most options.max sessions.
Asks == \E n \in Int : n <= MaxSize /\ CreateSessions(n)

LEMMA FillAsks ==
  ASSUME TypeOK, NEW n \in Nat, Fill(n)
  PROVE  Asks
<1>1. MinSize - n \in Int /\ MinSize - n <= MaxSize
  BY OptionsAssumption
<1>2. QED
  BY <1>1 DEF Fill, Asks

\* So does every other step, but for the answers of the backend and the entry
\* of a session: it asks for some, or leaves the account alone.
LEMMA AccountMoves ==
  ASSUME IInv, PendingExact, [Next]_vars
  PROVE  \/ UNCHANGED createVars
         \/ Asks
         \/ \E n \in 1..MaxSize : BatchError(n) \/ \E S \in SUBSET Sessions : BatchReply(n, S)
         \/ \E s \in Sessions : Arrive(s)
<1>1. TypeOK /\ Size \in Nat /\ pending \in Nat
  BY Account DEF IInv
<1>2. ASSUME NEW c \in Callers, TryAcquire(c) PROVE UNCHANGED createVars \/ Asks
  <2>1. CASE AwaitSession(c) /\ CreateSessions(CreateAmount)
    <3>1. CreateAmount \in Int /\ Size + CreateAmount <= MaxSize
      BY AmountFits
    <3>2. CreateAmount <= MaxSize
      BY <1>1, <3>1, OptionsAssumption
    <3>3. QED
      BY <2>1, <3>1, <3>2 DEF Asks
  <2>2. QED
    BY <1>2, <2>1 DEF TryAcquire, TakeNewest, DropExpired, Exhausted, GiveUp, AwaitSession
<1>3. ASSUME NEW p, NEW d, EndPing(p, d, Size) PROVE UNCHANGED createVars \/ Asks
  BY <1>1, <1>3, FillAsks DEF EndPing
<1>4. CASE Open
  BY <1>1, <1>4, FillAsks DEF Open
<1>5. CASE PingIdle
  <2>1. Size - IdleCount \in Nat
    <3>1. /\ Len(sessions) \in Nat /\ IdleCount \in 0..Len(sessions)
          /\ Cardinality(borrowed) \in Nat
      BY <1>1, Numbers
    <3>2. QED
      BY <1>1, <3>1 DEF Size
  <2>2. Fill(Size - IdleCount) \/ UNCHANGED createVars
    BY <1>5 DEF PingIdle
  <2>3. QED
    BY <1>1, <2>1, <2>2, FillAsks
<1>6. CASE Close \/ FinishClose \/ EvictIdle \/ Tick
  BY <1>6 DEF Close, FinishClose, EvictIdle, Tick
<1>7. ASSUME NEW c \in Callers,
             \/ GetSession(c) \/ GetSessionClosed(c)
             \/ StartNext(c) \/ Retry(c) \/ Resume(c)
             \/ TimeOut(c) \/ BecomeLate(c) \/ Release(c)
      PROVE  UNCHANGED createVars \/ Asks
  <2>1. CASE GetSession(c) \/ StartNext(c) \/ Retry(c)
    BY <1>2, <2>1 DEF GetSession, StartNext, Retry, GiveUp
  <2>2. CASE GetSessionClosed(c)
    BY <2>2 DEF GetSessionClosed, vars, createVars
  <2>3. CASE Resume(c) \/ TimeOut(c) \/ BecomeLate(c) \/ Release(c)
    BY <2>3 DEF Resume, TakeNewest, DropExpired, TimeOut, GiveUp, BecomeLate, Release
  <2>4. QED
    BY <1>7, <2>1, <2>2, <2>3
<1>8. ASSUME NEW s \in Sessions,
             \/ PingOk(s) \/ PingFail(s) \/ Expire(s)
             \/ \E ok \in BOOLEAN : DeleteDone(s, ok)
      PROVE  UNCHANGED createVars \/ Asks
  <2>1. CASE PingOk(s)
    BY <1>3, <2>1 DEF PingOk
  <2>2. CASE PingFail(s) \/ Expire(s)
    BY <2>2 DEF PingFail, Expire
  <2>3. CASE \E ok \in BOOLEAN : DeleteDone(s, ok)
    BY <1>3, <2>3 DEF DeleteDone
  <2>4. QED
    BY <1>8, <2>1, <2>2, <2>3
<1>9. CASE UNCHANGED vars
  BY <1>9 DEF vars, createVars
<1>10. QED
  BY <1>4, <1>5, <1>6, <1>7, <1>8, <1>9 DEF Next

\* A batch answered in part moves the sessions that came from what is owed
\* to what is arriving; the call for the rest takes its place.
LEMMA ReplyBooked ==
  ASSUME IInv, PendingExact, NEW n \in 1..MaxSize, NEW S \in SUBSET Sessions, BatchReply(n, S)
  PROVE  PendingExact'
<1> DEFINE k == Cardinality(S)
           before == Cardinality(Owed(creating))
<1>1. /\ n \in Int /\ before \in Nat /\ IsFiniteSet(arriving) /\ Cardinality(arriving) \in Nat
      /\ creating \in [1..MaxSize -> Nat] /\ creating[n] > 0
  BY Account, OptionsAssumption DEF IInv, TypeOK, BatchReply
<1>2. IsFiniteSet(S) /\ k \in Nat /\ k >= 1 /\ n - k >= 0
  BY SessionsAssumption, FS_Subset, FS_CardinalityType, FS_EmptySet DEF BatchReply
<1>3. Cardinality(arriving') = Cardinality(arriving) + k
  <2>1. arriving' = arriving \cup S /\ arriving \cap S = {}
    BY DEF BatchReply, Fresh, Tracked
  <2>2. Cardinality(arriving \cup S) = Cardinality(arriving) + k - Cardinality(arriving \cap S)
    BY <1>1, <1>2, FS_Union
  <2>3. Cardinality(arriving \cap S) = 0
    BY <2>1, FS_EmptySet
  <2>4. QED
    BY <1>1, <1>2, <2>1, <2>2, <2>3
<1>4. /\ Answered(n) \in [1..MaxSize -> Nat]
      /\ Cardinality(Owed(Answered(n))) = before - n
  BY <1>1, OwedLess DEF Answered
<1>5. Cardinality(Owed(creating')) = before - k
  <2>1. CASE n - k = 0
    BY <1>1, <1>2, <1>4, <2>1 DEF BatchReply
  <2>2. CASE n - k # 0
    <3> DEFINE rest == n - k
    <3>1. rest \in 1..MaxSize
      BY <1>1, <1>2, <2>2, OptionsAssumption
    <3>2. creating' = [Answered(n) EXCEPT ![rest] = @ + 1]
      BY <2>2 DEF BatchReply
    <3>3. creating' \in [1..MaxSize -> Nat]
      <4> HIDE DEF rest
      <4>1. QED
        BY <1>4, <3>1, <3>2
    <3>4. IsFiniteSet(Owed(Answered(n)))
      BY <1>4, OwedFinite
    <3>5. Cardinality(Owed(creating')) = (before - n) + rest
      <4> HIDE DEF rest, before, k
      <4>1. Cardinality(Owed(creating')) = Cardinality(Owed(Answered(n))) + rest
        BY <1>4, <3>1, <3>2, <3>3, <3>4, OwedMore
      <4>2. QED
        BY <1>4, <4>1
    <3>6. QED
      BY <1>1, <1>2, <3>5
  <2>3. QED
    BY <2>1, <2>2
<1>6. pending' = pending
  BY DEF BatchReply
<1>7. QED
  BY <1>1, <1>2, <1>3, <1>5, <1>6 DEF PendingExact

\* Every step keeps the account: writing off a failed call takes the same off
\* both sides, and so does the entry of a session.
LEMMA PendingStep == IInv /\ PendingExact /\ [Next]_vars => PendingExact'
<1> SUFFICES ASSUME IInv, PendingExact, [Next]_vars PROVE PendingExact'
  OBVIOUS
<1>1. /\ TypeOK /\ pending \in Nat /\ Cardinality(Owed(creating)) \in Nat
      /\ IsFiniteSet(arriving) /\ Cardinality(arriving) \in Nat
  BY Account DEF IInv
<1>2. CASE UNCHANGED createVars
  BY <1>2 DEF createVars, PendingExact
<1>3. CASE Asks
  BY <1>1, <1>3, CreateBooked DEF Asks
<1>4. ASSUME NEW n \in 1..MaxSize, BatchError(n) PROVE PendingExact'
  <2>1. creating \in [1..MaxSize -> Nat] /\ creating[n] > 0 /\ n \in Int
    BY <1>1, <1>4, OptionsAssumption DEF TypeOK, BatchError
  <2>2. Cardinality(Owed(creating')) = Cardinality(Owed(creating)) - n
    BY <1>4, <2>1, OwedLess DEF BatchError, Answered
  <2>3. pending' = pending - n /\ arriving' = arriving
    BY <1>4 DEF BatchError
  <2>4. QED
    BY <1>1, <2>1, <2>2, <2>3 DEF PendingExact
<1>5. ASSUME NEW n \in 1..MaxSize, NEW S \in SUBSET Sessions, BatchReply(n, S)
      PROVE  PendingExact'
  BY <1>5, ReplyBooked
<1>6. ASSUME NEW s \in Sessions, Arrive(s) PROVE PendingExact'
  <2>1. /\ s \in arriving /\ arriving' = arriving \ {s}
        /\ pending' = pending - 1 /\ creating' = creating
    BY <1>6 DEF Arrive
  <2>2. Cardinality(arriving') = Cardinality(arriving) - 1
    BY <1>1, <2>1, FS_RemoveElement
  <2>3. QED
    BY <1>1, <2>1, <2>2 DEF PendingExact
<1>7. QED
  BY <1>2, <1>3, <1>4, <1>5, <1>6, AccountMoves

\* _pending counts exactly the sessions the backend still owes and those about
\* to enter the inventory, whatever is answered in part, fails or overlaps.
THEOREM PendingCounted == Spec => []PendingExact
<1>1. Init => PendingExact
  <2> SUFFICES ASSUME Init PROVE PendingExact
    OBVIOUS
  <2>1. Owed(creating) = {}
    <3>1. \A n \in 1..MaxSize : 1..creating[n] = {}
      BY DEF Init
    <3>2. QED
      BY <3>1 DEF Owed
  <2>2. Cardinality(Owed(creating)) = 0 /\ Cardinality(arriving) = 0
    BY <2>1, FS_EmptySet DEF Init
  <2>3. QED
    BY <2>2 DEF Init, PendingExact
<1>2. QED
  BY <1>1, Inductive, PendingStep, PTL DEF Spec

\* The size the pool reckons with is a number of sessions: never negative,
\* never beyond options.max.
THEOREM SizeCounts == Spec => [](Size \in 0..MaxSize)
<1>1. IInv /\ PendingExact => Size \in 0..MaxSize
  BY Account, OptionsAssumption DEF IInv, WithinMax
<1>2. QED
  BY <1>1, Inductive, PendingCounted, PTL

\* A caller who finds room asks for at least one session and for no more than
\* there is room for, although the target for options.min counts the sessions
\* under way twice.
THEOREM AsksWithinRoom == Spec => [](~Full => CreateAmount \in 1..MaxSize - Size)
<1>1. ASSUME IInv, ~Full
      PROVE  CreateAmount \in 1..MaxSize - Size
  <2>1. Size \in Int /\ pending \in Int
    BY <1>1, Numbers DEF IInv, TypeOK
  <2>2. /\ CreateAmount \in Int /\ Size + CreateAmount <= MaxSize
        /\ MinSize \in Nat /\ MaxSize \in Nat /\ IncStep \in Nat \ {0}
    BY <1>1, AmountFits, OptionsAssumption
  <2>3. Size < MaxSize
    BY <1>1, <2>1, <2>2 DEF Full
  <2>4. CreateAmount >= 1
    BY <2>1, <2>2, <2>3 DEF CreateAmount
  <2>5. QED
    BY <2>1, <2>2, <2>4
<1>2. IInv => (~Full => CreateAmount \in 1..MaxSize - Size)
  BY <1>1
<1>3. QED
  BY <1>2, Inductive, PTL
===========================================================================

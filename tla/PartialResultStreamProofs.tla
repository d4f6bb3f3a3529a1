---------------------- MODULE PartialResultStreamProofs ----------------------
(***************************************************************************)
(* The rows a reader gets from partialResultStream() are those of the      *)
(* result, each once and in order, over requests that break and are        *)
(* repeated: the proofs of TypeOK, ResumesWhereItStopped and               *)
(* RefinesRowStream for every result, width, queue limit and number of     *)
(* breaks.                                                                 *)
(*                                                                         *)
(* The types hold of every behaviour.  The other two hold under two        *)
(* conditions, and the runs StreamPausedResume and StreamBareToken show    *)
(* that rows are lost, repeated or wrong without them:                     *)
(*   - a request is only repeated when its chunks have been transformed    *)
(*     (RetriesDrained), as is so if no request breaks in a way that is    *)
(*     repeated while a slow reader is served (RepeatPaused = FALSE);      *)
(*   - a token on a chunk without values comes where as much of a value is *)
(*     unfinished as at the token before it (TokensKeepHalf), as is so if  *)
(*     such tokens come only before the first value that is split          *)
(*     (HarmlessTokens), or not at all.                                    *)
(*                                                                         *)
(* The invariant SInv says that three positions d <= p <= q cut the result *)
(* into what has become rows and values, what the queue's writer has       *)
(* passed on, and what was sent: the chunks between them are in line, and  *)
(* what is kept for a repeated request belongs to the last resume token.   *)
(***************************************************************************)
EXTENDS PartialResultStream, FiniteSetTheorems, SequenceTheorems, WellFoundedInduction, TLAPS

---------------------------------------------------------------------------
(* Arithmetic                                                              *)

LEMMA MulMono == \A w, a, b \in Nat : a <= b => a * w <= b * w
  OBVIOUS

LEMMA MulStep == \A w, a \in Nat : (a + 1) * w = a * w + w
  OBVIOUS

LEMMA MulSum == \A w, a, b \in Nat : (a + b) * w = a * w + b * w
  OBVIOUS

\* What is left of n values when as many rows as they make are cut off.
LEMMA RowBounds ==
  ASSUME NEW n \in Nat, NEW w \in Nat \ {0}
  PROVE  /\ n \div w \in Nat /\ (n \div w) * w <= n /\ n < (n \div w) * w + w
         /\ n % w = n - (n \div w) * w
  OBVIOUS

\* A number of rows and the values left over are those of a division.
LEMMA RowsUnique ==
  ASSUME NEW k \in Nat, NEW l \in Nat, NEW w \in Nat \ {0}, l < w
  PROVE  (k * w + l) % w = l /\ (k * w + l) \div w = k
  OBVIOUS

---------------------------------------------------------------------------
(* The values of a result                                                  *)

\* A non-empty set of natural numbers has a least element.
LEMMA Smallest ==
  ASSUME NEW S \in SUBSET Nat, S # {}
  PROVE  \E n \in S : \A m \in S : n <= m
<1> PICK b \in S : TRUE
  OBVIOUS
<1> DEFINE Below(n) == S \cap 0..n
           Order    == StrictSubsetOrdering(0..b)
           Sets     == {Below(n) : n \in Below(b)}
<1>1. b \in Nat /\ b \in Below(b)
  OBVIOUS
<1>2. IsWellFoundedOn(Order, SUBSET (0..b))
  <2>0. IsFiniteSet(0..b)
    BY <1>1, FS_Interval
  <2>1. FiniteSubsetsOf(0..b) = SUBSET (0..b)
    BY <2>0, FS_FiniteSubsetsOfFinite
  <2>2. IsWellFoundedOn(Order, FiniteSubsetsOf(0..b))
    BY FS_StrictSubsetOrderingWellFounded
  <2> QED
    BY <2>1, <2>2
<1>3. Sets \subseteq SUBSET (0..b) /\ Sets # {}
  <2>1. \A n \in Below(b) : Below(n) \in SUBSET (0..b)
    BY <1>1
  <2> QED
    BY <1>1, <2>1
<1>4. \E X \in Sets : \A Y \in Sets : ~ (<<Y, X>> \in Order)
  <2> HIDE DEF Order, Sets
  <2> QED
    BY <1>2, <1>3, WFMin
<1>5. PICK n \in Below(b) : \A m \in Below(b) : ~ (<<Below(m), Below(n)>> \in Order)
  BY <1>4
<1>6. \A m \in S : n <= m
  <2> SUFFICES ASSUME NEW m \in S, m < n
               PROVE  FALSE
    OBVIOUS
  <2>1. m \in Below(b) /\ Below(m) \subseteq Below(n) /\ n \in Below(n) /\ n \notin Below(m)
    BY <1>1
  <2>2. Below(m) \subseteq 0..b /\ Below(n) \subseteq 0..b
    BY <1>1, <2>1
  <2>3. <<Below(m), Below(n)>> \in Order
    BY <2>1, <2>2, Zenon DEF StrictSubsetOrdering
  <2> QED
    BY <1>5, <2>1, <2>3
<1> QED
  BY <1>6

LEMMA EndsInside ==
  /\ Total \in Nat \ {0} /\ Total \in ValueEnds /\ Width \in Nat \ {0}
  /\ \A e \in ValueEnds : e \in Nat \ {0} /\ e <= Total
<1>1. \A e \in ValueEnds : e \in 1..Total
  BY ResultAssumption
<1> QED
  BY <1>1, ResultAssumption

LEMMA EndsFinite == \A p \in Int : IsFiniteSet(ValueEnds \cap 1..p)
<1> SUFFICES ASSUME NEW p \in Int
             PROVE  IsFiniteSet(ValueEnds \cap 1..p)
  OBVIOUS
<1>1. IsFiniteSet(1..p)
  BY FS_Interval
<1> QED
  BY <1>1, FS_Subset

LEMMA CompleteType == \A p \in Int : Complete(p) \in Nat
  BY EndsFinite, FS_CardinalityType DEF Complete

LEMMA CompleteNone == Complete(0) = 0
<1>1. ValueEnds \cap 1..0 = {}
  OBVIOUS
<1> QED
  BY <1>1, FS_EmptySet DEF Complete

LEMMA CompleteStep ==
  ASSUME NEW p \in Nat \ {0}
  PROVE  Complete(p) = IF p \in ValueEnds THEN Complete(p - 1) + 1 ELSE Complete(p - 1)
<1>1. CASE p \in ValueEnds
  <2>1. ValueEnds \cap 1..p = (ValueEnds \cap 1..p - 1) \cup {p}
    BY <1>1
  <2>2. p \notin ValueEnds \cap 1..p - 1
    OBVIOUS
  <2>3. IsFiniteSet(ValueEnds \cap 1..p - 1)
    BY EndsFinite
  <2>4. Cardinality((ValueEnds \cap 1..p - 1) \cup {p}) = Cardinality(ValueEnds \cap 1..p - 1) + 1
    BY <2>2, <2>3, FS_AddElement
  <2> QED
    BY <1>1, <2>1, <2>4 DEF Complete
<1>2. CASE p \notin ValueEnds
  <2>1. ValueEnds \cap 1..p = ValueEnds \cap 1..p - 1
    BY <1>2
  <2> QED
    BY <1>2, <2>1 DEF Complete
<1> QED
  BY <1>1, <1>2

LEMMA CompleteGrows == \A a, b \in Nat : a <= b => Complete(a) <= Complete(b)
<1> SUFFICES ASSUME NEW a \in Nat, NEW b \in Nat, a <= b
             PROVE  Complete(a) <= Complete(b)
  OBVIOUS
<1>1. (ValueEnds \cap 1..a) \in SUBSET (ValueEnds \cap 1..b)
  OBVIOUS
<1> QED
  BY <1>1, EndsFinite, FS_Subset DEF Complete

\* A value that ends after fragment a is not complete with it.
LEMMA CompleteStrict ==
  ASSUME NEW a \in Nat, NEW e \in ValueEnds, a < e
  PROVE  Complete(a) + 1 <= Complete(e)
<1>1. e \in Nat \ {0}
  BY ResultAssumption
<1>2. Complete(e) = Complete(e - 1) + 1
  BY <1>1, CompleteStep
<1>3. Complete(a) <= Complete(e - 1)
  BY <1>1, CompleteGrows
<1>4. Complete(a) \in Nat /\ Complete(e) \in Nat /\ Complete(e - 1) \in Nat
  BY <1>1, CompleteType
<1> QED
  BY <1>2, <1>3, <1>4

LEMMA CompleteAll == Complete(Total) = Cardinality(ValueEnds)
<1>1. ValueEnds \cap 1..Total = ValueEnds
  BY ResultAssumption
<1> QED
  BY <1>1 DEF Complete

Count == Cardinality(ValueEnds)

LEMMA CountType == Count \in Nat /\ Count % Width = 0
  BY CompleteType, CompleteAll, ResultAssumption DEF Count

LEMMA ValueOfType == \A f \in Int : ValueOf(f) \in Nat \ {0}
  BY CompleteType DEF ValueOf

\* A value's first and last fragment enclose each of its fragments.
LEMMA FirstFound ==
  ASSUME NEW f \in 1..Total
  PROVE  /\ FirstOf(ValueOf(f)) \in 1..f
         /\ ValueOf(FirstOf(ValueOf(f))) = ValueOf(f)
         /\ FirstOf(ValueOf(f)) = 1 \/ FirstOf(ValueOf(f)) - 1 \in ValueEnds
<1> DEFINE S == {g \in 1..f : ValueOf(g) = ValueOf(f)}
<1>1. S \in SUBSET Nat /\ f \in S
  BY ResultAssumption
<1>2. PICK g \in S : \A h \in S : g <= h
  BY <1>1, Smallest
<1>3. ASSUME g # 1
      PROVE  g - 1 \in ValueEnds
  <2>1. g - 1 \in 1..f /\ g - 1 \in Nat \ {0} /\ ValueOf(g) = ValueOf(f)
    BY <1>1, <1>2, <1>3, ResultAssumption
  <2>2. ValueOf(g - 1) # ValueOf(f)
    BY <1>2, <2>1
  <2>3. Complete(g - 1) # Complete((g - 1) - 1)
    BY <2>1, <2>2, CompleteType DEF ValueOf
  <2> QED
    BY <2>1, <2>3, CompleteStep
<1>4. g \in 1..Total /\ g \in 1..f /\ ValueOf(g) = ValueOf(f) /\ (g = 1 \/ g - 1 \in ValueEnds)
  BY <1>2, <1>3, ResultAssumption
<1>5. \E h \in 1..Total : ValueOf(h) = ValueOf(f) /\ (h = 1 \/ h - 1 \in ValueEnds)
  BY <1>4
<1>6. /\ FirstOf(ValueOf(f)) \in 1..Total
      /\ ValueOf(FirstOf(ValueOf(f))) = ValueOf(f)
      /\ FirstOf(ValueOf(f)) = 1 \/ FirstOf(ValueOf(f)) - 1 \in ValueEnds
  BY <1>5 DEF FirstOf
<1>7. FirstOf(ValueOf(f)) <= f
  <2> DEFINE h == FirstOf(ValueOf(f))
  <2> SUFFICES ASSUME f < h
               PROVE  FALSE
    BY <1>6, ResultAssumption
  <2> HIDE DEF h
  <2>1. h \in 1..Total /\ ValueOf(h) = ValueOf(f) /\ h - 1 \in ValueEnds /\ f - 1 < h - 1 /\ f - 1 \in Nat
    BY <1>6, ResultAssumption DEF h
  <2>2. Complete(f - 1) + 1 <= Complete(h - 1)
    BY <2>1, CompleteStrict
  <2> QED
    BY <2>1, <2>2, CompleteType DEF ValueOf
<1> QED
  BY <1>6, <1>7, ResultAssumption

LEMMA LastFound ==
  ASSUME NEW f \in 1..Total
  PROVE  /\ LastOf(ValueOf(f)) \in ValueEnds /\ LastOf(ValueOf(f)) \in f..Total
         /\ Complete(LastOf(ValueOf(f))) = ValueOf(f)
<1> DEFINE S == {e \in ValueEnds : f <= e}
<1>0. f \in Nat \ {0} /\ f <= Total /\ f - 1 \in Nat
  BY EndsInside
<1>1. S \in SUBSET Nat /\ Total \in S
  <2>1. \A e \in S : e \in Nat
    BY EndsInside
  <2>2. f <= Total
    BY EndsInside
  <2> QED
    BY EndsInside, <2>1, <2>2
<1>2. PICK e \in S : \A h \in S : e <= h
  BY <1>1, Smallest
<1>3. e \in Nat \ {0} /\ e \in ValueEnds /\ f <= e
  BY <1>1, <1>2, EndsInside
<1>4. ValueEnds \cap 1..(e - 1) = ValueEnds \cap 1..(f - 1)
  BY <1>2, <1>3, EndsInside
<1>5. Complete(e) = ValueOf(f)
  BY <1>3, <1>4, CompleteStep DEF ValueOf, Complete
<1>6. LastOf(ValueOf(f)) \in ValueEnds /\ Complete(LastOf(ValueOf(f))) = ValueOf(f)
  BY <1>3, <1>5 DEF LastOf
<1> DEFINE h == LastOf(ValueOf(f))
<1> HIDE DEF h
<1>7. h \in Nat /\ h <= Total /\ Complete(h) = ValueOf(f)
  <2>1. h \in ValueEnds /\ Complete(h) = ValueOf(f)
    BY <1>6 DEF h
  <2> QED
    BY <2>1, EndsInside
<1>8. f <= h
  <2> SUFFICES ASSUME h <= f - 1
               PROVE  FALSE
    BY <1>0, <1>7
  <2>1. h \in Nat /\ f - 1 \in Nat /\ Complete(h) = ValueOf(f)
    BY <1>0, <1>7
  <2>2. Complete(h) <= Complete(f - 1)
    BY <2>1, CompleteGrows
  <2> QED
    BY <2>1, <2>2, CompleteType DEF ValueOf
<1> QED
  BY <1>0, <1>6, <1>7, <1>8, EndsInside DEF h

\* Every value has a fragment.
LEMMA ValueFound ==
  ASSUME NEW v \in 1..Count
  PROVE  \E f \in 1..Total : ValueOf(f) = v
<1> DEFINE S == {f \in 0..Total : v <= Complete(f)}
<1>1. S \in SUBSET Nat /\ Total \in S
  BY CompleteAll, EndsInside DEF Count
<1>2. PICK f \in S : \A h \in S : f <= h
  BY <1>1, Smallest
<1>3. f # 0
  BY <1>2, CompleteNone, CountType
<1>4. f \in Nat \ {0} /\ f \in 1..Total /\ v <= Complete(f) /\ ~ (v <= Complete(f - 1))
  BY <1>2, <1>3, EndsInside
<1>5. Complete(f - 1) + 1 = v
  BY <1>4, CompleteStep, CompleteType, CountType
<1> QED
  BY <1>4, <1>5 DEF ValueOf

\* A value begins after the end of the one before.
LEMMA FirstAfterEnd ==
  ASSUME NEW p \in 0..Total - 1, p = 0 \/ p \in ValueEnds
  PROVE  FirstOf(ValueOf(p + 1)) = p + 1
<1> DEFINE g == FirstOf(ValueOf(p + 1))
<1>1. p + 1 \in 1..Total /\ p \in Nat
  BY EndsInside
<1>2. g \in 1..p + 1 /\ ValueOf(g) = ValueOf(p + 1)
  BY <1>1, FirstFound
<1> HIDE DEF g
<1>3. ASSUME g <= p
      PROVE  FALSE
  <2>1. p \in ValueEnds /\ g - 1 \in Nat /\ g - 1 < p
    BY <1>1, <1>2, <1>3
  <2>2. Complete(g - 1) + 1 <= Complete(p)
    BY <2>1, CompleteStrict
  <2> QED
    BY <1>1, <1>2, <2>1, <2>2, CompleteType DEF ValueOf
<1> QED
  BY <1>1, <1>2, <1>3 DEF g

\* A value that goes on after p has begun.
LEMMA GoesOn ==
  ASSUME NEW p \in 1..Total, p \notin ValueEnds
  PROVE  ValueOf(p + 1) = ValueOf(p) /\ p + 1 \in 1..Total /\ LastOf(ValueOf(p)) > p
<1>1. p \in Nat \ {0} /\ p # Total /\ p <= Total
  BY EndsInside
<1>2. LastOf(ValueOf(p)) \in p..Total /\ LastOf(ValueOf(p)) # p
  BY LastFound
<1>3. LastOf(ValueOf(p)) > p /\ p + 1 \in 1..Total
  BY <1>1, <1>2, EndsInside
<1>4. Complete(p) = Complete(p - 1) /\ (p + 1) - 1 = p
  BY <1>1, CompleteStep
<1>5. ValueOf(p + 1) = ValueOf(p)
  BY <1>4 DEF ValueOf
<1> QED
  BY <1>3, <1>5

\* A fragment that ends a value is its last.
LEMMA LastAtEnd ==
  ASSUME NEW e \in ValueEnds
  PROVE  ValueOf(e) = Complete(e) /\ LastOf(ValueOf(e)) = e
<1>1. e \in Nat \ {0} /\ e \in 1..Total /\ ValueOf(e) = Complete(e)
  BY EndsInside, CompleteStep DEF ValueOf
<1> DEFINE g == LastOf(ValueOf(e))
<1>2. g \in ValueEnds /\ g \in e..Total /\ Complete(g) = ValueOf(e)
  BY <1>1, LastFound
<1> HIDE DEF g
<1>3. ASSUME e < g
      PROVE  FALSE
  <2>1. Complete(e) + 1 <= Complete(g)
    BY <1>1, <1>2, <1>3, CompleteStrict
  <2> QED
    BY <1>1, <1>2, <2>1, CompleteType
<1> QED
  BY <1>1, <1>2, <1>3 DEF g

\* Which values the fragments a..b carry, and which of them whole.
LEMMA ValuesBetween ==
  ASSUME NEW a \in 1..Total, NEW b \in 1..Total, a <= b
  PROVE  /\ ValueOf(a) <= ValueOf(b) /\ ValueOf(b) <= Count
         /\ \A v \in ValueOf(a)..ValueOf(b) : v = ValueOf(a) \/ FirstOf(v) >= a
         /\ \A v \in ValueOf(a)..ValueOf(b) : v = ValueOf(b) \/ LastOf(v) <= b
         /\ \A v \in ValueOf(a)..ValueOf(b) :
              FirstOf(v) \in 1..b /\ LastOf(v) \in a..Total /\ FirstOf(v) <= LastOf(v)
<1>1. a \in Nat \ {0} /\ b \in Nat \ {0} /\ a - 1 \in Nat /\ b - 1 \in Nat
  BY EndsInside
<1>2. \A f, g \in 1..Total : f <= g => ValueOf(f) <= ValueOf(g)
  <2> SUFFICES ASSUME NEW f \in 1..Total, NEW g \in 1..Total, f <= g
               PROVE  ValueOf(f) <= ValueOf(g)
    OBVIOUS
  <2>1. f - 1 \in Nat /\ g - 1 \in Nat /\ f - 1 <= g - 1
    BY EndsInside
  <2>2. Complete(f - 1) <= Complete(g - 1)
    BY <2>1, CompleteGrows
  <2> QED
    BY <2>1, <2>2, CompleteType DEF ValueOf
<1>3. ValueOf(b) <= Count
  <2>1. Total \in ValueEnds /\ Total \in 1..Total
    BY EndsInside
  <2>2. ValueOf(Total) = Count
    BY <2>1, LastAtEnd, CompleteAll DEF Count
  <2>3. b <= Total
    BY EndsInside
  <2> QED
    BY <1>2, <2>1, <2>2, <2>3
<1>4. ASSUME NEW v \in ValueOf(a)..ValueOf(b)
      PROVE  /\ v = ValueOf(a) \/ FirstOf(v) >= a
             /\ v = ValueOf(b) \/ LastOf(v) <= b
             /\ FirstOf(v) \in 1..b /\ LastOf(v) \in a..Total /\ FirstOf(v) <= LastOf(v)
  <2>1. ValueOf(a) \in Nat \ {0} /\ ValueOf(b) \in Nat \ {0}
    BY <1>1, ValueOfType
  <2>2. v \in 1..Count
    BY <2>1, <1>3, CountType
  <2>3. PICK f \in 1..Total : ValueOf(f) = v
    BY <2>2, ValueFound
  <2> DEFINE g == FirstOf(v)
             h == LastOf(v)
  <2>4. g \in 1..f /\ ValueOf(g) = v /\ (v = ValueOf(b) => g <= b)
    BY <2>3, FirstFound
  <2>5. h \in ValueEnds /\ h \in f..Total /\ Complete(h) = v /\ (v = ValueOf(a) => h >= a)
    BY <2>3, LastFound
  <2> HIDE DEF g, h
  <2>6. ValueOf(h) = v /\ h \in 1..Total /\ g \in 1..Total
    BY <2>4, <2>5, LastAtEnd, EndsInside
  <2>7. ASSUME v # ValueOf(a)
        PROVE  g >= a
    BY <1>1, <1>2, <2>1, <2>2, <2>4, <2>6, <2>7
  <2>8. ASSUME v # ValueOf(b)
        PROVE  h <= b
    BY <1>1, <1>2, <2>1, <2>2, <2>6, <2>8
  <2>9. g <= h /\ g >= 1 /\ h <= Total
    BY <2>4, <2>5, EndsInside
  <2>10. g <= b /\ h >= a
    BY <1>1, <2>4, <2>5, <2>6, <2>7, <2>8, <2>9
  <2> QED
    BY <1>1, <2>6, <2>7, <2>8, <2>9, <2>10 DEF g, h
<1> QED
  BY <1>1, <1>2, <1>3, <1>4

---------------------------------------------------------------------------
(* What is known of a value                                                *)

\* What the fragments up to b tell of value v, and all there is to it.
Known(v, b) == Fragments(FirstOf(v), IF LastOf(v) > b THEN b ELSE LastOf(v))
Whole(v)    == Fragments(FirstOf(v), LastOf(v))

LEMMA FragmentsType ==
  ASSUME NEW a \in Nat, NEW b \in Nat, a <= b + 1
  PROVE  /\ Fragments(a, b) \in Seq(a..b) /\ Len(Fragments(a, b)) = b - a + 1
         /\ \A j \in 1..b - a + 1 : Fragments(a, b)[j] = a + j - 1
  BY DEF Fragments

LEMMA FragmentsJoin ==
  ASSUME NEW a \in Nat, NEW b \in Nat, NEW c \in Nat, a <= b, b <= c + 1, b > 0
  PROVE  Fragments(a, b - 1) \o Fragments(b, c) = Fragments(a, c)
<1> DEFINE s == Fragments(a, b - 1)
           t == Fragments(b, c)
           u == Fragments(a, c)
<1>1. /\ s \in Seq(Nat) /\ Len(s) = b - a /\ \A j \in 1..b - a : s[j] = a + j - 1
      /\ t \in Seq(Nat) /\ Len(t) = c - b + 1 /\ \A j \in 1..c - b + 1 : t[j] = b + j - 1
      /\ u \in Seq(Nat) /\ Len(u) = c - a + 1 /\ \A j \in 1..c - a + 1 : u[j] = a + j - 1
  BY DEF Fragments
<1> HIDE DEF s, t, u
<1> DEFINE w == s \o t
<1>2. /\ w \in Seq(Nat) /\ Len(w) = Len(s) + Len(t)
      /\ \A j \in 1..Len(s) + Len(t) : w[j] = IF j <= Len(s) THEN s[j] ELSE t[j - Len(s)]
  BY <1>1, ConcatProperties
<1> HIDE DEF w
<1>3. \A j \in 1..c - a + 1 : w[j] = u[j]
  <2> SUFFICES ASSUME NEW j \in 1..c - a + 1
               PROVE  w[j] = u[j]
    OBVIOUS
  <2>1. CASE j <= b - a
    BY <1>1, <1>2, <2>1
  <2>2. CASE j > b - a
    <3>1. j - (b - a) \in 1..c - b + 1 /\ w[j] = t[j - (b - a)]
      BY <1>1, <1>2, <2>2
    <3>2. t[j - (b - a)] = b + (j - (b - a)) - 1
      BY <1>1, <3>1
    <3> QED
      BY <1>1, <3>1, <3>2
  <2> QED
    BY <2>1, <2>2
<1>4. Len(w) = Len(u)
  BY <1>1, <1>2
<1>5. w = u
  BY <1>1, <1>2, <1>3, <1>4, SeqEqual
<1> QED
  BY <1>5 DEF s, t, u, w

LEMMA HalfNone == \A p \in 0..Total : Half(p) = <<>> <=> p = 0 \/ p \in ValueEnds
<1> SUFFICES ASSUME NEW p \in 0..Total, p # 0, p \notin ValueEnds
             PROVE  Half(p) # <<>>
  BY DEF Half
<1> DEFINE g == FirstOf(ValueOf(p))
<1>1. p \in 1..Total /\ g \in 1..p
  BY EndsInside, FirstFound
<1>2. Half(p) = Fragments(g, p)
  BY <1>1 DEF Half
<1> HIDE DEF g
<1>3. Len(Fragments(g, p)) = p - g + 1 /\ p - g + 1 > 0
  BY <1>1, FragmentsType
<1> QED
  BY <1>2, <1>3

\* The first value of a chunk goes on where the fragments before it ended,
\* the others begin in it.
LEMMA Carried ==
  ASSUME NEW a \in 1..Total, NEW b \in a..Total
  PROVE  /\ Half(a - 1) = <<>> => Part(a, b, ValueOf(a)) = Known(ValueOf(a), b)
         /\ Half(a - 1) # <<>> =>
              Half(a - 1) \o Part(a, b, ValueOf(a)) = Known(ValueOf(a), b)
         /\ \A v \in ValueOf(a) + 1..ValueOf(b) : Part(a, b, v) = Known(v, b)
<1>1. /\ a \in Nat \ {0} /\ b \in Nat \ {0} /\ a <= b /\ b <= Total /\ Total \in Nat
      /\ a \in 1..Total /\ b \in 1..Total /\ a - 1 \in 0..Total - 1 /\ a - 1 \in 0..Total
      /\ (a - 1) + 1 = a
  BY EndsInside
<1>2. ValueOf(a) \in Nat /\ ValueOf(b) \in Nat
  BY <1>1, ValueOfType
<1> DEFINE g == FirstOf(ValueOf(a))
           h == LastOf(ValueOf(a))
           e == IF h > b THEN b ELSE h
<1>3. g \in 1..a /\ h \in a..Total
  BY FirstFound, LastFound
<1> HIDE DEF g, h
<1>4. e \in Nat /\ a <= e + 1
  BY <1>1, <1>3
<1> HIDE DEF e
<1>5. Part(a, b, ValueOf(a)) = Fragments(a, e)
  <2>1. (IF g < a THEN a ELSE g) = a
    BY <1>1, <1>3
  <2> QED
    BY <2>1 DEF Part, g, h, e
<1>6. Known(ValueOf(a), b) = Fragments(g, e)
  BY DEF Known, g, h, e
<1>7. ASSUME Half(a - 1) = <<>>
      PROVE  g = a
  <2>1. a - 1 = 0 \/ a - 1 \in ValueEnds
    BY <1>1, <1>7, HalfNone
  <2> QED
    BY <1>1, <2>1, FirstAfterEnd DEF g
<1>8. ASSUME Half(a - 1) # <<>>
      PROVE  Half(a - 1) \o Fragments(a, e) = Fragments(g, e)
  <2>1. a - 1 # 0 /\ a - 1 \notin ValueEnds /\ a - 1 \in 1..Total
    BY <1>1, <1>8, HalfNone
  <2>2. ValueOf(a - 1) = ValueOf(a)
    BY <1>1, <2>1, GoesOn
  <2>3. Half(a - 1) = Fragments(g, a - 1)
    BY <2>1, <2>2 DEF Half, g
  <2>4. g \in Nat /\ g <= a /\ a > 0
    BY <1>1, <1>3
  <2>5. Fragments(g, a - 1) \o Fragments(a, e) = Fragments(g, e)
    BY <1>1, <1>4, <2>4, FragmentsJoin
  <2> QED
    BY <2>3, <2>5
<1>9. ASSUME NEW v \in ValueOf(a) + 1..ValueOf(b)
      PROVE  Part(a, b, v) = Known(v, b)
  <2>1. v \in ValueOf(a)..ValueOf(b) /\ v # ValueOf(a)
    BY <1>2
  <2>2. FirstOf(v) >= a /\ FirstOf(v) \in 1..b
    BY <1>1, <2>1, ValuesBetween
  <2>3. (IF FirstOf(v) < a THEN a ELSE FirstOf(v)) = FirstOf(v)
    BY <1>1, <2>2
  <2> QED
    BY <2>3 DEF Part, Known
<1> QED
  BY <1>5, <1>6, <1>7, <1>8, <1>9

\* What is known of a value after fragment b: all of it if it ends there.
LEMMA KnownAfter ==
  ASSUME NEW a \in 1..Total, NEW b \in a..Total
  PROVE  /\ \A v \in ValueOf(a)..ValueOf(b) : Known(v, b) \in Seq(1..Total)
         /\ \A v \in ValueOf(a)..ValueOf(b) : v <= Complete(b) => Known(v, b) = Whole(v)
         /\ b \notin ValueEnds => Known(ValueOf(b), b) = Half(b)
         /\ ValueOf(b) = IF b \in ValueEnds THEN Complete(b) ELSE Complete(b) + 1
<1>1. /\ a \in Nat \ {0} /\ b \in Nat \ {0} /\ a <= b /\ b <= Total /\ Total \in Nat
      /\ a \in 1..Total /\ b \in 1..Total
  BY EndsInside
<1>2. ValueOf(b) = IF b \in ValueEnds THEN Complete(b) ELSE Complete(b) + 1
  BY <1>1, CompleteStep DEF ValueOf
<1>3. ASSUME NEW v \in ValueOf(a)..ValueOf(b)
      PROVE  Known(v, b) \in Seq(1..Total)
  <2> DEFINE g == FirstOf(v)
             h == LastOf(v)
             e == IF h > b THEN b ELSE h
  <2>1. g \in 1..b /\ h \in a..Total /\ g <= h
    BY <1>1, ValuesBetween
  <2> HIDE DEF g, h
  <2>2. g \in Nat /\ e \in Nat /\ 1 <= g /\ g <= e + 1 /\ e <= Total
    BY <1>1, <2>1
  <2> HIDE DEF e
  <2>3. Fragments(g, e) \in Seq(g..e)
    BY <2>2, FragmentsType
  <2>4. g..e \subseteq 1..Total
    BY <1>1, <2>2
  <2>5. Fragments(g, e) \in Seq(1..Total)
    BY <2>3, <2>4, SeqMonotonic
  <2> QED
    BY <2>5 DEF Known, g, h, e
<1>4. ASSUME NEW v \in ValueOf(a)..ValueOf(b), v <= Complete(b)
      PROVE  Known(v, b) = Whole(v)
  <2>1. LastOf(v) \in a..Total /\ (v = ValueOf(b) \/ LastOf(v) <= b)
    BY <1>1, ValuesBetween
  <2>2. ASSUME v = ValueOf(b)
        PROVE  LastOf(v) = b
    <3>1. b \in ValueEnds
      BY <1>1, <1>2, <1>4, <2>2, CompleteType
    <3> QED
      BY <2>2, <3>1, LastAtEnd
  <2>3. ~ (LastOf(v) > b)
    BY <1>1, <2>1, <2>2
  <2> QED
    BY <2>3 DEF Known, Whole
<1>5. ASSUME b \notin ValueEnds
      PROVE  Known(ValueOf(b), b) = Half(b)
  <2>1. LastOf(ValueOf(b)) > b
    BY <1>1, <1>5, GoesOn
  <2> QED
    BY <1>1, <1>5, <2>1 DEF Known, Half
<1> QED
  BY <1>2, <1>3, <1>4, <1>5

LEMMA HalfType == \A p \in 0..Total : Half(p) \in Seq(1..Total)
<1> SUFFICES ASSUME NEW p \in 0..Total
             PROVE  Half(p) \in Seq(1..Total)
  OBVIOUS
<1>1. CASE p = 0 \/ p \in ValueEnds
  BY <1>1, HalfNone, EmptySeq
<1>2. CASE p # 0 /\ p \notin ValueEnds
  <2>1. p \in 1..Total /\ p \in p..Total /\ ValueOf(p) \in ValueOf(p)..ValueOf(p)
    BY <1>2, EndsInside, ValueOfType
  <2> QED
    BY <1>2, <2>1, KnownAfter
<1> QED
  BY <1>1, <1>2

\* The values of a chunk, the first joined with the pending one, are all that
\* is known of them after the chunk.
LEMMA Merged ==
  ASSUME NEW d \in 0..Total - 1, NEW b \in d + 1..Total,
         NEW c, c.from = d + 1, c.to = b, pendingValue = Half(d)
  PROVE  /\ MergedValues(c) \in Seq(Seq(1..Total))
         /\ Len(MergedValues(c)) = ValueOf(b) - Complete(d)
         /\ Len(MergedValues(c)) > 0
         /\ \A i \in 1..ValueOf(b) - Complete(d) :
              MergedValues(c)[i] = Known(Complete(d) + i, b)
<1> DEFINE a  == d + 1
           n  == ValueOf(b) - Complete(d)
           vs == Pieces(a, b)
           ks == [i \in 1..n |-> Known(Complete(d) + i, b)]
<1>1. /\ a \in 1..Total /\ b \in a..Total /\ b \in 1..Total /\ a <= b /\ a - 1 = d
      /\ d \in 0..Total
  BY EndsInside
<1>2. Complete(d) \in Nat /\ ValueOf(b) \in Nat /\ ValueOf(a) = Complete(d) + 1
  BY <1>1, CompleteType, ValueOfType, EndsInside DEF ValueOf
<1>3. n \in Nat /\ n > 0
  BY <1>1, <1>2, ValuesBetween
<1>4. \A i \in 1..n : Known(Complete(d) + i, b) \in Seq(1..Total)
  <2> SUFFICES ASSUME NEW i \in 1..n
               PROVE  Known(Complete(d) + i, b) \in Seq(1..Total)
    OBVIOUS
  <2>1. Complete(d) + i \in ValueOf(a)..ValueOf(b)
    BY <1>2, <1>3
  <2> QED
    BY <1>1, <2>1, KnownAfter
<1>5. /\ ks \in Seq(Seq(1..Total)) /\ Len(ks) = n
      /\ \A i \in 1..n : ks[i] = Known(Complete(d) + i, b)
  BY <1>3, <1>4
<1>6. /\ Half(d) = <<>> => Part(a, b, ValueOf(a)) = Known(ValueOf(a), b)
      /\ Half(d) # <<>> => Half(d) \o Part(a, b, ValueOf(a)) = Known(ValueOf(a), b)
      /\ \A v \in ValueOf(a) + 1..ValueOf(b) : Part(a, b, v) = Known(v, b)
  BY <1>1, Carried
<1>7. vs = [i \in 1..n |-> Part(a, b, Complete(d) + i)]
  <2>1. ValueOf(b) - ValueOf(a) + 1 = n /\ \A i \in 1..n : ValueOf(a) + i - 1 = Complete(d) + i
    BY <1>2, <1>3
  <2> QED
    BY <2>1 DEF Pieces
<1>8. ASSUME Half(d) = <<>>
      PROVE  MergedValues(c) = ks
  <2>1. \A i \in 1..n : Part(a, b, Complete(d) + i) = Known(Complete(d) + i, b)
    <3> SUFFICES ASSUME NEW i \in 1..n
                 PROVE  Part(a, b, Complete(d) + i) = Known(Complete(d) + i, b)
      OBVIOUS
    <3>1. Complete(d) + i = ValueOf(a) \/ Complete(d) + i \in ValueOf(a) + 1..ValueOf(b)
      BY <1>2, <1>3
    <3> QED
      BY <1>6, <1>8, <3>1
  <2>2. vs = ks
    BY <1>7, <2>1
  <2> QED
    BY <1>8, <2>2 DEF MergedValues
<1>9. ASSUME Half(d) # <<>>
      PROVE  MergedValues(c) = ks
  <2> DEFINE S == Seq(1..Total) \cup {Part(a, b, Complete(d) + i) : i \in 1..n}
             k == Known(Complete(d) + 1, b)
             w == <<k>> \o Tail(vs)
  <2>1. vs \in Seq(S) /\ Len(vs) = n /\ \A i \in 1..n : vs[i] = Part(a, b, Complete(d) + i)
    BY <1>3, <1>7
  <2>2. MergedValues(c) = <<Half(d) \o Head(vs)>> \o Tail(vs)
    BY <1>9 DEF MergedValues
  <2>3. ks \in Seq(S)
    BY <1>5, SeqMonotonic
  <2>4. k \in S /\ ks[1] = k
    BY <1>3, <1>4, <1>5
  <2>5. Head(vs) = Part(a, b, ValueOf(a))
    BY <1>2, <1>3, <2>1
  <2>6. Half(d) \o Head(vs) = k
    BY <1>2, <1>6, <1>9, <2>5
  <2> HIDE DEF vs, ks, S, k
  <2>7. /\ Tail(vs) \in Seq(S) /\ Len(Tail(vs)) = n - 1
        /\ \A i \in 1..n - 1 : Tail(vs)[i] = vs[i + 1]
    BY <1>3, <2>1, HeadTailProperties
  <2>8. /\ <<k>> \in Seq(S) /\ Len(<<k>>) = 1 /\ <<k>>[1] = k
    BY <2>4
  <2>9. /\ w \in Seq(S) /\ Len(w) = n
        /\ \A i \in 1..n : w[i] = IF i <= 1 THEN <<k>>[i] ELSE Tail(vs)[i - 1]
    BY <1>3, <2>7, <2>8, ConcatProperties
  <2> HIDE DEF w
  <2>10. \A i \in 1..n : w[i] = ks[i]
    <3> SUFFICES ASSUME NEW i \in 1..n
                 PROVE  w[i] = ks[i]
      OBVIOUS
    <3>1. CASE i = 1
      BY <1>3, <2>4, <2>8, <2>9, <3>1
    <3>2. CASE i # 1
      <4>1. i - 1 \in 1..n - 1 /\ (i - 1) + 1 = i /\ ~ (i <= 1)
        BY <1>3, <3>2
      <4>2. w[i] = vs[i]
        BY <2>7, <2>9, <4>1
      <4>3. Complete(d) + i \in ValueOf(a) + 1..ValueOf(b)
        BY <1>2, <1>3, <3>2
      <4> QED
        BY <1>5, <1>6, <2>1, <4>2, <4>3
    <3> QED
      BY <3>1, <3>2
  <2>11. w = ks
    BY <1>5, <2>3, <2>9, <2>10, SeqEqual
  <2> QED
    BY <2>2, <2>6, <2>11 DEF w
<1>10. MergedValues(c) = ks
  BY <1>8, <1>9
<1> QED
  BY <1>3, <1>5, <1>10

---------------------------------------------------------------------------
(* Rows                                                                    *)

Row(r)      == [j \in 1..Width |-> Whole((r - 1) * Width + j)]
Wholes(k, n) == [i \in 1..n |-> Whole(k * Width + i)]

\* The values of the result, whole.
LEMMA AllValues ==
  /\ Pieces(1, Total) = [v \in 1..Count |-> Whole(v)]
  /\ \A v \in 1..Count : Whole(v) \in Seq(1..Total)
<1>1. 1 \in 1..Total /\ Total \in 1..Total /\ Total \in ValueEnds /\ Count \in Nat
  BY EndsInside, CountType
<1>2. ValueOf(1) = 1 /\ ValueOf(Total) = Count /\ Complete(Total) = Count
  BY <1>1, CompleteNone, LastAtEnd, CompleteAll DEF ValueOf, Count
<1>3. ASSUME NEW v \in 1..Count
      PROVE  Part(1, Total, v) = Whole(v) /\ Whole(v) \in Seq(1..Total)
  <2>1. v \in ValueOf(1)..ValueOf(Total) /\ v <= Complete(Total)
    BY <1>1, <1>2
  <2>2. FirstOf(v) \in 1..Total /\ LastOf(v) \in 1..Total
    BY <1>1, <2>1, ValuesBetween, EndsInside
  <2>3. ~ (FirstOf(v) < 1) /\ ~ (LastOf(v) > Total)
    BY <2>2, EndsInside
  <2>4. Known(v, Total) \in Seq(1..Total) /\ Known(v, Total) = Whole(v)
    BY <1>1, <2>1, KnownAfter
  <2> QED
    BY <2>3, <2>4 DEF Part, Whole
<1>4. ValueOf(Total) - ValueOf(1) + 1 = Count /\ \A i \in 1..Count : ValueOf(1) + i - 1 = i
  BY <1>1, <1>2
<1>5. Pieces(1, Total) = [v \in 1..Count |-> Whole(v)]
  BY <1>3, <1>4 DEF Pieces
<1> QED
  BY <1>3, <1>5

LEMMA WholesType ==
  ASSUME NEW k \in Nat, NEW n \in Nat, k * Width + n <= Count
  PROVE  /\ Wholes(k, n) \in Seq(Seq(1..Total)) /\ Len(Wholes(k, n)) = n
         /\ \A i \in 1..n : Wholes(k, n)[i] = Whole(k * Width + i)
<1>1. \A i \in 1..n : Whole(k * Width + i) \in Seq(1..Total)
  <2> SUFFICES ASSUME NEW i \in 1..n
               PROVE  Whole(k * Width + i) \in Seq(1..Total)
    OBVIOUS
  <2>1. k * Width \in Nat
    BY EndsInside
  <2>2. k * Width + i \in 1..Count
    BY <2>1, CountType
  <2> QED
    BY <2>2, AllValues
<1> QED
  BY <1>1 DEF Wholes

\* Whole values that follow k rows are cut into the rows that come next.
LEMMA CutWholes ==
  ASSUME NEW k \in Nat, NEW n \in Nat, k * Width + n <= Count
  PROVE  /\ Cut(Wholes(k, n)) \in Seq(Seq(Seq(1..Total)))
         /\ Len(Cut(Wholes(k, n))) = n \div Width
         /\ \A r \in 1..n \div Width : Cut(Wholes(k, n))[r] = Row(k + r)
<1> DEFINE ws == Wholes(k, n)
           m  == n \div Width
<1>1. Width \in Nat \ {0} /\ Count \in Nat /\ k * Width \in Nat
  BY EndsInside, CountType
<1>2. ws \in Seq(Seq(1..Total)) /\ Len(ws) = n /\ \A i \in 1..n : ws[i] = Whole(k * Width + i)
  BY WholesType
<1>3. m \in Nat /\ m * Width \in Nat /\ m * Width <= n
  BY <1>1, RowBounds
<1> HIDE DEF ws, m
<1>4. ASSUME NEW r \in 1..m
      PROVE  /\ SubSeq(ws, (r - 1) * Width + 1, r * Width) \in Seq(Seq(1..Total))
             /\ SubSeq(ws, (r - 1) * Width + 1, r * Width) = Row(k + r)
  <2> DEFINE x == (r - 1) * Width
             q == SubSeq(ws, x + 1, r * Width)
  <2>1. r \in Nat /\ r - 1 \in Nat /\ r <= m /\ (r - 1) + 1 = r /\ (k + r) - 1 = k + (r - 1)
    BY <1>3
  <2>2. x \in Nat /\ r * Width = x + Width
    BY <1>1, <2>1, MulStep
  <2>3. r * Width <= m * Width
    BY <1>1, <1>3, <2>1, MulMono
  <2>4. (k + (r - 1)) * Width = k * Width + x
    BY <1>1, <2>1, MulSum
  <2> HIDE DEF x
  <2>5. x + Width <= n
    BY <1>1, <1>3, <2>2, <2>3
  <2>6. \A i \in x + 1..x + Width : ws[i] \in Seq(1..Total)
    BY <1>1, <1>2, <2>2, <2>5, ElementOfSeq
  <2>7. /\ q \in Seq(Seq(1..Total)) /\ Len(q) = Width
        /\ \A j \in 1..Width : q[j] = ws[x + j]
    <3> DEFINE y == x + Width
    <3>1. q = SubSeq(ws, x + 1, y)
      BY <2>2
    <3>2. x + 1 \in Int /\ y \in Int /\ y - (x + 1) + 1 = Width /\ x + 1 <= y
      BY <1>1, <2>2
    <3>3. /\ SubSeq(ws, x + 1, y) \in Seq(Seq(1..Total))
          /\ Len(SubSeq(ws, x + 1, y)) = Width
          /\ \A j \in 1..Width : SubSeq(ws, x + 1, y)[j] = ws[(x + 1) + j - 1]
      BY <2>6, <3>2, SubSeqProperties
    <3>4. \A j \in 1..Width : (x + 1) + j - 1 = x + j
      BY <1>1, <2>2
    <3> QED
      BY <3>1, <3>3, <3>4
  <2> HIDE DEF q
  <2>8. \A j \in 1..Width : q[j] = Whole(((k + r) - 1) * Width + j)
    <3> SUFFICES ASSUME NEW j \in 1..Width
                 PROVE  q[j] = Whole(((k + r) - 1) * Width + j)
      OBVIOUS
    <3>1. x + j \in 1..n
      BY <1>1, <2>2, <2>5
    <3>2. q[j] = Whole(k * Width + (x + j))
      BY <1>2, <2>7, <3>1
    <3>3. k * Width + (x + j) = ((k + r) - 1) * Width + j
      BY <1>1, <2>1, <2>2, <2>4
    <3> QED
      BY <3>2, <3>3
  <2>9. Row(k + r) \in Seq(Seq(1..Total)) /\ Len(Row(k + r)) = Width
    <3>1. \A j \in 1..Width : q[j] \in Seq(1..Total)
      BY <2>7, ElementOfSeq
    <3>2. \A j \in 1..Width : Whole(((k + r) - 1) * Width + j) \in Seq(1..Total)
      BY <2>8, <3>1
    <3> QED
      BY <1>1, <3>2 DEF Row
  <2>10. \A j \in 1..Width : q[j] = Row(k + r)[j]
    BY <2>8 DEF Row
  <2>11. q = Row(k + r)
    BY <2>7, <2>9, <2>10, SeqEqual
  <2> QED
    BY <2>7, <2>11 DEF q, x
<1>5. Cut(ws) = [r \in 1..m |-> SubSeq(ws, (r - 1) * Width + 1, r * Width)]
  BY <1>2 DEF Cut, RowsIn, m
<1>6. Cut(ws) \in Seq(Seq(Seq(1..Total))) /\ Len(Cut(ws)) = m
  BY <1>3, <1>4, <1>5
<1>7. \A r \in 1..m : Cut(ws)[r] = Row(k + r)
  BY <1>4, <1>5
<1> QED
  BY <1>6, <1>7 DEF ws, m

LEMMA RowsFound ==
  /\ Rows \in Seq(Seq(Seq(1..Total))) /\ Len(Rows) \in Nat /\ Len(Rows) * Width = Count
  /\ \A r \in 1..Len(Rows) : Rows[r] = Row(r)
<1>1. Width \in Nat \ {0} /\ Count \in Nat /\ Count % Width = 0 /\ 0 * Width = 0
  BY EndsInside, CountType
<1>2. Wholes(0, Count) = [v \in 1..Count |-> Whole(v)]
  BY <1>1 DEF Wholes
<1>3. Rows = Cut(Wholes(0, Count))
  BY <1>2, AllValues DEF Rows
<1>4. 0 * Width + Count <= Count
  BY <1>1
<1>5. /\ Rows \in Seq(Seq(Seq(1..Total))) /\ Len(Rows) = Count \div Width
      /\ \A r \in 1..Count \div Width : Rows[r] = Row(0 + r)
  <2>1. /\ Cut(Wholes(0, Count)) \in Seq(Seq(Seq(1..Total)))
        /\ Len(Cut(Wholes(0, Count))) = Count \div Width
        /\ \A r \in 1..Count \div Width : Cut(Wholes(0, Count))[r] = Row(0 + r)
    BY <1>1, <1>4, CutWholes
  <2> QED
    BY <1>3, <2>1
<1>6. Count \div Width \in Nat /\ (Count \div Width) * Width = Count
  <2> DEFINE t == (Count \div Width) * Width
  <2>1. Count \div Width \in Nat /\ t <= Count /\ Count % Width = Count - t /\ t \in Nat
    BY <1>1, RowBounds
  <2> HIDE DEF t
  <2>2. t = Count
    BY <1>1, <2>1
  <2> QED
    BY <2>1, <2>2 DEF t
<1> QED
  BY <1>5, <1>6

\* Of n values that follow k rows, the rows are the next ones of the result,
\* and the rest are the values that follow those.
LEMMA RowsTaken ==
  ASSUME NEW k \in Nat, NEW n \in Nat, k * Width + n <= Count
  PROVE  LET m == RowsIn(Wholes(k, n))
         IN  /\ m \in Nat /\ k + m <= Len(Rows)
             /\ SubSeq(Rows, 1, k) \o Cut(Wholes(k, n)) = SubSeq(Rows, 1, k + m)
             /\ SubSeq(Wholes(k, n), m * Width + 1, Len(Wholes(k, n)))
                  = Wholes(k + m, n - m * Width)
             /\ n - m * Width \in Nat /\ n - m * Width < Width
             /\ (k + m) * Width + (n - m * Width) = k * Width + n
<1> DEFINE ws == Wholes(k, n)
           m  == RowsIn(ws)
           cs == Cut(ws)
           kw == k * Width
           mw == m * Width
           l  == n - mw
<1>1. Width \in Nat \ {0} /\ Count \in Nat /\ kw \in Nat
  BY EndsInside, CountType
<1>2. ws \in Seq(Seq(1..Total)) /\ Len(ws) = n /\ \A i \in 1..n : ws[i] = Whole(kw + i)
  BY WholesType
<1>3. m = n \div Width
  BY <1>2 DEF RowsIn
<1> HIDE DEF m
<1>4. m \in Nat /\ mw \in Nat /\ mw <= n /\ n < mw + Width
  BY <1>1, <1>3, RowBounds
<1>5. /\ cs \in Seq(Seq(Seq(1..Total))) /\ Len(cs) = m
      /\ \A r \in 1..m : cs[r] = Row(k + r)
  BY <1>3, CutWholes
<1>6. (k + m) * Width = kw + mw
  BY <1>1, <1>4, MulSum
<1>7. l \in Nat /\ l < Width /\ (k + m) * Width + l = kw + n
  BY <1>1, <1>4, <1>6
<1> HIDE DEF ws, cs, kw, mw, l
<1>8. k + m <= Len(Rows)
  <2> SUFFICES ASSUME Len(Rows) + 1 <= k + m
               PROVE  FALSE
    BY <1>4, RowsFound
  <2>1. (Len(Rows) + 1) * Width <= (k + m) * Width
    <3>1. Len(Rows) + 1 \in Nat /\ k + m \in Nat
      BY <1>4, RowsFound
    <3> QED
      BY <1>1, <3>1, MulMono
  <2>2. (Len(Rows) + 1) * Width = Count + Width
    BY <1>1, RowsFound, MulStep
  <2>3. kw + mw <= Count
    BY <1>1, <1>4 DEF kw
  <2> QED
    BY <1>1, <1>4, <1>6, <2>1, <2>2, <2>3
<1>9. SubSeq(Rows, 1, k) \o cs = SubSeq(Rows, 1, k + m)
  <2> DEFINE u == SubSeq(Rows, 1, k)
             w == u \o cs
             x == SubSeq(Rows, 1, k + m)
             S == Seq(Seq(1..Total))
  <2>1. /\ Rows \in Seq(S) /\ k + m \in Nat /\ Len(Rows) \in Nat
        /\ \A i \in 1..k + m : Rows[i] \in S /\ Rows[i] = Row(i)
    <3>1. \A i \in 1..k + m : i \in 1..Len(Rows)
      BY <1>4, <1>8, RowsFound
    <3> QED
      BY <1>4, <3>1, RowsFound, ElementOfSeq
  <2>2. u \in Seq(S) /\ Len(u) = k /\ \A i \in 1..k : u[i] = Rows[i]
    <3>1. \A i \in 1..k : i \in 1..k + m
      BY <1>4
    <3>2. /\ u \in Seq(S) /\ Len(u) = IF 1 <= k THEN k - 1 + 1 ELSE 0
          /\ \A i \in 1..k - 1 + 1 : u[i] = Rows[1 + i - 1]
      BY <2>1, <3>1, SubSeqProperties
    <3> QED
      BY <3>2
  <2>3. x \in Seq(S) /\ Len(x) = k + m /\ \A i \in 1..k + m : x[i] = Rows[i]
    <3>1. /\ x \in Seq(S) /\ Len(x) = IF 1 <= k + m THEN (k + m) - 1 + 1 ELSE 0
          /\ \A i \in 1..(k + m) - 1 + 1 : x[i] = Rows[1 + i - 1]
      BY <2>1, SubSeqProperties
    <3> QED
      BY <1>4, <3>1
  <2> HIDE DEF u, x, S
  <2>4. /\ w \in Seq(S) /\ Len(w) = k + m
        /\ \A i \in 1..k + m : w[i] = IF i <= k THEN u[i] ELSE cs[i - k]
    <3>1. cs \in Seq(S)
      BY <1>5 DEF S
    <3>2. /\ w \in Seq(S) /\ Len(w) = Len(u) + Len(cs)
          /\ \A i \in 1..Len(u) + Len(cs) :
               w[i] = IF i <= Len(u) THEN u[i] ELSE cs[i - Len(u)]
      BY <2>2, <3>1, ConcatProperties
    <3> HIDE DEF w
    <3> QED
      BY <1>5, <2>2, <3>2
  <2> HIDE DEF w
  <2>5. \A i \in 1..k + m : w[i] = x[i]
    <3> SUFFICES ASSUME NEW i \in 1..k + m
                 PROVE  w[i] = x[i]
      OBVIOUS
    <3>1. CASE i <= k
      BY <1>4, <2>2, <2>3, <2>4, <3>1
    <3>2. CASE ~ (i <= k)
      <4>1. i - k \in 1..m /\ k + (i - k) = i
        BY <1>4, <3>2
      <4>2. cs[i - k] = Row(i)
        BY <1>5, <4>1
      <4> QED
        BY <2>1, <2>3, <2>4, <3>2, <4>2
    <3> QED
      BY <3>1, <3>2
  <2>6. w = x
    BY <2>3, <2>4, <2>5, SeqEqual
  <2> QED
    BY <2>6 DEF w, u, x
<1>10. SubSeq(ws, mw + 1, n) = Wholes(k + m, l)
  <2> DEFINE q == SubSeq(ws, mw + 1, n)
             y == Wholes(k + m, l)
  <2>1. /\ y \in Seq(Seq(1..Total)) /\ Len(y) = l
        /\ \A i \in 1..l : y[i] = Whole((k + m) * Width + i)
    <3>1. (k + m) * Width + l <= Count /\ k + m \in Nat
      BY <1>4, <1>7 DEF kw
    <3> QED
      BY <1>7, <3>1, WholesType
  <2>2. \A i \in mw + 1..n : ws[i] \in Seq(1..Total)
    <3>1. \A i \in mw + 1..n : i \in 1..Len(ws)
      BY <1>2, <1>4
    <3> QED
      BY <1>2, <3>1, ElementOfSeq
  <2>3. q \in Seq(Seq(1..Total)) /\ Len(q) = l /\ \A i \in 1..l : q[i] = ws[mw + i]
    <3>1. mw + 1 \in Int /\ n \in Int /\ n - (mw + 1) + 1 = l
      BY <1>4 DEF l
    <3>2. /\ q \in Seq(Seq(1..Total)) /\ Len(q) = IF mw + 1 <= n THEN l ELSE 0
          /\ \A i \in 1..l : q[i] = ws[(mw + 1) + i - 1]
      BY <2>2, <3>1, SubSeqProperties
    <3>3. \A i \in 1..l : (mw + 1) + i - 1 = mw + i
      BY <1>4, <1>7
    <3>4. ~ (mw + 1 <= n) => l = 0
      BY <1>4, <1>7 DEF l
    <3> QED
      BY <3>2, <3>3, <3>4
  <2> HIDE DEF q, y
  <2>4. \A i \in 1..l : q[i] = y[i]
    <3> SUFFICES ASSUME NEW i \in 1..l
                 PROVE  q[i] = y[i]
      OBVIOUS
    <3>1. mw + i \in 1..n /\ kw + (mw + i) = (k + m) * Width + i
      BY <1>1, <1>4, <1>6, <1>7 DEF l
    <3>2. q[i] = Whole(kw + (mw + i))
      BY <1>2, <2>3, <3>1
    <3> QED
      BY <2>1, <3>1, <3>2
  <2>5. q = y
    BY <2>1, <2>3, <2>4, SeqEqual
  <2> QED
    BY <2>5 DEF q, y
<1> QED
  BY <1>2, <1>4, <1>7, <1>8, <1>9, <1>10 DEF ws, cs, kw, mw, l, m

---------------------------------------------------------------------------
(* Assembling rows                                                         *)

\* After fragment d: the rows pushed are the first of the result, the values
\* kept are the next ones, and the pending one is what d left unfinished.
Assembled(d) ==
  /\ Len(out) <= Len(Rows) /\ out = SubSeq(Rows, 1, Len(out))
  /\ Len(out) * Width + Len(values) = Complete(d)
  /\ values = Wholes(Len(out), Len(values))
  /\ pendingValue = Half(d)

ValuesType ==
  /\ pendingValue \in Seq(1..Total) /\ pendingForResume \in Seq(1..Total)
  /\ values \in Seq(Seq(1..Total)) /\ Len(values) < Width
  /\ out \in Seq(Seq(Seq(1..Total)))

\* The values a chunk completes, and the one it leaves pending.
LEMMA Completed ==
  ASSUME NEW d \in 0..Total - 1, NEW b \in d + 1..Total,
         NEW c, c.from = d + 1, c.to = b, pendingValue = Half(d)
  PROVE  LET vs == MergedValues(c)
             ts == IF b \notin ValueEnds THEN SubSeq(vs, 1, Len(vs) - 1) ELSE vs
         IN  /\ ts \in Seq(Seq(1..Total)) /\ Len(ts) = Complete(b) - Complete(d)
             /\ \A i \in 1..Complete(b) - Complete(d) : ts[i] = Whole(Complete(d) + i)
             /\ (IF b \notin ValueEnds THEN vs[Len(vs)] ELSE <<>>) = Half(b)
             /\ Complete(b) - Complete(d) \in Nat /\ Complete(b) <= Count
<1> DEFINE vs == MergedValues(c)
           ts == IF b \notin ValueEnds THEN SubSeq(vs, 1, Len(vs) - 1) ELSE vs
           t  == Complete(b) - Complete(d)
           a  == d + 1
<1>1. /\ a \in 1..Total /\ b \in a..Total /\ b \in 1..Total /\ a <= b /\ a \in Nat /\ b \in Nat
      /\ d \in Nat /\ d <= b /\ b <= Total /\ Total \in Nat /\ b # 0
  BY EndsInside
<1>2. /\ Complete(d) \in Nat /\ Complete(b) \in Nat /\ ValueOf(b) \in Nat
      /\ ValueOf(a) = Complete(d) + 1
  BY <1>1, CompleteType, ValueOfType DEF ValueOf
<1>3. /\ Complete(d) <= Complete(b) /\ Complete(b) <= Count
      /\ t \in Nat /\ ValueOf(a) <= ValueOf(b)
  BY <1>1, <1>2, CompleteGrows, CompleteAll, ValuesBetween DEF Count
<1>4. /\ vs \in Seq(Seq(1..Total)) /\ Len(vs) = ValueOf(b) - Complete(d) /\ Len(vs) > 0
      /\ \A i \in 1..ValueOf(b) - Complete(d) : vs[i] = Known(Complete(d) + i, b)
  BY Merged
<1>5. /\ \A v \in ValueOf(a)..ValueOf(b) : v <= Complete(b) => Known(v, b) = Whole(v)
      /\ b \notin ValueEnds => Known(ValueOf(b), b) = Half(b)
      /\ ValueOf(b) = IF b \in ValueEnds THEN Complete(b) ELSE Complete(b) + 1
  BY <1>1, KnownAfter
<1> HIDE DEF vs
<1>6. \A i \in 1..t : vs[i] = Whole(Complete(d) + i)
  <2> SUFFICES ASSUME NEW i \in 1..t
               PROVE  vs[i] = Whole(Complete(d) + i)
    OBVIOUS
  <2>1. i \in 1..ValueOf(b) - Complete(d) /\ Complete(d) + i \in ValueOf(a)..ValueOf(b)
    BY <1>2, <1>3, <1>5
  <2>2. Complete(d) + i <= Complete(b)
    BY <1>2, <1>3
  <2> QED
    BY <1>4, <1>5, <2>1, <2>2
<1>7. CASE b \in ValueEnds
  <2>1. ts = vs /\ Len(vs) = t /\ Half(b) = <<>>
    BY <1>1, <1>4, <1>5, <1>7, HalfNone
  <2> QED
    BY <1>3, <1>4, <1>6, <1>7, <2>1 DEF vs
<1>8. CASE b \notin ValueEnds
  <2>0. t + 1 = ValueOf(b) - Complete(d)
    BY <1>2, <1>5, <1>8
  <2>1. ts = SubSeq(vs, 1, t) /\ Len(vs) = t + 1
    BY <1>2, <1>3, <1>4, <1>8, <2>0
  <2>2. \A i \in 1..t : vs[i] \in Seq(1..Total)
    <3>1. \A i \in 1..t : i \in 1..Len(vs)
      BY <1>3, <2>1
    <3> QED
      BY <1>4, <3>1, ElementOfSeq
  <2>3. /\ SubSeq(vs, 1, t) \in Seq(Seq(1..Total))
        /\ Len(SubSeq(vs, 1, t)) = IF 1 <= t THEN t - 1 + 1 ELSE 0
        /\ \A i \in 1..t - 1 + 1 : SubSeq(vs, 1, t)[i] = vs[1 + i - 1]
    BY <1>3, <2>2, SubSeqProperties
  <2> HIDE DEF ts
  <2>4. ts \in Seq(Seq(1..Total)) /\ Len(ts) = t /\ \A i \in 1..t : ts[i] = vs[i]
    BY <1>3, <2>1, <2>3
  <2>5. vs[Len(vs)] = Half(b)
    <3>1. t + 1 \in 1..ValueOf(b) - Complete(d) /\ Complete(d) + (t + 1) = ValueOf(b)
      BY <1>2, <1>3, <2>0
    <3>2. vs[t + 1] = Known(Complete(d) + (t + 1), b)
      BY <1>4, <3>1
    <3> QED
      BY <1>5, <1>8, <2>1, <3>1, <3>2
  <2> QED
    BY <1>3, <1>6, <1>8, <2>4, <2>5 DEF ts, vs
<1> QED
  BY <1>7, <1>8

LEMMA AddChunkKeeps ==
  ASSUME ValuesType, NEW d \in 0..Total - 1, NEW b \in d + 1..Total, Assembled(d),
         NEW c, c.from = d + 1, c.to = b, AddChunk(c)
  PROVE  /\ ValuesType' /\ Assembled(b)' /\ Len(out) <= Len(out')
         /\ pendingForResume' = ForResume(c, Half(b))
<1> DEFINE vs   == MergedValues(c)
           ts   == IF b \notin ValueEnds THEN SubSeq(vs, 1, Len(vs) - 1) ELSE vs
           t    == Complete(b) - Complete(d)
           pend == IF b \notin ValueEnds THEN vs[Len(vs)] ELSE <<>>
           done == values \o ts
           k    == Len(out)
           l    == Len(values)
           n    == l + t
           m    == RowsIn(done)
           kw   == k * Width
           mw   == m * Width
           ws   == Wholes(k, n)
           T    == Seq(1..Total)
           R    == Seq(T)
<1>1. /\ ts \in Seq(T) /\ Len(ts) = t
      /\ \A i \in 1..t : ts[i] = Whole(Complete(d) + i)
      /\ pend = Half(b) /\ t \in Nat /\ Complete(b) <= Count
  BY Completed DEF Assembled
<1>2. /\ k \in Nat /\ l \in Nat /\ values \in Seq(T) /\ out \in Seq(R)
  BY DEF ValuesType
<1>3. /\ Complete(d) \in Nat /\ Complete(b) \in Nat /\ Complete(d) + t = Complete(b)
      /\ Width \in Nat \ {0} /\ kw \in Nat
  <2>1. d \in Int /\ b \in Int
    BY EndsInside
  <2>2. Complete(d) \in Nat /\ Complete(b) \in Nat
    BY <2>1, CompleteType
  <2>3. Width \in Nat \ {0}
    BY EndsInside
  <2> QED
    BY <1>2, <2>2, <2>3
<1>4. kw + l = Complete(d) /\ values = Wholes(k, l) /\ out = SubSeq(Rows, 1, k)
  BY DEF Assembled
<1>5. /\ pendingValue' = pend
      /\ pendingForResume' = ForResume(c, pend)
      /\ values' = SubSeq(done, mw + 1, Len(done))
      /\ out' = out \o Cut(done)
  BY DEF AddChunk, Push
<1>6. m = RowsIn(done) /\ kw = k * Width /\ mw = m * Width /\ n = l + t
  OBVIOUS
<1> HIDE DEF vs, ts, t, pend, k, l, n, m, kw, mw, ws, T, R
<1>7. n \in Nat /\ kw + n = Complete(b) /\ k * Width + n <= Count
  BY <1>1, <1>2, <1>3, <1>4, <1>6
<1>8. /\ ws \in Seq(T) /\ Len(ws) = n
      /\ \A i \in 1..n : ws[i] = Whole(kw + i)
  BY <1>2, <1>6, <1>7, WholesType DEF ws, T
<1>9. /\ done \in Seq(T) /\ Len(done) = l + t
      /\ \A i \in 1..l + t : done[i] = IF i <= l THEN values[i] ELSE ts[i - l]
  <2>1. /\ done \in Seq(T) /\ Len(done) = Len(values) + Len(ts)
        /\ \A i \in 1..Len(values) + Len(ts) :
             done[i] = IF i <= Len(values) THEN values[i] ELSE ts[i - Len(values)]
    BY <1>1, <1>2, ConcatProperties
  <2>2. l = Len(values) /\ Len(ts) = t
    BY <1>1 DEF l
  <2> HIDE DEF done
  <2> QED
    BY <2>1, <2>2
<1> HIDE DEF done
<1>10. done = ws
  <2>1. \A i \in 1..n : done[i] = ws[i]
    <3> SUFFICES ASSUME NEW i \in 1..n
                 PROVE  done[i] = ws[i]
      OBVIOUS
    <3>1. CASE i <= l
      <4>1. i \in 1..l
        BY <1>2, <1>7, <3>1
      <4>2. values[i] = Whole(kw + i)
        BY <1>4, <1>6, <4>1 DEF Wholes
      <4> QED
        BY <1>6, <1>8, <1>9, <3>1, <4>2
    <3>2. CASE ~ (i <= l)
      <4>1. i - l \in 1..t /\ Complete(d) + (i - l) = kw + i
        BY <1>1, <1>2, <1>3, <1>4, <1>6, <1>7, <3>2
      <4>2. done[i] = Whole(Complete(d) + (i - l))
        BY <1>1, <1>6, <1>9, <3>2, <4>1
      <4> QED
        BY <1>8, <4>1, <4>2
    <3> QED
      BY <3>1, <3>2
  <2> QED
    BY <1>6, <1>8, <1>9, <2>1, SeqEqual
<1>11. /\ m \in Nat /\ k + m <= Len(Rows)
       /\ SubSeq(Rows, 1, k) \o Cut(ws) = SubSeq(Rows, 1, k + m)
       /\ SubSeq(ws, mw + 1, Len(ws)) = Wholes(k + m, n - mw)
       /\ n - mw \in Nat /\ n - mw < Width
       /\ (k + m) * Width + (n - mw) = kw + n
  <2>1. m = RowsIn(Wholes(k, n))
    BY <1>6, <1>10 DEF ws
  <2>2. /\ m \in Nat /\ k + m <= Len(Rows)
        /\ SubSeq(Rows, 1, k) \o Cut(Wholes(k, n)) = SubSeq(Rows, 1, k + m)
        /\ SubSeq(Wholes(k, n), m * Width + 1, Len(Wholes(k, n)))
             = Wholes(k + m, n - m * Width)
        /\ n - m * Width \in Nat /\ n - m * Width < Width
        /\ (k + m) * Width + (n - m * Width) = k * Width + n
    <3> DEFINE r == RowsIn(Wholes(k, n))
    <3>1. /\ r \in Nat /\ k + r <= Len(Rows)
          /\ SubSeq(Rows, 1, k) \o Cut(Wholes(k, n)) = SubSeq(Rows, 1, k + r)
          /\ SubSeq(Wholes(k, n), r * Width + 1, Len(Wholes(k, n)))
               = Wholes(k + r, n - r * Width)
          /\ n - r * Width \in Nat /\ n - r * Width < Width
          /\ (k + r) * Width + (n - r * Width) = k * Width + n
      BY <1>2, <1>7, RowsTaken
    <3>2. r = m
      BY <2>1
    <3> HIDE DEF r
    <3> QED
      BY <3>1, <3>2
  <2> QED
    BY <1>6, <2>2 DEF ws
<1>12. out' = SubSeq(Rows, 1, k + m)
  BY <1>4, <1>5, <1>10, <1>11
<1>13. values' = Wholes(k + m, n - mw)
  BY <1>5, <1>10, <1>11
<1>14. Len(out') = k + m /\ out' \in Seq(R)
  <2> DEFINE z == k + m
             q == SubSeq(Rows, 1, z)
  <2>1. z \in Nat /\ z <= Len(Rows) /\ Rows \in Seq(R) /\ Len(Rows) \in Nat
    BY <1>2, <1>11, RowsFound DEF R, T
  <2> HIDE DEF z
  <2>2. \A i \in 1..z : Rows[i] \in R
    <3>1. \A i \in 1..z : i \in 1..Len(Rows)
      BY <2>1
    <3> QED
      BY <2>1, <3>1, ElementOfSeq
  <2>3. q \in Seq(R) /\ Len(q) = IF 1 <= z THEN z - 1 + 1 ELSE 0
    BY <2>1, <2>2, SubSeqProperties
  <2>4. Len(q) = z
    BY <2>1, <2>3
  <2>5. out' = q
    BY <1>12 DEF z
  <2> HIDE DEF q
  <2> QED
    BY <2>3, <2>4, <2>5 DEF z
<1>15. /\ Len(values') = n - mw /\ values' \in Seq(T)
  <2>1. (k + m) * Width + (n - mw) <= Count /\ k + m \in Nat
    BY <1>1, <1>2, <1>7, <1>11
  <2> QED
    BY <1>11, <1>13, <2>1, WholesType DEF T
<1>16. pendingValue' = Half(b) /\ Half(b) \in T /\ pendingForResume' = ForResume(c, Half(b))
  <2>1. b \in 0..Total
    BY EndsInside
  <2> QED
    BY <1>1, <1>5, <2>1, HalfType DEF T
<1>17. Assembled(b)'
  <2>1. Len(out') * Width + Len(values') = Complete(b)
    BY <1>7, <1>11, <1>14, <1>15
  <2>2. values' = Wholes(Len(out'), Len(values'))
    BY <1>13, <1>14, <1>15
  <2>3. Len(out') <= Len(Rows) /\ out' = SubSeq(Rows, 1, Len(out'))
    BY <1>11, <1>12, <1>14
  <2> QED
    BY <1>16, <2>1, <2>2, <2>3 DEF Assembled
<1>18. ValuesType'
  <2>1. pendingForResume' \in T
    BY <1>16 DEF ForResume, ValuesType, T
  <2> QED
    BY <1>11, <1>14, <1>15, <1>16, <2>1 DEF ValuesType, T, R
<1>19. k <= Len(out')
  BY <1>2, <1>11, <1>14
<1> QED
  BY <1>16, <1>17, <1>18, <1>19 DEF k

---------------------------------------------------------------------------
(* Chunks in line                                                          *)

\* The chunks of s carry the fragments after a up to b, each where the one
\* before it stopped.
Spans(s, a, b) ==
  /\ s = <<>> => a = b
  /\ s # <<>> => s[1].from = a + 1 /\ s[Len(s)].to = b
  /\ \A i \in 1..Len(s) - 1 : s[i + 1].from = s[i].to + 1

LEMMA SpansNone == \A a : Spans(<<>>, a, a)
  BY DEF Spans

LEMMA SpansAppend ==
  ASSUME NEW s \in Seq(Chunks), NEW c \in Chunks, NEW a \in Int, NEW b \in Int,
         Spans(s, a, b), c.from = b + 1
  PROVE  Spans(Append(s, c), a, c.to)
<1> DEFINE t == Append(s, c)
<1>1. /\ t # <<>> /\ Len(t) = Len(s) + 1 /\ t[Len(s) + 1] = c
      /\ \A i \in 1..Len(s) : t[i] = s[i]
      /\ Len(s) \in Nat
  BY AppendProperties, LenProperties
<1> HIDE DEF t
<1>2. t[Len(t)].to = c.to
  BY <1>1
<1>3. t[1].from = a + 1
  <2>1. CASE s = <<>>
    BY <1>1, <2>1 DEF Spans
  <2>2. CASE s # <<>>
    <3>1. 1 \in 1..Len(s)
      BY <1>1, <2>2, EmptySeq
    <3> QED
      BY <1>1, <2>2, <3>1 DEF Spans
  <2> QED
    BY <2>1, <2>2
<1>4. ASSUME NEW i \in 1..Len(t) - 1
      PROVE  t[i + 1].from = t[i].to + 1
  <2>1. i \in 1..Len(s) /\ t[i] = s[i] /\ s # <<>>
    BY <1>1, <1>4
  <2>2. CASE i = Len(s)
    BY <1>1, <2>1, <2>2 DEF Spans
  <2>3. CASE i # Len(s)
    <3>1. i \in 1..Len(s) - 1 /\ i + 1 \in 1..Len(s)
      BY <1>1, <2>1, <2>3
    <3> QED
      BY <1>1, <2>1, <3>1 DEF Spans
  <2> QED
    BY <2>2, <2>3
<1> QED
  BY <1>1, <1>2, <1>3, <1>4 DEF Spans, t

LEMMA SpansJoin ==
  ASSUME NEW s \in Seq(Chunks), NEW t \in Seq(Chunks), NEW a \in Int, NEW b \in Int, NEW e \in Int,
         Spans(s, a, b), Spans(t, b, e)
  PROVE  Spans(s \o t, a, e)
<1> DEFINE w == s \o t
<1>1. /\ w \in Seq(Chunks) /\ Len(w) = Len(s) + Len(t) /\ Len(s) \in Nat /\ Len(t) \in Nat
      /\ \A i \in 1..Len(s) + Len(t) : w[i] = IF i <= Len(s) THEN s[i] ELSE t[i - Len(s)]
  BY ConcatProperties, LenProperties
<1>2. CASE s = <<>>
  <2>1. w = t /\ a = b
    BY <1>2, ConcatEmptySeq DEF Spans
  <2> QED
    BY <2>1
<1>3. CASE t = <<>>
  <2>1. w = s /\ b = e
    BY <1>3, ConcatEmptySeq DEF Spans
  <2> QED
    BY <2>1
<1>4. CASE s # <<>> /\ t # <<>>
  <2> DEFINE m == Len(s)
             n == Len(t)
  <2>1. m \in Nat /\ n \in Nat /\ m > 0 /\ n > 0
    BY <1>1, <1>4, EmptySeq
  <2>2. /\ s[1].from = a + 1 /\ s[m].to = b /\ t[1].from = b + 1 /\ t[n].to = e
        /\ \A i \in 1..m - 1 : s[i + 1].from = s[i].to + 1
        /\ \A i \in 1..n - 1 : t[i + 1].from = t[i].to + 1
    BY <1>4 DEF Spans
  <2>3. Len(w) = m + n /\ \A i \in 1..m + n : w[i] = IF i <= m THEN s[i] ELSE t[i - m]
    BY <1>1
  <2> HIDE DEF w, m, n
  <2>4. w # <<>> /\ w[1].from = a + 1 /\ w[m + n].to = e
    <3>1. 1 \in 1..m + n /\ 1 <= m /\ m + n \in 1..m + n /\ ~ (m + n <= m) /\ (m + n) - m = n
      BY <2>1
    <3>2. w[1] = s[1] /\ w[m + n] = t[n]
      BY <2>3, <3>1
    <3> QED
      BY <2>1, <2>2, <2>3, <3>2
  <2>5. ASSUME NEW i \in 1..(m + n) - 1
        PROVE  w[i + 1].from = w[i].to + 1
    <3>0. i \in 1..m + n /\ i + 1 \in 1..m + n
      BY <2>1
    <3>1. CASE i + 1 <= m
      <4>1. i \in 1..m - 1 /\ i <= m
        BY <2>1, <3>1
      <4>2. w[i] = s[i] /\ w[i + 1] = s[i + 1]
        BY <2>3, <3>0, <3>1, <4>1
      <4> QED
        BY <2>2, <4>1, <4>2
    <3>2. CASE i = m
      <4>1. i <= m /\ ~ (i + 1 <= m) /\ (i + 1) - m = 1
        BY <2>1, <3>2
      <4>2. w[i] = s[m] /\ w[i + 1] = t[1]
        BY <2>3, <3>0, <3>2, <4>1
      <4> QED
        BY <2>2, <4>2
    <3>3. CASE m < i
      <4>1. i - m \in 1..n - 1 /\ (i + 1) - m = (i - m) + 1 /\ ~ (i <= m) /\ ~ (i + 1 <= m)
        BY <2>1, <3>3
      <4>2. w[i] = t[i - m] /\ w[i + 1] = t[(i - m) + 1]
        BY <2>3, <3>0, <4>1
      <4> QED
        BY <2>2, <4>1, <4>2
    <3> QED
      BY <2>1, <3>1, <3>2, <3>3
  <2> QED
    BY <2>3, <2>4, <2>5 DEF Spans, w
<1> QED
  BY <1>2, <1>3, <1>4

LEMMA SpansTail ==
  ASSUME NEW s \in Seq(Chunks), NEW a \in Int, NEW b \in Int, Spans(s, a, b), s # <<>>
  PROVE  Head(s) \in Chunks /\ Head(s).from = a + 1 /\ Spans(Tail(s), Head(s).to, b)
<1> DEFINE t == Tail(s)
           n == Len(s)
<1>1. /\ Head(s) \in Chunks /\ Head(s) = s[1] /\ t \in Seq(Chunks) /\ Len(t) = n - 1
      /\ \A i \in 1..n - 1 : t[i] = s[i + 1]
      /\ n \in Nat /\ n > 0
  BY HeadTailProperties, LenProperties, EmptySeq
<1>2. /\ s[1].from = a + 1 /\ s[n].to = b
      /\ \A i \in 1..n - 1 : s[i + 1].from = s[i].to + 1
  BY DEF Spans
<1> HIDE DEF t, n
<1>3. CASE n = 1
  <2>1. t = <<>>
    BY <1>1, <1>3, EmptySeq
  <2> QED
    BY <1>1, <1>2, <1>3, <2>1, SpansNone DEF t
<1>4. CASE n > 1
  <2>1. t # <<>> /\ 1 \in 1..n - 1 /\ n - 1 \in 1..n - 1 /\ (n - 1) + 1 = n
    BY <1>1, <1>4, EmptySeq
  <2>2. t[1].from = s[1].to + 1 /\ t[n - 1].to = b
    BY <1>1, <1>2, <2>1
  <2>3. ASSUME NEW i \in 1..(n - 1) - 1
        PROVE  t[i + 1].from = t[i].to + 1
    <3>1. i \in 1..n - 1 /\ i + 1 \in 1..n - 1
      BY <1>1
    <3> QED
      BY <1>1, <1>2, <3>1
  <2>4. Spans(t, s[1].to, b)
    BY <1>1, <2>1, <2>2, <2>3 DEF Spans
  <2> QED
    BY <1>1, <1>2, <2>4 DEF t
<1> QED
  BY <1>1, <1>3, <1>4

\* Chunks in line carry nothing of what was before them.
LEMMA SpansFrom ==
  ASSUME NEW s \in Seq(Chunks), NEW a \in Nat, NEW b \in Int, Spans(s, a, b)
  PROVE  a <= b /\ \A i \in 1..Len(s) : a + 1 <= s[i].from
<1> DEFINE S == {i \in 1..Len(s) : ~ (a + 1 <= s[i].from)}
<1>1. /\ Len(s) \in Nat /\ \A i \in 1..Len(s) : s[i] \in Chunks
      /\ s # <<>> => Len(s) > 0
  BY LenProperties, ElementOfSeq, EmptySeq
<1>2. \A i \in 1..Len(s) : s[i].from \in Int /\ s[i].to \in Int /\ s[i].from <= s[i].to + 1
  <2>1. \A c \in Chunks : c.from \in Int /\ c.to \in Int /\ c.from <= c.to + 1
    BY EndsInside DEF Chunks
  <2> QED
    BY <1>1, <2>1
<1>3. S = {}
  <2> SUFFICES ASSUME S # {}
               PROVE  FALSE
    OBVIOUS
  <2>1. S \in SUBSET Nat
    BY <1>1
  <2>2. PICK i \in S : \A j \in S : i <= j
    BY <2>1, Smallest
  <2>3. i \in 1..Len(s) /\ s # <<>> /\ ~ (a + 1 <= s[i].from)
    BY <1>1, <2>2, EmptySeq
  <2>4. CASE i = 1
    BY <2>3, <2>4 DEF Spans
  <2>5. CASE i # 1
    <3>1. i - 1 \in 1..Len(s) - 1 /\ i - 1 \in 1..Len(s) /\ (i - 1) + 1 = i /\ ~ (i <= i - 1)
      BY <1>1, <2>3, <2>5
    <3>2. s[i].from = s[i - 1].to + 1
      BY <3>1 DEF Spans
    <3>3. a + 1 <= s[i - 1].from
      BY <2>2, <3>1
    <3> QED
      BY <1>2, <2>3, <3>1, <3>2, <3>3
  <2> QED
    BY <2>4, <2>5
<1>4. CASE s = <<>>
  BY <1>3, <1>4 DEF Spans
<1>5. CASE s # <<>>
  <2>1. Len(s) \in 1..Len(s) /\ s[Len(s)].to = b
    BY <1>1, <1>5 DEF Spans
  <2>2. a + 1 <= s[Len(s)].from
    BY <1>3, <2>1
  <2>3. a <= b
    BY <1>2, <2>1, <2>2
  <2> QED
    BY <1>3, <2>3
<1> QED
  BY <1>4, <1>5

---------------------------------------------------------------------------
(* What is kept for resuming                                               *)

\* _pendingValueForResume follows the tokens that come with values.
Renews(c) == c.token /\ HasValues(c)

NoneRenews(s) == \A i \in 1..Len(s) : ~Renews(s[i])

\* When the chunks of s are transformed, h is kept for resuming: by the last
\* of them that renews it, or, if none does, by r, which is kept now.
Keeps(s, r, h) ==
  \/ r = h /\ NoneRenews(s)
  \/ \E m \in 1..Len(s) : /\ Renews(s[m]) /\ Half(s[m].to) = h
                          /\ \A i \in m + 1..Len(s) : ~Renews(s[i])

LEMMA KeepsTail ==
  ASSUME NEW s \in Seq(Chunks), s # <<>>, NEW r, NEW h, Keeps(s, r, h)
  PROVE  Keeps(Tail(s), IF Renews(Head(s)) THEN Half(Head(s).to) ELSE r, h)
<1> DEFINE t == Tail(s)
           n == Len(s)
<1>1. /\ Head(s) = s[1] /\ Len(t) = n - 1 /\ n \in Nat /\ n > 0
      /\ \A i \in 1..n - 1 : t[i] = s[i + 1]
  BY HeadTailProperties, LenProperties, EmptySeq
<1>2. \A i \in 1..n - 1 : i + 1 \in 1..n
  BY <1>1
<1> HIDE DEF t
<1>3. CASE r = h /\ NoneRenews(s)
  <2>1. 1 \in 1..n /\ ~Renews(s[1])
    BY <1>1, <1>3 DEF NoneRenews
  <2>2. NoneRenews(t)
    BY <1>1, <1>2, <1>3 DEF NoneRenews
  <2> QED
    BY <1>1, <1>3, <2>1, <2>2 DEF Keeps, t
<1>4. ASSUME NEW m \in 1..n, Renews(s[m]), Half(s[m].to) = h,
             \A i \in m + 1..n : ~Renews(s[i])
      PROVE  Keeps(t, IF Renews(s[1]) THEN Half(s[1].to) ELSE r, h)
  <2>1. CASE m = 1
    <3>1. NoneRenews(t)
      <4> SUFFICES ASSUME NEW i \in 1..n - 1
                   PROVE  ~Renews(t[i])
        BY <1>1 DEF NoneRenews
      <4>1. i + 1 \in m + 1..n
        BY <1>1, <2>1
      <4> QED
        BY <1>1, <1>4, <4>1
    <3> QED
      BY <1>4, <2>1, <3>1 DEF Keeps
  <2>2. CASE m # 1
    <3>1. m - 1 \in 1..n - 1 /\ (m - 1) + 1 = m
      BY <1>1, <2>2
    <3>2. t[m - 1] = s[m]
      BY <1>1, <3>1
    <3>3. ASSUME NEW i \in (m - 1) + 1..n - 1
          PROVE  ~Renews(t[i])
      <4>1. i \in 1..n - 1 /\ i + 1 \in m + 1..n
        BY <1>1, <3>1
      <4> QED
        BY <1>1, <1>4, <4>1
    <3> QED
      BY <1>1, <1>4, <3>1, <3>2, <3>3 DEF Keeps
  <2> QED
    BY <2>1, <2>2
<1> QED
  BY <1>1, <1>3, <1>4 DEF Keeps, t

\* Chunks of which none renews it change nothing,
LEMMA KeepsOn ==
  ASSUME NEW s \in Seq(Chunks), NEW t \in Seq(Chunks), NEW r, NEW h, Keeps(s, r, h), NoneRenews(t)
  PROVE  Keeps(s \o t, r, h)
<1> DEFINE w == s \o t
<1>1. /\ Len(w) = Len(s) + Len(t) /\ Len(s) \in Nat /\ Len(t) \in Nat
      /\ \A i \in 1..Len(s) + Len(t) : w[i] = IF i <= Len(s) THEN s[i] ELSE t[i - Len(s)]
  BY ConcatProperties, LenProperties
<1> HIDE DEF w
<1>2. ASSUME NEW i \in 1..Len(w), ~ (i <= Len(s))
      PROVE  ~Renews(w[i])
  <2>1. i - Len(s) \in 1..Len(t)
    BY <1>1, <1>2
  <2> QED
    BY <1>1, <1>2, <2>1 DEF NoneRenews
<1>3. CASE r = h /\ NoneRenews(s)
  <2>1. ASSUME NEW i \in 1..Len(w)
        PROVE  ~Renews(w[i])
    <3>1. i <= Len(s) => i \in 1..Len(s)
      BY <1>1
    <3> QED
      BY <1>1, <1>2, <1>3, <3>1 DEF NoneRenews
  <2> QED
    BY <1>3, <2>1 DEF Keeps, NoneRenews, w
<1>4. ASSUME NEW m \in 1..Len(s), Renews(s[m]), Half(s[m].to) = h,
             \A i \in m + 1..Len(s) : ~Renews(s[i])
      PROVE  Keeps(w, r, h)
  <2>1. m \in 1..Len(w) /\ w[m] = s[m]
    BY <1>1
  <2>2. ASSUME NEW i \in m + 1..Len(w)
        PROVE  ~Renews(w[i])
    <3>1. i \in 1..Len(w) /\ (i <= Len(s) => i \in m + 1..Len(s))
      BY <1>1
    <3> QED
      BY <1>1, <1>2, <1>4, <3>1
  <2> QED
    BY <1>4, <2>1, <2>2 DEF Keeps
<1> QED
  BY <1>3, <1>4 DEF Keeps, w

\* and one that renews it says what is kept.
LEMMA KeepsLast ==
  ASSUME NEW s \in Seq(Chunks), s # <<>>, Renews(s[Len(s)]), NEW r
  PROVE  Keeps(s, r, Half(s[Len(s)].to))
<1>1. Len(s) \in 1..Len(s) /\ Len(s) \in Nat
  BY LenProperties, EmptySeq
<1>2. ASSUME NEW i \in Len(s) + 1..Len(s)
      PROVE  ~Renews(s[i])
  BY <1>1
<1> QED
  BY <1>1, <1>2 DEF Keeps

---------------------------------------------------------------------------
(* The invariant                                                           *)

\* What a chunk is while the request is r.
Sound(c, r) ==
  /\ c.final => c = FlushChunk /\ r = "done"
  /\ ~c.final => (c.last => c.to = Total)
AllSound(s, r) == \A i \in 1..Len(s) : Sound(s[i], r)

\* From fragment d, where the rows stop, the chunks under way lead to what
\* the server sent: those written to the transform up to p, those held back
\* up to q.
InLine(d, p, q) == Spans(inbox, d, p) /\ Spans(queue, p, q) /\ Spans(pipe, q, sent)

\* Once what was passed on is transformed, what is kept for resuming is what
\* the token left unfinished; and while a request may be repeated, what was
\* passed on ends at the token.
Resumable(p, q) ==
  /\ Len(queue) <= tokenless /\ \A i \in 1..Len(queue) : ~queue[i].token
  /\ lastResumeToken <= q
  /\ request # "done" => Keeps(inbox, pendingForResume, Half(lastResumeToken))
  /\ tokenless <= MaxQueued /\ request # "dead" => p = lastResumeToken

\* Nothing is transformed after the last chunk, or after the stream gave up.
LastTaken    == gate = "shut" /\ numPushFailed < MaxResumeRetries
ShutAtEnd(d) == LastTaken => d = Total

At(d, p, q) == InLine(d, p, q) /\ Assembled(d) /\ Resumable(p, q) /\ ShutAtEnd(d)

Control ==
  /\ AllSound(inbox, request) /\ AllSound(queue, request) /\ AllSound(pipe, request)
  /\ KeepsUp => gate # "waiting" /\ numPushFailed = 0
  /\ gate = "open" => numPushFailed = 0
  /\ gate = "waiting" => numPushFailed < MaxResumeRetries
  /\ request = "remaking" => /\ pipe = <<>> /\ (inbox = <<>> \/ LastTaken)
                             /\ tokenless <= MaxQueued
  /\ request = "done" => sent = Total
  /\ request = "idle" => sent = 0 /\ lastResumeToken = 0 /\ pipe = <<>>
  /\ outcome = "ended" => gate = "shut"

SInv == TypeOK /\ Control /\ \E d, p, q \in 0..Total : At(d, p, q)

\* What setImmediate is there for: "Retry __after__ all pending data has been
\* processed" (partial-result-stream.ts:601).
DrainedRetry ==
  request = "broken" /\ request' = "remaking" => pipe = <<>> /\ (inbox = <<>> \/ LastTaken)
RetriesDrained == [][DrainedRetry]_vars

\* A token on a chunk without values, which _pendingValueForResume ignores,
\* comes where as much of a value is unfinished as at the token before it.
Bare(c) == c.token /\ ~HasValues(c) /\ ~c.final
TokenKeepsHalf ==
  Checkpoint /\ Bare(Head(pipe)) => Half(Head(pipe).to) = Half(lastResumeToken)
TokensKeepHalf == [][TokenKeepsHalf]_vars

LEMMA TypeFacts ==
  ASSUME TypeOK
  PROVE  /\ ValuesType /\ tokenless \in Nat /\ MaxQueued \in Nat /\ sent \in 0..Total
         /\ pipe \in Seq(Chunks) /\ queue \in Seq(Chunks) /\ inbox \in Seq(Chunks)
         /\ Total \in Nat \ {0} /\ MaxResumeRetries \in Nat \ {0} /\ numPushFailed \in Nat
         /\ highWater \in Nat /\ read \in Nat /\ Len(out) \in Nat
  BY StreamAssumption, EndsInside, LenProperties DEF TypeOK, ValuesType

LEMMA AssembledKept ==
  ASSUME NEW d, Assembled(d), UNCHANGED <<out, values, pendingValue>>
  PROVE  Assembled(d)'
  BY DEF Assembled

LEMMA SoundNone == \A r : AllSound(<<>>, r)
  BY DEF AllSound

LEMMA SoundLater ==
  ASSUME NEW s, NEW r, NEW t, AllSound(s, r), r = "done" => t = "done"
  PROVE  AllSound(s, t)
  BY DEF AllSound, Sound

LEMMA SoundAppend ==
  ASSUME NEW s \in Seq(Chunks), NEW c \in Chunks, NEW r, AllSound(s, r), Sound(c, r)
  PROVE  AllSound(Append(s, c), r)
<1>1. /\ Len(Append(s, c)) = Len(s) + 1 /\ Append(s, c)[Len(s) + 1] = c /\ Len(s) \in Nat
      /\ \A i \in 1..Len(s) : Append(s, c)[i] = s[i]
  BY AppendProperties, LenProperties
<1>2. \A i \in 1..Len(s) + 1 : i \in 1..Len(s) \/ i = Len(s) + 1
  BY <1>1
<1> QED
  BY <1>1, <1>2 DEF AllSound

LEMMA SoundJoin ==
  ASSUME NEW s \in Seq(Chunks), NEW t \in Seq(Chunks), NEW r, AllSound(s, r), AllSound(t, r)
  PROVE  AllSound(s \o t, r)
<1> DEFINE w == s \o t
<1>1. /\ Len(w) = Len(s) + Len(t) /\ Len(s) \in Nat /\ Len(t) \in Nat
      /\ \A i \in 1..Len(s) + Len(t) : w[i] = IF i <= Len(s) THEN s[i] ELSE t[i - Len(s)]
  BY ConcatProperties, LenProperties
<1> HIDE DEF w
<1>2. \A i \in 1..Len(s) + Len(t) : 
           i \in 1..Len(s) \/ (i - Len(s) \in 1..Len(t) /\ ~ (i <= Len(s)))
  BY <1>1
<1>3. \A i \in 1..Len(s) : i <= Len(s)
  BY <1>1
<1>4. \A i \in 1..Len(w) : Sound(w[i], r)
  BY <1>1, <1>2, <1>3 DEF AllSound
<1> QED
  BY <1>4 DEF AllSound, w

LEMMA SoundTail ==
  ASSUME NEW s \in Seq(Chunks), NEW r, AllSound(s, r), s # <<>>
  PROVE  Sound(Head(s), r) /\ AllSound(Tail(s), r)
<1>1. /\ Head(s) = s[1] /\ Len(Tail(s)) = Len(s) - 1 /\ Len(s) \in Nat /\ Len(s) > 0
      /\ \A i \in 1..Len(Tail(s)) : Tail(s)[i] = s[i + 1]
  BY HeadTailProperties, LenProperties, EmptySeq
<1>2. 1 \in 1..Len(s) /\ \A i \in 1..Len(Tail(s)) : i + 1 \in 1..Len(s)
  BY <1>1
<1> QED
  BY <1>1, <1>2 DEF AllSound

\* The last chunk of a line.
LEMMA LastOfJoin ==
  ASSUME NEW s \in Seq(Chunks), NEW t \in Seq(Chunks), t # <<>>
  PROVE  s \o t # <<>> /\ (s \o t)[Len(s \o t)] = t[Len(t)]
<1> DEFINE w == s \o t
           m == Len(s)
           n == Len(t)
<1>1. /\ w \in Seq(Chunks) /\ Len(w) = m + n /\ m \in Nat /\ n \in Nat /\ n > 0
      /\ \A i \in 1..m + n : w[i] = IF i <= m THEN s[i] ELSE t[i - m]
  BY ConcatProperties, LenProperties, EmptySeq
<1> HIDE DEF w, m, n
<1>2. m + n \in 1..m + n /\ ~ (m + n <= m) /\ (m + n) - m = n /\ w # <<>>
  BY <1>1, EmptySeq
<1>3. w[Len(w)] = t[n]
  BY <1>1, <1>2
<1> QED
  BY <1>2, <1>3 DEF w, n

THEOREM StreamInit == Init => SInv
<1> SUFFICES ASSUME Init
             PROVE  SInv
  OBVIOUS
<1>1. 0 \in 0..Total /\ Complete(0) = 0 /\ Width \in Nat \ {0} /\ Total \in Nat \ {0}
  BY EndsInside, CompleteNone
<1>2. Len(Rows) \in Nat /\ SubSeq(Rows, 1, 0) = <<>> /\ Wholes(0, 0) = <<>> /\ Len(<<>>) = 0
  <2>1. Wholes(0, 0) \in Seq(Seq(1..Total)) /\ Len(Wholes(0, 0)) = 0
    <3>1. 0 * Width + 0 <= Count
      BY <1>1, CountType
    <3> QED
      BY <3>1, WholesType
  <2>2. Wholes(0, 0) = <<>>
    BY <2>1, EmptySeq
  <2> QED
    BY <2>2, RowsFound, SubSeqEmpty
<1>3. Half(0) = <<>>
  BY DEF Half
<1>4. Assembled(0)
  BY <1>1, <1>2, <1>3 DEF Assembled, Init
<1>5. At(0, 0, 0)
  BY <1>1, <1>3, <1>4, SpansNone, StreamAssumption
     DEF At, InLine, Resumable, ShutAtEnd, LastTaken, Keeps, NoneRenews, Init
<1>6. Control
  BY StreamAssumption DEF Control, AllSound, LastTaken, Init
<1>7. TypeOK
  BY <1>1, StreamAssumption DEF TypeOK, Init
<1> QED
  BY <1>1, <1>5, <1>6, <1>7 DEF SInv

\* The chunk transformed next goes on where the rows stop.
LEMMA TransformMoves ==
  ASSUME SInv, Transform, NEW d \in 0..Total, NEW p \in 0..Total, NEW q \in 0..Total, At(d, p, q)
  PROVE  \E c \in Chunks :
             /\ c = Head(inbox) /\ Sound(c, request) /\ c.to \in 0..Total
             /\ ValuesType' /\ Assembled(c.to)' /\ Len(out) <= Len(out')
             /\ Spans(Tail(inbox), c.to, p)
             /\ c.final \/ c.last => c.to = Total
             /\ c.final => out' = out
             /\ pendingForResume' = IF Renews(c) THEN Half(c.to) ELSE pendingForResume
<1>1. inbox \in Seq(Chunks) /\ inbox # <<>> /\ ValuesType /\ Total \in Nat \ {0} /\ Len(out) \in Nat
  BY TypeFacts DEF SInv, Transform
<1>0. Head(inbox) \in Chunks
  BY <1>1, HeadTailProperties
<1> PICK c \in Chunks : c = Head(inbox)
  BY <1>0
<1>2. c.from = d + 1 /\ Spans(Tail(inbox), c.to, p)
  BY <1>1, SpansTail DEF At, InLine
<1>3. Sound(c, request)
  BY <1>1, SoundTail DEF SInv, Control
<1>4. /\ c.from \in Nat /\ c.to \in 0..Total /\ c.final \in BOOLEAN
      /\ c.from <= c.to + 1
  BY <1>1, <1>2 DEF Chunks
<1>5. Assembled(d)
  BY DEF At
<1>6. IF HasValues(c) THEN AddChunk(c) ELSE UNCHANGED <<valueVars, out>>
  BY DEF Transform
<1>9. /\ c.final \/ c.last => c.to = Total
      /\ c.final => ~HasValues(c)
  <2>1. CASE c.final
    <3>1. c = FlushChunk
      BY <1>3, <2>1 DEF Sound
    <3> QED
      BY <1>1, <3>1 DEF FlushChunk, HasValues
  <2>2. CASE ~c.final
    BY <1>3, <2>2 DEF Sound
  <2> QED
    BY <2>1, <2>2
<1>7. CASE ~HasValues(c)
  <2>1. c.to = d
    BY <1>1, <1>2, <1>4, <1>7 DEF HasValues
  <2>2. UNCHANGED <<out, values, pendingValue, pendingForResume>>
    BY <1>6, <1>7 DEF valueVars
  <2>3. Assembled(c.to)' /\ ValuesType'
    BY <1>1, <1>5, <2>1, <2>2, AssembledKept DEF ValuesType
  <2> QED
    BY <1>1, <1>2, <1>3, <1>4, <1>7, <1>9, <2>2, <2>3 DEF Renews
<1>8. CASE HasValues(c)
  <2>1. d \in 0..Total - 1 /\ c.to \in d + 1..Total
    BY <1>1, <1>2, <1>4, <1>8 DEF HasValues
  <2>2. AddChunk(c)
    BY <1>6, <1>8
  <2>3. /\ ValuesType' /\ Assembled(c.to)' /\ Len(out) <= Len(out')
        /\ pendingForResume' = ForResume(c, Half(c.to))
    BY <1>1, <1>2, <1>5, <2>1, <2>2, AddChunkKeeps
  <2> QED
    BY <1>2, <1>3, <1>4, <1>8, <1>9, <2>3 DEF Renews, ForResume
<1> QED
  BY <1>7, <1>8

\* The actions that leave what was received as it is.
LEMMA StartKeeps == SInv /\ Start => SInv'
<1> SUFFICES ASSUME SInv, Start
             PROVE  SInv'
  OBVIOUS
<1> PICK d \in 0..Total, p \in 0..Total, q \in 0..Total : At(d, p, q)
  BY DEF SInv
<1> USE DEF Start, MakeRequest, queueVars, valueVars, readerVars
<1>1. sent' = sent /\ request' = "streaming" /\ request = "idle"
  BY DEF SInv, Control
<1>2. TypeOK'
  BY <1>1 DEF SInv, TypeOK
<1>3. Control'
  BY <1>1, SoundLater DEF SInv, Control, KeepsUp, LastTaken
<1>4. At(d, p, q)'
  BY <1>1, AssembledKept DEF At, InLine, Resumable, ShutAtEnd, LastTaken
<1> QED
  BY <1>2, <1>3, <1>4 DEF SInv

LEMMA SendKeeps ==
  ASSUME SInv, NEW n \in 0..MaxChunk, NEW token \in BOOLEAN, NEW last \in BOOLEAN,
         Send(n, token, last)
  PROVE  SInv'
<1> PICK d \in 0..Total, p \in 0..Total, q \in 0..Total : At(d, p, q)
  BY DEF SInv
<1> USE DEF Send, queueVars, valueVars, readerVars
<1> DEFINE c == Chunk(sent + 1, sent + n, token, last)
<1>0. /\ sent \in 0..Total /\ Total \in Nat \ {0} /\ pipe \in Seq(Chunks) /\ n \in Nat
      /\ sent' \in 0..Total /\ empties' \in 0..MaxEmpties
  <2>1. sent \in 0..Total /\ Total \in Nat \ {0} /\ pipe \in Seq(Chunks) /\ n \in Nat
    BY TypeFacts, ResultAssumption DEF SInv
  <2>2. empties \in 0..MaxEmpties /\ MaxEmpties \in Nat
    BY StreamAssumption DEF SInv, TypeOK
  <2> QED
    BY <2>1, <2>2
<1>1. c \in Chunks /\ c.from = sent + 1 /\ c.to = sent + n /\ Sound(c, request)
  BY <1>0 DEF Chunk, Chunks, Sound
<1> HIDE DEF c
<1>2. pipe' = Append(pipe, c) /\ sent' = c.to /\ request' = request /\ request = "streaming"
  BY <1>1 DEF c
<1>3. TypeOK'
  <2>1. pipe' \in Seq(Chunks)
    BY <1>0, <1>1, <1>2, AppendProperties
  <2> QED
    BY <1>0, <1>2, <2>1 DEF SInv, TypeOK
<1>4. Control'
  <2>1. AllSound(pipe', request')
    BY <1>0, <1>1, <1>2, SoundAppend DEF SInv, Control
  <2> QED
    BY <1>2, <2>1 DEF SInv, Control, KeepsUp, LastTaken
<1>5. At(d, p, q)'
  <2>1. Spans(pipe', q, sent')
    BY <1>0, <1>1, <1>2, SpansAppend DEF At, InLine
  <2> QED
    BY <1>2, <2>1, AssembledKept DEF At, InLine, Resumable, ShutAtEnd, LastTaken
<1> QED
  BY <1>3, <1>4, <1>5 DEF SInv

LEMMA EndKeeps == SInv /\ End => SInv'
<1> SUFFICES ASSUME SInv, End
             PROVE  SInv'
  OBVIOUS
<1> PICK d \in 0..Total, p \in 0..Total, q \in 0..Total : At(d, p, q)
  BY DEF SInv
<1> USE DEF End, queueVars, valueVars, readerVars
<1>0. sent = Total /\ sent' = Total /\ Total \in Nat \ {0} /\ pipe \in Seq(Chunks)
  BY TypeFacts DEF SInv
<1>1. /\ FlushChunk \in Chunks /\ FlushChunk.from = sent + 1 /\ FlushChunk.to = Total
      /\ FlushChunk.token /\ Sound(FlushChunk, "done")
  BY <1>0 DEF FlushChunk, Chunks, Sound
<1>2. pipe' = Append(pipe, FlushChunk) /\ request' = "done" /\ request = "streaming"
  OBVIOUS
<1>3. TypeOK'
  <2>1. pipe' \in Seq(Chunks)
    BY <1>0, <1>1, <1>2, AppendProperties
  <2> QED
    BY <1>0, <1>2, <2>1 DEF SInv, TypeOK
<1>4. Control'
  <2>1. AllSound(pipe, "done") /\ AllSound(inbox, "done") /\ AllSound(queue, "done")
    BY <1>2, SoundLater DEF SInv, Control
  <2>2. AllSound(pipe', "done")
    BY <1>0, <1>1, <1>2, <2>1, SoundAppend
  <2> QED
    BY <1>0, <1>2, <2>1, <2>2 DEF SInv, Control, KeepsUp, LastTaken
<1>5. At(d, p, q)'
  <2>1. Spans(pipe', q, sent')
    <3>1. Spans(pipe, q, sent)
      BY DEF At, InLine
    <3> QED
      BY <1>0, <1>1, <1>2, <3>1, SpansAppend
  <2> QED
    BY <1>2, <2>1, AssembledKept DEF At, InLine, Resumable, ShutAtEnd, LastTaken
<1> QED
  BY <1>3, <1>4, <1>5 DEF SInv

LEMMA BreakKeeps ==
  ASSUME SInv, NEW fault \in Faults, Break(fault)
  PROVE  SInv'
<1> PICK d \in 0..Total, p \in 0..Total, q \in 0..Total : At(d, p, q)
  BY DEF SInv
<1> USE DEF Break, queueVars, valueVars, readerVars
<1>1. request = "streaming" /\ request' \in {"broken", "refused"}
  OBVIOUS
<1>2. TypeOK'
  <2>1. breaks' \in 0..MaxBreaks
    BY StreamAssumption DEF SInv, TypeOK
  <2> QED
    BY <1>1, <2>1 DEF SInv, TypeOK
<1>3. Control'
  <2>1. AllSound(pipe, request') /\ AllSound(inbox, request') /\ AllSound(queue, request')
    BY <1>1, SoundLater DEF SInv, Control
  <2> QED
    BY <1>1, <2>1 DEF SInv, Control, KeepsUp, LastTaken
<1>4. At(d, p, q)'
  BY <1>1, AssembledKept DEF At, InLine, Resumable, ShutAtEnd, LastTaken
<1> QED
  BY <1>2, <1>3, <1>4 DEF SInv

LEMMA CheckpointKeeps == SInv /\ Checkpoint /\ TokenKeepsHalf => SInv'
<1> SUFFICES ASSUME SInv, Checkpoint, TokenKeepsHalf
             PROVE  SInv'
  OBVIOUS
<1> PICK d \in 0..Total, p \in 0..Total, q \in 0..Total : At(d, p, q)
  BY DEF SInv
<1>0. /\ pipe \in Seq(Chunks) /\ queue \in Seq(Chunks) /\ inbox \in Seq(Chunks)
      /\ sent \in 0..Total /\ Total \in Nat \ {0} /\ pipe # <<>> /\ request # "dead"
      /\ tokenless \in Nat /\ MaxQueued \in Nat
  BY TypeFacts DEF SInv, Checkpoint
<1>1. Head(pipe) \in Chunks
  BY <1>0, HeadTailProperties
<1> PICK c \in Chunks : c = Head(pipe)
  BY <1>1
<1> DEFINE held == Append(queue, c)
<1>2. /\ tokenless' = IF c.token THEN 0 ELSE tokenless + 1
      /\ lastResumeToken' = IF c.token THEN c.to ELSE lastResumeToken
      /\ inbox' = IF Releases(c) THEN inbox \o held ELSE inbox
      /\ queue' = IF Releases(c) THEN <<>> ELSE held
      /\ pipe' = Tail(pipe)
      /\ UNCHANGED <<gate, numPushFailed, highWater, request, sent, empties, breaks,
                     pendingValue, pendingForResume, values, out, read, outcome>>
  BY DEF Checkpoint, requestVars, valueVars, readerVars
<1>3. /\ c.from = q + 1 /\ Spans(Tail(pipe), c.to, sent) /\ Tail(pipe) \in Seq(Chunks)
      /\ c.to \in 0..Total /\ c.token \in BOOLEAN /\ q <= c.to
  <2>1. c.from = q + 1 /\ Spans(Tail(pipe), c.to, sent) /\ Tail(pipe) \in Seq(Chunks)
    BY <1>0, SpansTail, HeadTailProperties DEF At, InLine
  <2>2. c.to \in 0..Total /\ c.token \in BOOLEAN /\ c.from <= c.to + 1
    BY DEF Chunks
  <2> QED
    BY <1>0, <2>1, <2>2
<1>4. Sound(c, request) /\ AllSound(Tail(pipe), request)
  BY <1>0, SoundTail DEF SInv, Control
<1>5. /\ held \in Seq(Chunks) /\ held # <<>> /\ held[Len(held)] = c
      /\ Len(held) = Len(queue) + 1 /\ Len(queue) \in Nat
      /\ AllSound(held, request) /\ Spans(held, p, c.to)
  <2>1. AllSound(queue, request) /\ Spans(queue, p, q)
    BY DEF SInv, Control, At, InLine
  <2>2. AllSound(held, request)
    BY <1>0, <1>4, <2>1, SoundAppend
  <2>3. Spans(held, p, c.to)
    BY <1>0, <1>3, <2>1, SpansAppend
  <2>4. /\ held \in Seq(Chunks) /\ held # <<>> /\ Len(held) = Len(queue) + 1
        /\ held[Len(queue) + 1] = c /\ Len(queue) \in Nat
    BY <1>0, AppendProperties, LenProperties
  <2> HIDE DEF held
  <2> QED
    BY <2>2, <2>3, <2>4
<1> HIDE DEF held
<1>6. /\ inbox \o held \in Seq(Chunks) /\ inbox \o held # <<>>
      /\ (inbox \o held)[Len(inbox \o held)] = c
      /\ AllSound(inbox \o held, request) /\ Spans(inbox \o held, d, c.to)
  <2>1. AllSound(inbox, request) /\ Spans(inbox, d, p)
    BY DEF SInv, Control, At, InLine
  <2>2. inbox \o held \in Seq(Chunks)
    BY <1>0, <1>5, ConcatProperties
  <2>3. inbox \o held # <<>> /\ (inbox \o held)[Len(inbox \o held)] = c
    BY <1>0, <1>5, LastOfJoin
  <2>4. AllSound(inbox \o held, request)
    BY <1>0, <1>5, <2>1, SoundJoin
  <2>5. Spans(inbox \o held, d, c.to)
    BY <1>0, <1>3, <1>5, <2>1, SpansJoin
  <2> QED
    BY <2>2, <2>3, <2>4, <2>5
<1>7. TypeOK'
  <2>1. /\ pipe' \in Seq(Chunks) /\ queue' \in Seq(Chunks) /\ inbox' \in Seq(Chunks)
        /\ tokenless' \in Nat /\ lastResumeToken' \in 0..Total
    <3>1. lastResumeToken \in 0..Total
      BY DEF SInv, TypeOK
    <3> QED
      BY <1>0, <1>2, <1>3, <1>5, <1>6, <3>1, EmptySeq
  <2>2. Len(queue') <= MaxQueued
    BY <1>0, <1>2, <1>5 DEF Releases
  <2> QED
    BY <1>2, <2>1, <2>2 DEF SInv, TypeOK
<1>8. Control'
  <2>1. AllSound(pipe', request) /\ AllSound(inbox', request) /\ AllSound(queue', request)
    BY <1>2, <1>4, <1>5, <1>6, SoundNone DEF SInv, Control
  <2>2. request # "remaking" /\ request # "idle"
    BY <1>0 DEF SInv, Control
  <2> QED
    BY <1>2, <2>1, <2>2 DEF SInv, Control, KeepsUp, LastTaken
<1>9. Assembled(d)' /\ ShutAtEnd(d)'
  BY <1>2, AssembledKept DEF At, ShutAtEnd, LastTaken
<1>12. request # "done" => Keeps(inbox \o held, pendingForResume, Half(lastResumeToken'))
  <2> SUFFICES ASSUME request # "done"
               PROVE  Keeps(inbox \o held, pendingForResume, Half(lastResumeToken'))
    OBVIOUS
  <2>1. Keeps(inbox, pendingForResume, Half(lastResumeToken))
    BY DEF At, Resumable
  <2>2. CASE Renews(c)
    <3>1. Keeps(inbox \o held, pendingForResume, Half(c.to))
      BY <1>6, <2>2, KeepsLast
    <3> QED
      BY <1>2, <2>2, <3>1 DEF Renews
  <2>3. CASE ~Renews(c)
    <3>1. Half(lastResumeToken') = Half(lastResumeToken)
      <4>1. ~c.final
        BY <1>4 DEF Sound
      <4> QED
        BY <1>2, <2>3, <4>1 DEF TokenKeepsHalf, Bare, Renews
    <3>2. NoneRenews(held)
      <4>1. \A i \in 1..Len(queue) : ~Renews(held[i])
        BY <1>0, AppendProperties DEF At, Resumable, Renews, held
      <4>2. \A i \in 1..Len(held) : i \in 1..Len(queue) \/ i = Len(held)
        BY <1>5
      <4> QED
        BY <1>5, <2>3, <4>1, <4>2 DEF NoneRenews
    <3> QED
      BY <1>0, <1>5, <2>1, <3>1, <3>2, KeepsOn
  <2> QED
    BY <2>2, <2>3
<1>10. CASE Releases(c)
  <2>1. inbox' = inbox \o held /\ queue' = <<>>
    BY <1>2, <1>10
  <2>2. InLine(d, c.to, c.to)'
    BY <1>2, <1>3, <1>6, <2>1, SpansNone DEF InLine
  <2>3. Resumable(c.to, c.to)'
    <3>1. /\ Len(queue') <= tokenless' /\ \A i \in 1..Len(queue') : ~queue'[i].token
          /\ lastResumeToken' <= c.to
      <4>1. Len(<<>>) = 0 /\ tokenless' \in Nat /\ 1..0 = {}
        BY <1>0, <1>2
      <4>2. lastResumeToken <= q /\ lastResumeToken \in Nat
        BY DEF At, Resumable, SInv, TypeOK
      <4> QED
        BY <1>0, <1>2, <1>3, <2>1, <4>1, <4>2
    <3>2. request # "done" => Keeps(inbox', pendingForResume', Half(lastResumeToken'))
      BY <1>2, <1>12, <2>1
    <3>3. ASSUME tokenless' <= MaxQueued
          PROVE  c.to = lastResumeToken'
      <4>1. CASE c.token
        BY <1>2, <4>1
      <4>2. CASE ~c.token
        <5>1. tokenless' = tokenless + 1 /\ Len(queue) >= MaxQueued
          BY <1>2, <1>10, <4>2 DEF Releases
        <5>2. Len(queue) <= tokenless
          BY DEF At, Resumable
        <5> QED
          BY <1>0, <1>5, <3>3, <5>1, <5>2
      <4> QED
        BY <1>3, <4>1, <4>2
    <3> QED
      BY <1>2, <3>1, <3>2, <3>3 DEF Resumable
  <2>4. At(d, c.to, c.to)'
    BY <1>9, <2>2, <2>3 DEF At
  <2> QED
    BY <1>3, <1>7, <1>8, <2>4 DEF SInv
<1>11. CASE ~Releases(c)
  <2>1. inbox' = inbox /\ queue' = held /\ ~c.token
    BY <1>2, <1>11 DEF Releases
  <2>2. InLine(d, p, c.to)'
    BY <1>2, <1>3, <1>5, <2>1 DEF At, InLine
  <2>3. Resumable(p, c.to)'
    <3>1. tokenless' = tokenless + 1 /\ lastResumeToken' = lastResumeToken
      BY <1>2, <2>1
    <3>2. Len(queue') <= tokenless' /\ (tokenless' <= MaxQueued => tokenless <= MaxQueued)
      BY <1>0, <1>5, <2>1, <3>1 DEF At, Resumable
    <3>3. \A i \in 1..Len(queue') : ~queue'[i].token
      <4>1. \A i \in 1..Len(queue) : held[i] = queue[i]
        BY <1>0, AppendProperties DEF held
      <4>2. \A i \in 1..Len(held) : i \in 1..Len(queue) \/ i = Len(held)
        BY <1>5
      <4> QED
        BY <1>5, <2>1, <4>1, <4>2 DEF At, Resumable
    <3>4. lastResumeToken' <= c.to
      <4>1. lastResumeToken <= q /\ lastResumeToken \in Nat
        BY DEF At, Resumable, SInv, TypeOK
      <4> QED
        BY <1>0, <1>3, <3>1, <4>1
    <3> QED
      BY <1>2, <2>1, <3>1, <3>2, <3>3, <3>4 DEF At, Resumable
  <2>4. At(d, p, c.to)'
    BY <1>9, <2>2, <2>3 DEF At
  <2> QED
    BY <1>3, <1>7, <1>8, <2>4 DEF SInv
<1> QED
  BY <1>10, <1>11

LEMMA TransformKeeps == SInv /\ Transform => SInv'
<1> SUFFICES ASSUME SInv, Transform
             PROVE  SInv'
  OBVIOUS
<1> PICK d \in 0..Total, p \in 0..Total, q \in 0..Total : At(d, p, q)
  BY DEF SInv
<1> PICK c \in Chunks :
             /\ c = Head(inbox) /\ Sound(c, request) /\ c.to \in 0..Total
             /\ ValuesType' /\ Assembled(c.to)' /\ Len(out) <= Len(out')
             /\ Spans(Tail(inbox), c.to, p)
             /\ c.final \/ c.last => c.to = Total
             /\ c.final => out' = out
             /\ pendingForResume' = IF Renews(c) THEN Half(c.to) ELSE pendingForResume
  BY TransformMoves
<1>1. /\ inbox \in Seq(Chunks) /\ inbox # <<>> /\ gate = "open"
      /\ Len(out) \in Nat /\ Len(out') \in Nat /\ read \in 0..Len(out)
      /\ highWater \in Nat /\ Len(Rows) \in Nat
  BY TypeFacts, RowsFound DEF SInv, TypeOK, Transform, ValuesType
<1>2. /\ inbox' = Tail(inbox)
      /\ UNCHANGED <<highWater, request, sent, empties, breaks, pipe, queue, lastResumeToken,
                     tokenless, numPushFailed, read>>
  BY DEF Transform, requestVars, queueVars
<1>3. /\ gate' \in {"open", "waiting", "shut"} /\ outcome' \in {"open", "ended", "failed"}
      /\ gate' = "shut" => c.final \/ c.last
      /\ gate' = "waiting" => ~KeepsUp \/ Len(out') - read >= highWater
      /\ outcome' = "ended" => gate' = "shut"
  <2>1. outcome \in {"open", "failed"}
    BY <1>1 DEF SInv, TypeOK, Control
  <2>2. CASE c.final \/ c.last
    <3>1. gate' = "shut" /\ outcome' = IF outcome = "open" THEN "ended" ELSE outcome
      BY <2>2 DEF Transform
    <3> QED
      BY <2>1, <2>2, <3>1
  <2>3. CASE ~ (c.final \/ c.last)
    <3>1. /\ gate' \in {"open", "waiting"} /\ outcome' = outcome
          /\ gate' = "waiting" => ~KeepsUp \/ Len(out') - read >= highWater
      BY <2>3 DEF Transform, Stops
    <3> QED
      BY <2>1, <3>1
  <2> QED
    BY <2>2, <2>3
<1>4. inbox' \in Seq(Chunks) /\ AllSound(inbox', request)
  BY <1>1, <1>2, HeadTailProperties, SoundTail DEF SInv, Control
<1>5. TypeOK'
  <2>1. read' \in 0..Len(out')
    BY <1>1, <1>2
  <2> QED
    BY <1>2, <1>3, <1>4, <2>1 DEF SInv, TypeOK, ValuesType
<1>6. Control'
  <2>1. KeepsUp => gate' # "waiting"
    <3> SUFFICES ASSUME KeepsUp, Len(out') - read >= highWater
                 PROVE  FALSE
      BY <1>3
    <3>1. highWater > Len(Rows)
      BY DEF KeepsUp
    <3>2. Len(out') <= Len(Rows)
      BY DEF Assembled
    <3> QED
      BY <1>1, <3>1, <3>2
  <2>2. numPushFailed = 0 /\ MaxResumeRetries > 0
    BY <1>1, StreamAssumption DEF SInv, Control
  <2>3. request # "remaking"
    BY <1>1 DEF SInv, Control, LastTaken
  <2> QED
    BY <1>2, <1>3, <1>4, <2>1, <2>2, <2>3 DEF SInv, Control, KeepsUp, LastTaken
<1>7. InLine(c.to, p, q)'
  BY <1>2 DEF At, InLine
<1>8. Resumable(p, q)'
  <2>1. Resumable(p, q)
    BY DEF At
  <2>2. request # "done" => Keeps(inbox', pendingForResume', Half(lastResumeToken))
    BY <1>1, <1>2, <2>1, KeepsTail DEF Resumable
  <2> QED
    BY <1>2, <2>1, <2>2 DEF Resumable
<1>9. At(c.to, p, q)'
  BY <1>3, <1>7, <1>8 DEF At, ShutAtEnd, LastTaken
<1> QED
  BY <1>5, <1>6, <1>9 DEF SInv

LEMMA TryResumeKeeps == SInv /\ TryResume => SInv'
<1> SUFFICES ASSUME SInv, TryResume
             PROVE  SInv'
  OBVIOUS
<1> PICK d \in 0..Total, p \in 0..Total, q \in 0..Total : At(d, p, q)
  BY DEF SInv
<1>1. /\ gate = "waiting" /\ ~KeepsUp
      /\ UNCHANGED <<highWater, request, sent, empties, breaks, pipe, queue, lastResumeToken,
                     tokenless, inbox, pendingValue, pendingForResume, values, out, read>>
  BY DEF SInv, Control, TryResume, requestVars, queueVars, valueVars
<1>2. \/ gate' = "open" /\ numPushFailed' = 0 /\ outcome' = outcome
      \/ FailedPush
  BY DEF TryResume
<1>3. numPushFailed \in 0..MaxResumeRetries /\ MaxResumeRetries \in Nat \ {0}
  BY StreamAssumption DEF SInv, TypeOK
<1>4. /\ gate' \in {"open", "waiting", "shut"} /\ numPushFailed' \in 0..MaxResumeRetries
      /\ gate' = "shut" => numPushFailed' = MaxResumeRetries
      /\ gate' = "open" => numPushFailed' = 0
      /\ gate' = "waiting" => numPushFailed' < MaxResumeRetries
      /\ outcome' \in {"open", "ended", "failed"} /\ outcome' # "ended"
  <2>1. outcome \in {"open", "failed"}
    BY <1>1 DEF SInv, TypeOK, Control
  <2>2. CASE gate' = "open" /\ numPushFailed' = 0 /\ outcome' = outcome
    BY <1>3, <2>1, <2>2
  <2>3. CASE FailedPush
    <3>1. numPushFailed' = numPushFailed + 1
      BY <2>3 DEF FailedPush
    <3>2. CASE numPushFailed' = MaxResumeRetries
      BY <1>3, <2>1, <2>3, <3>1, <3>2 DEF FailedPush
    <3>3. CASE numPushFailed' # MaxResumeRetries
      <4>1. gate' = "waiting" /\ outcome' = outcome
        BY <1>1, <2>3, <3>3 DEF FailedPush
      <4>2. numPushFailed' \in 0..MaxResumeRetries /\ numPushFailed' < MaxResumeRetries
        BY <1>1, <1>3, <3>1, <3>3 DEF SInv, Control
      <4> QED
        BY <1>3, <2>1, <3>3, <4>1, <4>2
    <3> QED
      BY <3>2, <3>3
  <2> QED
    BY <1>2, <2>2, <2>3
<1>5. TypeOK'
  BY <1>1, <1>4 DEF SInv, TypeOK
<1>6. Control'
  BY <1>1, <1>4 DEF SInv, Control, KeepsUp, LastTaken
<1>7. At(d, p, q)'
  <2>1. Assembled(d)' /\ InLine(d, p, q)' /\ Resumable(p, q)'
    BY <1>1, AssembledKept DEF At, InLine, Resumable
  <2>2. ShutAtEnd(d)'
    BY <1>3, <1>4 DEF ShutAtEnd, LastTaken
  <2> QED
    BY <2>1, <2>2 DEF At
<1> QED
  BY <1>5, <1>6, <1>7 DEF SInv

LEMMA ReadKeeps == SInv /\ Read => SInv'
<1> SUFFICES ASSUME SInv, Read
             PROVE  SInv'
  OBVIOUS
<1> PICK d \in 0..Total, p \in 0..Total, q \in 0..Total : At(d, p, q)
  BY DEF SInv
<1>1. /\ UNCHANGED <<highWater, request, sent, empties, breaks, pipe, queue, lastResumeToken,
                     tokenless, inbox, gate, numPushFailed, pendingValue, pendingForResume,
                     values, out, outcome>>
      /\ read' \in 0..Len(out)
  BY TypeFacts DEF SInv, TypeOK, Read, requestVars, queueVars, valueVars
<1>2. TypeOK' /\ Control'
  BY <1>1 DEF SInv, TypeOK, Control, KeepsUp, LastTaken
<1>3. At(d, p, q)'
  BY <1>1, AssembledKept DEF At, InLine, Resumable, ShutAtEnd, LastTaken
<1> QED
  BY <1>2, <1>3 DEF SInv

LEMMA RetryKeeps == SInv /\ Retry /\ DrainedRetry => SInv'
<1> SUFFICES ASSUME SInv, Retry, DrainedRetry
             PROVE  SInv'
  OBVIOUS
<1> PICK d \in 0..Total, p \in 0..Total, q \in 0..Total : At(d, p, q)
  BY DEF SInv
<1>1. /\ UNCHANGED <<highWater, sent, empties, breaks, pipe, queue, lastResumeToken, tokenless,
                     inbox, gate, numPushFailed, pendingValue, pendingForResume, values, out,
                     read, outcome>>
      /\ request \in {"broken", "refused"} /\ request' \in {"remaking", "abandoned"}
      /\ request' = "remaking" => request = "broken" /\ ~TooManyQueued
  BY DEF Retry, queueVars, valueVars, readerVars
<1>2. ASSUME request' = "remaking"
      PROVE  pipe = <<>> /\ (inbox = <<>> \/ LastTaken) /\ tokenless <= MaxQueued
  <2>1. tokenless \in Nat /\ MaxQueued \in Nat
    BY TypeFacts DEF SInv
  <2>2. ~TooManyQueued /\ request = "broken"
    BY <1>1, <1>2
  <2> QED
    BY <1>2, <2>1, <2>2 DEF TooManyQueued, DrainedRetry
<1>3. TypeOK'
  BY <1>1 DEF SInv, TypeOK
<1>4. Control'
  <2>1. AllSound(pipe, request') /\ AllSound(inbox, request') /\ AllSound(queue, request')
    BY <1>1, SoundLater DEF SInv, Control
  <2> QED
    BY <1>1, <1>2, <2>1 DEF SInv, Control, KeepsUp, LastTaken
<1>5. At(d, p, q)'
  BY <1>1, AssembledKept DEF At, InLine, Resumable, ShutAtEnd, LastTaken
<1> QED
  BY <1>3, <1>4, <1>5 DEF SInv

\* When the request is made again, all the values passed on are transformed,
\* and the rows stop at the token.
LEMMA RemakeFinds ==
  ASSUME SInv, Remake, NEW d \in 0..Total, NEW p \in 0..Total, NEW q \in 0..Total, At(d, p, q)
  PROVE  /\ pipe = <<>> /\ d = lastResumeToken /\ p = lastResumeToken
         /\ pendingValue' = Half(lastResumeToken) /\ Assembled(lastResumeToken)
<1>1. /\ request = "remaking" /\ pipe = <<>> /\ tokenless <= MaxQueued
      /\ inbox = <<>> \/ LastTaken
      /\ inbox \in Seq(Chunks) /\ Total \in Nat
  BY TypeFacts DEF SInv, Control, Remake
<1>2. d = p /\ NoneRenews(inbox)
  <2>1. Spans(inbox, d, p)
    BY DEF At, InLine
  <2>2. CASE inbox = <<>>
    BY <2>1, <2>2 DEF Spans, NoneRenews
  <2>3. CASE LastTaken
    <3>1. d = Total
      BY <2>3 DEF At, ShutAtEnd
    <3>2. d <= p /\ \A i \in 1..Len(inbox) : d + 1 <= inbox[i].from
      BY <1>1, <2>1, SpansFrom
    <3>3. \A c \in Chunks : c.from \in Int /\ c.to \in Int /\ c.to <= Total
      BY <1>1 DEF Chunks
    <3>4. \A i \in 1..Len(inbox) : inbox[i] \in Chunks
      BY <1>1, ElementOfSeq
    <3>5. ASSUME NEW i \in 1..Len(inbox)
          PROVE  ~Renews(inbox[i])
      BY <1>1, <3>1, <3>2, <3>3, <3>4 DEF Renews, HasValues
    <3> QED
      BY <1>1, <3>1, <3>2, <3>5 DEF NoneRenews
  <2> QED
    BY <1>1, <2>2, <2>3
<1>3. p = lastResumeToken /\ pendingForResume = Half(lastResumeToken)
  <2>1. p = lastResumeToken /\ Keeps(inbox, pendingForResume, Half(lastResumeToken))
    BY <1>1 DEF At, Resumable
  <2> QED
    BY <1>2, <2>1 DEF Keeps, NoneRenews
<1>4. Assembled(lastResumeToken) /\ pendingValue = Half(lastResumeToken)
  BY <1>2, <1>3 DEF At, Assembled
<1>5. pendingValue' = Half(lastResumeToken)
  BY <1>3, <1>4 DEF Remake
<1> QED
  BY <1>1, <1>2, <1>3, <1>4, <1>5

LEMMA RemakeKeeps == SInv /\ Remake => SInv'
<1> SUFFICES ASSUME SInv, Remake
             PROVE  SInv'
  OBVIOUS
<1> PICK d \in 0..Total, p \in 0..Total, q \in 0..Total : At(d, p, q)
  BY DEF SInv
<1>1. /\ pipe = <<>> /\ d = lastResumeToken /\ p = lastResumeToken
      /\ pendingValue' = Half(lastResumeToken) /\ Assembled(lastResumeToken)
  BY RemakeFinds
<1>2. /\ UNCHANGED <<highWater, empties, breaks, pipe, inbox, gate, numPushFailed,
                     lastResumeToken, tokenless, pendingForResume, values, out, read, outcome>>
      /\ request = "remaking" /\ request' = "streaming" /\ queue' = <<>>
      /\ sent' = lastResumeToken
  BY DEF Remake, MakeRequest, readerVars
<1>3. TypeOK'
  <2>1. pendingValue' \in Seq(1..Total)
    BY <1>1, HalfType
  <2>2. Len(queue') <= MaxQueued /\ queue' \in Seq(Chunks)
    BY <1>2, StreamAssumption, EmptySeq
  <2> QED
    BY <1>2, <2>1, <2>2 DEF SInv, TypeOK
<1>4. Control'
  <2>1. AllSound(pipe', request') /\ AllSound(inbox', request') /\ AllSound(queue', request')
    BY <1>1, <1>2, SoundNone, SoundLater DEF SInv, Control
  <2> QED
    BY <1>1, <1>2, <2>1 DEF SInv, Control, KeepsUp
<1>5. At(d, d, d)'
  <2>1. InLine(d, d, d)'
    BY <1>1, <1>2, SpansNone DEF At, InLine
  <2>2. Assembled(d)'
    BY <1>1, <1>2 DEF Assembled
  <2>3. Resumable(d, d)'
    <3>1. /\ Len(queue') <= tokenless' /\ tokenless' = tokenless
          /\ \A i \in 1..Len(queue') : ~queue'[i].token
      BY <1>2, TypeFacts DEF SInv
    <3>2. lastResumeToken' <= d
      BY <1>1, <1>2, TypeFacts DEF SInv
    <3> QED
      BY <1>1, <1>2, <3>1, <3>2 DEF At, Resumable
  <2>4. ShutAtEnd(d)'
    BY <1>2 DEF At, ShutAtEnd, LastTaken
  <2> QED
    BY <2>1, <2>2, <2>3, <2>4 DEF At
<1> QED
  BY <1>3, <1>4, <1>5 DEF SInv

LEMMA AbandonKeeps == SInv /\ Abandon => SInv'
<1> SUFFICES ASSUME SInv, Abandon
             PROVE  SInv'
  OBVIOUS
<1> PICK d \in 0..Total, p \in 0..Total, q \in 0..Total : At(d, p, q)
  BY DEF SInv
<1>1. /\ UNCHANGED <<highWater, sent, empties, breaks, pipe, gate, numPushFailed,
                     lastResumeToken, tokenless, pendingValue, pendingForResume, values, out,
                     read, outcome>>
      /\ request = "abandoned" /\ request' = "dead"
      /\ inbox' = inbox \o queue /\ queue' = <<>>
  BY DEF Abandon, valueVars, readerVars
<1>2. inbox \in Seq(Chunks) /\ queue \in Seq(Chunks) /\ tokenless \in Nat /\ MaxQueued \in Nat
  BY TypeFacts DEF SInv
<1>3. inbox' \in Seq(Chunks)
  BY <1>1, <1>2, ConcatProperties
<1>4. TypeOK'
  <2>1. Len(queue') <= MaxQueued /\ queue' \in Seq(Chunks)
    BY <1>1, <1>2, EmptySeq
  <2> QED
    BY <1>1, <1>3, <2>1 DEF SInv, TypeOK
<1>5. Control'
  <2>1. AllSound(pipe, "dead") /\ AllSound(inbox, "dead") /\ AllSound(queue, "dead")
    BY <1>1, SoundLater DEF SInv, Control
  <2>2. AllSound(inbox', "dead")
    BY <1>1, <1>2, <2>1, SoundJoin
  <2> QED
    BY <1>1, <2>1, <2>2, SoundNone DEF SInv, Control, KeepsUp, LastTaken
<1>6. At(d, q, q)'
  <2>1. Spans(inbox', d, q)
    BY <1>1, <1>2, SpansJoin DEF At, InLine
  <2>2. InLine(d, q, q)'
    BY <1>1, <2>1, SpansNone DEF At, InLine
  <2>3. Assembled(d)' /\ ShutAtEnd(d)'
    BY <1>1, AssembledKept DEF At, ShutAtEnd, LastTaken
  <2>4. Resumable(q, q)'
    <3>1. NoneRenews(queue)
      BY DEF At, Resumable, NoneRenews, Renews
    <3>2. Keeps(inbox', pendingForResume, Half(lastResumeToken))
      <4>1. Keeps(inbox, pendingForResume, Half(lastResumeToken))
        BY <1>1 DEF At, Resumable
      <4> QED
        BY <1>1, <1>2, <3>1, <4>1, KeepsOn
    <3>3. Len(queue') <= tokenless' /\ \A i \in 1..Len(queue') : ~queue'[i].token
      BY <1>1, <1>2
    <3> QED
      BY <1>1, <3>2, <3>3 DEF At, Resumable
  <2> QED
    BY <2>2, <2>3, <2>4 DEF At
<1> QED
  BY <1>4, <1>5, <1>6 DEF SInv

LEMMA ReportKeeps == SInv /\ Report => SInv'
<1> SUFFICES ASSUME SInv, Report
             PROVE  SInv'
  OBVIOUS
<1> PICK d \in 0..Total, p \in 0..Total, q \in 0..Total : At(d, p, q)
  BY DEF SInv
<1>1. /\ UNCHANGED <<highWater, request, sent, empties, breaks, pipe, queue, lastResumeToken,
                     tokenless, inbox, gate, numPushFailed, pendingValue, pendingForResume,
                     values, out, read>>
      /\ outcome' = "failed"
  BY DEF Report, requestVars, queueVars, valueVars
<1>2. TypeOK' /\ Control'
  BY <1>1 DEF SInv, TypeOK, Control, KeepsUp, LastTaken
<1>3. At(d, p, q)'
  BY <1>1, AssembledKept DEF At, InLine, Resumable, ShutAtEnd, LastTaken
<1> QED
  BY <1>2, <1>3 DEF SInv

LEMMA StutterKeeps == SInv /\ UNCHANGED vars => SInv'
<1> SUFFICES ASSUME SInv, UNCHANGED vars
             PROVE  SInv'
  OBVIOUS
<1> PICK d \in 0..Total, p \in 0..Total, q \in 0..Total : At(d, p, q)
  BY DEF SInv
<1> USE DEF vars
<1>1. TypeOK' /\ Control'
  BY DEF SInv, TypeOK, Control, KeepsUp, LastTaken
<1>2. At(d, p, q)'
  BY AssembledKept DEF At, InLine, Resumable, ShutAtEnd, LastTaken
<1> QED
  BY <1>1, <1>2 DEF SInv

\* Every step keeps the invariant, if it repeats no request too early and passes
\* no token that leaves what is kept for resuming behind.
THEOREM StreamInductive ==
  ASSUME SInv, [Next]_vars, [DrainedRetry]_vars, [TokenKeepsHalf]_vars
  PROVE  SInv'
<1>0. CASE UNCHANGED vars
  BY <1>0, StutterKeeps
<1> SUFFICES ASSUME DrainedRetry, TokenKeepsHalf
             PROVE  SInv'
  BY <1>0
<1>1. CASE Start
  BY <1>1, StartKeeps
<1>2. CASE Serve
  BY <1>2, SendKeeps, EndKeeps, BreakKeeps DEF Serve
<1>3. CASE Checkpoint
  BY <1>3, CheckpointKeeps
<1>4. CASE Transform
  BY <1>4, TransformKeeps
<1>5. CASE TryResume
  BY <1>5, TryResumeKeeps
<1>6. CASE Read
  BY <1>6, ReadKeeps
<1>7. CASE Retry
  BY <1>7, RetryKeeps
<1>8. CASE Remake
  BY <1>8, RemakeKeeps
<1>9. CASE Abandon
  BY <1>9, AbandonKeeps
<1>10. CASE Report
  BY <1>10, ReportKeeps
<1> QED
  BY <1>0, <1>1, <1>2, <1>3, <1>4, <1>5, <1>6, <1>7, <1>8, <1>9, <1>10 DEF Next

---------------------------------------------------------------------------
(* What holds whatever breaks                                              *)

\* Requests may break, and tokens come, as they like here.  endListener's chunk
\* has a token, another without values has one at BareTokens only, and the rows
\* pushed have Width values.
DataChunks == {c \in Chunks : /\ c.final => c.token
                              /\ Bare(c) => c.to \in BareTokens}

RowsWhole == \A r \in 1..Len(out) : Len(out[r]) = Width

\* The transform polls the reader fewer than maxResumeRetries times.
Polls == /\ gate = "open" => numPushFailed = 0
         /\ gate = "waiting" => numPushFailed < MaxResumeRetries

TInv == /\ TypeOK /\ RowsWhole /\ Polls
        /\ pipe \in Seq(DataChunks) /\ queue \in Seq(DataChunks) /\ inbox \in Seq(DataChunks)

\* The values of a chunk are one or more, whatever is pending.
LEMMA MergedTyped ==
  ASSUME pendingValue \in Seq(1..Total), NEW c \in DataChunks, HasValues(c)
  PROVE  /\ MergedValues(c) \in Seq(Seq(1..Total))
         /\ Len(MergedValues(c)) \in Nat \ {0}
<1> DEFINE a  == c.from
           b  == c.to
           n  == ValueOf(b) - ValueOf(a) + 1
           vs == Pieces(a, b)
           T  == Seq(1..Total)
<1>1. a \in 1..Total /\ b \in 1..Total /\ a <= b
  BY EndsInside DEF DataChunks, Chunks, HasValues
<1> HIDE DEF a, b
<1>2. ValueOf(a) \in Nat /\ ValueOf(b) \in Nat /\ n \in Nat \ {0}
  <2>1. ValueOf(a) \in Nat /\ ValueOf(b) \in Nat
    BY <1>1, ValueOfType
  <2>2. ValueOf(a) <= ValueOf(b)
    BY <1>1, ValuesBetween
  <2> QED
    BY <2>1, <2>2
<1>3. \A v \in ValueOf(a)..ValueOf(b) : Part(a, b, v) \in T
  <2> SUFFICES ASSUME NEW v \in ValueOf(a)..ValueOf(b)
               PROVE  Part(a, b, v) \in T
    OBVIOUS
  <2> DEFINE x == IF FirstOf(v) < a THEN a ELSE FirstOf(v)
             y == IF LastOf(v) > b THEN b ELSE LastOf(v)
  <2>1. FirstOf(v) \in 1..b /\ LastOf(v) \in a..Total /\ FirstOf(v) <= LastOf(v)
    BY <1>1, ValuesBetween
  <2>2. x \in 1..Total /\ y \in 1..Total /\ x <= y + 1
    BY <1>1, <2>1, EndsInside
  <2>3. Part(a, b, v) = Fragments(x, y)
    BY DEF Part
  <2> HIDE DEF x, y
  <2>4. Fragments(x, y) \in Seq(x..y)
    BY <2>2, EndsInside, FragmentsType
  <2>5. x..y \subseteq 1..Total
    BY <2>2, EndsInside
  <2>6. Fragments(x, y) \in Seq(1..Total)
    BY <2>4, <2>5, SeqMonotonic
  <2> QED
    BY <2>3, <2>6
<1>4. vs \in Seq(T) /\ Len(vs) = n
  <2>1. \A i \in 1..n : ValueOf(a) + i - 1 \in ValueOf(a)..ValueOf(b)
    BY <1>2
  <2>2. \A i \in 1..n : Part(a, b, ValueOf(a) + i - 1) \in T
    BY <1>3, <2>1
  <2>3. vs = [i \in 1..n |-> Part(a, b, ValueOf(a) + i - 1)]
    BY DEF Pieces
  <2> HIDE DEF T, vs, n
  <2> QED
    BY <1>2, <2>2, <2>3
<1> HIDE DEF vs, n
<1>5. CASE pendingValue = <<>>
  BY <1>2, <1>4, <1>5 DEF MergedValues, vs, a, b
<1>6. CASE pendingValue # <<>>
  <2>1. MergedValues(c) = <<pendingValue \o Head(vs)>> \o Tail(vs)
    BY <1>6 DEF MergedValues, vs, a, b
  <2>2. vs # <<>>
    BY <1>2, <1>4, EmptySeq
  <2>3. Head(vs) \in T /\ Tail(vs) \in Seq(T) /\ Len(Tail(vs)) = Len(vs) - 1
    BY <1>4, <2>2, HeadTailProperties
  <2>4. pendingValue \o Head(vs) \in T
    BY <2>3, ConcatProperties
  <2>5. <<pendingValue \o Head(vs)>> \in Seq(T) /\ Len(<<pendingValue \o Head(vs)>>) = 1
    <3> DEFINE e == pendingValue \o Head(vs)
    <3>1. e \in T
      BY <2>4
    <3> HIDE DEF e, T
    <3>2. <<e>> \in Seq(T) /\ Len(<<e>>) = 1
      BY <3>1
    <3> QED
      BY <3>2 DEF e
  <2>6. /\ MergedValues(c) \in Seq(T)
        /\ Len(MergedValues(c)) = 1 + Len(Tail(vs))
    BY <2>1, <2>3, <2>5, ConcatProperties
  <2> QED
    BY <1>2, <1>4, <2>3, <2>6
<1> QED
  BY <1>5, <1>6

\* Cutting values into rows makes rows of Width values and leaves fewer than
\* that.
LEMMA CutTyped ==
  ASSUME NEW S, NEW vs \in Seq(S)
  PROVE  /\ Cut(vs) \in Seq(Seq(S)) /\ \A r \in 1..Len(Cut(vs)) : Len(Cut(vs)[r]) = Width
         /\ SubSeq(vs, RowsIn(vs) * Width + 1, Len(vs)) \in Seq(S)
         /\ Len(SubSeq(vs, RowsIn(vs) * Width + 1, Len(vs))) < Width
<1> DEFINE n == Len(vs)
           m == n \div Width
           w == m * Width
<1>1. Width \in Nat \ {0} /\ n \in Nat
  BY EndsInside
<1>2. m \in Nat /\ w <= n /\ n < w + Width /\ w \in Nat
  <2> HIDE DEF n
  <2>1. m \in Nat /\ w <= n /\ n < w + Width
    BY <1>1, RowBounds
  <2> QED
    BY <1>1, <2>1
<1>3. RowsIn(vs) = m
  BY DEF RowsIn
<1> HIDE DEF n, m, w
<1>4. \A i \in 1..n : vs[i] \in S
  BY ElementOfSeq DEF n
<1>5. ASSUME NEW r \in 1..m
      PROVE  /\ SubSeq(vs, (r - 1) * Width + 1, r * Width) \in Seq(S)
             /\ Len(SubSeq(vs, (r - 1) * Width + 1, r * Width)) = Width
  <2> DEFINE x == (r - 1) * Width
             y == r * Width
  <2>1. r \in Nat /\ r - 1 \in Nat /\ r <= m /\ (r - 1) + 1 = r
    BY <1>2
  <2>2. x \in Nat /\ y \in Nat /\ y = x + Width
    BY <1>1, <2>1, MulStep
  <2>3. y <= w
    BY <1>1, <1>2, <2>1, MulMono DEF w
  <2> HIDE DEF x, y
  <2>4. x + 1 \in Int /\ y \in Int /\ x + 1 <= y /\ y - (x + 1) + 1 = Width /\ y <= n
    BY <1>1, <1>2, <2>2, <2>3
  <2>5. \A i \in x + 1..y : vs[i] \in S
    BY <1>1, <1>4, <2>2, <2>4
  <2>6. SubSeq(vs, x + 1, y) \in Seq(S) /\ Len(SubSeq(vs, x + 1, y)) = Width
    BY <2>4, <2>5, SubSeqProperties
  <2> QED
    BY <2>6 DEF x, y
<1>6. Cut(vs) = [r \in 1..m |-> SubSeq(vs, (r - 1) * Width + 1, r * Width)]
  BY <1>3 DEF Cut
<1>7. Cut(vs) \in Seq(Seq(S)) /\ Len(Cut(vs)) = m
  BY <1>2, <1>5, <1>6
<1>8. \A r \in 1..Len(Cut(vs)) : Len(Cut(vs)[r]) = Width
  BY <1>5, <1>6, <1>7
<1>9. SubSeq(vs, w + 1, n) \in Seq(S) /\ Len(SubSeq(vs, w + 1, n)) < Width
  <2>1. \A i \in w + 1..n : vs[i] \in S
    BY <1>1, <1>2, <1>4
  <2>2. w + 1 \in Int /\ n \in Int
    BY <1>1, <1>2
  <2>3. /\ SubSeq(vs, w + 1, n) \in Seq(S)
        /\ Len(SubSeq(vs, w + 1, n)) = IF w + 1 <= n THEN n - (w + 1) + 1 ELSE 0
    BY <2>1, <2>2, SubSeqProperties
  <2> QED
    BY <1>1, <1>2, <2>3
<1> QED
  BY <1>3, <1>7, <1>8, <1>9 DEF n, w

\* Adding a chunk keeps the values typed and the rows whole.
LEMMA AddChunkTyped ==
  ASSUME ValuesType, RowsWhole, NEW c \in DataChunks, HasValues(c), AddChunk(c)
  PROVE  ValuesType' /\ RowsWhole' /\ Len(out) <= Len(out')
<1> DEFINE vs   == MergedValues(c)
           cut  == c.to \notin ValueEnds
           ts   == IF cut THEN SubSeq(vs, 1, Len(vs) - 1) ELSE vs
           pend == IF cut THEN vs[Len(vs)] ELSE <<>>
           done == values \o ts
           T    == Seq(1..Total)
<1>1. vs \in Seq(T) /\ Len(vs) \in Nat \ {0}
  BY MergedTyped DEF ValuesType
<1>2. /\ pendingValue' = pend
      /\ pendingForResume' = ForResume(c, pend)
      /\ values' = SubSeq(done, RowsIn(done) * Width + 1, Len(done))
      /\ out' = out \o Cut(done)
  BY DEF AddChunk, Push
<1> HIDE DEF vs
<1>3. \A i \in 1..Len(vs) : vs[i] \in T
  BY <1>1, ElementOfSeq
<1>4. pend \in T
  <2>1. <<>> \in T
    BY EmptySeq
  <2>2. Len(vs) \in 1..Len(vs)
    BY <1>1
  <2> HIDE DEF T
  <2> QED
    BY <1>3, <2>1, <2>2
<1>5. ts \in Seq(T)
  <2>1. 1 \in Int /\ Len(vs) - 1 \in Int /\ \A i \in 1..Len(vs) - 1 : vs[i] \in T
    BY <1>1, <1>3
  <2>2. SubSeq(vs, 1, Len(vs) - 1) \in Seq(T)
    BY <2>1, SubSeqProperties
  <2> HIDE DEF T
  <2> QED
    BY <1>1, <2>2
<1> HIDE DEF ts, pend
<1>6. values \in Seq(T) /\ out \in Seq(Seq(T)) /\ pendingForResume \in T
  BY DEF ValuesType
<1> HIDE DEF T
<1>7. done \in Seq(T)
  BY <1>5, <1>6, ConcatProperties
<1> HIDE DEF done
<1>8. /\ Cut(done) \in Seq(Seq(T))
      /\ \A r \in 1..Len(Cut(done)) : Len(Cut(done)[r]) = Width
      /\ values' \in Seq(T) /\ Len(values') < Width
  BY <1>2, <1>7, CutTyped
<1>9. /\ out' \in Seq(Seq(T)) /\ Len(out') = Len(out) + Len(Cut(done))
      /\ \A r \in 1..Len(out) + Len(Cut(done)) :
           out'[r] = IF r <= Len(out) THEN out[r] ELSE Cut(done)[r - Len(out)]
  BY <1>2, <1>6, <1>8, ConcatProperties
<1>10. Len(out) \in Nat /\ Len(Cut(done)) \in Nat
  BY <1>6, <1>8, LenProperties
<1>11. RowsWhole'
  <2> SUFFICES ASSUME NEW r \in 1..Len(out')
               PROVE  Len(out'[r]) = Width
    BY DEF RowsWhole
  <2>1. CASE r <= Len(out)
    <3>1. r \in 1..Len(out) /\ out'[r] = out[r]
      BY <1>9, <1>10, <2>1
    <3> QED
      BY <3>1 DEF RowsWhole
  <2>2. CASE ~ (r <= Len(out))
    <3>1. r - Len(out) \in 1..Len(Cut(done)) /\ out'[r] = Cut(done)[r - Len(out)]
      BY <1>9, <1>10, <2>2
    <3> QED
      BY <1>8, <3>1
  <2> QED
    BY <2>1, <2>2
<1>12. pendingForResume' \in T
  BY <1>2, <1>4, <1>6 DEF ForResume
<1>13. ValuesType'
  BY <1>2, <1>4, <1>8, <1>9, <1>12 DEF ValuesType, T
<1> QED
  BY <1>9, <1>10, <1>11, <1>13

\* A step that hands on chunks, without touching values, keeps the types.
LEMMA ChunksTyped ==
  ASSUME TInv, [Next]_vars, ~Transform
  PROVE  /\ pipe' \in Seq(DataChunks) /\ queue' \in Seq(DataChunks)
         /\ inbox' \in Seq(DataChunks) /\ Len(queue') <= MaxQueued
<1>0. /\ pipe \in Seq(DataChunks) /\ queue \in Seq(DataChunks) /\ inbox \in Seq(DataChunks)
      /\ Len(queue) <= MaxQueued /\ MaxQueued \in Nat
      /\ <<>> \in Seq(DataChunks) /\ Len(<<>>) = 0
      /\ sent \in 0..Total /\ Total \in Nat \ {0}
  BY StreamAssumption, EndsInside, EmptySeq DEF TInv, TypeOK
<1>1. ASSUME NEW n \in 0..MaxChunk, NEW token \in BOOLEAN, NEW last \in BOOLEAN,
             Send(n, token, last)
      PROVE  pipe' \in Seq(DataChunks) /\ UNCHANGED <<queue, inbox>>
  <2> DEFINE c == Chunk(sent + 1, sent + n, token, last)
  <2>1. /\ sent + 1 \in 1..Total + 1 /\ sent + n \in 0..Total /\ sent + 1 <= (sent + n) + 1
        /\ ~ (sent + 1 <= sent + n) => n = 0 /\ sent + n = sent
    BY <1>0, <1>1, ResultAssumption DEF Send
  <2>2. c \in DataChunks
    <3>1. c \in Chunks /\ c.from = sent + 1 /\ c.to = sent + n /\ c.token = token /\ ~c.final
      BY <2>1 DEF Chunk, Chunks
    <3>2. Bare(c) => c.to \in BareTokens
      BY <1>1, <2>1, <3>1 DEF Bare, HasValues, Send
    <3> QED
      BY <3>1, <3>2 DEF DataChunks
  <2>3. pipe' = Append(pipe, c) /\ UNCHANGED <<queue, inbox>>
    BY <1>1 DEF Send, queueVars
  <2> HIDE DEF c
  <2> QED
    BY <1>0, <2>2, <2>3, AppendProperties
<1>2. ASSUME End
      PROVE  pipe' \in Seq(DataChunks) /\ UNCHANGED <<queue, inbox>>
  <2>1. FlushChunk \in DataChunks
    BY <1>0 DEF FlushChunk, DataChunks, Chunks, Bare
  <2> QED
    BY <1>0, <1>2, <2>1, AppendProperties DEF End, queueVars
<1>3. CASE Checkpoint
  <2> DEFINE held == Append(queue, Head(pipe))
  <2>1. /\ pipe # <<>> /\ pipe' = Tail(pipe)
        /\ inbox' = IF Releases(Head(pipe)) THEN inbox \o held ELSE inbox
        /\ queue' = IF Releases(Head(pipe)) THEN <<>> ELSE held
    BY <1>3 DEF Checkpoint
  <2>2. Head(pipe) \in DataChunks /\ Tail(pipe) \in Seq(DataChunks)
    BY <1>0, <2>1, HeadTailProperties
  <2>3. held \in Seq(DataChunks) /\ Len(held) = Len(queue) + 1
    BY <1>0, <2>2, AppendProperties
  <2> HIDE DEF held
  <2>4. inbox \o held \in Seq(DataChunks)
    BY <1>0, <2>3, ConcatProperties
  <2>5. ~ Releases(Head(pipe)) => Len(held) <= MaxQueued
    <3>1. Len(queue) \in Nat
      BY <1>0, LenProperties
    <3> QED
      BY <1>0, <2>3, <3>1 DEF Releases
  <2> QED
    BY <1>0, <2>1, <2>2, <2>3, <2>4, <2>5
<1>4. CASE Abandon
  <2>1. pipe' = pipe /\ queue' = <<>> /\ inbox' = inbox \o queue
    BY <1>4 DEF Abandon
  <2>2. inbox \o queue \in Seq(DataChunks)
    BY <1>0, ConcatProperties
  <2> QED
    BY <1>0, <2>1, <2>2
<1>5. CASE Remake
  <2>1. pipe' = pipe /\ queue' = <<>> /\ inbox' = inbox
    BY <1>5 DEF Remake
  <2> QED
    BY <1>0, <2>1
<1>6. CASE \/ Start \/ (\E fault \in Faults : Break(fault)) \/ TryResume \/ Read \/ Retry
           \/ Report \/ UNCHANGED vars
  BY <1>0, <1>6
     DEF Start, Break, TryResume, Read, Retry, Report, queueVars, requestVars, vars
<1>7. CASE Serve
  BY <1>0, <1>1, <1>2, <1>6, <1>7 DEF Serve
<1> QED
  BY <1>0, <1>3, <1>4, <1>5, <1>6, <1>7 DEF Next

\* Every step keeps the types.
LEMMA TypedStep == TInv /\ [Next]_vars => TInv'
<1> SUFFICES ASSUME TInv, [Next]_vars
             PROVE  TInv'
  OBVIOUS
<1>0. /\ TypeOK /\ RowsWhole /\ Polls /\ ValuesType /\ Total \in Nat \ {0}
      /\ MaxResumeRetries \in Nat \ {0} /\ MaxBreaks \in Nat /\ tokenless \in Nat
      /\ numPushFailed \in 0..MaxResumeRetries
  BY TypeFacts, StreamAssumption DEF TInv, TypeOK
<1>1. /\ Seq(DataChunks) \subseteq Seq(Chunks)
  <2>1. DataChunks \subseteq Chunks
    BY DEF DataChunks
  <2> QED
    BY <2>1, SeqMonotonic
<1> DEFINE Given == /\ pipe' \in Seq(DataChunks) /\ queue' \in Seq(DataChunks)
                    /\ inbox' \in Seq(DataChunks) /\ Len(queue') <= MaxQueued
<1>2. CASE Transform
  <2>1. inbox # <<>> /\ inbox \in Seq(DataChunks)
    BY <1>2 DEF TInv, Transform
  <2>2. Head(inbox) \in DataChunks /\ Tail(inbox) \in Seq(DataChunks)
    BY <2>1, HeadTailProperties
  <2> PICK c \in DataChunks : c = Head(inbox)
    BY <2>2
  <2>3. ValuesType' /\ RowsWhole' /\ Len(out) <= Len(out')
    <3>1. CASE ~HasValues(c)
      <4>1. UNCHANGED <<pendingValue, pendingForResume, values, out>>
        BY <1>2, <3>1 DEF Transform, valueVars
      <4>2. Len(out) \in Nat
        BY <1>0, TypeFacts
      <4> QED
        BY <1>0, <4>1, <4>2 DEF ValuesType, RowsWhole
    <3>2. CASE HasValues(c)
      <4>1. AddChunk(c)
        BY <1>2, <3>2 DEF Transform
      <4> QED
        BY <1>0, <3>2, <4>1, AddChunkTyped
    <3> QED
      BY <3>1, <3>2
  <2>4. /\ inbox' = Tail(inbox)
        /\ UNCHANGED <<highWater, request, sent, empties, breaks, pipe, queue, lastResumeToken,
                       tokenless, numPushFailed, read>>
        /\ gate' \in {"open", "waiting", "shut"} /\ outcome' \in {"open", "ended", "failed"}
        /\ gate = "open"
    BY <1>0, <1>2 DEF Transform, requestVars, queueVars, TypeOK
  <2>5. read' \in 0..Len(out')
    <3>1. Len(out) \in Nat /\ Len(out') \in Nat /\ read \in 0..Len(out)
      BY <1>0, <2>3, LenProperties DEF ValuesType, TypeOK
    <3> QED
      BY <2>3, <2>4, <3>1
  <2>6. inbox' \in Seq(DataChunks) /\ inbox' \in Seq(Chunks)
    BY <1>1, <2>2, <2>4
  <2>7. Polls'
    BY <1>0, <2>4 DEF Polls
  <2> QED
    BY <1>0, <2>3, <2>4, <2>5, <2>6, <2>7 DEF TInv, TypeOK, ValuesType
<1>3. CASE ~Transform
  <2>1. Given
    BY <1>3, ChunksTyped
  <2>2. pipe' \in Seq(Chunks) /\ queue' \in Seq(Chunks) /\ inbox' \in Seq(Chunks)
    BY <1>1, <2>1
  <2> HIDE DEF Given
  <2>3. out' = out /\ RowsWhole'
    <3>1. out' = out
      BY <1>3 DEF Next, Start, Serve, Send, End, Break, Checkpoint, TryResume, Read, Retry, Remake,
             Abandon, Report, readerVars, vars
    <3> QED
      BY <1>0, <3>1 DEF RowsWhole
  <2> DEFINE Frame ==
               /\ highWater' = highWater
               /\ request' \in {"idle", "streaming", "done", "broken", "refused", "remaking",
                                 "abandoned", "dead"}
               /\ sent' \in 0..Total /\ lastResumeToken' \in 0..Total
               /\ breaks' \in 0..MaxBreaks /\ empties' \in 0..MaxEmpties /\ tokenless' \in Nat
               /\ gate' \in {"open", "waiting", "shut"}
               /\ pendingValue' \in Seq(1..Total)
               /\ UNCHANGED <<pendingForResume, values>>
               /\ numPushFailed' \in 0..MaxResumeRetries /\ Polls'
               /\ read' \in 0..Len(out)
               /\ outcome' \in {"open", "ended", "failed"}
  <2>4. Frame => TypeOK' /\ Polls'
    BY <1>0, <2>1, <2>2, <2>3 DEF Given, TypeOK
  <2> USE DEF requestVars, queueVars, valueVars, readerVars
  <2>5. ASSUME NEW n \in 0..MaxChunk, NEW token \in BOOLEAN, NEW last \in BOOLEAN,
               Send(n, token, last)
        PROVE  Frame
    <3>1. sent' \in 0..Total /\ empties' \in 0..MaxEmpties
      BY <1>0, <2>5, ResultAssumption, StreamAssumption DEF Send, TypeOK
    <3> QED
      BY <1>0, <2>5, <3>1 DEF Send, TypeOK, Polls
  <2>6. ASSUME Start
        PROVE  Frame
    BY <1>0, <2>6 DEF Start, MakeRequest, TypeOK, Polls
  <2>7. ASSUME End
        PROVE  Frame
    BY <1>0, <2>7 DEF End, TypeOK, Polls
  <2>8. ASSUME Retry
        PROVE  Frame
    BY <1>0, <2>8 DEF Retry, TypeOK, Polls
  <2>9. ASSUME Abandon
        PROVE  Frame
    BY <1>0, <2>9 DEF Abandon, TypeOK, Polls
  <2>10. ASSUME Report
        PROVE  Frame
    BY <1>0, <2>10 DEF Report, TypeOK, Polls
  <2>11. ASSUME NEW fault \in Faults, Break(fault)
        PROVE  Frame
    <3>1. breaks' \in 0..MaxBreaks
      BY <1>0, <2>11 DEF Break, TypeOK
    <3> QED
      BY <1>0, <2>11, <3>1 DEF Break, TypeOK, Polls
  <2>12. ASSUME Checkpoint
        PROVE  Frame
    <3>1. Head(pipe).to \in 0..Total
      <4>1. Head(pipe) \in Chunks
        BY <1>0, <2>12, HeadTailProperties DEF Checkpoint, TypeOK
      <4> QED
        BY <1>0, <4>1 DEF Chunks
    <3>2. lastResumeToken' \in 0..Total /\ tokenless' \in Nat
      BY <1>0, <2>12, <3>1 DEF Checkpoint, TypeOK
    <3> QED
      BY <1>0, <2>12, <3>2 DEF Checkpoint, TypeOK, Polls
  <2>13. ASSUME TryResume
        PROVE  Frame
    <3>1. CASE gate' = "open" /\ numPushFailed' = 0 /\ outcome' = outcome
      BY <1>0, <2>13, <3>1 DEF TryResume, TypeOK, Polls
    <3>2. CASE FailedPush
      <4>1. numPushFailed' = numPushFailed + 1 /\ numPushFailed < MaxResumeRetries
        BY <1>0, <2>13, <3>2 DEF FailedPush, TryResume, Polls
      <4>2. /\ numPushFailed' \in 0..MaxResumeRetries
            /\ numPushFailed' = MaxResumeRetries \/ numPushFailed' < MaxResumeRetries
        BY <1>0, <4>1
      <4>3. CASE numPushFailed' = MaxResumeRetries
        BY <1>0, <2>13, <3>2, <4>2, <4>3 DEF TryResume, FailedPush, TypeOK, Polls
      <4>4. CASE numPushFailed' # MaxResumeRetries
        BY <1>0, <2>13, <3>2, <4>2, <4>4 DEF TryResume, FailedPush, TypeOK, Polls
      <4> QED
        BY <4>3, <4>4
    <3> QED
      BY <2>13, <3>1, <3>2 DEF TryResume
  <2>14. ASSUME Read
        PROVE  Frame
    <3>1. read' \in 0..Len(out)
      <4>1. Len(out) \in Nat /\ read \in 0..Len(out)
        BY <1>0, TypeFacts DEF TypeOK
      <4> QED
        BY <2>14, <4>1 DEF Read
    <3> QED
      BY <1>0, <2>14, <3>1 DEF Read, TypeOK, Polls
  <2>15. ASSUME Remake
        PROVE  Frame
    <3>1. pendingValue' \in Seq(1..Total) /\ sent' \in 0..Total
      BY <1>0, <2>15 DEF Remake, MakeRequest, TypeOK
    <3> QED
      BY <1>0, <2>15, <3>1 DEF Remake, TypeOK, Polls
  <2>16. ASSUME UNCHANGED vars
        PROVE  Frame
    BY <1>0, <2>16 DEF vars, TypeOK, Polls
  <2> HIDE DEF Frame
  <2>17. ASSUME Serve
        PROVE  Frame
    BY <2>5, <2>7, <2>11, <2>17 DEF Serve
  <2>18. TypeOK' /\ Polls'
    BY <1>3, <2>4, <2>6, <2>8, <2>9, <2>10, <2>12, <2>13, <2>14, <2>15, <2>16, <2>17 DEF Next
  <2> QED
    BY <2>1, <2>3, <2>18 DEF TInv, Given
<1> QED
  BY <1>2, <1>3

\* The types hold in every state of every behaviour.
LEMMA TypedAlways == Spec => []TInv
<1>1. Init => TInv
  <2> SUFFICES ASSUME Init
               PROVE  TInv
    OBVIOUS
  <2>1. TypeOK
    BY StreamInit DEF SInv
  <2>2. <<>> \in Seq(DataChunks) /\ RowsWhole
    BY EmptySeq DEF Init, RowsWhole
  <2> QED
    BY <2>1, <2>2, StreamAssumption DEF Init, TInv, Polls
<1> QED
  BY <1>1, TypedStep, PTL DEF Spec

\* Every variable stays in its type, whatever breaks and whenever.
THEOREM StreamTypes == Spec => []TypeOK
<1>1. TInv => TypeOK
  BY DEF TInv
<1> QED
  BY <1>1, TypedAlways, PTL

\* Whatever breaks, and whenever, a row the reader gets has all its fields:
\* rows may be lost or repeated by a request repeated too early, or their
\* values be wrong, but none is short.
THEOREM RowsStayWhole == Spec => []RowsWhole
<1>1. TInv => RowsWhole
  BY DEF TInv
<1> QED
  BY <1>1, TypedAlways, PTL

---------------------------------------------------------------------------
(* The stream is never stuck                                               *)

\* What has still to happen, and can: a timer of _tryResume is set, a chunk
\* can be transformed or checked, the server can go on, the setImmediate
\* callback of retry() can run, or the error can be told.
CanMove ==
  \/ gate = "waiting"
  \/ inbox # <<>> /\ gate = "open"
  \/ pipe # <<>> /\ ~Paused /\ request # "dead"
  \/ request = "streaming" /\ (sent = Total \/ Len(pipe) < PipeSize)
  \/ request \in {"broken", "refused", "remaking", "abandoned"} /\ Settled
  \/ request = "dead" /\ (inbox = <<>> \/ gate # "open")

HasFlush(s) == \E i \in 1..Len(s) : s[i].final

\* A stream that takes no more has told its reader; one whose request is
\* done has endListener's chunk before it.
EndDue == /\ gate = "shut" => outcome # "open"
          /\ request = "done" /\ outcome = "open" => HasFlush(pipe) \/ HasFlush(inbox)

LEMMA FlushAppend ==
  ASSUME NEW s \in Seq(DataChunks), NEW c \in DataChunks
  PROVE  HasFlush(s) \/ c.final => HasFlush(Append(s, c))
<1>1. /\ Len(Append(s, c)) = Len(s) + 1 /\ Append(s, c)[Len(s) + 1] = c /\ Len(s) \in Nat
      /\ \A i \in 1..Len(s) : Append(s, c)[i] = s[i]
  BY AppendProperties, LenProperties
<1>2. 1..Len(s) \subseteq 1..Len(s) + 1 /\ Len(s) + 1 \in 1..Len(s) + 1
  BY <1>1
<1> QED
  BY <1>1, <1>2 DEF HasFlush

LEMMA FlushJoin ==
  ASSUME NEW s \in Seq(DataChunks), NEW t \in Seq(DataChunks)
  PROVE  HasFlush(s) \/ HasFlush(t) => HasFlush(s \o t)
<1> DEFINE w == s \o t
<1>1. /\ Len(w) = Len(s) + Len(t) /\ Len(s) \in Nat /\ Len(t) \in Nat
      /\ \A i \in 1..Len(s) + Len(t) : w[i] = IF i <= Len(s) THEN s[i] ELSE t[i - Len(s)]
  BY ConcatProperties, LenProperties
<1> HIDE DEF w
<1>2. ASSUME NEW i \in 1..Len(s)
      PROVE  i \in 1..Len(w) /\ w[i] = s[i]
  BY <1>1
<1>3. ASSUME NEW i \in 1..Len(t)
      PROVE  Len(s) + i \in 1..Len(w) /\ w[Len(s) + i] = t[i]
  BY <1>1
<1>4. HasFlush(s) \/ HasFlush(t) => HasFlush(w)
  BY <1>2, <1>3 DEF HasFlush
<1> QED
  BY <1>4 DEF w

LEMMA FlushTail ==
  ASSUME NEW s \in Seq(DataChunks), s # <<>>
  PROVE  HasFlush(s) => Head(s).final \/ HasFlush(Tail(s))
<1>1. /\ Head(s) = s[1] /\ Len(Tail(s)) = Len(s) - 1 /\ Len(s) \in Nat /\ Len(s) > 0
      /\ \A i \in 1..Len(Tail(s)) : Tail(s)[i] = s[i + 1]
  BY HeadTailProperties, LenProperties, EmptySeq
<1>2. ASSUME NEW i \in 1..Len(s), i # 1
      PROVE  i - 1 \in 1..Len(Tail(s)) /\ Tail(s)[i - 1] = s[i]
  BY <1>1, <1>2
<1> QED
  BY <1>1, <1>2 DEF HasFlush

\* Every step keeps the end due.
LEMMA EndDueStep == TInv /\ EndDue /\ [Next]_vars => EndDue'
<1> SUFFICES ASSUME TInv, EndDue, [Next]_vars
             PROVE  EndDue'
  OBVIOUS
<1>0. /\ pipe \in Seq(DataChunks) /\ queue \in Seq(DataChunks) /\ inbox \in Seq(DataChunks)
      /\ outcome \in {"open", "ended", "failed"}
  BY DEF TInv, TypeOK
<1> USE DEF requestVars, queueVars, valueVars, readerVars
<1>1. ASSUME request' # "done", UNCHANGED <<gate, outcome>>
      PROVE  EndDue'
  BY <1>1 DEF EndDue
<1>2. ASSUME request' # "done", outcome' # "open"
      PROVE  EndDue'
  BY <1>2 DEF EndDue
<1>3. CASE Start \/ Remake \/ Retry \/ Abandon
  BY <1>1, <1>3 DEF Start, Remake, Retry, Abandon
<1>4. CASE Report
  BY <1>2, <1>4 DEF Report
<1>5. CASE Serve
  <2>1. ASSUME NEW n \in 0..MaxChunk, NEW token \in BOOLEAN, NEW last \in BOOLEAN,
               Send(n, token, last)
        PROVE  EndDue'
    BY <1>1, <2>1 DEF Send
  <2>2. ASSUME NEW fault \in Faults, Break(fault)
        PROVE  EndDue'
    BY <1>1, <2>2 DEF Break
  <2>3. ASSUME End
        PROVE  EndDue'
    <3>1. FlushChunk \in DataChunks /\ FlushChunk.final
      BY EndsInside DEF FlushChunk, DataChunks, Chunks, Bare
    <3>2. HasFlush(Append(pipe, FlushChunk))
      BY <1>0, <3>1, FlushAppend
    <3> QED
      BY <2>3, <3>2 DEF End, EndDue
  <2> QED
    BY <1>5, <2>1, <2>2, <2>3 DEF Serve
<1>6. CASE Checkpoint
  <2> DEFINE c == Head(pipe)
             held == Append(queue, c)
  <2>1. /\ pipe # <<>> /\ pipe' = Tail(pipe)
        /\ inbox' = IF Releases(c) THEN inbox \o held ELSE inbox
        /\ UNCHANGED <<gate, outcome, request>>
    BY <1>6 DEF Checkpoint
  <2>2. c \in DataChunks
    BY <1>0, <2>1, HeadTailProperties
  <2>3. held \in Seq(DataChunks) /\ (c.final => HasFlush(held))
    BY <1>0, <2>2, AppendProperties, FlushAppend
  <2>4. c.final => Releases(c)
    BY <2>2 DEF DataChunks, Releases
  <2>5. HasFlush(pipe) => c.final \/ HasFlush(pipe')
    BY <1>0, <2>1, FlushTail
  <2> HIDE DEF held, c
  <2>6. HasFlush(inbox) \/ HasFlush(held) => HasFlush(inbox \o held)
    BY <1>0, <2>3, FlushJoin
  <2>7. HasFlush(pipe) \/ HasFlush(inbox) => HasFlush(pipe') \/ HasFlush(inbox')
    BY <2>1, <2>3, <2>4, <2>5, <2>6
  <2> QED
    BY <2>1, <2>7 DEF EndDue
<1>7. CASE Transform
  <2> DEFINE c == Head(inbox)
  <2>1. /\ inbox # <<>> /\ inbox' = Tail(inbox) /\ gate = "open" /\ pipe' = pipe
        /\ request' = request
        /\ IF c.final \/ c.last
           THEN outcome' # "open"
           ELSE gate' # "shut" /\ outcome' = outcome
    BY <1>0, <1>7 DEF Transform
  <2>2. HasFlush(inbox) => c.final \/ HasFlush(inbox')
    BY <1>0, <2>1, FlushTail
  <2> HIDE DEF c
  <2> QED
    BY <2>1, <2>2 DEF EndDue
<1>8. CASE TryResume
  <2>1. /\ UNCHANGED <<pipe, inbox, request>>
        /\ \/ gate' = "open" /\ outcome' = outcome
           \/ gate' = "shut" /\ outcome' # "open"
           \/ gate' = gate /\ outcome' = outcome
    BY <1>0, <1>8 DEF TryResume, FailedPush
  <2> QED
    BY <2>1 DEF EndDue
<1>9. CASE Read \/ UNCHANGED vars
  BY <1>9 DEF Read, vars, EndDue
<1> QED
  BY <1>3, <1>4, <1>5, <1>6, <1>7, <1>8, <1>9 DEF Next

\* A stream that was started and has told its reader nothing yet has something
\* left to do that does not wait for its reader: however chunks are held back,
\* readers stall and requests break, its parts do not wait for one another.
THEOREM NeverStuck == Spec => [](request # "idle" /\ outcome = "open" => CanMove)
<1>1. Init => EndDue
  BY DEF Init, EndDue
<1>2. TInv /\ EndDue => (request # "idle" /\ outcome = "open" => CanMove)
  <2> SUFFICES ASSUME TInv, EndDue, request # "idle", outcome = "open", ~CanMove
               PROVE  FALSE
    OBVIOUS
  <2>1. gate = "open"
    BY DEF TInv, TypeOK, EndDue, CanMove
  <2>2. inbox = <<>>
    BY <2>1 DEF CanMove
  <2>3. ~Paused
    BY <2>1, StreamAssumption DEF TInv, Polls, Paused
  <2>4. request # "dead"
    BY <2>2 DEF CanMove
  <2>5. pipe = <<>> /\ Len(pipe) = 0
    BY <2>3, <2>4, EmptySeq DEF CanMove
  <2>6. Settled
    BY <2>2, <2>5 DEF Settled
  <2>7. request = "done"
    BY <2>4, <2>5, <2>6, StreamAssumption DEF CanMove, TInv, TypeOK
  <2>8. ~HasFlush(pipe) /\ ~HasFlush(inbox)
    BY <2>2, <2>5 DEF HasFlush
  <2> QED
    BY <2>7, <2>8 DEF EndDue
<1> QED
  BY <1>1, <1>2, EndDueStep, TypedAlways, PTL DEF Spec

---------------------------------------------------------------------------
(* What follows                                                            *)

\* The invariant holds as long as no request is repeated too early and no token
\* leaves what is kept for resuming behind.
LEMMA StreamInvariant == Spec /\ RetriesDrained /\ TokensKeepHalf => []SInv
<1>1. SInv /\ [Next]_vars /\ [DrainedRetry]_vars /\ [TokenKeepsHalf]_vars => SInv'
  BY StreamInductive
<1> QED
  BY <1>1, StreamInit, PTL DEF Spec, RetriesDrained, TokensKeepHalf

\* If no request breaks in a way that is repeated while a slow reader is
\* served, then what is broken in that way has a reader that keeps up.
KeptUp == request \in {"broken", "remaking"} => KeepsUp

LEMMA KeptUpStep ==
  ASSUME RepeatPaused = FALSE, KeptUp, [Next]_vars
  PROVE  KeptUp'
<1>1. ASSUME NEW fault \in Faults, Break(fault)
      PROVE  KeptUp'
  BY <1>1 DEF Break, KeptUp, KeepsUp
<1>2. CASE Start \/ Abandon \/ Remake
  BY <1>2 DEF Start, Abandon, Remake, KeptUp
<1>3. CASE Retry
  BY <1>3 DEF Retry, KeptUp, KeepsUp
<1>4. ASSUME UNCHANGED <<request, highWater>>
      PROVE  KeptUp'
  BY <1>4 DEF KeptUp, KeepsUp
<1>5. ASSUME NEW n \in 0..MaxChunk, NEW token \in BOOLEAN, NEW last \in BOOLEAN,
             Send(n, token, last)
      PROVE  KeptUp'
  BY <1>4, <1>5 DEF Send
<1>6. CASE End
  BY <1>6 DEF End, KeptUp
<1>7. CASE Checkpoint \/ Transform \/ TryResume \/ Read \/ Report \/ UNCHANGED vars
  BY <1>4, <1>7 DEF Checkpoint, Transform, TryResume, Read, Report, requestVars, vars
<1> QED
  BY <1>1, <1>2, <1>3, <1>5, <1>6, <1>7 DEF Next, Serve

\* A broken request whose reader keeps up is repeated when all it brought has
\* been transformed: nothing waits for the reader.
LEMMA KeptUpDrains == SInv /\ KeptUp /\ [Next]_vars => [DrainedRetry]_vars
<1> SUFFICES ASSUME SInv, KeptUp, [Next]_vars, request = "broken", request' = "remaking"
             PROVE  pipe = <<>> /\ (inbox = <<>> \/ LastTaken)
  BY DEF DrainedRetry
<1>1. Retry
  BY DEF Next, Start, Serve, Send, End, Break, Checkpoint, Transform, TryResume, Read, Retry,
         Remake, Abandon, Report, requestVars, vars
<1>2. gate \in {"open", "shut"} /\ numPushFailed = 0 /\ numPushFailed < MaxResumeRetries
  BY StreamAssumption DEF KeptUp, SInv, TypeOK, Control
<1> QED
  BY <1>1, <1>2 DEF Retry, Settled, Paused, LastTaken

\* Where no value is unfinished up to a token without values, what is kept for
\* resuming is nothing, as it should be.
HarmlessTokens == \A t \in BareTokens : 1..t \subseteq ValueEnds

LEMMA HarmlessKeeps ==
  ASSUME HarmlessTokens, SInv, TInv, Checkpoint, Bare(Head(pipe))
  PROVE  Half(Head(pipe).to) = Half(lastResumeToken)
<1> PICK d \in 0..Total, p \in 0..Total, q \in 0..Total : At(d, p, q)
  BY DEF SInv
<1>1. /\ pipe # <<>> /\ pipe \in Seq(Chunks) /\ pipe \in Seq(DataChunks)
      /\ Total \in Nat /\ sent \in 0..Total
  BY TypeFacts DEF SInv, TInv, Checkpoint
<1>2. Head(pipe) \in DataChunks /\ Head(pipe) \in Chunks
  BY <1>1, HeadTailProperties
<1> PICK c \in Chunks : c = Head(pipe) /\ c \in DataChunks
  BY <1>2
<1>3. c.to \in BareTokens /\ c.to \in 0..Total /\ c.from <= c.to + 1
  BY DEF DataChunks, Chunks
<1>4. c.from = q + 1
  BY <1>1, SpansTail DEF At, InLine
<1>5. lastResumeToken <= q /\ lastResumeToken \in 0..Total
  BY DEF At, Resumable, SInv, TypeOK
<1>6. lastResumeToken <= c.to
  BY <1>1, <1>3, <1>4, <1>5
<1>7. ASSUME NEW t \in 0..Total, t <= c.to
      PROVE  Half(t) = <<>>
  <2>1. t = 0 \/ t \in 1..c.to
    BY <1>3, <1>7
  <2>2. 1..c.to \subseteq ValueEnds
    BY <1>3 DEF HarmlessTokens
  <2> QED
    BY <2>1, <2>2, HalfNone
<1> QED
  BY <1>3, <1>5, <1>6, <1>7

\* As long as no request breaks in a way that is repeated while a slow reader
\* is served, and tokens without values come only before the first value that
\* is split, no request is repeated too early and no token leaves what is kept
\* for resuming behind.
THEOREM Drains ==
  RepeatPaused = FALSE /\ HarmlessTokens => (Spec => RetriesDrained /\ TokensKeepHalf)
<1> SUFFICES ASSUME RepeatPaused = FALSE, HarmlessTokens
             PROVE  Spec => RetriesDrained /\ TokensKeepHalf
  OBVIOUS
<1>1. Init => SInv /\ KeptUp
  BY StreamInit DEF Init, KeptUp
<1>2. SInv /\ KeptUp /\ [Next]_vars => [DrainedRetry]_vars
  BY KeptUpDrains
<1>3. SInv /\ TInv => [TokenKeepsHalf]_vars
  BY HarmlessKeeps DEF TokenKeepsHalf
<1>4. SInv /\ [Next]_vars /\ [DrainedRetry]_vars /\ [TokenKeepsHalf]_vars => SInv'
  BY StreamInductive
<1>5. KeptUp /\ [Next]_vars => KeptUp'
  BY KeptUpStep
<1> QED
  BY <1>1, <1>2, <1>3, <1>4, <1>5, TypedAlways, PTL DEF Spec, RetriesDrained, TokensKeepHalf

\* A request that is not repeated too early, after tokens that left nothing
\* behind, is repeated from the very state the token left.
THEOREM ResumesIfDrained == Spec /\ RetriesDrained /\ TokensKeepHalf => ResumesWhereItStopped
<1>1. Spec /\ RetriesDrained /\ TokensKeepHalf => []SInv
  BY StreamInvariant
<1>2. ASSUME SInv, Remake
      PROVE  /\ pendingValue' = Half(lastResumeToken)
             /\ Len(values) = (ValueOf(lastResumeToken + 1) - 1) % Width
  <2> PICK d \in 0..Total, p \in 0..Total, q \in 0..Total : At(d, p, q)
    BY <1>2 DEF SInv
  <2>1. /\ pendingValue' = Half(lastResumeToken) /\ Assembled(lastResumeToken)
        /\ lastResumeToken = d
    BY <1>2, RemakeFinds
  <2>2. Len(out) * Width + Len(values) = Complete(d)
    BY <2>1 DEF Assembled
  <2>3. /\ Len(values) \in Nat /\ Len(values) < Width /\ Width \in Nat \ {0}
        /\ Len(out) \in Nat /\ d \in Nat
    BY <1>2, EndsInside, LenProperties DEF SInv, TypeOK
  <2>4. Len(values) = Complete(d) % Width
    <3> DEFINE k == Len(out)
               l == Len(values)
    <3>1. k * Width + l = Complete(d) /\ k \in Nat /\ l \in Nat /\ l < Width /\ Width \in Nat \ {0}
      BY <2>2, <2>3
    <3> HIDE DEF k, l
    <3>2. (k * Width + l) % Width = l
      BY <3>1, RowsUnique
    <3> QED
      BY <3>1, <3>2 DEF l
  <2>5. (d + 1) - 1 = d /\ Complete(d) \in Nat
    BY <2>3, CompleteType
  <2>6. ValueOf(d + 1) - 1 = Complete(d)
    BY <2>5 DEF ValueOf
  <2> QED
    BY <2>1, <2>4, <2>6
<1>3. SInv /\ [Next]_vars =>
        [Remake => /\ pendingValue' = Half(lastResumeToken)
                   /\ Len(values) = (ValueOf(lastResumeToken + 1) - 1) % Width]_vars
  BY <1>2
<1> QED
  BY <1>1, <1>3, PTL DEF Spec, ResumesWhereItStopped

\* While requests are repeated only for readers that keep up, and tokens without
\* values come only before the first value that is split, each is repeated from
\* the very state the token left.
THEOREM Resumes ==
  RepeatPaused = FALSE /\ HarmlessTokens => (Spec => ResumesWhereItStopped)
<1> SUFFICES ASSUME RepeatPaused = FALSE, HarmlessTokens
             PROVE  Spec => ResumesWhereItStopped
  OBVIOUS
<1>1. Spec => RetriesDrained /\ TokensKeepHalf
  BY Drains
<1> QED
  BY <1>1, ResumesIfDrained, PTL

LEMMA AllRows ==
  ASSUME NEW o \in Seq(Seq(Seq(1..Total))), NEW l \in Nat, l < Width,
         o = SubSeq(Rows, 1, Len(o)), Len(o) * Width + l = Complete(Total)
  PROVE  o = Rows
<1> DEFINE k == Len(o)
           N == Len(Rows)
<1>1. /\ k \in Nat /\ Width \in Nat \ {0} /\ N \in Nat /\ N * Width = Count /\ 0 < Width
      /\ k * Width + l = Count
  BY RowsFound, EndsInside, LenProperties, CompleteAll DEF Count
<1> HIDE DEF k, N
<1>2. (k * Width + l) \div Width = k /\ (N * Width + 0) \div Width = N
  BY <1>1, RowsUnique
<1>3. N * Width + 0 = k * Width + l
  BY <1>1
<1>4. k = N
  BY <1>2, <1>3
<1> QED
  BY <1>4, RowsFound, SubSeqFull DEF k, N

LEMMA TransformReads == SInv /\ Transform => Reader!RowNext \/ UNCHANGED <<out, outcome>>
<1> SUFFICES ASSUME SInv, Transform
             PROVE  Reader!RowNext \/ UNCHANGED <<out, outcome>>
  OBVIOUS
<1> PICK d \in 0..Total, p \in 0..Total, q \in 0..Total : At(d, p, q)
  BY DEF SInv
<1> PICK c \in Chunks :
             /\ c = Head(inbox) /\ Sound(c, request) /\ c.to \in 0..Total
             /\ ValuesType' /\ Assembled(c.to)' /\ Len(out) <= Len(out')
             /\ Spans(Tail(inbox), c.to, p)
             /\ c.final \/ c.last => c.to = Total
             /\ c.final => out' = out
             /\ pendingForResume' = IF Renews(c) THEN Half(c.to) ELSE pendingForResume
  BY TransformMoves
<1>1. outcome \in {"open", "failed"}
  BY DEF SInv, TypeOK, Control, Transform
<1>2. \/ outcome' = outcome
      \/ (c.final \/ c.last) /\ outcome = "open" /\ outcome' = "ended"
  BY DEF Transform
<1>3. CASE (c.final \/ c.last) /\ outcome = "open" /\ outcome' = "ended"
  <2>1. Assembled(Total)'
    BY <1>3
  <2>2. /\ out' \in Seq(Seq(Seq(1..Total))) /\ Len(values') \in Nat /\ Len(values') < Width
        /\ out' = SubSeq(Rows, 1, Len(out'))
        /\ Len(out') * Width + Len(values') = Complete(Total)
    BY <2>1, LenProperties DEF ValuesType, Assembled
  <2>3. out' = Rows
    BY <2>2, AllRows
  <2> QED
    BY <1>3, <2>3 DEF Reader!RowNext, Reader!Finish
<1>4. CASE outcome' = outcome
  <2>1. /\ Len(out) \in Nat /\ Len(out') \in Nat /\ Len(Rows) \in Nat
        /\ out' = SubSeq(Rows, 1, Len(out')) /\ Len(out') <= Len(Rows)
        /\ out = SubSeq(Rows, 1, Len(out))
    BY TypeFacts, RowsFound, LenProperties DEF SInv, ValuesType, At, Assembled
  <2>2. CASE Len(out') = Len(out)
    BY <1>4, <2>1, <2>2
  <2>3. CASE Len(out') # Len(out)
    <3>1. Len(out') \in Len(out) + 1..Len(Rows)
      <4> DEFINE a == Len(out)
                 b == Len(out')
                 n == Len(Rows)
      <4>1. a \in Nat /\ b \in Nat /\ n \in Nat /\ a <= b /\ b <= n /\ a # b
        BY <2>1, <2>3
      <4> HIDE DEF a, b, n
      <4>2. b \in a + 1..n
        BY <4>1
      <4> QED
        BY <4>2 DEF a, b, n
    <3>2. Reader!Deliver
      BY <1>1, <1>4, <2>1, <3>1 DEF Reader!Deliver
    <3> QED
      BY <3>2 DEF Reader!RowNext
  <2> QED
    BY <2>2, <2>3
<1> QED
  BY <1>2, <1>3, <1>4

LEMMA StepReads == SInv /\ [Next]_vars => [Reader!RowNext]_<<out, outcome>>
<1> SUFFICES ASSUME SInv, [Next]_vars
             PROVE  Reader!RowNext \/ UNCHANGED <<out, outcome>>
  OBVIOUS
<1>1. CASE Transform
  BY <1>1, TransformReads
<1>2. CASE TryResume
  <2>1. outcome # "ended" /\ out' = out
    BY <1>2 DEF TryResume, SInv, Control
  <2>2. outcome' = outcome \/ (outcome = "open" /\ outcome' = "failed")
    BY <1>2 DEF TryResume, FailedPush
  <2> QED
    BY <2>1, <2>2 DEF Reader!RowNext, Reader!Fail
<1>3. CASE Report
  BY <1>3 DEF Report, Reader!RowNext, Reader!Fail
<1>4. CASE Start \/ Serve \/ Checkpoint \/ Read \/ Retry \/ Remake \/ Abandon \/ UNCHANGED vars
  BY <1>4 DEF Start, Serve, Send, End, Break, Checkpoint, Read, Retry, Remake, Abandon, vars, readerVars
<1> QED
  BY <1>1, <1>2, <1>3, <1>4 DEF Next

\* Whatever breaks, the stream of rows is the one the reader is promised, as
\* long as no request is repeated too early and no token leaves what is kept for
\* resuming behind.
THEOREM RowStreamIfDrained == Spec /\ RetriesDrained /\ TokensKeepHalf => RefinesRowStream
<1>1. Init => Reader!RowInit
  BY DEF Init, Reader!RowInit
<1>2. SInv /\ [Next]_vars => [Reader!RowNext]_<<out, outcome>>
  BY StepReads
<1> QED
  BY <1>1, <1>2, StreamInvariant, PTL DEF Spec, RefinesRowStream, Reader!RowSpec

\* Of a result cut, broken and resumed in any other way a reader sees no row
\* twice and none out of order; and told that the stream has ended he has seen
\* them all.
THEOREM RowsInOrder ==
  Spec /\ RetriesDrained /\ TokensKeepHalf
    => [](NothingTwice /\ (outcome = "ended" => out = Rows))
<1>1. SInv => NothingTwice
  BY DEF SInv, At, Assembled, NothingTwice
<1>2. Init => (outcome = "ended" => out = Rows)
  BY DEF Init
<1>3. /\ outcome = "ended" => out = Rows
      /\ [Reader!RowNext]_<<out, outcome>>
      => (outcome = "ended" => out = Rows)'
  BY DEF Reader!RowNext, Reader!Deliver, Reader!Finish, Reader!Fail
<1>4. SInv /\ [Next]_vars => [Reader!RowNext]_<<out, outcome>>
  BY StepReads
<1> QED
  BY <1>1, <1>2, <1>3, <1>4, StreamInvariant, PTL DEF Spec

\* partialResultStream() implements the stream of rows its reader is promised,
\* while requests are repeated only for readers that keep up and tokens without
\* values come only before the first value that is split.
THEOREM ImplementsRowStream ==
  RepeatPaused = FALSE /\ HarmlessTokens => (Spec => RefinesRowStream)
<1> SUFFICES ASSUME RepeatPaused = FALSE, HarmlessTokens
             PROVE  Spec => RefinesRowStream
  OBVIOUS
<1>1. Spec => RetriesDrained /\ TokensKeepHalf
  BY Drains
<1> QED
  BY <1>1, RowStreamIfDrained, PTL
=============================================================================

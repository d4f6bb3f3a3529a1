------------------------- MODULE TransactionProofs -------------------------
(***************************************************************************)
(* Proofs about Transaction, for any number of streams and batches, broken *)
(* requests and repeated commits.                                          *)
(***************************************************************************)
EXTENDS Transaction, TLAPS

Phases == {"idle", "open", "waiting", "sent", "flowing", "broken", "ok", "failed"}

---------------------------------------------------------------------------
(* Types                                                                   *)

LEMMA TypeInit == ASSUME Init PROVE TypeOK
  <1>1. /\ inRunner \in BOOLEAN /\ begun \in BOOLEAN /\ ended \in BOOLEAN
        /\ retried \in BOOLEAN /\ hopeless \in BOOLEAN
    BY DEF Init
  <1>2. /\ id \in Nat /\ token \in Nat /\ carried \in Nat /\ target \in Nat
        /\ started \in Nat /\ issued \in Nat /\ committed \in Nat
        /\ breaks \in 0..MaxBreaks /\ asks \in 0..MaxAsks
    BY CallAssumption DEF Init, None
  <1>3. /\ phase \in [Calls -> Phases] /\ direct \in [Calls -> BOOLEAN]
        /\ selector \in [Calls -> Nat] /\ ranIn \in [Calls -> Nat] /\ reply \in [Calls -> Nat]
    BY DEF Init, None, Phases
  <1> QED BY <1>1, <1>2, <1>3 DEF Init, TypeOK, Phases

\* Requests are sent with a transaction id or with None.
LEMMA SendType ==
  ASSUME TypeOK, NEW S, NEW with \in Nat, NEW ph \in [Calls -> Phases], Send(S, with, ph)
  PROVE  /\ phase' \in [Calls -> Phases]
         /\ selector' \in [Calls -> Nat]
  BY DEF Send, TypeOK, Phases

LEMMA HearType ==
  ASSUME TypeOK, NEW t \in Nat, Hear(t)
  PROVE  token' \in Nat /\ heard' \subseteq Nat
  BY DEF Hear, UpdatePrecommitToken, TypeOK, None

LEMMA MakeRequestType ==
  ASSUME TypeOK, NEW r \in Streams, MakeRequest(r)
  PROVE  /\ phase' \in [Calls -> Phases]
         /\ selector' \in [Calls -> Nat]
  <1>1. phase \in [Calls -> Phases] /\ id \in Nat
    BY DEF TypeOK, Phases
  <1>2. CASE direct[r] /\ Send({r}, id, phase)
    BY <1>1, <1>2, SendType
  <1>3. CASE ~direct[r] /\ phase' = [phase EXCEPT ![r] = "waiting"] /\ UNCHANGED selector
    BY <1>3 DEF TypeOK, Phases
  <1> QED BY <1>2, <1>3 DEF MakeRequest

LEMMA UserType == ASSUME TypeOK, User PROVE TypeOK'
  <1>1. ASSUME NEW r \in Streams, OpenStream(r) PROVE TypeOK'
    BY <1>1 DEF OpenStream, WrapWithIdWaiter, TypeOK, commitVars, backendVars, countVars, None
  <1>2. ASSUME NEW r \in Streams, ReadStream(r) PROVE TypeOK'
    <2>1. phase' \in [Calls -> Phases] /\ selector' \in [Calls -> Nat]
      BY <1>2, MakeRequestType DEF ReadStream
    <2> QED BY <1>2, <2>1 DEF ReadStream, RequestFrame, TypeOK, Phases, txVars, commitVars, backendVars, countVars
  <1>3. ASSUME NEW b \in Batches, BatchUpdate(b) PROVE TypeOK'
    <2>1. phase' \in [Calls -> Phases] /\ selector' \in [Calls -> Nat]
      BY <1>3, SendType DEF BatchUpdate, TypeOK, Phases
    <2> QED BY <1>3, <2>1 DEF BatchUpdate, RequestFrame, TypeOK, Phases, txVars, commitVars, backendVars, countVars
  <1>4. ASSUME Begin PROVE TypeOK'
    BY <1>4 DEF Begin, TypeOK, txVars, callVars, commitVars, backendVars, countVars
  <1>5. ASSUME Commit PROVE TypeOK'
    BY <1>5 DEF Commit, SendCommit, TypeOK, callVars, backendVars, countVars
  <1>6. ASSUME Rollback PROVE TypeOK'
    BY <1>6 DEF Rollback, TypeOK, txVars, callVars, backendVars, countVars
  <1>7. ASSUME End PROVE TypeOK'
    BY <1>7 DEF End, TypeOK, callVars, commitVars, backendVars, countVars
  <1> QED BY <1>1, <1>2, <1>3, <1>4, <1>5, <1>6, <1>7 DEF User

LEMMA AnswerType == ASSUME TypeOK, NEW c \in Calls, Answer(c) PROVE TypeOK'
  <1>1. ASSUME NEW withToken \in BOOLEAN, Execute(c, withToken) PROVE TypeOK'
    BY <1>1 DEF Execute, TypeOK, txVars, commitVars, countVars, None
  <1>2. ASSUME Respond(c) PROVE TypeOK'
    <2> DEFINE ph == [phase EXCEPT ![c] = IF c \in Streams THEN "flowing" ELSE "ok"]
    <2>1. ph \in [Calls -> Phases] /\ reply[c] \in Nat /\ ranIn[c] \in Nat
      BY DEF TypeOK, Phases
    <2>2. token' \in Nat /\ heard' \subseteq Nat
      BY <1>2, <2>1, HearType DEF Respond, TakeResponse
    <2>3. /\ phase' \in [Calls -> Phases]
          /\ selector' \in [Calls -> Nat]
          /\ id' \in Nat
      <3>1. CASE id = None /\ selector[c] = None
        <4>1. id' = ranIn[c] /\ Send(Waiting, ranIn[c], ph)
          BY <1>2, <3>1 DEF Respond, TakeResponse, Update
        <4> QED BY ONLY <4>1, <2>1, SendType, TypeOK
      <3>2. CASE ~(id = None /\ selector[c] = None)
        BY <1>2, <2>1, <3>2 DEF Respond, TakeResponse, TypeOK
      <3> QED BY <3>1, <3>2
    <2> QED BY <1>2, <2>2, <2>3 DEF Respond, TypeOK, Phases, commitVars, backendVars, countVars, None
  <1>3. ASSUME NEW aborted \in BOOLEAN, Fail(c, aborted) PROVE TypeOK'
    BY <1>3 DEF Fail, Forget, Rescue, TypeOK, txVars, commitVars, backendVars, countVars, None
  <1> QED BY <1>1, <1>2, <1>3 DEF Answer

LEMMA StreamType ==
  ASSUME TypeOK, NEW r \in Streams, Complete(r) \/ Break(r) \/ Repeat(r)
  PROVE  TypeOK'
  <1>0. r \in Calls
    BY DEF Calls
  <1>1. CASE Complete(r)
    BY <1>0, <1>1 DEF Complete, RequestFrame, TypeOK, txVars, commitVars, backendVars, countVars
  <1>2. CASE Break(r)
    BY <1>0, <1>2, CallAssumption DEF Break, Forget, TypeOK, txVars, commitVars, backendVars, None
  <1>3. CASE Repeat(r)
    <2>1. phase' \in [Calls -> Phases] /\ selector' \in [Calls -> Nat]
      BY <1>3, MakeRequestType DEF Repeat
    <2> QED BY <1>3, <2>1 DEF Repeat, RequestFrame, TypeOK, Phases, txVars, commitVars, backendVars, countVars
  <1> QED BY <1>1, <1>2, <1>3

LEMMA BeginType ==
  ASSUME TypeOK, NEW who \in {"user", "stream", "commit"}, BeginAnswer(who)
  PROVE  TypeOK'
  <1>1. ASSUME NEW t \in {None, issued + 1}, BeginOk(who, t) PROVE TypeOK'
    <2>1. t \in Nat /\ started + 1 \in Nat /\ phase \in [Calls -> Phases]
      BY DEF TypeOK, Phases, None
    <2>2. token' \in Nat /\ heard' \subseteq Nat
      BY <1>1, <2>1, HearType DEF BeginOk
    <2>3. id' = started + 1 /\ Send(Waiting, started + 1, phase)
      BY <1>1 DEF BeginOk, Update
    <2>4. phase' \in [Calls -> Phases] /\ selector' \in [Calls -> Nat]
      BY ONLY <2>1, <2>3, SendType, TypeOK
    <2>5. commit' \in {"none", "beginning", "sent", "ok", "failed"} /\ target' \in Nat /\ carried' \in Nat
      BY <1>1, <2>1, <2>2 DEF BeginOk, AfterBegin, SendCommit, TypeOK
    <2> QED BY <1>1, <2>1, <2>2, <2>3, <2>4, <2>5 DEF BeginOk, TypeOK, Phases, countVars
  <1>2. ASSUME BeginFail(who) PROVE TypeOK'
    BY <1>2 DEF BeginFail, TypeOK, txVars, callVars, backendVars, countVars
  <1> QED BY <1>1, <1>2 DEF BeginAnswer

LEMMA CommitType == ASSUME TypeOK, CommitAnswer \/ RollbackDone PROVE TypeOK'
  <1>1. CASE CommitAsked
    <2>1. issued' = issued + 1 /\ issued' \in Nat /\ asks' \in 0..MaxAsks
      BY <1>1, CallAssumption DEF CommitAsked, TypeOK
    <2>2. CASE ~retried /\ Hear(issued') /\ SendCommit(id) /\ retried' = TRUE /\ UNCHANGED ended
      <3>1. token' \in Nat /\ heard' \subseteq Nat
        BY <2>1, <2>2, HearType
      <3> QED BY <1>1, <2>1, <2>2, <3>1 DEF CommitAsked, SendCommit, TypeOK, callVars
    <2>3. CASE retried /\ CommitDone("ok")
      BY <1>1, <2>1, <2>3 DEF CommitAsked, CommitDone, TypeOK, callVars
    <2> QED BY <1>1, <2>2, <2>3 DEF CommitAsked, AskedAgain
  <1>2. CASE CommitOk
    BY <1>2 DEF CommitOk, CommitDone, TypeOK, callVars, countVars
  <1>3. CASE CommitFail
    BY <1>3 DEF CommitFail, CommitDone, TypeOK, callVars, backendVars, countVars
  <1>4. CASE RollbackDone
    BY <1>4 DEF RollbackDone, TypeOK, callVars, backendVars, countVars
  <1> QED BY <1>1, <1>2, <1>3, <1>4 DEF CommitAnswer

LEMMA TypeNext == ASSUME TypeOK, [Next]_vars PROVE TypeOK'
  <1>1. CASE UNCHANGED vars
    BY <1>1 DEF vars, txVars, callVars, commitVars, backendVars, countVars, TypeOK
  <1> QED BY <1>1, UserType, AnswerType, StreamType, BeginType, CommitType DEF Next

\* The transaction's state, its requests and the backend's stay of their types.
THEOREM TypeCorrect == Spec => []TypeOK
  BY TypeInit, TypeNext, PTL DEF Spec

---------------------------------------------------------------------------
(* The precommit token                                                     *)

\* The token kept is the greatest of those received.
TokenNewest == /\ token \in heard \cup {None}
               /\ \A t \in heard : t <= token

\* This step sends a Commit request.
Sends == commit' = "sent" /\ (commit # "sent" \/ retried # retried')

LEMMA HearNewest ==
  ASSUME TypeOK, TokenNewest, NEW t \in Nat, Hear(t)
  PROVE  TokenNewest'
  BY DEF Hear, UpdatePrecommitToken, TokenNewest, TypeOK, None

LEMMA KeepNewest ==
  ASSUME TokenNewest, UNCHANGED <<token, heard>>
  PROVE  TokenNewest'
  BY DEF TokenNewest

\* What the user does leaves the token alone, and commit() sends it.
LEMMA UserNewest ==
  ASSUME TypeOK, TokenNewest, User
  PROVE  TokenNewest' /\ (Sends => carried' = token')
  <1>1. ASSUME NEW r \in Streams, OpenStream(r) \/ ReadStream(r)
        PROVE  UNCHANGED <<token, heard, commit, retried>>
    BY <1>1 DEF OpenStream, ReadStream, RequestFrame, txVars, commitVars
  <1>2. ASSUME NEW b \in Batches, BatchUpdate(b)
        PROVE  UNCHANGED <<token, heard, commit, retried>>
    BY <1>2 DEF BatchUpdate, RequestFrame, txVars, commitVars
  <1>3. ASSUME Begin \/ End PROVE UNCHANGED <<token, heard, commit, retried>>
    BY <1>3 DEF Begin, End, txVars, commitVars
  <1>4. ASSUME Rollback PROVE UNCHANGED <<token, heard, commit, retried>>
    BY <1>4 DEF Rollback, txVars
  <1>5. ASSUME Commit
        PROVE  UNCHANGED <<token, heard>> /\ (Sends => carried' = token')
    BY <1>5 DEF Commit, SendCommit, Sends
  <1>6. CASE Commit
    BY <1>5, <1>6, KeepNewest
  <1>7. CASE ~Commit
    <2>1. UNCHANGED <<token, heard, commit, retried>>
      BY <1>1, <1>2, <1>3, <1>4, <1>7 DEF User
    <2> QED BY <2>1, KeepNewest DEF Sends
  <1> QED BY <1>6, <1>7

\* An answer to a request may bring a token and sends nothing.
LEMMA AnswerNewest ==
  ASSUME TypeOK, TokenNewest, NEW c \in Calls, Answer(c)
  PROVE  TokenNewest' /\ (Sends => carried' = token')
  <1>1. UNCHANGED <<commit, retried>>
    BY DEF Answer, Execute, Respond, Fail, commitVars
  <1>2. ASSUME Respond(c) PROVE TokenNewest'
    <2>1. reply[c] \in Nat /\ Hear(reply[c])
      BY <1>2 DEF Respond, TakeResponse, TypeOK
    <2> QED BY <2>1, HearNewest
  <1>3. ASSUME ~Respond(c) PROVE TokenNewest'
    <2>1. UNCHANGED <<token, heard>>
      BY <1>3 DEF Answer, Execute, Fail, txVars
    <2> QED BY <2>1, KeepNewest
  <1> QED BY <1>1, <1>2, <1>3 DEF Sends

\* So may the answer to a BeginTransaction, and commit() then sends it.
LEMMA BeginNewest ==
  ASSUME TypeOK, TokenNewest, NEW who \in {"user", "stream", "commit"}, BeginAnswer(who)
  PROVE  TokenNewest' /\ (Sends => carried' = token')
  <1>1. ASSUME NEW t \in {None, issued + 1}, BeginOk(who, t)
        PROVE  TokenNewest' /\ (Sends => carried' = token')
    <2>1. t \in Nat
      BY DEF TypeOK, None
    <2>2. TokenNewest'
      BY <1>1, <2>1, HearNewest DEF BeginOk
    <2>3. Sends => carried' = token'
      BY <1>1 DEF BeginOk, AfterBegin, SendCommit, Sends
    <2> QED BY <2>2, <2>3
  <1>2. ASSUME BeginFail(who)
        PROVE  TokenNewest' /\ (Sends => carried' = token')
    <2>1. UNCHANGED <<token, heard>> /\ ~Sends
      BY <1>2 DEF BeginFail, txVars, Sends
    <2> QED BY <2>1, KeepNewest
  <1> QED BY <1>1, <1>2 DEF BeginAnswer

\* A commit that is repeated takes the token of the answer into account.
LEMMA CommitNewest ==
  ASSUME TypeOK, TokenNewest, CommitAnswer \/ RollbackDone
  PROVE  TokenNewest' /\ (Sends => carried' = token')
  <1>1. CASE CommitAsked /\ ~retried
    <2>1. issued' \in Nat
      BY <1>1 DEF CommitAsked, TypeOK
    <2>2. Hear(issued') /\ SendCommit(id)
      BY <1>1 DEF CommitAsked, AskedAgain
    <2> QED BY <2>1, <2>2, HearNewest DEF SendCommit
  <1>2. CASE ~(CommitAsked /\ ~retried)
    <2>1. UNCHANGED <<token, heard>> /\ ~Sends
      BY <1>2 DEF CommitAnswer, CommitAsked, AskedAgain, CommitOk, CommitFail, CommitDone,
                  RollbackDone, Sends
    <2> QED BY <2>1, KeepNewest
  <1> QED BY <1>1, <1>2

LEMMA NewestNext ==
  ASSUME TypeOK, TokenNewest, [Next]_vars
  PROVE  TokenNewest' /\ (Sends => carried' = token')
  <1>1. CASE UNCHANGED vars
    <2>1. UNCHANGED <<token, heard>> /\ ~Sends
      BY <1>1 DEF vars, txVars, commitVars, Sends
    <2> QED BY <2>1, KeepNewest
  <1>2. ASSUME NEW r \in Streams, Complete(r) \/ Break(r) \/ Repeat(r)
        PROVE  TokenNewest' /\ (Sends => carried' = token')
    <2>1. UNCHANGED <<token, heard>> /\ ~Sends
      BY <1>2 DEF Complete, Break, Repeat, RequestFrame, txVars, commitVars, Sends
    <2> QED BY <2>1, KeepNewest
  <1> QED BY <1>1, <1>2, UserNewest, AnswerNewest, BeginNewest, CommitNewest DEF Next

\* Whatever the order in which the responses arrive, every Commit request
\* carries the newest token received: the code of _updatePrecommitToken() and
\* the two places where commit() reads the token.
THEOREM NewestSent == Spec => SendsNewest
  <1>1. Init => TokenNewest
    BY DEF Init, TokenNewest
  <1>2. ASSUME TypeOK, TokenNewest, [Next]_vars
        PROVE  TokenNewest' /\ (Sends => /\ carried' \in heard' \cup {None}
                                        /\ \A t \in heard' : t <= carried')
    BY <1>2, NewestNext DEF TokenNewest
  <1>3. TypeOK /\ TokenNewest /\ [Next]_vars => TokenNewest'
    BY <1>2
  <1>4. TypeOK /\ TokenNewest /\ [Next]_vars =>
          [Sends => /\ carried' \in heard' \cup {None}
                    /\ \A t \in heard' : t <= carried']_vars
    BY <1>2
  <1> QED BY <1>1, <1>3, <1>4, TypeCorrect, PTL DEF Spec, SendsNewest, Sends

---------------------------------------------------------------------------
(* One inline begin                                                        *)

\* Stream r was opened, and is to make its request itself.
Direct(r) == phase[r] # "idle" /\ direct[r]

\* No batchUpdate() starts while the id is on its way, and no stream is read
\* first while one is under way.
Apart == /\ \A b \in Batches : BatchUpdate(b) => id # None \/ Quiet
         /\ \A r \in Streams :
              ReadStream(r) => id # None \/ \A b \in Batches : ~Busy(b)
BatchesApart == [][Apart]_vars

\* Until the id is known one stream may ask for it, or one batch on its own.
OneStarter ==
  id = None =>
    /\ \A r \in Streams : Direct(r) => begun
    /\ \A r, s \in Streams : Direct(r) /\ Direct(s) => r = s
    /\ \A r \in Streams : Begins(r) => Direct(r)
    /\ \A b \in Batches, c \in Calls : Busy(b) /\ Busy(c) => b = c

BeginInv == OneStarter /\ BeginsOnce

LEMMA BeginInit == Init => BeginInv
  BY DEF Init, BeginInv, OneStarter, BeginsOnce, Direct, Begins, Busy, Calls

\* Sending with an id begins nothing, and once there is an id nobody starts.
LEMMA SendWithId ==
  ASSUME TypeOK, BeginsOnce, NEW S, NEW t \in Nat \ {None},
         NEW ph \in [Calls -> Phases], Send(S, t, ph),
         \A c \in Calls : ph[c] = "sent" => phase[c] = "sent"
  PROVE  BeginsOnce'
  BY DEF Send, BeginsOnce, Begins, TypeOK

\* The request of a stream: if there is no id, it is the one that begins.
LEMMA RequestBegins ==
  ASSUME TypeOK, BeginInv, NEW r \in Streams, MakeRequest(r),
         UNCHANGED <<id, direct, begun>>,
         phase[r] \in {"open", "broken"},
         phase[r] = "open" => (id # None \/ \A b \in Batches : ~Busy(b))
  PROVE  BeginInv'
  <1>1. CASE id # None /\ direct[r]
    <2>1. Send({r}, id, phase) /\ id \in Nat \ {None} /\ phase \in [Calls -> Phases]
      BY <1>1 DEF MakeRequest, TypeOK, Phases
    <2>2. BeginsOnce'
      BY <2>1, SendWithId DEF BeginInv
    <2> QED BY <1>1, <2>2 DEF BeginInv, OneStarter
  <1>2. CASE id # None /\ ~direct[r]
    BY <1>2 DEF MakeRequest, BeginInv, OneStarter, BeginsOnce, Begins, TypeOK
  <1>3. CASE id = None
    <2>1. r \in Calls /\ r \notin Batches
      BY CallAssumption DEF Calls
    <2>2. \A b \in Batches : ~Busy(b)
      BY <1>3, <2>1 DEF BeginInv, OneStarter, Busy, Calls
    <2>3. \A c \in Calls : c # r => phase'[c] = phase[c] /\ selector'[c] = selector[c]
      BY <2>1 DEF MakeRequest, Send, TypeOK
    <2>4. phase'[r] \in {"sent", "waiting"} /\ (phase'[r] = "sent" => direct[r])
      BY <2>1 DEF MakeRequest, Send, TypeOK
    <2>5. \A b \in Batches : ~Busy(b)'
      BY <2>1, <2>2, <2>3 DEF Busy, Calls
    <2>6. \A s \in Streams : Direct(s)' <=> Direct(s)
      BY <2>1, <2>3, <2>4 DEF Direct, Calls
    <2>7. \A s \in Streams : Begins(s)' => Direct(s)'
      BY <1>3, <2>3, <2>4, <2>6 DEF BeginInv, OneStarter, Begins, Direct, Calls
    <2>8. OneStarter'
      BY <1>3, <2>5, <2>6, <2>7 DEF BeginInv, OneStarter
    <2>9. \A c \in Calls : Begins(c)' => c \in Streams
      BY <2>5 DEF Begins, Busy, Calls
    <2>10. BeginsOnce'
      BY <1>3, <2>8, <2>9 DEF OneStarter, BeginsOnce
    <2> QED BY <2>8, <2>10 DEF BeginInv
  <1> QED BY <1>1, <1>2, <1>3

LEMMA UserBegins ==
  ASSUME TypeOK, BeginInv, Apart, User
  PROVE  BeginInv'
  <1>1. ASSUME NEW r \in Streams, OpenStream(r) PROVE BeginInv'
    <2>1. /\ r \in Calls /\ r \notin Batches /\ phase[r] = "idle" /\ phase'[r] = "open"
          /\ \A c \in Calls : c # r => phase'[c] = phase[c]
          /\ UNCHANGED <<id, selector>>
      BY <1>1, CallAssumption DEF OpenStream, TypeOK, Calls
    <2>2. \A c \in Calls : (Begins(c)' <=> Begins(c)) /\ (Busy(c)' <=> Busy(c))
      BY <2>1 DEF Begins, Busy
    <2>3. BeginsOnce'
      BY <2>2 DEF BeginInv, BeginsOnce
    <2>0. /\ direct' = [direct EXCEPT ![r] = id # None \/ ~begun]
          /\ begun' = (begun \/ id = None)
          /\ direct \in [Calls -> BOOLEAN]
      BY <1>1 DEF OpenStream, WrapWithIdWaiter, TypeOK
    <2>4a. \A s \in Streams : s # r => direct'[s] = direct[s]
      BY <2>0, <2>1 DEF Calls
    <2>4b. direct'[r] = (id # None \/ ~begun)
      BY <2>0, <2>1
    <2>4. /\ \A s \in Streams : s # r => direct'[s] = direct[s]
          /\ id = None => begun' /\ (direct'[r] => ~begun)
      BY <2>0, <2>4a, <2>4b, Zenon
    <2>5. \A s \in Streams : s # r => (Direct(s)' <=> Direct(s))
      BY <2>1, <2>4 DEF Direct, Calls
    <2>6. ~Begins(r)
      BY <2>1 DEF Begins
    <2>7. OneStarter'
      <3> SUFFICES ASSUME id = None
                   PROVE  OneStarter'
        BY <2>1 DEF OneStarter
      <3>1. /\ \A s \in Streams : Direct(s) => begun
            /\ \A s, q \in Streams : Direct(s) /\ Direct(q) => s = q
            /\ \A s \in Streams : Begins(s) => Direct(s)
            /\ \A b \in Batches, c \in Calls : Busy(b) /\ Busy(c) => b = c
        BY DEF BeginInv, OneStarter
      <3>2. Direct(r)' => ~begun
        BY <2>4 DEF Direct
      <3>3. begun'
        BY <2>4
      <3>4. \A s, q \in Streams : Direct(s)' /\ Direct(q)' => s = q
        BY <2>5, <3>1, <3>2
      <3>5. \A s \in Streams : Begins(s)' => Direct(s)'
        BY <2>2, <2>5, <2>6, <3>1 DEF Calls
      <3>6. \A b \in Batches, c \in Calls : Busy(b)' /\ Busy(c)' => b = c
        BY <2>2, <3>1 DEF Calls
      <3> QED BY <3>3, <3>4, <3>5, <3>6 DEF OneStarter
    <2> QED BY <2>3, <2>7 DEF BeginInv
  <1>2. ASSUME NEW r \in Streams, ReadStream(r) PROVE BeginInv'
    <2>1. /\ MakeRequest(r) /\ UNCHANGED <<id, direct, begun>>
          /\ phase[r] = "open" /\ (id # None \/ \A b \in Batches : ~Busy(b))
      BY <1>2 DEF Apart, ReadStream, RequestFrame, txVars
    <2> QED BY <2>1, RequestBegins
  <1>3. ASSUME NEW b \in Batches, BatchUpdate(b) PROVE BeginInv'
    <2>1. b \in Calls /\ phase \in [Calls -> Phases] /\ phase[b] = "idle"
          /\ id' = id /\ direct' = direct /\ begun' = begun /\ id \in Nat
      BY <1>3 DEF BatchUpdate, RequestFrame, txVars, TypeOK, Phases, Calls
    <2>2. CASE id # None
      <3>1. BeginsOnce'
        BY <1>3, <2>1, <2>2, SendWithId DEF BatchUpdate, BeginInv
      <3> QED BY <2>1, <2>2, <3>1 DEF BeginInv, OneStarter
    <2>3. CASE id = None
      <3>1. \A c \in Calls : ~Busy(c)
        BY <1>3, <2>3 DEF Apart, Quiet, Done
      <3>2. \A c \in Calls : c # b => phase'[c] = phase[c]
        BY <1>3, <2>1 DEF BatchUpdate, Send
      <3>3. \A c \in Calls : Busy(c)' => c = b
        BY <3>1, <3>2 DEF Busy
      <3>4. \A c \in Calls : Begins(c)' => c = b
        BY <3>3 DEF Begins, Busy
      <3>5. b \notin Streams
        BY CallAssumption
      <3>6. \A s \in Streams : Direct(s)' <=> Direct(s)
        BY <2>1, <3>2, <3>5 DEF Direct, Calls
      <3> QED BY <2>1, <2>3, <3>3, <3>4, <3>5, <3>6
              DEF BeginInv, OneStarter, BeginsOnce, Calls
    <2> QED BY <2>2, <2>3
  <1>4. ASSUME Begin \/ Commit \/ Rollback \/ End
        PROVE  UNCHANGED <<id, begun, phase, direct, selector>>
    BY <1>4 DEF Begin, Commit, Rollback, End, txVars, callVars
  <1>5. CASE UNCHANGED <<id, begun, phase, direct, selector>>
    BY <1>5 DEF BeginInv, OneStarter, BeginsOnce, Direct, Begins, Busy
  <1> QED BY <1>1, <1>2, <1>3, <1>4, <1>5 DEF User

\* A call that is over, or broken, begins nothing; the others are as before.
LEMMA QuietBegins ==
  ASSUME TypeOK, BeginInv, NEW c \in Calls,
         UNCHANGED <<id, begun, direct>>, InFlight(c),
         phase'[c] \in {"flowing", "ok", "failed", "broken"},
         \A d \in Calls : d # c => phase'[d] = phase[d] /\ selector'[d] = selector[d]
  PROVE  BeginInv'
  <1>1. \A d \in Calls : /\ Begins(d)' => Begins(d)
                         /\ Busy(d)' => Busy(d)
                         /\ phase'[d] # "idle" <=> phase[d] # "idle"
    BY DEF Begins, Busy, InFlight
  <1>2. \A r \in Streams : Direct(r)' <=> Direct(r)
    BY <1>1 DEF Direct, Calls
  <1> QED BY <1>1, <1>2 DEF BeginInv, OneStarter, BeginsOnce, Calls

LEMMA AnswerBegins ==
  ASSUME TypeOK, BeginInv, NEW c \in Calls, Answer(c)
  PROVE  BeginInv'
  <1>1. ASSUME NEW withToken \in BOOLEAN, Execute(c, withToken) PROVE BeginInv'
    BY <1>1 DEF Execute, txVars, BeginInv, OneStarter, BeginsOnce, Direct, Begins, Busy
  <1>2. ASSUME Respond(c) PROVE BeginInv'
    <2> DEFINE ph == [phase EXCEPT ![c] = IF c \in Streams THEN "flowing" ELSE "ok"]
    <2>1. /\ ph \in [Calls -> Phases] /\ ph[c] \in {"flowing", "ok"}
          /\ \A d \in Calls : d # c => ph[d] = phase[d]
          /\ ranIn[c] \in Nat \ {None} /\ phase[c] = "sent"
          /\ direct' = direct /\ begun' = begun
      BY <1>2 DEF Respond, TypeOK, Phases
    <2>2. CASE id = None /\ selector[c] = None
      <3>1. id' = ranIn[c] /\ Send(Waiting, ranIn[c], ph)
        BY <1>2, <2>2 DEF Respond, TakeResponse, Update
      <3>2. \A d \in Calls : ph[d] = "sent" => phase[d] = "sent"
        BY <2>1
      <3> HIDE DEF ph
      <3>3. BeginsOnce'
        BY <2>1, <3>1, <3>2, SendWithId DEF BeginInv
      <3> QED BY <2>1, <3>1, <3>3 DEF BeginInv, OneStarter
    <2>3. CASE ~(id = None /\ selector[c] = None)
      BY <1>2, <2>1, <2>3, QuietBegins DEF Respond, TakeResponse, InFlight
    <2> QED BY <2>2, <2>3
  <1>3. ASSUME NEW aborted \in BOOLEAN, Fail(c, aborted) PROVE BeginInv'
    BY <1>3, QuietBegins DEF Fail, Forget, txVars, TypeOK
  <1> QED BY <1>1, <1>2, <1>3 DEF Answer

LEMMA BeginNext ==
  ASSUME TypeOK, BeginInv, [Next]_vars, [Apart]_vars
  PROVE  BeginInv'
  <1>1. ASSUME NEW r \in Streams, Complete(r) \/ Break(r) PROVE BeginInv'
    <2>1. r \in Calls
      BY DEF Calls
    <2>2. /\ UNCHANGED <<id, begun, direct>> /\ InFlight(r)
          /\ phase'[r] \in {"ok", "broken"}
          /\ \A d \in Calls : d # r => phase'[d] = phase[d] /\ selector'[d] = selector[d]
      BY <1>1, <2>1 DEF Complete, Break, Forget, RequestFrame, InFlight, txVars, TypeOK
    <2> QED BY <2>1, <2>2, QuietBegins
  <1>2. ASSUME NEW r \in Streams, Repeat(r) PROVE BeginInv'
    BY <1>2, RequestBegins DEF Repeat, RequestFrame, txVars
  <1>3. ASSUME NEW who \in {"user", "stream", "commit"}, BeginAnswer(who) PROVE BeginInv'
    <2>1. ASSUME NEW t \in {None, issued + 1}, BeginOk(who, t) PROVE BeginInv'
      <3>1. started + 1 \in Nat \ {None} /\ phase \in [Calls -> Phases]
        BY DEF TypeOK, Phases, None
      <3>2. id' = started + 1 /\ Send(Waiting, started + 1, phase)
        BY <2>1 DEF BeginOk, Update
      <3>3. BeginsOnce'
        BY <3>1, <3>2, SendWithId DEF BeginInv
      <3> QED BY <3>1, <3>2, <3>3 DEF BeginInv, OneStarter
    <2>2. ASSUME BeginFail(who) PROVE BeginInv'
      BY <2>2 DEF BeginFail, txVars, callVars, BeginInv, OneStarter, BeginsOnce, Direct, Begins, Busy
    <2> QED BY <1>3, <2>1, <2>2 DEF BeginAnswer
  <1>4. ASSUME CommitAnswer \/ RollbackDone \/ UNCHANGED vars
        PROVE  UNCHANGED <<id, begun, phase, direct, selector>>
    BY <1>4 DEF CommitAnswer, CommitAsked, CommitOk, CommitFail, RollbackDone, vars, txVars, callVars
  <1>5. CASE UNCHANGED <<id, begun, phase, direct, selector>>
    BY <1>5 DEF BeginInv, OneStarter, BeginsOnce, Direct, Begins, Busy
  <1>6. CASE User /\ Apart
    BY <1>6, UserBegins
  <1> QED BY <1>1, <1>2, <1>3, <1>4, <1>5, <1>6, AnswerBegins DEF Next

\* A user who may not overlap does not.
LEMMA KeepsApart == Overlap = FALSE => (Spec => BatchesApart)
  <1>1. Overlap = FALSE /\ [Next]_vars => [Apart]_vars
    BY DEF Apart, BatchUpdate, ReadStream
  <1>2. ASSUME Overlap = FALSE PROVE Spec => BatchesApart
    <2>1. [Next]_vars => [Apart]_vars
      BY <1>1, <1>2
    <2> QED BY <2>1, PTL DEF Spec, BatchesApart
  <1> QED BY <1>2

\* However many streams a transaction opens at once, and whichever of them
\* break and are repeated, at most one request in flight begins it, as long as
\* batchUpdate() does not run while the id is on its way: the code of
\* _wrapWithIdWaiter().  Nothing but that overlap breaks it.
THEOREM BeginOnceIfApart == Spec /\ BatchesApart => []BeginsOnce
  <1>1. BeginInv => BeginsOnce
    BY DEF BeginInv
  <1>2. TypeOK /\ BeginInv /\ [Next]_vars /\ [Apart]_vars => BeginInv'
    BY BeginNext
  <1> QED BY <1>1, <1>2, BeginInit, TypeCorrect, PTL DEF Spec, BatchesApart

\* A user who never runs batchUpdate() beside a beginning gets one transaction.
THEOREM BeginOnce == Overlap = FALSE => (Spec => []BeginsOnce)
  <1>1. ASSUME Overlap = FALSE PROVE Spec => []BeginsOnce
    <2>1. Spec => BatchesApart
      BY <1>1, KeepsApart
    <2> QED BY <2>1, BeginOnceIfApart, PTL
  <1> QED BY <1>1

---------------------------------------------------------------------------
(* No statement is lost                                                    *)
(*                                                                         *)
(* The invariant says where the statements that are done, and those under  *)
(* way, run: in the transaction whose id is known.  It rests on BeginsOnce *)
(* and on two facts about begin(): nothing runs while its answer is due,   *)
(* and once the user has finished no call is under way any more.           *)

Active(c) == phase[c] \in {"sent", "flowing", "ok"}

\* What the backend ran was asked of it, in the transaction it was told.
RanRight == \A c \in Calls : ranIn[c] # None =>
              Active(c) /\ (phase[c] = "sent" => selector[c] \in {None, ranIn[c]})

\* What was answered ran in the transaction whose id is known ...
RanHere == \A c \in Calls : phase[c] \in {"flowing", "ok"} => id # None /\ ranIn[c] = id

\* ... and what is under way was sent with it.
SentHere == \A c \in Calls : phase[c] = "sent" => selector[c] = id

BatchPhases == \A b \in Batches : phase[b] \in {"idle", "sent", "ok", "failed"}

\* Nothing has run, nor runs, while the answer to a begin() is due.
AloneInBegin == beginning # {} => \A c \in Calls : ~Active(c)

\* While the user goes on, one begin() at most is under way, his own or that
\* of the stream that failed to begin.
OneBegin ==
  Open /\ beginning # {} =>
    /\ id = None
    /\ \/ beginning = {"user"} /\ \A c \in Calls : phase[c] \in {"idle", "open"}
       \/ /\ beginning = {"stream"} /\ begun
          /\ \A r \in Streams : Direct(r) => phase[r] = "failed"

\* The user finishes when his calls are done.
Frozen == ~Open => Done

CallInv == /\ RanRight /\ RanHere /\ SentHere /\ BatchPhases
           /\ AloneInBegin /\ OneBegin /\ Frozen

CommitBegins == "commit" \in beginning <=> commit = "beginning"
AskedOnce    == retried => asks > 0
TargetRight  == commit = "sent" => \A c \in Calls : phase[c] = "ok" => ranIn[c] = target

CommitInv == CommitBegins /\ AskedOnce /\ TargetRight /\ NothingLost

Inv == TypeOK /\ BeginInv /\ CallInv /\ CommitInv

LEMMA LossInit == Init => CallInv /\ CommitInv
  BY DEF Init, CallInv, RanRight, RanHere, SentHere, BatchPhases, AloneInBegin, OneBegin,
         Frozen, CommitInv, CommitBegins, AskedOnce, TargetRight, NothingLost,
         Open, Done, Busy, Calls, None

---------------------------------------------------------------------------
(* Calls                                                                   *)

\* A call under way means that the user has not finished.
LEMMA BusyIsOpen ==
  ASSUME CallInv, NEW c \in Calls, Busy(c)
  PROVE  Open
  BY DEF CallInv, Frozen, Done

\* What happens before the commit leaves what is said of it true.
LEMMA OpenCommit ==
  ASSUME CommitInv, Open, UNCHANGED <<commit, retried, asks>>,
         "commit" \in beginning' <=> "commit" \in beginning
  PROVE  CommitInv'
  BY DEF CommitInv, CommitBegins, AskedOnce, TargetRight, NothingLost, Open

\* No begin() is under way when something has run, or the id is known.
LEMMA NoBegin ==
  ASSUME CallInv, Open, (\E c \in Calls : Active(c)) \/ id # None
  PROVE  beginning = {}
  BY DEF CallInv, AloneInBegin, OneBegin

LEMMA OpenStreamKeeps ==
  ASSUME Inv, NEW r \in Streams, OpenStream(r)
  PROVE  CallInv' /\ CommitInv'
  <1>1. r \in Calls
    BY DEF Calls
  <1>2. /\ Open /\ Open' /\ UNCHANGED <<id, selector, ranIn, beginning, commit, retried>>
        /\ phase[r] = "idle" /\ phase' = [phase EXCEPT ![r] = "open"]
        /\ phase \in [Calls -> Phases]
        /\ direct \in [Calls -> BOOLEAN] /\ begun \in BOOLEAN
        /\ direct' = [direct EXCEPT ![r] = id # None \/ ~begun]
        /\ begun' = (begun \/ id = None) /\ asks' = asks
    BY DEF OpenStream, WrapWithIdWaiter, Open, commitVars, countVars, Inv, TypeOK, Phases
  <1>3. /\ phase'[r] = "open"
        /\ \A c \in Calls : c # r => phase'[c] = phase[c]
    BY <1>1, <1>2
  <1>4. RanRight' /\ RanHere' /\ SentHere' /\ BatchPhases' /\ AloneInBegin'
    BY <1>1, <1>2, <1>3, CallAssumption
       DEF Inv, CallInv, RanRight, RanHere, SentHere, BatchPhases, AloneInBegin, Active, Calls
  <1>5. OneBegin'
    <2> SUFFICES ASSUME beginning # {} PROVE OneBegin'
      BY <1>2 DEF OneBegin
    <2>1. id = None
      BY <1>2 DEF Inv, CallInv, OneBegin
    <2>2. CASE beginning = {"user"} /\ \A c \in Calls : phase[c] \in {"idle", "open"}
      BY <1>2, <1>3, <2>1, <2>2 DEF OneBegin
    <2>3. CASE beginning = {"stream"} /\ begun
               /\ \A s \in Streams : Direct(s) => phase[s] = "failed"
      <3>1. direct'[r] = (id # None \/ ~begun)
        BY <1>1, <1>2
      <3>2. ~direct'[r]
        BY <2>1, <2>3, <3>1, Zenon
      <3>3. \A s \in Streams : s # r => direct'[s] = direct[s]
        BY <1>1, <1>2 DEF Calls
      <3>4. \A s \in Streams : Direct(s)' => s # r /\ Direct(s)
        BY <1>3, <3>2, <3>3 DEF Direct, Calls
      <3>5. \A s \in Streams : Direct(s)' => phase'[s] = "failed"
        BY <1>3, <2>3, <3>4 DEF Calls
      <3>6. begun'
        BY <1>2, <2>3, Zenon
      <3> QED BY <1>2, <2>1, <2>3, <3>5, <3>6 DEF OneBegin
    <2> QED BY <1>2, <2>2, <2>3 DEF Inv, CallInv, OneBegin
  <1>6. CommitInv'
    BY <1>2, OpenCommit DEF Inv
  <1> QED BY <1>2, <1>4, <1>5, <1>6 DEF CallInv, Frozen

\* A stream's request is made, first or again.
LEMMA RequestKeeps ==
  ASSUME Inv, NEW r \in Streams, MakeRequest(r), RequestFrame, Open,
         \/ phase[r] = "open" /\ "user" \notin beginning
         \/ phase[r] = "broken"
  PROVE  CallInv' /\ CommitInv'
  <1>1. r \in Calls /\ r \notin Batches
    BY CallAssumption DEF Calls
  <1>2. /\ Open' /\ UNCHANGED <<id, begun, direct, ranIn, beginning, commit, retried, asks>>
        /\ phase \in [Calls -> Phases] /\ selector \in [Calls -> Nat]
    BY DEF RequestFrame, Open, txVars, commitVars, countVars, Inv, TypeOK, Phases
  <1>3. /\ \A c \in Calls : c # r => phase'[c] = phase[c] /\ selector'[c] = selector[c]
        /\ \/ phase'[r] = "sent" /\ selector'[r] = id /\ direct[r]
           \/ phase'[r] = "waiting"
    BY <1>1, <1>2 DEF MakeRequest, Send
  <1>4. RanRight' /\ RanHere' /\ SentHere' /\ BatchPhases'
    BY <1>1, <1>2, <1>3
       DEF Inv, CallInv, RanRight, RanHere, SentHere, BatchPhases, Active, Calls
  <1>5. ASSUME beginning # {}
        PROVE  /\ beginning = {"stream"} /\ begun /\ id = None /\ ~direct[r]
               /\ \A s \in Streams : Direct(s) => phase[s] = "failed"
    BY <1>1, <1>5 DEF Inv, CallInv, OneBegin, Direct
  <1>6. AloneInBegin'
    BY <1>1, <1>2, <1>3, <1>5 DEF Inv, CallInv, AloneInBegin, Active
  <1>7. OneBegin'
    BY <1>1, <1>2, <1>3, <1>5 DEF OneBegin, Direct, Calls
  <1>8. CommitInv'
    BY <1>2, OpenCommit DEF Inv
  <1> QED BY <1>2, <1>4, <1>6, <1>7, <1>8 DEF CallInv, Frozen

LEMMA BatchUpdateKeeps ==
  ASSUME Inv, Apart, NEW b \in Batches, BatchUpdate(b)
  PROVE  CallInv' /\ CommitInv'
  <1>1. b \in Calls
    BY DEF Calls
  <1>2. /\ Open /\ Open' /\ UNCHANGED <<id, ranIn, beginning, commit, retried, asks>>
        /\ phase \in [Calls -> Phases] /\ selector \in [Calls -> Nat] /\ phase[b] = "idle"
    BY DEF BatchUpdate, RequestFrame, Open, txVars, commitVars, countVars, Inv, TypeOK, Phases
  <1>3. /\ \A c \in Calls : c # b => phase'[c] = phase[c] /\ selector'[c] = selector[c]
        /\ phase'[b] = "sent" /\ selector'[b] = id
    BY <1>1, <1>2 DEF BatchUpdate, Send
  <1>4. beginning = {}
    BY <1>2, NoBegin DEF Apart, Quiet, Inv
  <1>5. RanRight' /\ RanHere' /\ SentHere' /\ BatchPhases'
    BY <1>1, <1>2, <1>3
       DEF Inv, CallInv, RanRight, RanHere, SentHere, BatchPhases, Active, Calls
  <1>6. CommitInv'
    BY <1>2, OpenCommit DEF Inv
  <1> QED BY <1>2, <1>4, <1>5, <1>6 DEF CallInv, Frozen, AloneInBegin, OneBegin

LEMMA ExecuteKeeps ==
  ASSUME Inv, NEW c \in Calls, NEW withToken \in BOOLEAN, Execute(c, withToken)
  PROVE  CallInv' /\ CommitInv'
  <1>1. /\ UNCHANGED <<id, begun, ended, phase, direct, selector, beginning, commit, target,
                       retried, rollback, committed, asks>>
        /\ phase[c] = "sent" /\ ranIn \in [Calls -> Nat] /\ started + 1 # None
    BY DEF Execute, txVars, commitVars, countVars, Inv, TypeOK, None
  <1>2. /\ \A d \in Calls : d # c => ranIn'[d] = ranIn[d]
        /\ selector[c] \in {None, ranIn'[c]}
    BY <1>1 DEF Execute
  <1>3. RanRight' /\ RanHere'
    BY <1>1, <1>2 DEF Inv, CallInv, RanRight, RanHere, Active
  <1>4. Open /\ Open'
    BY <1>1, BusyIsOpen DEF Busy, Inv, Open
  <1>5. CommitInv'
    BY <1>1, <1>4, OpenCommit DEF Inv
  <1> QED BY <1>1, <1>3, <1>4, <1>5
          DEF Inv, CallInv, SentHere, BatchPhases, AloneInBegin, OneBegin, Frozen, Active, Direct

LEMMA RespondKeeps ==
  ASSUME Inv, NEW c \in Calls, Respond(c)
  PROVE  CallInv' /\ CommitInv'
  <1> DEFINE ph == [phase EXCEPT ![c] = IF c \in Streams THEN "flowing" ELSE "ok"]
  <1>1. /\ UNCHANGED <<ranIn, ended, beginning, commit, retried, rollback, asks>>
        /\ phase[c] = "sent" /\ ranIn[c] # None
        /\ phase \in [Calls -> Phases] /\ selector \in [Calls -> Nat]
    BY DEF Respond, commitVars, countVars, Inv, TypeOK, Phases
  <1>2. /\ ph[c] \in {"flowing", "ok"} /\ (c \in Batches => ph[c] = "ok")
        /\ \A d \in Calls : d # c => ph[d] = phase[d]
    BY <1>1, CallAssumption
  <1>3. Open /\ Open'
    BY <1>1, BusyIsOpen DEF Busy, Inv, Open
  <1>4. beginning = {}
    BY <1>1, <1>3, NoBegin DEF Active, Inv
  <1>5. selector[c] = id /\ selector[c] \in {None, ranIn[c]}
    BY <1>1 DEF Inv, CallInv, SentHere, RanRight
  <1>6. RanRight' /\ RanHere' /\ SentHere' /\ BatchPhases'
    <2>1. CASE id = None
      <3>1. id' = ranIn[c] /\ Send(Waiting, ranIn[c], ph)
        BY <1>5, <2>1 DEF Respond, TakeResponse, Update
      <3>2. \A d \in Calls : d # c => phase[d] \notin {"sent", "flowing", "ok"}
        BY <1>1, <1>5, <2>1
           DEF Inv, BeginInv, BeginsOnce, Begins, CallInv, SentHere, RanHere
      <3>3. \A d \in Calls : d # c => ranIn[d] = None
        BY <3>2 DEF Inv, CallInv, RanRight, Active
      <3>4. c \notin Waiting
        BY <1>1 DEF Waiting
      <3> HIDE DEF ph
      <3>5. phase'[c] = ph[c]
        BY <3>1, <3>4 DEF Send
      <3>6. \A d \in Calls : d # c =>
              \/ d \in Streams /\ phase'[d] = "sent" /\ selector'[d] = ranIn[c]
              \/ phase'[d] = phase[d] /\ selector'[d] = selector[d]
        BY <1>2, <3>1 DEF Send, Waiting
      <3> QED BY <1>1, <1>2, <3>1, <3>2, <3>3, <3>5, <3>6, CallAssumption
              DEF Inv, CallInv, RanRight, RanHere, SentHere, BatchPhases, Active, Calls
    <2>2. CASE id # None
      <3>1. phase' = ph /\ UNCHANGED <<id, selector>> /\ ranIn[c] = id
        BY <1>5, <2>2 DEF Respond, TakeResponse
      <3> HIDE DEF ph
      <3> QED BY <1>1, <1>2, <2>2, <3>1
              DEF Inv, CallInv, RanRight, RanHere, SentHere, BatchPhases, Active, Calls
    <2> QED BY <2>1, <2>2
  <1>7. CommitInv'
    BY <1>1, <1>3, OpenCommit DEF Inv
  <1> QED BY <1>1, <1>3, <1>4, <1>6, <1>7 DEF CallInv, Frozen, AloneInBegin, OneBegin

\* A call fails or breaks; if it was to begin, begin() may be called for it.
LEMMA ForgetKeeps ==
  ASSUME Inv, NEW c \in Calls, InFlight(c), NEW to \in {"failed", "broken"}, Forget(c, to),
         to = "broken" => c \in Streams,
         UNCHANGED <<id, begun, ended, commit, retried, rollback, asks>>,
         \/ beginning' = beginning
         \/ beginning' = beginning \cup {"stream"} /\ id = None /\ c \in Streams /\ to = "failed"
  PROVE  CallInv' /\ CommitInv'
  <1>1. /\ phase \in [Calls -> Phases] /\ selector \in [Calls -> Nat] /\ ranIn \in [Calls -> Nat]
        /\ direct' = direct
    BY DEF Forget, Inv, TypeOK, Phases
  <1>2. /\ phase'[c] = to /\ ranIn'[c] = None
        /\ \A d \in Calls : d # c => /\ phase'[d] = phase[d] /\ selector'[d] = selector[d]
                                     /\ ranIn'[d] = ranIn[d]
    BY <1>1 DEF Forget
  <1>3. Open /\ Open' /\ beginning = {}
    BY BusyIsOpen, NoBegin DEF InFlight, Busy, Active, Inv, Open
  <1>4. RanRight' /\ RanHere' /\ SentHere' /\ BatchPhases'
    BY <1>2, CallAssumption
       DEF Inv, CallInv, RanRight, RanHere, SentHere, BatchPhases, Active, Calls
  <1>5. AloneInBegin' /\ OneBegin'
    <2>1. CASE beginning' = beginning
      BY <1>3, <2>1 DEF AloneInBegin, OneBegin
    <2>2. CASE beginning' = {"stream"} /\ id = None /\ c \in Streams /\ to = "failed"
      <3>1. \A d \in Calls : Active(d) => Begins(d)
        BY <2>2 DEF Inv, CallInv, RanHere, SentHere, Active, Begins
      <3>2. Begins(c)
        BY <3>1 DEF InFlight, Active
      <3>3. \A d \in Calls : Active(d) => d = c
        BY <3>1, <3>2 DEF Inv, BeginInv, BeginsOnce
      <3>4. Direct(c) /\ begun /\ \A r \in Streams : Direct(r) => r = c
        BY <2>2, <3>2 DEF Inv, BeginInv, OneStarter
      <3>5. \A r \in Streams : Direct(r)' => phase'[r] = "failed"
        BY <1>1, <1>2, <2>2, <3>4 DEF Direct, Calls
      <3>6. \A d \in Calls : ~Active(d)'
        BY <1>2, <3>3 DEF Active
      <3> QED BY <2>2, <3>4, <3>5, <3>6 DEF AloneInBegin, OneBegin
    <2> QED BY <1>3, <2>1, <2>2
  <1>6. CommitInv'
    BY <1>3, OpenCommit DEF Inv
  <1> QED BY <1>3, <1>4, <1>5, <1>6 DEF CallInv, Frozen

LEMMA FailKeeps ==
  ASSUME Inv, NEW c \in Calls, NEW aborted \in BOOLEAN, Fail(c, aborted)
  PROVE  CallInv' /\ CommitInv'
  <1>1. /\ InFlight(c) /\ Forget(c, "failed")
        /\ UNCHANGED <<id, begun, ended, commit, retried, rollback, asks>>
    BY DEF Fail, txVars, commitVars, countVars
  <1>2. \/ beginning' = beginning
        \/ beginning' = beginning \cup {"stream"} /\ id = None /\ c \in Streams
    BY DEF Fail, Rescue
  <1> QED BY <1>1, <1>2, ForgetKeeps

LEMMA CompleteKeeps ==
  ASSUME Inv, NEW r \in Streams, Complete(r)
  PROVE  CallInv' /\ CommitInv'
  <1>1. r \in Calls /\ r \notin Batches
    BY CallAssumption DEF Calls
  <1>2. /\ UNCHANGED <<id, begun, ended, direct, selector, ranIn, beginning, commit, retried,
                       rollback, asks>>
        /\ phase[r] = "flowing" /\ phase' = [phase EXCEPT ![r] = "ok"]
        /\ phase \in [Calls -> Phases]
    BY DEF Complete, RequestFrame, txVars, commitVars, countVars, Inv, TypeOK, Phases
  <1>3. Open /\ Open' /\ beginning = {}
    BY <1>1, <1>2, BusyIsOpen, NoBegin DEF Busy, Active, Inv, Open
  <1>4. RanRight' /\ RanHere' /\ SentHere' /\ BatchPhases'
    BY <1>1, <1>2
       DEF Inv, CallInv, RanRight, RanHere, SentHere, BatchPhases, Active, Calls
  <1>5. CommitInv'
    BY <1>2, <1>3, OpenCommit DEF Inv
  <1> QED BY <1>2, <1>3, <1>4, <1>5 DEF CallInv, Frozen, AloneInBegin, OneBegin

---------------------------------------------------------------------------
(* begin(), commit() and the end                                           *)

\* Calls that are not touched: only what is said of begin() can change.
LEMMA SameCalls ==
  ASSUME Inv, UNCHANGED <<id, phase, selector, ranIn>>
  PROVE  RanRight' /\ RanHere' /\ SentHere' /\ BatchPhases' /\ (Done' <=> Done)
         /\ \A c \in Calls : Active(c)' <=> Active(c)
  BY DEF Inv, CallInv, RanRight, RanHere, SentHere, BatchPhases, Active, Done, Busy

LEMMA BeginKeeps ==
  ASSUME Inv, Begin
  PROVE  CallInv' /\ CommitInv'
  <1>1. /\ UNCHANGED <<id, begun, ended, phase, direct, selector, ranIn, commit, retried,
                       rollback, asks>>
        /\ Open /\ Open' /\ id = None /\ beginning = {} /\ beginning' = {"user"}
        /\ \A c \in Calls : phase[c] = "idle"
    BY DEF Begin, txVars, callVars, commitVars, countVars, Open
  <1>2. CommitInv'
    BY <1>1, OpenCommit DEF Inv
  <1> QED BY <1>1, <1>2, SameCalls DEF CallInv, Frozen, AloneInBegin, OneBegin, Active

LEMMA CommitKeeps ==
  ASSUME Inv, Commit
  PROVE  CallInv' /\ CommitInv'
  <1>1. /\ UNCHANGED <<id, begun, ended, phase, direct, selector, ranIn, retried, rollback, asks>>
        /\ Open /\ Done /\ commit = "none" /\ commit' # "none" /\ commit' # "ok"
    BY DEF Commit, SendCommit, callVars, countVars, Open
  <1>2. \A c \in Calls : Active(c) => phase[c] = "ok" /\ id # None /\ ranIn[c] = id
    BY <1>1 DEF Done, Busy, Active, Inv, CallInv, RanHere
  <1>3. /\ \/ commit' = "sent" /\ target' = id /\ beginning' = beginning
           \/ commit' = "beginning" /\ id = None /\ beginning' = beginning \cup {"commit"}
        /\ "commit" \notin beginning
    BY <1>1 DEF Commit, SendCommit, Inv, CommitInv, CommitBegins
  <1>4. AloneInBegin'
    BY <1>1, <1>2, <1>3, SameCalls DEF Inv, CallInv, AloneInBegin
  <1>5. CommitInv'
    BY <1>1, <1>2, <1>3
       DEF Inv, CommitInv, CommitBegins, AskedOnce, TargetRight, NothingLost, Active
  <1> QED BY <1>1, <1>4, <1>5, SameCalls DEF CallInv, Frozen, OneBegin, Open

LEMMA FinishKeeps ==
  ASSUME Inv, Rollback \/ RollbackDone \/ End
  PROVE  CallInv' /\ CommitInv'
  <1>1. /\ UNCHANGED <<id, begun, phase, direct, selector, ranIn, beginning, commit, target,
                       retried, committed, asks>>
        /\ Done /\ ~Open'
    BY DEF Rollback, RollbackDone, End, txVars, callVars, commitVars, backendVars, countVars,
           Open, Inv, CallInv, Frozen
  <1>2. CommitInv'
    BY <1>1 DEF Inv, CommitInv, CommitBegins, AskedOnce, TargetRight, NothingLost
  <1> QED BY <1>1, <1>2, SameCalls DEF Inv, CallInv, Frozen, AloneInBegin, OneBegin

LEMMA BeginOkKeeps ==
  ASSUME Inv, NEW who \in {"user", "stream", "commit"}, NEW t \in {None, issued + 1},
         BeginOk(who, t)
  PROVE  CallInv' /\ CommitInv'
  <1>1. /\ UNCHANGED <<begun, ended, direct, ranIn, retried, rollback, committed, asks>>
        /\ who \in beginning /\ beginning' = beginning \ {who}
        /\ id' = started + 1 /\ id' # None /\ Send(Waiting, started + 1, phase)
        /\ phase \in [Calls -> Phases]
    BY DEF BeginOk, Update, countVars, Inv, TypeOK, Phases, None
  <1>2. \A c \in Calls : ~Active(c) /\ ranIn[c] = None
    BY <1>1 DEF Inv, CallInv, AloneInBegin, RanRight
  <1>3. \A c \in Calls :
          \/ c \in Streams /\ phase[c] = "waiting" /\ phase'[c] = "sent" /\ selector'[c] = id'
          \/ phase'[c] = phase[c]
    BY <1>1 DEF Send, Waiting
  <1>4. RanRight' /\ RanHere' /\ SentHere' /\ BatchPhases'
    BY <1>1, <1>2, <1>3, CallAssumption
       DEF Inv, CallInv, RanRight, RanHere, SentHere, BatchPhases, Active, Calls
  <1>5. CASE Open
    <2>1. who # "commit" /\ beginning' = {}
      BY <1>1, <1>5 DEF Inv, CallInv, OneBegin
    <2>2. commit' = commit /\ Open'
      BY <1>1, <1>5, <2>1 DEF BeginOk, AfterBegin, Open
    <2>3. CommitInv'
      BY <1>1, <1>5, <2>1, <2>2, OpenCommit DEF Inv, CallInv, OneBegin
    <2> QED BY <1>4, <2>1, <2>2, <2>3 DEF CallInv, Frozen, AloneInBegin, OneBegin
  <1>6. CASE ~Open
    <2>1. \A c \in Calls : phase'[c] = phase[c]
      BY <1>3, <1>6 DEF Inv, CallInv, Frozen, Done, Busy
    <2>2. Done' /\ AloneInBegin'
      BY <1>2, <1>6, <2>1 DEF Inv, CallInv, Frozen, Done, Busy, AloneInBegin, Active
    <2>3. \/ who = "commit" /\ commit = "beginning" /\ commit' = "sent"
          \/ who # "commit" /\ UNCHANGED <<commit, target>>
      BY <1>1 DEF BeginOk, AfterBegin, SendCommit, Inv, CommitInv, CommitBegins
    <2>4. ~Open'
      BY <1>1, <1>6, <2>3 DEF Open
    <2>5. CommitInv'
      BY <1>1, <1>2, <2>1, <2>3
         DEF Inv, CommitInv, CommitBegins, AskedOnce, TargetRight, NothingLost, Active
    <2> QED BY <1>4, <2>2, <2>4, <2>5 DEF CallInv, Frozen, OneBegin
  <1> QED BY <1>5, <1>6

LEMMA BeginFailKeeps ==
  ASSUME Inv, NEW who \in {"user", "stream", "commit"}, BeginFail(who)
  PROVE  CallInv' /\ CommitInv'
  <1>1. /\ UNCHANGED <<id, begun, ended, phase, direct, selector, ranIn, target, retried,
                       rollback, committed, asks>>
        /\ who \in beginning /\ beginning' = beginning \ {who}
        /\ \/ who = "commit" /\ commit = "beginning" /\ commit' = "failed"
           \/ who # "commit" /\ commit' = commit
    BY DEF BeginFail, txVars, callVars, backendVars, countVars, Inv, CommitInv, CommitBegins
  <1>2. (Open' <=> Open) /\ (Open => beginning' = {})
    BY <1>1 DEF Open, Inv, CallInv, OneBegin
  <1>3. CommitInv'
    BY <1>1 DEF Inv, CommitInv, CommitBegins, AskedOnce, TargetRight, NothingLost
  <1> QED BY <1>1, <1>2, <1>3, SameCalls DEF Inv, CallInv, Frozen, AloneInBegin, OneBegin

\* The backend answers the commit; asked twice to repeat it, commit() would
\* report success though nothing was committed.
LEMMA CommitAnswerKeeps ==
  ASSUME Inv, asks' <= 1, CommitAnswer
  PROVE  CallInv' /\ CommitInv'
  <1>1. /\ UNCHANGED <<id, begun, phase, direct, selector, ranIn, beginning, rollback>>
        /\ commit = "sent" /\ ~Open /\ ~Open'
    BY DEF CommitAnswer, CommitAsked, AskedAgain, SendCommit, CommitOk, CommitFail, CommitDone,
           callVars, Open
  <1>2. CallInv'
    BY <1>1, SameCalls DEF Inv, CallInv, Frozen, AloneInBegin, OneBegin
  <1>3. "commit" \notin beginning
    BY <1>1 DEF Inv, CommitInv, CommitBegins
  <1>4. CASE CommitAsked
    <2>1. ~retried
      BY <1>4 DEF CommitAsked, Inv, TypeOK, CommitInv, AskedOnce
    <2>2. commit' = "sent" /\ target' = id /\ asks' > 0
      BY <1>4, <2>1 DEF CommitAsked, AskedAgain, SendCommit, Inv, TypeOK
    <2> QED BY <1>1, <1>2, <1>3, <2>2
            DEF Inv, CallInv, RanHere, CommitInv, CommitBegins, AskedOnce, TargetRight, NothingLost
  <1>5. CASE CommitOk
    <2>1. /\ commit' = "ok" /\ UNCHANGED <<retried, asks>>
          /\ committed' = IF target = None THEN started + 1 ELSE target
          /\ started + 1 # None
      BY <1>5 DEF CommitOk, CommitDone, countVars, Inv, TypeOK, None
    <2>2. \A c \in Calls : phase[c] = "ok" => ranIn[c] = target /\ target # None
      BY <1>1 DEF Inv, CallInv, RanHere, CommitInv, TargetRight
    <2> QED BY <1>1, <1>2, <1>3, <2>1, <2>2
            DEF Inv, CommitInv, CommitBegins, AskedOnce, TargetRight, NothingLost
  <1>6. CASE CommitFail
    <2>1. commit' = "failed" /\ UNCHANGED <<retried, asks>>
      BY <1>6 DEF CommitFail, CommitDone, countVars
    <2> QED BY <1>2, <1>3, <1>1, <2>1
            DEF Inv, CommitInv, CommitBegins, AskedOnce, TargetRight, NothingLost
  <1> QED BY <1>4, <1>5, <1>6 DEF CommitAnswer

---------------------------------------------------------------------------
LEMMA LossNext ==
  ASSUME Inv, asks' <= 1, [Next]_vars, [Apart]_vars
  PROVE  CallInv' /\ CommitInv'
  <1>1. CASE UNCHANGED vars
    BY <1>1
       DEF vars, txVars, callVars, commitVars, backendVars, countVars, Inv, CallInv, RanRight,
           RanHere, SentHere, BatchPhases, AloneInBegin, OneBegin, Frozen, CommitInv,
           CommitBegins, AskedOnce, TargetRight, NothingLost, Open, Done, Busy, Active, Direct
  <1>2. CASE User /\ Apart
    <2>1. ASSUME NEW r \in Streams, ReadStream(r) PROVE CallInv' /\ CommitInv'
      BY <2>1, RequestKeeps DEF ReadStream
    <2> QED BY <1>2, <2>1, OpenStreamKeeps, BatchUpdateKeeps, BeginKeeps, CommitKeeps,
               FinishKeeps DEF User
  <1>3. ASSUME NEW c \in Calls, Answer(c) PROVE CallInv' /\ CommitInv'
    BY <1>3, ExecuteKeeps, RespondKeeps, FailKeeps DEF Answer
  <1>4. ASSUME NEW r \in Streams, Complete(r) \/ Break(r) \/ Repeat(r)
        PROVE  CallInv' /\ CommitInv'
    <2>1. r \in Calls
      BY DEF Calls
    <2>2. CASE Break(r)
      <3>1. /\ InFlight(r) /\ Forget(r, "broken")
            /\ UNCHANGED <<id, begun, ended, commit, retried, rollback, asks, beginning>>
        BY <2>2 DEF Break, txVars, commitVars
      <3> QED BY <2>1, <3>1, ForgetKeeps
    <2>3. CASE Repeat(r)
      <3>1. Open
        BY <2>1, <2>3, BusyIsOpen DEF Repeat, Busy, Inv
      <3> QED BY <2>3, <3>1, RequestKeeps DEF Repeat
    <2> QED BY <1>4, <2>2, <2>3, CompleteKeeps
  <1>5. ASSUME NEW who \in {"user", "stream", "commit"}, BeginAnswer(who)
        PROVE  CallInv' /\ CommitInv'
    BY <1>5, BeginOkKeeps, BeginFailKeeps DEF BeginAnswer
  <1> QED BY <1>1, <1>2, <1>3, <1>4, <1>5, CommitAnswerKeeps, FinishKeeps DEF Next

\* When commit() reports success, every statement that was reported as done
\* ran in the transaction the backend committed, whichever streams were opened
\* at once, failed, broke or were repeated, and whoever began the transaction:
\* as long as batchUpdate() does not run while the id is on its way, and the
\* backend does not ask twice for the commit to be repeated.
THEOREM NoneLostIfApart == Spec /\ BatchesApart /\ [](asks <= 1) => []NothingLost
  <1>1. Init => Inv
    BY TypeInit, BeginInit, LossInit DEF Inv
  <1>2. Inv /\ (asks <= 1)' /\ [Next]_vars /\ [Apart]_vars => Inv'
    BY TypeNext, BeginNext, LossNext DEF Inv
  <1>3. Inv => NothingLost
    BY DEF Inv, CommitInv
  <1> QED BY <1>1, <1>2, <1>3, PTL DEF Spec, BatchesApart

\* So it is for a user and a backend that keep to this.
THEOREM NoneLost == Overlap = FALSE /\ MaxAsks <= 1 => (Spec => []NothingLost)
  <1>1. ASSUME Overlap = FALSE, MaxAsks <= 1 PROVE Spec => []NothingLost
    <2>1. Spec => BatchesApart
      BY <1>1, KeepsApart
    <2>2. TypeOK => asks <= 1
      BY <1>1, CallAssumption DEF TypeOK
    <2> QED BY <2>1, <2>2, TypeCorrect, NoneLostIfApart, PTL
  <1> QED BY <1>1

---------------------------------------------------------------------------
(* Who brings the id                                                       *)

\* Stream r is to ask for the id, or asks for it.
Asks(r) == direct[r] /\ (phase[r] \in {"open", "broken"} \/ Begins(r))

\* The id is being asked for, or somebody is still to ask.
Expected == beginning # {} \/ \E r \in Streams : Asks(r)

\* Once the lock is taken the id is expected until it is there, and only
\* those who found the lock taken wait.
Awaited == /\ id = None /\ begun /\ ~hopeless => Expected
           /\ \A r \in Streams : ~direct[r] => begun
           /\ \A r \in Streams : phase[r] = "waiting" => ~direct[r]

\* What concerns neither the id nor the streams.
LEMMA ElsewhereAwaited ==
  ASSUME Awaited, UNCHANGED <<id, begun, direct>>, hopeless => hopeless',
         id = None => beginning \subseteq beginning',
         \A r \in Streams : phase'[r] = phase[r] /\ selector'[r] = selector[r]
  PROVE  Awaited'
  <1>1. \A r \in Streams : Asks(r) => Asks(r)'
    BY DEF Asks, Begins
  <1>2. id = None /\ Expected => Expected'
    BY <1>1 DEF Expected
  <1> QED BY <1>2 DEF Awaited

\* The id is there: nobody has to bring it.
LEMMA KnownAwaited ==
  ASSUME TypeOK, Awaited, id' # None, UNCHANGED <<begun, direct>>,
         \A r \in Streams : phase'[r] = "waiting" => phase[r] = "waiting"
  PROVE  Awaited'
  BY DEF Awaited

\* A stream that makes its request, for the first time or again.
LEMMA RequestAwaited ==
  ASSUME TypeOK, Awaited, NEW r \in Streams, MakeRequest(r),
         UNCHANGED <<id, begun, direct, hopeless, beginning>>
  PROVE  Awaited'
  <1>1. r \in Calls /\ \A s \in Streams : s \in Calls
    BY DEF Calls
  <1>2. \A s \in Streams : s # r => phase'[s] = phase[s] /\ selector'[s] = selector[s]
    BY <1>1 DEF MakeRequest, Send, TypeOK
  <1>3. IF direct[r] THEN phase'[r] = "sent" /\ selector'[r] = id ELSE phase'[r] = "waiting"
    BY <1>1 DEF MakeRequest, Send, TypeOK
  <1>4. id = None => \A s \in Streams : Asks(s) => Asks(s)'
    BY <1>2, <1>3 DEF Asks, Begins
  <1>5. id = None /\ Expected => Expected'
    BY <1>4 DEF Expected
  <1> QED BY <1>2, <1>3, <1>5 DEF Awaited

LEMMA UserAwaited == ASSUME TypeOK, Awaited, User PROVE Awaited'
  <1>0. \A r \in Streams : r \in Calls
    BY DEF Calls
  <1>1. ASSUME NEW r \in Streams, OpenStream(r) PROVE Awaited'
    <2>1. /\ \A s \in Streams \ {r} : phase'[s] = phase[s] /\ direct'[s] = direct[s]
          /\ phase[r] = "idle" /\ phase'[r] = "open"
          /\ direct'[r] = (id # None \/ ~begun) /\ begun' = (begun \/ id = None)
          /\ UNCHANGED <<id, selector, beginning, hopeless>>
      BY <1>0, <1>1 DEF OpenStream, WrapWithIdWaiter, TypeOK
    <2>2. \A s \in Streams : Asks(s) => Asks(s)'
      BY <2>1 DEF Asks, Begins
    <2>3. ~begun /\ id = None => Asks(r)'
      BY <2>1 DEF Asks
    <2>4. id' = None /\ ~hopeless' => Expected'
      BY <2>1, <2>2, <2>3 DEF Awaited, Expected
    <2> QED BY <2>1, <2>4 DEF Awaited
  <1>2. ASSUME NEW r \in Streams, ReadStream(r) PROVE Awaited'
    BY <1>2, RequestAwaited DEF ReadStream, RequestFrame, txVars
  <1>3. ASSUME NEW b \in Batches, BatchUpdate(b) PROVE Awaited'
    <2>1. \A r \in Streams : phase'[r] = phase[r] /\ selector'[r] = selector[r]
      BY <1>0, <1>3, CallAssumption DEF BatchUpdate, Send, TypeOK
    <2> QED BY <1>3, <2>1, ElsewhereAwaited DEF BatchUpdate, RequestFrame, txVars
  <1>4. ASSUME Begin \/ Commit \/ Rollback \/ End PROVE Awaited'
    BY <1>4, ElsewhereAwaited DEF Begin, Commit, Rollback, End, txVars, callVars
  <1> QED BY <1>1, <1>2, <1>3, <1>4 DEF User

LEMMA AnswerAwaited == ASSUME TypeOK, Awaited, NEW c \in Calls, Answer(c) PROVE Awaited'
  <1>0. \A r \in Streams : r \in Calls
    BY DEF Calls
  <1>1. ASSUME NEW withToken \in BOOLEAN, Execute(c, withToken) PROVE Awaited'
    BY <1>1, ElsewhereAwaited DEF Execute, txVars
  <1>2. ASSUME Respond(c) PROVE Awaited'
    <2> DEFINE ph == [phase EXCEPT ![c] = IF c \in Streams THEN "flowing" ELSE "ok"]
    <2>1. UNCHANGED <<direct, begun, beginning, hopeless>> /\ ranIn[c] # None /\ phase[c] = "sent"
      BY <1>2 DEF Respond
    <2>2. CASE id = None /\ selector[c] = None
      <3>1. id' = ranIn[c] /\ Send(Waiting, ranIn[c], ph)
        BY <1>2, <2>2 DEF Respond, TakeResponse, Update
      <3>2. \A r \in Streams : phase'[r] = "waiting" => phase[r] = "waiting"
        BY <1>0, <3>1 DEF Send, TypeOK
      <3> QED BY <2>1, <3>1, <3>2, KnownAwaited
    <2>3. CASE ~(id = None /\ selector[c] = None)
      <3>1. phase' = ph /\ UNCHANGED <<id, selector>>
        BY <1>2, <2>3 DEF Respond, TakeResponse
      <3>2. \A r \in Streams : phase'[r] = "waiting" => phase[r] = "waiting"
        BY <1>0, <3>1 DEF TypeOK
      <3>3. CASE id # None
        BY <2>1, <3>1, <3>2, <3>3, KnownAwaited
      <3>4. CASE id = None
        <4>1. \A r \in Streams : Asks(r) => Asks(r)'
          BY <1>0, <2>1, <2>3, <3>1, <3>4 DEF Asks, Begins, TypeOK
        <4>2. Expected => Expected'
          BY <2>1, <4>1 DEF Expected
        <4> QED BY <2>1, <3>1, <3>2, <4>2 DEF Awaited
      <3> QED BY <3>3, <3>4
    <2> QED BY <2>2, <2>3
  <1>3. ASSUME NEW aborted \in BOOLEAN, Fail(c, aborted) PROVE Awaited'
    <2>1. /\ UNCHANGED <<id, begun, direct>>
          /\ hopeless => hopeless'
          /\ beginning \subseteq beginning'
          /\ \A r \in Streams : r # c => phase'[r] = phase[r] /\ selector'[r] = selector[r]
          /\ phase'[c] = "failed"
      BY <1>0, <1>3 DEF Fail, Forget, Rescue, TypeOK, txVars
    <2>2. CASE c \in Streams /\ id = None
      <3>1. hopeless' \/ beginning' # {}
        BY <1>3, <2>2 DEF Fail, Rescue
      <3> QED BY <2>1, <3>1 DEF Awaited, Expected
    <2>3. CASE c \notin Streams
      BY <2>1, <2>3, ElsewhereAwaited
    <2>4. CASE id # None
      <3>1. \A r \in Streams : phase'[r] = "waiting" => phase[r] = "waiting"
        BY <2>1
      <3> QED BY <2>1, <2>4, <3>1, KnownAwaited
    <2> QED BY <2>2, <2>3, <2>4
  <1> QED BY <1>1, <1>2, <1>3 DEF Answer

LEMMA StreamAwaited ==
  ASSUME TypeOK, Awaited, NEW r \in Streams, Complete(r) \/ Break(r) \/ Repeat(r)
  PROVE  Awaited'
  <1>0. \A s \in Streams : s \in Calls
    BY DEF Calls
  <1>1. CASE Complete(r) \/ Break(r)
    <2>1. /\ UNCHANGED <<id, begun, direct, beginning, hopeless>>
          /\ \A s \in Streams \ {r} : phase'[s] = phase[s] /\ selector'[s] = selector[s]
          /\ \/ phase[r] = "flowing" /\ phase'[r] = "ok"
             \/ phase'[r] = "broken"
      BY <1>0, <1>1 DEF Complete, Break, Forget, RequestFrame, TypeOK, txVars
    <2>2. \A s \in Streams : Asks(s) => Asks(s)'
      BY <2>1 DEF Asks, Begins
    <2> QED BY <2>1, <2>2 DEF Awaited, Expected
  <1>2. CASE Repeat(r)
    BY <1>2, RequestAwaited DEF Repeat, RequestFrame, txVars
  <1> QED BY <1>1, <1>2

LEMMA BeginAwaited ==
  ASSUME TypeOK, Awaited, NEW who \in {"user", "stream", "commit"}, BeginAnswer(who)
  PROVE  Awaited'
  <1>1. ASSUME NEW t \in {None, issued + 1}, BeginOk(who, t) PROVE Awaited'
    <2>1. id' # None /\ UNCHANGED <<begun, direct>>
      BY <1>1 DEF BeginOk, Update, TypeOK, None
    <2>2. \A r \in Streams : phase'[r] = "waiting" => phase[r] = "waiting"
      BY <1>1 DEF BeginOk, Update, Send, TypeOK, Calls
    <2> QED BY <2>1, <2>2, KnownAwaited
  <1>2. ASSUME BeginFail(who) PROVE Awaited'
    BY <1>2 DEF BeginFail, Awaited, txVars, callVars
  <1> QED BY <1>1, <1>2 DEF BeginAnswer

\* Every step keeps the id expected.
LEMMA NextAwaited == ASSUME TypeOK, Awaited, [Next]_vars PROVE Awaited'
  <1>1. ASSUME CommitAnswer \/ RollbackDone PROVE Awaited'
    BY <1>1, ElsewhereAwaited
    DEF CommitAnswer, CommitAsked, AskedAgain, SendCommit, CommitDone, CommitOk, CommitFail,
        RollbackDone, callVars
  <1>2. ASSUME UNCHANGED vars PROVE Awaited'
    BY <1>2, ElsewhereAwaited DEF vars, txVars, callVars
  <1> QED BY <1>1, <1>2, UserAwaited, AnswerAwaited, StreamAwaited, BeginAwaited DEF Next

\* No stream waits for an id that nobody is going to bring: whatever fails and
\* breaks, while streams wait a begin() is under way or there is a stream that
\* begins the transaction, or will when it is read or repeated.
THEOREM SomebodyBegins == Spec => [](Unanswered /\ ~hopeless => Expected)
  <1>1. Init => Awaited
    BY DEF Init, Awaited, Calls
  <1>2. Awaited => (Unanswered /\ ~hopeless => Expected)
    BY DEF Awaited, Unanswered, Waiting
  <1> QED BY <1>1, <1>2, NextAwaited, TypeCorrect, PTL DEF Spec
=============================================================================

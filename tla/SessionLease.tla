--------------------------- MODULE SessionLease ---------------------------
(***************************************************************************)
(* What a session pool promises the code that borrows from it, with no     *)
(* queue, inventory or timer: a session is leased to one caller at a time, *)
(* a leased session exists at the backend when it is handed out, and while *)
(* the pool is open the pool never deletes a session under its borrower.   *)
(***************************************************************************)
CONSTANTS Sessions, Callers, None

VARIABLES open,   \* the pool hands out sessions and owes the promises below
          live,   \* the sessions that exist at the backend
          lease   \* lease[c]: the session caller c holds, or None

leaseVars == <<open, live, lease>>

Leased(s) == \E c \in Callers : lease[c] = s

LeaseInit == /\ open = FALSE
             /\ live = {}
             /\ lease = [c \in Callers |-> None]

\* The pool starts to serve.
Serve == /\ ~open
         /\ open' = TRUE
         /\ UNCHANGED <<live, lease>>

\* The pool stops: from here on nothing is promised about live sessions.
Shut == /\ open
        /\ open' = FALSE
        /\ UNCHANGED <<live, lease>>

\* New sessions appear at the backend, none of them known before.
Create(S) == /\ S # {}
             /\ S \cap live = {}
             /\ \A s \in S : ~Leased(s)
             /\ live' = live \cup S
             /\ UNCHANGED <<open, lease>>

\* Sessions are deleted, or expire: not one that is in use while open.
Retire(S) == /\ S # {}
             /\ S \subseteq live
             /\ open => \A s \in S : ~Leased(s)
             /\ live' = live \ S
             /\ UNCHANGED <<open, lease>>

\* A caller without a session gets one that nobody else has.
Grant(c, s) == /\ lease[c] = None
               /\ ~Leased(s)
               /\ open => s \in live
               /\ lease' = [lease EXCEPT ![c] = s]
               /\ UNCHANGED <<open, live>>

\* A caller gives its session back; the backend may have lost it meanwhile.
Return(c, lost) == /\ lease[c] # None
                   /\ live' = IF lost THEN live \ {lease[c]} ELSE live
                   /\ lease' = [lease EXCEPT ![c] = None]
                   /\ UNCHANGED open

LeaseNext == \/ Serve
             \/ Shut
             \/ \E S \in SUBSET Sessions : Create(S) \/ Retire(S)
             \/ \E c \in Callers, s \in Sessions : Grant(c, s)
             \/ \E c \in Callers, lost \in BOOLEAN : Return(c, lost)

LeaseSpec == LeaseInit /\ [][LeaseNext]_leaseVars
===========================================================================

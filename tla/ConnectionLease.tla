-------------------------- MODULE ConnectionLease ---------------------------
(***************************************************************************)
(* What the lock of a connection promises to its tasks: a lease of TTL     *)
(* ticks that is never renewed.  While it is trusted it has an owner, the  *)
(* only task that uses the connection and the only one that can end it.    *)
(* The owner loses that by using it up, or because the lease is lost.      *)
(* LockRefinement shows that ConnectionLock, whose flag has no owner,      *)
(* implements it.                                                          *)
(***************************************************************************)
EXTENDS Naturals

CONSTANTS
  Users,  \* the tasks
  TTL     \* how long a lease lasts, in ticks

VARIABLES
  users,   \* who uses the connection
  left,    \* what the lease has left, or Free
  trusted  \* no lease was lost or used up by its owner so far

vars == <<users, left, trusted>>

Free == TTL + 1

Init == users = {} /\ left = Free /\ trusted = TRUE

\* A lease is granted to a user, or to a request nobody waits for any more.
Grant ==
  /\ left = Free
  /\ trusted => users = {}
  /\ \/ \E u \in Users \ users : users' = users \cup {u}
     \/ UNCHANGED users
  /\ left' = TTL
  /\ UNCHANGED trusted

\* A user ends the lease, its own while leases can be trusted.
Release(u) ==
  /\ u \in users
  /\ trusted => users = {u}
  /\ users' = users \ {u}
  /\ left' = Free
  /\ UNCHANGED trusted

\* A user stops without a word; the lease goes on.
Forget(u) ==
  /\ u \in users
  /\ users' = users \ {u}
  /\ UNCHANGED <<left, trusted>>

\* Leases are never renewed; one that runs out under its user was misjudged.
Age ==
  /\ left \in 1..TTL
  /\ left' = left - 1
  /\ trusted' = (trusted /\ (left = 1 => users = {}))
  /\ UNCHANGED users

\* Over at some time after it ran out, for nobody who could still rely on it.
Expire ==
  /\ left = 0
  /\ trusted => users = {}
  /\ left' = Free
  /\ UNCHANGED <<users, trusted>>

\* The lease is lost early.
Lose ==
  /\ left' = Free
  /\ trusted' = FALSE
  /\ UNCHANGED users

Next == Grant \/ (\E u \in Users : Release(u) \/ Forget(u)) \/ Age \/ Expire \/ Lose

Spec == Init /\ [][Next]_vars
=============================================================================

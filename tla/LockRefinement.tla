--------------------------- MODULE LockRefinement ---------------------------
(* ConnectionLock implements ConnectionLease. *)
EXTENDS ConnectionLock

\* A lease is a flag that is up, with what its alarm has left.
Promise == INSTANCE ConnectionLease WITH
             Users <- Tasks, TTL <- TTL,
             users <- {t \in Tasks : pc[t] \in Holding},
             left <- IF locked THEN alarm ELSE NoAlarm,
             trusted <- Undisturbed

\* Although the flag does not know its owner and a release does not say whose
\* lock it releases, tasks see owned leases that are granted one at a time,
\* never renewed, and ended by their owner, by the alarm after the TTL and by
\* nobody else, until one outlives its TTL in use or is lost to an eviction;
\* and also after that no lease is granted over another or renewed.
ImplementsLease == Promise!Spec
=============================================================================

----------------------------- MODULE LeaseLock -----------------------------
(***************************************************************************)
(* What the state lock of one workspace promises: at most one owner, whose *)
(* lease may run out.  An owner whose lease is live is never displaced:    *)
(* the lock first becomes free, or its lease first runs out, and only then *)
(* is it granted to somebody else.                                         *)
(***************************************************************************)
CONSTANTS
  LockIds,    \* the identifiers lock requests carry
  NoLock      \* the lock is free

VARIABLES
  holder,     \* the identifier that owns the lock, or NoLock
  expired     \* has the owner's lease run out?

vars == <<holder, expired>>

TypeOK ==
  /\ holder \in LockIds \cup {NoLock}
  /\ expired \in BOOLEAN

Init ==
  /\ holder = NoLock
  /\ expired = FALSE

\* The lock is granted to i, either because it is free or because the lease
\* of its owner has run out.
Grant(i) ==
  /\ holder = NoLock \/ expired
  /\ holder' = i
  /\ expired' = FALSE

\* The owner, or an administrator, gives the lock up.
Free ==
  /\ holder # NoLock
  /\ holder' = NoLock
  /\ expired' = FALSE

\* The owner has held the lock for longer than its lease.
LeaseRunsOut ==
  /\ holder # NoLock
  /\ ~expired
  /\ expired' = TRUE
  /\ UNCHANGED holder

Next ==
  \/ \E i \in LockIds : Grant(i)
  \/ Free
  \/ LeaseRunsOut

Spec == Init /\ [][Next]_vars
=============================================================================

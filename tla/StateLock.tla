----------------------------- MODULE StateLock -----------------------------
(***************************************************************************)
(* The Terraform state lock of one workspace: the row of state_locks, the  *)
(* request handlers that read and write it (backend/core/state-manager.py, *)
(* behind backend/api/routes/state-routes.py) and the Terraform clients    *)
(* that call them.  Every statement of these handlers filters on           *)
(* workspace_id, so one workspace says everything.                         *)
(*                                                                         *)
(* A handler is one database transaction of several statements, and other  *)
(* handlers run between any two of them (the event loop switches at every  *)
(* await, and several workers may serve one database).  There is one       *)
(* action per statement.  PostgreSQL runs them at READ COMMITTED:          *)
(*   - a SELECT sees the rows committed when it starts;                    *)
(*   - DELETE selects the row by PRIMARY KEY, which is workspace_id and    *)
(*     not lock_id: it deletes whichever row is there by then;             *)
(*   - a DELETE that meets a row another transaction has deleted and not   *)
(*     committed waits for it and then matches nothing;                    *)
(*   - an INSERT waits for such a transaction, then fails if there is a    *)
(*     row with its primary key.                                           *)
(***************************************************************************)
EXTENDS Naturals

CONSTANTS
  Clients,    \* Terraform processes
  Requests,   \* handler slots: how many requests are served at a time
  LockIds,    \* identifiers clients put in their lock requests (UUIDs)
  NoLock,     \* no row in state_locks
  NoClient,   \* nobody waits for the answer of a request
  NoRequest,  \* no transaction holds a deleted row uncommitted
  RetryMax,   \* how often a client sends one request again
  Faults      \* what may go wrong besides the interleaving of handlers

FaultKinds ==
  { "lease",          \* a client works for longer than its lease
    "force_unlock",   \* an administrator breaks the lock
    "lock_retry",     \* a lock request is sent again before it is answered
    "unlock_retry",   \* an unlock request is sent again before it is answered
    "client_dies",    \* a client stops and never unlocks
    "server_crash" }  \* the server restarts and drops every request

ASSUME FaultsAssumption == Faults \subseteq FaultKinds
ASSUME RetryMaxAssumption == RetryMax \in Nat
ASSUME NullsAssumption ==
  NoLock \notin LockIds /\ NoClient \notin Clients /\ NoRequest \notin Requests

VARIABLES
  lockId,     \* lock_id of the committed row, or NoLock
  expired,    \* expires_at of that row has passed
  reclaiming, \* the transaction that deleted the row and has not committed
  req,        \* the handlers
  status,     \* what each client knows of its lock
  ownId,      \* the identifier of the lock it asks for, has or gives back
  retries,    \* how often it has sent its last request again
  disturbed,  \* history: a lease has run out, the lock has been broken, or an
              \* unlock request has been sent twice
  overlapped  \* history: two requests have been served at the same time

lockVars == <<lockId, expired, reclaiming>>
clientVars == <<status, ownId, retries>>
history == <<disturbed, overlapped>>
vars == <<lockVars, req, clientVars, history>>

Ops == {"none", "lock", "unlock", "force"}
Steps == {"free", "read", "reclaim", "insert", "delete"}
Statuses == {"idle", "locking", "held", "unlocking"}
Request == [op: Ops, step: Steps, id: LockIds \cup {NoLock}, client: Clients \cup {NoClient}]
Free == [op |-> "none", step |-> "free", id |-> NoLock, client |-> NoClient]

TypeOK ==
  /\ lockId \in LockIds \cup {NoLock}
  /\ expired \in BOOLEAN
  /\ reclaiming \in Requests \cup {NoRequest}
  /\ req \in [Requests -> Request]
  /\ status \in [Clients -> Statuses]
  /\ ownId \in [Clients -> LockIds \cup {NoLock}]
  /\ retries \in [Clients -> 0..RetryMax]
  /\ disturbed \in BOOLEAN
  /\ overlapped \in BOOLEAN

Init ==
  /\ lockId = NoLock
  /\ expired = FALSE
  /\ reclaiming = NoRequest
  /\ req = [r \in Requests |-> Free]
  /\ status = [c \in Clients |-> "idle"]
  /\ ownId = [c \in Clients |-> NoLock]
  /\ retries = [c \in Clients |-> 0]
  /\ disturbed = FALSE
  /\ overlapped = FALSE

-----------------------------------------------------------------------------
(***************************************************************************)
(* Helpers.                                                                *)
(***************************************************************************)
\* A UUID is new: nothing in the system carries it.
Fresh(i) ==
  /\ lockId # i
  /\ \A r \in Requests : req[r].id # i
  /\ \A c \in Clients : ownId[c] # i

NewId == CHOOSE i \in LockIds : Fresh(i)

\* Request r is answered and its slot freed.  The client that still waits for
\* it, if there is one, has the lock or is done with it.
Granted(r) ==
  /\ req' = [req EXCEPT ![r] = Free]
  /\ status' = [c \in Clients |-> IF c = req[r].client THEN "held" ELSE status[c]]
  /\ UNCHANGED <<ownId, retries, history>>

Ended(r) ==
  /\ req' = [req EXCEPT ![r] = Free]
  /\ status' = [c \in Clients |-> IF c = req[r].client THEN "idle" ELSE status[c]]
  /\ ownId' = [c \in Clients |-> IF c = req[r].client THEN NoLock ELSE ownId[c]]
  /\ UNCHANGED <<retries, history>>

\* Request r goes on to its next statement.
Goto(r, s) ==
  /\ req' = [req EXCEPT ![r].step = s]
  /\ UNCHANGED <<clientVars, history>>

\* A request of client c arrives in slot r; old is what the slots hold else.
Arrive(r, o, i, c, old) ==
  /\ req[r] = Free
  /\ req' = [old EXCEPT ![r] = [op |-> o, step |-> "read", id |-> i, client |-> c]]
  /\ overlapped' = (overlapped \/ \E q \in Requests : req[q] # Free)

\* Nobody waits any more for the requests of client c; their handlers run on.
Abandoned(c) ==
  [r \in Requests |-> IF req[r].client = c THEN [req[r] EXCEPT !.client = NoClient]
                                           ELSE req[r]]

-----------------------------------------------------------------------------
(***************************************************************************)
(* The clients.                                                            *)
(***************************************************************************)
\* terraform takes the lock under an identifier it has just made up.
SendLock(c, r) ==
  /\ status[c] = "idle"
  /\ \E i \in LockIds : Fresh(i)
  /\ Arrive(r, "lock", NewId, c, req)
  /\ ownId' = [ownId EXCEPT ![c] = NewId]
  /\ status' = [status EXCEPT ![c] = "locking"]
  /\ retries' = [retries EXCEPT ![c] = 0]
  /\ UNCHANGED <<lockVars, disturbed>>

\* terraform has finished its work and gives the lock back.
SendUnlock(c, r) ==
  /\ status[c] = "held"
  /\ Arrive(r, "unlock", ownId[c], c, req)
  /\ status' = [status EXCEPT ![c] = "unlocking"]
  /\ retries' = [retries EXCEPT ![c] = 0]
  /\ UNCHANGED <<lockVars, ownId, disturbed>>

\* Mutant: nothing limits how often a request is sent again.
RetryForever(c, r) ==
  /\ status[c] = "unlocking"
  /\ "unlock_retry" \in Faults
  /\ Arrive(r, "unlock", ownId[c], c, Abandoned(c))
  /\ retries' = [retries EXCEPT ![c] = @ + 1]
  /\ disturbed' = TRUE
  /\ UNCHANGED <<lockVars, status, ownId>>

\* The client's HTTP layer gives up on a request and sends it again, with the
\* same body; the handler of the first one runs on in the server.
Retry(c, r) ==
  /\ \/ /\ "lock_retry" \in Faults
        /\ status[c] = "locking"
        /\ Arrive(r, "lock", ownId[c], c, Abandoned(c))
        /\ UNCHANGED disturbed
     \/ /\ "unlock_retry" \in Faults
        /\ status[c] = "unlocking"
        /\ Arrive(r, "unlock", ownId[c], c, Abandoned(c))
        /\ disturbed' = TRUE
  /\ retries[c] < RetryMax
  /\ retries' = [retries EXCEPT ![c] = @ + 1]
  /\ UNCHANGED <<lockVars, status, ownId>>

\* The client is killed.  Its lock, if it has one, stays.
ClientDies(c) ==
  /\ "client_dies" \in Faults
  /\ status[c] # "idle"
  /\ req' = Abandoned(c)
  /\ status' = [status EXCEPT ![c] = "idle"]
  /\ ownId' = [ownId EXCEPT ![c] = NoLock]
  /\ UNCHANGED <<lockVars, retries, history>>

\* An administrator breaks the lock (DELETE /state/{workspace}/lock).
SendForceUnlock(r) ==
  /\ "force_unlock" \in Faults
  /\ Arrive(r, "force", NoLock, NoClient, req)
  /\ disturbed' = TRUE
  /\ UNCHANGED <<lockVars, clientVars>>

-----------------------------------------------------------------------------
(***************************************************************************)
(* acquire_lock.                                                           *)
(***************************************************************************)
\* Mutant: the handler does not look at expires_at.
LockReadIgnoresLease(r) ==
  /\ req[r].op = "lock" /\ req[r].step = "read"
  /\ \/ lockId # NoLock /\ Goto(r, "reclaim")
     \/ lockId = NoLock /\ Goto(r, "insert")
  /\ UNCHANGED lockVars

\* Mutant: an expired lock is answered 423 like a live one.
LockReadKeepsExpired(r) ==
  /\ req[r].op = "lock" /\ req[r].step = "read"
  /\ \/ lockId # NoLock /\ Ended(r)
     \/ lockId = NoLock /\ Goto(r, "insert")
  /\ UNCHANGED lockVars

\* SELECT the row.  A live one is answered 423; an expired one is to be
\* released first; without one the lock can be inserted.
LockRead(r) ==
  /\ req[r].op = "lock" /\ req[r].step = "read"
  /\ \/ lockId # NoLock /\ ~expired /\ Ended(r)
     \/ lockId # NoLock /\ expired /\ Goto(r, "reclaim")
     \/ lockId = NoLock /\ Goto(r, "insert")
  /\ UNCHANGED lockVars

\* DELETE the row that was read as expired, and flush.  The row goes for good
\* only when the transaction commits.
LockReclaim(r) ==
  /\ req[r].step = "reclaim"
  /\ reclaiming' = IF lockId # NoLock /\ reclaiming = NoRequest THEN r ELSE reclaiming
  /\ Goto(r, "insert")
  /\ UNCHANGED <<lockId, expired>>

\* Mutant: an upsert instead of an INSERT.
LockInsertOverwrites(r) ==
  /\ req[r].step = "insert"
  /\ lockId' = req[r].id
  /\ expired' = FALSE
  /\ reclaiming' = NoRequest
  /\ Granted(r)

\* INSERT the new row and COMMIT.
LockInsert(r) ==
  /\ req[r].step = "insert"
  /\ reclaiming = r \/ (reclaiming = NoRequest /\ lockId = NoLock)
  /\ lockId' = req[r].id
  /\ expired' = FALSE
  /\ reclaiming' = NoRequest
  /\ Granted(r)

\* Mutant: the error of the INSERT is swallowed and answered 200.
LockConflictGrants(r) ==
  /\ req[r].step = "insert"
  /\ reclaiming = NoRequest /\ lockId # NoLock
  /\ Granted(r)
  /\ UNCHANGED lockVars

\* The INSERT meets a row of the same workspace: the transaction rolls back
\* and the client gets a 500.
LockConflict(r) ==
  /\ req[r].step = "insert"
  /\ reclaiming = NoRequest /\ lockId # NoLock
  /\ Ended(r)
  /\ UNCHANGED lockVars

(***************************************************************************)
(* release_lock and force_unlock.                                          *)
(***************************************************************************)
\* Mutant: the identifiers are not compared.
UnlockReadUnchecked(r) ==
  /\ req[r].op = "unlock" /\ req[r].step = "read"
  /\ \/ lockId # NoLock /\ Goto(r, "delete")
     \/ lockId = NoLock /\ Ended(r)
  /\ UNCHANGED lockVars

\* SELECT the row and compare lock_id.  No row, or another identifier, is
\* answered 409, and terraform gives up on the lock.
UnlockRead(r) ==
  /\ req[r].op = "unlock" /\ req[r].step = "read"
  /\ \/ lockId = req[r].id /\ Goto(r, "delete")
     \/ lockId # req[r].id /\ Ended(r)
  /\ UNCHANGED lockVars

ForceUnlockRead(r) ==
  /\ req[r].op = "force" /\ req[r].step = "read"
  /\ \/ lockId # NoLock /\ Goto(r, "delete")
     \/ lockId = NoLock /\ Ended(r)
  /\ UNCHANGED lockVars

\* DELETE the row of the workspace and COMMIT.
DeleteRow(r) ==
  /\ req[r].step = "delete"
  /\ lockId' = IF reclaiming = NoRequest THEN NoLock ELSE lockId
  /\ expired' = IF reclaiming = NoRequest THEN FALSE ELSE expired
  /\ UNCHANGED reclaiming
  /\ Ended(r)

-----------------------------------------------------------------------------
(***************************************************************************)
(* Time and the server process.                                            *)
(***************************************************************************)
\* state_lock_timeout_seconds go by.  No handler renews a lease.
LeaseRunsOut ==
  /\ "lease" \in Faults
  /\ lockId # NoLock /\ ~expired
  /\ expired' = TRUE
  /\ disturbed' = TRUE
  /\ UNCHANGED <<lockId, reclaiming, req, clientVars, overlapped>>

\* The server restarts: open transactions roll back, committed rows stay, and
\* the clients that wait for an answer get an error.
ServerCrash ==
  /\ "server_crash" \in Faults
  /\ req' = [r \in Requests |-> Free]
  /\ reclaiming' = NoRequest
  /\ status' = [c \in Clients |-> IF status[c] = "held" THEN "held" ELSE "idle"]
  /\ ownId' = [c \in Clients |-> IF status[c] = "held" THEN ownId[c] ELSE NoLock]
  /\ UNCHANGED <<lockId, expired, retries, history>>

-----------------------------------------------------------------------------
Handler(r) ==
  \/ LockRead(r)
  \/ LockReclaim(r)
  \/ LockInsert(r)
  \/ LockConflict(r)
  \/ UnlockRead(r)
  \/ ForceUnlockRead(r)
  \/ DeleteRow(r)

Client(c, r) ==
  \/ SendLock(c, r)
  \/ SendUnlock(c, r)
  \/ Retry(c, r)

Next ==
  \/ \E r \in Requests : Handler(r)
  \/ \E c \in Clients, r \in Requests : Client(c, r)
  \/ \E c \in Clients : ClientDies(c)
  \/ \E r \in Requests : SendForceUnlock(r)
  \/ LeaseRunsOut
  \/ ServerCrash

Spec == Init /\ [][Next]_vars

\* The event loop runs every handler to its end, time passes, a client ends
\* its work, somebody or other wants the lock again and again, and the server
\* does not crash for ever.
Fairness ==
  /\ \A r \in Requests : WF_vars(Handler(r))
  /\ WF_vars(LeaseRunsOut)
  /\ \A c \in Clients : SF_vars(\E r \in Requests : SendUnlock(c, r))
  /\ SF_vars(\E c \in Clients, r \in Requests : SendLock(c, r))
  /\ <>[][~ServerCrash]_vars

FairSpec == Spec /\ Fairness

-----------------------------------------------------------------------------
(***************************************************************************)
(* Properties.                                                             *)
(***************************************************************************)
\* A client that takes itself for the owner of the lock: it has been told so,
\* and has not been told yet that the lock is gone.
Holders == {c \in Clients : status[c] \in {"held", "unlocking"}}

\* Two Terraform processes never work on the state of one workspace at a time,
\* whatever requests overlap, are lost or are sent again, until a lease runs
\* out, an administrator breaks the lock or an unlock is sent twice
\* (the purpose of acquire_lock and release_lock).
MutualExclusion == ~disturbed => \A c, d \in Holders : c = d

\* The client that works under the lock is the one the row names, so that the
\* check of the pushed identifier in push_state protects it.
HolderIsRecorded ==
  ~disturbed => \A c \in Clients : status[c] = "held" => lockId = ownId[c]

\* Acquiring a lock takes away no lock but an expired one (acquire_lock:
\* "Auto-releases expired locks before attempting acquisition").
AcquireTakesOnlyExpired ==
  [][ \A r \in Requests :
        LockInsert(r) /\ lockId # NoLock => expired ]_vars

\* The same as long as requests come one at a time.
SerialAcquireTakesOnlyExpired ==
  [][ \A r \in Requests :
        LockInsert(r) /\ lockId # NoLock => expired \/ overlapped ]_vars

\* A lock is released under its own identifier only (release_lock: "Release
\* lock if lock_id matches").
ReleaseTakesOnlyItsOwn ==
  [][ \A r \in Requests :
        DeleteRow(r) /\ req[r].op = "unlock" /\ lockId' # lockId
          => lockId = req[r].id ]_vars

\* The same as long as no lease runs out, nobody breaks the lock and no unlock
\* is sent twice, or requests come one at a time.
SafeReleaseTakesOnlyItsOwn ==
  [][ \A r \in Requests :
        DeleteRow(r) /\ req[r].op = "unlock" /\ lockId' # lockId
          => lockId = req[r].id \/ (disturbed /\ overlapped) ]_vars

\* A lock whose owner has stopped without unlocking does not block the
\* workspace for ever: its lease runs out and the next request takes it over.
OrphanGivesWay ==
  \A i \in LockIds :
    (lockId = i /\ \A c \in Holders : ownId[c] # i) ~> (lockId # i)

(***************************************************************************)
(* What the lock promises, in the abstract: an owner whose lease is live   *)
(* is never displaced by another.                                          *)
(***************************************************************************)
Abstract == INSTANCE LeaseLock WITH holder <- lockId
AbstractSpec == Abstract!Spec
=============================================================================

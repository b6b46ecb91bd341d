-------------------------- MODULE StateLockProofs --------------------------
(***************************************************************************)
(* Proofs about the state lock, for any number of clients, handler slots,  *)
(* identifiers and retries, and for every set of faults.                   *)
(***************************************************************************)
EXTENDS StateLock, TLAPS

(***************************************************************************)
(* The inductive invariant.  SlotsOK and IdsOK hold whatever happens;      *)
(* Undisturbed says what holds until something disturbs the lock.          *)
(***************************************************************************)
\* A slot is at a step of its operation.
SlotsOK ==
  \A r \in Requests :
    /\ req[r].op = "none" => req[r] = Free
    /\ req[r].op = "lock" => req[r].step \in {"read", "reclaim", "insert"}
    /\ req[r].op \in {"unlock", "force"} => req[r].step \in {"read", "delete"}
    /\ req[r].op \in {"lock", "unlock"} => req[r].id \in LockIds
    /\ req[r].op = "force" => req[r].client = NoClient

\* A client waits for at most one request, which carries its identifier, and
\* no two clients have the same identifier.
IdsOK ==
  /\ \A c \in Clients : status[c] # "idle" => ownId[c] \in LockIds
  /\ \A c, d \in Clients : ownId[c] = ownId[d] /\ ownId[c] # NoLock => c = d
  /\ \A r \in Requests : req[r].client # NoClient =>
       /\ ownId[req[r].client] = req[r].id
       /\ status[req[r].client] = IF req[r].op = "lock" THEN "locking" ELSE "unlocking"
  /\ \A r, q \in Requests : req[r].client = req[q].client /\ req[r].client # NoClient => r = q

\* The row is the holder's, every handler about to delete it means it, and an
\* unlock request that nobody waits for is not about a lock somebody has.
Undisturbed ==
  /\ ~expired
  /\ reclaiming = NoRequest
  /\ \A r \in Requests : req[r].step # "reclaim" /\ req[r].op # "force"
  /\ \A c \in Holders : lockId = ownId[c]
  /\ \A r \in Requests : req[r].step = "delete" => lockId = req[r].id
  /\ \A r \in Requests : req[r].op = "unlock" /\ req[r].client = NoClient =>
       \A c \in Clients : ownId[c] # req[r].id
  /\ \A r, q \in Requests :
       req[r].op = "unlock" /\ req[q].op = "unlock" /\ req[r].id = req[q].id => r = q

LockInv == TypeOK /\ SlotsOK /\ IdsOK /\ (~disturbed => Undisturbed)

-----------------------------------------------------------------------------
\* The identifier of a new lock request is carried by nothing yet.
LEMMA NewIdFresh ==
  ASSUME \E i \in LockIds : Fresh(i)
  PROVE  NewId \in LockIds /\ Fresh(NewId)
  BY DEF NewId

\* LockInv holds initially.
LEMMA InitLockInv == Init => LockInv
  <1> SUFFICES ASSUME Init PROVE LockInv
    OBVIOUS
  <1> USE NullsAssumption, RetryMaxAssumption DEF Init, Free
  <1>1. TypeOK
    <2>1. 0 \in 0..RetryMax
      OBVIOUS
    <2>2. Free \in Request
      BY DEF Request, Ops, Steps
    <2>3. QED
      BY <2>1, <2>2 DEF TypeOK, Statuses
  <1>2. SlotsOK
    BY DEF SlotsOK
  <1>3. IdsOK
    BY DEF IdsOK
  <1>4. Undisturbed
    BY DEF Undisturbed, Holders
  <1>5. QED
    BY <1>1, <1>2, <1>3, <1>4 DEF LockInv

\* acquire_lock's SELECT changes no row; undisturbed, it sees no expired one.
LEMMA LockReadPreserves ==
  ASSUME LockInv, NEW r \in Requests, LockRead(r)
  PROVE  LockInv'
  <1> USE NullsAssumption, RetryMaxAssumption
      DEF LockInv, lockVars, clientVars, history, Free, Request, Ops, Steps, Statuses
  <1> USE DEF LockRead, Ended, Goto
  <1>1. TypeOK'
    BY DEF TypeOK
  <1>2. SlotsOK'
    BY DEF TypeOK, SlotsOK
  <1>3. IdsOK'
    BY DEF TypeOK, SlotsOK, IdsOK
  <1>4. ~disturbed' => Undisturbed'
    BY SMTT(30) DEF TypeOK, SlotsOK, IdsOK, Undisturbed, Holders
  <1>5. QED
    BY <1>1, <1>2, <1>3, <1>4

\* Undisturbed, no handler reaches the DELETE of an expired row.
LEMMA LockReclaimPreserves ==
  ASSUME LockInv, NEW r \in Requests, LockReclaim(r)
  PROVE  LockInv'
  <1> USE NullsAssumption, RetryMaxAssumption
      DEF LockInv, lockVars, clientVars, history, Free, Request, Ops, Steps, Statuses
  <1> USE DEF LockReclaim, Goto
  <1>1. TypeOK'
    BY DEF TypeOK
  <1>2. SlotsOK'
    BY DEF TypeOK, SlotsOK
  <1>3. IdsOK'
    BY DEF TypeOK, SlotsOK, IdsOK
  <1>4. ~disturbed' => Undisturbed'
    BY DEF TypeOK, SlotsOK, IdsOK, Undisturbed, Holders
  <1>5. QED
    BY <1>1, <1>2, <1>3, <1>4

\* acquire_lock's INSERT grants the identifier its client asked for.
LEMMA LockInsertPreserves ==
  ASSUME LockInv, NEW r \in Requests, LockInsert(r)
  PROVE  LockInv'
  <1> USE NullsAssumption, RetryMaxAssumption
      DEF LockInv, lockVars, clientVars, history, Free, Request, Ops, Steps, Statuses
  <1> USE DEF LockInsert, Granted
  <1>1. TypeOK'
    BY DEF TypeOK
  <1>2. SlotsOK'
    BY DEF TypeOK, SlotsOK
  <1>3. IdsOK'
    BY DEF TypeOK, SlotsOK, IdsOK
  <1>4. ~disturbed' => Undisturbed'
    BY DEF TypeOK, SlotsOK, IdsOK, Undisturbed, Holders
  <1>5. QED
    BY <1>1, <1>2, <1>3, <1>4

\* A request refused for the primary key leaves its client without a lock.
LEMMA LockConflictPreserves ==
  ASSUME LockInv, NEW r \in Requests, LockConflict(r)
  PROVE  LockInv'
  <1> USE NullsAssumption, RetryMaxAssumption
      DEF LockInv, lockVars, clientVars, history, Free, Request, Ops, Steps, Statuses
  <1> USE DEF LockConflict, Ended
  <1>1. TypeOK'
    BY DEF TypeOK
  <1>2. SlotsOK'
    BY DEF TypeOK, SlotsOK
  <1>3. IdsOK'
    BY DEF TypeOK, SlotsOK, IdsOK
  <1>4. ~disturbed' => Undisturbed'
    BY DEF TypeOK, SlotsOK, IdsOK, Undisturbed, Holders
  <1>5. QED
    BY <1>1, <1>2, <1>3, <1>4

\* release_lock goes on to DELETE only when the row carries its identifier.
LEMMA UnlockReadPreserves ==
  ASSUME LockInv, NEW r \in Requests, UnlockRead(r)
  PROVE  LockInv'
  <1> USE NullsAssumption, RetryMaxAssumption
      DEF LockInv, lockVars, clientVars, history, Free, Request, Ops, Steps, Statuses
  <1> USE DEF UnlockRead, Ended, Goto
  <1>1. TypeOK'
    BY DEF TypeOK
  <1>2. SlotsOK'
    BY DEF TypeOK, SlotsOK
  <1>3. IdsOK'
    BY DEF TypeOK, SlotsOK, IdsOK
  <1>4. ~disturbed' => Undisturbed'
    BY DEF TypeOK, SlotsOK, IdsOK, Undisturbed, Holders
  <1>5. QED
    BY <1>1, <1>2, <1>3, <1>4

\* force_unlock goes on to DELETE; nothing is claimed once it is sent.
LEMMA ForceUnlockReadPreserves ==
  ASSUME LockInv, NEW r \in Requests, ForceUnlockRead(r)
  PROVE  LockInv'
  <1> USE NullsAssumption, RetryMaxAssumption
      DEF LockInv, lockVars, clientVars, history, Free, Request, Ops, Steps, Statuses
  <1> USE DEF ForceUnlockRead, Ended, Goto
  <1>1. TypeOK'
    BY DEF TypeOK
  <1>2. SlotsOK'
    BY DEF TypeOK, SlotsOK
  <1>3. IdsOK'
    BY DEF TypeOK, SlotsOK, IdsOK
  <1>4. ~disturbed' => Undisturbed'
    BY DEF TypeOK, SlotsOK, IdsOK, Undisturbed, Holders
  <1>5. QED
    BY <1>1, <1>2, <1>3, <1>4

\* Undisturbed, the row that goes is of the client that gives it back.
LEMMA DeleteRowPreserves ==
  ASSUME LockInv, NEW r \in Requests, DeleteRow(r)
  PROVE  LockInv'
  <1> USE NullsAssumption, RetryMaxAssumption
      DEF LockInv, lockVars, clientVars, history, Free, Request, Ops, Steps, Statuses
  <1> USE DEF DeleteRow, Ended
  <1>1. TypeOK'
    BY DEF TypeOK
  <1>2. SlotsOK'
    BY DEF TypeOK, SlotsOK
  <1>3. IdsOK'
    BY DEF TypeOK, SlotsOK, IdsOK
  <1>4. ~disturbed' => Undisturbed'
    BY DEF TypeOK, SlotsOK, IdsOK, Undisturbed, Holders
  <1>5. QED
    BY <1>1, <1>2, <1>3, <1>4

\* A new lock request carries an identifier nothing else carries.
LEMMA SendLockPreserves ==
  ASSUME LockInv, NEW c \in Clients, NEW r \in Requests, SendLock(c, r)
  PROVE  LockInv'
  <1> USE NullsAssumption, RetryMaxAssumption
      DEF LockInv, lockVars, clientVars, history, Free, Request, Ops, Steps, Statuses
  <1> USE DEF SendLock, Arrive
  <1>0. NewId \in LockIds /\ Fresh(NewId)
    BY NewIdFresh
  <1>1. TypeOK'
    BY <1>0 DEF TypeOK
  <1>2. SlotsOK'
    BY <1>0 DEF TypeOK, SlotsOK
  <1>3. IdsOK'
    BY <1>0 DEF TypeOK, SlotsOK, IdsOK, Fresh
  <1>4. ~disturbed' => Undisturbed'
    BY <1>0 DEF TypeOK, SlotsOK, IdsOK, Fresh, Undisturbed, Holders
  <1>5. QED
    BY <1>1, <1>2, <1>3, <1>4

\* A client gives back the identifier it holds.
LEMMA SendUnlockPreserves ==
  ASSUME LockInv, NEW c \in Clients, NEW r \in Requests, SendUnlock(c, r)
  PROVE  LockInv'
  <1> USE NullsAssumption, RetryMaxAssumption
      DEF LockInv, lockVars, clientVars, history, Free, Request, Ops, Steps, Statuses
  <1> USE DEF SendUnlock, Arrive
  <1>1. TypeOK'
    BY DEF TypeOK
  <1>2. SlotsOK'
    BY DEF TypeOK, SlotsOK, IdsOK
  <1>3. IdsOK'
    BY DEF TypeOK, SlotsOK, IdsOK
  <1>4. ~disturbed' => Undisturbed'
    BY DEF TypeOK, SlotsOK, IdsOK, Undisturbed, Holders
  <1>5. QED
    BY <1>1, <1>2, <1>3, <1>4

\* A request sent again carries the identifier of the first, which nobody waits for.
LEMMA RetryPreserves ==
  ASSUME LockInv, NEW c \in Clients, NEW r \in Requests, Retry(c, r)
  PROVE  LockInv'
  <1> USE NullsAssumption, RetryMaxAssumption
      DEF LockInv, lockVars, clientVars, history, Free, Request, Ops, Steps, Statuses
  <1> DEFINE op == IF status[c] = "locking" THEN "lock" ELSE "unlock"
             new == [op |-> op, step |-> "read", id |-> ownId[c], client |-> c]
  <1>1. /\ status[c] \in {"locking", "unlocking"}
        /\ UNCHANGED <<lockVars, status, ownId>>
        /\ req[r] = Free
        /\ status[c] = "unlocking" => disturbed'
        /\ status[c] = "locking" => disturbed' = disturbed
        /\ disturbed' \in {disturbed, TRUE}
        /\ overlapped' \in BOOLEAN
        /\ retries' = [retries EXCEPT ![c] = @ + 1]
        /\ retries[c] < RetryMax
    BY DEF Retry, Arrive, TypeOK
  <1>2. new \in Request /\ new.id \in LockIds
    BY <1>1 DEF TypeOK, IdsOK
  <1>3. req' = [q \in Requests |-> IF q = r THEN new ELSE
                 IF req[q].client = c THEN [req[q] EXCEPT !.client = NoClient] ELSE req[q]]
    BY <1>1 DEF Retry, Arrive, Abandoned, TypeOK
  <1>4. \A q \in Requests :
          /\ q = r => req'[q] = new
          /\ q # r => /\ req'[q].op = req[q].op
                      /\ req'[q].step = req[q].step
                      /\ req'[q].id = req[q].id
                      /\ req'[q].client = IF req[q].client = c THEN NoClient ELSE req[q].client
                      /\ req'[q] \in Request
    BY <1>3 DEF TypeOK
  <1>5. TypeOK'
    <2>1. retries' \in [Clients -> 0..RetryMax]
      BY <1>1 DEF TypeOK
    <2>2. req' \in [Requests -> Request]
      BY <1>2, <1>3, <1>4
    <2>3. QED
      BY <1>1, <2>1, <2>2 DEF TypeOK
  <1>6. SlotsOK'
    BY <1>1, <1>2, <1>3, <1>4 DEF SlotsOK, TypeOK
  <1>7. IdsOK'
    BY <1>1, <1>2, <1>4 DEF SlotsOK, IdsOK, TypeOK
  <1>8. ~disturbed' => Undisturbed'
    BY <1>1, <1>2, <1>4 DEF TypeOK, SlotsOK, IdsOK, Undisturbed, Holders
  <1>9. QED
    BY <1>5, <1>6, <1>7, <1>8

\* A client that dies takes its identifier with it.
LEMMA ClientDiesPreserves ==
  ASSUME LockInv, NEW c \in Clients, ClientDies(c)
  PROVE  LockInv'
  <1> USE NullsAssumption, RetryMaxAssumption
      DEF LockInv, lockVars, clientVars, history, Free, Request, Ops, Steps, Statuses
  <1> USE DEF ClientDies, Abandoned
  <1>1. TypeOK'
    BY DEF TypeOK
  <1>2. SlotsOK'
    BY DEF TypeOK, SlotsOK
  <1>3. IdsOK'
    BY DEF TypeOK, SlotsOK, IdsOK
  <1>4. ~disturbed' => Undisturbed'
    BY DEF TypeOK, SlotsOK, IdsOK, Undisturbed, Holders
  <1>5. QED
    BY <1>1, <1>2, <1>3, <1>4

\* Breaking the lock disturbs it.
LEMMA SendForceUnlockPreserves ==
  ASSUME LockInv, NEW r \in Requests, SendForceUnlock(r)
  PROVE  LockInv'
  <1> USE NullsAssumption, RetryMaxAssumption
      DEF LockInv, lockVars, clientVars, history, Free, Request, Ops, Steps, Statuses
  <1> USE DEF SendForceUnlock, Arrive
  <1>1. TypeOK'
    BY DEF TypeOK
  <1>2. SlotsOK'
    BY DEF TypeOK, SlotsOK
  <1>3. IdsOK'
    BY DEF TypeOK, SlotsOK, IdsOK
  <1>4. ~disturbed' => Undisturbed'
    BY DEF TypeOK, SlotsOK, IdsOK, Undisturbed, Holders
  <1>5. QED
    BY <1>1, <1>2, <1>3, <1>4

\* A lease that runs out disturbs the lock.
LEMMA LeaseRunsOutPreserves ==
  ASSUME LockInv, LeaseRunsOut
  PROVE  LockInv'
  <1> USE NullsAssumption, RetryMaxAssumption
      DEF LockInv, lockVars, clientVars, history, Free, Request, Ops, Steps, Statuses
  <1> USE DEF LeaseRunsOut
  <1>1. TypeOK'
    BY DEF TypeOK
  <1>2. SlotsOK'
    BY DEF TypeOK, SlotsOK
  <1>3. IdsOK'
    BY DEF TypeOK, SlotsOK, IdsOK
  <1>4. ~disturbed' => Undisturbed'
    BY DEF TypeOK, SlotsOK, IdsOK, Undisturbed, Holders
  <1>5. QED
    BY <1>1, <1>2, <1>3, <1>4

\* A restart drops every request and keeps the row and its holder.
LEMMA ServerCrashPreserves ==
  ASSUME LockInv, ServerCrash
  PROVE  LockInv'
  <1> USE NullsAssumption, RetryMaxAssumption
      DEF LockInv, lockVars, clientVars, history, Free, Request, Ops, Steps, Statuses
  <1> USE DEF ServerCrash
  <1>1. TypeOK'
    BY DEF TypeOK
  <1>2. SlotsOK'
    BY DEF TypeOK, SlotsOK
  <1>3. IdsOK'
    BY DEF TypeOK, SlotsOK, IdsOK
  <1>4. ~disturbed' => Undisturbed'
    BY DEF TypeOK, SlotsOK, IdsOK, Undisturbed, Holders
  <1>5. QED
    BY <1>1, <1>2, <1>3, <1>4

\* A step that changes nothing keeps the invariant.
LEMMA StutterPreserves ==
  ASSUME LockInv, UNCHANGED vars
  PROVE  LockInv'
  BY DEF LockInv, TypeOK, SlotsOK, IdsOK, Undisturbed, Holders, vars, lockVars,
         clientVars, history, Free, Request

\* LockInv is inductive.
LEMMA NextLockInv == LockInv /\ [Next]_vars => LockInv'
  <1> SUFFICES ASSUME LockInv, [Next]_vars
               PROVE  LockInv'
    OBVIOUS
  <1>1. ASSUME NEW r \in Requests, Handler(r)
        PROVE  LockInv'
    BY <1>1, LockReadPreserves, LockReclaimPreserves, LockInsertPreserves,
       LockConflictPreserves, UnlockReadPreserves, ForceUnlockReadPreserves,
       DeleteRowPreserves DEF Handler
  <1>2. ASSUME NEW c \in Clients, NEW r \in Requests, Client(c, r)
        PROVE  LockInv'
    BY <1>2, SendLockPreserves, SendUnlockPreserves, RetryPreserves DEF Client
  <1>3. ASSUME NEW c \in Clients, ClientDies(c)
        PROVE  LockInv'
    BY <1>3, ClientDiesPreserves
  <1>4. ASSUME NEW r \in Requests, SendForceUnlock(r)
        PROVE  LockInv'
    BY <1>4, SendForceUnlockPreserves
  <1>5. CASE LeaseRunsOut
    BY <1>5, LeaseRunsOutPreserves
  <1>6. CASE ServerCrash
    BY <1>6, ServerCrashPreserves
  <1>7. CASE UNCHANGED vars
    BY <1>7, StutterPreserves
  <1>8. QED
    BY <1>1, <1>2, <1>3, <1>4, <1>5, <1>6, <1>7 DEF Next

\* Every reachable state satisfies the inductive invariant.
THEOREM LockInvariance == Spec => []LockInv
  BY InitLockInv, NextLockInv, PTL DEF Spec

-----------------------------------------------------------------------------
\* The type invariant of the lock, its handlers and its clients.
THEOREM TypeCorrect == Spec => []TypeOK
  <1>1. LockInv => TypeOK
    BY DEF LockInv
  <1>2. QED
    BY <1>1, LockInvariance, PTL

\* Whatever requests overlap, are lost or are sent again, and however often
\* the server restarts, the row names the client that works under the lock,
\* until something disturbs the lock (acquire_lock, release_lock).
THEOREM HolderIsRecordedAlways == Spec => []HolderIsRecorded
  <1>1. LockInv => HolderIsRecorded
    BY DEF LockInv, Undisturbed, HolderIsRecorded, Holders
  <1>2. QED
    BY <1>1, LockInvariance, PTL

\* And so no two clients work under the lock at a time, until then.
THEOREM MutualExclusionAlways == Spec => []MutualExclusion
  <1>1. LockInv => MutualExclusion
    BY NullsAssumption DEF LockInv, Undisturbed, IdsOK, MutualExclusion, Holders
  <1>2. QED
    BY <1>1, LockInvariance, PTL

-----------------------------------------------------------------------------
(***************************************************************************)
(* As long as requests are served one at a time, what a handler has read   *)
(* is still true when it writes.                                           *)
(***************************************************************************)
Serial ==
  /\ expired => lockId # NoLock
  /\ \A r, q \in Requests : req[r] # Free /\ req[q] # Free => r = q
  /\ \A r \in Requests : req[r].step = "reclaim" => lockId # NoLock /\ expired
  /\ \A r \in Requests : req[r].step = "insert" /\ lockId # NoLock =>
       reclaiming = r /\ expired
  /\ \A r \in Requests : req[r].step = "delete" /\ req[r].op = "unlock" => lockId = req[r].id
  /\ reclaiming # NoRequest =>
       /\ lockId # NoLock
       /\ reclaiming \in Requests
       /\ req[reclaiming].step = "insert"

SerialInv == ~overlapped => Serial

\* SerialInv holds initially.
LEMMA InitSerialInv == Init => SerialInv
  BY NullsAssumption DEF Init, SerialInv, Serial, Free

\* A request that arrives while another is served makes them overlap; one that
\* arrives alone finds no transaction open.
LEMMA ArrivalSerial ==
  ASSUME LockInv, SerialInv, UNCHANGED lockVars,
         NEW r \in Requests, NEW o, NEW i, NEW c, NEW old, Arrive(r, o, i, c, old),
         old \in [Requests -> Request], \A q \in Requests : req[q] = Free => old[q] = Free
  PROVE  SerialInv'
  <1> SUFFICES ASSUME ~overlapped'
               PROVE  Serial'
    BY DEF SerialInv
  <1>1. ~overlapped /\ \A q \in Requests : req[q] = Free
    BY DEF Arrive
  <1>2. reclaiming = NoRequest
    BY <1>1 DEF SerialInv, Serial, Free
  <1>3. \A q \in Requests : q # r => req'[q] = Free
    BY <1>1 DEF Arrive
  <1>4. req'[r].step = "read"
    BY DEF Arrive
  <1>5. QED
    BY <1>1, <1>2, <1>3, <1>4, NullsAssumption DEF SerialInv, Serial, Free, lockVars

\* The handlers keep SerialInv.
LEMMA HandlerSerial ==
  ASSUME LockInv, SerialInv, NEW r \in Requests, Handler(r)
  PROVE  SerialInv'
  <1> USE NullsAssumption DEF LockInv, TypeOK, SlotsOK, SerialInv, Serial, lockVars,
          clientVars, history, Free, Request
  <1>1. CASE LockRead(r)
    <2>1. CASE Ended(r)
      BY <1>1, <2>1 DEF LockRead, Ended
    <2>2. CASE lockId # NoLock /\ expired /\ Goto(r, "reclaim")
      BY <1>1, <2>2 DEF LockRead, Goto
    <2>3. CASE lockId = NoLock /\ Goto(r, "insert")
      BY <1>1, <2>3 DEF LockRead, Goto
    <2>4. QED
      BY <1>1, <2>1, <2>2, <2>3 DEF LockRead
  <1>2. CASE LockReclaim(r)
    BY <1>2 DEF LockReclaim, Goto
  <1>3. CASE LockInsert(r)
    BY <1>3 DEF LockInsert, Granted
  <1>4. CASE LockConflict(r)
    BY <1>4 DEF LockConflict, Ended
  <1>5. CASE UnlockRead(r)
    BY <1>5 DEF UnlockRead, Ended, Goto
  <1>6. CASE ForceUnlockRead(r)
    BY <1>6 DEF ForceUnlockRead, Ended, Goto
  <1>7. CASE DeleteRow(r)
    BY <1>7 DEF DeleteRow, Ended
  <1>8. QED
    BY <1>1, <1>2, <1>3, <1>4, <1>5, <1>6, <1>7 DEF Handler

\* So do the clients, the administrator, time and a restart.
LEMMA OthersSerial ==
  ASSUME LockInv, SerialInv,
         \/ \E c \in Clients, r \in Requests : Client(c, r)
         \/ \E c \in Clients : ClientDies(c)
         \/ \E r \in Requests : SendForceUnlock(r)
         \/ LeaseRunsOut
         \/ ServerCrash
         \/ UNCHANGED vars
  PROVE  SerialInv'
  <1> USE NullsAssumption DEF LockInv, TypeOK, SlotsOK, SerialInv, Serial, lockVars,
          clientVars, history, Free, Request
  <1>1. ASSUME NEW c \in Clients, NEW r \in Requests, SendLock(c, r)
        PROVE  SerialInv'
    BY <1>1, ArrivalSerial DEF SendLock
  <1>2. ASSUME NEW c \in Clients, NEW r \in Requests, SendUnlock(c, r)
        PROVE  SerialInv'
    BY <1>2, ArrivalSerial DEF SendUnlock
  <1>3. ASSUME NEW c \in Clients, NEW r \in Requests, Retry(c, r)
        PROVE  SerialInv'
    <2>1. Abandoned(c) \in [Requests -> Request]
      BY DEF Abandoned
    <2>2. \A q \in Requests : req[q] = Free => Abandoned(c)[q] = Free
      BY DEF Abandoned
    <2>3. QED
      BY <1>3, <2>1, <2>2, ArrivalSerial DEF Retry
  <1>4. ASSUME NEW c \in Clients, ClientDies(c)
        PROVE  SerialInv'
    BY <1>4 DEF ClientDies, Abandoned
  <1>5. ASSUME NEW r \in Requests, SendForceUnlock(r)
        PROVE  SerialInv'
    BY <1>5, ArrivalSerial DEF SendForceUnlock
  <1>6. CASE LeaseRunsOut
    BY <1>6 DEF LeaseRunsOut
  <1>7. CASE ServerCrash
    BY <1>7 DEF ServerCrash
  <1>8. CASE UNCHANGED vars
    BY <1>8 DEF vars
  <1>9. QED
    BY <1>1, <1>2, <1>3, <1>4, <1>5, <1>6, <1>7, <1>8 DEF Client

\* As long as requests have not overlapped, a handler works on what it read.
THEOREM SerialInvariance == Spec => []SerialInv
  <1>1. LockInv /\ SerialInv /\ [Next]_vars => SerialInv'
    BY HandlerSerial, OthersSerial DEF Next
  <1>2. QED
    BY <1>1, InitSerialInv, LockInvariance, PTL DEF Spec

\* With one request at a time, acquire_lock takes no live lock away.
THEOREM SerialAcquireSafe == Spec => SerialAcquireTakesOnlyExpired
  <1>1. LockInv /\ SerialInv =>
          \A r \in Requests : LockInsert(r) /\ lockId # NoLock => expired \/ overlapped
    BY DEF SerialInv, Serial, LockInsert
  <1>2. QED
    BY <1>1, LockInvariance, SerialInvariance, PTL DEF SerialAcquireTakesOnlyExpired

\* With one request at a time, or with nothing that disturbs the lock,
\* release_lock removes the lock under its own identifier only.
THEOREM ReleaseSafe == Spec => SafeReleaseTakesOnlyItsOwn
  <1>1. LockInv /\ SerialInv =>
          \A r \in Requests :
            DeleteRow(r) /\ req[r].op = "unlock" /\ lockId' # lockId
              => lockId = req[r].id \/ (disturbed /\ overlapped)
    BY DEF LockInv, Undisturbed, SerialInv, Serial, DeleteRow
  <1>2. QED
    BY <1>1, LockInvariance, SerialInvariance, PTL DEF SafeReleaseTakesOnlyItsOwn

\* With one request at a time the rows implement the abstract lock: an owner
\* whose lease is live is never displaced.
THEOREM SerialRefinement == Spec /\ []~overlapped => AbstractSpec
  <1>1. Init => Abstract!Init
    BY DEF Init, Abstract!Init
  <1>2. LockInv /\ SerialInv /\ ~overlapped /\ [Next]_vars => [Abstract!Next]_Abstract!vars
    <2> SUFFICES ASSUME LockInv, Serial, [Next]_vars
                 PROVE  [Abstract!Next]_Abstract!vars
      BY DEF SerialInv
    <2> USE NullsAssumption DEF lockVars, clientVars, history, Abstract!Next, Abstract!vars
    <2>1. ASSUME NEW r \in Requests, LockInsert(r)
          PROVE  Abstract!Grant(lockId') /\ lockId' \in LockIds
      <3>1. req[r].op = "lock"
        BY <2>1 DEF LockInsert, LockInv, TypeOK, SlotsOK, Request, Ops, Steps, Free
      <3>2. lockId' = req[r].id /\ req[r].id \in LockIds /\ expired' = FALSE
        BY <2>1, <3>1 DEF LockInsert, LockInv, SlotsOK
      <3>3. lockId = NoLock \/ expired
        BY <2>1 DEF LockInsert, Serial
      <3>4. QED
        BY <3>2, <3>3 DEF Abstract!Grant
    <2>2. ASSUME NEW r \in Requests, DeleteRow(r)
          PROVE  Abstract!Free \/ UNCHANGED Abstract!vars
      BY <2>2 DEF DeleteRow, Serial, LockInv, TypeOK, Abstract!Free
    <2>3. CASE LeaseRunsOut
      BY <2>3 DEF LeaseRunsOut, Abstract!LeaseRunsOut
    <2>4. ASSUME NEW r \in Requests, Handler(r), ~LockInsert(r), ~DeleteRow(r)
          PROVE  UNCHANGED Abstract!vars
      BY <2>4 DEF Handler, LockRead, LockReclaim, LockConflict, UnlockRead, ForceUnlockRead
    <2>5. ASSUME \/ \E c \in Clients, r \in Requests : Client(c, r)
                 \/ \E c \in Clients : ClientDies(c)
                 \/ \E r \in Requests : SendForceUnlock(r)
                 \/ ServerCrash
                 \/ UNCHANGED vars
          PROVE  UNCHANGED Abstract!vars
      BY <2>5 DEF Client, SendLock, SendUnlock, Retry, ClientDies, SendForceUnlock,
                  ServerCrash, vars
    <2>6. QED
      BY <2>1, <2>2, <2>3, <2>4, <2>5 DEF Next
  <1>3. QED
    BY <1>1, <1>2, LockInvariance, SerialInvariance, PTL DEF Spec, AbstractSpec, Abstract!Spec
=============================================================================

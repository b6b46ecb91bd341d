--------------------------- MODULE StateBackend ---------------------------
(***************************************************************************)
(* The Terraform state backend of one workspace: the lock of StateLock and *)
(* the table state_versions, with the handlers that pull, push, roll back, *)
(* prune and delete versions (backend/core/state-manager.py).  Again there *)
(* is one action per database statement, and a transaction that reads and  *)
(* then writes is two of them.                                             *)
(*                                                                         *)
(* A version is its row and its serial: a row that is deleted and inserted *)
(* again is another row.  The bytes of a state play no part in what the    *)
(* handlers do.                                                            *)
(***************************************************************************)
EXTENDS StateLock, FiniteSets

CONSTANTS
  Writes,       \* handler slots for push and rollback requests
  RowIds,       \* tell rows of state_versions with the same serial apart
  MaxVersions,  \* state_max_versions
  MaxSerial,    \* bound: no version has a higher serial
  Uses          \* what is done to the state besides locked Terraform runs

UseKinds ==
  { "unlocked_push",   \* terraform -lock=false: a push that carries no lock ID
    "rollback",        \* POST /state/{workspace}/rollback/{serial}
    "delete_state",    \* DELETE /state/{workspace}
    "prune_failure" }  \* the pruning after a push raises an exception

ASSUME UsesAssumption == Uses \subseteq UseKinds
ASSUME BoundsAssumption == MaxVersions \in Nat \ {0} /\ MaxSerial \in Nat

VARIABLES
  versions,   \* the rows of state_versions
  wreq,       \* the handlers of push and rollback requests
  base,       \* the serial of the state each client works from
  bypassed,   \* history: the state was changed by somebody without the lock
  pruningCut  \* history: the pruning after some push was not completed

stateVars == <<versions, wreq, base, bypassed, pruningCut>>
allVars == <<vars, stateVars>>

Serials == 0..MaxSerial
Version == [row : RowIds, serial : Serials]
NotRead == MaxSerial + 1   \* the client has not pulled the state yet

WSteps == {"free", "check", "insert", "pull", "bump", "select", "prune"}
WRequest ==
  [ step : WSteps,
    serial : Serials,                   \* of the version to insert or to restore
    id : LockIds \cup {NoLock},         \* the lock ID of the push, if it has one
    client : Clients \cup {NoClient},
    victims : SUBSET Version ]          \* the rows the pruning is to delete
WFree == [step |-> "free", serial |-> 0, id |-> NoLock, client |-> NoClient, victims |-> {}]

StateTypeOK ==
  /\ TypeOK
  /\ versions \in SUBSET Version
  /\ wreq \in [Writes -> WRequest]
  /\ base \in [Clients -> 0..NotRead]
  /\ bypassed \in BOOLEAN
  /\ pruningCut \in BOOLEAN

StateInit ==
  /\ Init
  /\ versions = {}
  /\ wreq = [w \in Writes |-> WFree]
  /\ base = [c \in Clients |-> NotRead]
  /\ bypassed = FALSE
  /\ pruningCut = FALSE

-----------------------------------------------------------------------------
(***************************************************************************)
(* Helpers.                                                                *)
(***************************************************************************)
SerialsOf(V) == {v.serial : v \in V}

IsNewest(v, V) == v \in V /\ \A u \in V : u.serial <= v.serial

\* The highest serial, or 0 when there is no version.
Newest == IF versions = {} THEN 0
          ELSE CHOOSE s \in SerialsOf(versions) : \A t \in SerialsOf(versions) : t <= s

\* Mutant: ORDER BY serial ASC.
OldestRetained ==
  {v \in versions : Cardinality({u \in versions : u.serial < v.serial}) >= MaxVersions}

\* Mutant: one version too many is kept.
BeyondRetentionByOne ==
  {v \in versions : Cardinality({u \in versions : u.serial > v.serial}) > MaxVersions}

\* ORDER BY serial DESC OFFSET state_max_versions.
BeyondRetention ==
  {v \in versions : Cardinality({u \in versions : u.serial > v.serial}) >= MaxVersions}

\* The primary key of a version is a new UUID.
FreshRow(v) ==
  /\ v \notin versions
  /\ \A w \in Writes : v \notin wreq[w].victims
NewRow(s) == CHOOSE v \in Version : v.serial = s /\ FreshRow(v)

\* Client c waits for the answer to a push.
Writing(c) == \E w \in Writes : wreq[w].client = c

\* Request w is answered; a waiting client works on from serial s.
WEnded(w, s) ==
  /\ wreq' = [wreq EXCEPT ![w] = WFree]
  /\ base' = [c \in Clients |-> IF c = wreq[w].client THEN s ELSE base[c]]

WGoto(w, s) ==
  /\ wreq' = [wreq EXCEPT ![w].step = s]
  /\ UNCHANGED base

\* The push of request w has taken effect and its pruning has not ended.
Pruning(w) == wreq[w].step \in {"select", "prune"}

WArrive(w, s, n, i, c) ==
  /\ wreq[w] = WFree
  /\ wreq' = [wreq EXCEPT ![w] = [WFree EXCEPT !.step = s, !.serial = n,
                                              !.id = i, !.client = c]]

-----------------------------------------------------------------------------
(***************************************************************************)
(* The clients.                                                            *)
(***************************************************************************)
\* terraform reads the newest version, under its lock or without one.
Pull(c) ==
  /\ status[c] = "held" \/ (status[c] = "idle" /\ "unlocked_push" \in Uses)
  /\ ~Writing(c)
  /\ base' = [base EXCEPT ![c] = Newest]
  /\ UNCHANGED <<vars, versions, wreq, bypassed, pruningCut>>

\* Mutant: terraform writes without having read the state.
SendPushUnread(c, w) ==
  /\ ~Writing(c)
  /\ status[c] = "held"
  /\ WArrive(w, "check", base[c] + 1, ownId[c], c)
  /\ UNCHANGED <<vars, versions, base, bypassed, pruningCut>>

\* terraform writes the next serial.  A push under the lock carries its ID;
\* push_state checks the lock only if there is one.
SendPush(c, w) ==
  /\ ~Writing(c)
  /\ base[c] < MaxSerial
  /\ \/ /\ status[c] = "held"
        /\ WArrive(w, "check", base[c] + 1, ownId[c], c)
        /\ UNCHANGED bypassed
     \/ /\ status[c] = "idle" /\ "unlocked_push" \in Uses
        /\ WArrive(w, "insert", base[c] + 1, NoLock, c)
        /\ bypassed' = TRUE
  /\ UNCHANGED <<vars, versions, base, pruningCut>>

SendRollback(w) ==
  /\ "rollback" \in Uses
  /\ \E s \in Serials : WArrive(w, "pull", s, NoLock, NoClient)
  /\ bypassed' = TRUE
  /\ UNCHANGED <<vars, versions, base, pruningCut>>

-----------------------------------------------------------------------------
(***************************************************************************)
(* push_state.                                                             *)
(***************************************************************************)
\* SELECT the lock and compare its ID: another ID is answered 409, no lock at
\* all is accepted, and so is an expired one.
PushCheck(w) ==
  /\ wreq[w].step = "check"
  /\ IF lockId # NoLock /\ lockId # wreq[w].id
       THEN WEnded(w, NotRead)
       ELSE WGoto(w, "insert")
  /\ UNCHANGED <<vars, versions, bypassed, pruningCut>>

\* INSERT the version and COMMIT.  uq_state_workspace_serial lets no serial in
\* twice: the loser gets a 500.
PushInsert(w) ==
  /\ wreq[w].step = "insert"
  /\ wreq[w].serial \notin SerialsOf(versions)
  /\ \E v \in Version : v.serial = wreq[w].serial /\ FreshRow(v)
  /\ versions' = versions \cup {NewRow(wreq[w].serial)}
  /\ WGoto(w, "select")
  /\ UNCHANGED <<vars, bypassed, pruningCut>>

PushConflict(w) ==
  /\ wreq[w].step = "insert"
  /\ wreq[w].serial \in SerialsOf(versions)
  /\ WEnded(w, NotRead)
  /\ UNCHANGED <<vars, versions, bypassed, pruningCut>>

(***************************************************************************)
(* prune_versions, in a transaction of its own after the push.             *)
(***************************************************************************)
\* SELECT the identifiers of the versions beyond the newest MaxVersions.
PruneSelect(w) ==
  /\ wreq[w].step = "select"
  /\ wreq' = [wreq EXCEPT ![w].step = "prune", ![w].victims = BeyondRetention]
  /\ UNCHANGED <<vars, versions, base, bypassed, pruningCut>>

\* DELETE them by identifier and COMMIT; the push is answered 200.
PruneDelete(w) ==
  /\ wreq[w].step = "prune"
  /\ versions' = versions \ wreq[w].victims
  /\ WEnded(w, wreq[w].serial)
  /\ UNCHANGED <<vars, bypassed, pruningCut>>

\* The pruning fails; push_state logs it and answers 200 all the same.
PruneFails(w) ==
  /\ "prune_failure" \in Uses
  /\ wreq[w].step \in {"select", "prune"}
  /\ WEnded(w, wreq[w].serial)
  /\ pruningCut' = TRUE
  /\ UNCHANGED <<vars, versions, bypassed>>

(***************************************************************************)
(* rollback_state: three transactions, and no look at the lock.            *)
(***************************************************************************)
\* SELECT the version to restore; 404 if there is none.
RollbackPull(w) ==
  /\ wreq[w].step = "pull"
  /\ IF wreq[w].serial \in SerialsOf(versions)
       THEN WGoto(w, "bump")
       ELSE WEnded(w, NotRead)
  /\ UNCHANGED <<vars, versions, bypassed, pruningCut>>

\* SELECT the newest version: its data is pushed again under the next serial,
\* or under the old one if all versions are gone.
RollbackBump(w) ==
  /\ wreq[w].step = "bump"
  /\ Newest < MaxSerial
  /\ wreq' = [wreq EXCEPT ![w].step = "insert",
                ![w].serial = IF versions = {} THEN @ ELSE Newest + 1]
  /\ UNCHANGED <<vars, versions, base, bypassed, pruningCut>>

\* delete_state: one statement, and no look at the lock.
DeleteState ==
  /\ "delete_state" \in Uses
  /\ versions # {}
  /\ versions' = {}
  /\ bypassed' = TRUE
  /\ UNCHANGED <<vars, wreq, base, pruningCut>>

-----------------------------------------------------------------------------
(***************************************************************************)
(* The steps of StateLock, seen from here.                                 *)
(***************************************************************************)
\* A client that starts over has not read the state.
LockSent(c, r) ==
  /\ SendLock(c, r) /\ ~Writing(c)
  /\ base' = [base EXCEPT ![c] = NotRead]
  /\ UNCHANGED <<versions, wreq, bypassed, pruningCut>>

\* A client unlocks when its pushes have been answered.
UnlockSent(c, r) ==
  /\ SendUnlock(c, r) /\ ~Writing(c)
  /\ UNCHANGED stateVars

\* Nobody waits for the push of a dead client; its handler runs on.
ClientStops(c) ==
  /\ ClientDies(c)
  /\ wreq' = [w \in Writes |->
       IF wreq[w].client = c THEN [wreq[w] EXCEPT !.client = NoClient] ELSE wreq[w]]
  /\ base' = [base EXCEPT ![c] = NotRead]
  /\ UNCHANGED <<versions, bypassed, pruningCut>>

\* Open transactions roll back; a client whose push was cut off does not know
\* whether it took effect and has to read the state again.
ServerRestarts ==
  /\ ServerCrash
  /\ wreq' = [w \in Writes |-> WFree]
  /\ base' = [c \in Clients |-> IF Writing(c) THEN NotRead ELSE base[c]]
  /\ pruningCut' = (pruningCut \/ \E w \in Writes : Pruning(w))
  /\ UNCHANGED <<versions, bypassed>>

LockStep ==
  \/ \E r \in Requests : Handler(r) \/ SendForceUnlock(r)
  \/ \E c \in Clients, r \in Requests : Retry(c, r)
  \/ LeaseRunsOut

WHandler(w) ==
  \/ PushCheck(w)
  \/ PushInsert(w)
  \/ PushConflict(w)
  \/ PruneSelect(w)
  \/ PruneDelete(w)
  \/ PruneFails(w)
  \/ RollbackPull(w)
  \/ RollbackBump(w)

StateNext ==
  \/ LockStep /\ UNCHANGED stateVars
  \/ \E c \in Clients, r \in Requests : LockSent(c, r) \/ UnlockSent(c, r)
  \/ \E c \in Clients : Pull(c) \/ ClientStops(c)
  \/ ServerRestarts
  \/ \E c \in Clients, w \in Writes : SendPush(c, w)
  \/ \E w \in Writes : SendRollback(w) \/ WHandler(w)
  \/ DeleteState

StateSpec == StateInit /\ [][StateNext]_allVars

-----------------------------------------------------------------------------
(***************************************************************************)
(* Properties.                                                             *)
(***************************************************************************)
\* (AbstractSpec, of StateLock, is checked here too: pushes, pulls, rollbacks
\* and restarts leave the lock what it is in the abstract.)

\* The newest serial, which is what pull_state answers, never goes back: only
\* delete_state takes the newest version away.
NewestNeverGoesBack ==
  [][ \/ versions' = {} /\ (versions = {} \/ DeleteState)
      \/ \E v \in versions' : \A u \in versions : u.serial <= v.serial ]_allVars

\* However pushes, rollbacks and prunings overlap, at most state_max_versions
\* versions are kept besides one for each push that is still pruning.
RetentionBound ==
  ~pruningCut =>
    Cardinality(versions) <= MaxVersions + Cardinality({w \in Writes : Pruning(w)})

\* While everybody who changes the state takes the lock, and until a lease
\* runs out or a lock is broken, a push that has passed the check of its lock
\* ID extends the newest version: no update is lost, none is refused.
LockedPushExtendsNewest ==
  ~disturbed /\ ~bypassed =>
    \A w \in Writes : wreq[w].step = "insert" => wreq[w].serial = Newest + 1

=============================================================================

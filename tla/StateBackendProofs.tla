------------------------- MODULE StateBackendProofs -------------------------
(***************************************************************************)
(* Proofs about the versions of a state, for any number of clients, slots  *)
(* and rows, any retention, and every set of faults and uses.              *)
(***************************************************************************)
EXTENDS StateBackend, StateLockProofs, FiniteSetTheorems, WellFoundedInduction

(***************************************************************************)
(* The composition does to the lock what StateLock allows.                 *)
(***************************************************************************)
THEOREM StateSpecLock == StateSpec => Spec
  <1>1. StateInit => Init
    BY DEF StateInit
  <1>2. [StateNext]_allVars => [Next]_vars
    <2> SUFFICES ASSUME [StateNext]_allVars
                 PROVE  [Next]_vars
      OBVIOUS
    <2>1. CASE LockStep
      BY <2>1 DEF LockStep, Next, Client
    <2>2. ASSUME NEW c \in Clients, NEW r \in Requests, LockSent(c, r) \/ UnlockSent(c, r)
          PROVE  Next
      BY <2>2 DEF LockSent, UnlockSent, Next, Client
    <2>3. ASSUME NEW c \in Clients, ClientStops(c)
          PROVE  Next
      BY <2>3 DEF ClientStops, Next
    <2>4. CASE ServerRestarts
      BY <2>4 DEF ServerRestarts, Next
    <2>5. ASSUME \/ \E c \in Clients : Pull(c)
                 \/ \E c \in Clients, w \in Writes : SendPush(c, w)
                 \/ \E w \in Writes : SendRollback(w) \/ WHandler(w)
                 \/ DeleteState
                 \/ UNCHANGED allVars
          PROVE  UNCHANGED vars
      BY <2>5 DEF Pull, SendPush, SendRollback, WHandler, PushCheck, PushInsert,
                  PushConflict, PruneSelect, PruneDelete, PruneFails, RollbackPull,
                  RollbackBump, DeleteState, allVars
    <2>6. QED
      BY <2>1, <2>2, <2>3, <2>4, <2>5 DEF StateNext
  <1>3. QED
    BY <1>1, <1>2, PTL DEF StateSpec, Spec

-----------------------------------------------------------------------------
(***************************************************************************)
(* Versions.                                                               *)
(***************************************************************************)
\* A row that is about to be inserted is new, and carries the wanted serial.
LEMMA NewRowFresh ==
  ASSUME NEW s, \E v \in Version : v.serial = s /\ FreshRow(v)
  PROVE  NewRow(s) \in Version /\ NewRow(s).serial = s /\ FreshRow(NewRow(s))
  BY DEF NewRow

\* A table that is not empty has a newest version.
LEMMA NewestExists ==
  ASSUME NEW V, V \subseteq Version, V # {}
  PROVE  \E v \in V : IsNewest(v, V)
  <1> DEFINE D == {MaxSerial - v.serial : v \in V}
  <1>1. \A v \in V : v.serial \in 0..MaxSerial
    BY DEF Version, Serials
  <1>2. D \subseteq Nat /\ D # {}
    BY <1>1, BoundsAssumption
  <1>3. PICK d \in D : \A e \in D : ~ (<<e, d>> \in OpToRel(<, Nat))
    BY <1>2, NatLessThanWellFounded, WFMin
  <1>4. \A e \in D : ~ (e < d)
    BY <1>2, <1>3 DEF OpToRel
  <1>5. PICK v \in V : d = MaxSerial - v.serial
    OBVIOUS
  <1>6. \A u \in V : u.serial <= v.serial
    <2> SUFFICES ASSUME NEW u \in V
                 PROVE  u.serial <= v.serial
      OBVIOUS
    <2>1. ~ (MaxSerial - u.serial < MaxSerial - v.serial)
      BY <1>4, <1>5
    <2>2. QED
      BY <1>1, <2>1, BoundsAssumption
  <1>7. QED
    BY <1>6 DEF IsNewest

\* The newest version is never beyond the retention.
LEMMA RetentionSparesNewest ==
  ASSUME versions \subseteq Version, NEW v, IsNewest(v, versions)
  PROVE  v \notin BeyondRetention
  <1>1. {u \in versions : u.serial > v.serial} = {}
    BY BoundsAssumption DEF IsNewest, Version, Serials
  <1>2. Cardinality({u \in versions : u.serial > v.serial}) = 0
    BY <1>1, FS_EmptySet
  <1>3. QED
    BY <1>2, BoundsAssumption DEF BeyondRetention

-----------------------------------------------------------------------------
(***************************************************************************)
(* The inductive invariant: the types of the variables of this module, and *)
(* that no pruning is about to delete the newest version.                  *)
(***************************************************************************)
VersionsTypeOK ==
  /\ versions \in SUBSET Version
  /\ wreq \in [Writes -> WRequest]
  /\ base \in [Clients -> 0..NotRead]
  /\ bypassed \in BOOLEAN
  /\ pruningCut \in BOOLEAN

\* No pruning is about to delete the newest version, whatever was pushed,
\* rolled back or deleted since it looked (prune_versions).
PruneSparesNewest ==
  \A w \in Writes : \A v \in versions : IsNewest(v, versions) => v \notin wreq[w].victims

VersionsInv == VersionsTypeOK /\ PruneSparesNewest

\* The highest serial is a serial.
LEMMA NewestType ==
  ASSUME versions \subseteq Version
  PROVE  Newest \in Serials
  <1>1. CASE versions = {}
    BY <1>1, BoundsAssumption DEF Newest, Serials
  <1>2. CASE versions # {}
    <2>1. PICK v \in versions : IsNewest(v, versions)
      BY <1>2, NewestExists
    <2>2. v.serial \in SerialsOf(versions) /\ \A t \in SerialsOf(versions) : t <= v.serial
      BY <2>1 DEF IsNewest, SerialsOf
    <2>3. Newest \in SerialsOf(versions)
      BY <1>2, <2>2 DEF Newest
    <2>4. QED
      BY <2>3 DEF SerialsOf, Version
  <1>3. QED
    BY <1>1, <1>2

\* The invariant holds of an empty table.
LEMMA InitVersionsInv == StateInit => VersionsInv
  <1> SUFFICES ASSUME StateInit PROVE VersionsInv
    OBVIOUS
  <1>1. WFree \in WRequest
    BY BoundsAssumption DEF WFree, WRequest, WSteps, Serials
  <1>2. NotRead \in 0..NotRead
    BY BoundsAssumption DEF NotRead
  <1>3. VersionsTypeOK
    BY <1>1, <1>2 DEF StateInit, VersionsTypeOK
  <1>4. PruneSparesNewest
    BY DEF StateInit, PruneSparesNewest
  <1>5. QED
    BY <1>3, <1>4 DEF VersionsInv

(***************************************************************************)
(* Every step keeps the types.                                             *)
(***************************************************************************)
\* A request that arrives in a slot leaves the slots well typed.
LEMMA ArrivalType ==
  ASSUME wreq \in [Writes -> WRequest], NEW w \in Writes, NEW s \in WSteps, NEW n \in Serials,
         NEW i \in LockIds \cup {NoLock}, NEW c \in Clients \cup {NoClient},
         WArrive(w, s, n, i, c)
  PROVE  wreq' \in [Writes -> WRequest]
  <1> DEFINE arrived == [WFree EXCEPT !.step = s, !.serial = n, !.id = i, !.client = c]
  <1>1. arrived \in WRequest
    BY DEF WFree, WRequest
  <1>2. wreq' = [wreq EXCEPT ![w] = arrived]
    BY DEF WArrive
  <1>3. QED
    BY <1>1, <1>2

\* Clients, operators and restarts keep the types.
LEMMA ClientsKeepTypes ==
  ASSUME TypeOK, VersionsTypeOK,
         \/ \E c \in Clients, r \in Requests : LockSent(c, r) \/ UnlockSent(c, r)
         \/ \E c \in Clients : Pull(c) \/ ClientStops(c)
         \/ ServerRestarts
         \/ \E c \in Clients, w \in Writes : SendPush(c, w)
         \/ \E w \in Writes : SendRollback(w)
  PROVE  VersionsTypeOK'
  <1> USE BoundsAssumption DEF VersionsTypeOK, NotRead, vars
  <1>1. ASSUME NEW c \in Clients, NEW r \in Requests, LockSent(c, r) \/ UnlockSent(c, r)
        PROVE  VersionsTypeOK'
    BY <1>1 DEF LockSent, UnlockSent, stateVars
  <1>2. ASSUME NEW c \in Clients, Pull(c)
        PROVE  VersionsTypeOK'
    BY <1>2, NewestType DEF Pull, Serials
  <1>3. ASSUME NEW c \in Clients, ClientStops(c)
        PROVE  VersionsTypeOK'
    BY <1>3 DEF ClientStops, WRequest
  <1>4. CASE ServerRestarts
    BY <1>4 DEF ServerRestarts, WRequest, WFree, WSteps, Serials
  <1>5. ASSUME NEW c \in Clients, NEW w \in Writes, SendPush(c, w)
        PROVE  VersionsTypeOK'
    <2>1. base[c] + 1 \in Serials
      BY <1>5 DEF SendPush, Serials
    <2>2. ownId[c] \in LockIds \cup {NoLock}
      BY DEF TypeOK
    <2>3. wreq' \in [Writes -> WRequest]
      <3>1. CASE WArrive(w, "check", base[c] + 1, ownId[c], c)
        BY <2>1, <2>2, <3>1, ArrivalType DEF WSteps
      <3>2. CASE WArrive(w, "insert", base[c] + 1, NoLock, c)
        BY <2>1, <3>2, ArrivalType DEF WSteps
      <3>3. QED
        BY <1>5, <3>1, <3>2 DEF SendPush
    <2>4. QED
      BY <1>5, <2>3 DEF SendPush
  <1>6. ASSUME NEW w \in Writes, SendRollback(w)
        PROVE  VersionsTypeOK'
    <2>1. PICK s \in Serials : WArrive(w, "pull", s, NoLock, NoClient)
      BY <1>6 DEF SendRollback
    <2>2. wreq' \in [Writes -> WRequest]
      BY <2>1, ArrivalType DEF WSteps
    <2>3. QED
      BY <1>6, <2>2 DEF SendRollback
  <1>7. QED
    BY <1>1, <1>2, <1>3, <1>4, <1>5, <1>6

\* Every statement of push_state, prune_versions and rollback_state keeps them.
LEMMA HandlersKeepTypes ==
  ASSUME VersionsTypeOK, NEW w \in Writes, WHandler(w)
  PROVE  VersionsTypeOK'
  <1> USE BoundsAssumption DEF VersionsTypeOK, NotRead, WRequest, WFree, WSteps, Serials,
          WEnded, WGoto
  <1>1. CASE PushCheck(w)
    BY <1>1 DEF PushCheck
  <1>2. CASE PushInsert(w)
    <2>1. NewRow(wreq[w].serial) \in Version
      BY <1>2, NewRowFresh DEF PushInsert
    <2>2. QED
      BY <1>2, <2>1 DEF PushInsert
  <1>3. CASE PushConflict(w)
    BY <1>3 DEF PushConflict
  <1>4. CASE PruneSelect(w)
    <2>1. BeyondRetention \in SUBSET Version
      BY DEF BeyondRetention
    <2> DEFINE a == [wreq[w] EXCEPT !.step = "prune"]
               b == [a EXCEPT !.victims = BeyondRetention]
    <2>2. a \in WRequest
      OBVIOUS
    <2> HIDE DEF a
    <2>3. b \in WRequest
      BY ONLY <2>1, <2>2 DEF WRequest
    <2>4. wreq' = [wreq EXCEPT ![w] = b]
      BY <1>4 DEF PruneSelect, a
    <2> HIDE DEF b
    <2>5. wreq' \in [Writes -> WRequest]
      BY <2>3, <2>4
    <2>6. UNCHANGED <<versions, base, bypassed, pruningCut>>
      BY <1>4 DEF PruneSelect
    <2>7. QED
      BY <2>5, <2>6
  <1>5. CASE PruneDelete(w)
    BY <1>5 DEF PruneDelete
  <1>6. CASE PruneFails(w)
    BY <1>6 DEF PruneFails
  <1>7. CASE RollbackPull(w)
    BY <1>7 DEF RollbackPull
  <1>8. CASE RollbackBump(w)
    <2> DEFINE next == IF versions = {} THEN wreq[w].serial ELSE Newest + 1
    <2>1. Newest + 1 \in Serials
      BY <1>8, NewestType DEF RollbackBump
    <2>2. next \in Serials
      BY <2>1
    <2>3. wreq' = [wreq EXCEPT ![w] = [wreq[w] EXCEPT !.step = "insert", !.serial = next]]
      BY <1>8 DEF RollbackBump
    <2> HIDE DEF next
    <2>4. wreq' \in [Writes -> WRequest]
      BY <2>2, <2>3
    <2>5. QED
      BY <1>8, <2>4 DEF RollbackBump
  <1>9. QED
    BY <1>1, <1>2, <1>3, <1>4, <1>5, <1>6, <1>7, <1>8 DEF WHandler

(***************************************************************************)
(* Every step spares the newest version.                                   *)
(***************************************************************************)
\* A step that inserts nothing, and adds nothing to any handler's victims but
\* versions beyond the retention, keeps the newest version out of them.
LEMMA SparedIfVictimsShrink ==
  ASSUME PruneSparesNewest,
         \A v : IsNewest(v, versions') => IsNewest(v, versions),
         \A w \in Writes : \A v \in wreq'[w].victims :
            v \in wreq[w].victims \/ ~ IsNewest(v, versions)
  PROVE  PruneSparesNewest'
  <1> SUFFICES ASSUME NEW w \in Writes, NEW v \in versions', IsNewest(v, versions'),
                      v \in wreq'[w].victims
               PROVE  FALSE
    BY DEF PruneSparesNewest, IsNewest
  <1>1. IsNewest(v, versions)
    OBVIOUS
  <1>2. v \in versions
    BY <1>1 DEF IsNewest
  <1>3. v \in wreq[w].victims
    BY <1>1
  <1>4. QED
    BY <1>1, <1>2, <1>3 DEF PruneSparesNewest

\* A push leaves the newest version alone: the row it inserts is nobody's
\* victim.  A pruning selects other versions, and deletes none that counts.
LEMMA HandlersSpareNewest ==
  ASSUME VersionsTypeOK, PruneSparesNewest, NEW w \in Writes, WHandler(w)
  PROVE  PruneSparesNewest'
  <1> USE DEF VersionsTypeOK, WFree, WEnded, WGoto, WRequest
  <1>1. CASE PushInsert(w)
    <2> DEFINE new == NewRow(wreq[w].serial)
    <2>1. FreshRow(new)
      BY <1>1, NewRowFresh DEF PushInsert
    <2>2. \A x \in Writes : wreq'[x].victims = wreq[x].victims
      BY <1>1 DEF PushInsert
    <2>3. \A v \in versions : IsNewest(v, versions') => IsNewest(v, versions)
      BY <1>1 DEF PushInsert, IsNewest
    <2>4. QED
      BY <1>1, <2>1, <2>2, <2>3 DEF PushInsert, PruneSparesNewest, FreshRow
  <1>2. CASE PruneSelect(w)
    <2>1. \A v \in BeyondRetention : ~ IsNewest(v, versions)
      BY RetentionSparesNewest
    <2>2. QED
      BY <1>2, <2>1, SparedIfVictimsShrink DEF PruneSelect
  <1>3. CASE PruneDelete(w)
    <2>1. \A v : IsNewest(v, versions') => IsNewest(v, versions)
      <3> SUFFICES ASSUME NEW v, IsNewest(v, versions')
                   PROVE  IsNewest(v, versions)
        OBVIOUS
      <3>1. v \in versions /\ versions # {}
        BY <1>3 DEF PruneDelete, IsNewest
      <3>2. PICK u \in versions : IsNewest(u, versions)
        BY <3>1, NewestExists
      <3>3. u \in versions'
        BY <1>3, <3>2 DEF PruneDelete, PruneSparesNewest
      <3>4. u.serial <= v.serial /\ u.serial \in Int /\ v.serial \in Int
        BY <3>1, <3>3, BoundsAssumption DEF IsNewest, Version, Serials
      <3>5. \A t \in versions : t.serial \in Int /\ t.serial <= u.serial
        BY <3>2, BoundsAssumption DEF IsNewest, Version, Serials
      <3>6. QED
        BY <3>1, <3>4, <3>5 DEF IsNewest
    <2>2. QED
      BY <1>3, <2>1, SparedIfVictimsShrink DEF PruneDelete
  <1>4. ASSUME ~PushInsert(w), ~PruneSelect(w), ~PruneDelete(w)
        PROVE  PruneSparesNewest'
    <2>1. versions' = versions /\ \A x \in Writes : wreq'[x].victims \subseteq wreq[x].victims
      BY <1>4 DEF WHandler, PushCheck, PushConflict, PruneFails, RollbackPull, RollbackBump
    <2>2. QED
      BY <2>1 DEF PruneSparesNewest
  <1>5. QED
    BY <1>1, <1>2, <1>3, <1>4

\* A request that arrives has nothing to delete.
LEMMA ArrivalHasNoVictims ==
  ASSUME VersionsTypeOK, NEW w \in Writes, NEW s, NEW n, NEW i, NEW c,
         WArrive(w, s, n, i, c)
  PROVE  \A x \in Writes : wreq'[x].victims \subseteq wreq[x].victims
  <1>1. /\ wreq[w] = WFree /\ DOMAIN wreq = Writes
        /\ wreq' = [wreq EXCEPT ![w] = [WFree EXCEPT !.step = s, !.serial = n,
                                                    !.id = i, !.client = c]]
    BY DEF WArrive, VersionsTypeOK
  <1>2. [WFree EXCEPT !.step = s, !.serial = n, !.id = i, !.client = c].victims = WFree.victims
    BY DEF WFree
  <1>3. QED
    BY <1>1, <1>2

\* The other steps touch neither the versions nor the victims, but for
\* delete_state, which leaves nothing to spare.
LEMMA OthersSpareNewest ==
  ASSUME VersionsTypeOK, PruneSparesNewest, [StateNext]_allVars,
         ~ \E w \in Writes : WHandler(w)
  PROVE  PruneSparesNewest'
  <1>1. CASE DeleteState
    BY <1>1 DEF DeleteState, PruneSparesNewest
  <1>2. ASSUME ~DeleteState
        PROVE  versions' = versions /\ \A x \in Writes : wreq'[x].victims \subseteq wreq[x].victims
    <2> USE DEF VersionsTypeOK, WRequest, WFree, stateVars, allVars
    <2>1. ASSUME NEW c \in Clients, ClientStops(c)
          PROVE  versions' = versions /\ \A x \in Writes : wreq'[x].victims \subseteq wreq[x].victims
      BY <2>1 DEF ClientStops
    <2>2. CASE ServerRestarts
      BY <2>2 DEF ServerRestarts
    <2>3. ASSUME NEW c \in Clients, NEW w \in Writes, SendPush(c, w)
          PROVE  versions' = versions /\ \A x \in Writes : wreq'[x].victims \subseteq wreq[x].victims
      BY <2>3, ArrivalHasNoVictims DEF SendPush
    <2>4. ASSUME NEW w \in Writes, SendRollback(w)
          PROVE  versions' = versions /\ \A x \in Writes : wreq'[x].victims \subseteq wreq[x].victims
      BY <2>4, ArrivalHasNoVictims DEF SendRollback
    <2>5. QED
      BY <1>2, <2>1, <2>2, <2>3, <2>4 DEF StateNext, LockSent, UnlockSent, Pull
  <1>3. QED
    BY <1>1, <1>2 DEF PruneSparesNewest

-----------------------------------------------------------------------------
(***************************************************************************)
(* The theorems.                                                           *)
(***************************************************************************)
\* Every step keeps the invariant.
LEMMA VersionsInvStep ==
  TypeOK /\ VersionsInv /\ [StateNext]_allVars => VersionsInv'
  <1> SUFFICES ASSUME TypeOK, VersionsInv, [StateNext]_allVars
               PROVE  VersionsInv'
    OBVIOUS
  <1>1. VersionsTypeOK /\ PruneSparesNewest
    BY DEF VersionsInv
  <1>2. VersionsTypeOK'
    <2>1. ASSUME NEW w \in Writes, WHandler(w)
          PROVE  VersionsTypeOK'
      BY <1>1, <2>1, HandlersKeepTypes
    <2>2. ASSUME versions' \subseteq versions, UNCHANGED <<wreq, base, pruningCut>>,
                 bypassed' \in BOOLEAN
          PROVE  VersionsTypeOK'
      BY <1>1, <2>2 DEF VersionsTypeOK
    <2>3. CASE LockStep /\ UNCHANGED stateVars
      BY <1>1, <2>2, <2>3 DEF stateVars, VersionsTypeOK
    <2>4. CASE DeleteState
      BY <2>2, <2>4 DEF DeleteState
    <2>5. CASE UNCHANGED allVars
      BY <1>1, <2>2, <2>5 DEF allVars, stateVars, VersionsTypeOK
    <2>6. QED
      BY <1>1, <2>1, <2>3, <2>4, <2>5, ClientsKeepTypes DEF StateNext
  <1>3. PruneSparesNewest'
    BY <1>1, HandlersSpareNewest, OthersSpareNewest
  <1>4. QED
    BY <1>2, <1>3 DEF VersionsInv

\* The invariant holds in every state.
THEOREM VersionsInvariance == StateSpec => [](TypeOK /\ VersionsInv)
  <1>1. Spec => []TypeOK
    BY TypeCorrect
  <1>2. QED
    BY <1>1, StateSpecLock, InitVersionsInv, VersionsInvStep, PTL DEF StateSpec

\* The variables of the state backend keep their types.
THEOREM StateTypeCorrect == StateSpec => []StateTypeOK
  <1>1. TypeOK /\ VersionsInv => StateTypeOK
    BY DEF VersionsInv, VersionsTypeOK, StateTypeOK
  <1>2. QED
    BY <1>1, VersionsInvariance, PTL

\* prune_versions never deletes the version that pull_state answers, whatever
\* pushes, rollbacks, deletions and restarts come between its two statements.
THEOREM PruneSparesNewestAlways == StateSpec => []PruneSparesNewest
  <1>1. TypeOK /\ VersionsInv => PruneSparesNewest
    BY DEF VersionsInv
  <1>2. QED
    BY <1>1, VersionsInvariance, PTL

\* The clients of the whole backend exclude one another as those of the lock.
THEOREM BackendMutualExclusion == StateSpec => []MutualExclusion
  BY StateSpecLock, MutualExclusionAlways, PTL

\* No pruning and no push takes the newest version back.
LEMMA NewestStep ==
  ASSUME VersionsInv, [StateNext]_allVars
  PROVE  [ \/ versions' = {} /\ (versions = {} \/ DeleteState)
           \/ \E v \in versions' : \A u \in versions : u.serial <= v.serial ]_allVars
  <1> DEFINE Onward == \E v \in versions' : \A u \in versions : u.serial <= v.serial
  <1> USE DEF VersionsInv, VersionsTypeOK
  <1>1. CASE versions = {}
    BY <1>1
  <1>2. ASSUME versions # {}, versions \subseteq versions'
        PROVE  Onward
    BY <1>2, NewestExists DEF IsNewest
  <1>3. ASSUME NEW w \in Writes, PruneDelete(w), versions # {}
        PROVE  Onward
    <2>1. PICK v \in versions : IsNewest(v, versions)
      BY <1>3, NewestExists
    <2>2. v \in versions'
      BY <1>3, <2>1 DEF PruneDelete, PruneSparesNewest
    <2>3. QED
      BY <2>1, <2>2 DEF IsNewest
  <1>4. ASSUME ~DeleteState, ~ \E w \in Writes : PruneDelete(w)
        PROVE  versions \subseteq versions'
    BY <1>4 DEF StateNext, stateVars, allVars, LockSent, UnlockSent, Pull, ClientStops,
                ServerRestarts, SendPush, SendRollback, WHandler, PushCheck, PushInsert,
                PushConflict, PruneSelect, PruneFails, RollbackPull, RollbackBump
  <1>5. CASE DeleteState
    BY <1>5 DEF DeleteState
  <1>6. QED
    BY <1>1, <1>2, <1>3, <1>4, <1>5

\* What pull_state answers never goes back to an older serial, unless somebody
\* deletes the state.
THEOREM NewestNeverGoesBackAlways == StateSpec => NewestNeverGoesBack
  <1>1. VersionsInv /\ [StateNext]_allVars =>
          [ \/ versions' = {} /\ (versions = {} \/ DeleteState)
            \/ \E v \in versions' : \A u \in versions : u.serial <= v.serial ]_allVars
    BY NewestStep
  <1>2. StateSpec => []VersionsInv
    BY VersionsInvariance, PTL
  <1>3. QED
    BY <1>1, <1>2, PTL DEF StateSpec, NewestNeverGoesBack
-----------------------------------------------------------------------------
(***************************************************************************)
(* Retention.  A pruning deletes what it has selected, later, and other    *)
(* pushes insert and other prunings delete in between: so the bound has to *)
(* be known for whichever of the prunings that have selected come first.   *)
(***************************************************************************)
Pruners == {w \in Writes : Pruning(w)}
Selected == {w \in Writes : wreq[w].step = "prune"}

\* The versions that are left when the prunings S have deleted theirs.
Left(S) == {v \in versions : \A w \in S : v \notin wreq[w].victims}

RetentionInv ==
  /\ \A u, v \in versions : u.serial = v.serial => u = v
  /\ IsFiniteSet(versions) /\ IsFiniteSet(Pruners)
  /\ ~pruningCut => \A S \in SUBSET Selected :
       Cardinality(Left(S)) <= MaxVersions + Cardinality(Pruners \ S)

\* A table that is not empty has an oldest version.
LEMMA OldestExists ==
  ASSUME NEW V, V \subseteq Version, V # {}
  PROVE  \E v \in V : \A u \in V : v.serial <= u.serial
  <1> DEFINE D == {v.serial : v \in V}
  <1>1. \A v \in V : v.serial \in Nat
    BY BoundsAssumption DEF Version, Serials
  <1>2. D \subseteq Nat /\ D # {}
    BY <1>1
  <1>3. PICK d \in D : \A e \in D : ~ (<<e, d>> \in OpToRel(<, Nat))
    BY <1>2, NatLessThanWellFounded, WFMin
  <1>4. \A e \in D : ~ (e < d)
    BY <1>2, <1>3 DEF OpToRel
  <1>5. PICK v \in V : d = v.serial
    OBVIOUS
  <1>6. \A u \in V : v.serial <= u.serial
    BY <1>1, <1>4, <1>5
  <1>7. QED
    BY <1>6

\* Of versions with different serials, no more than MaxVersions have fewer than
\* MaxVersions above them.
LEMMA KeptBound ==
  ASSUME NEW V, V \subseteq Version, IsFiniteSet(V),
         \A u, v \in V : u.serial = v.serial => u = v
  PROVE  Cardinality({v \in V : ~ Cardinality({u \in V : u.serial > v.serial}) >= MaxVersions})
           <= MaxVersions
  <1> DEFINE Above(v) == {u \in V : u.serial > v.serial}
             K == {v \in V : ~ Cardinality(Above(v)) >= MaxVersions}
  <1>1. IsFiniteSet(K) /\ Cardinality(K) \in Nat
    BY FS_Subset, FS_CardinalityType
  <1>2. CASE K = {}
    <2>1. Cardinality({}) = 0
      BY FS_EmptySet
    <2> HIDE DEF K
    <2>2. Cardinality(K) <= MaxVersions
      BY <1>2, <2>1, BoundsAssumption
    <2>3. QED
      BY <2>2 DEF K
  <1>3. CASE K # {}
    <2>1. PICK v \in K : \A u \in K : v.serial <= u.serial
      BY <1>3, OldestExists
    <2>2. IsFiniteSet(Above(v)) /\ Cardinality(Above(v)) \in Nat
      BY FS_Subset, FS_CardinalityType
    <2>3. K \ {v} \subseteq Above(v)
      <3> SUFFICES ASSUME NEW u \in K, u # v
                   PROVE  u.serial > v.serial
        OBVIOUS
      <3>1. u.serial \in Int /\ v.serial \in Int /\ u.serial # v.serial
        BY BoundsAssumption DEF Version, Serials
      <3>2. QED
        BY <2>1, <3>1
    <2>4. Cardinality(K \ {v}) <= Cardinality(Above(v))
      BY <2>2, <2>3, FS_Subset
    <2>5. Cardinality(K \ {v}) = Cardinality(K) - 1
      BY <1>1, <2>1, FS_RemoveElement
    <2>6. Cardinality(Above(v)) < MaxVersions
      BY <2>1, <2>2, BoundsAssumption
    <2>7. QED
      BY <1>1, <2>2, <2>4, <2>5, <2>6, BoundsAssumption
  <1>4. QED
    BY <1>2, <1>3

\* The retention holds of an empty table.
LEMMA InitRetentionInv == StateInit => RetentionInv
  <1> SUFFICES ASSUME StateInit PROVE RetentionInv
    OBVIOUS
  <1>1. versions = {} /\ Pruners = {}
    BY DEF StateInit, WFree, Pruners, Pruning
  <1>2. \A S : Left(S) = {} /\ Pruners \ S = {}
    BY <1>1 DEF Left
  <1>3. QED
    BY <1>1, <1>2, FS_EmptySet, BoundsAssumption DEF RetentionInv

\* A step that inserts nothing and neither begins nor ends a pruning keeps it.
LEMMA RetentionKept ==
  ASSUME RetentionInv, versions' \subseteq versions,
         ~pruningCut' => ~pruningCut,
         pruningCut' \/ Pruners' = Pruners, Pruners' \subseteq Pruners,
         \A w \in Writes : wreq'[w].step = "prune" =>
            wreq[w].step = "prune" /\ wreq'[w].victims = wreq[w].victims
  PROVE  RetentionInv'
  <1>1. \A u, v \in versions' : u.serial = v.serial => u = v
    BY DEF RetentionInv
  <1>2. IsFiniteSet(versions') /\ IsFiniteSet(Pruners')
    BY FS_Subset DEF RetentionInv
  <1>3. ASSUME ~pruningCut', NEW S \in SUBSET Selected'
        PROVE  Cardinality(Left(S)') <= MaxVersions + Cardinality((Pruners \ S)')
    <2>1. S \in SUBSET Selected
      BY DEF Selected
    <2>2. Left(S)' \subseteq Left(S)
      BY DEF Left, Selected
    <2>3. IsFiniteSet(Left(S)) /\ Cardinality(Left(S)) \in Nat
      BY FS_Subset, FS_CardinalityType DEF RetentionInv, Left
    <2>4. Cardinality(Left(S)') <= Cardinality(Left(S)) /\ Cardinality(Left(S)') \in Nat
      BY <2>2, <2>3, FS_Subset, FS_CardinalityType
    <2>5. Cardinality(Pruners \ S) \in Nat
      BY FS_Subset, FS_CardinalityType DEF RetentionInv
    <2>6. (Pruners \ S)' = Pruners \ S
      BY <1>3
    <2>7. Cardinality(Left(S)) <= MaxVersions + Cardinality(Pruners \ S)
      BY <1>3, <2>1 DEF RetentionInv
    <2>8. QED
      BY <2>3, <2>4, <2>5, <2>6, <2>7, BoundsAssumption
  <1>4. QED
    BY <1>1, <1>2, <1>3 DEF RetentionInv

\* A push adds a version, and itself to those that have yet to prune.
LEMMA InsertKeepsRetention ==
  ASSUME VersionsTypeOK, RetentionInv, NEW w \in Writes, PushInsert(w)
  PROVE  RetentionInv'
  <1> DEFINE new == NewRow(wreq[w].serial)
  <1>1. new \in Version /\ new.serial = wreq[w].serial /\ FreshRow(new)
    BY NewRowFresh DEF PushInsert
  <1>2. versions' = versions \cup {new} /\ new \notin versions
    BY <1>1 DEF PushInsert, FreshRow
  <1>3. \A x \in Writes : wreq'[x] = IF x = w THEN [wreq[w] EXCEPT !.step = "select"] ELSE wreq[x]
    BY DEF PushInsert, WGoto, VersionsTypeOK
  <1>4. wreq[w].step = "insert" /\ wreq'[w].step = "select"
    BY <1>3 DEF PushInsert, VersionsTypeOK, WRequest
  <1>5. \A v \in versions : v.serial # new.serial
    BY <1>1 DEF PushInsert, SerialsOf
  <1> HIDE DEF new
  <1>6. Pruners' = Pruners \cup {w} /\ w \notin Pruners /\ Selected' = Selected /\ w \notin Selected
    BY <1>3, <1>4 DEF Pruners, Selected, Pruning
  <1>7. \A u, v \in versions' : u.serial = v.serial => u = v
    BY <1>2, <1>5 DEF RetentionInv
  <1>8. IsFiniteSet(versions') /\ IsFiniteSet(Pruners')
    BY <1>2, <1>6, FS_AddElement DEF RetentionInv
  <1>9. ASSUME ~pruningCut', NEW S \in SUBSET Selected'
        PROVE  Cardinality(Left(S)') <= MaxVersions + Cardinality((Pruners \ S)')
    <2>1. S \in SUBSET Selected /\ w \notin S /\ ~pruningCut
      BY <1>6, <1>9 DEF PushInsert
    <2>2. \A x \in S : wreq'[x].victims = wreq[x].victims
      BY <1>3, <2>1 DEF Selected
    <2>3. Left(S)' \subseteq Left(S) \cup {new}
      BY <1>2, <2>2 DEF Left
    <2>4. IsFiniteSet(Left(S)) /\ Cardinality(Left(S)) \in Nat
      BY FS_Subset, FS_CardinalityType DEF RetentionInv, Left
    <2>5. /\ IsFiniteSet(Left(S) \cup {new})
          /\ Cardinality(Left(S) \cup {new}) <= Cardinality(Left(S)) + 1
          /\ Cardinality(Left(S) \cup {new}) \in Nat
      BY <2>4, FS_AddElement, FS_CardinalityType
    <2>6. Cardinality(Left(S)') <= Cardinality(Left(S) \cup {new}) /\ Cardinality(Left(S)') \in Nat
      BY <2>3, <2>5, FS_Subset, FS_CardinalityType
    <2>7. IsFiniteSet(Pruners \ S) /\ Cardinality(Pruners \ S) \in Nat
      BY FS_Subset, FS_CardinalityType DEF RetentionInv
    <2>8. (Pruners \ S)' = (Pruners \ S) \cup {w} /\ w \notin Pruners \ S
      BY <1>6, <2>1
    <2>9. Cardinality((Pruners \ S)') = Cardinality(Pruners \ S) + 1
      BY <2>7, <2>8, FS_AddElement
    <2>10. Cardinality(Left(S)) <= MaxVersions + Cardinality(Pruners \ S)
      BY <2>1 DEF RetentionInv
    <2>11. QED
      BY <2>4, <2>5, <2>6, <2>7, <2>9, <2>10, BoundsAssumption
  <1>10. QED
    BY <1>7, <1>8, <1>9 DEF RetentionInv

\* What a pruning selects leaves no more than MaxVersions, whoever else deletes.
LEMMA SelectKeepsRetention ==
  ASSUME VersionsTypeOK, RetentionInv, NEW w \in Writes, PruneSelect(w)
  PROVE  RetentionInv'
  <1>1. UNCHANGED <<versions, pruningCut>> /\ wreq[w].step = "select"
    BY DEF PruneSelect
  <1>2. /\ \A x \in Writes : x # w => wreq'[x] = wreq[x]
        /\ wreq'[w].step = "prune" /\ wreq'[w].victims = BeyondRetention
    BY DEF PruneSelect, VersionsTypeOK, WRequest
  <1>3. Pruners' = Pruners /\ Selected' = Selected \cup {w} /\ w \notin Selected
    BY <1>1, <1>2 DEF Pruners, Selected, Pruning
  <1>4. ASSUME ~pruningCut', NEW S \in SUBSET Selected'
        PROVE  Cardinality(Left(S)') <= MaxVersions + Cardinality((Pruners \ S)')
    <2>1. (Pruners \ S)' = Pruners \ S /\ Cardinality(Pruners \ S) \in Nat
      BY <1>3, FS_Subset, FS_CardinalityType DEF RetentionInv
    <2>2. CASE w \notin S
      <3>1. S \in SUBSET Selected /\ Left(S)' = Left(S)
        BY <1>1, <1>2, <1>3, <2>2 DEF Left, Selected
      <3>2. QED
        BY <1>1, <1>4, <2>1, <3>1 DEF RetentionInv
    <2>3. CASE w \in S
      <3> DEFINE Kept == {v \in versions :
                    ~ Cardinality({u \in versions : u.serial > v.serial}) >= MaxVersions}
      <3>1. IsFiniteSet(Kept) /\ Cardinality(Kept) <= MaxVersions /\ Cardinality(Kept) \in Nat
        BY KeptBound, FS_Subset, FS_CardinalityType DEF VersionsTypeOK, RetentionInv
      <3>2. Left(S)' \subseteq Kept
        BY <1>1, <1>2, <2>3 DEF Left, BeyondRetention
      <3> HIDE DEF Kept
      <3>3. Cardinality(Left(S)') <= Cardinality(Kept) /\ Cardinality(Left(S)') \in Nat
        BY <3>1, <3>2, FS_Subset, FS_CardinalityType
      <3>4. QED
        BY <2>1, <3>1, <3>3, BoundsAssumption
    <2>4. QED
      BY <2>2, <2>3
  <1>5. QED
    BY <1>1, <1>3, <1>4 DEF RetentionInv

\* A pruning that deletes was one of those that could come first.
LEMMA DeleteKeepsRetention ==
  ASSUME VersionsTypeOK, RetentionInv, NEW w \in Writes, PruneDelete(w)
  PROVE  RetentionInv'
  <1>1. versions' = versions \ wreq[w].victims /\ wreq[w].step = "prune" /\ UNCHANGED pruningCut
    BY DEF PruneDelete
  <1>2. \A x \in Writes : wreq'[x] = IF x = w THEN WFree ELSE wreq[x]
    BY DEF PruneDelete, WEnded, VersionsTypeOK
  <1>3. Pruners' = Pruners \ {w} /\ Selected' = Selected \ {w} /\ w \in Selected
    BY <1>1, <1>2 DEF Pruners, Selected, Pruning, WFree
  <1>4. IsFiniteSet(versions') /\ IsFiniteSet(Pruners')
    BY <1>1, <1>3, FS_Subset DEF RetentionInv
  <1>5. ASSUME ~pruningCut', NEW S \in SUBSET Selected'
        PROVE  Cardinality(Left(S)') <= MaxVersions + Cardinality((Pruners \ S)')
    <2> DEFINE T == S \cup {w}
    <2>1. T \in SUBSET Selected /\ w \notin S
      BY <1>3
    <2>2. Left(S)' = Left(T)
      BY <1>1, <1>2, <2>1 DEF Left, Selected
    <2>3. (Pruners \ S)' = Pruners \ T
      BY <1>3
    <2>4. QED
      BY <1>1, <1>5, <2>1, <2>2, <2>3 DEF RetentionInv
  <1>6. QED
    BY <1>1, <1>4, <1>5 DEF RetentionInv

\* Every step keeps the retention.
LEMMA RetentionStep ==
  ASSUME VersionsTypeOK, RetentionInv, [StateNext]_allVars
  PROVE  RetentionInv'
  <1> USE DEF VersionsTypeOK, Pruners, Pruning, WFree, WRequest, stateVars, allVars
  <1>1. ASSUME NEW w \in Writes, PruneFails(w)
        PROVE  RetentionInv'
    BY <1>1, RetentionKept DEF PruneFails, WEnded
  <1>2. ASSUME NEW w \in Writes, PushCheck(w) \/ PushConflict(w) \/ RollbackPull(w) \/ RollbackBump(w)
        PROVE  RetentionInv'
    BY <1>2, RetentionKept DEF PushCheck, PushConflict, RollbackPull, RollbackBump, WEnded, WGoto
  <1>3. ASSUME NEW w \in Writes, WHandler(w)
        PROVE  RetentionInv'
    BY <1>1, <1>2, <1>3, InsertKeepsRetention, SelectKeepsRetention, DeleteKeepsRetention
       DEF WHandler
  <1>4. ASSUME NEW c \in Clients, ClientStops(c)
        PROVE  RetentionInv'
    BY <1>4, RetentionKept DEF ClientStops
  <1>5. CASE ServerRestarts
    <2>1. Pruners' = {}
      BY <1>5 DEF ServerRestarts
    <2>2. pruningCut' \/ Pruners' = Pruners
      BY <1>5, <2>1 DEF ServerRestarts
    <2>3. QED
      BY <1>5, <2>1, <2>2, RetentionKept DEF ServerRestarts
  <1>6. ASSUME NEW w \in Writes, NEW s \in {"check", "insert", "pull"}, NEW n, NEW i, NEW c,
               WArrive(w, s, n, i, c), UNCHANGED <<versions, pruningCut>>
        PROVE  RetentionInv'
    <2>1. \A x \in Writes : x # w => wreq'[x] = wreq[x]
      BY <1>6 DEF WArrive
    <2>2. wreq[w].step = "free" /\ wreq'[w].step = s
      BY <1>6 DEF WArrive
    <2>3. QED
      BY <1>6, <2>1, <2>2, RetentionKept
  <1>7. ASSUME NEW c \in Clients, NEW w \in Writes, SendPush(c, w)
        PROVE  RetentionInv'
    BY <1>6, <1>7 DEF SendPush
  <1>8. ASSUME NEW w \in Writes, SendRollback(w)
        PROVE  RetentionInv'
    BY <1>6, <1>8 DEF SendRollback
  <1>9. ASSUME UNCHANGED <<wreq, pruningCut>>, versions' \subseteq versions
        PROVE  RetentionInv'
    BY <1>9, RetentionKept
  <1>10. QED
    BY <1>3, <1>4, <1>5, <1>7, <1>8, <1>9 DEF StateNext, LockSent, UnlockSent, Pull, DeleteState

\* At most state_max_versions versions are kept besides one for each push that
\* is still pruning, however pushes, rollbacks and prunings overlap
\* (prune_versions).
THEOREM RetentionBoundAlways == StateSpec => []RetentionBound
  <1>1. RetentionInv => RetentionBound
    <2> SUFFICES ASSUME RetentionInv, ~pruningCut
                 PROVE  Cardinality(versions) <= MaxVersions + Cardinality(Pruners)
      BY DEF RetentionBound, Pruners
    <2>1. Left({}) = versions /\ Pruners \ {} = Pruners /\ {} \in SUBSET Selected
      BY DEF Left
    <2>2. QED
      BY <2>1 DEF RetentionInv
  <1>2. VersionsInv => VersionsTypeOK
    BY DEF VersionsInv
  <1>3. QED
    BY <1>1, <1>2, VersionsInvariance, InitRetentionInv, RetentionStep, PTL DEF StateSpec

-----------------------------------------------------------------------------
(***************************************************************************)
(* Pushes under the lock.  While nothing disturbs the lock and nobody goes *)
(* round it, at most one push is between its arrival and its INSERT: that  *)
(* of the holder, or of a holder that has died since, whose row nobody can *)
(* then remove.                                                            *)
(***************************************************************************)
Pending(w) == wreq[w].step \in {"check", "insert"}

\* A client that waits for a push has the lock, and waits for one push only.
WritersHold ==
  /\ \A w \in Writes : wreq[w].client # NoClient => status[wreq[w].client] = "held"
  /\ \A w, x \in Writes :
       wreq[w].client = wreq[x].client /\ wreq[w].client # NoClient => w = x

\* A pending push carries the identifier of the row, and nobody is about to
\* remove that row.
PendingOwns ==
  \A w \in Writes : Pending(w) =>
    /\ lockId = wreq[w].id /\ wreq[w].id \in LockIds
    /\ \A r \in Requests : req[r].op = "unlock" => req[r].id # wreq[w].id
    /\ wreq[w].client = NoClient => \A c \in Clients : ownId[c] # wreq[w].id

\* What the clients have read, and what they write, when n is the newest serial.
WorkFrom(n) ==
  /\ \A w \in Writes : Pending(w) => wreq[w].serial = n + 1
  /\ \A w \in Writes : Pruning(w) /\ wreq[w].client # NoClient => wreq[w].serial = n
  /\ \A c \in Clients : status[c] = "held" /\ ~Writing(c) => base[c] \in {n, NotRead}

PushesOK ==
  /\ \A w \in Writes : wreq[w].step \notin {"pull", "bump"}
  /\ \A w, x \in Writes : Pending(w) /\ Pending(x) => w = x
  /\ \A c \in Clients : status[c] = "locking" => base[c] = NotRead
  /\ WritersHold
  /\ PendingOwns
  /\ WorkFrom(Newest)

PushesInv == ~disturbed /\ ~bypassed => PushesOK

\* The highest serial of the rows V.
NewestOf(V) == IF V = {} THEN 0
               ELSE CHOOSE s \in SerialsOf(V) : \A t \in SerialsOf(V) : t <= s

\* It is that of the newest version.
LEMMA NewestOfIs ==
  ASSUME NEW V, V \subseteq Version, NEW v \in V, \A u \in V : u.serial <= v.serial
  PROVE  NewestOf(V) = v.serial
  <1> DEFINE n == NewestOf(V)
  <1>1. v.serial \in SerialsOf(V) /\ \A t \in SerialsOf(V) : t <= v.serial
    BY DEF SerialsOf
  <1>2. n \in SerialsOf(V) /\ \A t \in SerialsOf(V) : t <= n
    BY <1>1 DEF NewestOf
  <1>3. \A t \in SerialsOf(V) : t \in Nat
    BY BoundsAssumption DEF SerialsOf, Version, Serials
  <1> HIDE DEF n
  <1>4. n <= v.serial /\ v.serial <= n
    BY <1>1, <1>2
  <1>5. n = v.serial
    BY <1>1, <1>2, <1>3, <1>4
  <1>6. QED
    BY <1>5 DEF n

\* The version a push inserts is the newest, if its serial is the next one.
LEMMA InsertedIsNewest ==
  ASSUME versions \subseteq Version, NEW v \in Version, v.serial = Newest + 1,
         versions' = versions \cup {v}
  PROVE  Newest' = v.serial
  <1>1. Newest' = NewestOf(versions') /\ Newest = NewestOf(versions)
    BY DEF Newest, NewestOf
  <1>2. \A u \in versions : u.serial <= v.serial
    <2>1. CASE versions = {}
      BY <2>1
    <2>2. CASE versions # {}
      <3>1. PICK x \in versions : IsNewest(x, versions)
        BY <2>2, NewestExists
      <3>2. Newest = x.serial
        BY <1>1, <3>1, NewestOfIs DEF IsNewest
      <3>3. \A u \in versions : u.serial \in Nat
        BY BoundsAssumption DEF Version, Serials
      <3>4. QED
        BY <3>1, <3>2, <3>3 DEF IsNewest
    <2>3. QED
      BY <2>1, <2>2
  <1>3. v.serial \in Nat
    BY BoundsAssumption DEF Version, Serials
  <1>4. \A u \in versions' : u.serial <= v.serial
    BY <1>2, <1>3
  <1>5. QED
    BY <1>1, <1>4, NewestOfIs

\* A pruning does not change what the newest serial is.
LEMMA DeletedIsNotNewest ==
  ASSUME VersionsInv, NEW w \in Writes, versions' = versions \ wreq[w].victims
  PROVE  Newest' = Newest
  <1>1. Newest' = NewestOf(versions') /\ Newest = NewestOf(versions)
    BY DEF Newest, NewestOf
  <1>2. CASE versions = {}
    BY <1>1, <1>2
  <1>3. CASE versions # {}
    <2>1. PICK x \in versions : IsNewest(x, versions)
      BY <1>3, NewestExists DEF VersionsInv, VersionsTypeOK
    <2>2. x \in versions'
      BY <2>1 DEF VersionsInv, PruneSparesNewest
    <2>3. NewestOf(versions) = x.serial
      BY <2>1, NewestOfIs DEF IsNewest, VersionsInv, VersionsTypeOK
    <2>4. NewestOf(versions') = x.serial
      BY <2>1, <2>2, NewestOfIs DEF IsNewest, VersionsInv, VersionsTypeOK
    <2>5. QED
      BY <1>1, <2>3, <2>4
  <1>4. QED
    BY <1>2, <1>3

\* The one that holds the lock is the one whose push is pending.
LEMMA HolderIsWriter ==
  ASSUME IdsOK, Undisturbed, PushesOK, NullsAssumption,
         NEW c \in Clients, status[c] = "held", NEW w \in Writes, Pending(w),
         wreq[w].client \in Clients \cup {NoClient}
  PROVE  wreq[w].client = c
  <1>1. lockId = ownId[c] /\ lockId = wreq[w].id /\ lockId # NoLock
    BY DEF Undisturbed, Holders, PushesOK, PendingOwns
  <1>2. wreq[w].client # NoClient
    BY <1>1 DEF PushesOK, PendingOwns
  <1>3. lockId = ownId[wreq[w].client]
    BY <1>2 DEF Undisturbed, Holders, PushesOK, WritersHold
  <1>4. QED
    BY <1>1, <1>2, <1>3 DEF IdsOK

\* A push that is answered leaves its client where it was, or unread.
LEMMA AnswerKeepsPushes ==
  ASSUME LockInv, VersionsInv, PushesOK, UNCHANGED vars, Newest' = Newest,
         NEW w \in Writes, NEW s, WEnded(w, s),
         s = NotRead \/ (wreq[w].client # NoClient => s = Newest)
  PROVE  PushesOK'
  <1> USE NullsAssumption DEF Pending, Pruning, WFree, WRequest
  <1>1. wreq \in [Writes -> WRequest] /\ base \in [Clients -> 0..NotRead]
    BY DEF VersionsInv, VersionsTypeOK
  <1>2. UNCHANGED <<lockId, req, status, ownId>>
    BY DEF vars, lockVars, clientVars
  <1>3. \A x \in Writes : wreq'[x] = IF x = w THEN WFree ELSE wreq[x]
    BY <1>1 DEF WEnded
  <1>4. \A c \in Clients : base'[c] = IF c = wreq[w].client THEN s ELSE base[c]
    BY DEF WEnded
  <1>5. \A c \in Clients : Writing(c) => Writing(c)' \/ c = wreq[w].client
    BY <1>3 DEF Writing
  <1>6. \A c \in Clients : status[c] = "locking" => base'[c] = NotRead
    BY <1>4 DEF PushesOK, WritersHold
  <1>7. WritersHold'
    BY <1>2, <1>3 DEF PushesOK, WritersHold
  <1>8. PendingOwns'
    BY <1>2, <1>3 DEF PushesOK, PendingOwns
  <1>9. WorkFrom(Newest)'
    <2>1. \A c \in Clients : status[c] = "held" /\ ~Writing(c)' => base'[c] \in {Newest, NotRead}
      BY <1>4, <1>5 DEF PushesOK, WorkFrom
    <2>2. QED
      BY <1>2, <1>3, <2>1 DEF PushesOK, WorkFrom, NotRead
  <1>10. QED
    BY <1>2, <1>3, <1>6, <1>7, <1>8, <1>9 DEF PushesOK, NotRead

\* The statements of push_state and prune_versions keep PushesOK; those of
\* rollback_state are not executed.
LEMMA HandlersKeepPushes ==
  ASSUME LockInv, Undisturbed, VersionsInv, PushesOK, NEW w \in Writes, WHandler(w)
  PROVE  PushesOK'
  <1> USE NullsAssumption DEF Pending, Pruning, Writing, WFree, WRequest
  <1>1. /\ versions \subseteq Version /\ wreq \in [Writes -> WRequest]
        /\ base \in [Clients -> 0..NotRead] /\ IdsOK
    BY DEF VersionsInv, VersionsTypeOK, LockInv
  <1>2. UNCHANGED vars
    BY DEF WHandler, PushCheck, PushInsert, PushConflict, PruneSelect, PruneDelete,
           PruneFails, RollbackPull, RollbackBump
  <1>3. UNCHANGED <<lockId, req, status, ownId>>
    BY <1>2 DEF vars, lockVars, clientVars
  <1>4. CASE WGoto(w, "insert") /\ wreq[w].step = "check" /\ UNCHANGED versions
    <2>1. Newest' = Newest
      BY <1>4 DEF Newest
    <2>2. \A x \in Writes :
             /\ Pending(x)' = Pending(x)
             /\ Pruning(x)' = Pruning(x)
             /\ wreq'[x].client = wreq[x].client
             /\ wreq'[x].serial = wreq[x].serial
             /\ wreq'[x].id = wreq[x].id
             /\ wreq'[x].step \in {"insert", wreq[x].step}
      BY <1>1, <1>4 DEF WGoto
    <2>3. \A c \in Clients : Writing(c)' = Writing(c) /\ base'[c] = base[c]
      BY <1>1, <1>4, <2>2 DEF WGoto
    <2>4. QED
      BY <1>3, <2>1, <2>2, <2>3 DEF PushesOK, WritersHold, PendingOwns, WorkFrom, NotRead
  <1>5. CASE PushCheck(w)
    BY <1>4, <1>5 DEF PushCheck, PushesOK, PendingOwns, WGoto
  <1>6. CASE PushInsert(w)
    <2> DEFINE new == NewRow(wreq[w].serial)
    <2>1. new \in Version /\ new.serial = wreq[w].serial /\ versions' = versions \cup {new}
      BY <1>6, NewRowFresh DEF PushInsert
    <2>2. Pending(w) /\ wreq[w].serial = Newest + 1
      BY <1>6 DEF PushInsert, PushesOK, WorkFrom
    <2> HIDE DEF new
    <2>3. Newest' = wreq[w].serial
      BY <1>1, <2>1, <2>2, InsertedIsNewest
    <2>4. \A x \in Writes : wreq'[x] = IF x = w THEN [wreq[w] EXCEPT !.step = "select"] ELSE wreq[x]
      BY <1>1, <1>6 DEF PushInsert, WGoto
    <2>5. /\ \A x \in Writes :
               /\ wreq'[x].client = wreq[x].client
               /\ wreq'[x].serial = wreq[x].serial
               /\ x # w => wreq'[x].step = wreq[x].step /\ wreq'[x].id = wreq[x].id
          /\ wreq'[w].step = "select" /\ base' = base
      BY <1>1, <1>6, <2>4 DEF PushInsert, WGoto
    <2>6. \A x \in Writes : ~ Pending(x)'
      BY <2>2, <2>5 DEF PushesOK
    <2>7. \A c \in Clients : Writing(c)' = Writing(c)
      BY <2>5
    <2>8. \A c \in Clients : status[c] = "held" => wreq[w].client = c
      BY <1>1, <2>2, HolderIsWriter
    <2>9. \A x \in Writes : wreq[x].client # NoClient => x = w
      BY <1>1, <2>8 DEF PushesOK, WritersHold
    <2>10. WorkFrom(Newest)'
      BY <1>3, <2>3, <2>5, <2>6, <2>7, <2>8, <2>9 DEF WorkFrom
    <2>11. WritersHold'
      BY <1>3, <2>5 DEF PushesOK, WritersHold
    <2>12. PendingOwns'
      BY <2>6 DEF PendingOwns
    <2>13. QED
      BY <1>3, <2>5, <2>6, <2>10, <2>11, <2>12 DEF PushesOK, NotRead
  <1>7. CASE PushConflict(w)
    <2>1. Newest' = Newest
      BY <1>7 DEF PushConflict, Newest
    <2>2. QED
      BY <1>2, <1>7, <2>1, AnswerKeepsPushes DEF PushConflict
  <1>8. CASE PruneSelect(w)
    <2>1. Newest' = Newest /\ base' = base /\ wreq[w].step = "select"
      BY <1>8 DEF PruneSelect, Newest
    <2>2. wreq' = [wreq EXCEPT ![w] = [wreq[w] EXCEPT !.step = "prune", !.victims = BeyondRetention]]
      BY <1>8 DEF PruneSelect
    <2>3. \A x \in Writes :
             /\ wreq'[x].client = wreq[x].client
             /\ wreq'[x].serial = wreq[x].serial
             /\ wreq'[x].id = wreq[x].id
             /\ wreq'[x].step = IF x = w THEN "prune" ELSE wreq[x].step
      BY <1>1, <2>2
    <2>4. \A x \in Writes : Pending(x)' = Pending(x) /\ Pruning(x)' = Pruning(x)
      BY <2>1, <2>3
    <2>5. \A c \in Clients : Writing(c)' = Writing(c)
      BY <2>3
    <2>6. QED
      BY <1>3, <2>1, <2>3, <2>4, <2>5 DEF PushesOK, WritersHold, PendingOwns, WorkFrom, NotRead
  <1>9. CASE PruneDelete(w) \/ PruneFails(w)
    <2>1. Newest' = Newest
      <3>1. CASE PruneDelete(w)
        BY <3>1, DeletedIsNotNewest DEF PruneDelete
      <3>2. CASE PruneFails(w)
        BY <3>2 DEF PruneFails, Newest
      <3>3. QED
        BY <1>9, <3>1, <3>2
    <2>2. WEnded(w, wreq[w].serial) /\ Pruning(w)
      BY <1>9 DEF PruneDelete, PruneFails
    <2>3. wreq[w].client # NoClient => wreq[w].serial = Newest
      BY <2>2 DEF PushesOK, WorkFrom
    <2>4. QED
      BY <1>2, <2>1, <2>2, <2>3, AnswerKeepsPushes
  <1>10. QED
    BY <1>5, <1>6, <1>7, <1>8, <1>9 DEF WHandler, RollbackPull, RollbackBump, PushesOK

\* So do the clients.
LEMMA ClientsKeepPushes ==
  ASSUME LockInv, Undisturbed, VersionsInv, PushesOK, ~bypassed',
         \/ \E c \in Clients : Pull(c)
         \/ \E c \in Clients, w \in Writes : SendPush(c, w)
         \/ \E w \in Writes : SendRollback(w)
         \/ DeleteState
  PROVE  PushesOK'
  <1> USE NullsAssumption DEF Pending, Pruning, Writing, WFree
  <1>1. /\ wreq \in [Writes -> WRequest] /\ base \in [Clients -> 0..NotRead] /\ IdsOK
        /\ versions \subseteq Version
    BY DEF VersionsInv, VersionsTypeOK, LockInv
  <1>2. UNCHANGED <<vars, versions>>
    BY DEF Pull, SendPush, SendRollback, DeleteState
  <1>3. UNCHANGED <<lockId, req, status, ownId>> /\ Newest' = Newest
    BY <1>2 DEF vars, lockVars, clientVars, Newest
  <1>4. ASSUME NEW c \in Clients, Pull(c)
        PROVE  PushesOK'
    <2>1. /\ wreq' = wreq /\ base' = [base EXCEPT ![c] = Newest]
          /\ status[c] # "locking"
      BY <1>4 DEF Pull
    <2>2. QED
      BY <1>1, <1>3, <2>1 DEF PushesOK, WritersHold, PendingOwns, WorkFrom, NotRead
  <1>5. ASSUME NEW c \in Clients, NEW w \in Writes, SendPush(c, w)
        PROVE  PushesOK'
    <2>1. /\ status[c] = "held" /\ ~Writing(c) /\ base[c] < MaxSerial /\ base' = base
          /\ WArrive(w, "check", base[c] + 1, ownId[c], c)
      BY <1>5 DEF SendPush
    <2>2. base[c] = Newest
      BY <1>1, <2>1, BoundsAssumption DEF PushesOK, WorkFrom, NotRead
    <2>3. \A x \in Writes :
            /\ x # w => wreq'[x] = wreq[x]
            /\ wreq[w] = WFree
            /\ wreq'[w].step = "check"
            /\ wreq'[w].serial = Newest + 1
            /\ wreq'[w].id = ownId[c]
            /\ wreq'[w].client = c
      BY <1>1, <2>1, <2>2 DEF WArrive
    <2>4. ~ \E x \in Writes : Pending(x)
      BY <1>1, <2>1, HolderIsWriter DEF WRequest
    <2>5. /\ lockId = ownId[c] /\ ownId[c] \in LockIds
          /\ \A r \in Requests : req[r].op = "unlock" => req[r].id # ownId[c]
      <3>1. lockId = ownId[c] /\ ownId[c] \in LockIds
        BY <1>1, <2>1 DEF Undisturbed, Holders, IdsOK
      <3>2. ASSUME NEW r \in Requests, req[r].op = "unlock", req[r].id = ownId[c]
            PROVE  FALSE
        <4>1. req[r].client # NoClient
          BY <3>2 DEF Undisturbed
        <4>2. req[r].client \in Clients
          BY <4>1 DEF LockInv, TypeOK, Request
        <4>3. req[r].client = c
          BY <1>1, <3>1, <3>2, <4>1, <4>2 DEF IdsOK
        <4>4. QED
          BY <1>1, <2>1, <3>2, <4>1, <4>3 DEF IdsOK
      <3>3. QED
        BY <3>1, <3>2
    <2>6. PendingOwns'
      BY <1>3, <2>3, <2>4, <2>5 DEF PendingOwns
    <2>7. WritersHold'
      BY <1>3, <2>1, <2>3 DEF PushesOK, WritersHold
    <2>8. WorkFrom(Newest)'
      BY <1>3, <2>1, <2>3, <2>4 DEF PushesOK, WorkFrom, NotRead
    <2>9. QED
      BY <1>3, <2>1, <2>3, <2>4, <2>6, <2>7, <2>8 DEF PushesOK, NotRead
  <1>6. QED
    BY <1>4, <1>5 DEF SendRollback, DeleteState

\* What a step of the lock may do to what a client knows and to the row, as
\* long as nothing disturbs the lock.
LockFrame ==
  /\ \A c \in Clients : status'[c] = "locking" => status[c] = "locking"
  /\ \A c \in Clients : status'[c] = "held" => status[c] \in {"held", "locking"}
  /\ \A c \in Clients : status[c] = "held" => status'[c] = "held"
  /\ \A c \in Clients : ownId'[c] \in {ownId[c], NoLock}
  /\ \A r \in Requests : req'[r].op = "unlock" =>
       req'[r].id = req[r].id /\ req[r].op = "unlock"
  /\ \/ lockId' = lockId
     \/ lockId = NoLock
     \/ \E r \in Requests : req[r].op = "unlock" /\ req[r].id = lockId

LEMMA LockStepFrame ==
  ASSUME LockInv, Undisturbed, ~disturbed', LockStep
  PROVE  LockFrame
  <1> USE NullsAssumption DEF LockInv, TypeOK, SlotsOK, IdsOK, Undisturbed, Free, Request, Ops,
          Steps, Statuses, lockVars, clientVars, history
  <1>1. ASSUME NEW r \in Requests, Ended(r),
               lockId' = lockId \/ (req[r].op = "unlock" /\ req[r].id = lockId)
        PROVE  LockFrame
    <2>1. /\ \A c \in Clients : status[c] = "held" => status'[c] = "held"
          /\ \A c \in Clients : status'[c] \in {status[c], "idle"}
          /\ \A c \in Clients : ownId'[c] \in {ownId[c], NoLock}
          /\ \A q \in Requests : req'[q] \in {req[q], Free}
      BY <1>1 DEF Ended
    <2>2. QED
      BY ONLY <1>1, <2>1 DEF LockFrame, Free
  <1>2. ASSUME NEW r \in Requests, Granted(r), req[r].op = "lock", lockId = NoLock
        PROVE  LockFrame
    <2>1. /\ \A c \in Clients : status'[c] = IF c = req[r].client THEN "held" ELSE status[c]
          /\ req[r].client \in Clients => status[req[r].client] = "locking"
          /\ ownId' = ownId
          /\ \A q \in Requests : req'[q] \in {req[q], Free}
      BY <1>2 DEF Granted
    <2>2. QED
      BY ONLY <1>2, <2>1 DEF LockFrame, Free
  <1>3. ASSUME NEW r \in Requests, NEW s, Goto(r, s), lockId' = lockId
        PROVE  LockFrame
    <2>1. /\ UNCHANGED <<status, ownId>>
          /\ \A q \in Requests : req'[q].op = req[q].op /\ req'[q].id = req[q].id
      BY <1>3 DEF Goto
    <2>2. QED
      BY ONLY <1>3, <2>1 DEF LockFrame
  <1>4. ASSUME NEW c \in Clients, NEW r \in Requests, Retry(c, r)
        PROVE  LockFrame
    <2>1. Arrive(r, "lock", ownId[c], c, Abandoned(c)) /\ UNCHANGED <<status, ownId, lockId>>
      BY <1>4 DEF Retry
    <2>2. \A q \in Requests : Abandoned(c)[q].op = req[q].op /\ Abandoned(c)[q].id = req[q].id
      BY DEF Abandoned
    <2>3. \A q \in Requests :
            req'[q] = IF q = r THEN [op |-> "lock", step |-> "read", id |-> ownId[c], client |-> c]
                               ELSE Abandoned(c)[q]
      BY <2>1 DEF Arrive, Abandoned
    <2>4. QED
      BY ONLY <2>1, <2>2, <2>3 DEF LockFrame
  <1>5. ASSUME NEW r \in Requests, Handler(r)
        PROVE  LockFrame
    <2>1. CASE LockRead(r)
      BY ONLY <1>1, <1>3, <2>1 DEF LockRead, Undisturbed, lockVars
    <2>2. CASE LockReclaim(r)
      BY <2>2 DEF LockReclaim
    <2>3. CASE LockInsert(r)
      BY <1>2, <2>3 DEF LockInsert
    <2>4. CASE LockConflict(r)
      BY ONLY <1>1, <2>4 DEF LockConflict, lockVars
    <2>5. CASE UnlockRead(r)
      BY ONLY <1>1, <1>3, <2>5 DEF UnlockRead, lockVars
    <2>6. CASE ForceUnlockRead(r)
      BY ONLY <1>1, <1>3, <2>6 DEF ForceUnlockRead, lockVars
    <2>7. CASE DeleteRow(r)
      BY <1>1, <2>7 DEF DeleteRow
    <2>8. QED
      BY ONLY <1>5, <2>1, <2>2, <2>3, <2>4, <2>5, <2>6, <2>7 DEF Handler
  <1>6. QED
    BY <1>4, <1>5 DEF LockStep, SendForceUnlock, LeaseRunsOut

\* So do the steps of the lock that leave the versions alone.
LEMMA LockKeepsPushes ==
  ASSUME LockInv, Undisturbed, ~disturbed', VersionsInv, PushesOK, LockStep, UNCHANGED stateVars
  PROVE  PushesOK'
  <1> USE NullsAssumption DEF Pending, Pruning, Writing
  <1>1. UNCHANGED <<wreq, base, versions>> /\ Newest' = Newest /\ NotRead' = NotRead
    BY DEF stateVars, Newest, NotRead
  <1>2. /\ \A c \in Clients : status'[c] = "locking" => status[c] = "locking"
        /\ \A c \in Clients : status'[c] = "held" => status[c] \in {"held", "locking"}
        /\ \A c \in Clients : status[c] = "held" => status'[c] = "held"
    BY LockStepFrame DEF LockFrame
  <1>3. /\ \A c \in Clients : ownId'[c] \in {ownId[c], NoLock}
        /\ \A r \in Requests : req'[r].op = "unlock" =>
             req'[r].id = req[r].id /\ req[r].op = "unlock"
    BY LockStepFrame DEF LockFrame
  <1>4. \A w \in Writes : Pending(w) => lockId' = lockId
    BY LockStepFrame DEF LockFrame, PushesOK, PendingOwns
  <1>5. \A w \in Writes : wreq[w].client \in Clients \cup {NoClient}
    BY DEF VersionsInv, VersionsTypeOK, WRequest
  <1>6. WritersHold'
    BY <1>1, <1>2, <1>5 DEF PushesOK, WritersHold
  <1>7. PendingOwns'
    BY <1>1, <1>3, <1>4 DEF PushesOK, PendingOwns
  <1>8. WorkFrom(Newest)'
    BY <1>1, <1>2 DEF PushesOK, WorkFrom
  <1>9. QED
    BY <1>1, <1>2, <1>6, <1>7, <1>8 DEF PushesOK

\* A client that asks for the lock starts from nothing, and one that gives it
\* back has no push pending.
LEMMA RequestsKeepPushes ==
  ASSUME LockInv, Undisturbed, VersionsInv, PushesOK, NEW c \in Clients, NEW r \in Requests,
         LockSent(c, r) \/ UnlockSent(c, r)
  PROVE  PushesOK'
  <1> USE NullsAssumption DEF Pending, Pruning, Writing
  <1>1. /\ TypeOK /\ IdsOK /\ base \in [Clients -> 0..NotRead]
        /\ \A w \in Writes : wreq[w].client \in Clients \cup {NoClient}
    BY DEF LockInv, VersionsInv, VersionsTypeOK, WRequest
  <1>2. UNCHANGED <<wreq, versions, lockId>> /\ Newest' = Newest /\ NotRead' = NotRead
    <2>1. UNCHANGED <<wreq, versions, lockId>>
      BY DEF LockSent, UnlockSent, SendLock, SendUnlock, stateVars, lockVars
    <2>2. QED
      BY <2>1 DEF Newest, NotRead
  <1>3. CASE LockSent(c, r)
    <2>1. /\ status[c] = "idle" /\ ~Writing(c)
          /\ Fresh(NewId) /\ NewId \in LockIds
          /\ base' = [base EXCEPT ![c] = NotRead]
          /\ status' = [status EXCEPT ![c] = "locking"]
          /\ ownId' = [ownId EXCEPT ![c] = NewId]
          /\ \A q \in Requests : req'[q].op = "unlock" => req'[q] = req[q]
      BY <1>1, <1>3, NewIdFresh DEF LockSent, SendLock, Arrive, TypeOK
    <2>2. \A d \in Clients :
             /\ status'[d] = IF d = c THEN "locking" ELSE status[d]
             /\ ownId'[d] = IF d = c THEN NewId ELSE ownId[d]
             /\ base'[d] = IF d = c THEN NotRead ELSE base[d]
      BY <1>1, <2>1 DEF TypeOK
    <2>3. WritersHold'
      BY <1>1, <1>2, <2>1, <2>2 DEF PushesOK, WritersHold
    <2>4. PendingOwns'
      BY <1>2, <2>1, <2>2 DEF PushesOK, PendingOwns, Fresh
    <2>5. WorkFrom(Newest)'
      BY <1>2, <2>2 DEF PushesOK, WorkFrom
    <2>6. QED
      BY <1>2, <2>2, <2>3, <2>4, <2>5 DEF PushesOK
  <1>4. CASE UnlockSent(c, r)
    <2>1. /\ status[c] = "held" /\ ~Writing(c)
          /\ UNCHANGED <<base, ownId>>
          /\ status' = [status EXCEPT ![c] = "unlocking"]
          /\ \A q \in Requests : req'[q] = req[q] \/ req'[q].id = ownId[c]
      BY <1>1, <1>4 DEF UnlockSent, SendUnlock, Arrive, TypeOK, stateVars
    <2>2. \A d \in Clients : status'[d] = IF d = c THEN "unlocking" ELSE status[d]
      BY <1>1, <2>1 DEF TypeOK
    <2>3. ~ \E w \in Writes : Pending(w)
      BY <1>1, <2>1, HolderIsWriter
    <2>4. WritersHold'
      BY <1>1, <1>2, <2>1, <2>2 DEF PushesOK, WritersHold
    <2>5. PendingOwns'
      BY <1>2, <2>3 DEF PendingOwns
    <2>6. WorkFrom(Newest)'
      BY <1>2, <2>1, <2>2 DEF PushesOK, WorkFrom
    <2>7. QED
      BY <1>2, <2>1, <2>2, <2>4, <2>5, <2>6 DEF PushesOK
  <1>5. QED
    BY <1>3, <1>4

\* A client that dies leaves its push behind, with an identifier nobody has.
LEMMA DeathKeepsPushes ==
  ASSUME LockInv, Undisturbed, VersionsInv, PushesOK, NEW c \in Clients, ClientStops(c)
  PROVE  PushesOK'
  <1> USE NullsAssumption DEF Pending, Pruning, Writing
  <1>1. /\ TypeOK /\ IdsOK /\ base \in [Clients -> 0..NotRead]
        /\ wreq \in [Writes -> WRequest]
    BY DEF LockInv, VersionsInv, VersionsTypeOK
  <1>2. UNCHANGED <<versions, lockId>> /\ Newest' = Newest /\ NotRead' = NotRead
    BY DEF ClientStops, ClientDies, lockVars, Newest, NotRead
  <1>3. /\ \A d \in Clients :
              /\ status'[d] = IF d = c THEN "idle" ELSE status[d]
              /\ ownId'[d] = IF d = c THEN NoLock ELSE ownId[d]
              /\ base'[d] = IF d = c THEN NotRead ELSE base[d]
        /\ \A q \in Requests : req'[q].op = req[q].op /\ req'[q].id = req[q].id
    BY <1>1 DEF ClientStops, ClientDies, Abandoned, TypeOK, Request
  <1>4. \A w \in Writes :
           /\ wreq'[w].step = wreq[w].step
           /\ wreq'[w].serial = wreq[w].serial
           /\ wreq'[w].id = wreq[w].id
           /\ wreq'[w].client = IF wreq[w].client = c THEN NoClient ELSE wreq[w].client
    BY <1>1 DEF ClientStops, WRequest
  <1>5. WritersHold'
    BY <1>1, <1>3, <1>4 DEF PushesOK, WritersHold, WRequest
  <1>6. PendingOwns'
    <2> SUFFICES ASSUME NEW w \in Writes, Pending(w)
                 PROVE  /\ lockId = wreq[w].id /\ wreq[w].id \in LockIds
                        /\ \A q \in Requests : req[q].op = "unlock" => req[q].id # wreq[w].id
                        /\ wreq[w].client \in {c, NoClient} =>
                             \A d \in Clients : d # c => ownId[d] # wreq[w].id
      BY <1>2, <1>3, <1>4 DEF PendingOwns
    <2>1. wreq[w].client = c => ownId[c] = lockId /\ lockId # NoLock
      BY <1>1 DEF PushesOK, WritersHold, PendingOwns, Undisturbed, Holders
    <2>2. QED
      BY <1>1, <2>1 DEF PushesOK, PendingOwns, IdsOK
  <1>7. WorkFrom(Newest)'
    <2>1. \A d \in Clients : Writing(d) /\ d # c => Writing(d)'
      BY <1>4
    <2>2. QED
      BY <1>2, <1>3, <1>4, <2>1 DEF PushesOK, WorkFrom
  <1>8. QED
    BY <1>2, <1>3, <1>4, <1>5, <1>6, <1>7 DEF PushesOK

\* A restart drops every push; a client that waited for one has to read again.
LEMMA RestartKeepsPushes ==
  ASSUME LockInv, PushesOK, ServerRestarts
  PROVE  PushesOK'
  <1> USE NullsAssumption DEF Pending, Pruning, Writing
  <1>1. Newest' = Newest /\ NotRead' = NotRead
    BY DEF ServerRestarts, Newest, NotRead
  <1>2. \A w \in Writes : wreq'[w].step = "free" /\ wreq'[w].client = NoClient
    BY DEF ServerRestarts, WFree
  <1>3. \A c \in Clients :
           /\ status'[c] = "held" => status[c] = "held"
           /\ status'[c] # "locking"
           /\ base'[c] = IF Writing(c) THEN NotRead ELSE base[c]
    BY DEF ServerRestarts, ServerCrash
  <1>4. WritersHold' /\ PendingOwns'
    BY <1>2 DEF WritersHold, PendingOwns
  <1>5. WorkFrom(Newest)'
    BY <1>1, <1>2, <1>3 DEF PushesOK, WorkFrom
  <1>6. QED
    BY <1>2, <1>3, <1>4, <1>5 DEF PushesOK

\* What has happened stays in the history.
LEMMA HistoryGrows ==
  ASSUME [StateNext]_allVars, ~disturbed', ~bypassed', VersionsTypeOK, TypeOK
  PROVE  ~disturbed /\ ~bypassed
  <1> USE DEF stateVars, vars, history, clientVars, lockVars
  <1>1. ASSUME LockStep, UNCHANGED stateVars
        PROVE  ~disturbed /\ ~bypassed
    <2>1. ASSUME NEW r \in Requests, Handler(r)
          PROVE  disturbed' = disturbed
      <3>1. Ended(r) \/ Granted(r) \/ Goto(r, "insert") \/ Goto(r, "delete") \/ Goto(r, "reclaim")
        BY <2>1 DEF Handler, LockRead, LockReclaim, LockInsert, LockConflict, UnlockRead,
                    ForceUnlockRead, DeleteRow
      <3>2. QED
        BY <3>1 DEF Ended, Granted, Goto
    <2>2. ASSUME NEW c \in Clients, NEW r \in Requests, Retry(c, r)
          PROVE  disturbed => disturbed'
      BY <2>2 DEF Retry
    <2>3. bypassed' = bypassed
      BY <1>1
    <2>4. QED
      BY <1>1, <2>1, <2>2, <2>3 DEF LockStep, SendForceUnlock, LeaseRunsOut
  <1>2. ASSUME NEW w \in Writes, WHandler(w)
        PROVE  ~disturbed /\ ~bypassed
    BY <1>2 DEF WHandler, PushCheck, PushInsert, PushConflict, PruneSelect, PruneDelete,
                PruneFails, RollbackPull, RollbackBump
  <1>3. QED
    BY <1>1, <1>2 DEF StateNext, allVars, LockSent, UnlockSent, SendLock, SendUnlock, Pull,
       ClientStops, ClientDies, ServerRestarts, ServerCrash, SendPush, SendRollback, DeleteState

\* PushesInv is inductive, given LockInv and VersionsInv.
LEMMA PushesStep ==
  ASSUME LockInv, VersionsInv, PushesInv, [StateNext]_allVars
  PROVE  PushesInv'
  <1> SUFFICES ASSUME ~disturbed', ~bypassed'
               PROVE  PushesOK'
    BY DEF PushesInv
  <1>1. ~disturbed /\ ~bypassed
    BY HistoryGrows DEF LockInv, VersionsInv
  <1>2. PushesOK /\ Undisturbed
    BY <1>1 DEF PushesInv, LockInv
  <1>3. CASE LockStep /\ UNCHANGED stateVars
    BY <1>2, <1>3, LockKeepsPushes
  <1>4. ASSUME NEW c \in Clients, NEW r \in Requests, LockSent(c, r) \/ UnlockSent(c, r)
        PROVE  PushesOK'
    BY <1>2, <1>4, RequestsKeepPushes
  <1>5. ASSUME NEW c \in Clients, Pull(c)
        PROVE  PushesOK'
    BY <1>2, <1>5, ClientsKeepPushes
  <1>6. ASSUME NEW c \in Clients, ClientStops(c)
        PROVE  PushesOK'
    BY <1>2, <1>6, DeathKeepsPushes
  <1>7. CASE ServerRestarts
    BY <1>2, <1>7, RestartKeepsPushes
  <1>8. ASSUME NEW c \in Clients, NEW w \in Writes, SendPush(c, w)
        PROVE  PushesOK'
    BY <1>2, <1>8, ClientsKeepPushes
  <1>9. ASSUME NEW w \in Writes, SendRollback(w) \/ WHandler(w)
        PROVE  PushesOK'
    BY <1>2, <1>9, ClientsKeepPushes, HandlersKeepPushes
  <1>10. CASE DeleteState
    BY <1>2, <1>10, ClientsKeepPushes
  <1>11. CASE UNCHANGED allVars
    BY <1>2, <1>11 DEF PushesOK, WritersHold, PendingOwns, WorkFrom, Newest, NotRead, Pending,
       Pruning, Writing, allVars, vars, stateVars, lockVars, clientVars
  <1>12. QED
    BY <1>3, <1>4, <1>5, <1>6, <1>7, <1>8, <1>9, <1>10, <1>11 DEF StateNext

\* While everybody who changes the state takes the lock, and until a lease runs
\* out or a lock is broken, a push that has passed its check extends the newest
\* version: no update is lost, none is refused (push_state).
THEOREM LockedPushExtendsNewestAlways == StateSpec => []LockedPushExtendsNewest
  <1>1. StateInit => PushesInv
    BY DEF StateInit, Init, WFree, PushesInv, PushesOK, WritersHold, PendingOwns, WorkFrom,
           Pending, Pruning
  <1>2. PushesInv => LockedPushExtendsNewest
    BY DEF PushesInv, PushesOK, WorkFrom, Pending, LockedPushExtendsNewest
  <1>3. QED
    BY <1>1, <1>2, PushesStep, StateSpecLock, LockInvariance, VersionsInvariance, PTL
       DEF StateSpec
=============================================================================

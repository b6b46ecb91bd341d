---------------------------- MODULE VCSRunsProofs ----------------------------
(***************************************************************************)
(* Proofs about the plans started from GitHub, for any number of           *)
(* deliveries, copies of them, requests of the webhook, commits and runs   *)
(* at a time, and every set of faults.                                     *)
(***************************************************************************)
EXTENDS VCSRuns, TLAPS

(***************************************************************************)
(* The inductive invariant.                                                *)
(***************************************************************************)
\* What has been sent, received or dispatched has an event, which stays.
EventsKnown ==
  \A d \in Deliveries :
    /\ wire[d] <= copies[d]
    /\ copies[d] > 0 => event[d] # NoEvent
    /\ task[d] # "none" => event[d] # NoEvent
    /\ \A r \in Receivers : receiving[r] = d => event[d] # NoEvent

\* A delivery that is not on record has not been dispatched.
DispatchedOnRecord ==
  \A d \in Deliveries :
    /\ dispatched[d] <= 1
    /\ d \notin recorded => dispatched[d] = 0 /\ task[d] = "none"

\* Only the run of an opened pull request talks of it to GitHub.
Reporting == {"pending", "find_comment", "post_comment", "update_comment", "final"}
ReportsArePullRequests ==
  \A d \in Deliveries : task[d] \in Reporting => Speculative(d)

\* PendingIsOwned alone is not inductive: the plan of a push, which settles
\* nothing, could be the owner it speaks of.
Settling == {"plan", "find_comment", "post_comment", "update_comment", "final"}
Owns(d, c) ==
  /\ event[d] # NoEvent /\ event[d].commit = c
  /\ (task[d] \in Settling /\ Speculative(d)) \/ d \in vcsLost
PendingIsOwnedByPullRequest ==
  \A c \in Commits : commitStatus[c] = "pending" => \E d \in Deliveries : Owns(d, c)

VCSInv ==
  /\ VCSTypeOK /\ EventsKnown /\ DispatchedOnRecord
  /\ ReportsArePullRequests /\ PendingIsOwnedByPullRequest

-----------------------------------------------------------------------------
\* An event that is known has a commit and a kind.
LEMMA KnownEvent ==
  ASSUME NEW e \in Event
  PROVE  e.commit \in Commits /\ e.kind # "none" /\ e # NoEvent
  BY DEF Event, PullRequest, Push, Ignored, NoEvent

\* A task that owns a commit keeps it while events, its stage and what is lost
\* stay as they are.
LEMMA OwnersStay ==
  ASSUME PendingIsOwnedByPullRequest,
         \A c \in Commits : commitStatus'[c] = "pending" => commitStatus[c] = "pending",
         \A d \in Deliveries, c \in Commits : commitStatus'[c] = "pending" /\ Owns(d, c) => Owns(d, c)'
  PROVE  PendingIsOwnedByPullRequest'
  BY DEF PendingIsOwnedByPullRequest

LEMMA InitVCSInv == VCSInit => VCSInv
  <1> SUFFICES ASSUME VCSInit PROVE VCSInv
    OBVIOUS
  <1> USE DEF VCSInit
  <1>1. VCSTypeOK
    <2>1. /\ connection \in Connections /\ event \in [Deliveries -> Event \cup {NoEvent}]
          /\ receiving \in [Receivers -> Deliveries \cup {Nobody}]
      BY DEF Connections
    <2>2. copies \in [Deliveries -> 0..MaxCopies] /\ wire \in [Deliveries -> 0..MaxCopies]
      BY VCSBounds
    <2>3. /\ commitStatus \in [Commits -> {"none", "pending", "failure"}]
          /\ task \in [Deliveries -> Stages]
      BY DEF Stages
    <2>4. comments \in 0..MaxComments /\ dispatched \in [Deliveries -> Nat]
      BY VCSBounds
    <2> QED
      BY <2>1, <2>2, <2>3, <2>4 DEF VCSTypeOK, RecordedDeliveries
  <1>2. EventsKnown
    BY NobodyAssumption DEF EventsKnown, Nobody
  <1>3. DispatchedOnRecord /\ ReportsArePullRequests /\ PendingIsOwnedByPullRequest
    BY DEF DispatchedOnRecord, ReportsArePullRequests, Reporting, PendingIsOwnedByPullRequest
  <1> QED
    BY <1>1, <1>2, <1>3 DEF VCSInv

-----------------------------------------------------------------------------
\* A step that only moves the task of one delivery, to a stage it may be in.
LEMMA TypesOfTask ==
  ASSUME VCSTypeOK, NEW d \in Deliveries, NEW s \in Stages, Goto(d, s)
  PROVE  task' \in [Deliveries -> Stages]
  BY DEF VCSTypeOK, Goto

\* Connections touch nothing else.
LEMMA ConnectionsKeep ==
  ASSUME VCSInv, connection' \in Connections,
         UNCHANGED <<github, server, recorded, vcsJobs, dispatched, vcsLost>>
  PROVE  VCSInv'
  <1> USE DEF github, server
  <1>1. VCSTypeOK'
    BY DEF VCSInv, VCSTypeOK, RecordedDeliveries
  <1>2. EventsKnown' /\ DispatchedOnRecord'
    BY DEF VCSInv, EventsKnown, DispatchedOnRecord
  <1>3. ReportsArePullRequests' /\ PendingIsOwnedByPullRequest'
    BY DEF VCSInv, ReportsArePullRequests, PendingIsOwnedByPullRequest, Owns, Speculative
  <1> QED
    BY <1>1, <1>2, <1>3 DEF VCSInv

LEMMA DeliverKeeps ==
  ASSUME VCSInv, NEW d \in Deliveries, NEW e \in Event, Deliver(d, e)
  PROVE  VCSInv'
  <1> USE DEF server, tables
  <1>1. VCSTypeOK
    BY DEF VCSInv
  <1>2. copies[d] \in 0..MaxCopies /\ copies[d] < MaxCopies /\ wire[d] \in 0..MaxCopies /\ wire[d] <= copies[d]
    BY <1>1 DEF VCSInv, VCSTypeOK, Deliver, EventsKnown
  <1>3. copies[d] + 1 \in 0..MaxCopies /\ wire[d] + 1 \in 0..MaxCopies /\ wire[d] + 1 <= copies[d] + 1
    BY <1>2, VCSBounds
  <1>4. VCSTypeOK'
    <2>1. event' \in [Deliveries -> Event \cup {NoEvent}]
      BY <1>1 DEF VCSTypeOK, Deliver
    <2>2. copies' \in [Deliveries -> 0..MaxCopies] /\ wire' \in [Deliveries -> 0..MaxCopies]
      BY <1>1, <1>3 DEF VCSTypeOK, Deliver
    <2> QED
      BY <1>1, <2>1, <2>2 DEF VCSTypeOK, Deliver, Connections, RecordedDeliveries
  <1>5. \A x \in Deliveries : event'[x] = event[x] \/ (event[x] = NoEvent /\ x = d /\ event'[x] = e)
    BY <1>1 DEF VCSTypeOK, Deliver
  <1>6. e # NoEvent
    BY KnownEvent
  <1>7. EventsKnown'
    <2> SUFFICES ASSUME NEW x \in Deliveries
                 PROVE  /\ wire'[x] <= copies'[x]
                        /\ copies'[x] > 0 => event'[x] # NoEvent
                        /\ task'[x] # "none" => event'[x] # NoEvent
                        /\ \A r \in Receivers : receiving'[r] = x => event'[x] # NoEvent
      BY DEF EventsKnown
    <2>1. CASE x = d
      <3>1. event'[d] # NoEvent
        BY <1>1, <1>6 DEF VCSTypeOK, Deliver
      <3>2. wire'[d] = wire[d] + 1 /\ copies'[d] = copies[d] + 1
        BY <1>1 DEF VCSTypeOK, Deliver
      <3> QED
        BY <1>3, <2>1, <3>1, <3>2
    <2>2. CASE x # d
      <3>1. wire'[x] = wire[x] /\ copies'[x] = copies[x] /\ event'[x] = event[x]
        BY <1>1, <2>2 DEF VCSTypeOK, Deliver
      <3> QED
        BY <3>1 DEF VCSInv, EventsKnown, Deliver
    <2> QED
      BY <2>1, <2>2
  <1>8. DispatchedOnRecord'
    BY DEF VCSInv, DispatchedOnRecord, Deliver
  <1>9. ReportsArePullRequests'
    <2> SUFFICES ASSUME NEW x \in Deliveries, task[x] \in Reporting PROVE Speculative(x)'
      BY DEF ReportsArePullRequests, Deliver
    <2>1. event[x] # NoEvent
      BY DEF VCSInv, EventsKnown, Reporting
    <2> QED
      BY <1>5, <2>1 DEF VCSInv, ReportsArePullRequests, Speculative
  <1>10. PendingIsOwnedByPullRequest'
    BY <1>5, OwnersStay DEF VCSInv, Owns, Speculative, Deliver
  <1> QED
    BY <1>4, <1>7, <1>8, <1>9, <1>10 DEF VCSInv

\* A copy that arrives is found on record and forgotten, or received.
LEMMA ReceiveKeeps ==
  ASSUME VCSInv, NEW r \in Receivers, NEW d \in Deliveries, Receive(r, d)
  PROVE  VCSInv'
  <1> USE DEF tables
  <1>1. VCSTypeOK
    BY DEF VCSInv
  <1>2. wire[d] \in 0..MaxCopies /\ wire[d] > 0 /\ copies[d] \in 0..MaxCopies /\ wire[d] <= copies[d]
    BY <1>1 DEF VCSInv, VCSTypeOK, Receive, EventsKnown
  <1>3. /\ wire[d] - 1 \in 0..MaxCopies /\ wire[d] - 1 <= copies[d] /\ copies[d] > 0
    BY <1>2, VCSBounds
  <1>4. event[d] # NoEvent
    BY <1>3 DEF VCSInv, EventsKnown
  <1>5. VCSTypeOK'
    BY <1>1, <1>3 DEF VCSTypeOK, Receive, Connections, RecordedDeliveries
  <1>6. EventsKnown'
    <2> SUFFICES ASSUME NEW x \in Deliveries
                 PROVE  /\ wire'[x] <= copies'[x]
                        /\ \A q \in Receivers : receiving'[q] = x => event[x] # NoEvent
      BY DEF EventsKnown, VCSInv, Receive
    <2>1. wire'[x] = IF x = d THEN wire[d] - 1 ELSE wire[x]
      BY <1>1 DEF VCSTypeOK, Receive
    <2>2. \A q \in Receivers : receiving'[q] = x => receiving[q] = x \/ x = d
      BY <1>1 DEF VCSTypeOK, Receive
    <2> QED
      BY <1>3, <1>4, <2>1, <2>2 DEF VCSInv, EventsKnown, Receive
  <1>7. DispatchedOnRecord' /\ ReportsArePullRequests' /\ PendingIsOwnedByPullRequest'
    BY DEF VCSInv, DispatchedOnRecord, ReportsArePullRequests, PendingIsOwnedByPullRequest, Owns,
           Speculative, Receive
  <1> QED
    BY <1>5, <1>6, <1>7 DEF VCSInv

\* A delivery that is recorded has never been dispatched before.
LEMMA RecordDeliveryKeeps ==
  ASSUME VCSInv, NEW r \in Receivers, RecordDelivery(r)
  PROVE  VCSInv'
  <1> DEFINE d == receiving[r]
             s == IF event[d].kind = "ignored" THEN "over" ELSE "find"
  <1> USE DEF github
  <1>1. VCSTypeOK /\ d \in Deliveries /\ d \notin recorded
    BY DEF VCSInv, RecordDelivery
  <1>2. event[d] # NoEvent /\ dispatched[d] = 0 /\ task[d] = "none"
    BY <1>1 DEF VCSInv, EventsKnown, DispatchedOnRecord
  <1>3. task' = [task EXCEPT ![d] = s] /\ dispatched' = [dispatched EXCEPT ![d] = @ + 1]
    BY DEF RecordDelivery, Dispatch
  <1>4. s \in Stages /\ s \notin Reporting /\ s # "none"
    BY DEF Stages, Reporting
  <1> HIDE DEF d, s
  <1>5. VCSTypeOK'
    <2>1. task' \in [Deliveries -> Stages] /\ dispatched' \in [Deliveries -> Nat]
      BY <1>1, <1>3, <1>4 DEF VCSTypeOK
    <2>2. recorded' \in RecordedDeliveries /\ receiving' \in [Receivers -> Deliveries \cup {Nobody}]
      BY <1>1 DEF VCSTypeOK, RecordDelivery, RecordedDeliveries, d
    <2> QED
      BY <1>1, <2>1, <2>2 DEF VCSTypeOK, RecordDelivery
  <1>6. EventsKnown'
    <2>1. \A x \in Deliveries : task'[x] # "none" => task[x] # "none" \/ x = d
      BY <1>1, <1>3 DEF VCSTypeOK
    <2>2. \A q \in Receivers : receiving'[q] = receiving[q] \/ receiving'[q] = Nobody
      BY <1>1 DEF VCSTypeOK, RecordDelivery
    <2>3. Nobody \notin Deliveries
      BY NobodyAssumption DEF Nobody
    <2> QED
      BY <1>2, <2>1, <2>2, <2>3 DEF VCSInv, EventsKnown, RecordDelivery
  <1>7. DispatchedOnRecord'
    <2> SUFFICES ASSUME NEW x \in Deliveries
                 PROVE  /\ dispatched'[x] <= 1
                        /\ x \notin recorded' => dispatched'[x] = 0 /\ task'[x] = "none"
      BY DEF DispatchedOnRecord
    <2>1. CASE x = d
      <3>1. x \in recorded'
        BY <2>1 DEF RecordDelivery, d
      <3>2. dispatched'[x] = 1
        BY <1>1, <1>2, <1>3, <2>1 DEF VCSTypeOK
      <3> QED
        BY <3>1, <3>2
    <2>2. CASE x # d
      <3>1. dispatched'[x] = dispatched[x] /\ task'[x] = task[x]
        BY <1>1, <1>3, <2>2 DEF VCSTypeOK
      <3> QED
        BY <3>1 DEF VCSInv, DispatchedOnRecord, RecordDelivery
    <2> QED
      BY <2>1, <2>2
  <1>8. \A x \in Deliveries : task'[x] = task[x] \/ (x = d /\ task'[x] = s)
    BY <1>1, <1>3 DEF VCSTypeOK
  <1>9. ReportsArePullRequests'
    BY <1>4, <1>8 DEF VCSInv, ReportsArePullRequests, Speculative, RecordDelivery
  <1>10. PendingIsOwnedByPullRequest'
    <2>1. \A x \in Deliveries, c \in Commits : Owns(x, c) => Owns(x, c)'
      BY <1>2, <1>8 DEF Owns, Settling, Speculative, RecordDelivery
    <2> QED
      BY <2>1, OwnersStay DEF VCSInv, RecordDelivery
  <1> QED
    BY <1>5, <1>6, <1>7, <1>9, <1>10 DEF VCSInv

\* A step of the task of d to the stage s.  Beside the types it has to keep two
\* promises: to report only on pull requests, and not to leave a commit pending
\* that it owns.
LEMMA TaskKeeps ==
  ASSUME VCSInv, NEW d \in Deliveries, NEW s \in Stages, Goto(d, s), task[d] # "none",
         UNCHANGED <<connection, event, copies, wire, receiving, recorded, dispatched>>,
         token' \in BOOLEAN, comments' \in 0..MaxComments, vcsJobs' \subseteq Deliveries,
         commitStatus' \in [Commits -> {"none", "pending", "failure"}],
         vcsLost \subseteq vcsLost', vcsLost' \subseteq Deliveries,
         s \in Reporting => Speculative(d),
         \A c \in Commits : commitStatus'[c] = "pending" =>
           commitStatus[c] = "pending" \/ (event[d].commit = c /\ s \in Settling /\ Speculative(d)),
         task[d] \in Settling /\ Speculative(d) =>
           \/ s \in Settling \/ d \in vcsLost'
           \/ commitStatus'[event[d].commit] # "pending"
  PROVE  VCSInv'
  <1>1. VCSTypeOK /\ task' = [task EXCEPT ![d] = s] /\ event[d] # NoEvent
    BY DEF VCSInv, Goto, EventsKnown
  <1>2. VCSTypeOK'
    BY <1>1, TypesOfTask DEF VCSTypeOK, RecordedDeliveries, Connections
  <1>3. \A x \in Deliveries : task'[x] = task[x] \/ (x = d /\ task'[x] = s)
    BY <1>1 DEF VCSTypeOK
  <1>4. EventsKnown'
    BY <1>1, <1>3 DEF VCSInv, EventsKnown
  <1>5. DispatchedOnRecord'
    BY <1>3 DEF VCSInv, DispatchedOnRecord
  <1>6. ReportsArePullRequests'
    BY <1>3 DEF VCSInv, ReportsArePullRequests, Speculative
  <1>7. ASSUME NEW c \in Commits, commitStatus'[c] = "pending"
        PROVE  \E x \in Deliveries : Owns(x, c)'
    <2>1. CASE commitStatus[c] = "pending"
      <3>1. PICK x \in Deliveries : Owns(x, c)
        BY <2>1 DEF VCSInv, PendingIsOwnedByPullRequest
      <3>2. Owns(x, c)'
        BY <1>3, <1>7, <3>1 DEF Owns, Speculative
      <3> QED
        BY <3>2
    <2>2. CASE event[d].commit = c /\ s \in Settling /\ Speculative(d)
      <3>1. Owns(d, c)'
        BY <1>1, <2>2 DEF Owns, Speculative, VCSTypeOK
      <3> QED
        BY <3>1
    <2> QED
      BY <1>7, <2>1, <2>2
  <1>8. PendingIsOwnedByPullRequest'
    BY <1>7 DEF PendingIsOwnedByPullRequest
  <1> QED
    BY <1>2, <1>4, <1>5, <1>6, <1>8 DEF VCSInv

\* The steps of a task.
LEMMA TaskStepKeeps ==
  ASSUME VCSInv, NEW d \in Deliveries, VCSTask(d) \/ CallFails(d) \/ CommentFails(d)
  PROVE  VCSInv'
  <1> USE DEF github, tables, Reporting, Settling, Stages, Holding
  <1>1. VCSTypeOK /\ (task[d] \in Reporting => Speculative(d))
    BY DEF VCSInv, ReportsArePullRequests
  <1>2. event[d] # NoEvent <=> event[d] \in Event
    BY <1>1, KnownEvent DEF VCSTypeOK
  <1>3. event[d] # NoEvent => event[d].commit \in Commits
    BY <1>2, KnownEvent
  <1>4. task[d] # "none" => event[d] # NoEvent
    BY DEF VCSInv, EventsKnown
  <1>5. CASE FindConnection(d)
    <2> DEFINE s == IF Matching(event[d]) = {} THEN "over" ELSE "queued"
    <2>1. s \in Stages /\ s \notin Reporting /\ Goto(d, s)
      BY <1>5 DEF FindConnection
    <2> HIDE DEF s
    <2> QED
      BY <1>1, <1>5, <2>1, TaskKeeps DEF FindConnection, VCSTypeOK
  <1>6. CASE Enter(d)
    BY <1>1, <1>6, TaskKeeps DEF Enter, VCSTypeOK
  <1>7. CASE GetToken(d)
    <2>1. CASE Speculative(d)
      BY <1>1, <1>7, <2>1, TaskKeeps DEF GetToken, VCSTypeOK
    <2>2. CASE ~Speculative(d)
      BY <1>1, <1>7, <2>2, TaskKeeps DEF GetToken, VCSTypeOK
    <2> QED
      BY <2>1, <2>2
  <1>8. CASE PostPending(d)
    <2>1. commitStatus' \in [Commits -> {"none", "pending", "failure"}]
      BY <1>1, <1>8 DEF PostPending, VCSTypeOK
    <2>2. \A c \in Commits : commitStatus'[c] = "pending" => commitStatus[c] = "pending" \/ event[d].commit = c
      BY <1>1, <1>8 DEF PostPending, VCSTypeOK
    <2>3. Goto(d, "plan") /\ task[d] = "pending"
      BY <1>8 DEF PostPending
    <2> QED
      BY <1>1, <1>8, <2>1, <2>2, <2>3, TaskKeeps DEF PostPending, VCSTypeOK
  <1>9. CASE PlanFails(d)
    <2>1. CASE Speculative(d)
      BY <1>1, <1>9, <2>1, TaskKeeps DEF PlanFails, VCSTypeOK
    <2>2. CASE ~Speculative(d)
      BY <1>1, <1>9, <2>2, TaskKeeps DEF PlanFails, VCSTypeOK
    <2> QED
      BY <2>1, <2>2
  <1>10. CASE FindComment(d)
    <2>1. CASE comments > 0
      BY <1>1, <1>10, <2>1, TaskKeeps DEF FindComment, VCSTypeOK
    <2>2. CASE ~(comments > 0)
      BY <1>1, <1>10, <2>2, TaskKeeps DEF FindComment, VCSTypeOK
    <2> QED
      BY <2>1, <2>2
  <1>11. CASE PostComment(d)
    <2>1. comments' \in 0..MaxComments
      BY <1>1, <1>11, VCSBounds DEF PostComment, VCSTypeOK
    <2> QED
      BY <1>1, <1>11, <2>1, TaskKeeps DEF PostComment, VCSTypeOK
  <1>12. CASE PostFinal(d)
    <2>1. commitStatus' \in [Commits -> {"none", "pending", "failure"}]
      BY <1>1, <1>12 DEF PostFinal, VCSTypeOK
    <2>2. \A c \in Commits : commitStatus'[c] = "pending" => commitStatus[c] = "pending"
      BY <1>1, <1>12 DEF PostFinal, VCSTypeOK
    <2>3. commitStatus'[event[d].commit] = "failure"
      BY <1>1, <1>3, <1>4, <1>12 DEF PostFinal, VCSTypeOK
    <2> QED
      BY <1>1, <1>12, <2>1, <2>2, <2>3, TaskKeeps DEF PostFinal, VCSTypeOK
  <1>13. CASE RecordRun(d)
    BY <1>1, <1>13, TaskKeeps DEF RecordRun, VCSTypeOK
  <1>14. CASE CallFails(d)
    BY <1>1, <1>14, TaskKeeps DEF CallFails, VCSTypeOK
  <1>15. CASE CommentFails(d)
    BY <1>1, <1>15, TaskKeeps DEF CommentFails, VCSTypeOK
  <1> QED
    BY <1>5, <1>6, <1>7, <1>8, <1>9, <1>10, <1>11, <1>12, <1>13, <1>14, <1>15 DEF VCSTask

\* A restart ends every task, and what was under way is lost.
LEMMA RestartKeeps ==
  ASSUME VCSInv, ServerRestart
  PROVE  VCSInv'
  <1> USE DEF github, tables
  <1>1. VCSTypeOK
    BY DEF VCSInv
  <1>2. \A d \in Deliveries : task'[d] = IF task[d] = "none" THEN "none" ELSE "over"
    BY DEF ServerRestart
  <1>3. VCSTypeOK'
    <2>1. task' \in [Deliveries -> Stages] /\ receiving' \in [Receivers -> Deliveries \cup {Nobody}]
      BY DEF ServerRestart, Stages
    <2> QED
      BY <1>1, <2>1 DEF VCSTypeOK, ServerRestart, RecordedDeliveries, Connections
  <1>4. EventsKnown'
    <2>1. \A r \in Receivers : receiving'[r] \notin Deliveries
      BY NobodyAssumption DEF ServerRestart, Nobody
    <2> QED
      BY <1>2, <2>1 DEF VCSInv, EventsKnown, ServerRestart
  <1>5. DispatchedOnRecord' /\ ReportsArePullRequests'
    BY <1>2 DEF VCSInv, DispatchedOnRecord, ReportsArePullRequests, Reporting, ServerRestart
  <1>6. \A d \in Deliveries, c \in Commits : Owns(d, c) => Owns(d, c)'
    BY DEF Owns, Settling, ServerRestart
  <1>7. PendingIsOwnedByPullRequest'
    BY <1>6, OwnersStay DEF VCSInv, ServerRestart
  <1> QED
    BY <1>3, <1>4, <1>5, <1>7 DEF VCSInv

\* What changes nothing but requests that are given up, or the token.
LEMMA ForgettingKeeps ==
  ASSUME VCSInv, receiving' \in [Receivers -> Deliveries \cup {Nobody}], token' \in BOOLEAN,
         \A r \in Receivers : receiving'[r] \in {receiving[r], Nobody},
         UNCHANGED <<github, task, tables, dispatched, vcsLost>>
  PROVE  VCSInv'
  <1> USE DEF github, tables
  <1>1. VCSTypeOK'
    BY DEF VCSInv, VCSTypeOK, RecordedDeliveries, Connections
  <1>2. EventsKnown'
    BY NobodyAssumption DEF VCSInv, EventsKnown, Nobody
  <1>3. DispatchedOnRecord' /\ ReportsArePullRequests' /\ PendingIsOwnedByPullRequest'
    BY DEF VCSInv, DispatchedOnRecord, ReportsArePullRequests, PendingIsOwnedByPullRequest, Owns, Speculative
  <1> QED
    BY <1>1, <1>2, <1>3 DEF VCSInv

LEMMA NextVCSInv == VCSInv /\ [VCSNext]_vcsVars => VCSInv'
  <1> SUFFICES ASSUME VCSInv, [VCSNext]_vcsVars PROVE VCSInv'
    OBVIOUS
  <1>1. VCSTypeOK
    BY DEF VCSInv
  <1>2. ASSUME NEW w \in Workspaces, NEW b \in Branches, ConnectVCS(w, b) \/ UpdateVCS(w, b)
        PROVE  VCSInv'
    BY <1>1, <1>2, ConnectionsKeep DEF ConnectVCS, UpdateVCS, VCSTypeOK, Connections
  <1>3. ASSUME NEW w \in Workspaces, DisconnectVCS(w) PROVE VCSInv'
    BY <1>1, <1>3, ConnectionsKeep DEF DisconnectVCS, VCSTypeOK, Connections
  <1>4. ASSUME NEW d \in Deliveries, NEW e \in Event, Deliver(d, e) PROVE VCSInv'
    BY <1>4, DeliverKeeps
  <1>5. ASSUME NEW r \in Receivers, NEW d \in Deliveries, Receive(r, d) PROVE VCSInv'
    BY <1>5, ReceiveKeeps
  <1>6. ASSUME NEW r \in Receivers, RecordDelivery(r) PROVE VCSInv'
    BY <1>6, RecordDeliveryKeeps
  <1>7. ASSUME NEW r \in Receivers, RecordConflict(r) PROVE VCSInv'
    BY <1>1, <1>7, ForgettingKeeps DEF RecordConflict, VCSTypeOK
  <1>8. ASSUME NEW d \in Deliveries, VCSTask(d) \/ CallFails(d) \/ CommentFails(d) PROVE VCSInv'
    BY <1>8, TaskStepKeeps
  <1>9. CASE TokenExpires
    BY <1>1, <1>9, ForgettingKeeps DEF TokenExpires, VCSTypeOK
  <1>10. CASE ServerRestart
    BY <1>10, RestartKeeps
  <1>11. CASE UNCHANGED vcsVars
    BY <1>1, <1>11, ForgettingKeeps DEF vcsVars, server, VCSTypeOK
  <1> QED
    BY <1>2, <1>3, <1>4, <1>5, <1>6, <1>7, <1>8, <1>9, <1>10, <1>11 DEF VCSNext

-----------------------------------------------------------------------------
\* The tables, the tasks and what GitHub keeps are what they are declared to be.
THEOREM VCSTypesHold == VCSSpec => []VCSTypeOK
  <1>1. VCSInv => VCSTypeOK
    BY DEF VCSInv
  <1> QED
    BY InitVCSInv, NextVCSInv, <1>1, PTL DEF VCSSpec

\* However often GitHub sends a delivery, it is dispatched at most once.
HandledOnce == \A d \in Deliveries : dispatched[d] <= 1

\* No delivery is dispatched twice, however many copies of it are received at a
\* time and whatever fails or restarts in between.
THEOREM DeliveriesAreHandledOnce == VCSSpec => []HandledOnce
  <1>1. VCSInv => HandledOnce
    BY DEF VCSInv, DispatchedOnRecord, HandledOnce
  <1> QED
    BY InitVCSInv, NextVCSInv, <1>1, PTL DEF VCSSpec

\* A commit that GitHub shows as pending has a run that will settle it, or one
\* of which a step has been lost.
THEOREM PendingCommitsAreOwned == VCSSpec => []PendingIsOwned
  <1>1. VCSInv => PendingIsOwned
    BY DEF VCSInv, PendingIsOwnedByPullRequest, PendingIsOwned, Owns, Settling, Holding
  <1> QED
    BY InitVCSInv, NextVCSInv, <1>1, PTL DEF VCSSpec

-----------------------------------------------------------------------------
(***************************************************************************)
(* Every step is a step of DeliveryLife, or none.  A delivery that has     *)
(* ended as a job, or whose step was lost, has no task that goes on.       *)
(***************************************************************************)
EndedIsOver == \A d \in Deliveries : d \in vcsLost \cup vcsJobs => task[d] = "over"

LifeInv == VCSInv /\ EndedIsOver

\* What LifeStage says of one delivery.
LEMMA StageIs ==
  ASSUME VCSTypeOK, EndedIsOver, NEW d \in Deliveries
  PROVE  /\ LifeStage[d] = "new" <=> task[d] = "none"
         /\ LifeStage[d] = "accepted" <=> task[d] = "find"
         /\ LifeStage[d] = "waiting" <=> task[d] = "queued"
         /\ LifeStage[d] = "running" <=> task[d] \in Holding
         /\ LifeStage[d] = "lost" <=> d \in vcsLost
         /\ LifeStage[d] = "reported" <=> d \in vcsJobs \ vcsLost
         /\ LifeStage[d] = "dropped" <=> task[d] = "over" /\ d \notin vcsJobs \cup vcsLost
  <1>1. task[d] \in Stages /\ "none" \notin Holding /\ "find" \notin Holding
        /\ "queued" \notin Holding /\ "over" \notin Holding
    BY DEF VCSTypeOK, Holding
  <1>2. d \in vcsLost \cup vcsJobs => task[d] = "over"
    BY DEF EndedIsOver
  <1>3. LifeStage[d] =
          IF d \in vcsLost THEN "lost"
          ELSE IF d \in vcsJobs THEN "reported"
          ELSE IF task[d] \in Holding THEN "running"
          ELSE [none |-> "new", find |-> "accepted", queued |-> "waiting", over |-> "dropped"][task[d]]
    BY DEF LifeStage
  <1>4. CASE task[d] \in Holding
    BY <1>1, <1>2, <1>3, <1>4
  <1>5. CASE task[d] \in {"none", "find", "queued", "over"}
    BY <1>1, <1>2, <1>3, <1>5
  <1> QED
    BY <1>1, <1>4, <1>5 DEF Stages

\* A step that changes the task of one delivery alone, and what is lost or
\* recorded of it alone, changes the stage of no other.
LEMMA StageMoves ==
  ASSUME NEW d \in Deliveries, task \in [Deliveries -> Stages],
         NEW s, task' = [task EXCEPT ![d] = s],
         vcsLost' \in {vcsLost, vcsLost \cup {d}}, vcsJobs' \in {vcsJobs, vcsJobs \cup {d}}
  PROVE  LifeStage' = [LifeStage EXCEPT ![d] = LifeStage'[d]]
  <1>1. ASSUME NEW x \in Deliveries, x # d PROVE LifeStage'[x] = LifeStage[x]
    <2>1. task'[x] = task[x] /\ (x \in vcsLost' <=> x \in vcsLost) /\ (x \in vcsJobs' <=> x \in vcsJobs)
      BY <1>1
    <2> QED
      BY <2>1 DEF LifeStage
  <1>2. LifeStage = [x \in Deliveries |-> LifeStage[x]] /\ LifeStage' = [x \in Deliveries |-> LifeStage'[x]]
    BY DEF LifeStage
  <1> QED
    BY <1>1, <1>2

\* A step that changes no task, loses nothing and records no job is none.
LEMMA StageStays ==
  ASSUME UNCHANGED <<task, vcsLost, vcsJobs, dispatched>>
  PROVE  UNCHANGED <<LifeStage, dispatched>>
  BY DEF LifeStage

\* DeliveryLife counts as this module does.
LEMMA SameCount == \A S : Life!Cardinality(S) = Cardinality(S)
  BY DEF Life!Cardinality, Cardinality

\* A step of a task, and one that fails.
LEMMA TaskStepLives ==
  ASSUME LifeInv, NEW d \in Deliveries, VCSTask(d) \/ CallFails(d) \/ CommentFails(d)
  PROVE  EndedIsOver' /\ [Life!Next]_Life!vars
  <1> USE DEF github, tables, Holding
  <1>1. VCSInv /\ VCSTypeOK /\ EndedIsOver /\ VCSTypeOK'
    BY TaskStepKeeps DEF LifeInv, VCSInv
  <1>2. PICK s \in Stages : task' = [task EXCEPT ![d] = s]
    <2>1. Goto(d, IF Matching(event[d]) = {} THEN "over" ELSE "queued") => task' \in {[task EXCEPT ![d] = s] : s \in Stages}
      BY DEF Goto, Stages
    <2>2. \A s \in Stages : Goto(d, s) => task' \in {[task EXCEPT ![d] = x] : x \in Stages}
      BY DEF Goto
    <2>3. {"queued", "token", "pending", "plan", "find_comment", "post_comment", "update_comment", "final", "record", "over"} \subseteq Stages
      BY DEF Stages
    <2>4. task' \in {[task EXCEPT ![d] = x] : x \in Stages}
      BY <2>1, <2>2, <2>3 DEF VCSTask, FindConnection, Enter, GetToken, PostPending, PlanFails, FindComment,
         PostComment, PostFinal, RecordRun, CallFails, CommentFails
    <2> QED
      BY <2>4
  <1>3. /\ task[d] \notin {"none", "over"} /\ d \notin vcsLost \cup vcsJobs
        /\ dispatched' = dispatched
        /\ \/ vcsLost' = vcsLost /\ vcsJobs' = vcsJobs
           \/ vcsLost' = vcsLost \cup {d} /\ vcsJobs' = vcsJobs /\ s = "over"
           \/ vcsLost' = vcsLost /\ vcsJobs' = vcsJobs \cup {d} /\ s = "over"
    <2>1. task[d] \notin {"none", "over"}
      BY DEF VCSTask, FindConnection, Enter, GetToken, PostPending, PlanFails, FindComment,
         PostComment, PostFinal, RecordRun, CallFails, CommentFails
    <2>2. d \notin vcsLost \cup vcsJobs
      BY <1>1, <2>1 DEF EndedIsOver
    <2>3. task'[d] = s
      BY <1>1, <1>2 DEF VCSTypeOK
    <2>4. dispatched' = dispatched
      BY DEF VCSTask, FindConnection, Enter, GetToken, PostPending, PlanFails, FindComment,
         PostComment, PostFinal, RecordRun, CallFails, CommentFails
    <2>5. CASE CallFails(d) \/ RecordRun(d)
      <3>1. task'[d] = "over"
        BY <1>1, <2>5 DEF CallFails, RecordRun, Goto, VCSTypeOK
      <3> QED
        BY <2>1, <2>2, <2>3, <2>4, <2>5, <3>1 DEF CallFails, RecordRun
    <2>6. CASE ~(CallFails(d) \/ RecordRun(d))
      <3>1. vcsLost' = vcsLost /\ vcsJobs' = vcsJobs
        BY <2>6 DEF VCSTask, FindConnection, Enter, GetToken, PostPending, PlanFails, FindComment,
           PostComment, PostFinal, CommentFails
      <3> QED
        BY <2>1, <2>2, <2>4, <3>1
    <2> QED
      BY <2>5, <2>6
  <1>4. EndedIsOver'
    BY <1>1, <1>2, <1>3 DEF EndedIsOver, VCSTypeOK
  <1>5. LifeStage' = [LifeStage EXCEPT ![d] = LifeStage'[d]]
    BY <1>1, <1>2, <1>3, StageMoves DEF VCSTypeOK
  <1>6. /\ LifeStage[d] = IF task[d] = "find" THEN "accepted"
                          ELSE IF task[d] = "queued" THEN "waiting" ELSE "running"
        /\ task[d] \in {"find", "queued"} \cup Holding
    BY <1>1, <1>3, StageIs DEF VCSTypeOK, Stages
  <1>7. task'[d] = s
    BY <1>1, <1>2 DEF VCSTypeOK
  <1>8. LifeStage = [x \in Deliveries |-> LifeStage[x]]
    BY DEF LifeStage
  <1>9. LifeStage[d] = LifeStage'[d] => UNCHANGED Life!vars
    BY <1>3, <1>5, <1>8 DEF Life!vars
  <1>10. CASE FindConnection(d)
    <2>1. s \in {"over", "queued"} /\ task[d] = "find" /\ vcsLost' = vcsLost /\ vcsJobs' = vcsJobs
      BY <1>1, <1>7, <1>10 DEF FindConnection, Goto, VCSTypeOK
    <2>2. LifeStage'[d] \in {"dropped", "waiting"}
      BY <1>1, <1>3, <1>4, <1>7, <2>1, StageIs DEF LifeStage
    <2> QED
      BY <1>3, <1>4, <1>5, <1>6, <2>1, <2>2 DEF Life!Next, Life!Drop, Life!Wait, Life!Goes
  <1>11. CASE Enter(d)
    <2>1. s = "token" /\ task[d] = "queued" /\ vcsLost' = vcsLost /\ vcsJobs' = vcsJobs
      BY <1>1, <1>7, <1>11 DEF Enter, Goto, VCSTypeOK
    <2>2. LifeStage'[d] = "running"
      BY <1>3, <1>7, <2>1 DEF LifeStage
    <2>3. {x \in Deliveries : LifeStage[x] = "running"} = {x \in Deliveries : task[x] \in Holding}
      BY <1>1, StageIs
    <2> QED
      BY <1>3, <1>4, <1>5, <1>6, <1>11, <2>1, <2>2, <2>3, SameCount DEF Enter, Life!Next, Life!Run, Life!Goes
  <1>12. CASE RecordRun(d)
    <2>1. task[d] = "record" /\ d \in vcsJobs' /\ vcsLost' = vcsLost
      BY <1>12 DEF RecordRun
    <2>2. LifeStage'[d] = "reported"
      BY <1>3, <2>1 DEF LifeStage
    <2> QED
      BY <1>3, <1>4, <1>5, <1>6, <2>1, <2>2 DEF Life!Next, Life!Report, Life!Goes
  <1>13. CASE CallFails(d)
    <2>1. d \in vcsLost'
      BY <1>13 DEF CallFails
    <2>2. LifeStage'[d] = "lost"
      BY <2>1 DEF LifeStage
    <2>3. d \in Life!UnderWay
      BY <1>6 DEF Life!UnderWay
    <2> QED
      BY <1>3, <1>4, <1>5, <2>2, <2>3 DEF Life!Next, Life!Lose
  <1>14. CASE GetToken(d) \/ PostPending(d) \/ PlanFails(d) \/ FindComment(d) \/ PostComment(d) \/ PostFinal(d)
              \/ CommentFails(d)
    <2>1. task[d] \in Holding /\ s \in Holding /\ vcsLost' = vcsLost /\ vcsJobs' = vcsJobs
      BY <1>1, <1>7, <1>14 DEF GetToken, PostPending, PlanFails, FindComment, PostComment, PostFinal,
         CommentFails, Goto, VCSTypeOK
    <2>2. LifeStage[d] = "running" /\ LifeStage'[d] = "running"
      BY <1>3, <1>6, <1>7, <2>1 DEF LifeStage
    <2> QED
      BY <1>4, <1>9, <2>2
  <1> QED
    BY <1>10, <1>11, <1>12, <1>13, <1>14 DEF VCSTask

\* A delivery that is recorded is new, and accepted or dropped at once.
LEMMA RecordDeliveryLives ==
  ASSUME LifeInv, NEW r \in Receivers, RecordDelivery(r)
  PROVE  EndedIsOver' /\ [Life!Next]_Life!vars
  <1> DEFINE d == receiving[r]
             s == IF event[d].kind = "ignored" THEN "over" ELSE "find"
  <1>1. VCSTypeOK /\ EndedIsOver /\ d \in Deliveries /\ d \notin recorded
    BY DEF LifeInv, VCSInv, RecordDelivery
  <1>2. dispatched[d] = 0 /\ task[d] = "none"
    BY <1>1 DEF LifeInv, VCSInv, DispatchedOnRecord
  <1>3. /\ task' = [task EXCEPT ![d] = s] /\ dispatched' = [dispatched EXCEPT ![d] = @ + 1]
        /\ vcsLost' = vcsLost /\ vcsJobs' = vcsJobs /\ s \in {"over", "find"}
    BY DEF RecordDelivery, Dispatch
  <1> HIDE DEF d, s
  <1>4. d \notin vcsLost \cup vcsJobs
    BY <1>1, <1>2 DEF EndedIsOver
  <1>5. EndedIsOver'
    BY <1>1, <1>3, <1>4 DEF EndedIsOver, VCSTypeOK
  <1>6. LifeStage' = [LifeStage EXCEPT ![d] = LifeStage'[d]]
    BY <1>1, <1>3, StageMoves DEF VCSTypeOK
  <1>7. LifeStage[d] = "new"
    BY <1>1, <1>2, StageIs
  <1>8. LifeStage'[d] \in {"accepted", "dropped"}
    <2>1. task'[d] \in {"over", "find"}
      BY <1>1, <1>3 DEF VCSTypeOK
    <2> QED
      BY <1>1, <1>3, <1>4, <2>1 DEF LifeStage, Holding
  <1>9. dispatched' = [dispatched EXCEPT ![d] = 1]
    BY <1>1, <1>2, <1>3 DEF VCSTypeOK
  <1> QED
    BY <1>1, <1>5, <1>6, <1>7, <1>8, <1>9 DEF Life!Next, Life!Accept, Life!Goes

\* A restart loses everything that is under way.
LEMMA RestartLives ==
  ASSUME LifeInv, ServerRestart
  PROVE  EndedIsOver' /\ [Life!Next]_Life!vars
  <1> USE DEF tables
  <1>1. VCSTypeOK /\ EndedIsOver
    BY DEF LifeInv, VCSInv
  <1>2. /\ \A d \in Deliveries : task'[d] = IF task[d] = "none" THEN "none" ELSE "over"
        /\ vcsLost' = vcsLost \cup {d \in Deliveries : task[d] \notin {"none", "over"}}
        /\ vcsJobs' = vcsJobs /\ dispatched' = dispatched
    BY DEF ServerRestart
  <1>3. EndedIsOver'
    BY <1>1, <1>2 DEF EndedIsOver
  <1>4. ASSUME NEW d \in Deliveries
        PROVE  LifeStage'[d] = IF d \in Life!UnderWay THEN "lost" ELSE LifeStage[d]
    <2>1. d \in Life!UnderWay <=> task[d] \notin {"none", "over"}
      BY <1>1, StageIs DEF Life!UnderWay, VCSTypeOK, Stages, Holding
    <2>2. CASE task[d] \in {"none", "over"}
      <3>1. task'[d] = task[d] /\ (d \in vcsLost' <=> d \in vcsLost)
        BY <1>2, <2>2
      <3> QED
        BY <1>2, <2>1, <2>2, <3>1 DEF LifeStage
    <2>3. CASE task[d] \notin {"none", "over"}
      BY <1>2, <2>1, <2>3 DEF LifeStage
    <2> QED
      BY <2>2, <2>3
  <1>5. LifeStage' = [d \in Deliveries |-> LifeStage'[d]]
    BY DEF LifeStage
  <1>6. LifeStage' = [d \in Deliveries |-> IF d \in Life!UnderWay THEN "lost" ELSE LifeStage[d]]
    BY <1>4, <1>5
  <1> QED
    BY <1>2, <1>3, <1>6 DEF Life!Next, Life!LoseAll

LEMMA NextLives == LifeInv /\ [VCSNext]_vcsVars => EndedIsOver' /\ [Life!Next]_Life!vars
  <1> SUFFICES ASSUME LifeInv, [VCSNext]_vcsVars PROVE EndedIsOver' /\ [Life!Next]_Life!vars
    OBVIOUS
  <1>1. ASSUME UNCHANGED <<task, vcsLost, vcsJobs, dispatched>>
        PROVE  EndedIsOver' /\ [Life!Next]_Life!vars
    BY <1>1, StageStays DEF LifeInv, EndedIsOver, Life!vars
  <1>2. ASSUME NEW r \in Receivers, RecordDelivery(r) PROVE EndedIsOver' /\ [Life!Next]_Life!vars
    BY <1>2, RecordDeliveryLives
  <1>3. ASSUME NEW d \in Deliveries, VCSTask(d) \/ CallFails(d) \/ CommentFails(d)
        PROVE  EndedIsOver' /\ [Life!Next]_Life!vars
    BY <1>3, TaskStepLives
  <1>4. CASE ServerRestart
    BY <1>4, RestartLives
  <1>5. ASSUME NEW w \in Workspaces, NEW b \in Branches,
               ConnectVCS(w, b) \/ UpdateVCS(w, b)
        PROVE  EndedIsOver' /\ [Life!Next]_Life!vars
    BY <1>1, <1>5 DEF ConnectVCS, UpdateVCS, server
  <1>6. ASSUME NEW w \in Workspaces, DisconnectVCS(w) PROVE EndedIsOver' /\ [Life!Next]_Life!vars
    BY <1>1, <1>6 DEF DisconnectVCS, server
  <1>7. ASSUME NEW d \in Deliveries, NEW e \in Event, Deliver(d, e)
        PROVE  EndedIsOver' /\ [Life!Next]_Life!vars
    BY <1>1, <1>7 DEF Deliver, server, tables
  <1>8. ASSUME NEW r \in Receivers, NEW d \in Deliveries, Receive(r, d)
        PROVE  EndedIsOver' /\ [Life!Next]_Life!vars
    BY <1>1, <1>8 DEF Receive, tables
  <1>9. ASSUME NEW r \in Receivers, RecordConflict(r) PROVE EndedIsOver' /\ [Life!Next]_Life!vars
    BY <1>1, <1>9 DEF RecordConflict, tables
  <1>10. CASE TokenExpires
    BY <1>1, <1>10 DEF TokenExpires, tables
  <1>11. CASE UNCHANGED vcsVars
    BY <1>1, <1>11 DEF vcsVars, server, tables
  <1> QED
    BY <1>2, <1>3, <1>4, <1>5, <1>6, <1>7, <1>8, <1>9, <1>10, <1>11 DEF VCSNext

\* The webhook, the tasks and the tables implement DeliveryLife: a delivery is
\* handled once, runs in its turn and ends once, whatever is sent again, fails
\* or restarts.
THEOREM DeliveriesLiveOnce == VCSSpec => LivesOnce
  <1>1. VCSInit => EndedIsOver /\ Life!Init
    BY DEF VCSInit, EndedIsOver, Life!Init, LifeStage, Holding
  <1>2. LifeInv /\ [VCSNext]_vcsVars => LifeInv' /\ [Life!Next]_Life!vars
    BY NextVCSInv, NextLives DEF LifeInv
  <1>3. VCSInit => LifeInv
    BY <1>1, InitVCSInv DEF LifeInv
  <1> QED
    BY <1>1, <1>2, <1>3, PTL DEF VCSSpec, LivesOnce, Life!Spec
=============================================================================

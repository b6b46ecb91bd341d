------------------------------ MODULE VCSRuns ------------------------------
(***************************************************************************)
(* Plans started from GitHub: the connections of workspaces to             *)
(* repositories (api/routes/vcs-routes.py, vcs-workflow-routes.py), the    *)
(* webhook that receives events (webhook-routes.py), the task of each      *)
(* event (core/vcs-run-manager.py, vcs-run-helpers.py) and what it does at *)
(* GitHub (github-app-client.py).                                          *)
(*                                                                         *)
(* Everything is one repository.  A delivery is GitHub's identifier of an  *)
(* event; GitHub may send it again, and requests with a wrong signature    *)
(* change nothing.  A step is what runs between two awaits: a transaction, *)
(* or a call of GitHub's API.                                              *)
(*                                                                         *)
(* No plan of this code succeeds: TerraformRunner is constructed with an   *)
(* argument it does not have (work_dir, vcs-run-manager.py:131 and :168),  *)
(* inside the try block.  What follows a plan that succeeds, the apply and *)
(* the approval, is never reached and is not here.                         *)
(***************************************************************************)
EXTENDS Naturals, FiniteSets

CONSTANTS
  Deliveries, Workspaces, Branches, Commits,
  Receivers,     \* requests of the webhook that are served at a time
  MaxRuns,       \* vcs_max_concurrent_runs
  MaxCopies,     \* bound: how often GitHub sends one delivery
  MaxComments,   \* bound: comments of the bot on the pull request
  VCSFaults      \* what goes wrong: "restart", "github", "database"

ASSUME VCSBounds == MaxRuns \in Nat \ {0} /\ MaxCopies \in Nat /\ MaxComments \in Nat
ASSUME NobodyAssumption == "nobody" \notin Deliveries

VARIABLES
  connection,   \* table vcs_connections: the branch of each connected workspace
  event,        \* GitHub: the event of each delivery
  copies,       \* GitHub: how often each delivery has been sent
  wire,         \* GitHub: how many copies of it have yet to arrive
  receiving,    \* requests between the duplicate check and the record
  recorded,     \* table webhook_deliveries
  task,         \* the task of each delivery
  token,        \* the cached installation token is good
  commitStatus, \* GitHub: the status of each commit
  comments,     \* GitHub: the bot's comments on the pull request
  vcsJobs,      \* table jobs: the deliveries whose run has been recorded
  dispatched,   \* history: how often each delivery has been dispatched
  vcsLost       \* history: deliveries of which a step has failed or been lost

github == <<event, copies, wire, commitStatus, comments>>
server == <<receiving, task, token>>
tables == <<connection, recorded, vcsJobs>>
vcsVars == <<github, server, tables, dispatched, vcsLost>>

Unconnected == "unconnected"
Nobody == "nobody"
\* A pull request is opened (synchronized, reopened) or merged, a branch is
\* pushed; events of other types and actions are accepted and ignored.
PullRequest == [kind : {"opened", "merged"}, commit : Commits, branch : {"any"}]
Push == [kind : {"push"}, commit : Commits, branch : Branches]
Ignored == [kind : {"ignored"}, commit : Commits, branch : {"any"}]
Event == PullRequest \cup Push \cup Ignored
NoEvent == [kind |-> "none", commit |-> "none", branch |-> "none"]

\* handle_*_event looks the connection up; then the run waits for the
\* semaphore and goes through run_speculative_plan or run_full_plan.
Holding == {"token", "pending", "plan", "find_comment", "post_comment",
            "update_comment", "final", "record"}
Stages == {"none", "find", "queued", "over"} \cup Holding

\* The rows of the two tables.
Connections == [Workspaces -> Branches \cup {Unconnected}]
RecordedDeliveries == SUBSET Deliveries

VCSTypeOK ==
  /\ connection \in Connections
  /\ event \in [Deliveries -> Event \cup {NoEvent}]
  /\ copies \in [Deliveries -> 0..MaxCopies]
  /\ wire \in [Deliveries -> 0..MaxCopies]
  /\ receiving \in [Receivers -> Deliveries \cup {Nobody}]
  /\ recorded \in RecordedDeliveries
  /\ task \in [Deliveries -> Stages]
  /\ token \in BOOLEAN
  /\ commitStatus \in [Commits -> {"none", "pending", "failure"}]
  /\ comments \in 0..MaxComments
  /\ vcsJobs \subseteq Deliveries
  /\ dispatched \in [Deliveries -> Nat]
  /\ vcsLost \subseteq Deliveries

VCSInit ==
  /\ connection = [w \in Workspaces |-> Unconnected]
  /\ event = [d \in Deliveries |-> NoEvent]
  /\ copies = [d \in Deliveries |-> 0]
  /\ wire = [d \in Deliveries |-> 0]
  /\ receiving = [r \in Receivers |-> Nobody]
  /\ recorded = {}
  /\ task = [d \in Deliveries |-> "none"]
  /\ token = FALSE
  /\ commitStatus = [c \in Commits |-> "none"]
  /\ comments = 0
  /\ vcsJobs = {}
  /\ dispatched = [d \in Deliveries |-> 0]
  /\ vcsLost = {}

-----------------------------------------------------------------------------
(***************************************************************************)
(* Connections.                                                            *)
(***************************************************************************)
\* POST /workspaces/{id}/vcs: refused when there is a connection.
ConnectVCS(w, b) ==
  /\ connection[w] = Unconnected
  /\ connection' = [connection EXCEPT ![w] = b]
  /\ UNCHANGED <<github, server, recorded, vcsJobs, dispatched, vcsLost>>

\* PATCH /workspaces/{id}/vcs; the directory and auto_apply decide nothing that
\* is reached.
UpdateVCS(w, b) ==
  /\ connection[w] \notin {Unconnected, b}
  /\ connection' = [connection EXCEPT ![w] = b]
  /\ UNCHANGED <<github, server, recorded, vcsJobs, dispatched, vcsLost>>

\* DELETE /workspaces/{id}/vcs: runs that have found the connection go on.
DisconnectVCS(w) ==
  /\ connection[w] # Unconnected
  /\ connection' = [connection EXCEPT ![w] = Unconnected]
  /\ UNCHANGED <<github, server, recorded, vcsJobs, dispatched, vcsLost>>

-----------------------------------------------------------------------------
(***************************************************************************)
(* The webhook.                                                            *)
(***************************************************************************)
\* GitHub sends an event, and sends it again when it has had no answer or when
\* somebody asks it to.
Deliver(d, e) ==
  /\ event[d] \in {NoEvent, e}
  /\ copies[d] < MaxCopies
  /\ event' = [event EXCEPT ![d] = e]
  /\ copies' = [copies EXCEPT ![d] = @ + 1]
  /\ wire' = [wire EXCEPT ![d] = @ + 1]
  /\ UNCHANGED <<commitStatus, comments, server, tables, dispatched, vcsLost>>

\* receive_github_webhook with _is_duplicate: a delivery on record is answered
\* "duplicate".
Receive(r, d) ==
  /\ receiving[r] = Nobody
  /\ wire[d] > 0
  /\ wire' = [wire EXCEPT ![d] = @ - 1]
  /\ receiving' = IF d \in recorded THEN receiving ELSE [receiving EXCEPT ![r] = d]
  /\ UNCHANGED <<event, copies, commitStatus, comments, task, token, tables, dispatched, vcsLost>>

\* The task of an event; one of the ignored kinds has nothing to do.
Dispatch(d) ==
  /\ task' = [task EXCEPT ![d] = IF event[d].kind = "ignored" THEN "over" ELSE "find"]
  /\ dispatched' = [dispatched EXCEPT ![d] = @ + 1]

\* Mutant: a delivery on record is recorded again.
RecordAgain(r) ==
  /\ receiving[r] # Nobody
  /\ recorded' = recorded \cup {receiving[r]}
  /\ receiving' = [receiving EXCEPT ![r] = Nobody]
  /\ Dispatch(receiving[r])
  /\ UNCHANGED <<github, token, connection, vcsJobs, vcsLost>>

\* _record_delivery, then the task, with no await in between.
RecordDelivery(r) ==
  /\ receiving[r] \in Deliveries \ recorded
  /\ recorded' = recorded \cup {receiving[r]}
  /\ receiving' = [receiving EXCEPT ![r] = Nobody]
  /\ Dispatch(receiving[r])
  /\ UNCHANGED <<github, token, connection, vcsJobs, vcsLost>>

\* The delivery has been recorded since the check: the insert violates the
\* primary key and the request is answered 500.
RecordConflict(r) ==
  /\ receiving[r] \in recorded
  /\ receiving' = [receiving EXCEPT ![r] = Nobody]
  /\ UNCHANGED <<github, task, token, tables, dispatched, vcsLost>>

-----------------------------------------------------------------------------
(***************************************************************************)
(* The task of a delivery.                                                 *)
(***************************************************************************)
Goto(d, s) == task' = [task EXCEPT ![d] = s]
Matching(e) ==
  { w \in Workspaces : \/ connection[w] # Unconnected /\ e.kind # "push"
                       \/ connection[w] = e.branch /\ e.kind = "push" }

\* find_vcs_conn_by_repo, find_vcs_conn_by_repo_and_branch: an event nobody is
\* connected for is dropped; of several connections one is taken, LIMIT 1.
FindConnection(d) ==
  /\ task[d] = "find"
  /\ Goto(d, IF Matching(event[d]) = {} THEN "over" ELSE "queued")
  /\ UNCHANGED <<github, receiving, token, tables, dispatched, vcsLost>>

\* _guarded: the semaphore.
Enter(d) ==
  /\ task[d] = "queued"
  /\ Cardinality({x \in Deliveries : task[x] \in Holding}) < MaxRuns
  /\ Goto(d, "token")
  /\ UNCHANGED <<github, receiving, token, tables, dispatched, vcsLost>>

Speculative(d) == event[d].kind = "opened"

\* get_installation_token: from the cache, or from GitHub.
GetToken(d) ==
  /\ task[d] = "token"
  /\ token' = TRUE
  /\ Goto(d, IF Speculative(d) THEN "pending" ELSE "plan")
  /\ UNCHANGED <<github, receiving, tables, dispatched, vcsLost>>

TokenExpires ==
  /\ token
  /\ token' = FALSE
  /\ UNCHANGED <<github, receiving, task, tables, dispatched, vcsLost>>

\* update_check_status before the plan ...
PostPending(d) ==
  /\ task[d] = "pending"
  /\ commitStatus' = [commitStatus EXCEPT ![event[d].commit] = "pending"]
  /\ Goto(d, "plan")
  /\ UNCHANGED <<event, copies, wire, comments, receiving, token, tables, dispatched, vcsLost>>

\* Mutant: the exception of the plan is not caught.
PlanFailsUncaught(d) ==
  /\ task[d] = "plan"
  /\ Goto(d, "over")
  /\ UNCHANGED <<github, receiving, token, tables, dispatched, vcsLost>>

\* clone_repo and TerraformRunner, one of which raises, in the try block.
PlanFails(d) ==
  /\ task[d] = "plan"
  /\ Goto(d, IF Speculative(d) THEN "find_comment" ELSE "record")
  /\ UNCHANGED <<github, receiving, token, tables, dispatched, vcsLost>>

\* post_pr_comment: look for a comment of the bot, then add or replace it.
FindComment(d) ==
  /\ task[d] = "find_comment"
  /\ Goto(d, IF comments > 0 THEN "update_comment" ELSE "post_comment")
  /\ UNCHANGED <<github, receiving, token, tables, dispatched, vcsLost>>
PostComment(d) ==
  /\ task[d] \in {"post_comment", "update_comment"}
  /\ comments < MaxComments \/ task[d] = "update_comment"
  /\ comments' = IF task[d] = "post_comment" THEN comments + 1 ELSE comments
  /\ Goto(d, "final")
  /\ UNCHANGED <<event, copies, wire, commitStatus, receiving, token, tables, dispatched, vcsLost>>

\* ... and after it.
PostFinal(d) ==
  /\ task[d] = "final"
  /\ commitStatus' = [commitStatus EXCEPT ![event[d].commit] = "failure"]
  /\ Goto(d, "record")
  /\ UNCHANGED <<event, copies, wire, comments, receiving, token, tables, dispatched, vcsLost>>

\* Mutant: a run of a push is not recorded.
RecordPullRequest(d) ==
  /\ task[d] = "record"
  /\ vcsJobs' = IF Speculative(d) THEN vcsJobs \cup {d} ELSE vcsJobs
  /\ Goto(d, "over")
  /\ UNCHANGED <<github, receiving, token, connection, recorded, dispatched, vcsLost>>

\* create_job_record, which ends the run and gives the semaphore back.
RecordRun(d) ==
  /\ task[d] = "record"
  /\ vcsJobs' = vcsJobs \cup {d}
  /\ Goto(d, "over")
  /\ UNCHANGED <<github, receiving, token, connection, recorded, dispatched, vcsLost>>

-----------------------------------------------------------------------------
(***************************************************************************)
(* What goes wrong.                                                        *)
(***************************************************************************)
\* A call of GitHub or a transaction fails: outside the try blocks that ends
\* the task (_guarded swallows the exception), around the comment it is logged.
CallFails(d) ==
  /\ \/ "github" \in VCSFaults /\ task[d] = "token" /\ ~token
     \/ "github" \in VCSFaults /\ task[d] \in {"pending", "final"}
     \/ "database" \in VCSFaults /\ task[d] \in {"find", "record"}
  /\ Goto(d, "over")
  /\ vcsLost' = vcsLost \cup {d}
  /\ UNCHANGED <<github, receiving, token, tables, dispatched>>

CommentFails(d) ==
  /\ "github" \in VCSFaults
  /\ task[d] \in {"find_comment", "post_comment", "update_comment"}
  /\ Goto(d, "final")
  /\ UNCHANGED <<github, receiving, token, tables, dispatched, vcsLost>>

\* Requests, tasks, the queue of the semaphore and the token are in memory.
ServerRestart ==
  /\ "restart" \in VCSFaults
  /\ receiving' = [r \in Receivers |-> Nobody]
  /\ task' = [d \in Deliveries |-> IF task[d] = "none" THEN "none" ELSE "over"]
  /\ token' = FALSE
  /\ vcsLost' = vcsLost \cup {d \in Deliveries : task[d] \notin {"none", "over"}}
  /\ <<receiving, task, token>>' # <<receiving, task, token>>
  /\ UNCHANGED <<github, tables, dispatched>>

VCSTask(d) ==
  \/ FindConnection(d) \/ Enter(d) \/ GetToken(d) \/ PostPending(d) \/ PlanFails(d)
  \/ FindComment(d) \/ PostComment(d) \/ PostFinal(d) \/ RecordRun(d)

VCSNext ==
  \/ \E w \in Workspaces, b \in Branches : ConnectVCS(w, b) \/ UpdateVCS(w, b)
  \/ \E w \in Workspaces : DisconnectVCS(w)
  \/ \E d \in Deliveries, e \in Event : Deliver(d, e)
  \/ \E r \in Receivers, d \in Deliveries : Receive(r, d)
  \/ \E r \in Receivers : RecordDelivery(r) \/ RecordConflict(r)
  \/ \E d \in Deliveries : VCSTask(d)
  \/ TokenExpires
  \/ \E d \in Deliveries : CallFails(d) \/ CommentFails(d)
  \/ ServerRestart

\* The event loop runs every task, and the semaphore serves those that wait in
\* turn.
VCSFairness ==
  \A d \in Deliveries : WF_vcsVars(VCSTask(d) /\ task[d] # "queued") /\ SF_vcsVars(Enter(d))

VCSSpec == VCSInit /\ [][VCSNext]_vcsVars
VCSFairSpec == VCSSpec /\ VCSFairness

-----------------------------------------------------------------------------
(***************************************************************************)
(* Properties.                                                             *)
(***************************************************************************)
\* How far each delivery has come, in the terms of DeliveryLife.
LifeStage ==
  [ d \in Deliveries |->
      IF d \in vcsLost THEN "lost"
      ELSE IF d \in vcsJobs THEN "reported"
      ELSE IF task[d] \in Holding THEN "running"
      ELSE [none |-> "new", find |-> "accepted", queued |-> "waiting", over |-> "dropped"][task[d]] ]

Life == INSTANCE DeliveryLife WITH stage <- LifeStage, handled <- dispatched

\* However often GitHub sends a delivery and however its copies overlap, it is
\* dispatched once, runs only in its turn under the semaphore, and ends as a
\* job, dropped or lost, for good (receive_github_webhook, _guarded): the
\* webhook, the tasks and the tables implement DeliveryLife.  The duplicate
\* check alone does not give it, the primary key of webhook_deliveries does.
LivesOnce == Life!Spec

\* A commit that GitHub shows as pending has a run that will settle it, unless
\* a step of such a run has been lost.
PendingIsOwned ==
  \A c \in Commits : commitStatus[c] = "pending" =>
    \E d \in Deliveries :
      /\ event[d].commit = c
      /\ \/ task[d] \in Holding \ {"token", "pending", "record"}
         \/ d \in vcsLost

\* An event on record that somebody was connected for when its task looked ends
\* as a job of the table, unless a step of it has been lost.
EventsReported ==
  \A d \in Deliveries : task[d] = "queued" ~> d \in vcsJobs \cup vcsLost
=============================================================================

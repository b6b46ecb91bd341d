---------------------------- MODULE JobWorkflow ----------------------------
(***************************************************************************)
(* Terraform jobs and their approval: the tables jobs and approvals, the   *)
(* requests that create, approve, cancel and hide jobs, and the background *)
(* task that runs Terraform for each job (backend/api/routes/terraform-,   *)
(* deploy-, approval- and job-routes.py on top of job- and                 *)
(* approval-service.py).                                                   *)
(*                                                                         *)
(* Handlers and tasks run interleaved.  A handler that reads a row and     *)
(* then writes it is two actions, XRead and XWrite; a request refused by   *)
(* its read changes nothing.  A write, with all that its transaction       *)
(* writes, is one action: the row is written by its identifier whatever    *)
(* has become of it since it was read.                                     *)
(*                                                                         *)
(* A job is created and started in one transaction, so that nobody ever    *)
(* sees it "pending".  A plan has at most one approval, which therefore    *)
(* goes by the identifier of the plan's job.                               *)
(***************************************************************************)
EXTENDS Naturals, FiniteSets

CONSTANTS
  Jobs,      \* identifiers of jobs
  Handlers,  \* handler slots: how many requests are served at a time
  NoJob,
  Submitted, \* the kinds of job users ask for
  Faults     \* what may go wrong besides Terraform itself

FaultKinds ==
  { "restart",          \* the server restarts
    "workspace_error",  \* the directory of a workspace cannot be prepared
    "db_error" }        \* the transaction that records a result fails

ASSUME JobFaultsAssumption == Faults \subseteq FaultKinds
ASSUME SubmittedAssumption == Submitted \subseteq {"init", "plan", "destroy"}
ASSUME NoJobAssumption == NoJob \notin Jobs

VARIABLES
  job,        \* the rows of jobs
  task,       \* the background task of each job
  approval,   \* the status of the approval of each plan
  hand,       \* the handlers between their read and their write
  lost,       \* history: a task has gone without recording a result
  contended   \* history: approvals that two requests decided at a time

history == <<lost, contended>>
vars == <<job, task, approval, hand, history>>

\* What the task of a job runs: _run_init, _run_plan or _run_deploy, which do
\* the same to the tables, _run_apply, _run_apply_after_approval, _run_destroy.
Kinds == {"none", "init", "plan", "apply", "auto_apply", "destroy"}
Terminal == {"completed", "failed", "cancelled"}
Job == [ kind : Kinds,
         status : {"none", "running"} \cup Terminal,
         hidden : BOOLEAN,
         source : Jobs \cup {NoJob} ]   \* of an apply: the approval it was made under
NotCreated == [kind |-> "none", status |-> "none", hidden |-> FALSE, source |-> NoJob]

\* What a task does next: run Terraform, or record the result.
Stages == {"none", "run", "complete", "fail"}

Decisions == {"approved", "rejected"}
Ops == {"none", "decide", "apply", "cancel", "hide"}
Hand == [op : Ops, target : Jobs \cup {NoJob}, decision : Decisions]
Free == [op |-> "none", target |-> NoJob, decision |-> "rejected"]

TypeOK ==
  /\ job \in [Jobs -> Job]
  /\ task \in [Jobs -> Stages]
  /\ approval \in [Jobs -> {"none", "pending"} \cup Decisions]
  /\ hand \in [Handlers -> Hand]
  /\ lost \in BOOLEAN
  /\ contended \in SUBSET Jobs

Init ==
  /\ job = [j \in Jobs |-> NotCreated]
  /\ task = [j \in Jobs |-> "none"]
  /\ approval = [j \in Jobs |-> "none"]
  /\ hand = [h \in Handlers |-> Free]
  /\ lost = FALSE
  /\ contended = {}

-----------------------------------------------------------------------------
(***************************************************************************)
(* Helpers.                                                                *)
(***************************************************************************)
\* A job not created yet; identifiers are new UUIDs.
JobLeft == \E j \in Jobs : job[j] = NotCreated
NewJob == CHOOSE j \in Jobs : job[j] = NotCreated

\* Mutant: the job is not started.
CreatedPending(k, a) ==
  /\ JobLeft
  /\ job' = [job EXCEPT ![NewJob] =
               [kind |-> k, status |-> "pending", hidden |-> FALSE, source |-> a]]
  /\ task' = [task EXCEPT ![NewJob] = "run"]

\* create_job and start_job, in the transaction of their caller; the task
\* starts when it has committed.
Created(k, a) ==
  /\ JobLeft
  /\ job' = [job EXCEPT ![NewJob] =
               [kind |-> k, status |-> "running", hidden |-> FALSE, source |-> a]]
  /\ task' = [task EXCEPT ![NewJob] = "run"]

\* Handler h has read what it wants and goes on to write, or is done.
Takes(h, o, j, d) ==
  /\ hand[h] = Free
  /\ hand' = [hand EXCEPT ![h] = [op |-> o, target |-> j, decision |-> d]]
Done(h) == hand' = [hand EXCEPT ![h] = Free]

IsPlan(j) == job[j].kind = "plan"

-----------------------------------------------------------------------------
(***************************************************************************)
(* Requests.                                                               *)
(***************************************************************************)
\* POST /terraform/init, /terraform/plan, /deploy and /terraform/destroy: one
\* transaction, which reads nothing.
Submit(k) ==
  /\ Created(k, NoJob)
  /\ UNCHANGED <<approval, hand, history>>

\* Mutant: an approval can be decided again.
DecideReadUnchecked(h, a, d) ==
  /\ approval[a] # "none"
  /\ contended' = IF \E g \in Handlers : hand[g].op = "decide" /\ hand[g].target = a
                  THEN contended \cup {a} ELSE contended
  /\ Takes(h, "decide", a, d)
  /\ UNCHANGED <<job, task, approval, lost>>

\* POST /approvals/{id}/decide: SELECT the approval, which must be pending ...
DecideRead(h, a, d) ==
  /\ approval[a] = "pending"
  /\ contended' = IF \E g \in Handlers : hand[g].op = "decide" /\ hand[g].target = a
                  THEN contended \cup {a} ELSE contended
  /\ Takes(h, "decide", a, d)
  /\ UNCHANGED <<job, task, approval, lost>>

\* ... and UPDATE it by its identifier; an approval also creates the job that
\* applies the plan, in the same transaction.
DecideWrite(h) ==
  /\ hand[h].op = "decide"
  /\ approval' = [approval EXCEPT ![hand[h].target] = hand[h].decision]
  /\ \/ hand[h].decision = "approved" /\ Created("auto_apply", hand[h].target)
     \/ hand[h].decision = "rejected" /\ UNCHANGED <<job, task>>
  /\ Done(h)
  /\ UNCHANGED history

\* Mutant: a pending approval is good enough.
ApplyReadUndecided(h, a) ==
  /\ approval[a] # "none"
  /\ Takes(h, "apply", a, "rejected")
  /\ UNCHANGED <<job, task, approval, history>>

\* POST /terraform/apply: SELECT the approval, which must be approved ...
ApplyRead(h, a) ==
  /\ approval[a] = "approved"
  /\ Takes(h, "apply", a, "rejected")
  /\ UNCHANGED <<job, task, approval, history>>

\* ... and create the job.  The approval stays approved.
ApplyWrite(h) ==
  /\ hand[h].op = "apply"
  /\ Created("apply", hand[h].target)
  /\ Done(h)
  /\ UNCHANGED <<approval, history>>

\* Mutant: the status is not looked at.
CancelReadUnchecked(h, j) ==
  /\ job[j].status # "none"
  /\ Takes(h, "cancel", j, "rejected")
  /\ UNCHANGED <<job, task, approval, history>>

\* DELETE /jobs/{id}: SELECT the job, which must be running ...
CancelRead(h, j) ==
  /\ job[j].status = "running"
  /\ Takes(h, "cancel", j, "rejected")
  /\ UNCHANGED <<job, task, approval, history>>

\* ... and UPDATE it.  Its task is not told.
CancelWrite(h) ==
  /\ hand[h].op = "cancel"
  /\ job' = [job EXCEPT ![hand[h].target].status = "cancelled"]
  /\ Done(h)
  /\ UNCHANGED <<task, approval, history>>

\* Mutant: the status is not looked at.
HideReadUnchecked(h, j) ==
  /\ job[j].status # "none"
  /\ Takes(h, "hide", j, "rejected")
  /\ UNCHANGED <<job, task, approval, history>>

\* PATCH /jobs/{id}/hide: SELECT the job, which must be over ...
HideRead(h, j) ==
  /\ job[j].status \in Terminal
  /\ Takes(h, "hide", j, "rejected")
  /\ UNCHANGED <<job, task, approval, history>>

\* ... and UPDATE it.
HideWrite(h) ==
  /\ hand[h].op = "hide"
  /\ job' = [job EXCEPT ![hand[h].target].hidden = TRUE]
  /\ Done(h)
  /\ UNCHANGED <<task, approval, history>>

-----------------------------------------------------------------------------
(***************************************************************************)
(* The background task of a job.                                           *)
(***************************************************************************)
\* The directory is prepared before the try block of the task, except after an
\* approval: if that fails nobody records anything.
CannotStart(j) ==
  /\ "workspace_error" \in Faults
  /\ task[j] = "run" /\ job[j].kind # "auto_apply"
  /\ task' = [task EXCEPT ![j] = "none"]
  /\ lost' = TRUE
  /\ UNCHANGED <<job, approval, hand, contended>>

\* The Terraform commands of the job have run, or one has raised an exception,
\* which a timeout does too.  An apply fails also when it reports errors on its
\* output, and so does the plan of a deployment; any other plan that ends with an
\* error is completed, because nobody looks at its exit code.
Terraform(j) ==
  /\ task[j] = "run"
  /\ \E s \in {"complete", "fail"} : task' = [task EXCEPT ![j] = s]
  /\ UNCHANGED <<job, approval, hand, history>>

\* Mutant: the approval is asked for in a transaction of its own, before.
CompleteInTwo(j) ==
  /\ task[j] = "complete"
  /\ \/ /\ job' = [job EXCEPT ![j].status = "completed"]
        /\ approval' = IF IsPlan(j) THEN [approval EXCEPT ![j] = "pending"] ELSE approval
        /\ task' = [task EXCEPT ![j] = "none"]
        /\ UNCHANGED <<hand, history>>
     \/ /\ "db_error" \in Faults
        /\ approval' = IF IsPlan(j) THEN [approval EXCEPT ![j] = "pending"] ELSE approval
        /\ task' = [task EXCEPT ![j] = "fail"]
        /\ UNCHANGED <<job, hand, history>>

\* One transaction records the success and, for a plan, asks for approval.  If
\* it fails the task records a failure instead.
Complete(j) ==
  /\ task[j] = "complete"
  /\ \/ /\ job' = [job EXCEPT ![j].status = "completed"]
        /\ approval' = IF IsPlan(j) THEN [approval EXCEPT ![j] = "pending"] ELSE approval
        /\ task' = [task EXCEPT ![j] = "none"]
        /\ UNCHANGED <<hand, history>>
     \/ /\ "db_error" \in Faults
        /\ task' = [task EXCEPT ![j] = "fail"]
        /\ UNCHANGED <<job, approval, hand, history>>

\* Mutant: an exception is logged and nothing else.
FailSilently(j) ==
  /\ task[j] = "fail"
  /\ task' = [task EXCEPT ![j] = "none"]
  /\ UNCHANGED <<job, approval, hand, history>>

\* A transaction records the failure.  If it fails, nothing else is tried.
Fail(j) ==
  /\ task[j] = "fail"
  /\ task' = [task EXCEPT ![j] = "none"]
  /\ \/ /\ job' = [job EXCEPT ![j].status = "failed"]
        /\ UNCHANGED lost
     \/ /\ "db_error" \in Faults
        /\ lost' = TRUE
        /\ UNCHANGED job
  /\ UNCHANGED <<approval, hand, contended>>

Task(j) ==
  \/ CannotStart(j)
  \/ Terraform(j)
  \/ Complete(j)
  \/ Fail(j)

\* The server restarts: tasks and handlers are gone, rows stay as they are, and
\* nothing picks the jobs up again (lifespan).
Restart ==
  /\ "restart" \in Faults
  /\ task' = [j \in Jobs |-> "none"]
  /\ hand' = [h \in Handlers |-> Free]
  /\ lost' = (lost \/ \E j \in Jobs : task[j] # "none")
  /\ UNCHANGED <<job, approval, contended>>

-----------------------------------------------------------------------------
Read(h, j) ==
  \/ \E d \in Decisions : DecideRead(h, j, d)
  \/ ApplyRead(h, j)
  \/ CancelRead(h, j)
  \/ HideRead(h, j)

Write(h) ==
  \/ DecideWrite(h)
  \/ ApplyWrite(h)
  \/ CancelWrite(h)
  \/ HideWrite(h)

Next ==
  \/ \E k \in Submitted : Submit(k)
  \/ \E h \in Handlers, j \in Jobs : Read(h, j)
  \/ \E h \in Handlers : Write(h)
  \/ \E j \in Jobs : Task(j)
  \/ Restart

Spec == Init /\ [][Next]_vars

-----------------------------------------------------------------------------
(***************************************************************************)
(* Properties.                                                             *)
(***************************************************************************)
AutoApplies(a) == {j \in Jobs : job[j].kind = "auto_apply" /\ job[j].source = a}
Applies(a) == {j \in Jobs : job[j].source = a}

\* A plan is applied after its approval, once by itself, and a rejected one
\* never, by itself or on request, whatever happens to handlers and tasks, as
\* long as two requests do not decide it at a time (decide, terraform_apply).
DecisionTakesEffect ==
  \A a \in Jobs \ contended :
    /\ Cardinality(AutoApplies(a)) = IF approval[a] = "approved" THEN 1 ELSE 0
    /\ approval[a] # "approved" => Applies(a) = {}

\* Even when they do, no plan is applied that nobody has decided on.
UndecidedIsNotApplied ==
  \A a \in Jobs : approval[a] \in {"none", "pending"} => Applies(a) = {}

\* A plan that has completed waits for approval or has been decided on, and
\* approval is asked for nothing else but a plan cancelled in the meantime:
\* both are recorded or none (_run_plan, _run_deploy).
ApprovalComesWithPlan ==
  \A j \in Jobs :
    /\ IsPlan(j) /\ job[j].status = "completed" => approval[j] # "none"
    /\ approval[j] # "none" => IsPlan(j) /\ job[j].status \in {"completed", "cancelled"}

\* Hidden jobs are over: none that still runs can disappear from the list
\* (hide_job).
HiddenIsOver == \A j \in Jobs : job[j].hidden => job[j].status \in Terminal

\* A job is over for good once its task has ended, or is lost, and no request
\* to cancel it is under way.
Settled(j) ==
  /\ job[j].status \in Terminal
  /\ task[j] = "none"
  /\ \A h \in Handlers : hand[h].op = "cancel" => hand[h].target # j

\* The result of a settled job stays what it is (cancel_job, Terminal).
SettledIsFinal ==
  [][ \A j \in Jobs : Settled(j) => Settled(j)' /\ job'[j].status = job[j].status ]_vars

\* A job that the table calls running has a task that will record its result,
\* whatever Terraform does and whoever cancels, until a restart, a database
\* error or a bad workspace loses a task (_run_plan, _run_apply and the others).
RunningHasTask ==
  ~lost => \A j \in Jobs : job[j].status = "running" => task[j] # "none"

\* A decision is recorded on a pending approval only (decide: "Record an
\* approve/reject decision on a pending approval").
DecidesOnlyPending ==
  [][ \A h \in Handlers : DecideWrite(h) => approval[hand[h].target] = "pending" ]_vars
=============================================================================

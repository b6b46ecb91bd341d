# PowerOps in TLA+

PowerOps (TerraBot) is a FastAPI server that runs Terraform for teams: it stores
Terraform state behind a lock, runs plans and applies as background jobs that
need an approval, streams their output to browsers, reacts to GitHub webhooks,
checks policies, executes projects of several modules, lets an AI write and mend
code and keeps the progress of a training course.  This directory holds TLA+ models of its core, their TLC
configurations and TLAPS proofs.  Paths below are relative to `src/backend/`.

## Inventory

| Component | State | Operations | What is hard | What makes it correct |
|---|---|---|---|---|
| State lock (`core/state-manager.py`, `api/routes/state-routes.py`) | one row of `state_locks` per workspace: lock id, expiry | `acquire_lock`, `release_lock`, `force_unlock` | handlers interleave between statements; retries; dead clients; leases | one holder at a time; no live lock is taken away; no workspace is blocked for ever |
| State versions (same files) | rows of `state_versions` | `push_state`, `pull_state`, `rollback_state`, `prune_versions`, `delete_state` | several transactions per request, best-effort pruning, operations that ignore the lock | no lost update under the lock; the newest version survives; retention is bounded |
| Jobs and approvals (`api/services/job-service.py`, `approval-service.py`, `api/routes/terraform-`, `deploy-`, `approval-`, `job-routes.py`) | tables `jobs`, `approvals`; background tasks in memory | submit, decide, apply, cancel, hide; complete and fail by the task | check-then-write, tasks outliving a cancellation, restarts that lose tasks | an approved plan is applied once by itself, a rejected one never; results are recorded and final |
| Output streams (`api/services/stream-service.py`, `api/routes/stream-routes.py`) | one buffer per job, one generator per client | `append_line`, `stream_job_output`, reconnection | awaits between checks, trimming that moves positions, missed notifications | lines in order, once, none missed; streams end |
| VCS (`api/routes/webhook-routes.py`, `core/vcs-run-manager.py`) | connections, delivery records, tasks, a semaphore, an installation token | connect, receive, dispatch, plan, report | redelivery, crash after the record, calls of GitHub that fail | an event is handled once; a pending commit is settled; what is dispatched is reported |
| Policies (`core/policy-evaluator.py`, `api/routes/policy-routes.py`) | policies and sets in the database, copies in OPA, check results | create, update, delete, test, evaluate, gate | two stores, a query that fails | OPA has what the database has; verdicts are those of the text |
| Projects (`core/project-executor.py`, `dependency-resolver.py`, `api/routes/project-routes.py`) | modules, runs, members, credentials | write the configuration, resolve the order, execute modules | partial failure, one long transaction, executions at a time | dependencies first; statuses that match what was run; modules that match the configuration |
| Accounts (`api/routes/auth-`, `user-`, `team-`, `org-routes.py`, `api/middleware/auth-middleware.py`) | users, organisations, Admins teams, grants, tokens | register, log in, activate, grant, make keys | the first registration, credentials outliving an account | one organisation |
| Workspaces and their files (`core/workspace-manager.py`, `hcl-file-manager.py`, `ai-remediation-engine.py`) | a row and a directory each; files | create, delete, edit, rename, mend | a lookup before a change, optimistic checksums, a fix proposed earlier | no saved edit is overwritten unseen |
| Configuration (`api/routes/config-routes.py`, `core/config.py`) | files, the environment, a kept object | save, restart | three copies, a start in the wrong order | what is saved is what is used |
| Knowledge base (`kb/*.py`, `learning/*.py`) | progress rows, a cached leaderboard, a curriculum | start, quiz, lab, complete, rank, validate | read-modify-write, a cache | records say what happened; badges follow counts |
| Terraform commands (`core/terraform-runner.py`, `subprocess-executor.py`, `import-wizard.py`) | a subprocess | init, plan, apply, destroy, import, stream | exits, timeouts, missing binaries | failures are reported as such |
| Reading of plans (`core/plan-analysis-helpers.py`, `cost-estimator.py`, `drift-detector.py`) | none | summary, risk, cost, drift | replacements, exit codes | every change counted once, risk never lowered by more changes |
| Command line (`cli/`) | the current workspace | 19 commands | confirmations, exit codes | nothing is destroyed unconfirmed, failures exit with 1 |
| Templates and studio (`core/template-engine.py`, `ai-template-studio.py`) | a library of files | list, render, generate, refine, save | an AI's answer that is not what was asked | what is saved can be loaded, what is rendered is valid |
| AI services (`core/ai-*.py`, `core/llm/`) | none | generate, explain, fix, complete, analyse | clients that cannot be made, streams that break | an error is an error to the caller |
| Scaffolding and stacks (`core/project-scaffolder.py`, `stack-composer.py`, `project-template-engine.py`) | directories | scaffold, compose | names that meet | one directory and one variable per thing |

`PROJECT.json` lists the other parts (variable sets, registry, Terraform Cloud,
permission checks, encryption, audit, frontend) with the reason each is left out.

The parts meet in three places.  *The database*: every handler opens a
transaction with `get_session`, which commits at its end and rolls back on an
exception; nothing locks rows, so two handlers that read and then write
interleave freely.  *The event loop*: a request handler may start a background
task, which survives the request but no restart.  *Terraform*: its processes are
clients of the state backend and children of the tasks.

## Plan

Done, in this order: (1) `LeaseLock`, `StateLock` and `StateBackend`, which composes
the lock with the versions; (2) `JobWorkflow`; (3) `StreamBuffer`; (4) `VCSRuns`, which implements `DeliveryLife`, and
`PolicyGate`; (5) `DependencyOrder`, `ProjectExecution`, `ProjectCatalogue`; (6)
`Access`, `WorkspaceFiles`, `SystemConfig`, `Learning`; (7) what is a function of its
input: `PlanReading`, `TerraformCommands`, `Templates`, `CommandLine`, `Assistance`,
`Lessons`, `Composition`.

Left: abstract specifications of an approval (decided, applied once) that `JobWorkflow` implements and of a
stream that `StreamBuffer` implements; then properties for the hazards in `PROJECT.json` that have none.

## Modules

### LeaseLock and StateLock

`LeaseLock` is the promise of a lock with a lease: whoever holds it keeps it
until it gives it up, somebody breaks it, or its lease runs out.

`StateLock` is the code.  `lockId` and `expired` are the committed row of
`state_locks` (`lock_id`, and whether `expires_at` has passed); the workspace is a
constant because every statement filters on it.  `req` holds the handlers that
are being served, one per member of `Requests`, each at the statement it is about
to run; `status`, `ownId` and `retries` are Terraform's clients, which the
repository does not contain and which are modelled from the protocol the routes
serve.  Each SELECT, DELETE and INSERT of a handler is an action:

| Code | Actions |
|---|---|
| `acquire_lock` | `LockRead`, `LockReclaim`, `LockInsert`, `LockConflict` |
| `release_lock` | `UnlockRead`, `DeleteRow` |
| `force_unlock` | `ForceUnlockRead`, `DeleteRow` |
| Terraform, administrators | `SendLock`, `SendUnlock`, `Retry`, `ClientDies`, `SendForceUnlock` |
| time, the server process | `LeaseRunsOut`, `ServerCrash` |

The database is PostgreSQL at READ COMMITTED, the module's header says which
rules that means.  An ORM `delete` is a DELETE by primary key, and the primary key of
`state_locks` is the workspace; `reclaiming` is the transaction that has deleted
the row in `acquire_lock` and has not committed its INSERT.  `disturbed` and
`overlapped` are history variables that name the conditions under which a
property holds; no guard reads them.

### StateBackend

Extends `StateLock` with `versions`, the rows of `state_versions` (a row identity and
a serial), `wreq`, the handlers of pushes and rollbacks, and `base`, the serial each
client works from.  `push_state` is `PushCheck`, `PushInsert` or `PushConflict`,
then `PruneSelect` and `PruneDelete` or `PruneFails`; `rollback_state` is
`RollbackPull`, `RollbackBump` and the same push without a lock ID.  Abstracted: the bytes of a state,
encryption, checksums and metadata; a body that does not parse, which the code stores
as serial 0, is a push like another.  A rollback whose next serial would exceed
`MaxSerial` stands still; that is a bound, not a refusal of the code.

### JobWorkflow

`job` is the table of jobs (kind, status, hidden, and the plan whose approval it
applies), `approval` the approval of each plan, `task` the background task of each
job, `hand` the handlers between their SELECT and their UPDATE.  The routes that
submit a job are one action, `Submit`, whose kind tells them apart: `init` and
`destroy` differ in nothing the properties see, and `plan` and `deploy` both complete with
an approval.  A job is created and started in one transaction, so `pending` is
never visible.  `CannotStart` is the preparation of the workspace outside the try
block; `Complete` and `Fail` are the transactions at the end of a task, which may
themselves fail (`db_error`).  `Restart` loses tasks and handlers and keeps
rows, because `lifespan` looks for no unfinished job.  `lost` and `contended` are
history.

### StreamBuffer

One job, its task and some clients.  `written` and `dropped` describe the buffer
(`_output_buffers[job_id]` holds lines `dropped .. written-1`), `stream` is the generator of each
client with its position, `got` and `lastId` what the client has received.  One action is what runs
between two awaits: `Get` (the slice), `Send` (one `yield`), `CheckComplete`
(`is_complete`), `Finish`, `Wake` (notified or timed out).  The task appends its last line after it
has recorded its result (`TaskRecords`, `TaskEnds`), as every task of the
routes does.  The keepalive event carries no line and is part of `Wake`.

### DeliveryLife and VCSRuns

`DeliveryLife` is the promise to every delivery: new, accepted, waiting for its turn, running, and then reported, dropped or lost for good; accepted
once, and at most `MaxRuns` running at a time.  `VCSRuns` is the code.  `LifeStage` maps its tasks and tables to these stages, and what its
history counts as dispatched to what is handled.

The repository that is connected, GitHub's deliveries and the server.  `event` is what GitHub has to
tell under each delivery identifier, `wire` the copies on their way, `receiving` the requests between the duplicate
check (`Receive`) and the insertion (`RecordDelivery`, or `RecordConflict` on the primary key), `recorded` the table of deliveries, `task` the stage of
each delivery's background task.  A stage is what runs between two awaits of `vcs-run-manager.py`: the lookup of the
connection, the semaphore (`Enter`), the token (cached, and fetched anew when it has expired), the pending
status, the plan, the search for an earlier comment and its writing, the final status, the job.  `CallFails` and `CommentFails` are calls of GitHub
that fail outside and inside the code's try blocks, `ServerRestart` loses requests, tasks, queue and token.  A plan
never succeeds, because `TerraformRunner` is constructed with an argument it does not have; the
model has what the code does then.

### PolicyGate

`policy` is the table, `opa` and `trial` what OPA has of each policy (its own module, and the one a
test loads beside it in the same package), `results` the table of check results, `prequest` the requests between their transaction and
their calls of OPA.  Creating, changing, deleting and testing a policy, sets, members and assignments, the start of the server (which seeds
the starters and loads what it can), and evaluations policy by policy.  A query that fails or finds no module is no violation, as in the code.
`outOfStep` and `sound` are history: the policies and results to which something has happened that the properties exclude.

### DependencyOrder, ProjectExecution, ProjectCatalogue

`DependencyOrder` has Kahn's layers as the code computes them, as a recursive function from the round to its queue, in-degrees and layers (in-degrees count
repeated and unknown names: they are sizes of sets of edges, pairs of a name and which of its repetitions), the validation of a
configuration and the depth-first search of the stacks' warnings, each beside a reference definition (closure of the dependency relation).
`ProjectExecution` has the rows of one project's modules; an execution is one transaction from its load to the last module's status, which
at its commit writes only the columns that differ from what it loaded (`Flushed`); the rows it has written are locked until then.
`ProjectCatalogue` has projects, members and credentials, with the check of a free name before the insertion.

### Access, WorkspaceFiles, SystemConfig, Learning

`Access`: accounts, organisations, Admins teams, grants, API keys and who holds an unexpired token; a registration reads (`RegisterReads`)
and writes (`RegisterCommits`) in two steps, since whether it is the first decides what it does.
`WorkspaceFiles`: rows, directories and files; a request looks the workspace up and then changes the directory at once; the content of a file is the set
of edits in it, so that a lost edit is visible.  `SystemConfig`: the file, the environment and the kept
`Settings`, for the AI and for the clouds, with the order of the start.  `Learning`: records that requests read and write by columns,
the leaderboard's two queries and its cache, and the steps of a tutorial.

### What is a function

`PlanReading`, `TerraformCommands` (processes, arguments, results, imports, statuses), `Templates` (engine, validator, studio), `CommandLine` (each command from its options and answers
to its exit code), `Assistance` (clients, agent, editor, module generator, plan and remediation routes, wizard), `Lessons` (curriculum, quizzes, labs, overview, glossary) and
`Composition` (scaffolder, stacks, project templates) have no variables: what this code does is a function of its input, of what a process does and of what an AI answers.
`MCPlanReading`, `MCTools` and `MCServices` state as assumptions what these functions promise over all inputs of a small size, and TLC evaluates
them before it begins the `platform` run.  They are checked like the invariants, and cannot be violated by a behaviour.

## Runs

| Run | Specification | Instance | Shows |
|---|---|---|---|
| `state_lock` | `StateLock!FairSpec` | 2 clients, 2 handlers, 5 lock ids, 1 retry, every fault | one holder at a time, the row names it, releases and acquisitions take what they should, orphans give way |
| `state_backend` | `StateBackend!StateSpec` | 2 clients, 1 lock handler, 2 writes at a time, 2 kept versions, serials to 3; dying clients, restarts, every unlocked use | the versions' properties, and that the lock with one handler at a time implements `LeaseLock` |
| `job_workflow` | `JobWorkflow!Spec` | 3 jobs, 2 handlers, every fault | the jobs' properties |
| `stream_buffer` | `StreamBuffer!FairSpec` | 2 clients, 5 lines, room for 3, every fault | the streams' properties |
| `vcs_policy` | `MCVCSPolicy!FairSpec` | VCS: 2 deliveries with 2 copies each, 2 receivers, 1 run at a time, 1 commit, 2 branches, every fault. Policies: 1 policy in 1 set, 1 workspace, 1 job, 2 requests, every fault | deliveries live as `DeliveryLife` says, a pending commit is owned, events are reported; OPA follows the database, verdicts are of the text |
| `projects` | `ProjectParts!Spec`, in `MCProjects` | 2 modules, 4 configurations (one with a cycle), 2 requests at a time and 3 in all; 2 projects, 2 names, 2 users | the projects' properties (dependencies first, no execution stuck, statuses and modules as they should be), and the order against its reference for all graphs of up to 3 modules |
| `platform` | `Platform!Spec`, in `MCPlatform` | 2 accounts and registrations; 1 workspace, 2 files, 2 edits and editors, 1 fix, 1 manager; 2 providers, 2 keys; 1 learner and chapter, 2 requests, 2 boards | the properties of the four parts, and the functions |
| `stale_reclaim`, `stale_release`, `decide_race`, `stream_tail`, `config_restart` | the same modules | one fault or none | the findings below |

Parts that share no state are in one run where they are small: a variable `part` (of `MCVCSPolicy`, `ProjectParts` and `Platform`) says which of them moves, and the
others stand at their initial state.  No property relates two parts, so a run explores each of them in full, and the sum of their
states instead of the product.  The fairness of `vcs_policy` is about the VCS part: a behaviour of the policies, in which the VCS part never moves from its initial state,
has no task to be fair to.

Why the bounds are enough.  Two handlers are the least that interleave, and a
statement of one reads or writes one row, so a third handler adds no new order of
two statements around a third that two clients' successive requests do not give.
Five lock identifiers are what two clients and two abandoned requests and the row
can carry, so that no request waits for one.  Two kept versions and serials to 3 let
pruning happen twice, with a push, a rollback and a deletion between its two
statements.  Three jobs are a plan and both ways to apply it, or two plans and an
apply.  Five lines and room for three make the buffer move under a reader twice.
Two deliveries are the least that compete for the one place under the semaphore and for the
commit; two copies the least that overlap.  One policy is enough for its two stores, since OPA's modules do not
meet; two requests on it overlap.  Two modules of which one needs the other are the least that have an order, and three
requests in all are a load, a change under it and a second execution.  Two editors, and a manager and a fixer beside them, are the least
that take turns on a file that goes and comes back.
Handlers, clients and requests are interchangeable where a run uses SYMMETRY, and those runs
check no liveness.  Job, row and lock identifiers are numbers for
TLC, so that `CHOOSE` takes the least new one: UUIDs have no order.
`stream_buffer` and `stream_tail` turn the deadlock check off, because a job ends and so do its streams; `projects`, because its requests are
counted (`MaxProjServed`); `platform` and `config_restart`, because a part may come to its end;
the other runs keep it on.

Fairness is assumed in three modules.  `StateLock!FairSpec`: the event loop runs
every handler to its end (weak), leases run out (weak, time passes), a client that
holds the lock comes to unlock it if it can send a request again and again
(strong) and somebody asks for the lock again and again (strong, since slots of the
model may be busy at times); and the server crashes finitely often, since one that
crashes before it has answered any request serves nobody.  `OrphanGivesWay` needs the lock requests: nothing but one reclaims
an expired row.  `StreamBuffer!FairSpec`: the event loop runs every
stream, and `poll_timeout` wakes those that wait (weak); nothing is assumed of
the task, of the clients or of reconnections.  `VCSRuns!VCSFairness`: the event loop runs every task to its next
await (weak), and the semaphore, which serves those that wait in turn, lets each of them in that could enter again and again (strong).
Calls of GitHub end, with success or failure; nothing is assumed of GitHub's deliveries or of restarts.

## Findings

* `stale_reclaim` -- two requests read one expired lock; the second one's
  DELETE, by workspace, removes the live lock the first has been granted, and both
  are answered 200 (`core/state-manager.py:120`).
* `stale_release` -- `release_lock` compares the id in one statement and deletes by workspace in
  another: the first copy of a repeated unlock deletes the next client's lock
  (`core/state-manager.py:176`).
* `decide_race` -- two decisions of one approval both succeed and the second replaces
  the first (`api/services/approval-service.py:124`).
* `stream_tail` -- a stream checks the buffer, awaits the job's status and ends; lines that came
  during the await are not sent (`api/services/stream-service.py:93`).
* `config_restart` -- after a restart the saved AI provider is loaded into the environment, but the settings
  in use were made and kept before (`api/routes/config-routes.py:157`, `api/main.py:215` and `:177`).

Seen while reading and kept in the models as the code has it, where they concern them:

*State, jobs, streams.*  The lease (600 s) is shorter
than the operation timeout (1800 s) and is not renewed.  A plan that fails without an
exception is completed and gets an approval; an apply after an approval plans anew
instead of applying the reviewed plan.  A reader that has counted up to the size of a
trimmed buffer finds nothing beyond its end until it reconnects.  `clear_buffer` is never called.
Nobody reads the stderr of a streamed command or looks at its exit code, and a line beyond the reader's limit kills it (`subprocess-executor.py:135`).

*VCS.*  `TerraformRunner(work_dir=...)` has no such argument (`vcs-run-manager.py:131`, `:168`), and
`git clone --branch <sha>` takes no commit (`github-app-client.py:91`): every plan fails and is reported as failed.  `VCSPlanRun` lacks columns
`_run_to_dict` reads, so that listing and replanning always raise.

*Policies.*  Deleting a set that has members is documented and fails on the relationships (`policy-routes.py:338`); the starter set is assigned to nobody and
never evaluated; `policy_override` is never set; nothing calls the gate before an apply.

*Projects.*  `add_member` raises on the user it has loaded (`project-routes.py:285`); a module that returns after its removal violates the unique name; modules run after a
failed dependency; an archived project can be executed and keeps its name; a stale execution writes half a row (`StatusMatchesLastRun` excludes it).

*Accounts.*  Two first registrations at a time make two organisations, and then nobody can register (`models.py:230` speaks of one).  `create_team` and `create_user` always roll back; the routes of teams are
"admin only" by their docstring alone; a deactivated user's API key still works; the audit middleware runs outside the authentication.

*Files and configuration.*  Creating a file that exists empties it; a fix is written without looking at what has changed since it was proposed; a workspace may keep its directory without its row.
A save of another provider without a model leaves the old model in the environment; a file that cannot be parsed is replaced whole.

*Knowledge base.*  The level "ai" of a lab passes whenever a client can be made, because the check runs inside an event loop (`lab-validator.py:205`); attempts are lost under overlap.

*Plans and commands.*  A refresh that fails, is killed or finds no terraform is reported as no drift (`drift-detector.py:95`).  `destroy --json` asks for no confirmation (`destroy-command.py:51`); an apply confirmed at the prompt lacks `-auto-approve`, which terraform refuses with `-json`;
`workspace current` does not follow `switch` (`workspace-manager.py:111`, `:168`); a plan that fails shows "No changes" and exits 0; one row without an address loses the results of a bulk import.

*Templates, code and AI.*  A list as `variables.json` passes the studio and breaks the listing of all templates (`template-engine.py:159`); a failed AI gives a valid package without files.  The scaffolded provider blocks have doubled braces
(`project-scaffolder.py:36`), which is no HCL.  The analysis of a plan "without AI" and the validation of a module need an AI's key (`plan-analysis-routes.py:3`); the analysis of a job's plan answers 422 to every real output; a newline
in a stream of the editor becomes a blank (`ai-editor-routes.py:68`); an answer "NOT APPROVED" approves (`ai-agent.py:156`).

## Proofs

`tlapm` checks every obligation.  The theorems hold for all values of the
constants that satisfy the named assumptions of the modules: the nulls and the names the code
reserves ("none", "nobody") are not identifiers, the bounds are natural numbers, and what is
counted (`Modules`, `Chapters`) is finite.  The bounds on requests, rows and repetitions are constants like the
others, so the theorems hold for every one of them.

`StateLockProofs` -- the inductive invariant is

    LockInv == TypeOK /\ SlotsOK /\ IdsOK /\ (~disturbed => Undisturbed)

Mutual exclusion is not inductive: that a client holds the lock has to follow
from what its handler was about to do.  `SlotsOK` ties the operation of a handler to
its step and `IdsOK` says that a waiting client and its handler carry one identifier and that
nobody else carries it.  `Undisturbed` says that, as long as nothing has disturbed the lock, no row is expired,
nobody is reclaiming one or deleting another's, and a holder is the one the row names.  From it follow
`MutualExclusionAlways`, `HolderIsRecordedAlways` and, as an action property, `ReleaseSafe`.
With one request at a time (`SerialInv` adds that at most one slot is busy and what it
read is still true) `SerialRefinement` proves that every step implements a step of
`LeaseLock` or a stutter, and `SerialAcquireSafe` that no live lock is taken.

`StateBackendProofs` -- `StateSpecLock` shows that every step of the backend is a step of
`StateLock` or leaves the lock alone, so that the lock's theorems hold of the backend
(`BackendMutualExclusion`).  `VersionsInv` is the versions' types and `PruneSparesNewest`; it
is inductive because a new row is on nobody's list of rows to delete, a list is made of rows beyond
the newest ones, and as long as no listed row is the newest, deleting listed rows makes none of them so.
It uses two facts about finite sets: a non-empty set
of versions has a newest, and the newest is not beyond the retention limit.
`NewestNeverGoesBackAlways` is the action property that follows.

`RetentionBound` is far from inductive: two prunings may have selected the same rows, and what one deletes
the other need not.  `RetentionInv` says it of every set of prunings at once: for each set `S` of prunings that have selected
their victims, what is left of the table when they have deleted them (`Left(S)`) is at most `MaxVersions` rows and one for each pruning that is not
in `S`.  An insertion comes with a pruning of its own; a selection adds a pruning to the sets and keeps at most `MaxVersions`
of whatever the others leave; a deletion is the case where it belongs to `S` already.  Serials are unique (the table's
constraint), which makes "the newest `MaxVersions`" a definite set.  `LockedPushExtendsNewest` rests on `PushesInv`: while
the lock is undisturbed and nobody goes round it, at most one push is between its arrival and its INSERT, that of the holder or of a holder that has died since,
whose row nobody can then remove (`PendingOwns`); and the serials the clients have read are the newest (`WorkFrom`).  It rests on the lock's own
invariant `LockInv`, which holds of the backend because of `StateSpecLock`.

`JobWorkflowProofs` -- `JobInv` adds to the types what ties a task and a pending handler to their rows:
a job whose task is at work is running or cancelled and, if it is a plan, has no approval yet
(`TasksOK`, `ApprovalsOK`); a job about to be hidden is over, whatever its task has recorded since it was read, and an
approval about to be used exists (`HandsOK`).  `HiddenIsOver`, `ApprovalComesWithPlan` and
`RunningHasTask` are parts of it, and `SettledIsFinalAlways` is the action property that follows: only a task and a
pending cancellation overwrite a result.
`DecisionTakesEffectAlways` and `UndecidedIsNotAppliedAlways` rest on `DecisionsInv`: unless two requests have contended for it, an approval that a request is about
to decide is still pending and nobody else's (`DecidersOK`), and what a request is about to apply has been decided on, and approved (`AppliersOK`).

`StreamBufferProofs` -- `StreamInv` adds to the types, for each client, where its stream stands.
Positions and line numbers part when the buffer drops lines, so order alone is not inductive: a stream
between two batches reads on after the last event its client has seen (`IndexOK`), a batch under way
starts no later than its positions in the buffer say now (`BatchOK`), and the client has
seen no line after the one its last event would name now (`SeenOK`).  Hence the next batch
is always later than all that came before (`InOrderOnceAlways`); while nothing is dropped positions are
line numbers (`PositionsOK`), which gives `NothingSkippedAlways`.

`VCSRunsProofs` -- the inductive invariant is

    VCSInv == VCSTypeOK /\ EventsKnown /\ DispatchedOnRecord
              /\ ReportsArePullRequests /\ PendingIsOwnedByPullRequest

`HandledOnce`, that no delivery is dispatched twice, follows from `DispatchedOnRecord` (a delivery that is not on record has not been dispatched and has no task, and recording is
what dispatches), which the primary key keeps and the duplicate check alone would not.  `PendingIsOwned` is not inductive, because the plan of a push, which settles
nothing, could be the owner it speaks of: only the run of a pull request talks to GitHub (`ReportsArePullRequests`), and it
is one of those that owns the commit (`PendingIsOwnedByPullRequest`).
`DeliveriesLiveOnce` shows that every step is a step of `DeliveryLife` or a stutter.  It needs `DispatchedOnRecord` again (what is recorded is new), and that
a delivery with a job or a lost step has no task that goes on (`EndedIsOver`): nothing that has ended is taken up again.  The semaphore is
where the number of tasks that hold it and the number of abstract runs have to be the same.

`PolicyGateProofs` -- the two stores are written in separate steps, so that OPA has what the database has only between requests.
`GateInv` says what holds in between, policy by policy (`InStep`), of each policy that is not out of step: at most one request has business
with it; that request's knowledge of it is still true (`Serves`: a load carries the text the row has, a removal
finds no row, a test finds OPA with the row's text, and an evaluation will judge the row's text); and when no request has
business with it, OPA has the row's text and no trial module.  `OPAFollowsDatabaseAlways` is its last part.
`VerdictIsOfTextAlways` follows because a query answered while the policy is in step is answered from its text, and the results found by an evaluation that has not committed
are right already (`VerdictsRight`).

`ProjectExecutionProofs` -- first, what Kahn's algorithm computes, for every set of modules and every configuration: a
module comes in a later layer than those it depends on (`LayersAreInOrder`); without cycles and unknown names every
module has a layer (`EveryModuleHasALayer`); a cycle is found, since its modules never reach in-degree zero (`CyclesAreFound`).  The library's
induction theorems take an operator, which the provers cannot instantiate; the least number that violates the claim (`LeastNumber`, from
the well-foundedness of strict inclusion on finite sets) does instead.  `KahnHolds` is what every round keeps: a
module's in-degree is the number of its edges from modules not yet done, and the queue is those that have just lost their last.
Then `ProjInv`: the rows an execution has loaded are never deleted, its targets are loaded rows, it writes only targets, its
configuration has an order, and what the running module depends on has been tried (`TriedFirst`).  A module is
ready when the layers before its own are done, so `DependenciesFirstAlways` follows from `LayersAreInOrder`, and
`ExecutionAdvancesAlways` from the existence of a first layer among those due.  `StatusMatchesLastRunAlways` and
`ModulesFollowConfigAlways` are parts of `ProjInv`.

`PlatformProofs` -- the four parts of the `platform` run, and `PlanReading`.

* `Access`.  `OneOrganisation` needs to know what a registration under way has read: as long as no two overlapped
  (`RegistrationsAgree`), one that has read no account is alone and there is none still, and one that has read an organisation has read the one there is.
* `WorkspaceFiles`.  `SavedEditsStay` is inductive with the types: an editor that saves has seen the content it replaces, or there
  is no file and nothing saved that could be lost (`NothingSavedInNoFile`).
* `SystemConfig`.  `EnvironmentHasStored` is inductive with the types: each step that writes a file writes the environment with it, or makes it anew of the file.
* `Learning`.  `RecordsSayWhatHappened` needs what a request has loaded: of a record no two requests had in hand
  together, a request in hand has the row as it is (`RequestOK`); of the others only that attempts are never more than were made.
  `BadgesFollowCounts` needs that whoever the leaderboard's first query has counted with every chapter is
  found by the second with every chapter (`RankingOK`), because a completed chapter stays completed.
* `PlanReading`.  The risk of a plan grows with its changes (`RiskIsMonotone`), because its flags do and the level grows with the flags; the four counts of a summary add up to the number of
  changes that are not idle (`SummaryCountsOnce`), because the four kinds are disjoint and cover them.

The runs that hold several parts.  A behaviour of `MCVCSPolicy`, `ProjectParts` or `Platform`, in which one part moves at a time, is a behaviour of each
part (`PartsAsAlone`, in `PolicyGateProofs`, `ProjectExecutionProofs` and `PlatformProofs`), so that every theorem of a part holds of the run;
`PartsTypesHold` draws the conclusion for their `TypeOK`.  `ProjectCatalogue` has its proof in
`ProjectExecutionProofs`: its types, among them that names are unique in an organisation and that members and credentials are of projects there
are, are inductive as they stand (`CatalogueTypesHold`).

Only model-checked: `OrphanGivesWay`, `LinesArrive`, `StreamEnds` and `EventsReported`, which are liveness, beyond the
prover; and the functions of the assumptions, among them the agreement of the depth-first search of the stacks' warnings with its
reference.

## Not modelled

The components whose status in `PROJECT.json` is `not_modelled`, with the reason
there.  Some of them cannot change anything: the registry, variables and environments, stack templates, Terraform Cloud and the plan runner of
VCS fail on columns or types their tables do not have before they write a row, and the permission checks are used by no route.
Within the modelled ones: logging, wording, layout, encryption,
the content of states, the tables of prices, types and concepts, and SQLite (where a writer locks the
whole database and fewer interleavings are possible).

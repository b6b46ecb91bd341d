-------------------------- MODULE ProjectExecution --------------------------
(***************************************************************************)
(* The modules of one project: their rows as the configuration is written  *)
(* (api/routes/project-routes.py, project-template-routes.py,              *)
(* core/project-template-engine.py) and the executions that plan or apply  *)
(* them in the order of their dependencies (core/project-executor.py,      *)
(* api/routes/project-execution-routes.py).                                *)
(*                                                                         *)
(* An execution is one transaction from the load of the project to the     *)
(* status of its last module: nothing it writes is seen before it commits, *)
(* a row it has written is locked until then, and an attribute goes to the *)
(* database only when it differs from what was loaded.  The layers of the  *)
(* order come from DependencyOrder; the modules of a layer run in any      *)
(* order.  What a terraform run prints, the credentials and the paths      *)
(* decide nothing here.                                                    *)
(***************************************************************************)
EXTENDS DependencyOrder

CONSTANTS
  Modules,
  Configs,        \* configurations that are written; see ConfigAssumption
  ProjRequests,   \* requests that are served at a time
  MaxProjServed,  \* bound: requests that load the project
  ProjFaults      \* "terraform": a run fails; "abort": an execution is lost

\* A configuration is the depends_on of each of its modules, or blank.
ASSUME ConfigAssumption ==
  \A c \in Configs :
    /\ c.blank \in BOOLEAN
    /\ DOMAIN c.depends \subseteq Modules
    /\ \A m \in DOMAIN c.depends : c.depends[m] \in [Modules -> {0, 1}]
    /\ c.blank => DOMAIN c.depends = {}
ASSUME ModulesAssumption == IsFiniteSet(Modules)
ASSUME MaxProjServedAssumption == MaxProjServed \in Nat

VARIABLES
  created,      \* the project exists
  config,       \* projects.config_yaml
  mods,         \* table project_modules
  projreq,      \* the requests between their load and their commit
  projServed,   \* how many there have been
  stale,        \* history: modules whose row changed while an execution held it
  configStale   \* history: an update or an execution wrote over a changed table

projVars == <<created, config, mods, projreq, projServed, stale, configStale>>

NoConfig == [blank |-> TRUE, depends |-> [m \in {} |-> 0]]
Operations == {"plan", "apply"}
NoRun == [op |-> "none", ok |-> FALSE]
\* What last_run_id leads to.
LastRun == [op : Operations, ok : BOOLEAN] \cup {NoRun}
ModuleStatus == {"pending", "planned", "applied", "failed", "removed"}
ModuleRow == [status : ModuleStatus, depends : [Modules -> {0, 1}], run : LastRun]
NoModule == [status |-> "absent", depends |-> [d \in Modules |-> 0], run |-> NoRun]

NoRequest == [op |-> "none"]
\* The status and the depends_on of the active modules a request has loaded.
Loaded == UNION {[S -> [status : ModuleStatus, depends : [Modules -> {0, 1}]]] : S \in SUBSET Modules}
\* An update also holds the configuration it is to write and the one it loaded.
Update == [op : {"update"}, config : Configs, was : Configs \cup {NoConfig}, seen : Loaded]
\* An execution also holds the modules it is to run, the one it runs, and what
\* it has written.
Nothing == "nothing"
Execution == [op : Operations, seen : Loaded, targets : SUBSET Modules,
              running : Modules \cup {Nothing}, wrote : [Modules -> {"no", "ok", "failed"}]]

ProjTypeOK ==
  /\ created \in BOOLEAN
  /\ config \in Configs \cup {NoConfig}
  /\ mods \in [Modules -> ModuleRow \cup {NoModule}]
  /\ \A r \in ProjRequests : projreq[r] \in Update \cup Execution \cup {NoRequest}
  /\ projServed \in 0..MaxProjServed
  /\ stale \subseteq Modules
  /\ configStale \in BOOLEAN

ProjInit ==
  /\ created = FALSE
  /\ config = NoConfig
  /\ mods = [m \in Modules |-> NoModule]
  /\ projreq = [r \in ProjRequests |-> NoRequest]
  /\ projServed = 0
  /\ stale = {}
  /\ configStale = FALSE

Executing(q) == q.op \in Operations
Arrives(r) ==
  projreq[r] = NoRequest /\ projServed < MaxProjServed /\ projServed' = projServed + 1
\* The modules that are not soft-removed.
Active(table) == {m \in Modules : table[m].status \notin {"absent", "removed"}}
DependsOf(seen) == [m \in DOMAIN seen |-> seen[m].depends]
Load == [m \in Active(mods) |-> [status |-> mods[m].status, depends |-> mods[m].depends]]
\* Another transaction has written the row and has not ended.
Locked(r, m) == \E s \in ProjRequests \ {r} : Executing(projreq[s]) /\ projreq[s].wrote[m] # "no"

-----------------------------------------------------------------------------
(***************************************************************************)
(* Writing the configuration.                                              *)
(***************************************************************************)
NewModule(c, m) == [status |-> "pending", depends |-> c.depends[m], run |-> NoRun]

\* create_project refuses what the parser refuses; a template and the wizard
\* write the modules as they come.
CreateProject(c, fromWizard) ==
  /\ ~created
  /\ IF fromWizard THEN ~c.blank ELSE ValidConfig(c.depends)
  /\ created' = TRUE
  /\ config' = c
  /\ mods' = [m \in Modules |-> IF m \in DOMAIN c.depends THEN NewModule(c, m) ELSE NoModule]
  /\ UNCHANGED <<projreq, projServed, stale, configStale>>

\* PATCH /projects/{id} with a configuration: load the project ...
UpdateLoad(r, c) ==
  /\ created /\ Arrives(r) /\ ValidConfig(c.depends)
  /\ projreq' = [projreq EXCEPT ![r] = [op |-> "update", config |-> c, was |-> config, seen |-> Load]]
  /\ UNCHANGED <<created, config, mods, stale, configStale>>

\* What a flush leaves in the table: a value is written when it is not the one
\* that was loaded.
Flushed(value, loaded, stored) == IF value = loaded THEN stored ELSE value

\* Mutant: modules the configuration leaves out are kept.
SyncedAdding(q, m) ==
  IF m \in DOMAIN q.config.depends /\ m \notin DOMAIN q.seen THEN NewModule(q.config, m) ELSE mods[m]

\* ... and write it, _sync_modules comparing with the modules that were loaded:
\* those the new configuration leaves out are soft-removed, those it keeps get
\* its depends_on, the others are added.
Synced(q, m) ==
  IF m \in DOMAIN q.config.depends
  THEN IF m \in DOMAIN q.seen
       THEN [mods[m] EXCEPT !.depends = Flushed(q.config.depends[m], q.seen[m].depends, @)]
       ELSE NewModule(q.config, m)
  ELSE IF m \in DOMAIN q.seen THEN [mods[m] EXCEPT !.status = "removed"] ELSE mods[m]

\* A module to add whose name has a row, removed or added meanwhile, violates
\* the unique name: the request fails and changes nothing.
NameTaken(q) ==
  \E m \in DOMAIN q.config.depends : m \notin DOMAIN q.seen /\ mods[m] # NoModule

UpdateCommit(r) ==
  LET q == projreq[r]
      synced == [m \in Modules |-> IF q.config.blank THEN mods[m] ELSE Synced(q, m)]
  IN /\ q.op = "update" /\ ~NameTaken(q)
     /\ \A m \in Modules : synced[m] # mods[m] => ~Locked(r, m)
     /\ config' = Flushed(q.config, q.was, config)
     /\ mods' = synced
     /\ configStale' = IF q.config.blank THEN configStale
                       ELSE Active(mods) # DOMAIN q.seen \/ config # q.was
     /\ projreq' = [projreq EXCEPT ![r] = NoRequest]
     /\ UNCHANGED <<created, projServed, stale>>
UpdateFails(r) ==
  /\ projreq[r].op = "update" /\ NameTaken(projreq[r])
  /\ projreq' = [projreq EXCEPT ![r] = NoRequest]
  /\ UNCHANGED <<created, config, mods, projServed, stale, configStale>>

-----------------------------------------------------------------------------
(***************************************************************************)
(* Executions.                                                             *)
(***************************************************************************)
\* POST /projects/{id}/plan and /apply run every active module, and
\* /modules/{id}/plan and /apply the one that is named.  Nothing begins when
\* the modules have no order.
ExecuteLoad(r, op, targets) ==
  /\ created /\ Arrives(r)
  /\ targets = Active(mods) \/ \E m \in Modules : mods[m] # NoModule /\ targets = {m}
  /\ Active(mods) # {} /\ Resolvable(DependsOf(Load))
  /\ projreq' = [projreq EXCEPT ![r] =
       [ op |-> op, seen |-> Load, targets |-> targets \cap Active(mods),
         running |-> Nothing, wrote |-> [m \in Modules |-> "no"] ]]
  /\ UNCHANGED <<created, config, mods, stale, configStale>>

Due(q) == {m \in q.targets : q.wrote[m] = "no"}
\* Mutant: the modules run in any order.
ReadyAtOnce(q) == Due(q)

\* Mutant: a module waits for all it depends on, in the execution or not.
ReadyAfterAll(q) ==
  {m \in Due(q) : \A d \in DependsOn(DependsOf(q.seen), m) : q.wrote[d] # "no"}

\* The modules that may run next: those that are due in the first layer that
\* has any.
Ready(q) ==
  LET layers == Layers(DependsOf(q.seen))
      due(n) == layers[n] \cap Due(q)
  IN UNION {due(n) : n \in {k \in DOMAIN layers : \A i \in 1..k - 1 : due(i) = {}}}

RunModule(r, m) ==
  /\ Executing(projreq[r]) /\ projreq[r].running = Nothing /\ m \in Ready(projreq[r])
  /\ projreq' = [projreq EXCEPT ![r].running = m]
  /\ UNCHANGED <<created, config, mods, projServed, stale, configStale>>

\* Terraform ends - what fails or raises is caught, and the execution goes on -
\* and the run and the module's status are flushed, which waits for the row.
ModuleEnds(r, ended) ==
  LET q == projreq[r] IN
  /\ Executing(q) /\ q.running # Nothing /\ ~Locked(r, q.running)
  /\ ended = "ok" \/ (ended = "failed" /\ "terraform" \in ProjFaults)
  /\ projreq' = [projreq EXCEPT ![r] = [q EXCEPT !.wrote[q.running] = ended, !.running = Nothing]]
  /\ UNCHANGED <<created, config, mods, projServed, stale, configStale>>

\* Mutant: a failed apply leaves the module's status applied.
StatusOfOperation(op, ended) == IF op = "apply" THEN "applied" ELSE "planned"

StatusAfter(op, ended) ==
  IF ended = "failed" THEN "failed" ELSE IF op = "apply" THEN "applied" ELSE "planned"

\* A row after the execution: a status that is the one loaded is not written.
Written(q, m) ==
  [ mods[m] EXCEPT !.run = [op |-> q.op, ok |-> q.wrote[m] = "ok"],
                   !.status = Flushed(StatusAfter(q.op, q.wrote[m]), q.seen[m].status, @) ]

ExecuteCommit(r) ==
  LET q == projreq[r]
      rows == {m \in Modules : q.wrote[m] # "no"}
      written == [m \in Modules |-> IF m \in rows THEN Written(q, m) ELSE mods[m]]
  IN /\ Executing(q) /\ q.running = Nothing /\ Due(q) = {}
     /\ mods' = written
     /\ stale' = (stale \ rows) \cup {m \in rows : mods[m].status # q.seen[m].status}
     /\ configStale' = (configStale \/ Active(written) # Active(mods))
     /\ projreq' = [projreq EXCEPT ![r] = NoRequest]
     /\ UNCHANGED <<created, config, projServed>>

\* The server stops, the database fails, or two executions wait for each
\* other's rows and the database aborts one: everything the execution wrote is
\* rolled back, whatever terraform has applied.
ExecuteAborts(r) ==
  /\ "abort" \in ProjFaults
  /\ Executing(projreq[r])
  /\ projreq' = [projreq EXCEPT ![r] = NoRequest]
  /\ UNCHANGED <<created, config, mods, projServed, stale, configStale>>

ProjNext ==
  \/ \E c \in Configs, w \in BOOLEAN : CreateProject(c, w)
  \/ \E r \in ProjRequests :
       \/ \E c \in Configs : UpdateLoad(r, c)
       \/ UpdateCommit(r) \/ UpdateFails(r)
       \/ \E op \in Operations, targets \in SUBSET Modules : ExecuteLoad(r, op, targets)
       \/ \E m \in Modules : RunModule(r, m)
       \/ \E ended \in {"ok", "failed"} : ModuleEnds(r, ended)
       \/ ExecuteCommit(r) \/ ExecuteAborts(r)

ProjSpec == ProjInit /\ [][ProjNext]_projVars

-----------------------------------------------------------------------------
(***************************************************************************)
(* Properties.                                                             *)
(***************************************************************************)
\* An execution of the whole project runs a module only when it has tried all
\* the modules that one depends on, as its rows said when the execution loaded
\* them (execute_project goes through the layers in order).
DependenciesFirst ==
  \A r \in ProjRequests :
    LET q == projreq[r] IN
    (Executing(q) /\ q.targets = DOMAIN q.seen /\ q.running # Nothing) =>
      \A d \in DependsOn(DependsOf(q.seen), q.running) : q.wrote[d] # "no"

\* While modules of an execution are due, one may run: no order of layers, and
\* no selection of one module, leaves an execution with nothing to do
\* (resolve_execution_order, execute_project, execute_module).
ExecutionAdvances ==
  \A r \in ProjRequests :
    Executing(projreq[r]) /\ Due(projreq[r]) # {} => Ready(projreq[r]) # {}

\* A module's status says how its last run ended, or that the module has been
\* removed - unless the row changed between the load and the commit of the
\* execution that wrote it, which then writes part of a row.
StatusMatchesLastRun ==
  \A m \in Modules :
    LET row == mods[m] IN
    (row.run # NoRun /\ row.status # "removed" /\ m \notin stale) =>
      /\ row.status = "failed" <=> ~row.run.ok
      /\ row.status = "planned" => row.run.op = "plan"
      /\ row.status = "applied" => row.run.op = "apply"

\* The active modules are those of the configuration, unless the last update
\* worked on a table that had changed since it loaded it, or an execution
\* brought back a module that was removed under it (_sync_modules).
ModulesFollowConfig ==
  (created /\ ~config.blank /\ ~configStale) => Active(mods) = DOMAIN config.depends
=============================================================================

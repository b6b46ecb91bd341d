-------------------------- MODULE ProjectCatalogue --------------------------
(***************************************************************************)
(* The projects themselves: their names and status, their members and      *)
(* credentials, and who may do what (api/routes/project-routes.py,         *)
(* project-template-routes.py).  What is inside a project, its modules and *)
(* their runs, is in ProjectExecution.                                     *)
(*                                                                         *)
(* The name of a project is unique in its organisation, and a project      *)
(* without one is beside that constraint: a JWT carries its user's         *)
(* organisation, an API key none.  Adding a member always fails            *)
(* (add_member reads the user it has just loaded as if it were a           *)
(* dictionary, project-routes.py:285) and is no action here: the members   *)
(* of a project are those who created it.  No credential carries roles     *)
(* (auth-middleware.py:78-101), so that nobody passes as Keycloak's admin. *)
(***************************************************************************)
EXTENDS FiniteSets

CONSTANTS
  ProjectIds, ProjectNames, ProjectUsers, Providers,
  Orgs,              \* the organisations, and NoOrg
  CatalogueRequests  \* requests that create projects at a time

NoOrg == "no organisation"
ASSUME OrgsAssumption == NoOrg \in Orgs

VARIABLES
  projects,     \* table projects
  projMembers,  \* table project_members
  credentials,  \* table project_credentials
  creating      \* requests between the check of the name and the insert

catalogueVars == <<projects, projMembers, credentials, creating>>

ProjectStatus == {"draft", "active", "archived"}
Project == [name : ProjectNames, org : Orgs, status : ProjectStatus]
NoProject == [name |-> "none", org |-> "none", status |-> "none"]
\* The rows the tables may hold: each project's members and its providers once.
ProjectMembers == SUBSET ({p \in ProjectIds : projects[p] # NoProject} \X ProjectUsers)
ProjectCredentials == SUBSET ({p \in ProjectIds : projects[p] # NoProject} \X Providers)
Creation == [user : ProjectUsers, name : ProjectNames, org : Orgs]
NotCreating == [user |-> "none", name |-> "none", org |-> "none"]

\* uq_project_org_name, which NULL escapes.
NameIsFree(p, name, org) ==
  org = NoOrg \/ \A q \in ProjectIds \ {p} : ~(projects[q].name = name /\ projects[q].org = org)

CatalogueTypeOK ==
  /\ projects \in [ProjectIds -> Project \cup {NoProject}]
  /\ \A p \in ProjectIds : projects[p] # NoProject => NameIsFree(p, projects[p].name, projects[p].org)
  /\ projMembers \in ProjectMembers
  /\ credentials \in ProjectCredentials
  /\ creating \in [CatalogueRequests -> Creation \cup {NotCreating}]

CatalogueInit ==
  /\ projects = [p \in ProjectIds |-> NoProject]
  /\ projMembers = {}
  /\ credentials = {}
  /\ creating = [r \in CatalogueRequests |-> NotCreating]

-----------------------------------------------------------------------------
\* _require_project_member.
MayUse(u, p) == projects[p] # NoProject /\ <<p, u>> \in projMembers

\* Mutant: the constraint on names is forgotten, as if they were checked.
InsertUnchecked(p, u, name, org) ==
  /\ projects[p] = NoProject
  /\ projects' = [projects EXCEPT ![p] = [name |-> name, org |-> org, status |-> "draft"]]
  /\ projMembers' = projMembers \cup {<<p, u>>}

Insert(p, u, name, org) ==
  /\ projects[p] = NoProject
  /\ NameIsFree(p, name, org)
  /\ projects' = [projects EXCEPT ![p] = [name |-> name, org |-> org, status |-> "draft"]]
  /\ projMembers' = projMembers \cup {<<p, u>>}

\* POST /projects looks for the name among the projects that are not archived ...
CreateCheck(r, u, name, org) ==
  /\ creating[r] = NotCreating
  /\ ~\E p \in ProjectIds :
        projects[p].name = name /\ projects[p].org = org /\ projects[p].status # "archived"
  /\ creating' = [creating EXCEPT ![r] = [user |-> u, name |-> name, org |-> org]]
  /\ UNCHANGED <<projects, projMembers, credentials>>
\* ... and inserts it with the creator as its first member, or fails: another
\* row, an archived one included, has taken the name, or the answer reads
\* relationships of the new row that it has not loaded.
CreateInsert(r, p) ==
  /\ creating[r] # NotCreating
  /\ Insert(p, creating[r].user, creating[r].name, creating[r].org)
  /\ creating' = [creating EXCEPT ![r] = NotCreating]
  /\ UNCHANGED credentials
CreateFails(r) ==
  /\ creating[r] # NotCreating
  /\ creating' = [creating EXCEPT ![r] = NotCreating]
  /\ UNCHANGED <<projects, projMembers, credentials>>

\* A project from a template or from the wizard: no check of the name.
CreateUnchecked(p, u, name, org) ==
  Insert(p, u, name, org) /\ UNCHANGED <<credentials, creating>>

\* PATCH /projects/{id}: the name and the status, which may leave "archived".
UpdateProject(p, u, name, status) ==
  /\ MayUse(u, p) /\ NameIsFree(p, name, projects[p].org)
  /\ projects' = [projects EXCEPT ![p].name = name, ![p].status = status]
  /\ UNCHANGED <<projMembers, credentials, creating>>

\* DELETE /projects/{id}.
ArchiveProject(p, u) ==
  /\ MayUse(u, p)
  /\ projects' = [projects EXCEPT ![p].status = "archived"]
  /\ UNCHANGED <<projMembers, credentials, creating>>

\* DELETE /projects/{id}/members/{user}: any member removes any, the last one
\* and himself included.
RemoveMember(p, u, target) ==
  /\ MayUse(u, p) /\ <<p, target>> \in projMembers
  /\ projMembers' = projMembers \ {<<p, target>>}
  /\ UNCHANGED <<projects, credentials, creating>>

\* POST /projects/{id}/credentials: a second one for a provider violates the
\* unique provider, and nothing replaces or deletes one.
AddCredential(p, u, provider) ==
  /\ MayUse(u, p) /\ <<p, provider>> \notin credentials
  /\ credentials' = credentials \cup {<<p, provider>>}
  /\ UNCHANGED <<projects, projMembers, creating>>

CatalogueNext ==
  \/ \E r \in CatalogueRequests :
       \/ \E u \in ProjectUsers, name \in ProjectNames, org \in Orgs : CreateCheck(r, u, name, org)
       \/ \E p \in ProjectIds : CreateInsert(r, p)
       \/ CreateFails(r)
  \/ \E p \in ProjectIds, u \in ProjectUsers :
       \/ \E name \in ProjectNames :
            \/ \E org \in Orgs : CreateUnchecked(p, u, name, org)
            \/ \E status \in ProjectStatus : UpdateProject(p, u, name, status)
       \/ ArchiveProject(p, u)
       \/ \E target \in ProjectUsers : RemoveMember(p, u, target)
       \/ \E provider \in Providers : AddCredential(p, u, provider)

CatalogueSpec == CatalogueInit /\ [][CatalogueNext]_catalogueVars
=============================================================================

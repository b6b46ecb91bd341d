----------------------------- MODULE Composition -----------------------------
(***************************************************************************)
(* Terraform code that the server writes itself: the starter files of a    *)
(* project's modules (core/project-scaffolder.py), the code of a stack     *)
(* (core/stack-composer.py, api/routes/stack-routes.py), and the templates *)
(* of projects (core/project-template-engine.py).                          *)
(*                                                                         *)
(* A name is a sequence of characters, for names are rewritten and then    *)
(* meet; of a file there is what makes it valid to terraform.              *)
(***************************************************************************)
EXTENDS DependencyOrder, Sequences, SequencesExt

Rewritten(name, Char(_)) == [i \in DOMAIN name |-> Char(name[i])]

-----------------------------------------------------------------------------
(***************************************************************************)
(* Scaffolding                                                             *)
(***************************************************************************)
KnownProviders == {"aws", "proxmox"}

\* The directory of a project, and the names of variables and of outputs.
ProjectDir(name) == Rewritten(name, LAMBDA c : IF c = "A" THEN "a" ELSE IF c = " " THEN "-" ELSE c)
SafeDep(name) == Rewritten(name, LAMBDA c : IF c \in {"-", " "} THEN "_" ELSE c)
SafeName(name) == Rewritten(name, LAMBDA c : IF c = "-" THEN "_" ELSE c)

\* The blocks of the known providers are no format strings, but are written as
\* if they were: their braces come out doubled.
ProviderBlock(provider) == IF provider \in KnownProviders THEN "doubled braces" ELSE "comment"
MainTf(provider) == [provider |-> ProviderBlock(provider)]
ProviderTf(provider) == [source |-> provider, pinned |-> provider \in KnownProviders]
VariablesTf(provider, depends) ==
  (IF provider \in KnownProviders THEN << <<provider>> >> ELSE <<>>)
    \o [i \in DOMAIN depends |-> <<"upstream", SafeDep(depends[i]), "id">>]
    \o [i \in DOMAIN depends |-> <<"upstream", SafeDep(depends[i]), "output">>]
OutputsTf(name) == [output |-> SafeName(name)]

StarterFiles(m) ==
  [main |-> MainTf(m.provider), variables |-> VariablesTf(m.provider, m.depends),
   outputs |-> OutputsTf(m.name), provider |-> ProviderTf(m.provider)]

\* The disk has the four files of each directory.
ModuleDir(project, m) == <<ProjectDir(project.name), m.provider, m.name>>
Kept(project) == SelectSeq(project.modules, LAMBDA m : ~m.removed)
ScaffoldProject(disk, project) ==
  FoldLeft(LAMBDA d, m : [p \in DOMAIN d \cup {ModuleDir(project, m)} |->
                            IF p = ModuleDir(project, m) THEN StarterFiles(m) ELSE d[p]],
           disk, Kept(project))

\* The reply counts what is below the directory of the project.
ScaffoldReply(disk, found, project) ==
  IF ~found THEN [status |-> 404, count |-> 0]
  ELSE [status |-> 202,
        count |-> Cardinality({p \in DOMAIN ScaffoldProject(disk, project) : p[1] = ProjectDir(project.name)})]

-----------------------------------------------------------------------------
(***************************************************************************)
(* Stacks                                                                  *)
(***************************************************************************)
Names(modules) == {modules[i].name : i \in DOMAIN modules}

ModuleBlock(m, registry) ==
  [name |-> m.name, source |-> <<registry, m.source>>, pinned |-> m.version # "", references |-> m.depends]
StackMainTf(modules, registry) == [i \in DOMAIN modules |-> ModuleBlock(modules[i], registry)]
StackOutputsTf(modules) == [i \in DOMAIN modules |-> modules[i].name]
StackVariablesTf(variables) ==
  [i \in DOMAIN variables |-> [name |-> variables[i].name, set |-> variables[i].default # "null"]]

\* The graph has the last of the modules with one name, but every module is
\* looked at for names that are of none.
StackGraph(modules) ==
  [n \in Names(modules) |->
     LET m == modules[SelectLastInSeq(modules, LAMBDA k : k.name = n)] IN [d \in m.depends |-> 1]]
ComposeWarnings(modules) ==
  UNION {{"undefined"} \X {i} \X (modules[i].depends \ Names(modules)) : i \in DOMAIN modules}
    \cup {<<w>> : w \in StackWarnings(StackGraph(modules)) \cap {"circular"}}

ComposeProject(composed, project, stack, registry) ==
  LET files == [main |-> StackMainTf(stack.modules, registry), outputs |-> StackOutputsTf(stack.modules),
                variables |-> StackVariablesTf(stack.variables)] IN
  [files |-> files, warnings |-> ComposeWarnings(stack.modules),
   composed |-> [p \in DOMAIN composed \cup {project} |-> IF p = project THEN files ELSE composed[p]]]
ComposeReply(composed, project, stack, registry) ==
  [status |-> 200, generated |-> ComposeProject(composed, project, stack, registry).files,
   warnings |-> ComposeProject(composed, project, stack, registry).warnings]

-----------------------------------------------------------------------------
(***************************************************************************)
(* Templates of projects: files of YAML, by the stem of their name         *)
(***************************************************************************)
\* A mapping without a name ends the list; what is no mapping is passed over.
ListProjectTemplates(files, category) ==
  LET found == {f \in files : f.is = "mapping" /\ category \in {"any", f.category}} IN
  IF \E f \in found : f.name = "" THEN [error |-> "KeyError"]
  ELSE [error |-> "none", value |-> {f.name : f \in found}]
GetProjectTemplate(files, name) ==
  LET found == {f \in files : f.stem = name /\ f.is \in {"mapping", "other"}} IN
  IF found = {} THEN [is |-> "none"] ELSE CHOOSE f \in found : TRUE
ProjectTemplateReply(files, name) ==
  LET f == GetProjectTemplate(files, name) IN
  CASE f.is = "none" -> 404
    [] f.is = "mapping" -> IF f.name = "" THEN 500 ELSE 200
    [] f.is = "other" -> 500
=============================================================================

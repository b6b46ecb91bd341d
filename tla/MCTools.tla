------------------------------- MODULE MCTools -------------------------------
(***************************************************************************)
(* The functions of TerraformCommands, Templates and CommandLine against   *)
(* what they promise, for processes, templates and answers of small size.  *)
(***************************************************************************)
LOCAL INSTANCE CommandLine

-----------------------------------------------------------------------------
(***************************************************************************)
(* Processes                                                               *)
(***************************************************************************)
Update1 == [address |-> "a", actions |-> {"update"}]
Same2 == [address |-> "b", actions |-> {"no-op"}]
SomeLines == {LineOf("text"), LineOf("destroyed"), LineOf("planned_changes"), LineOf("valid"),
              ChangesLine({Update1, Same2}), ChangesLine({Same2}), OutputsLine({"ip"})}
Outs == {<<>>} \cup {<<l>> : l \in SomeLines} \cup {<<l, m>> : l, m \in SomeLines}
           \cup {<<l, m, n>> : l, m, n \in SomeLines}
Exiting == [ends : {"exits"}, code : 0..2, out : Outs]
Processes == Exiting \cup {[ends |-> e, code |-> 0, out |-> <<>>] : e \in {"hangs", "absent"}}

Commands(p) == {TfInit(p), TfPlan(p), TfApply(p), TfDestroy(p), TfOutput(p), TfShow(p)}

\* A command that is killed at the timeout, or cannot be started, is never
\* taken for one that has worked.
ASSUME NoResultAssumption ==
  \A p \in Processes :
    /\ p.ends = "hangs"  => \A r \in Commands(p) : r.error = "TimeoutError" /\ Status(r.error) = 504
    /\ p.ends = "absent" => \A r \in Commands(p) : r.error = "TerraformError" /\ Status(r.error) = 422

\* What a plan or an apply reports is what the last such object of the output
\* says, without the resources that stay as they are, and a plan succeeds just
\* when terraform has.
ASSUME ReportedAssumption ==
  \A p \in Exiting :
    LET At(kinds) == {i \in DOMAIN p.out : p.out[i].kind \in kinds}
        Final(kinds) == CHOOSE i \in At(kinds) : \A j \in At(kinds) : j <= i
        Said(kinds) == IF At(kinds) = {} THEN {}
                       ELSE {c.address : c \in {d \in p.out[Final(kinds)].changes : d.actions # {"no-op"}}}
        plan == TfPlan(p)
        apply == TfApply(p) IN
    /\ plan.error = "none" => /\ plan.value.success <=> p.code \in {0, 2}
                              /\ {c.address : c \in plan.value.changes} = Said({"changes", "planned_changes"})
    /\ plan.error # "none" => p.code = 1 /\ p.out = <<>>
    /\ apply.error = "none" <=> p.code = 0
    /\ apply.error = "none" => {c.address : c \in apply.value.changes} = Said({"changes"})

\* A stream gives the lines in order up to where it stops.  It stops early, and
\* then the process is killed, just when the error output has filled its pipe
\* or a line is too long.
Writes == UNION {[1..n -> {"line", "long line", "error"}] : n \in 0..4}
ASSUME StreamAssumption ==
  \A w \in Writes : \A ends \in {"exits", "hangs"} : \A room \in 0..2 :
    LET s == Stream([writes |-> w, ends |-> ends], room)
        Count(kind) == Cardinality({i \in DOMAIN w : w[i] = kind}) IN
    /\ Len(s.lines) <= Count("line")
    /\ s.killed <=> s.error # "none"
    /\ s.error = "none" <=> ends = "exits" /\ Count("long line") = 0 /\ Count("error") <= room
    /\ s.error = "none" => Len(s.lines) = Count("line")

\* A bulk import that replies has tried every item.  One that fails at an item
\* without its keys has imported those before it, and reports none of them.
Items == UNION {[1..n -> [complete : BOOLEAN, address : {"a", "b"},
                          process : {[ends |-> "exits", code |-> c, out |-> <<>>] : c \in 0..1}]] : n \in 0..2}
ASSUME BulkImportAssumption ==
  \A items \in Items :
    LET reply == BulkImportReply(TRUE, items) IN
    /\ reply.status = 200 <=> \A i \in DOMAIN items : items[i].complete
    /\ reply.status = 200 =>
         Imported(TRUE, items) = {reply.results[i].address : i \in {j \in DOMAIN items : reply.results[j].success}}
    /\ reply.status # 200 =>
         /\ reply.status = 500 /\ \E i \in DOMAIN items : ~items[i].complete
         /\ \A i \in DOMAIN items : Success(RunProcess(items[i].process)) /\ (\A j \in 1..i : items[j].complete)
              => items[i].address \in Imported(TRUE, items)

-----------------------------------------------------------------------------
(***************************************************************************)
(* Templates                                                               *)
(***************************************************************************)
VarTypes == {"string", "number", "bool", "list"}
VarEntries == [name : {"x", "y"}, type : VarTypes, default : {NoValue, "blank", "word", "int", "bool", "list"},
            required : {"yes", "no", "unset"}]
EntrySets == {{e} : e \in {d \in VarEntries : d.name = "x"}}
PairSets == {{d, e} : d \in {f \in VarEntries : f.name = "x" /\ f.type = "string"},
                      e \in {f \in VarEntries : f.name = "y" /\ f.type # "string"}}
SomeBlocks == {{}, {[type |-> "aws_vpc", names |-> {"main"}]}, {[type |-> "shell", names |-> {"main"}]}}
Mains(needs) == [there : {TRUE}, syntax : BOOLEAN, needs : needs, hcl : [parses : {TRUE}, blocks : SomeBlocks]]
AllowedTypes == {"aws_vpc"}

VariablesFile(entries, shape) == [there |-> TRUE, shape |-> shape, entries |-> entries]
FilesOf(main, variables) == [f \in {"main.tf.j2", "variables.json"} |-> IF f = "main.tf.j2" THEN main ELSE variables]
Home == <<"aws", "t">>
LibraryOf(files) == Home :> files
GivenX == {<<>>} \cup {("x" :> value) : value \in Values}

\* A template that renders has a value for all it needs, of the declared type
\* where it was given; a blank text is as good as none; and what is refused is
\* refused for a value that is missing or of another type.
ASSUME RenderAssumption ==
  \A entries \in EntrySets : \A needs \in SUBSET {"x"} : \A given \in GivenX :
    LET main == [there |-> TRUE, syntax |-> TRUE, needs |-> needs, hcl |-> [parses |-> TRUE, blocks |-> {}]]
        library == LibraryOf(FilesOf(main, VariablesFile(entries, "wrapped")))
        e == CHOOSE d \in entries : TRUE
        r == RenderTemplate(library, Home, given)
        none == RenderTemplate(library, Home, <<>>) IN
    /\ r.error = "none" =>
         /\ needs \subseteq DOMAIN r.value.values
         /\ "x" \in DOMAIN r.value.values =>
              \/ IsInstance(r.value.values["x"], e.type)
              \/ r.value.values["x"] = e.default /\ (given = <<>> \/ given["x"] = "blank")
    /\ given # <<>> /\ given["x"] = "blank" => r = none
    /\ r.error = "ValidationError" => Reply(r) = 400
    /\ r.error = "TemplateError" => e.default = NoValue /\ ~Required(e)

\* The studio and the engine agree on a package whose variables.json has the
\* shape that both read: when no variable must be given, it is valid in the
\* studio just when the engine renders it and its resources are allowed.
ASSUME StudioAssumption ==
  \A entries \in PairSets : \A main \in Mains(SUBSET {"x", "y"}) :
    LET files == FilesOf(main, VariablesFile(entries, "wrapped"))
        rendered == RenderTemplate(LibraryOf(files), Home, <<>>) IN
    (\A e \in entries : Required(e) => e.default # NoValue) =>
      (ValidateTemplate(files, AllowedTypes).valid <=>
         rendered.error = "none" /\ ValidateFull(rendered.value.hcl, AllowedTypes))

\* A package that is saved under a full name is loaded as it was, nothing else
\* in the library changes, and the list shows it, unless its variables are the
\* bare list that the studio takes for valid: then no template is listed.
Packages ==
  LET Named(name, shape) ==
        Package(name, <<"aws">>, FilesOf([there |-> TRUE, syntax |-> TRUE, needs |-> {}, hcl |-> [parses |-> TRUE, blocks |-> {}]],
          VariablesFile({[name |-> "x", type |-> "string", default |-> "word", required |-> "no"]}, shape))) IN
  {Named(name, shape) : name \in {<<"aws", "t">>, <<"aws", "u">>, <<"t">>}, shape \in {"wrapped", "bare", "by name"}}
ASSUME LibraryAssumption ==
  \A first, second \in Packages :
    LET one == SaveTemplate(<<>>, first, FALSE).value
        saved == SaveTemplate(one, second, FALSE)
        two == saved.value
        listed == ListTemplates(two, {"aws"}) IN
    /\ saved.error # "none" <=> SavePath(second) = SavePath(first)
    /\ saved.error = "none" =>
         /\ \A path \in DOMAIN one : two[path] = one[path]
         /\ Len(second.name) = 2 => LoadTemplate(two, second.name).value[<<>>] = second.files
         /\ Len(second.name) = 1 => LoadReply(two, second.name) = 404
         /\ listed.error = "none" <=> ~ \E p \in {first, second} : p.files["variables.json"].shape = "bare"
         /\ listed.error = "none" => listed.value = {SavePath(first), SavePath(second)}
    /\ ValidateTemplate(second.files, {}).valid

\* The wizard begins and ends as it must, whatever the AI proposes.
ASSUME WizardAssumption ==
  \A steps \in UNION {[1..n -> {"provider", "compute", "dance", "review"}] : n \in 0..3} :
    LET wizard == AnalyzeWizardSteps([error |-> "none", steps |-> steps]) IN
    /\ {"provider", "review"} \subseteq Range(wizard) /\ Range(wizard) \subseteq WizardSteps
    /\ Len(wizard) <= Len(steps) + 2
    /\ "provider" \notin Range(steps) => wizard[1] = "provider"

\* An AI that fails leaves a package as it was when it refines it, and gives
\* one without files, which passes for valid, when it generates one.
ASSUME FailureAssumption ==
  \A p \in Packages :
    LET failed == [error |-> "LLMError"] IN
    /\ RefineTemplate(p, failed) = p
    /\ LET made == GenerateTemplate(failed, p.name, p.providers) IN
       ValidateTemplate(made.files, {}).valid /\ ValidateTemplate(made.files, {}).warnings # {}

-----------------------------------------------------------------------------
(***************************************************************************)
(* Commands                                                                *)
(***************************************************************************)
Options == [json : BOOLEAN, autoApprove : BOOLEAN, planFile : BOOLEAN, varFile : {FALSE},
            out : {FALSE}, destroy : {FALSE}]
CLIProcesses == {p \in Processes : Len(p.out) <= 1}

\* Nothing is applied or destroyed that was not asked for, and without --json
\* and --auto-approve only after the user has confirmed it.
ASSUME ConfirmedAssumption ==
  \A o \in Options : \A yes \in BOOLEAN : \A word \in {"destroy", "no"} : \A p \in CLIProcesses :
    LET applied == ApplyCommand(o, TRUE, yes, p)
        destroyed == DestroyCommand(o, TRUE, yes, word, p) IN
    /\ applied.ran # NotRun => yes \/ o.autoApprove \/ o.json
    /\ destroyed.ran # NotRun => (yes /\ word = "destroy") \/ o.autoApprove \/ o.json
    /\ destroyed.ran # NotRun => (destroyed.exit = 0 <=> p.ends = "exits" /\ p.code = 0)
    \* A confirmed apply without a plan file is refused by terraform.
    /\ yes /\ ~o.planFile /\ ~o.autoApprove => applied.exit = 1 \/ applied.ran = NotRun

\* Only a plan that terraform could not make at all ends with an error.
ASSUME PlanExitAssumption ==
  \A o \in Options : \A p \in CLIProcesses :
    PlanCommand(o, TRUE, p).exit = 0 <=> p.ends = "exits" /\ (p.code \in {0, 2} \/ p.out # <<>>)

\* Whoever accepts all defaults gets the template, if each required variable
\* has one that is of its type (not a bool for a number), and it can be typed in.
ASSUME DefaultsAssumption ==
  \A entries \in PairSets : \A main \in {m \in Mains(SUBSET {"x", "y"}) : m.syntax} :
    LET library == LibraryOf(FilesOf(main, VariablesFile(entries, "wrapped"))) IN
    (\A e \in entries : /\ e.default # NoValue /\ IsInstance(e.default, e.type)
                        /\ e.type # "list" /\ (e.default = "bool" => e.type = "bool")) =>
      TemplateUse(library, Home, TRUE, <<>>, <<>>, FALSE).exit = 0

\* Whatever is asked of the command line, terraform changes something only for
\* apply, destroy and import; an error that is shown ends with code 1.
World(p) == [there |-> TRUE, code |-> TRUE, process |-> p, yes |-> FALSE, word |-> "no", provider |-> "aws",
             report |-> [raises |-> FALSE, error |-> FALSE, drift |-> FALSE], records |-> <<>>]
Changes(outcome) == outcome.ran.command \in {"apply", "destroy", "import"}
ASSUME TopLevelAssumption ==
  \A o \in Options : \A p \in CLIProcesses :
    \A command \in {"init", "plan", "apply", "destroy", "status", "explain"} :
      LET outcome == TopLevel(command, o, World(p)) IN
      /\ Changes(outcome) => command \in {"apply", "destroy"} /\ (o.json \/ o.autoApprove)
      /\ outcome.shown \in {"error", "traceback"} <=> outcome.exit = 1
ASSUME SubcommandAssumption ==
  \A json \in BOOLEAN : \A p \in CLIProcesses :
    LET single == ImportApp("resource", json, [World(p) EXCEPT !.there = TRUE], "list",
                            <<[complete |-> TRUE, address |-> "a", process |-> p]>>)
        many == ImportApp("bulk", json, World(p), "list",
                          <<[complete |-> TRUE, address |-> "a", process |-> p]>>) IN
    /\ single.exit = many.exit
    /\ json => single.exit = 0 /\ many.exit = 0
    /\ ~json => (single.exit = 0 <=> Success(RunProcess(p)))
    /\ DriftApp("check", json, World(p)).exit = 0

\* The workspace that is switched to is the current one only by chance: terraform
\* keeps its choice in the directory of the workspace, and the base is looked at.
ASSUME SwitchAssumption ==
  LET ws == [dirs |-> {"a", "b"}, selected |-> [w \in {"a", "b"} |-> "default"], selectedInBase |-> "default"]
      done == [ends |-> "exits", code |-> 0, out |-> <<>>] IN
  \A name \in {"a", "b", "c"} :
    LET switched == WorkspaceApp("switch", FALSE, ws, name, done) IN
    /\ switched.exit = 0 <=> name \in ws.dirs
    /\ WorkspaceCurrent(switched.ws) = WorkspaceCurrent(ws)
    /\ WorkspaceApp("delete", FALSE, ws, name, done).ws = ws
    /\ name \notin WorkspaceApp("delete", TRUE, ws, name, done).ws.dirs
=============================================================================

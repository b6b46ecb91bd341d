----------------------------- MODULE CommandLine -----------------------------
(***************************************************************************)
(* The command line terrabot (cli/main.py, cli/commands, cli/formatters).  *)
(*                                                                         *)
(* Each command is a function of its options, of what it finds, of the     *)
(* answers of its user, and of what terraform does.  Its outcome is the    *)
(* exit code, the terraform command that was run, if any, with its         *)
(* arguments, and what it shows: nothing, an error, a table or JSON.  An   *)
(* error that is not caught ends the program with code 1 and a traceback.  *)
(***************************************************************************)
EXTENDS Templates

NotRun == [command |-> "none", args |-> {}]
Ran(command, args) == [command |-> command, args |-> args]
Outcome(exit, ran, shown) == [exit |-> exit, ran |-> ran, shown |-> shown]
Shown(json, what) == IF json THEN "json" ELSE what

\* What a command makes of the result of the runner: only a TerraformError is
\* caught, but both end with code 1.
Conclude(result, ran, json, what) ==
  IF result.error = "none" THEN Outcome(0, ran, Shown(json, what))
  ELSE Outcome(1, ran, IF result.error = "TerraformError" THEN "error" ELSE "traceback")

\* terraform as it does, unless it refuses the arguments.
Obeys(command, args, p) ==
  IF Refuses(command, args) /\ p.ends = "exits" THEN [p EXCEPT !.code = 1, !.out = <<>>] ELSE p

-----------------------------------------------------------------------------
(***************************************************************************)
(* plan, apply and destroy                                                 *)
(***************************************************************************)
\* The summary of a plan counts its changes, and does not say that it failed.
PlanShows(changes) == IF changes = {} THEN "no changes" ELSE "table"

PlanCommand(o, there, p) ==
  LET args == PlanArgs(o.varFile, o.out, o.destroy) IN
  IF ~there THEN Outcome(1, NotRun, "error")
  ELSE Conclude(TfPlan(p), Ran("plan", args), o.json, PlanShows(TfPlan(p).value.changes))

\* One question, unless --auto-approve or --json is given.
ApplyCommand(o, there, yes, p) ==
  LET asks == ~o.autoApprove /\ ~o.json
      args == ApplyArgs(o.planFile, o.autoApprove \/ o.planFile, o.varFile)
      result == TfApply(Obeys("apply", args, p)) IN
  IF ~there THEN Outcome(1, NotRun, "error")
  ELSE IF asks /\ ~yes THEN Outcome(0, NotRun, "cancelled")
  ELSE Conclude(result, Ran("apply", args), o.json, "table")

\* Two questions, unless --auto-approve or --json is given.
DestroyCommand(o, there, yes, word, p) ==
  LET asks == ~o.autoApprove /\ ~o.json
      args == DestroyArgs(TRUE, o.varFile)
      result == TfDestroy(Obeys("destroy", args, p)) IN
  IF ~there THEN Outcome(1, NotRun, "error")
  ELSE IF asks /\ ~(yes /\ word = "destroy") THEN Outcome(0, NotRun, "cancelled")
  ELSE Conclude(result, Ran("destroy", args), o.json, "table")

-----------------------------------------------------------------------------
(***************************************************************************)
(* status, drift and import                                                *)
(***************************************************************************)
\* The outputs of terraform are shown if they can be had; with --json no error
\* matters, without it a timeout does.
StatusCommand(o, there, code, p) ==
  LET result == TfOutput(p) IN
  IF ~(there /\ code) THEN Outcome(0, NotRun, Shown(o.json, "table"))
  ELSE IF o.json \/ result.error \in {"none", "TerraformError"}
       THEN Outcome(0, Ran("output", {"-json", "-no-color"}), Shown(o.json, "table"))
       ELSE Outcome(1, Ran("output", {"-json", "-no-color"}), "traceback")

\* With --json a report that is an error is printed like any other.
DriftCheck(json, there, report) ==
  LET ran == IF there THEN Ran("plan", {"-json", "-no-color", "-detailed-exitcode", "-refresh-only"}) ELSE NotRun IN
  IF report.raises \/ (report.error /\ ~json) THEN Outcome(1, ran, "error")
  ELSE Outcome(0, ran, Shown(json, IF report.drift THEN "table" ELSE "no drift"))
DriftHistory(json, records) ==
  Outcome(0, NotRun, IF json THEN "json" ELSE IF records = <<>> THEN "no history" ELSE "table")

ImportCommand(json, there, address, p) ==
  LET result == RunImport(there, address, p)
      ran == IF there THEN Ran("import", {"-no-color"}) ELSE NotRun IN
  IF json THEN Outcome(0, ran, "json")
  ELSE IF result.success THEN Outcome(0, ran, "table") ELSE Outcome(1, ran, "error")

\* The mapping file is missing, broken, or a list of items.
ImportBulk(json, file, there, items) ==
  LET result == BulkImport(there, items)
      ran == IF there /\ Attempted(items) # {} THEN Ran("import", {"-no-color"}) ELSE NotRun IN
  IF file # "list" THEN Outcome(1, NotRun, "error")
  ELSE IF result.error # "none" THEN Outcome(1, ran, "error")
  ELSE IF json THEN Outcome(0, ran, "json")
  ELSE Outcome(IF \A i \in DOMAIN items : result.value[i].success THEN 0 ELSE 1, ran, "table")

ImportConfig(json) == Outcome(0, NotRun, Shown(json, "stub"))

-----------------------------------------------------------------------------
(***************************************************************************)
(* template                                                                *)
(***************************************************************************)
TemplateList(library, providers, json) ==
  LET result == ListTemplates(library, providers) IN
  IF result.error # "none" THEN Outcome(1, NotRun, "traceback")
  ELSE Outcome(0, NotRun, IF result.value = {} THEN "none found" ELSE Shown(json, "table"))
TemplateInfo(library, path, json) ==
  CASE GetTemplate(library, path).error = "none" -> Outcome(0, NotRun, Shown(json, "table"))
    [] GetTemplate(library, path).error = "TemplateError" -> Outcome(1, NotRun, "error")
    [] OTHER -> Outcome(1, NotRun, "traceback")

\* The text that a default is offered as, and what is made of the answer.
AsText(default) ==
  CASE default \in Texts -> default
    [] default = "int"   -> "digits"
    [] default = "bool"  -> "truth"
    [] default \in {"list", "map"} -> "word"
    [] default = NoValue -> "blank"
ReadAnswer(text, type) ==
  CASE type = "number" -> IF text \in {"digits", "bit"} THEN "int" ELSE text
    [] type = "bool"   -> "bool"
    [] OTHER -> text

\* Every variable gets a value: the one of --var, the default of one that is
\* optional, or the answer, where an empty answer (no entry here) is the default.
PromptMissingVars(variables, args, answers) ==
  LET Ask(v) == IF v.name \in DOMAIN answers THEN answers[v.name] ELSE AsText(v.default)
      Var(n) == CHOOSE v \in variables : v.name = n IN
  [n \in DOMAIN args \cup {v.name : v \in variables} |->
     IF n \in DOMAIN args THEN args[n]
     ELSE IF ~Var(n).required /\ Var(n).default # NoValue THEN Var(n).default
     ELSE ReadAnswer(Ask(Var(n)), Var(n).type)]

TemplateUse(library, path, wellFormed, args, answers, json) ==
  LET template == GetTemplate(library, path)
      result == RenderTemplate(library, path, PromptMissingVars(template.value, args, answers)) IN
  IF template.error # "none" THEN TemplateInfo(library, path, json)
  ELSE IF ~wellFormed \/ result.error \in {"ValidationError", "TemplateError"} THEN Outcome(1, NotRun, "error")
  ELSE Outcome(0, NotRun, Shown(json, "hcl"))

-----------------------------------------------------------------------------
(***************************************************************************)
(* init and workspace                                                      *)
(***************************************************************************)
Providers == {"aws", "proxmox"}
Credentials(provider) ==
  IF provider = "aws" THEN {"AWS_ACCESS_KEY_ID", "AWS_SECRET_ACCESS_KEY", "AWS_DEFAULT_REGION"}
  ELSE {"PROXMOX_VE_ENDPOINT", "PROXMOX_VE_USERNAME", "PROXMOX_VE_PASSWORD"}

\* The credentials that are set, or were answered: those go with the process.
Configured(provider, environment, answered) == Credentials(provider) \cap (environment \cup answered)
\* .terrabot.toml and the directory are written whatever is configured.
InitCommand(json, provider) ==
  IF provider \notin Providers THEN Outcome(1, NotRun, "error") ELSE Outcome(0, NotRun, Shown(json, "written"))
ExplainCommand(json) == Outcome(0, NotRun, Shown(json, "coming soon"))

\* The workspace directories, and what terraform has selected in each of them
\* and in the base directory.
WorkspaceCreate(ws, name) == [exit |-> 0, ws |-> [ws EXCEPT !.dirs = @ \cup {name}]]
WorkspaceSwitch(ws, name, p) ==
  IF name \notin ws.dirs \/ RunProcess(p).code # 0 THEN [exit |-> 1, ws |-> ws]
  ELSE [exit |-> 0, ws |-> [ws EXCEPT !.selected = (name :> name) @@ @]]
WorkspaceDelete(ws, name, confirmed) ==
  [exit |-> 0, ws |-> IF confirmed THEN [ws EXCEPT !.dirs = @ \ {name}] ELSE ws]
WorkspaceCurrent(ws) == ws.selectedInBase

-----------------------------------------------------------------------------
(***************************************************************************)
(* main.py: the commands with their options                                *)
(***************************************************************************)
TopLevel(command, o, w) ==
  CASE command = "init"    -> InitCommand(o.json, w.provider)
    [] command = "plan"    -> PlanCommand(o, w.there, w.process)
    [] command = "apply"   -> ApplyCommand(o, w.there, w.yes, w.process)
    [] command = "destroy" -> DestroyCommand(o, w.there, w.yes, w.word, w.process)
    [] command = "status"  -> StatusCommand(o, w.there, w.code, w.process)
    [] command = "explain" -> ExplainCommand(o.json)

TemplateApp(command, json, library, path, args, answers) ==
  CASE command = "list" -> TemplateList(library, {path[1]}, json)
    [] command = "use"  -> TemplateUse(library, path, TRUE, args, answers, json)
    [] command = "info" -> TemplateInfo(library, path, json)

DriftApp(command, json, w) ==
  CASE command = "check"   -> DriftCheck(json, w.there, w.report)
    [] command = "history" -> DriftHistory(json, w.records)

\* yes is --yes, or the answer to the question.
WorkspaceApp(command, yes, ws, name, p) ==
  CASE command = "create" -> WorkspaceCreate(ws, name)
    [] command = "switch" -> WorkspaceSwitch(ws, name, p)
    [] command = "delete" -> WorkspaceDelete(ws, name, yes)
    [] command \in {"list", "current"} -> [exit |-> 0, ws |-> ws]

ImportApp(command, json, w, file, items) ==
  CASE command = "resource" -> ImportCommand(json, w.there, items[1].address, w.process)
    [] command = "bulk"     -> ImportBulk(json, file, w.there, items)
    [] command = "config"   -> ImportConfig(json)
=============================================================================

-------------------------- MODULE TerraformCommands --------------------------
(***************************************************************************)
(* The commands of terraform as the server and the command line run them:  *)
(* core/subprocess-executor.py runs a process to its end or streams what   *)
(* it writes, core/terraform-runner.py chooses the arguments and reads the *)
(* result, core/import-wizard.py imports resources that exist already, and *)
(* api/middleware/error-handler.py turns what is raised into a status.     *)
(*                                                                         *)
(* All of it is a function of what the process does.  A process ends with  *)
(* a code, hangs until the timeout, or is absent (no binary, or no         *)
(* directory to run in).  A line of its output is an object that has a     *)
(* type or the changes of a plan, or text that is no JSON.                 *)
(***************************************************************************)
EXTENDS Integers, Sequences, FiniteSets, SequencesExt

Raises(error) == [error |-> error]
Returns(value) == [error |-> "none", value |-> value]

\* A line of the given kind; one of kind "changes" has resource_changes.
LineOf(kind) == [kind |-> kind, changes |-> {}, outputs |-> {}]
ChangesLine(changes) == [LineOf("changes") EXCEPT !.changes = changes]
OutputsLine(outputs) == [LineOf("outputs") EXCEPT !.outputs = outputs]

-----------------------------------------------------------------------------
(***************************************************************************)
(* run_process                                                             *)
(***************************************************************************)
RunProcess(p) ==
  CASE p.ends = "hangs"  -> [code |-> -1, out |-> <<>>, timedOut |-> TRUE]
    [] p.ends = "absent" -> [code |-> 127, out |-> <<>>, timedOut |-> FALSE]
    [] p.ends = "exits"  -> [code |-> p.code, out |-> p.out, timedOut |-> FALSE]
Success(r) == r.code = 0 /\ ~r.timedOut

(***************************************************************************)
(* stream_process reads the standard output line by line; nobody reads the *)
(* standard error, of which only `room` writes find a place, and a line    *)
(* that is longer than the reader's limit cannot be read.  The process is  *)
(* killed when the reader stops before it, and its code is never looked at.*)
(***************************************************************************)
Blocks(p, room, i) ==
  p.writes[i] = "error" /\ Cardinality({j \in 1..i : p.writes[j] = "error"}) > room
Overruns(p, i) == p.writes[i] = "long line"
StopsAt(p, room) ==
  SelectInSeq([i \in DOMAIN p.writes |-> Blocks(p, room, i) \/ Overruns(p, i)], LAMBDA stop : stop)

Stream(p, room) ==
  LET stop == StopsAt(p, room)
      lines == SelectSeq(IF stop = 0 THEN p.writes ELSE SubSeq(p.writes, 1, stop - 1),
                         LAMBDA w : w = "line") IN
  CASE p.ends = "absent" -> [lines |-> <<>>, error |-> "FileNotFoundError", killed |-> FALSE]
    [] p.ends # "absent" /\ stop # 0 ->
         [lines |-> lines, killed |-> TRUE,
          error |-> IF Overruns(p, stop) THEN "ValueError" ELSE "TimeoutError"]
    [] p.ends = "hangs" /\ stop = 0 -> [lines |-> lines, error |-> "TimeoutError", killed |-> TRUE]
    [] p.ends = "exits" /\ stop = 0 -> [lines |-> lines, error |-> "none", killed |-> FALSE]

-----------------------------------------------------------------------------
(***************************************************************************)
(* The runner.  Arguments are a set of flags; their values are left out.   *)
(***************************************************************************)
InitArgs(upgrade) == {"-no-color"} \cup (IF upgrade THEN {"-upgrade"} ELSE {})
PlanArgs(varFile, out, destroy) ==
  {"-json", "-no-color"} \cup (IF varFile THEN {"-var-file"} ELSE {})
    \cup (IF out THEN {"-out"} ELSE {}) \cup (IF destroy THEN {"-destroy"} ELSE {})
ApplyArgs(planFile, autoApprove, varFile) ==
  {"-json", "-no-color"} \cup (IF autoApprove /\ ~planFile THEN {"-auto-approve"} ELSE {})
    \cup (IF varFile THEN {"-var-file"} ELSE {}) \cup (IF planFile THEN {"planfile"} ELSE {})
DestroyArgs(autoApprove, varFile) ==
  {"-json", "-no-color"} \cup (IF autoApprove THEN {"-auto-approve"} ELSE {})
    \cup (IF varFile THEN {"-var-file"} ELSE {})

\* terraform itself: with -json it cannot ask, and does nothing that needs an answer.
Refuses(command, args) ==
  command \in {"apply", "destroy"} /\ "-json" \in args /\ args \cap {"-auto-approve", "planfile"} = {}

ParseChangeAction(actions) ==
  CASE actions = {"create", "delete"} -> "replace"
    [] actions \in {{"create"}, {"update"}, {"delete"}, {"read"}} -> CHOOSE a \in actions : TRUE
    [] OTHER -> "no-op"

ExtractChanges(changes) ==
  {[address |-> c.address, action |-> ParseChangeAction(c.actions)] :
     c \in {d \in changes : d.actions # {"no-op"}}}

\* The loops over the lines of the output.
PlanData(out) ==
  FoldLeft(LAMBDA found, l : IF l.kind \in {"planned_changes", "changes"} THEN l.changes ELSE found, {}, out)
AppliedChanges(out) ==
  FoldLeft(LAMBDA found, l : IF l.kind = "changes" THEN ExtractChanges(l.changes) ELSE found, {}, out)
Outputs(out) ==
  FoldLeft(LAMBDA found, l : IF l.kind = "outputs" THEN l.outputs ELSE found, {}, out)
Destroyed(out) == Len(SelectSeq(out, LAMBDA l : l.kind = "destroyed"))

\* _run, and _run followed by _require_success; what comes of a command that
\* has worked is a function of the result, and an error stays what it is.
Then(result, Value(_)) ==
  IF result.error = "none" THEN Returns(Value(result.value)) ELSE result
Run(p) == IF RunProcess(p).timedOut THEN Raises("TimeoutError") ELSE Returns(RunProcess(p))
RequireSuccess(p) ==
  IF Run(p).error = "none" /\ ~Success(RunProcess(p)) THEN Raises("TerraformError") ELSE Run(p)

TfInit(p) == Then(RequireSuccess(p), LAMBDA r : [success |-> TRUE])

\* The whole output is one object; its kind says whether it calls the code valid.
TfValidate(p) ==
  Then(Run(p), LAMBDA r :
    [valid |-> Len(r.out) = 1 /\ r.out[1].kind = "valid",
     told  |-> Len(r.out) = 1 /\ r.out[1].kind \in {"valid", "invalid"}])

TfPlan(p) ==
  IF Run(p).error = "none" /\ Run(p).value.code \notin {0, 2} /\ Run(p).value.out = <<>>
  THEN Raises("TerraformError")
  ELSE Then(Run(p), LAMBDA r :
         [success |-> r.code \in {0, 2}, changes |-> ExtractChanges(PlanData(r.out))])

TfApply(p) ==
  Then(RequireSuccess(p), LAMBDA r :
    [success |-> TRUE, changes |-> AppliedChanges(r.out), outputs |-> Outputs(r.out)])

TfDestroy(p) ==
  Then(RequireSuccess(p), LAMBDA r : [success |-> TRUE, destroyed |-> Destroyed(r.out)])

\* output and show: one object, or nothing when it cannot be read.
OnlyObject(out) == IF Len(out) = 1 /\ out[1].kind # "text" THEN out[1].outputs ELSE {}
TfOutput(p) == Then(RequireSuccess(p), LAMBDA r : OnlyObject(r.out))
TfShow(p) == Then(RequireSuccess(p), LAMBDA r : OnlyObject(r.out))

-----------------------------------------------------------------------------
(***************************************************************************)
(* The import wizard                                                       *)
(***************************************************************************)
\* The attributes that the stub of a type leaves open.
StubAttributes(type) ==
  CASE type = "aws_instance" -> {"ami", "instance_type"}
    [] type = "aws_s3_bucket" -> {"bucket"}
    [] type = "aws_security_group" -> {"name", "vpc_id"}
    [] type = "aws_vpc" -> {"cidr_block"}
    [] type = "aws_subnet" -> {"vpc_id", "cidr_block"}
    [] type = "proxmox_vm_qemu" -> {"name", "target_node"}
    [] OTHER -> {}
ImportStub(type, name) == [type |-> type, name |-> name, attributes |-> StubAttributes(type)]

RunImport(there, address, p) ==
  [address |-> address, success |-> there /\ Success(RunProcess(p))]

\* An item without its keys ends the loop, and the results so far are lost.
Attempted(items) ==
  LET bad == {i \in DOMAIN items : ~items[i].complete} IN
  {i \in DOMAIN items : \A j \in bad : i < j}
BulkImport(there, items) ==
  IF Attempted(items) # DOMAIN items THEN Raises("KeyError")
  ELSE Returns([i \in DOMAIN items |-> RunImport(there, items[i].address, items[i].process)])
\* What is in the state of terraform afterwards.
Imported(there, items) ==
  {items[i].address : i \in {j \in Attempted(items) : there /\ Success(RunProcess(items[j].process))}}

-----------------------------------------------------------------------------
(***************************************************************************)
(* The status of a reply whose handler raises                              *)
(***************************************************************************)
TerrabotErrors == {"TerraformError", "ValidationError", "TemplateError", "ConfigError", "TimeoutError"}
TerrabotStatus(error) ==
  CASE error = "TerraformError"  -> 422
    [] error = "ValidationError" -> 400
    [] error = "TemplateError"   -> 404
    [] error = "ConfigError"     -> 500
    [] error = "TimeoutError"    -> 504
    [] OTHER -> 500
Status(error) ==
  IF error \in TerrabotErrors THEN TerrabotStatus(error) ELSE IF error = "ValueError" THEN 404 ELSE 500

\* The replies of /api/import.
BulkImportReply(there, items) ==
  LET result == BulkImport(there, items) IN
  IF result.error = "none" THEN [status |-> 200, results |-> result.value]
  ELSE [status |-> Status(result.error), results |-> <<>>]
=============================================================================

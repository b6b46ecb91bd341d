------------------------------ MODULE Assistance ------------------------------
(***************************************************************************)
(* What the server makes of an AI's answers: the clients of the providers  *)
(* (core/llm), the agent (core/ai-agent.py), the assistant of the editor   *)
(* (core/ai-code-assistant.py, api/routes/ai-editor-routes.py), the        *)
(* generator of modules (core/ai-module-generator.py, api/routes/          *)
(* module-generator-routes.py), the explainer of plans (core/              *)
(* ai-plan-explainer-service.py, api/routes/plan-analysis-routes.py) and   *)
(* the wizard of projects (api/routes/project-template-routes.py).         *)
(*                                                                         *)
(* A call of a provider gives an answer or pieces of one, and then ends,   *)
(* fails with an error of its API, or breaks with any other.  Of an answer *)
(* there is what the server looks for in it; code is valid or not.         *)
(***************************************************************************)
EXTENDS Templates

NoCode == "none"

-----------------------------------------------------------------------------
(***************************************************************************)
(* The clients                                                             *)
(***************************************************************************)
SupportedProviders == {"anthropic", "openai", "gemini", "ollama"}

\* A setting is the provider, the model or "", and the providers that have a key.
CreateClient(provider, hasKey, model, installed) ==
  IF provider \notin SupportedProviders \/ (provider # "ollama" /\ ~hasKey) THEN Raises("LLMError")
  ELSE IF ~installed THEN Raises("ImportError")
  ELSE Returns([provider |-> provider, model |-> IF model = "" THEN provider ELSE model])
GetClient(s) == CreateClient(s.provider, s.provider \in s.keys, s.model, s.installed)

\* Only gemini's client takes every error for one of the API.
ErrorOf(client, ends) ==
  CASE ends = "answers" -> "none"
    [] ends = "fails" \/ (ends = "breaks" /\ client.provider = "gemini") -> "LLMError"
    [] OTHER -> "Exception"
Complete(client, call) ==
  IF ErrorOf(client, call.ends) = "none" THEN Returns(call.text) ELSE Raises(ErrorOf(client, call.ends))
\* The pieces that came before the end, which is no error or one.
Pieces(client, call) == [pieces |-> call.pieces, error |-> ErrorOf(client, call.ends)]

-----------------------------------------------------------------------------
(***************************************************************************)
(* The agent                                                               *)
(***************************************************************************)
\* Up to three attempts, until an error of the API or code that is valid.
Decisive(client, call) ==
  Complete(client, call).error # "none" \/ Complete(client, call).value.code = "valid"
GenerateHCL(client, calls) ==
  LET n == SelectInSeq(calls, LAMBDA call : Decisive(client, call))
      last == Complete(client, calls[n]) IN
  CASE n = 0 -> Returns([success |-> FALSE, code |-> NoCode, warnings |-> Len(calls)])
    [] n # 0 /\ last.error = "none"      -> Returns([success |-> TRUE, code |-> last.value.code, warnings |-> n - 1])
    [] n # 0 /\ last.error = "LLMError"  -> Returns([success |-> FALSE, code |-> NoCode, warnings |-> 1])
    [] n # 0 /\ last.error = "Exception" -> last

\* An error of the API is one of the results.
Caught(result, otherwise) == IF result.error = "LLMError" THEN Returns(otherwise) ELSE result

ExplainPlan(client, call) == Caught(Then(Complete(client, call), LAMBDA t : "text"), "unable to explain")

\* The fixes are the code and the explanation, those of them that were found.
DiagnoseError(client, call) ==
  Caught(Then(Complete(client, call), LAMBDA t :
           [success |-> TRUE, fixes |-> {f \in {"code", "explanation"} :
              (f = "code" /\ t.code # NoCode) \/ (f = "explanation" /\ f \in t.sections)}]),
         [success |-> FALSE, fixes |-> {}])

\* It is the words that count: "NOT APPROVED" has the word too.
ReviewHCL(client, call) ==
  Caught(Then(Complete(client, call), LAMBDA t :
           [success |-> TRUE, approved |-> "approved" \in t.words /\ "rejected" \notin t.words]),
         [success |-> FALSE, approved |-> FALSE])

\* The first of these words that the answer has, case aside.
Confidences == <<"high", "medium", "low">>
ParseConfidence(words) ==
  LET n == SelectInSeq(Confidences, LAMBDA w : w \in words) IN
  IF n = 0 THEN "half" ELSE Confidences[n]

\* A chat ends with the error of the API, as one more piece.
WithError(stream) ==
  IF stream.error = "LLMError" THEN [pieces |-> Append(stream.pieces, "error text"), error |-> "none"] ELSE stream
Chat(client, call) == WithError(Pieces(client, call))

-----------------------------------------------------------------------------
(***************************************************************************)
(* The editor                                                              *)
(***************************************************************************)
\* What the AI is told of the workspace: at most ten of its files, as the
\* directory gives them.
MaxContextFiles == 10
BuildContext(files, there) ==
  [files |-> IF there THEN SubSeq(files, 1, IF Len(files) < MaxContextFiles THEN Len(files) ELSE MaxContextFiles)
             ELSE <<>>]

\* The code up to the cursor: lengths of lines, of which the last is cut.
UpToCursor(lines, line, col) ==
  LET n == IF line + 1 < Len(lines) THEN line + 1 ELSE Len(lines) IN
  [i \in 1..n |-> IF i = n /\ col < lines[i] THEN col ELSE lines[i]]
CompleteCode(client, call) == Caught(Then(Complete(client, call), LAMBDA t : "text"), "")

\* The reply is a stream of events.  An event is a line, and so a newline, which
\* is a piece of its own here, becomes a blank.
OneLine(piece) == IF piece = "newline" THEN "blank" ELSE piece
SSEResponse(stream) ==
  [i \in DOMAIN stream.pieces |-> OneLine(stream.pieces[i])]
    \o (IF stream.error = "none" THEN <<"[DONE]">> ELSE <<>>)

\* generate, explain, fix and chat; complete replies with one object.
EditorStream(setting, call) ==
  LET client == GetClient(setting) IN
  IF client.error # "none" THEN [status |-> Status(client.error), events |-> <<>>]
  ELSE [status |-> 200, events |-> SSEResponse(Chat(client.value, call))]
EditorComplete(setting, call) ==
  LET client == GetClient(setting)
      result == CompleteCode(client.value, call) IN
  IF client.error # "none" THEN Status(client.error) ELSE Reply(result)

-----------------------------------------------------------------------------
(***************************************************************************)
(* Modules                                                                 *)
(***************************************************************************)
\* The files of an answer: those in tags, or else those under headings; of two
\* with one name the later stays.  A file is <<name, code>>.
Filed(pairs) ==
  [n \in {p[1] : p \in Range(pairs)} |-> pairs[SelectLastInSeq(pairs, LAMBDA p : p[1] = n)][2]]
ParseModuleFiles(text) == IF text.tagged # <<>> THEN Filed(text.tagged) ELSE Filed(text.headed)

Module(name, files) == [name |-> name, files |-> files]
GenerateModule(client, call) ==
  Caught(Then(Complete(client, call), LAMBDA t : Module("inferred", ParseModuleFiles(t))), Module("error", <<>>))
RefineModule(current, client, call) ==
  Caught(Then(Complete(client, call), LAMBDA t :
           IF ParseModuleFiles(t) = <<>> THEN current ELSE [current EXCEPT !.files = ParseModuleFiles(t)]),
         current)

RequiredModuleFiles == {"main.tf", "variables.tf", "outputs.tf"}
ModuleWarnings(files) ==
  {<<"missing", f>> : f \in RequiredModuleFiles \ DOMAIN files}
    \cup {<<"empty", f>> : f \in {g \in {"variables.tf", "outputs.tf"} \cap DOMAIN files : files[g] = "empty"}}
TerraformFiles == RequiredModuleFiles \cup {"versions.tf"}
ValidateModule(files) ==
  LET errors == {f \in DOMAIN files \cap TerraformFiles : files[f] = "invalid"} IN
  [valid |-> errors = {}, errors |-> errors, warnings |-> ModuleWarnings(files)]

\* The events of a generation that is streamed: its pieces, then the files that
\* all of them together have, or an error.
ModuleEvents(client, call) ==
  LET stream == Pieces(client, call)
      Event(type, of) == [type |-> type, of |-> of] IN
  [i \in DOMAIN call.pieces |-> Event("content", call.pieces[i])]
    \o CASE stream.error = "none" ->
              [i \in 1..Cardinality(DOMAIN ParseModuleFiles(call.text)) |->
                 Event("file", SetToSeq(DOMAIN ParseModuleFiles(call.text))[i])] \o <<Event("done", "")>>
         [] stream.error = "LLMError" -> <<Event("error", "")>>
         [] OTHER -> <<>>

GenerateModuleReply(setting, call) ==
  LET client == GetClient(setting)
      module == GenerateModule(client.value, call) IN
  IF client.error # "none" THEN [status |-> Status(client.error)]
  ELSE IF module.error # "none" THEN [status |-> 500]
  ELSE [status |-> 200, module |-> module.value, validation |-> ValidateModule(module.value.files)]
RefineModuleReply(setting, current, call) ==
  LET client == GetClient(setting)
      module == RefineModule(current, client.value, call) IN
  IF client.error # "none" THEN [status |-> Status(client.error)]
  ELSE IF module.error # "none" THEN [status |-> 500]
  ELSE [status |-> 200, module |-> module.value, validation |-> ValidateModule(module.value.files)]
\* No AI is asked, but its client is made.
ValidateModuleReply(setting, files) ==
  IF GetClient(setting).error # "none" THEN [status |-> Status(GetClient(setting).error)]
  ELSE [status |-> 200, validation |-> ValidateModule(files)]

-----------------------------------------------------------------------------
(***************************************************************************)
(* Plans, failed operations and projects                                   *)
(***************************************************************************)
\* The text of a plan that is too large is cut, after what is not a change.
PlanText(size, changes, limit) ==
  IF size <= limit THEN [length |-> size, cut |-> FALSE]
  ELSE [length |-> IF changes < limit THEN changes ELSE limit, cut |-> TRUE]
ExplainReply(setting, call) == EditorStream(setting, call)

AnalyzeReply(setting) == IF GetClient(setting).error # "none" THEN Status(GetClient(setting).error) ELSE 200
\* The output of a job is empty, one JSON object with changes or without, another
\* JSON value, or lines, of which the -json output of terraform is made.
JobAnalysisReply(setting, job) ==
  CASE job.status = "none" -> 404
    [] job.status \notin {"none", "completed", "failed"} -> 400
    [] job.status \in {"completed", "failed"} ->
         IF job.output \in {"empty", "lines", "object"} THEN 422
         ELSE IF job.output = "other value" THEN 500 ELSE AnalyzeReply(setting)

\* The first of these that the error has decides; whether code can mend it.
Categories ==
  <<[words |-> "syntax", type |-> "hcl_syntax", fixable |-> TRUE],
    [words |-> "argument", type |-> "missing_attribute", fixable |-> TRUE],
    [words |-> "resource type", type |-> "invalid_resource", fixable |-> TRUE],
    [words |-> "access", type |-> "permission", fixable |-> FALSE],
    [words |-> "lock", type |-> "state", fixable |-> FALSE],
    [words |-> "provider produced", type |-> "provider", fixable |-> FALSE],
    [words |-> "provider configuration", type |-> "provider", fixable |-> TRUE]>>
ClassifyError(words) ==
  LET n == SelectInSeq(Categories, LAMBDA c : c.words \in words) IN
  IF n = 0 THEN [type |-> "unknown", fixable |-> FALSE]
  ELSE [type |-> Categories[n].type, fixable |-> Categories[n].fixable]
RemediateJobReply(setting, job, ws, there, client) ==
  CASE ws = "" -> 400
    [] ws # "" /\ job.status = "none" -> 404
    [] ws # "" /\ job.status \notin {"none", "failed"} -> 400
    [] ws # "" /\ job.status = "failed" ->
         IF ~there THEN 404 ELSE IF client.error # "none" THEN Status(client.error) ELSE 200

\* The answer, and its first block of YAML if it has one.
WizardMessageReply(setting, call) ==
  LET client == GetClient(setting)
      result == Complete(client.value, call) IN
  IF client.error # "none" THEN [status |-> Status(client.error)]
  ELSE IF result.error # "none" THEN [status |-> 502]
  ELSE [status |-> 200, yaml |-> result.value.yaml]
=============================================================================

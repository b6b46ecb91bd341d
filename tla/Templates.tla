------------------------------ MODULE Templates ------------------------------
(***************************************************************************)
(* Templates of terraform code: the engine that lists and renders them     *)
(* (core/template-engine.py, api/routes/template-routes.py), the check of  *)
(* the code they give (core/hcl-validator.py), and the studio in which an  *)
(* AI writes them (core/ai-template-studio.py, ai-template-studio-helpers  *)
(* .py, api/routes/ai-studio-routes.py).                                   *)
(*                                                                         *)
(* A library maps a path to the files of a template.  Of main.tf.j2 there  *)
(* is the code it gives and the variables it needs, of variables.json its  *)
(* shape and its entries.  A value is what Python takes it for.  Names are *)
(* those that pass the check of names, files stay in their directory, and  *)
(* metadata.json, which decides nothing, is left out.                      *)
(***************************************************************************)
EXTENDS TerraformCommands, Functions

Texts == {"blank", "word", "digits", "bit", "truth"}  \* "bit" is "0" or "1", "truth" is "yes", "true", ...
Values == Texts \cup {"int", "bool", "list", "map"}
NoValue == "none"

NoFile == [there |-> FALSE]

-----------------------------------------------------------------------------
(***************************************************************************)
(* hcl-validator.py: a text is parsed into blocks of one type each.        *)
(***************************************************************************)
ValidateSyntax(hcl) == hcl.parses
ParseResources(hcl) ==
  IF hcl.parses THEN UNION {{[type |-> b.type, name |-> n] : n \in b.names} : b \in hcl.blocks} ELSE {}
CheckResourceWhitelist(resources, allowed) == {r \in resources : r.type \notin allowed}
ValidateFull(hcl, allowed) == ValidateSyntax(hcl) /\ CheckResourceWhitelist(ParseResources(hcl), allowed) = {}

-----------------------------------------------------------------------------
(***************************************************************************)
(* The engine: loading                                                     *)
(***************************************************************************)
\* An entry that does not say is required when it has no default.
Required(entry) == entry.required = "yes" \/ (entry.required = "unset" /\ entry.default = NoValue)
ParseVariables(file) ==
  {[name |-> e.name, type |-> e.type, default |-> e.default, required |-> Required(e)] : e \in file.entries}

\* variables.json is {"variables": [...]}, {name: {...}}, or a bare list, which
\* the engine does not expect unless it is empty.  What is no JSON is not there.
GetTemplate(library, path) ==
  LET template == library[path]
      variables == template["variables.json"] IN
  IF path \notin DOMAIN library \/ ~template["main.tf.j2"].there THEN Raises("TemplateError")
  ELSE IF ~variables.there \/ variables.entries = {} THEN Returns({})
  ELSE IF variables.shape = "bare" THEN Raises("AttributeError")
  ELSE Returns(ParseVariables(variables))

\* The templates of a provider, or of all; the first that raises anything but a
\* TemplateError ends the list.
ListTemplates(library, providers) ==
  LET found == {path \in DOMAIN library :
                  Len(path) = 2 /\ path[1] \in providers /\ library[path]["main.tf.j2"].there}
      errors == {GetTemplate(library, path).error : path \in found} IN
  IF errors \subseteq {"none", "TemplateError"}
  THEN Returns({path \in found : GetTemplate(library, path).error = "none"})
  ELSE Raises("AttributeError")

-----------------------------------------------------------------------------
(***************************************************************************)
(* The engine: rendering                                                   *)
(***************************************************************************)
CoerceValue(value, type) ==
  CASE value \in {"digits", "bit"} /\ type = "number" -> "int"
    [] value \in {"truth", "bit"} /\ type = "bool"    -> "bool"
    [] OTHER -> value

\* A bool is an int; a type that is not known is not checked.
IsInstance(value, type) ==
  CASE type = "string" -> value \in Texts
    [] type = "number" -> value \in {"int", "bool"}
    [] type \in {"bool", "list", "map"} -> value = type
    [] OTHER -> TRUE

\* What is given for a variable, when it is more than blank text.
Provided(v, given) == v.name \in DOMAIN given /\ given[v.name] # "blank"
Missing(v, given) == ~Provided(v, given) /\ v.required /\ v.default = NoValue
Mistyped(v, given) == Provided(v, given) /\ ~IsInstance(CoerceValue(given[v.name], v.type), v.type)
ValidateVariables(variables, given) == {v \in variables : Missing(v, given) \/ Mistyped(v, given)}

\* The values that main.tf.j2 is rendered with.
MergeDefaults(variables, given) ==
  LET set == {v \in variables : Provided(v, given) \/ v.default # NoValue}
      Of(n) == CHOOSE v \in set : v.name = n IN
  [n \in {v.name : v \in set} |->
     IF Provided(Of(n), given) THEN CoerceValue(given[n], Of(n).type) ELSE Of(n).default]

\* A variable that main.tf.j2 needs and is not set cannot be rendered.
RenderTemplate(library, path, given) ==
  LET template == GetTemplate(library, path)
      main == library[path]["main.tf.j2"] IN
  IF template.error # "none" THEN template
  ELSE IF ValidateVariables(template.value, given) # {} THEN Raises("ValidationError")
  ELSE LET values == MergeDefaults(template.value, given) IN
       IF main.syntax /\ main.needs \subseteq DOMAIN values
       THEN Returns([hcl |-> main.hcl, values |-> values])
       ELSE Raises("TemplateError")

\* The replies of the routes: the handlers raise, and the middleware answers.
Reply(result) == IF result.error = "none" THEN 200 ELSE Status(result.error)

-----------------------------------------------------------------------------
(***************************************************************************)
(* The studio: what the AI gives, and its check                            *)
(***************************************************************************)
Package(name, providers, files) == [name |-> name, providers |-> providers, files |-> files]
NoFiles == [f \in {"main.tf.j2", "variables.json"} |-> NoFile]

\* The studio's reply when the AI does not answer is a package without files.
GenerateTemplate(answer, name, providers) ==
  IF answer.error = "LLMError" THEN Package(<<"error">>, providers, NoFiles)
  ELSE Package(name, providers, answer.files)
ExtractTemplate(answer, name) ==
  IF answer.error = "LLMError" THEN Package(<<"error">>, <<>>, NoFiles)
  ELSE Package(name, answer.providers, answer.files)
RefineTemplate(current, answer) ==
  IF answer.error = "LLMError" \/ answer.files = NoFiles THEN current
  ELSE [current EXCEPT !.files = answer.files]

ParseVariablesJson(file) ==
  IF file.there /\ file.shape \in {"wrapped", "bare"} THEN file.entries ELSE {}
StructureWarnings(files) ==
  {f \in DOMAIN files : ~files[f].there}
    \cup (IF files["variables.json"].there /\ ParseVariablesJson(files["variables.json"]) = {}
          THEN {"no variables"} ELSE {})

\* main.tf.j2 is rendered with the defaults alone.
ValidateRendered(main, entries, allowed) ==
  /\ main.needs \subseteq {e.name : e \in {d \in entries : d.default # NoValue}}
  /\ ValidateFull(main.hcl, allowed)
ValidateTemplate(files, allowed) ==
  LET main == files["main.tf.j2"] IN
  [warnings |-> StructureWarnings(files),
   valid    |-> main.there => main.syntax /\ ValidateRendered(main, ParseVariablesJson(files["variables.json"]), allowed)]

\* What the routes reply: the package and what the check says of it.
Checked(package, allowed) == [package |-> package, validation |-> ValidateTemplate(package.files, allowed)]
GenerateReply(answer, name, providers, allowed) == Checked(GenerateTemplate(answer, name, providers), allowed)
ExtractReply(answer, name, allowed) == Checked(ExtractTemplate(answer, name), allowed)
RefineReply(current, answer, allowed) == Checked(RefineTemplate(current, answer), allowed)

\* The steps that the AI proposes for the wizard, of which the known are kept.
WizardSteps == {"provider", "compute", "networking", "storage", "security", "connectivity", "monitoring", "review"}
AnalyzeWizardSteps(answer) ==
  LET known == SelectSeq(answer.steps, LAMBDA s : s \in WizardSteps)
      first == IF "provider" \in Range(known) THEN <<>> ELSE <<"provider">>
      last  == IF "review" \in Range(known) THEN <<>> ELSE <<"review">> IN
  IF answer.error # "none" THEN <<"provider", "review">> ELSE first \o known \o last

-----------------------------------------------------------------------------
(***************************************************************************)
(* The studio: the library on the disk                                     *)
(***************************************************************************)
\* A name of one part goes to the directory of the first provider.
SavePath(package) ==
  IF Len(package.name) >= 2 THEN package.name
  ELSE (IF package.providers = <<>> THEN <<"custom">> ELSE <<package.providers[1]>>) \o package.name

\* A directory is there when a template is in it or below it.
IsDir(library, path) == \E other \in DOMAIN library : IsPrefix(path, other)

\* The files of the package are written over those of the template.
Overwrite(old, new) == [f \in DOMAIN old |-> IF new[f].there THEN new[f] ELSE old[f]]
SaveTemplate(library, package, overwrite) ==
  LET path == SavePath(package)
      old  == IF path \in DOMAIN library THEN library[path] ELSE NoFiles IN
  IF IsDir(library, path) /\ ~overwrite THEN Raises("ValueError")
  ELSE Returns((path :> Overwrite(old, package.files)) @@ library)

\* What is below a directory, under the rest of its path.
LoadTemplate(library, name) ==
  LET below == {path \in DOMAIN library : IsPrefix(name, path)} IN
  IF below = {} THEN Raises("not found")
  ELSE Returns([rest \in {SubSeq(path, Len(name) + 1, Len(path)) : path \in below} |-> library[name \o rest]])

SaveReply(library, package, overwrite) ==
  IF SaveTemplate(library, package, overwrite).error = "none" THEN 200 ELSE 400
LoadReply(library, name) == IF LoadTemplate(library, name).error = "none" THEN 200 ELSE 404
=============================================================================

----------------------------- MODULE MCServices -----------------------------
(***************************************************************************)
(* The functions of Assistance, Lessons and Composition against what they  *)
(* promise, for answers, chapters and stacks of small size.                *)
(***************************************************************************)
LOCAL INSTANCE Lessons
LOCAL INSTANCE Composition

-----------------------------------------------------------------------------
(***************************************************************************)
(* Assistance                                                              *)
(***************************************************************************)
SomeSettings == [provider : SupportedProviders \cup {"other"}, keys : SUBSET {"anthropic", "gemini"},
                 model : {"", "m"}, installed : BOOLEAN]
Clients == {GetClient(s).value : s \in {t \in SomeSettings : GetClient(t).error = "none"}}
Tags == {<<>>} \cup {<< <<f, c>> >> : f \in {"main.tf"}, c \in {"valid", "invalid"}}
            \cup {<< <<"main.tf", "valid">>, <<"variables.tf", "empty">>, <<"main.tf", c>> >> : c \in {"valid", "invalid"}}
Text(code, tagged) == [code |-> code, tagged |-> tagged, headed |-> <<>>, sections |-> {}, words |-> {}, yaml |-> NoCode]
Ends == {"answers", "fails", "breaks"}
Call(ends, text, pieces) == [ends |-> ends, text |-> text, pieces |-> pieces]
Calls == {Call(e, Text(c, <<>>), <<>>) : e \in Ends, c \in {NoCode, "valid", "invalid"}}

\* A client is made only for a provider that is known and has its key, and only
\* errors of other providers than gemini reach the caller as they are.
ASSUME ClientAssumption ==
  \A s \in SomeSettings : \A e \in Ends :
    LET client == GetClient(s) IN
    /\ client.error = "none" => s.provider = "ollama" \/ s.provider \in s.keys
    /\ client.error = "none" => (ErrorOf(client.value, e) = "Exception" <=> e = "breaks" /\ s.provider # "gemini")

\* What the agent takes for generated is valid code, the first that came, and no
\* error had come before it; and each attempt in vain has left a warning.
ASSUME GenerateAssumption ==
  \A client \in Clients : \A calls \in [1..3 -> Calls] :
    LET r == GenerateHCL(client, calls)
        Valid(i) == calls[i].ends = "answers" /\ calls[i].text.code = "valid"
        Erring(i) == calls[i].ends # "answers" IN
    /\ r.error = "none" /\ r.value.success <=>
         \E i \in 1..3 : Valid(i) /\ \A j \in 1..i - 1 : ~Erring(j)
    /\ r.error = "none" /\ ~r.value.success => r.value.warnings \in {1, 3}
    /\ r.error # "none" => \E i \in 1..3 : calls[i].ends = "breaks" /\ client.provider # "gemini"

\* A stream that says it is done has all the pieces, or an error as its last
\* piece; it does not say so just when an error was not one of the API.  Code
\* of more than one line does not arrive as it was sent.
PieceLists == UNION {[1..n -> {"word", "newline"}] : n \in 0..2}
ASSUME EditorAssumption ==
  \A s \in SomeSettings : \A e \in Ends : \A pieces \in PieceLists :
    LET r == EditorStream(s, Call(e, Text(NoCode, <<>>), pieces))
        done == r.events # <<>> /\ r.events[Len(r.events)] = "[DONE]" IN
    /\ r.status = 200 <=> GetClient(s).error = "none"
    /\ r.status = 200 =>
         /\ done <=> ErrorOf(GetClient(s).value, e) # "Exception"
         /\ done => Len(r.events) = Len(pieces) + (IF e = "answers" THEN 1 ELSE 2)
         /\ e = "answers" => (SubSeq(r.events, 1, Len(pieces)) = pieces <=> "newline" \notin Range(pieces))
    /\ "newline" \notin Range(r.events)
ASSUME CursorAssumption ==
  \A lines \in UNION {[1..n -> 0..2] : n \in 0..3} : \A line \in 0..3 : \A col \in 0..3 :
    LET code == UpToCursor(lines, line, col) IN
    /\ Len(code) <= line + 1 /\ Len(code) <= Len(lines)
    /\ \A i \in DOMAIN code : code[i] <= lines[i] /\ (code[i] # lines[i] => i = Len(code) /\ code[i] = col)

\* A module that passes has no invalid file, but it need not have any; the last
\* file of a name counts (here main.tf); refining never loses the files; and a stream names the files that the reply has.
ASSUME ModuleAssumption ==
  \A client \in Clients : \A e \in Ends : \A first, second \in Tags :
    LET made == GenerateModule(client, Call(e, Text(NoCode, first), <<>>))
        refined == RefineModule(Module("m", Filed(first)), client, Call(e, Text(NoCode, second), <<>>))
        events == ModuleEvents(client, Call(e, Text(NoCode, first), <<"word">>)) IN
    /\ made.error = "none" =>
         LET check == ValidateModule(made.value.files) IN
         /\ check.valid <=> \A f \in DOMAIN made.value.files : made.value.files[f] # "invalid"
         /\ check.warnings = {} => RequiredModuleFiles \subseteq DOMAIN made.value.files
    /\ e = "answers" /\ first # <<>> => made.value.files["main.tf"] = first[Len(first)][2]
    /\ e = "fails" => made.value.files = <<>> /\ ValidateModule(made.value.files).valid
    /\ refined.error = "none" /\ first # <<>> => refined.value.files # <<>>
    /\ e = "answers" => {events[i].of : i \in {j \in DOMAIN events : events[j].type = "file"}} = DOMAIN made.value.files
    /\ Cardinality({i \in DOMAIN events : events[i].type \in {"done", "error"}})
         = (IF ErrorOf(client, e) = "Exception" THEN 0 ELSE 1)

\* A check that asks no AI fails all the same when no AI is set up; and the
\* output of a plan, which is lines, is never analysed.
ASSUME NoKeyAssumption ==
  \A s \in SomeSettings : \A status \in {"none", "running", "completed", "failed"} :
    \A output \in {"empty", "lines", "object", "changes", "other value"} :
      LET reply == JobAnalysisReply(s, [status |-> status, output |-> output]) IN
      /\ AnalyzeReply(s) = 200 <=> GetClient(s).error = "none"
      /\ ValidateModuleReply(s, <<>>).status = AnalyzeReply(s)
      /\ reply = 200 <=> status \in {"completed", "failed"} /\ output = "changes" /\ GetClient(s).error = "none"

\* Only an error that code may mend is taken to the AI; of two kinds of words
\* in one error the earlier in the table decides.
ASSUME ClassifyAssumption ==
  \A words \in SUBSET {Categories[i].words : i \in DOMAIN Categories} :
    /\ ClassifyError(words).fixable =>
         \E i \in DOMAIN Categories : Categories[i].fixable /\ Categories[i].words \in words
    /\ words \cap {"syntax", "argument", "resource type"} # {} => ClassifyError(words).fixable
    /\ words = {} => ~ClassifyError(words).fixable

-----------------------------------------------------------------------------
(***************************************************************************)
(* Lessons                                                                 *)
(***************************************************************************)
ChapterFiles == [parses : BOOLEAN, slug : {NoSlug, "s", "t"}, order : {1, 9, NoOrder}, needs : {{}, {"t"}},
                 quiz : {<<>>}, lab : {<<>>, << [patterns |-> <<>>] >>}]

\* The list has every chapter that is in the cache, once and in order, and the
\* last file of a slug counts.
ASSUME CatalogAssumption ==
  \A files \in UNION {[1..n -> ChapterFiles] : n \in 1..2} :
    LET chapters == ListChapters(files)
        c == Cache(files) IN
    /\ Range(chapters) = {files[i].slug : i \in {j \in DOMAIN files : files[j].parses}} \ {NoSlug}
    /\ \A i, j \in DOMAIN chapters : i < j => chapters[i] # chapters[j] /\ c[chapters[i]].order <= c[chapters[j]].order
    /\ \A i \in DOMAIN files : \A s \in DOMAIN c :
         files[i].parses /\ files[i].slug = s /\ (\A j \in i + 1..Len(files) : files[j].slug # s) => c[s] = files[i]
    /\ UnknownPrerequisites(files) = {} <=> \A s \in DOMAIN c : c[s].needs \subseteq DOMAIN c
    /\ \A s \in {"s", "t"} : LabReply(files, s).status = 200 <=> s \in DOMAIN c /\ c[s].lab # <<>>

\* Marks count the questions, a right answer more never gives fewer, and of an
\* answer to a true or false question only its truth counts.
Questions == {<<[id |-> 1, type |-> a, correct |-> x], [id |-> 2, type |-> b, correct |-> y]>> :
                a, b \in {"true_false", "multiple_choice"}, x, y \in 0..1}
ASSUME QuizAssumption ==
  \A questions \in Questions : \A answers \in UNION {[ids -> 0..2] : ids \in SUBSET {1, 2}} :
    LET right == [i \in {1, 2} |-> questions[i].correct]
        truths == [i \in DOMAIN answers |-> IF questions[i].type = "true_false" /\ answers[i] # 0 THEN 1 ELSE answers[i]] IN
    /\ CorrectCount(questions, answers) = CorrectCount(questions, truths)
    /\ CorrectCount(questions, answers) \in 0..Cardinality(DOMAIN answers)
    /\ CorrectCount(questions, right) = 2
    /\ \A i \in {1, 2} : CorrectCount(questions, (i :> right[i]) @@ answers) >= CorrectCount(questions, answers)

\* A lab that passes at the level "validate" is code that terraform has accepted,
\* and nothing but that; one that passes at the level "ai" may be any code.
SomeProcesses == [ends : {"exits", "hangs", "absent"}, code : 0..1, out : {<<>>}]
ASSUME LabAssumption ==
  \A init, validate \in SomeProcesses : \A s \in SomeSettings : \A there \in BOOLEAN :
    \A level \in {"pattern", "validate", "ai", "other"} : \A words \in SUBSET {"w"} : \A broken \in BOOLEAN :
      LET lab == IF there THEN Returns([patterns |-> << [broken |-> broken, word |-> "w"] >>]) ELSE Raises("not found")
          r == Validate(lab, level, [words |-> words], init, validate, s) IN
      /\ r.level = level
      /\ r.passed => there /\ level # "other"
      /\ r.passed /\ level = "validate" => init.ends = "exits" /\ validate.ends = "exits" /\ init.code + validate.code = 0
      /\ r.passed /\ level = "pattern" => "w" \in words /\ ~broken
      /\ there /\ level = "ai" => (r.passed <=> GetClient(s).error = "none")

\* The overview counts every chapter once, whatever records there are.
ASSUME OverviewAssumption ==
  \A files \in [1..2 -> {f \in ChapterFiles : f.order = 1 /\ f.needs = {} /\ f.lab = <<>>}] :
    \A records \in UNION {[ids -> [status : {"completed", "in_progress"}, scored : {TRUE}]] : ids \in SUBSET {"s", "u"}} :
      LET o == Overview(files, records) IN
      /\ o.completed + o.inProgress + o.notStarted = o.total
      /\ o.completed + o.inProgress = Cardinality(DOMAIN records \cap DOMAIN Cache(files))
ASSUME GlossaryAssumption ==
  LET Terms == {<<"a">>, <<"a", "b">>, <<"b">>} IN
  \A terms \in {t \in [1..3 -> Terms] : Range(t) = Terms} : \A query \in Terms \cup {<<>>, <<"c">>} :
    LET n == GetConcept(terms, query) IN
    /\ query \in Terms => terms[n] = query
    /\ query \notin Terms => (n = 0 <=> \A t \in Terms : ~IsPrefix(query, t))

-----------------------------------------------------------------------------
(***************************************************************************)
(* Composition                                                             *)
(***************************************************************************)
ModuleNames == {<<"n">>, <<"n", "-">>, <<"n", "_">>}
Scaffolded == [name : ModuleNames, provider : {"aws", "other"}, removed : BOOLEAN, depends : {<<>>, << <<"n", "-">>, <<"n", "_">> >>}]
ProjectNames == {<<"A", " ">>, <<"a", "-">>, <<"a">>}
SomeProjects == [name : ProjectNames, modules : {<<m, k>> : m, k \in Scaffolded}]
Unique(s) == \A i, j \in DOMAIN s : s[i] = s[j] => i = j

\* Scaffolding leaves the directories of other projects alone, unless their
\* names meet, and makes its own what they were at the first time: whatever has
\* been written into the four files is gone.  The reply counts at least them.
ASSUME ScaffoldAssumption ==
  \A p \in SomeProjects :
    LET edited == << <<"a", "-">>, "aws", <<"n">> >> :> [main |-> "edited"]
        other == << <<"a">>, "aws", <<"n">> >> :> [main |-> "edited"]
        fresh == ScaffoldProject(<<>>, p)
        again == ScaffoldProject(edited @@ other, p) IN
    /\ DOMAIN fresh = {<<ProjectDir(p.name), p.modules[i].provider, p.modules[i].name>> :
                         i \in {j \in DOMAIN p.modules : ~p.modules[j].removed}}
    /\ \A d \in DOMAIN fresh : again[d] = fresh[d]
    /\ \A d \in DOMAIN again \ DOMAIN fresh : again[d] = (edited @@ other)[d]
    /\ ScaffoldReply(fresh, TRUE, p).count = Cardinality(DOMAIN fresh)
    /\ Unique([i \in DOMAIN Kept(p) |-> Kept(p)[i].name]) => Cardinality(DOMAIN fresh) = Len(Kept(p))

\* The code of a module of a known provider is never valid as it is written,
\* and that of another is, unless it depends on two whose names meet.
StarterIsValid(files) == files.main.provider # "doubled braces" /\ Unique(files.variables)
ASSUME StarterAssumption ==
  \A m \in Scaffolded :
    StarterIsValid(StarterFiles(m)) <=>
      m.provider \notin KnownProviders /\ Unique([i \in DOMAIN m.depends |-> SafeDep(m.depends[i])])

\* A stack is composed whatever its warnings.  Its code can be planned when there
\* are none and no two modules have one name, of which no warning tells: one that
\* is defined again is left out where cycles are looked for.
StackModules == [name : {"m", "n"}, source : {"s"}, version : {""}, depends : SUBSET {"m", "n", "o"}]
Stacks == UNION {[1..n -> StackModules] : n \in 0..3}
Plannable(main) ==
  LET names == {main[i].name : i \in DOMAIN main}
      graph == [n \in names |-> [d \in UNION {main[i].references : i \in {j \in DOMAIN main : main[j].name = n}} |-> 1]] IN
  /\ Unique([i \in DOMAIN main |-> main[i].name])
  /\ \A i \in DOMAIN main : main[i].references \subseteq names
  /\ Acyclic(graph)
ASSUME StackAssumption ==
  \A modules \in Stacks :
    LET done == ComposeReply("p" :> [main |-> <<>>], "p", [modules |-> modules, variables |-> <<>>], "r") IN
    /\ done.status = 200 /\ Len(done.generated.outputs) = Len(modules)
    /\ Plannable(done.generated.main) <=>
         done.warnings = {} /\ Unique([i \in DOMAIN modules |-> modules[i].name])
    /\ \A i, j \in DOMAIN modules : i < j /\ modules[i].name = modules[j].name =>
         (<<"circular">> \in done.warnings <=> <<"circular">> \in ComposeWarnings(RemoveAt(modules, i)))

\* A template that is listed can be had under its name only when its file has it,
\* and one file without a name hides all of them.
TemplateFiles == [stem : {"t"}, is : {"mapping", "other", "broken"}, name : {"", "t", "u"}, category : {"c", "d"}]
ASSUME ProjectTemplateAssumption ==
  \A f \in TemplateFiles : \A g \in [stem : {"v"}, is : {"mapping"}, name : {"v", ""}, category : {"c"}] :
    \A category \in {"any", "c"} :
      LET listed == ListProjectTemplates({f, g}, category)
          Matches(h) == h.is = "mapping" /\ category \in {"any", h.category} IN
      /\ listed.error = "none" <=> \A h \in {f, g} : Matches(h) => h.name # ""
      /\ listed.error = "none" => \A name \in listed.value :
           ProjectTemplateReply({f, g}, name) = 200 <=> \E h \in {f, g} : h.stem = name /\ h.is = "mapping" /\ h.name # ""
=============================================================================

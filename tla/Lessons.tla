------------------------------- MODULE Lessons -------------------------------
(***************************************************************************)
(* What the knowledge base decides without its database: the loading of    *)
(* the curriculum (kb/curriculum-loader.py), the marking of quizzes        *)
(* (kb/quiz-engine.py), the three validations of a lab                     *)
(* (kb/lab-validator.py), the overview of a learner's progress             *)
(* (kb/progress-tracker.py), the glossary (learning/glossary.py), and what *)
(* the routes reply (api/routes/kb-routes.py).                             *)
(***************************************************************************)
EXTENDS Assistance

-----------------------------------------------------------------------------
(***************************************************************************)
(* The curriculum: files in the order of their names.  A file that is no   *)
(* mapping or has no slug is passed over, and a later file replaces an     *)
(* earlier one of the same slug.                                           *)
(***************************************************************************)
NoSlug == ""
NoOrder == 999   \* what a chapter without an order is sorted by
Good(files) == SelectSeq(files, LAMBDA f : f.parses /\ f.slug # NoSlug)
Cache(files) ==
  LET good == Good(files) IN
  [s \in {good[i].slug : i \in DOMAIN good} |-> good[SelectLastInSeq(good, LAMBDA f : f.slug = s)]]

\* Chapters by their order; among equals the one whose slug was met first.
FirstMet(files, s) == SelectInSeq(Good(files), LAMBDA f : f.slug = s)
Before(files, s, t) ==
  LET c == Cache(files) IN
  c[s].order < c[t].order \/ (c[s].order = c[t].order /\ FirstMet(files, s) < FirstMet(files, t))
ListChapters(files) ==
  LET slugs == DOMAIN Cache(files)
      Place(s) == Cardinality({t \in slugs : Before(files, t, s)}) + 1 IN
  [n \in 1..Cardinality(slugs) |-> CHOOSE s \in slugs : Place(s) = n]
UnknownPrerequisites(files) ==
  LET c == Cache(files) IN UNION {{s} \X (c[s].needs \ DOMAIN c) : s \in DOMAIN c}

\* A section that a chapter does not have is not found.
GetQuiz(files, s) ==
  IF s \in DOMAIN Cache(files) /\ Cache(files)[s].quiz # <<>>
  THEN Returns([i \in DOMAIN Cache(files)[s].quiz |-> [id |-> Cache(files)[s].quiz[i].id, type |-> Cache(files)[s].quiz[i].type]])
  ELSE Raises("not found")
GetLab(files, s) ==
  IF s \in DOMAIN Cache(files) /\ Cache(files)[s].lab # <<>> THEN Returns(Cache(files)[s].lab[1]) ELSE Raises("not found")

-----------------------------------------------------------------------------
(***************************************************************************)
(* Quizzes.  An answer is an integer: Python takes True for 1, False for 0.*)
(***************************************************************************)
CheckAnswer(question, answer) ==
  IF question.type = "true_false" THEN (answer # 0) = (question.correct # 0) ELSE answer = question.correct
CorrectCount(questions, answers) ==
  Cardinality({i \in DOMAIN questions :
                 questions[i].id \in DOMAIN answers /\ CheckAnswer(questions[i], answers[questions[i].id])})

-----------------------------------------------------------------------------
(***************************************************************************)
(* Labs                                                                    *)
(***************************************************************************)
Verdict(level, passed) == [level |-> level, passed |-> passed]

\* A pattern that is no regular expression matches nothing.
ValidatePatterns(patterns, code) ==
  Verdict("pattern", \A i \in DOMAIN patterns : ~patterns[i].broken /\ patterns[i].word \in code.words)

\* terraform init and terraform validate, in a directory of their own.
ValidateTerraform(init, validate) ==
  Verdict("validate", Success(RunProcess(init)) /\ Success(RunProcess(validate)))

\* The server runs an event loop: the AI is never asked, and the code passes if
\* the AI's client can be made.
ValidateAI(setting) == Verdict("ai", GetClient(setting).error = "none")

Validate(lab, level, code, init, validate, setting) ==
  IF lab.error # "none" THEN Verdict(level, FALSE)
  ELSE CASE level = "pattern"  -> ValidatePatterns(lab.value.patterns, code)
         [] level = "validate" -> ValidateTerraform(init, validate)
         [] level = "ai"       -> ValidateAI(setting)
         [] level \notin {"pattern", "validate", "ai"} -> Verdict(level, FALSE)

RecommendLevel(order) == IF order <= 4 THEN "pattern" ELSE IF order <= 8 THEN "validate" ELSE "ai"
LabReply(files, s) ==
  LET lab == GetLab(files, s) IN
  IF lab.error # "none" THEN [status |-> 404]
  ELSE [status |-> 200, recommended |-> RecommendLevel(IF Cache(files)[s].order = NoOrder THEN 1 ELSE Cache(files)[s].order)]

-----------------------------------------------------------------------------
(***************************************************************************)
(* Progress and glossary                                                   *)
(***************************************************************************)
\* Records are a function of slugs, also of chapters that there are no more.
Overview(files, records) ==
  LET chapters == DOMAIN Cache(files)
      With(status) == {s \in chapters \cap DOMAIN records : records[s].status = status}
      completed == Cardinality(With("completed"))
      inProgress == Cardinality(With("in_progress")) IN
  [total |-> Cardinality(chapters), completed |-> completed, inProgress |-> inProgress,
   notStarted |-> Cardinality(chapters) - completed - inProgress,
   scored |-> {s \in chapters \cap DOMAIN records : records[s].scored}]

\* Terms in the order of the glossary, as sequences of characters.
GetConcept(terms, query) ==
  LET exact == SelectInSeq(terms, LAMBDA t : t = query)
      prefix == SelectInSeq(terms, LAMBDA t : IsPrefix(query, t)) IN
  IF exact # 0 THEN exact ELSE prefix
=============================================================================

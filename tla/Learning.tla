------------------------------ MODULE Learning ------------------------------
(***************************************************************************)
(* The knowledge base: the progress of the learners through its chapters,  *)
(* the leaderboard and the tutorials (kb/progress-tracker.py,              *)
(* kb/quiz-engine.py, kb/lab-validator.py, kb/leaderboard.py,              *)
(* api/routes/kb-routes.py, learning/tutorials.py).                        *)
(*                                                                         *)
(* A request reads the record of its learner and chapter, or finds none,   *)
(* and writes what it changes of it: the columns whose value is new.       *)
(***************************************************************************)
EXTENDS Naturals, FiniteSets

CONSTANTS
  Learners, Chapters,
  Scores,        \* percentages that a quiz may end with
  PassingScore,  \* 70
  KBRequests,    \* requests on records at a time
  BoardRequests, \* requests for the leaderboard at a time
  MaxAttempts,   \* bound: quizzes submitted per learner and chapter
  Steps          \* of the tutorial, numbered from 1

ASSUME LearningAssumption ==
  /\ PassingScore \in Scores /\ Scores \subseteq 0..100
  /\ MaxAttempts \in Nat /\ Steps \in Nat \ {0}
ASSUME CurriculumAssumption == IsFiniteSet(Chapters) /\ Chapters # {}
ASSUME LearnersAssumption == "nobody" \notin Learners

VARIABLES
  progress,   \* table kb_user_progress
  kbReq,      \* requests that have read a record
  attempted,  \* history: quizzes whose result has been committed
  together,   \* history: records that two requests were on at once
  earned,     \* history: records that once had a passed quiz and the lab
  board,      \* the cached leaderboard
  ranking,    \* leaderboard requests between their queries
  session     \* a tutorial's session

learningVars == <<progress, kbReq, attempted, together, earned, board, ranking, session>>

NoScore == 101   \* NULL
Record == [completed : BOOLEAN, score : Scores \cup {NoScore}, attempts : 0..MaxAttempts, lab : BOOLEAN]
NoRecord == [completed |-> FALSE, score |-> NoScore, attempts |-> MaxAttempts + 1, lab |-> FALSE]
Started == [completed |-> FALSE, score |-> NoScore, attempts |-> 0, lab |-> FALSE]
Records == Learners \X Chapters

\* _check_answer and score_quiz, with Python's rounding of halves to even.
Percentage(correct, total) ==
  LET q == (correct * 100) \div total  r == (correct * 100) % total IN
  IF 2 * r > total \/ (2 * r = total /\ q % 2 = 1) THEN q + 1 ELSE q

KBOps == {"start", "quiz", "lab", "complete"}
KBRequest == [op : KBOps, on : Records, loaded : Record \cup {NoRecord}]
NoKBRequest == [op |-> "none", on |-> <<>>, loaded |-> NoRecord]

\* An entry of the board: how many chapters are completed, and whether the
\* badge for all of them is shown.
Entry == [count : 0..Cardinality(Chapters), badge : BOOLEAN]
NoBoard == [l \in Learners |-> [count |-> 0, badge |-> FALSE]]
Ranking == [counts : [Learners -> 0..Cardinality(Chapters)], badges : SUBSET Learners, asked : SUBSET Learners]
NotRanking == [counts |-> [l \in Learners |-> 0], badges |-> {}, asked |-> {"nobody"}]

LearningTypeOK ==
  /\ progress \in [Records -> Record \cup {NoRecord}]
  /\ kbReq \in [KBRequests -> KBRequest \cup {NoKBRequest}]
  /\ attempted \in [Records -> 0..MaxAttempts]
  /\ together \subseteq Records /\ earned \subseteq Records
  /\ board \in [Learners -> Entry]
  /\ ranking \in [BoardRequests -> Ranking \cup {NotRanking}]
  /\ session \in [done : SUBSET (1..Steps), current : 1..Steps, open : BOOLEAN]

LearningInit ==
  /\ progress = [x \in Records |-> NoRecord]
  /\ kbReq = [r \in KBRequests |-> NoKBRequest]
  /\ attempted = [x \in Records |-> 0]
  /\ together = {} /\ earned = {}
  /\ board = NoBoard
  /\ ranking = [r \in BoardRequests |-> NotRanking]
  /\ session = [done |-> {}, current |-> 1, open |-> FALSE]

-----------------------------------------------------------------------------
(***************************************************************************)
(* ProgressTracker                                                         *)
(***************************************************************************)
kbRest == <<board, ranking, session>>

\* Mutant: the lab is not asked for.
MayCompleteByQuiz(rec) == rec # NoRecord /\ rec.score \in PassingScore..100
\* complete_chapter in kb-routes.py: a score of 0 counts as none.
MayComplete(rec) == rec # NoRecord /\ rec.score \in PassingScore..100 /\ rec.lab

\* A request reads its record; it stops here if it may not go on.  A lab that
\* fails its validation changes nothing and is no request on a record.
KBRead(r, op, x) ==
  /\ kbReq[r] = NoKBRequest
  /\ op = "complete" => MayComplete(progress[x])
  /\ kbReq' = [kbReq EXCEPT ![r] = [op |-> op, on |-> x, loaded |-> progress[x]]]
  /\ together' = IF \E q \in KBRequests : kbReq[q].on = x THEN together \cup {x} ELSE together
  /\ UNCHANGED <<progress, attempted, earned, kbRest>>

\* A new record is inserted with what the request puts into it, and an old one
\* gets the columns whose value is not the one that was read.
Changed(rec, loaded, new) ==
  IF loaded = NoRecord THEN new
  ELSE [ completed |-> IF new.completed = loaded.completed THEN rec.completed ELSE new.completed,
         score     |-> IF new.score = loaded.score THEN rec.score ELSE new.score,
         attempts  |-> IF new.attempts = loaded.attempts THEN rec.attempts ELSE new.attempts,
         lab       |-> IF new.lab = loaded.lab THEN rec.lab ELSE new.lab ]

KBWrite(r, new, count) ==
  LET x == kbReq[r].on  rec == Changed(progress[x], kbReq[r].loaded, new) IN
  /\ kbReq[r].loaded = NoRecord => progress[x] = NoRecord   \* uq_kb_user_chapter
  /\ attempted[x] + count <= MaxAttempts
  /\ progress' = [progress EXCEPT ![x] = rec]
  /\ attempted' = [attempted EXCEPT ![x] = @ + count]
  /\ earned' = IF rec.lab /\ rec.score \in PassingScore..100 THEN earned \cup {x} ELSE earned
  /\ kbReq' = [kbReq EXCEPT ![r] = NoKBRequest]
  /\ UNCHANGED <<together, kbRest>>

Base(r) == IF kbReq[r].loaded = NoRecord THEN Started ELSE kbReq[r].loaded

\* start_chapter; update_quiz, which counts from what it has read; update_lab;
\* complete_chapter.
StartChapter(r) == kbReq[r].op = "start" /\ KBWrite(r, Base(r), 0)
UpdateQuiz(r, score) ==
  /\ kbReq[r].op = "quiz"
  /\ KBWrite(r, [Base(r) EXCEPT !.score = score, !.attempts = @ + 1], 1)
UpdateLab(r) == kbReq[r].op = "lab" /\ KBWrite(r, [Base(r) EXCEPT !.lab = TRUE], 0)
CompleteChapter(r) == kbReq[r].op = "complete" /\ KBWrite(r, [Base(r) EXCEPT !.completed = TRUE], 0)

\* The record was inserted meanwhile, or the database fails.
KBFails(r) ==
  /\ kbReq[r] # NoKBRequest
  /\ kbReq' = [kbReq EXCEPT ![r] = NoKBRequest]
  /\ UNCHANGED <<progress, attempted, together, earned, kbRest>>

-----------------------------------------------------------------------------
(***************************************************************************)
(* Leaderboard                                                             *)
(***************************************************************************)
boardRest == <<progress, kbReq, attempted, together, earned, session>>

CompletedBy(l) == {c \in Chapters : progress[<<l, c>>].completed}

\* get_leaderboard without a valid entry in its cache: one query counts what
\* everybody has completed, one query for each gets the badges, and the result
\* is cached as of now.
CountCompleted(r) ==
  /\ ranking[r] = NotRanking
  /\ ranking' = [ranking EXCEPT ![r] =
                   [counts |-> [l \in Learners |-> Cardinality(CompletedBy(l))], badges |-> {}, asked |-> {}]]
  /\ UNCHANGED <<board, boardRest>>
GetBadges(r, l) ==
  /\ ranking[r] # NotRanking /\ l \notin ranking[r].asked
  /\ ranking' = [ranking EXCEPT ![r].asked = @ \cup {l},
                                ![r].badges = IF CompletedBy(l) = Chapters THEN @ \cup {l} ELSE @]
  /\ UNCHANGED <<board, boardRest>>

\* Mutant: the badges of the board before are kept.
EntriesWithOldBadges(rank) == [l \in Learners |-> [count |-> rank.counts[l], badge |-> board[l].badge]]
Entries(rank) == [l \in Learners |-> [count |-> rank.counts[l], badge |-> l \in rank.badges]]

CacheBoard(r) ==
  /\ ranking[r] # NotRanking /\ ranking[r].asked = Learners
  /\ board' = Entries(ranking[r])
  /\ ranking' = [ranking EXCEPT ![r] = NotRanking]
  /\ UNCHANGED boardRest

-----------------------------------------------------------------------------
(***************************************************************************)
(* TutorialEngine, which keeps its sessions in memory                      *)
(***************************************************************************)
tutorialRest == <<progress, kbReq, attempted, together, earned, board, ranking>>

StartTutorial ==
  /\ session' = [done |-> {}, current |-> 1, open |-> TRUE]
  /\ UNCHANGED tutorialRest
\* complete_step: in any order, and the cursor moves behind the step, back or forth.
CompleteStep(i) ==
  /\ session.open
  /\ session' = [session EXCEPT !.done = @ \cup {i}, !.current = IF i < Steps THEN i + 1 ELSE @]
  /\ UNCHANGED tutorialRest

LearningNext ==
  \/ \E r \in KBRequests :
       \/ \E op \in KBOps, x \in Records : KBRead(r, op, x)
       \/ \E score \in Scores : UpdateQuiz(r, score)
       \/ StartChapter(r) \/ UpdateLab(r) \/ CompleteChapter(r) \/ KBFails(r)
  \/ \E r \in BoardRequests :
       \/ CountCompleted(r) \/ CacheBoard(r)
       \/ \E l \in Learners : GetBadges(r, l)
  \/ StartTutorial
  \/ \E i \in 1..Steps : CompleteStep(i)

LearningSpec == LearningInit /\ [][LearningNext]_learningVars

-----------------------------------------------------------------------------
\* A record says what has happened: a chapter is completed only if its quiz was
\* passed and its lab done at one time, whatever a later quiz has made of the
\* score, and the attempts are the quizzes submitted, or fewer if two requests
\* were on the record at once (update_quiz, complete_chapter).
RecordsSayWhatHappened ==
  \A x \in {y \in Records : progress[y] # NoRecord} :
    /\ progress[x].completed => x \in earned
    /\ progress[x].attempts <= attempted[x]
    /\ x \in together \/ progress[x].attempts = attempted[x]

\* Who has completed every chapter according to the board has the badge on it:
\* the badges are never older than the counts (get_leaderboard).
BadgesFollowCounts ==
  \A l \in Learners : board[l].count = Cardinality(Chapters) => board[l].badge
=============================================================================

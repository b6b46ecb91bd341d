------------------------- MODULE JobWorkflowProofs -------------------------
(***************************************************************************)
(* Proofs about jobs and approvals, for any number of jobs and handlers    *)
(* and every set of faults.                                                *)
(***************************************************************************)
EXTENDS JobWorkflow, FiniteSetTheorems, TLAPS

(***************************************************************************)
(* The inductive invariant.                                                *)
(***************************************************************************)
\* A job without a row has nothing else, and a task works for a job that runs
\* or has been cancelled meanwhile.
TasksOK ==
  /\ \A j \in Jobs : job[j].status = "none" => job[j] = NotCreated
  /\ \A j \in Jobs : task[j] # "none" => job[j].status \in {"running", "cancelled"}
  /\ \A j \in Jobs : job[j].status # "none" => job[j].kind # "none"

\* What a handler has read of its job still holds, but for the difference
\* between running and over.
HandsOK ==
  \A h \in Handlers :
    /\ hand[h].op # "none" => hand[h].target \in Jobs
    /\ hand[h].op = "cancel" => job[hand[h].target].status # "none"
    /\ hand[h].op = "hide" => job[hand[h].target].status \in Terminal
    /\ hand[h].op \in {"decide", "apply"} => approval[hand[h].target] # "none"

\* A plan whose task is still at work has no approval yet.
ApprovalsOK ==
  /\ ApprovalComesWithPlan
  /\ \A j \in Jobs : task[j] # "none" => approval[j] = "none"

JobInv == TypeOK /\ TasksOK /\ HandsOK /\ HiddenIsOver /\ ApprovalsOK /\ RunningHasTask

-----------------------------------------------------------------------------
\* A new job has no row yet.
LEMMA NewJobIsNew ==
  ASSUME JobLeft
  PROVE  NewJob \in Jobs /\ job[NewJob] = NotCreated
  BY DEF JobLeft, NewJob

\* The invariant holds of empty tables.
LEMMA InitJobInv == Init => JobInv
  <1> SUFFICES ASSUME Init PROVE JobInv
    OBVIOUS
  <1> USE DEF Init, NotCreated, Free
  <1>1. TypeOK
    BY DEF TypeOK, Job, Kinds, Terminal, Stages, Hand, Ops, Decisions
  <1>2. TasksOK /\ HandsOK /\ HiddenIsOver
    BY DEF TasksOK, HandsOK, HiddenIsOver
  <1>3. ApprovalsOK /\ RunningHasTask
    BY DEF ApprovalsOK, ApprovalComesWithPlan, IsPlan, RunningHasTask
  <1>4. QED
    BY <1>1, <1>2, <1>3 DEF JobInv

\* A request that creates a job keeps everything about the others.
LEMMA CreatedKeeps ==
  ASSUME JobInv, NEW k \in {"init", "plan", "apply", "auto_apply", "destroy"},
         NEW a \in Jobs \cup {NoJob}, Created(k, a),
         approval' \in [Jobs -> {"none", "pending"} \cup Decisions],
         \A j \in Jobs : approval'[j] = "none" <=> approval[j] = "none",
         hand' \in [Handlers -> Hand],
         \A h \in Handlers : hand'[h] = hand[h] \/ hand'[h] = Free,
         UNCHANGED history
  PROVE  JobInv'
  <1> DEFINE n == NewJob
             row == [kind |-> k, status |-> "running", hidden |-> FALSE, source |-> a]
  <1>1. n \in Jobs /\ job[n] = NotCreated
    BY NewJobIsNew DEF Created
  <1>2. job' = [job EXCEPT ![n] = row] /\ task' = [task EXCEPT ![n] = "run"]
    BY DEF Created
  <1>3. row \in Job
    BY DEF Job, Kinds, Terminal
  <1> HIDE DEF n
  <1> USE DEF JobInv
  <1>4. TypeOK'
    BY <1>1, <1>2, <1>3 DEF TypeOK, Stages, history
  <1>5. \A j \in Jobs : job'[j] = IF j = n THEN row ELSE job[j]
    BY <1>1, <1>2 DEF TypeOK
  <1>6. \A j \in Jobs : task'[j] = IF j = n THEN "run" ELSE task[j]
    BY <1>1, <1>2 DEF TypeOK
  <1>7. job[n].status = "none" /\ job[n].kind = "none"
    BY <1>1 DEF NotCreated
  <1>8. approval[n] = "none"
    BY <1>1, <1>7 DEF ApprovalsOK, ApprovalComesWithPlan, IsPlan
  <1>9. TasksOK'
    BY <1>5, <1>6 DEF TasksOK
  <1>10. HandsOK'
    BY <1>5, <1>7 DEF HandsOK, Free, Terminal
  <1>11. HiddenIsOver'
    BY <1>5 DEF HiddenIsOver
  <1>12. ApprovalsOK'
    BY <1>5, <1>6, <1>7, <1>8 DEF ApprovalsOK, ApprovalComesWithPlan, IsPlan
  <1>13. RunningHasTask'
    BY <1>5, <1>6 DEF RunningHasTask, history
  <1>14. QED
    BY <1>4, <1>9, <1>10, <1>11, <1>12, <1>13

\* Every write of a handler keeps the invariant.
LEMMA WritesKeep ==
  ASSUME JobInv, NEW h \in Handlers, Write(h)
  PROVE  JobInv'
  <1> USE DEF JobInv
  <1>1. hand' = [hand EXCEPT ![h] = Free]
    BY DEF Write, DecideWrite, ApplyWrite, CancelWrite, HideWrite, Done
  <1>2. hand' \in [Handlers -> Hand]
    BY <1>1 DEF TypeOK, Hand, Free, Ops, Decisions
  <1>3. \A g \in Handlers : hand'[g] = hand[g] \/ hand'[g] = Free
    BY <1>1 DEF TypeOK
  <1>4. CASE DecideWrite(h)
    <2>1. hand[h].target \in Jobs /\ approval[hand[h].target] # "none"
      BY <1>4 DEF DecideWrite, HandsOK
    <2>2. hand[h].decision \in Decisions
      BY DEF TypeOK, Hand
    <2>3. approval' \in [Jobs -> {"none", "pending"} \cup Decisions]
      BY <1>4, <2>2 DEF DecideWrite, TypeOK
    <2>4. \A j \in Jobs : approval'[j] = "none" <=> approval[j] = "none"
      BY <1>4, <2>1, <2>2 DEF DecideWrite, TypeOK, Decisions
    <2>5. CASE Created("auto_apply", hand[h].target)
      BY <1>2, <1>3, <1>4, <2>1, <2>3, <2>4, <2>5, CreatedKeeps DEF DecideWrite
    <2>6. CASE UNCHANGED <<job, task>>
      <3>1. UNCHANGED history
        BY <1>4 DEF DecideWrite
      <3>2. TypeOK' /\ TasksOK' /\ HiddenIsOver' /\ RunningHasTask'
        BY <1>2, <2>3, <2>6, <3>1 DEF TypeOK, TasksOK, HiddenIsOver, RunningHasTask, history
      <3>3. HandsOK'
        BY <1>3, <2>4, <2>6 DEF HandsOK, Free
      <3>4. ApprovalsOK'
        BY <2>4, <2>6 DEF ApprovalsOK, ApprovalComesWithPlan, IsPlan
      <3>5. QED
        BY <3>2, <3>3, <3>4
    <2>7. QED
      BY <1>4, <2>5, <2>6 DEF DecideWrite
  <1>5. CASE ApplyWrite(h)
    <2>1. hand[h].target \in Jobs
      BY <1>5 DEF ApplyWrite, HandsOK
    <2>2. QED
      BY <1>2, <1>3, <1>5, <2>1, CreatedKeeps DEF ApplyWrite, TypeOK
  <1>6. CASE CancelWrite(h) \/ HideWrite(h)
    <2> DEFINE t == hand[h].target
    <2>1. t \in Jobs /\ job[t].status # "none"
      BY <1>6 DEF CancelWrite, HideWrite, HandsOK, Terminal
    <2>2. PICK row \in Job :
            /\ job' = [job EXCEPT ![t] = row]
            /\ row.kind = job[t].kind
            /\ \/ row.status = "cancelled"
               \/ row.status = job[t].status /\ job[t].status \in Terminal
      <3>1. CASE CancelWrite(h)
        <4> DEFINE row == [job[t] EXCEPT !.status = "cancelled"]
        <4>1. row \in Job /\ row.kind = job[t].kind /\ row.status = "cancelled"
          BY <2>1 DEF TypeOK, Job, Terminal
        <4>2. job' = [job EXCEPT ![t] = row]
          BY <3>1 DEF CancelWrite
        <4>3. QED
          BY <4>1, <4>2
      <3>2. CASE HideWrite(h)
        <4> DEFINE row == [job[t] EXCEPT !.hidden = TRUE]
        <4>1. row \in Job /\ row.kind = job[t].kind /\ row.status = job[t].status
          BY <2>1 DEF TypeOK, Job
        <4>2. job' = [job EXCEPT ![t] = row] /\ job[t].status \in Terminal
          BY <2>1, <3>2 DEF HideWrite, HandsOK
        <4>3. QED
          BY <4>1, <4>2
      <3>3. QED
        BY <1>6, <3>1, <3>2
    <2>3. UNCHANGED <<task, approval, history>>
      BY <1>6 DEF CancelWrite, HideWrite
    <2> HIDE DEF t
    <2>4. \A j \in Jobs : job'[j] = IF j = t THEN row ELSE job[j]
      BY <2>1, <2>2 DEF TypeOK
    <2>5. TypeOK'
      BY <1>2, <2>1, <2>2, <2>3 DEF TypeOK, history
    <2>6. TasksOK'
      BY <2>1, <2>2, <2>3, <2>4 DEF TasksOK, Terminal
    <2>7. HandsOK'
      BY <1>3, <2>1, <2>2, <2>3, <2>4 DEF HandsOK, Free, Terminal
    <2>8. HiddenIsOver'
      BY <2>2, <2>4 DEF HiddenIsOver, Terminal
    <2>9. ApprovalsOK'
      BY <2>1, <2>2, <2>3, <2>4 DEF ApprovalsOK, ApprovalComesWithPlan, IsPlan, Terminal
    <2>10. RunningHasTask'
      BY <2>1, <2>2, <2>3, <2>4 DEF RunningHasTask, history, Terminal
    <2>11. QED
      BY <2>5, <2>6, <2>7, <2>8, <2>9, <2>10
  <1>7. QED
    BY <1>4, <1>5, <1>6 DEF Write

\* What a handler reads holds when it has read it.
LEMMA ReadsKeep ==
  ASSUME JobInv, NEW h \in Handlers, NEW j \in Jobs, Read(h, j)
  PROVE  JobInv'
  <1> USE DEF JobInv
  <1>1. UNCHANGED <<job, task, approval, lost>>
    BY DEF Read, DecideRead, ApplyRead, CancelRead, HideRead, history
  <1>2. contended' \in SUBSET Jobs
    BY DEF Read, DecideRead, ApplyRead, CancelRead, HideRead, history, TypeOK
  <1>3. PICK o \in Ops, d \in Decisions :
          /\ hand' = [hand EXCEPT ![h] = [op |-> o, target |-> j, decision |-> d]]
          /\ o = "cancel" => job[j].status # "none"
          /\ o = "hide" => job[j].status \in Terminal
          /\ o \in {"decide", "apply"} => approval[j] # "none"
    BY DEF Read, DecideRead, ApplyRead, CancelRead, HideRead, Takes, Ops, Decisions
  <1>4. TypeOK'
    BY <1>1, <1>2, <1>3 DEF TypeOK, Hand
  <1>5. HandsOK'
    BY <1>1, <1>3 DEF HandsOK, TypeOK
  <1>6. QED
    BY <1>1, <1>4, <1>5 DEF TasksOK, HiddenIsOver, ApprovalsOK, ApprovalComesWithPlan,
                            IsPlan, RunningHasTask

\* A task records one result, with its approval, and ends.
LEMMA TasksKeep ==
  ASSUME JobInv, NEW j \in Jobs, Task(j)
  PROVE  JobInv'
  <1> USE DEF JobInv
  <1>1. UNCHANGED <<hand, contended>> /\ lost' \in BOOLEAN
    BY DEF Task, CannotStart, Terraform, Complete, Fail, history, TypeOK
  <1>2. task[j] # "none" /\ job[j].status \in {"running", "cancelled"} /\ approval[j] = "none"
    BY DEF Task, CannotStart, Terraform, Complete, Fail, TasksOK, ApprovalsOK
  <1>3. ASSUME UNCHANGED <<job, approval>>, NEW s \in Stages,
               task' = [task EXCEPT ![j] = s], s # "none" \/ lost', lost => lost'
        PROVE  JobInv'
    <2>1. TypeOK'
      BY <1>1, <1>3 DEF TypeOK
    <2>2. TasksOK' /\ ApprovalsOK'
      BY <1>2, <1>3 DEF TypeOK, TasksOK, ApprovalsOK, ApprovalComesWithPlan, IsPlan
    <2>3. HandsOK' /\ HiddenIsOver' /\ RunningHasTask'
      BY <1>1, <1>3 DEF TypeOK, HandsOK, HiddenIsOver, RunningHasTask
    <2>4. QED
      BY <2>1, <2>2, <2>3
  <1>4. ASSUME NEW s \in {"completed", "failed"},
               job' = [job EXCEPT ![j].status = s],
               task' = [task EXCEPT ![j] = "none"],
               approval' = IF s = "completed" /\ IsPlan(j)
                           THEN [approval EXCEPT ![j] = "pending"] ELSE approval,
               UNCHANGED lost
        PROVE  JobInv'
    <2> DEFINE row == [job[j] EXCEPT !.status = s]
    <2>1. row \in Job /\ row.status = s /\ row.kind = job[j].kind /\ row.hidden = job[j].hidden
      BY DEF TypeOK, Job, Terminal
    <2>2. job' = [job EXCEPT ![j] = row]
      BY <1>4
    <2> HIDE DEF row
    <2>3. \A i \in Jobs : job'[i] = IF i = j THEN row ELSE job[i]
      BY <2>2 DEF TypeOK
    <2>4. \A i \in Jobs : task'[i] = IF i = j THEN "none" ELSE task[i]
      BY <1>4 DEF TypeOK
    <2>5. \A i \in Jobs : approval'[i] = IF i = j /\ s = "completed" /\ IsPlan(j)
                                        THEN "pending" ELSE approval[i]
      BY <1>4 DEF TypeOK
    <2>6. TypeOK'
      BY <1>1, <1>4, <2>1, <2>2 DEF TypeOK, Stages
    <2>7. TasksOK'
      BY <1>2, <2>1, <2>3, <2>4 DEF TasksOK
    <2>8. HandsOK'
      BY <1>1, <2>1, <2>3, <2>5 DEF HandsOK, Terminal
    <2>9. HiddenIsOver'
      BY <2>1, <2>3 DEF HiddenIsOver, Terminal
    <2>10. ApprovalsOK'
      BY <1>2, <2>1, <2>3, <2>4, <2>5 DEF ApprovalsOK, ApprovalComesWithPlan, IsPlan
    <2>11. RunningHasTask'
      BY <1>4, <2>1, <2>3, <2>4 DEF RunningHasTask
    <2>12. QED
      BY <2>6, <2>7, <2>8, <2>9, <2>10, <2>11
  <1>5. CASE CannotStart(j)
    BY <1>3, <1>5 DEF CannotStart, Stages
  <1>6. CASE Terraform(j)
    BY <1>3, <1>6 DEF Terraform, Stages, history
  <1>7. CASE Complete(j)
    <2>1. CASE task' = [task EXCEPT ![j] = "fail"] /\ UNCHANGED <<job, approval, hand, history>>
      BY <1>3, <2>1 DEF Stages, history
    <2>2. QED
      BY <1>4, <1>7, <2>1 DEF Complete, history
  <1>8. CASE Fail(j)
    BY <1>3, <1>4, <1>8 DEF Fail, Stages
  <1>9. QED
    BY <1>5, <1>6, <1>7, <1>8 DEF Task

\* A restart drops tasks and handlers.
LEMMA RestartKeeps ==
  ASSUME JobInv, Restart
  PROVE  JobInv'
  <1> USE DEF JobInv
  <1>1. TypeOK'
    BY DEF Restart, TypeOK, Stages, Hand, Free, Ops, Decisions
  <1>2. TasksOK' /\ HandsOK' /\ HiddenIsOver'
    BY DEF Restart, TasksOK, HandsOK, HiddenIsOver, Free
  <1>3. ApprovalsOK'
    BY DEF Restart, ApprovalsOK, ApprovalComesWithPlan, IsPlan
  <1>4. RunningHasTask'
    BY DEF Restart, RunningHasTask, TypeOK
  <1>5. QED
    BY <1>1, <1>2, <1>3, <1>4

-----------------------------------------------------------------------------
(***************************************************************************)
(* The theorems.                                                           *)
(***************************************************************************)
\* Every step keeps the invariant.
LEMMA NextJobInv == JobInv /\ [Next]_vars => JobInv'
  <1> SUFFICES ASSUME JobInv, [Next]_vars
               PROVE  JobInv'
    OBVIOUS
  <1>1. ASSUME NEW k \in Submitted, Submit(k)
        PROVE  JobInv'
    <2>1. k \in {"init", "plan", "apply", "auto_apply", "destroy"}
      BY SubmittedAssumption
    <2>2. QED
      BY <1>1, <2>1, CreatedKeeps DEF Submit, JobInv, TypeOK
  <1>2. CASE UNCHANGED vars
    BY <1>2 DEF vars, history, JobInv, TypeOK, TasksOK, HandsOK, HiddenIsOver, ApprovalsOK,
                ApprovalComesWithPlan, IsPlan, RunningHasTask
  <1>3. QED
    BY <1>1, <1>2, ReadsKeep, WritesKeep, TasksKeep, RestartKeeps DEF Next

\* The invariant holds in every state.
THEOREM JobInvariance == Spec => []JobInv
  BY InitJobInv, NextJobInv, PTL DEF Spec

\* Jobs, tasks, approvals and handlers keep their types.
THEOREM JobTypeCorrect == Spec => []TypeOK
  <1>1. JobInv => TypeOK
    BY DEF JobInv
  <1>2. QED
    BY <1>1, JobInvariance, PTL

\* A completed plan has an approval and an approval has a plan, whoever
\* cancels, whatever transaction fails and whenever the server restarts
\* (_run_plan).
THEOREM ApprovalComesWithPlanAlways == Spec => []ApprovalComesWithPlan
  <1>1. JobInv => ApprovalComesWithPlan
    BY DEF JobInv, ApprovalsOK
  <1>2. QED
    BY <1>1, JobInvariance, PTL

\* No job that runs is ever hidden, although hide_job looks at the status in
\* one statement and hides the job in another.
THEOREM HiddenIsOverAlways == Spec => []HiddenIsOver
  <1>1. JobInv => HiddenIsOver
    BY DEF JobInv
  <1>2. QED
    BY <1>1, JobInvariance, PTL

\* A running job has its task, until a task is lost.
THEOREM RunningHasTaskAlways == Spec => []RunningHasTask
  <1>1. JobInv => RunningHasTask
    BY DEF JobInv
  <1>2. QED
    BY <1>1, JobInvariance, PTL

\* Nothing changes the status of a settled job, nor unsettles it.
LEMMA SettledStep ==
  ASSUME JobInv, [Next]_vars, NEW j \in Jobs, Settled(j)
  PROVE  Settled(j)' /\ job'[j].status = job[j].status
  <1> USE DEF JobInv
  <1>1. job[j] # NotCreated /\ task[j] = "none"
    BY DEF Settled, NotCreated, Terminal
  <1>2. ASSUME NEW k, NEW a, Created(k, a)
        PROVE  job'[j] = job[j] /\ task'[j] = task[j]
    BY <1>1, <1>2, NewJobIsNew DEF Created, TypeOK
  <1>3. ASSUME NEW k \in Submitted, Submit(k)
        PROVE  Settled(j)' /\ job'[j].status = job[j].status
    BY <1>2, <1>3 DEF Submit, Settled
  <1>4. ASSUME NEW h \in Handlers, NEW i \in Jobs, Read(h, i)
        PROVE  Settled(j)' /\ job'[j].status = job[j].status
    BY <1>4 DEF Read, DecideRead, ApplyRead, CancelRead, HideRead, Takes, Settled, TypeOK,
                Terminal, history
  <1>5. ASSUME NEW h \in Handlers, Write(h)
        PROVE  Settled(j)' /\ job'[j].status = job[j].status
    <2>1. job'[j].status = job[j].status /\ task'[j] = task[j]
      <3>1. CASE DecideWrite(h) \/ ApplyWrite(h)
        BY <1>2, <3>1 DEF DecideWrite, ApplyWrite
      <3>2. CASE CancelWrite(h)
        BY <3>2 DEF CancelWrite, Settled, TypeOK
      <3>3. CASE HideWrite(h)
        BY <3>3 DEF HideWrite, TypeOK, Job
      <3>4. QED
        BY <1>5, <3>1, <3>2, <3>3 DEF Write
    <2>2. hand' = [hand EXCEPT ![h] = Free]
      BY <1>5 DEF Write, DecideWrite, ApplyWrite, CancelWrite, HideWrite, Done
    <2>3. QED
      BY <2>1, <2>2 DEF Settled, TypeOK, Free
  <1>6. ASSUME NEW i \in Jobs, Task(i)
        PROVE  Settled(j)' /\ job'[j].status = job[j].status
    BY <1>1, <1>6 DEF Task, CannotStart, Terraform, Complete, Fail, Settled, TypeOK, history
  <1>7. CASE Restart
    BY <1>7 DEF Restart, Settled, Free
  <1>8. CASE UNCHANGED vars
    BY <1>8 DEF vars, Settled
  <1>9. QED
    BY <1>3, <1>4, <1>5, <1>6, <1>7, <1>8 DEF Next

\* The result of a job is final once its task has ended and no request to
\* cancel it is under way (cancel_job).
THEOREM SettledIsFinalAlways == Spec => SettledIsFinal
  <1>1. JobInv /\ [Next]_vars =>
          \A j \in Jobs : Settled(j) => Settled(j)' /\ job'[j].status = job[j].status
    BY SettledStep
  <1>2. QED
    BY <1>1, JobInvariance, PTL DEF Spec, SettledIsFinal

-----------------------------------------------------------------------------
(***************************************************************************)
(* Decisions take effect.  What is decided by one request at a time is     *)
(* pending until that request writes, and a request to apply has read a    *)
(* decision that stays what it is.                                         *)
(***************************************************************************)
DecidersOK ==
  \A h \in Handlers : hand[h].op = "decide" /\ hand[h].target \notin contended =>
    /\ approval[hand[h].target] = "pending"
    /\ \A g \in Handlers : hand[g].op = "decide" /\ hand[g].target = hand[h].target => g = h

AppliersOK ==
  \A h \in Handlers : hand[h].op = "apply" =>
    /\ approval[hand[h].target] \in Decisions
    /\ hand[h].target \notin contended => approval[hand[h].target] = "approved"

\* DecisionTakesEffect, without counting.
AppliedOK ==
  \A a \in Jobs \ contended :
    /\ approval[a] # "approved" => Applies(a) = {}
    /\ approval[a] = "approved" => \E i \in Jobs : AutoApplies(a) = {i}

DecisionsInv == DecidersOK /\ AppliersOK /\ AppliedOK /\ UndecidedIsNotApplied

\* Nothing has been decided in empty tables.
LEMMA InitDecisionsInv == Init => DecisionsInv
  <1> SUFFICES ASSUME Init PROVE DecisionsInv
    OBVIOUS
  <1>1. DecidersOK /\ AppliersOK
    BY DEF Init, Free, DecidersOK, AppliersOK
  <1>2. \A a \in Jobs : Applies(a) = {}
    BY NoJobAssumption DEF Init, NotCreated, Applies
  <1>3. AppliedOK /\ UndecidedIsNotApplied
    BY <1>2 DEF Init, AppliedOK, UndecidedIsNotApplied
  <1>4. QED
    BY <1>1, <1>3 DEF DecisionsInv

\* What counts as an apply of a plan when a job is created: nothing new but
\* the job itself.
LEMMA CreatedApplies ==
  ASSUME TypeOK, NEW k, NEW a, Created(k, a)
  PROVE  /\ \A b \in Jobs : b # a => Applies(b)' = Applies(b) /\ AutoApplies(b)' = AutoApplies(b)
         /\ k # "auto_apply" => AutoApplies(a)' = AutoApplies(a) \ {NewJob}
         /\ k = "auto_apply" => AutoApplies(a)' = AutoApplies(a) \cup {NewJob}
         /\ a = NoJob \/ AutoApplies(a) \ {NewJob} = AutoApplies(a)
  <1> DEFINE n == NewJob
             row == [kind |-> k, status |-> "running", hidden |-> FALSE, source |-> a]
  <1>1. n \in Jobs /\ job[n] = NotCreated
    BY NewJobIsNew DEF Created
  <1>2. job' = [job EXCEPT ![n] = row]
    BY DEF Created
  <1> HIDE DEF n
  <1>3. \A j \in Jobs : job'[j] = IF j = n THEN row ELSE job[j]
    BY <1>1, <1>2 DEF TypeOK
  <1>4. job[n].kind = "none" /\ job[n].source = NoJob
    BY <1>1 DEF NotCreated
  <1>5. row.kind = k /\ row.source = a
    OBVIOUS
  <1> HIDE DEF row
  <1>6. ASSUME NEW b \in Jobs, b # a
        PROVE  Applies(b)' = Applies(b) /\ AutoApplies(b)' = AutoApplies(b)
    BY <1>3, <1>4, <1>5, <1>6, NoJobAssumption DEF Applies, AutoApplies
  <1>7. k # "auto_apply" => AutoApplies(a)' = AutoApplies(a) \ {n}
    BY <1>3, <1>4, <1>5 DEF AutoApplies
  <1>8. k = "auto_apply" => AutoApplies(a)' = AutoApplies(a) \cup {n}
    BY <1>1, <1>3, <1>5 DEF AutoApplies
  <1>9. a = NoJob \/ AutoApplies(a) \ {n} = AutoApplies(a)
    BY <1>4 DEF AutoApplies
  <1>10. QED
    BY <1>6, <1>7, <1>8, <1>9 DEF n

\* A step that leaves the kind and the source of every job alone adds no apply.
LEMMA SameApplies ==
  ASSUME \A j \in Jobs : job'[j].kind = job[j].kind /\ job'[j].source = job[j].source
  PROVE  \A a \in Jobs : Applies(a)' = Applies(a) /\ AutoApplies(a)' = AutoApplies(a)
  BY DEF Applies, AutoApplies

\* The UPDATE of an approval that nobody else decides finds it pending and not
\* applied; it is then applied once, or never.
LEMMA DecideWriteKeepsDecisions ==
  ASSUME JobInv, DecisionsInv, NEW h \in Handlers, DecideWrite(h)
  PROVE  DecisionsInv'
  <1> USE DEF DecisionsInv
  <1>0. hand[h].target \in Jobs /\ hand[h].decision \in Decisions /\ TypeOK
    BY DEF JobInv, HandsOK, DecideWrite, TypeOK, Hand
  <1>1. PICK a \in Jobs, d \in Decisions : hand[h].target = a /\ hand[h].decision = d
    BY <1>0
  <1>2. \A b \in Jobs : approval'[b] = IF b = a THEN d ELSE approval[b]
    BY <1>0, <1>1 DEF DecideWrite, TypeOK
  <1>3. \A g \in Handlers : hand'[g] = IF g = h THEN Free ELSE hand[g]
    BY <1>0 DEF DecideWrite, Done, TypeOK
  <1>4. contended' = contended
    BY DEF DecideWrite, history
  <1>5. hand[h].op = "decide"
    BY DEF DecideWrite
  <1>6. \A g \in Handlers : hand[g].op \in {"decide", "apply"} => hand[g].target \in Jobs
    BY DEF JobInv, HandsOK
  <1>7. DecidersOK'
    BY <1>1, <1>2, <1>3, <1>4, <1>5, <1>6 DEF DecidersOK, Free
  <1>8. AppliersOK'
    <2> SUFFICES ASSUME NEW g \in Handlers, hand'[g].op = "apply"
                 PROVE  /\ approval'[hand'[g].target] \in Decisions
                        /\ hand'[g].target \notin contended' =>
                             approval'[hand'[g].target] = "approved"
      BY DEF AppliersOK
    <2>1. hand'[g] = hand[g] /\ hand[g].target \in Jobs
      BY <1>3, <1>6 DEF Free
    <2>2. hand[g].target = a => a \in contended
      BY <1>1, <1>5, <2>1 DEF DecidersOK, AppliersOK, Decisions
    <2>3. QED
      BY <1>1, <1>2, <1>4, <2>1, <2>2 DEF AppliersOK
  <1>9. \A b \in Jobs : b # a => Applies(b)' = Applies(b) /\ AutoApplies(b)' = AutoApplies(b)
    BY <1>0, <1>1, CreatedApplies, SameApplies DEF DecideWrite
  <1>10. UndecidedIsNotApplied'
    BY <1>1, <1>2, <1>9 DEF UndecidedIsNotApplied, Decisions
  <1>11. a \notin contended => approval[a] = "pending" /\ Applies(a) = {} /\ AutoApplies(a) = {}
    BY <1>1, <1>5 DEF DecidersOK, UndecidedIsNotApplied, Applies, AutoApplies
  <1>12. ASSUME a \notin contended, d = "approved"
         PROVE  \E i \in Jobs : AutoApplies(a)' = {i}
    <2>1. Created("auto_apply", a)
      BY <1>1, <1>12 DEF DecideWrite, Decisions
    <2>2. AutoApplies(a)' = AutoApplies(a) \cup {NewJob}
      BY <1>0, <2>1, CreatedApplies
    <2>3. NewJob \in Jobs
      BY <2>1, NewJobIsNew DEF Created
    <2>4. QED
      BY <1>11, <1>12, <2>2, <2>3
  <1>13. ASSUME a \notin contended, d = "rejected"
         PROVE  Applies(a)' = {}
    <2>1. UNCHANGED job
      BY <1>1, <1>13 DEF DecideWrite
    <2>2. QED
      BY <1>11, <1>13, <2>1 DEF Applies
  <1>14. AppliedOK'
    BY <1>1, <1>2, <1>4, <1>9, <1>12, <1>13 DEF AppliedOK, Decisions
  <1>15. QED
    BY <1>7, <1>8, <1>10, <1>14

\* A request to apply adds a job to a plan that has been approved, and takes
\* nothing from the one that was started by the decision.
LEMMA ApplyWriteKeepsDecisions ==
  ASSUME JobInv, DecisionsInv, NEW h \in Handlers, ApplyWrite(h)
  PROVE  DecisionsInv'
  <1> USE DEF DecisionsInv
  <1>0. hand[h].target \in Jobs
    BY DEF JobInv, HandsOK, ApplyWrite
  <1>1. PICK a \in Jobs : /\ TypeOK /\ hand[h].op = "apply" /\ hand[h].target = a
                          /\ Created("apply", a)
    BY <1>0 DEF JobInv, ApplyWrite
  <1>2. UNCHANGED <<approval, contended>>
    BY DEF ApplyWrite, history
  <1>3. \A g \in Handlers : hand'[g] = IF g = h THEN Free ELSE hand[g]
    BY <1>1 DEF ApplyWrite, Done, TypeOK
  <1>4. DecidersOK' /\ AppliersOK'
    BY <1>2, <1>3 DEF DecidersOK, AppliersOK, Free
  <1>5. \A b \in Jobs : b # a => Applies(b)' = Applies(b) /\ AutoApplies(b)' = AutoApplies(b)
    BY <1>1, CreatedApplies
  <1>6. AutoApplies(a)' = AutoApplies(a)
    BY <1>1, CreatedApplies, NoJobAssumption
  <1>7. approval[a] \in Decisions /\ (a \notin contended => approval[a] = "approved")
    BY <1>1 DEF AppliersOK
  <1>8. AppliedOK' /\ UndecidedIsNotApplied'
    BY <1>2, <1>5, <1>6, <1>7 DEF AppliedOK, UndecidedIsNotApplied, Decisions
  <1>9. QED
    BY <1>4, <1>8

\* The other steps decide nothing and apply nothing.
LEMMA OthersKeepDecisions ==
  ASSUME JobInv, DecisionsInv,
         \A a \in Jobs : Applies(a)' = Applies(a) /\ AutoApplies(a)' = AutoApplies(a),
         \A a \in Jobs : approval'[a] = approval[a] \/ (approval[a] = "none" /\ approval'[a] = "pending"),
         contended \subseteq contended',
         \A h \in Handlers : hand'[h].op \in {"decide", "apply"} => hand'[h] = hand[h]
  PROVE  DecisionsInv'
  <1> USE DEF DecisionsInv
  <1>1. \A h \in Handlers : hand[h].op \in {"decide", "apply"} =>
          hand[h].target \in Jobs /\ approval[hand[h].target] # "none"
    BY DEF JobInv, HandsOK
  <1>2. DecidersOK' /\ AppliersOK'
    BY <1>1 DEF DecidersOK, AppliersOK
  <1>3. AppliedOK' /\ UndecidedIsNotApplied'
    BY DEF AppliedOK, UndecidedIsNotApplied
  <1>4. QED
    BY <1>2, <1>3

\* The SELECT of a decision finds the approval pending, and marks it when
\* another request is about to decide it too.
LEMMA ReadsKeepDecisions ==
  ASSUME JobInv, DecisionsInv, NEW h \in Handlers, NEW j \in Jobs, Read(h, j)
  PROVE  DecisionsInv'
  <1> USE DEF DecisionsInv
  <1>1. UNCHANGED <<job, approval>> /\ TypeOK
    BY DEF Read, DecideRead, ApplyRead, CancelRead, HideRead, JobInv
  <1>2. \A a \in Jobs : Applies(a)' = Applies(a) /\ AutoApplies(a)' = AutoApplies(a)
    BY <1>1, SameApplies
  <1>3. contended \subseteq contended'
    BY DEF Read, DecideRead, ApplyRead, CancelRead, HideRead, history
  <1>4. AppliedOK' /\ UndecidedIsNotApplied'
    BY <1>1, <1>2, <1>3 DEF AppliedOK, UndecidedIsNotApplied
  <1>5. ASSUME NEW d \in Decisions, DecideRead(h, j, d)
        PROVE  DecidersOK' /\ AppliersOK'
    <2>1. approval[j] = "pending" /\ hand[h] = Free
      BY <1>5 DEF DecideRead, Takes
    <2>2. \A g \in Handlers : hand'[g] = IF g = h
            THEN [op |-> "decide", target |-> j, decision |-> d] ELSE hand[g]
      BY <1>1, <1>5 DEF DecideRead, Takes, TypeOK
    <2>3. \A g \in Handlers : hand[g].op = "decide" /\ hand[g].target = j => j \in contended'
      BY <1>5 DEF DecideRead
    <2>4. DecidersOK'
      BY <1>1, <1>3, <2>1, <2>2, <2>3 DEF DecidersOK
    <2>5. AppliersOK'
      BY <1>1, <1>3, <2>2 DEF AppliersOK
    <2>6. QED
      BY <2>4, <2>5
  <1>6. ASSUME NEW o \in {"apply", "cancel", "hide"}, Takes(h, o, j, "rejected"),
               o = "apply" => approval[j] = "approved", UNCHANGED contended
        PROVE  DecidersOK' /\ AppliersOK'
    <2>1. \A g \in Handlers : hand'[g] = IF g = h
            THEN [op |-> o, target |-> j, decision |-> "rejected"] ELSE hand[g]
      BY <1>1, <1>6 DEF Takes, TypeOK
    <2>2. DecidersOK' /\ AppliersOK'
      BY <1>1, <1>6, <2>1 DEF DecidersOK, AppliersOK, Decisions
    <2>3. QED
      BY <2>2
  <1>7. DecidersOK' /\ AppliersOK'
    BY <1>5, <1>6 DEF Read, ApplyRead, CancelRead, HideRead, history
  <1>8. QED
    BY <1>4, <1>7

\* Every step keeps the decisions.
LEMMA NextDecisionsInv == JobInv /\ DecisionsInv /\ [Next]_vars => DecisionsInv'
  <1> SUFFICES ASSUME JobInv, DecisionsInv, [Next]_vars
               PROVE  DecisionsInv'
    OBVIOUS
  <1>1. TypeOK
    BY DEF JobInv
  <1>2. ASSUME NEW k \in Submitted, Submit(k)
        PROVE  DecisionsInv'
    <2>1. \A a \in Jobs : Applies(a)' = Applies(a) /\ AutoApplies(a)' = AutoApplies(a)
      BY <1>1, <1>2, CreatedApplies, NoJobAssumption DEF Submit
    <2>2. QED
      BY <1>2, <2>1, OthersKeepDecisions DEF Submit, history
  <1>3. ASSUME NEW h \in Handlers, CancelWrite(h) \/ HideWrite(h)
        PROVE  DecisionsInv'
    <2>1. \A j \in Jobs : job'[j].kind = job[j].kind /\ job'[j].source = job[j].source
      BY <1>1, <1>3 DEF CancelWrite, HideWrite, TypeOK, Job
    <2>2. \A g \in Handlers : hand'[g].op \in {"decide", "apply"} => hand'[g] = hand[g]
      BY <1>1, <1>3 DEF CancelWrite, HideWrite, Done, Free, TypeOK
    <2>3. QED
      BY <1>3, <2>1, <2>2, SameApplies, OthersKeepDecisions DEF CancelWrite, HideWrite, history
  <1>4. ASSUME NEW j \in Jobs, Task(j)
        PROVE  DecisionsInv'
    <2>1. \A i \in Jobs : job'[i].kind = job[i].kind /\ job'[i].source = job[i].source
      BY <1>1, <1>4 DEF Task, CannotStart, Terraform, Complete, Fail, TypeOK, Job
    <2>2. approval[j] = "none"
      BY <1>4 DEF Task, CannotStart, Terraform, Complete, Fail, JobInv, ApprovalsOK
    <2>3. UNCHANGED <<hand, contended>>
      BY <1>4 DEF Task, CannotStart, Terraform, Complete, Fail, history
    <2>4. \A a \in Jobs : approval'[a] = approval[a] \/ (approval[a] = "none" /\ approval'[a] = "pending")
      BY <1>1, <1>4, <2>2 DEF Task, CannotStart, Terraform, Complete, Fail, TypeOK
    <2>5. QED
      BY <2>1, <2>3, <2>4, SameApplies, OthersKeepDecisions
  <1>5. CASE Restart
    <2>1. \A h \in Handlers : hand'[h].op \notin {"decide", "apply"}
      BY <1>5 DEF Restart, Free
    <2>2. QED
      BY <1>5, <2>1, SameApplies, OthersKeepDecisions DEF Restart
  <1>6. CASE UNCHANGED vars
    BY <1>6, SameApplies, OthersKeepDecisions DEF vars, history
  <1>7. QED
    BY <1>2, <1>3, <1>4, <1>5, <1>6, ReadsKeepDecisions, DecideWriteKeepsDecisions,
       ApplyWriteKeepsDecisions DEF Next, Write

\* A plan is applied after its approval, once by itself, and a rejected one
\* never, whatever happens to handlers and tasks, as long as two requests do not
\* decide it at a time (decide, terraform_apply).
THEOREM DecisionTakesEffectAlways == Spec => []DecisionTakesEffect
  <1>1. DecisionsInv => DecisionTakesEffect
    <2> SUFFICES ASSUME DecisionsInv, NEW a \in Jobs \ contended
                 PROVE  /\ Cardinality(AutoApplies(a)) = IF approval[a] = "approved" THEN 1 ELSE 0
                        /\ approval[a] # "approved" => Applies(a) = {}
      BY DEF DecisionTakesEffect
    <2>1. approval[a] # "approved" => Applies(a) = {}
      BY DEF DecisionsInv, AppliedOK
    <2>2. CASE approval[a] = "approved"
      BY <2>1, <2>2, FS_Singleton DEF DecisionsInv, AppliedOK
    <2>3. CASE approval[a] # "approved"
      <3>1. AutoApplies(a) = {}
        BY <2>1, <2>3 DEF Applies, AutoApplies
      <3>2. QED
        BY <2>1, <2>3, <3>1, FS_EmptySet
    <2>4. QED
      BY <2>2, <2>3
  <1>2. QED
    BY <1>1, JobInvariance, InitDecisionsInv, NextDecisionsInv, PTL DEF Spec

\* No plan is applied that nobody has decided on, even when requests race to
\* decide it.
THEOREM UndecidedIsNotAppliedAlways == Spec => []UndecidedIsNotApplied
  <1>1. DecisionsInv => UndecidedIsNotApplied
    BY DEF DecisionsInv
  <1>2. QED
    BY <1>1, JobInvariance, InitDecisionsInv, NextDecisionsInv, PTL DEF Spec
=============================================================================

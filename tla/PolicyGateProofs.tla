-------------------------- MODULE PolicyGateProofs --------------------------
(***************************************************************************)
(* Proofs about the policies, their copies in OPA and the gate, for any    *)
(* number of policies, sets, workspaces, jobs and requests, and every set  *)
(* of faults; at the end, about the run they share with GitHub's runs.     *)
(***************************************************************************)
EXTENDS MCVCSPolicy, VCSRunsProofs

(***************************************************************************)
(* The inductive invariant.  Of a policy that is in step at most one       *)
(* request is under way, and OPA has the text the database has but for the *)
(* change that this request is about to make.                              *)
(***************************************************************************)
TextOf(p) == IF Known(p) THEN policy[p].text ELSE "absent"

\* What request q, which still has business with policy p, knows of it.
Serves(q, p) ==
  /\ q.op = "load" => Known(p) /\ q.text = TextOf(p) /\ trial[p] = "absent"
  /\ q.op = "remove" => ~Known(p) /\ trial[p] = "absent"
  /\ q.op \in {"test", "test_remove"} => Known(p) /\ q.text = TextOf(p) /\ opa[p] = TextOf(p)
  /\ q.op = "test" => trial[p] = "absent"
  /\ q.op = "test_remove" => trial[p] \in {"absent", q.text}
  /\ q.op = "eval" =>
       /\ Known(p) /\ opa[p] = TextOf(p) /\ trial[p] = "absent"
       /\ \A x \in q.todo : x[1] = p => x[2].text = TextOf(p)

InStep(p) ==
  /\ \A r, q \in PolicyRequests :
       p \in Touches(prequest[r]) /\ p \in Touches(prequest[q]) => r = q
  /\ \A r \in PolicyRequests : p \in Touches(prequest[r]) => Serves(prequest[r], p)
  /\ ~Touched(p) => opa[p] = TextOf(p) /\ trial[p] = "absent"

\* A result whose evaluation nothing disturbed is the verdict of its text.
Right(x) == x.sound => (x.passed <=> x.text = "clean")

VerdictsRight ==
  /\ \A x \in results : Right(x)
  /\ \A r \in PolicyRequests : prequest[r].op = "eval" => \A x \in prequest[r].found : Right(x)

GateTypeOK ==
  /\ policy \in [Policies -> Policy \cup {NoPolicy}]
  /\ policySets \in SUBSET PolicySets
  /\ member \in Members
  /\ assigned \in Assignments
  /\ results \subseteq Result
  /\ opa \in [Policies -> Texts \cup {"absent"}]
  /\ trial \in [Policies -> Texts \cup {"absent"}]
  /\ prequest \in [PolicyRequests -> PRequest \cup {Idle}]
  /\ serving \in BOOLEAN
  /\ outOfStep \subseteq Policies

GateOK ==
  /\ ~serving => \A r \in PolicyRequests : prequest[r] = Idle
  /\ \A p \in Policies \ outOfStep : InStep(p)
  /\ VerdictsRight

GateInv == GateTypeOK /\ GateOK

-----------------------------------------------------------------------------
\* What stands for a missing row is no policy.
LEMMA NoPolicyIsNone ==
  ASSUME NEW row \in Policy
  PROVE  row # NoPolicy
  BY DEF Policy, NoPolicy, Texts

\* A policy with a row has a text.
LEMMA KnownText ==
  ASSUME GateTypeOK, NEW p \in Policies
  PROVE  /\ Known(p) => policy[p] \in Policy /\ TextOf(p) = policy[p].text /\ TextOf(p) \in Texts
         /\ ~Known(p) => policy[p] = NoPolicy /\ TextOf(p) = "absent"
  BY DEF GateTypeOK, Known, TextOf, Policy

\* The two kinds of requests under way.
LEMMA RequestKinds ==
  ASSUME GateTypeOK, NEW r \in PolicyRequests
  PROVE  /\ prequest[r] = Idle => prequest[r].op = "idle" /\ Touches(prequest[r]) = {}
         /\ prequest[r].op \in {"load", "remove", "test", "test_remove"} =>
              /\ prequest[r] # Idle
              /\ prequest[r].policy \in Policies /\ prequest[r].text \in Texts
              /\ Touches(prequest[r]) = {prequest[r].policy}
              /\ prequest[r] \in [op : {"load", "remove", "test", "test_remove"},
                                  policy : Policies, text : Texts]
         /\ prequest[r].op = "eval" =>
              /\ prequest[r] # Idle
              /\ Touches(prequest[r]) = {x[1] : x \in prequest[r].todo}
              /\ prequest[r] \in [op : {"eval"}, job : PolicyJobs, todo : SUBSET (Policies \X Policy),
                                  loaded : SUBSET Policies, found : SUBSET Result]
         /\ prequest[r] # Idle =>
              prequest[r].op \in {"load", "remove", "test", "test_remove", "eval"}
  <1>1. prequest[r] = Idle \/ prequest[r] \in PRequest
    BY DEF GateTypeOK
  <1>2. Idle.op = "idle"
    BY DEF Idle
  <1>3. CASE prequest[r] = Idle
    BY <1>2, <1>3 DEF Touches
  <1>4. CASE prequest[r] \in [op : {"load", "remove", "test", "test_remove"}, policy : Policies, text : Texts]
    BY <1>2, <1>4 DEF Touches
  <1>5. CASE prequest[r] \in [op : {"eval"}, job : PolicyJobs, todo : SUBSET (Policies \X Policy),
                              loaded : SUBSET Policies, found : SUBSET Result]
    BY <1>2, <1>5 DEF Touches
  <1> QED
    BY <1>1, <1>3, <1>4, <1>5 DEF PRequest

\* A step that has nothing to do with a policy leaves it in step.
Alike(new, old, p) ==
  /\ p \in Touches(new) <=> p \in Touches(old)
  /\ p \in Touches(new) =>
       new = old \/ (new.op = "eval" /\ old.op = "eval" /\ new.todo \subseteq old.todo)

LEMMA StaysInStep ==
  ASSUME NEW p \in Policies, InStep(p),
         TextOf(p)' = TextOf(p), Known(p)' = Known(p), opa'[p] = opa[p], trial'[p] = trial[p],
         \A r \in PolicyRequests : Alike(prequest'[r], prequest[r], p)
  PROVE  InStep(p)'
  <1>1. Touched(p)' = Touched(p)
    BY DEF Touched, Alike
  <1>2. ASSUME NEW r \in PolicyRequests, p \in Touches(prequest'[r])
        PROVE  Serves(prequest[r], p)'
    <2>1. p \in Touches(prequest[r]) /\ Serves(prequest[r], p)
      BY <1>2 DEF Alike, InStep
    <2>2. CASE prequest'[r] = prequest[r]
      BY <2>1, <2>2 DEF Serves
    <2>3. CASE /\ prequest'[r].op = "eval" /\ prequest[r].op = "eval"
               /\ prequest'[r].todo \subseteq prequest[r].todo
      BY <2>1, <2>3 DEF Serves
    <2>4. QED
      BY <1>2, <2>2, <2>3 DEF Alike
  <1> QED
    BY <1>1, <1>2 DEF InStep, Alike


\* A policy with one request, which knows what it needs, is in step ...
LEMMA OneRequest ==
  ASSUME NEW p \in Policies, NEW r \in PolicyRequests,
         p \in Touches(prequest'[r]), Serves(prequest[r], p)',
         \A q \in PolicyRequests \ {r} : p \notin Touches(prequest'[q])
  PROVE  InStep(p)'
  BY DEF InStep, Touched

\* ... and so is one without requests of which OPA has the text.
LEMMA NoRequest ==
  ASSUME NEW p \in Policies, opa'[p] = TextOf(p)', trial'[p] = "absent",
         \A q \in PolicyRequests : p \notin Touches(prequest'[q])
  PROVE  InStep(p)'
  BY DEF InStep, Touched

\* Verdicts stay right when none is added.
LEMMA VerdictsStay ==
  ASSUME VerdictsRight, results' \subseteq results,
         \A r \in PolicyRequests :
           prequest'[r].op = "eval" =>
             prequest[r].op = "eval" /\ prequest'[r].found \subseteq prequest[r].found
  PROVE  VerdictsRight'
  BY DEF VerdictsRight, Right

\* A request is under way only while the server serves.
LEMMA BusyServes ==
  ASSUME GateInv, NEW r \in PolicyRequests, prequest[r] # Idle
  PROVE  serving
  BY DEF GateInv, GateOK

-----------------------------------------------------------------------------
\* A request that goes on to OPA: its fields, and the policies it touches.
LEMMA GoesOn ==
  ASSUME GateTypeOK, NEW r \in PolicyRequests, NEW p \in Policies, NEW t \in Texts,
         NEW op \in {"load", "remove", "test"}, Goes(r, op, p, t)
  PROVE  /\ prequest' \in [PolicyRequests -> PRequest \cup {Idle}]
         /\ prequest'[r] = [op |-> op, policy |-> p, text |-> t]
         /\ outOfStep' \subseteq Policies
  <1> DEFINE new == [op |-> op, policy |-> p, text |-> t]
  <1>1. new \in PRequest
    BY DEF PRequest
  <1> HIDE DEF new
  <1>2. prequest' = [prequest EXCEPT ![r] = new]
    BY DEF Goes, new
  <1>3. prequest'[r] = new /\ prequest' \in [PolicyRequests -> PRequest \cup {Idle}]
    BY <1>1, <1>2 DEF GateTypeOK
  <1>4. outOfStep' \subseteq Policies
    BY DEF Goes, GateTypeOK
  <1> QED
    BY <1>3, <1>4 DEF new

\* A request that is over touches nothing any more.
LEMMA IsOver ==
  ASSUME GateTypeOK, NEW r \in PolicyRequests, Over(r)
  PROVE  /\ prequest' \in [PolicyRequests -> PRequest \cup {Idle}]
         /\ prequest'[r] = Idle /\ Touches(prequest'[r]) = {} /\ prequest'[r].op = "idle"
         /\ \A q \in PolicyRequests \ {r} : prequest'[q] = prequest[q]
         /\ \A x \in Policies \ Touches(prequest[r]) :
              \A q \in PolicyRequests : Alike(prequest'[q], prequest[q], x)
  <1>1. prequest' = [prequest EXCEPT ![r] = Idle]
    BY DEF Over
  <1>2. prequest' \in [PolicyRequests -> PRequest \cup {Idle}]
    BY <1>1 DEF GateTypeOK
  <1>3. prequest'[r] = Idle /\ \A q \in PolicyRequests \ {r} : prequest'[q] = prequest[q]
    BY <1>1 DEF GateTypeOK
  <1>4. Touches(Idle) = {} /\ Idle.op = "idle"
    BY DEF Touches, Idle
  <1>5. \A x \in Policies \ Touches(prequest[r]) :
          \A q \in PolicyRequests : Alike(prequest'[q], prequest[q], x)
    BY <1>3, <1>4 DEF Alike
  <1> QED
    BY <1>2, <1>3, <1>4, <1>5

\* The policies in step that a step is not about stay so: what is left to show
\* of a step is the policy it is about.
LEMMA AllInStep ==
  ASSUME GateInv, NEW p \in Policies, outOfStep \ {p} \subseteq outOfStep',
         p \notin outOfStep' => InStep(p)',
         \A x \in Policies \ {p} :
           /\ policy'[x] = policy[x] /\ opa'[x] = opa[x] /\ trial'[x] = trial[x]
           /\ \A q \in PolicyRequests : Alike(prequest'[q], prequest[q], x)
  PROVE  \A x \in Policies \ outOfStep' : InStep(x)'
  <1> SUFFICES ASSUME NEW x \in Policies \ outOfStep', x # p
               PROVE  InStep(x)'
    OBVIOUS
  <1>1. InStep(x)
    BY DEF GateInv, GateOK
  <1>2. TextOf(x)' = TextOf(x) /\ Known(x)' = Known(x)
    BY DEF TextOf, Known
  <1> QED
    BY <1>1, <1>2, StaysInStep


-----------------------------------------------------------------------------
(***************************************************************************)
(* Every action preserves the invariant.                                   *)
(***************************************************************************)
\* The parts of the invariant a request that goes on to OPA leaves open.
LEMMA GoesOnKeeps ==
  ASSUME GateInv, NEW r \in PolicyRequests, NEW p \in Policies, NEW t \in Texts,
         NEW op \in {"load", "remove", "test"}, Goes(r, op, p, t), serving' = serving,
         results' \subseteq results, opa' = opa, trial' = trial,
         \A x \in Policies \ {p} : policy'[x] = policy[x],
         InStep(p) /\ ~Touched(p) => Serves(prequest[r], p)'
  PROVE  GateOK'
  <1> USE DEF GateInv
  <1>1. /\ serving
        /\ prequest'[r] = [op |-> op, policy |-> p, text |-> t]
        /\ Touches(prequest'[r]) = {p}
        /\ \A q \in PolicyRequests \ {r} : prequest'[q] = prequest[q]
        /\ outOfStep \subseteq outOfStep'
        /\ p \notin outOfStep' => ~Touched(p)
        /\ \A x \in Policies \ {p} : \A q \in PolicyRequests : Alike(prequest'[q], prequest[q], x)
    <2>1. serving /\ prequest[r] = Idle /\ Touches(prequest[r]) = {}
      BY DEF Goes, Touches
    <2>2. prequest'[r] = [op |-> op, policy |-> p, text |-> t]
      BY DEF Goes, GateTypeOK
    <2>3. Touches(prequest'[r]) = {p}
      BY <2>2 DEF Touches, Idle
    <2>4. \A q \in PolicyRequests \ {r} : prequest'[q] = prequest[q]
      BY DEF Goes, GateTypeOK
    <2>5. outOfStep \subseteq outOfStep' /\ (p \notin outOfStep' => ~Touched(p))
      BY DEF Goes
    <2>6. \A x \in Policies \ {p} : \A q \in PolicyRequests : Alike(prequest'[q], prequest[q], x)
      BY <2>1, <2>3, <2>4 DEF Alike
    <2> QED
      BY <2>1, <2>2, <2>3, <2>4, <2>5, <2>6
  <1>2. ASSUME p \notin outOfStep'
        PROVE  InStep(p)'
    <2>1. ~Touched(p) /\ InStep(p)
      BY <1>1, <1>2 DEF GateOK
    <2>2. \A q \in PolicyRequests \ {r} : p \notin Touches(prequest'[q])
      BY <1>1, <2>1 DEF Touched
    <2> QED
      <3>1. p \in Touches(prequest'[r]) /\ Serves(prequest[r], p)'
        BY <1>1, <2>1
      <3> QED
        BY <2>2, <3>1, OneRequest
  <1>3. \A x \in Policies \ outOfStep' : InStep(x)'
    BY <1>1, <1>2, AllInStep
  <1>4. prequest'[r].op # "eval"
    BY <1>1
  <1>5. VerdictsRight'
    BY <1>1, <1>4, VerdictsStay DEF GateOK
  <1> QED
    BY <1>1, <1>3, <1>5 DEF GateOK

LEMMA CreateOrUpdateKeeps ==
  ASSUME GateInv, NEW r \in PolicyRequests, NEW p \in Policies, NEW t \in Texts,
         NEW e \in Enforcements,
         CreatePolicy(r, p, t, e) \/ UpdatePolicyText(r, p, t, e)
  PROVE  GateInv'
  <1> USE DEF GateInv
  <1> DEFINE row == [text |-> t, enforcement |-> e]
  <1>1. /\ policy' = [policy EXCEPT ![p] = row] /\ Goes(r, "load", p, t)
        /\ UNCHANGED <<policySets, member, assigned, results, opa, trial, serving>>
    BY DEF CreatePolicy, UpdatePolicyText
  <1>2. row \in Policy /\ row # NoPolicy /\ row.text = t
    BY NoPolicyIsNone DEF Policy
  <1> HIDE DEF row
  <1>3. policy' \in [Policies -> Policy \cup {NoPolicy}] /\ policy'[p] = row
        /\ \A x \in Policies \ {p} : policy'[x] = policy[x]
    BY <1>1, <1>2 DEF GateTypeOK
  <1>4. member' \in Members'
    BY <1>1, <1>2, <1>3 DEF GateTypeOK, Members
  <1>5. prequest' \in [PolicyRequests -> PRequest \cup {Idle}] /\ outOfStep' \subseteq Policies
        /\ prequest'[r] = [op |-> "load", policy |-> p, text |-> t]
    BY <1>1, GoesOn
  <1>6. GateTypeOK'
    BY <1>1, <1>3, <1>4, <1>5 DEF GateTypeOK, Assignments
  <1>7. InStep(p) /\ ~Touched(p) => Serves(prequest[r], p)'
    BY <1>1, <1>2, <1>3, <1>5 DEF Serves, InStep, TextOf, Known
  <1>8. GateOK'
    BY <1>1, <1>3, <1>7, GoesOnKeeps
  <1> QED
    BY <1>6, <1>8

LEMMA UpdateRowKeeps ==
  ASSUME GateInv, NEW p \in Policies, NEW e \in Enforcements, UpdatePolicyRow(p, e)
  PROVE  GateInv'
  <1> USE DEF GateInv
  <1> DEFINE row == [policy[p] EXCEPT !.enforcement = e]
  <1>1. /\ policy' = [policy EXCEPT ![p] = row] /\ serving /\ Known(p)
        /\ UNCHANGED <<policySets, member, assigned, results, opa, trial, prequest, serving, outOfStep>>
    BY DEF UpdatePolicyRow
  <1>2. policy[p] \in Policy
    BY <1>1, KnownText
  <1>3. row \in Policy /\ row # NoPolicy /\ row.text = policy[p].text
    BY <1>2, NoPolicyIsNone DEF Policy
  <1> HIDE DEF row
  <1>4. policy' \in [Policies -> Policy \cup {NoPolicy}] /\ policy'[p] = row
        /\ \A x \in Policies \ {p} : policy'[x] = policy[x]
    BY <1>1, <1>3 DEF GateTypeOK
  <1>5. member' \in Members'
    BY <1>1, <1>3, <1>4 DEF GateTypeOK, Members
  <1>6. GateTypeOK'
    BY <1>1, <1>4, <1>5 DEF GateTypeOK, Assignments
  <1>7. \A x \in Policies : TextOf(x)' = TextOf(x) /\ Known(x)' = Known(x)
    BY <1>1, <1>3, <1>4 DEF TextOf, Known
  <1>8. \A x \in Policies : \A q \in PolicyRequests : Alike(prequest'[q], prequest[q], x)
    BY <1>1 DEF Alike
  <1>9. \A x \in Policies \ outOfStep' : InStep(x)'
    BY <1>1, <1>7, <1>8, StaysInStep DEF GateOK
  <1>10. VerdictsRight'
    BY <1>1, VerdictsStay DEF GateOK
  <1> QED
    BY <1>1, <1>6, <1>9, <1>10 DEF GateOK

LEMMA DeleteKeeps ==
  ASSUME GateInv, NEW r \in PolicyRequests, NEW p \in Policies, DeletePolicy(r, p)
  PROVE  GateInv'
  <1> USE DEF GateInv
  <1> DEFINE t == policy[p].text
  <1>1. /\ Known(p) /\ policy' = [policy EXCEPT ![p] = NoPolicy]
        /\ member' = {m \in member : m[2] # p}
        /\ results' = {x \in results : x.policy # p}
        /\ Goes(r, "remove", p, t)
        /\ UNCHANGED <<policySets, assigned, opa, trial, serving>>
    BY DEF DeletePolicy
  <1>2. t \in Texts
    BY <1>1, KnownText DEF Policy
  <1> HIDE DEF t
  <1>3. policy' \in [Policies -> Policy \cup {NoPolicy}] /\ policy'[p] = NoPolicy
        /\ \A x \in Policies \ {p} : policy'[x] = policy[x]
    BY <1>1 DEF GateTypeOK
  <1>4. member' \in Members'
    BY <1>1, <1>3 DEF GateTypeOK, Members
  <1>5. prequest' \in [PolicyRequests -> PRequest \cup {Idle}] /\ outOfStep' \subseteq Policies
        /\ prequest'[r] = [op |-> "remove", policy |-> p, text |-> t]
    BY <1>1, <1>2, GoesOn
  <1>6. GateTypeOK'
    BY <1>1, <1>3, <1>4, <1>5 DEF GateTypeOK, Assignments
  <1>7. InStep(p) /\ ~Touched(p) => Serves(prequest[r], p)'
    BY <1>1, <1>3, <1>5 DEF Serves, InStep, Known
  <1>8. GateOK'
    BY <1>1, <1>2, <1>3, <1>7, GoesOnKeeps
  <1> QED
    BY <1>6, <1>8

LEMMA TestKeeps ==
  ASSUME GateInv, NEW r \in PolicyRequests, NEW p \in Policies, TestPolicy(r, p)
  PROVE  GateInv'
  <1> USE DEF GateInv
  <1> DEFINE t == policy[p].text
  <1>1. Known(p) /\ Goes(r, "test", p, t) /\ UNCHANGED <<policyTables, opa, trial, serving>>
    BY DEF TestPolicy
  <1>2. t \in Texts /\ t = TextOf(p)
    BY <1>1, KnownText DEF Policy
  <1> HIDE DEF t
  <1>3. prequest' \in [PolicyRequests -> PRequest \cup {Idle}] /\ outOfStep' \subseteq Policies
        /\ prequest'[r] = [op |-> "test", policy |-> p, text |-> t]
    BY <1>1, <1>2, GoesOn
  <1>4. GateTypeOK'
    BY <1>1, <1>3 DEF GateTypeOK, Members, Assignments, policyTables
  <1>5. InStep(p) /\ ~Touched(p) => Serves(prequest[r], p)'
    BY <1>1, <1>2, <1>3 DEF Serves, InStep, Known, TextOf, policyTables
  <1>6. GateOK'
    BY <1>1, <1>2, <1>5, GoesOnKeeps DEF policyTables
  <1> QED
    BY <1>4, <1>6


LEMMA LoadOrRemoveKeeps ==
  ASSUME GateInv, NEW r \in PolicyRequests, NEW ok \in BOOLEAN, LoadOrRemove(r, ok)
  PROVE  GateInv'
  <1> USE DEF GateInv
  <1>0. prequest[r].op \in {"load", "remove"}
    BY DEF LoadOrRemove
  <1>p. PICK p \in Policies : p = prequest[r].policy
    BY <1>0, RequestKinds
  <1>t. PICK t \in Texts \cup {"absent"} :
          t = IF prequest[r].op = "load" THEN prequest[r].text ELSE "absent"
    BY <1>0, RequestKinds
  <1>1. /\ prequest[r].op \in {"load", "remove"}
        /\ opa' = IF ok THEN [opa EXCEPT ![p] = t] ELSE opa
        /\ outOfStep' = IF ok THEN outOfStep ELSE outOfStep \cup {p}
        /\ Over(r)
        /\ UNCHANGED <<policyTables, trial, serving>>
    BY <1>p, <1>t DEF LoadOrRemove
  <1>2. /\ prequest[r] # Idle /\ p \in Policies /\ prequest[r].text \in Texts
        /\ Touches(prequest[r]) = {p}
    BY <1>1, <1>p, RequestKinds
  <1>3. t \in Texts \cup {"absent"}
    BY <1>t
  <1>4. serving
    BY <1>2, BusyServes
  <1>5. ASSUME p \notin outOfStep
        PROVE  /\ t = TextOf(p) /\ trial[p] = "absent"
               /\ \A q \in PolicyRequests \ {r} : p \notin Touches(prequest[q])
    <2>1. InStep(p)
      BY <1>2, <1>5 DEF GateOK
    <2>2. Serves(prequest[r], p)
      BY <1>2, <2>1 DEF InStep
    <2>3. t = TextOf(p) /\ trial[p] = "absent"
      BY <1>1, <1>t, <2>2 DEF Serves, TextOf
    <2> QED
      BY <1>2, <2>1, <2>3 DEF InStep
  <1>6. /\ prequest' \in [PolicyRequests -> PRequest \cup {Idle}]
        /\ Touches(prequest'[r]) = {} /\ prequest'[r].op = "idle"
        /\ \A q \in PolicyRequests \ {r} : prequest'[q] = prequest[q]
        /\ \A x \in Policies \ {p} : \A q \in PolicyRequests : Alike(prequest'[q], prequest[q], x)
    BY <1>1, <1>2, IsOver
  <1>7. GateTypeOK'
    <2>1. opa' \in [Policies -> Texts \cup {"absent"}]
      BY <1>1, <1>2, <1>3 DEF GateTypeOK
    <2> QED
      BY <1>1, <1>2, <1>6, <2>1 DEF GateTypeOK, Members, Assignments, policyTables
  <1>8. ASSUME p \notin outOfStep'
        PROVE  InStep(p)'
    <2>1. ok /\ p \notin outOfStep
      BY <1>1, <1>8
    <2>2. opa'[p] = TextOf(p)' /\ trial'[p] = "absent"
      BY <1>1, <1>2, <1>5, <2>1 DEF TextOf, Known, policyTables, GateTypeOK
    <2> QED
      BY <1>2, <1>5, <1>6, <2>1, <2>2, NoRequest
  <1>9. \A x \in Policies \ {p} : policy'[x] = policy[x] /\ opa'[x] = opa[x] /\ trial'[x] = trial[x]
    BY <1>1 DEF GateTypeOK, policyTables
  <1>10. \A x \in Policies \ outOfStep' : InStep(x)'
    <2>1. outOfStep \ {p} \subseteq outOfStep'
      BY <1>1
    <2> QED
      BY <1>2, <1>6, <1>8, <1>9, <2>1, AllInStep
  <1>11. VerdictsRight'
    BY <1>1, <1>6, VerdictsStay DEF GateOK, policyTables
  <1> QED
    BY <1>1, <1>4, <1>7, <1>10, <1>11 DEF GateOK

LEMMA TestLoadKeeps ==
  ASSUME GateInv, NEW r \in PolicyRequests, NEW ok \in BOOLEAN, TestLoad(r, ok)
  PROVE  GateInv'
  <1> USE DEF GateInv
  <1>0. prequest[r].op = "test"
    BY DEF TestLoad
  <1>p. PICK p \in Policies : p = prequest[r].policy
    BY <1>0, RequestKinds
  <1>t. PICK t \in Texts : t = prequest[r].text
    BY <1>0, RequestKinds
  <1> DEFINE new == [prequest[r] EXCEPT !.op = "test_remove"]
  <1>1. /\ prequest[r].op = "test"
        /\ trial' = IF ok THEN [trial EXCEPT ![p] = t] ELSE trial
        /\ prequest' = [prequest EXCEPT ![r] = new]
        /\ UNCHANGED <<policyTables, opa, serving, outOfStep>>
    BY <1>p, <1>t DEF TestLoad
  <1>2. /\ prequest[r] # Idle /\ p \in Policies /\ t \in Texts
        /\ Touches(prequest[r]) = {p}
        /\ prequest[r] \in [op : {"load", "remove", "test", "test_remove"},
                            policy : Policies, text : Texts]
    BY <1>1, <1>p, <1>t, RequestKinds
  <1>3. new \in PRequest /\ new.op = "test_remove" /\ new.policy = p /\ new.text = t
    BY <1>2, <1>p, <1>t DEF PRequest
  <1>4. Touches(new) = {p}
    BY <1>3 DEF Touches, Idle
  <1>5. serving
    BY <1>2, BusyServes
  <1> HIDE DEF new
  <1>6. /\ prequest' \in [PolicyRequests -> PRequest \cup {Idle}]
        /\ prequest'[r] = new
        /\ \A q \in PolicyRequests \ {r} : prequest'[q] = prequest[q]
    BY <1>1, <1>3 DEF GateTypeOK
  <1>7. \A x \in Policies \ {p} : \A q \in PolicyRequests : Alike(prequest'[q], prequest[q], x)
    BY <1>2, <1>4, <1>6 DEF Alike
  <1>8. GateTypeOK'
    <2>1. trial' \in [Policies -> Texts \cup {"absent"}]
      BY <1>1, <1>2 DEF GateTypeOK
    <2> QED
      BY <1>1, <1>6, <2>1 DEF GateTypeOK, Members, Assignments, policyTables
  <1>9. ASSUME p \notin outOfStep'
        PROVE  InStep(p)'
    <2>1. InStep(p)
      BY <1>1, <1>2, <1>9 DEF GateOK
    <2>2. Serves(prequest[r], p) /\ \A q \in PolicyRequests \ {r} : p \notin Touches(prequest'[q])
      BY <1>2, <1>6, <2>1 DEF InStep
    <2>3. trial'[p] \in {"absent", t}
      BY <1>1, <1>2, <1>t, <2>2 DEF Serves, GateTypeOK
    <2>4. Known(p)' = Known(p) /\ TextOf(p)' = TextOf(p) /\ opa' = opa
      BY <1>1 DEF Known, TextOf, policyTables
    <2>5. Serves(prequest[r], p)'
      BY <1>1, <1>3, <1>6, <1>t, <2>2, <2>3, <2>4 DEF Serves
    <2>6. p \in Touches(prequest'[r])
      BY <1>4, <1>6
    <2> QED
      BY <1>2, <2>2, <2>5, <2>6, OneRequest
  <1>10. \A x \in Policies \ {p} : policy'[x] = policy[x] /\ opa'[x] = opa[x] /\ trial'[x] = trial[x]
    BY <1>1 DEF GateTypeOK, policyTables
  <1>11. \A x \in Policies \ outOfStep' : InStep(x)'
    <2>1. outOfStep \ {p} \subseteq outOfStep'
      BY <1>1
    <2> QED
      BY <1>2, <1>7, <1>9, <1>10, <2>1, AllInStep
  <1>12. VerdictsRight'
    BY <1>1, <1>3, <1>6, VerdictsStay DEF GateOK, policyTables
  <1> QED
    BY <1>1, <1>5, <1>8, <1>11, <1>12 DEF GateOK

LEMMA TestRemoveKeeps ==
  ASSUME GateInv, NEW r \in PolicyRequests, NEW ok \in BOOLEAN, TestRemove(r, ok)
  PROVE  GateInv'
  <1> USE DEF GateInv
  <1>0. prequest[r].op = "test_remove"
    BY DEF TestRemove
  <1>p. PICK p \in Policies : p = prequest[r].policy
    BY <1>0, RequestKinds
  <1>1. /\ prequest[r].op = "test_remove"
        /\ trial' = IF ok THEN [trial EXCEPT ![p] = "absent"] ELSE trial
        /\ outOfStep' = IF trial'[p] # "absent" THEN outOfStep \cup {p} ELSE outOfStep
        /\ Over(r)
        /\ UNCHANGED <<policyTables, opa, serving>>
    BY <1>p DEF TestRemove
  <1>2. prequest[r] # Idle /\ p \in Policies /\ Touches(prequest[r]) = {p}
    BY <1>1, <1>p, RequestKinds
  <1>3. serving
    BY <1>2, BusyServes
  <1>4. ASSUME p \notin outOfStep
        PROVE  /\ opa[p] = TextOf(p)
               /\ \A q \in PolicyRequests \ {r} : p \notin Touches(prequest[q])
    <2>1. InStep(p)
      BY <1>2, <1>4 DEF GateOK
    <2> QED
      BY <1>1, <1>2, <2>1 DEF InStep, Serves
  <1>5. /\ prequest' \in [PolicyRequests -> PRequest \cup {Idle}]
        /\ Touches(prequest'[r]) = {} /\ prequest'[r].op = "idle"
        /\ \A q \in PolicyRequests \ {r} : prequest'[q] = prequest[q]
        /\ \A x \in Policies \ {p} : \A q \in PolicyRequests : Alike(prequest'[q], prequest[q], x)
    BY <1>1, <1>2, IsOver
  <1>6. GateTypeOK'
    <2>1. trial' \in [Policies -> Texts \cup {"absent"}]
      BY <1>1, <1>2 DEF GateTypeOK
    <2> QED
      BY <1>1, <1>2, <1>5, <2>1 DEF GateTypeOK, Members, Assignments, policyTables
  <1>7. ASSUME p \notin outOfStep'
        PROVE  InStep(p)'
    <2>1. trial'[p] = "absent" /\ p \notin outOfStep
      BY <1>1, <1>7
    <2>2. opa'[p] = TextOf(p)'
      BY <1>1, <1>4, <2>1 DEF TextOf, Known, policyTables
    <2> QED
      BY <1>2, <1>4, <1>5, <2>1, <2>2, NoRequest
  <1>8. \A x \in Policies \ {p} : policy'[x] = policy[x] /\ opa'[x] = opa[x] /\ trial'[x] = trial[x]
    BY <1>1 DEF GateTypeOK, policyTables
  <1>9. \A x \in Policies \ outOfStep' : InStep(x)'
    <2>1. outOfStep \ {p} \subseteq outOfStep'
      BY <1>1
    <2> QED
      BY <1>2, <1>5, <1>7, <1>8, <2>1, AllInStep
  <1>10. VerdictsRight'
    BY <1>1, <1>5, VerdictsStay DEF GateOK, policyTables
  <1> QED
    BY <1>1, <1>3, <1>6, <1>9, <1>10 DEF GateOK


\* The requests about policy sets leave the rest of the gate alone.
LEMMA RowsOnlyKeep ==
  ASSUME GateInv, RowsOnly
  PROVE  GateOK'
  <1> USE DEF GateInv
  <1>1. serving /\ UNCHANGED <<policy, results, opa, trial, prequest, serving, outOfStep>>
    BY DEF RowsOnly
  <1>2. \A x \in Policies : TextOf(x)' = TextOf(x) /\ Known(x)' = Known(x)
    BY <1>1 DEF TextOf, Known
  <1>3. \A x \in Policies : \A q \in PolicyRequests : Alike(prequest'[q], prequest[q], x)
    BY <1>1 DEF Alike
  <1>4. \A x \in Policies \ outOfStep' : InStep(x)'
    BY <1>1, <1>2, <1>3, StaysInStep DEF GateOK
  <1>5. VerdictsRight'
    BY <1>1, VerdictsStay DEF GateOK
  <1> QED
    BY <1>1, <1>4, <1>5 DEF GateOK

LEMMA PolicySetsKeep ==
  ASSUME GateInv, NEW s \in PolicySets,
         \/ CreatePolicySet(s) \/ DeletePolicySet(s)
         \/ \E p \in Policies : AddPolicyToSet(s, p) \/ RemovePolicyFromSet(s, p)
         \/ \E W \in SUBSET PolicyWorkspaces : AssignPolicySet(s, W)
         \/ \E w \in PolicyWorkspaces : UnassignPolicySet(s, w)
  PROVE  GateInv'
  <1> USE DEF GateInv
  <1>1. RowsOnly
    BY DEF CreatePolicySet, DeletePolicySet, AddPolicyToSet, RemovePolicyFromSet,
           AssignPolicySet, UnassignPolicySet
  <1>2. UNCHANGED <<policy, results, opa, trial, prequest, serving, outOfStep>>
    BY <1>1 DEF RowsOnly
  <1>3. policySets' \in SUBSET PolicySets /\ member' \in Members' /\ assigned' \in Assignments'
    <2>1. CASE CreatePolicySet(s)
      BY <1>2, <2>1 DEF CreatePolicySet, GateTypeOK, Members, Assignments
    <2>2. CASE DeletePolicySet(s)
      BY <1>2, <2>2 DEF DeletePolicySet, GateTypeOK, Members, Assignments
    <2>3. CASE \E p \in Policies : AddPolicyToSet(s, p) \/ RemovePolicyFromSet(s, p)
      BY <1>2, <2>3 DEF AddPolicyToSet, RemovePolicyFromSet, Known, GateTypeOK, Members, Assignments
    <2>4. CASE \E W \in SUBSET PolicyWorkspaces : AssignPolicySet(s, W)
      BY <1>2, <2>4 DEF AssignPolicySet, GateTypeOK, Members, Assignments
    <2>5. CASE \E w \in PolicyWorkspaces : UnassignPolicySet(s, w)
      BY <1>2, <2>5 DEF UnassignPolicySet, GateTypeOK, Members, Assignments
    <2> QED
      BY <2>1, <2>2, <2>3, <2>4, <2>5
  <1>4. GateTypeOK'
    BY <1>2, <1>3 DEF GateTypeOK
  <1> QED
    BY <1>1, <1>4, RowsOnlyKeep

LEMMA EvaluatePlanKeeps ==
  ASSUME GateInv, NEW r \in PolicyRequests, NEW j \in PolicyJobs, NEW w \in PolicyWorkspaces,
         EvaluatePlan(r, j, w)
  PROVE  GateInv'
  <1> USE DEF GateInv
  <1>p. PICK P \in SUBSET Policies : P = PoliciesOf(w)
    BY DEF PoliciesOf
  <1>t. PICK T : T = {<<p, policy[p]>> : p \in P}
    OBVIOUS
  <1> DEFINE new == [op |-> "eval", job |-> j, todo |-> T, loaded |-> {}, found |-> {}]
  <1>1. /\ prequest[r] = Idle /\ serving
        /\ prequest' = [prequest EXCEPT ![r] = new]
        /\ outOfStep' = outOfStep \cup {p \in P : Touched(p)}
        /\ UNCHANGED <<policyTables, opa, trial, serving>>
    BY <1>p, <1>t DEF EvaluatePlan
  <1>2. \A p \in P : Known(p) /\ policy[p] \in Policy
    <2>1. \A p \in P : Known(p)
      BY <1>p DEF PoliciesOf, GateTypeOK, Members, Known
    <2> QED
      BY <2>1, KnownText
  <1>3. T \in SUBSET (Policies \X Policy)
    BY <1>2, <1>t
  <1>4. new \in PRequest /\ new.op = "eval" /\ new.todo = T /\ new.found = {} /\ new # Idle
    BY <1>3 DEF PRequest, Idle
  <1>5. Touches(new) = P
    <2>1. Touches(new) = {x[1] : x \in T}
      BY <1>4 DEF Touches
    <2>2. \A p \in P : \E x \in T : x[1] = p
      <3> SUFFICES ASSUME NEW p \in P
                   PROVE  \E x \in T : x[1] = p
        OBVIOUS
      <3>1. <<p, policy[p]>> \in T
        BY <1>t
      <3> QED
        BY <3>1
    <2>3. \A x \in T : x[1] \in P
      BY <1>t
    <2> QED
      BY <2>1, <2>2, <2>3
  <1> HIDE DEF new
  <1>6. Touches(prequest[r]) = {}
    BY <1>1 DEF Touches
  <1>7. /\ prequest' \in [PolicyRequests -> PRequest \cup {Idle}] /\ prequest'[r] = new
        /\ \A q \in PolicyRequests \ {r} : prequest'[q] = prequest[q]
    BY <1>1, <1>4 DEF GateTypeOK
  <1>8. GateTypeOK'
    BY <1>1, <1>7 DEF GateTypeOK, Members, Assignments, policyTables
  <1>9. ASSUME NEW p \in Policies \ outOfStep'
        PROVE  InStep(p)'
    <2>1. InStep(p)
      BY <1>1, <1>9 DEF GateOK
    <2>2. Known(p)' = Known(p) /\ TextOf(p)' = TextOf(p) /\ opa' = opa /\ trial' = trial
      BY <1>1 DEF Known, TextOf, policyTables
    <2>3. CASE p \in P
      <3>1. ~Touched(p)
        BY <1>1, <1>9, <2>3
      <3>2. \A q \in PolicyRequests \ {r} : p \notin Touches(prequest'[q])
        BY <1>7, <3>1 DEF Touched
      <3>3. Known(p) /\ opa[p] = TextOf(p) /\ trial[p] = "absent"
        BY <1>2, <2>1, <2>3, <3>1 DEF InStep
      <3>4. \A x \in T : x[1] = p => x[2].text = TextOf(p)
        BY <1>t, <3>3 DEF TextOf
      <3>5. Serves(prequest[r], p)'
        BY <1>4, <1>7, <2>2, <3>3, <3>4 DEF Serves
      <3> QED
        BY <1>5, <1>7, <2>3, <3>2, <3>5, OneRequest
    <2>4. CASE p \notin P
      <3>1. \A q \in PolicyRequests : Alike(prequest'[q], prequest[q], p)
        BY <1>5, <1>6, <1>7, <2>4 DEF Alike
      <3> QED
        BY <2>1, <2>2, <3>1, StaysInStep
    <2> QED
      BY <2>3, <2>4
  <1>10. VerdictsRight'
    <2>1. \A x \in results' : Right(x)
      BY <1>1 DEF GateOK, VerdictsRight, policyTables
    <2> QED
      BY <1>4, <1>7, <2>1 DEF GateOK, VerdictsRight, Right
  <1> QED
    BY <1>1, <1>8, <1>9, <1>10 DEF GateOK

LEMMA EvaluateLoadKeeps ==
  ASSUME GateInv, NEW r \in PolicyRequests, NEW x \in Policies \X Policy, NEW ok \in BOOLEAN,
         EvaluateLoad(r, x, ok)
  PROVE  GateInv'
  <1> USE DEF GateInv
  <1>p. PICK p \in Policies : p = x[1]
    OBVIOUS
  <1> DEFINE new == [prequest[r] EXCEPT !.loaded = {p}]
  <1>1. /\ prequest[r].op = "eval" /\ x \in prequest[r].todo
        /\ opa' = IF ok THEN [opa EXCEPT ![p] = x[2].text] ELSE opa
        /\ outOfStep' = IF ok THEN outOfStep ELSE outOfStep \cup {p}
        /\ prequest' = [prequest EXCEPT ![r] = new]
        /\ UNCHANGED <<policyTables, trial, serving>>
    BY <1>p DEF EvaluateLoad
  <1>2. /\ prequest[r] # Idle
        /\ Touches(prequest[r]) = {y[1] : y \in prequest[r].todo}
        /\ prequest[r] \in [op : {"eval"}, job : PolicyJobs, todo : SUBSET (Policies \X Policy),
                            loaded : SUBSET Policies, found : SUBSET Result]
    BY <1>1, RequestKinds
  <1>3. /\ new \in PRequest /\ new.op = "eval"
        /\ new.todo = prequest[r].todo /\ new.found = prequest[r].found
    BY <1>2 DEF PRequest
  <1>4. Touches(new) = Touches(prequest[r]) /\ p \in Touches(prequest[r])
    <2>1. Touches(new) = {y[1] : y \in new.todo}
      BY <1>3 DEF Touches, Idle
    <2> QED
      BY <1>1, <1>2, <1>3, <1>p, <2>1
  <1>5. x[2].text \in Texts
    BY DEF Policy
  <1>6. serving
    BY <1>2, BusyServes
  <1> HIDE DEF new
  <1>7. /\ prequest' \in [PolicyRequests -> PRequest \cup {Idle}] /\ prequest'[r] = new
        /\ \A q \in PolicyRequests \ {r} : prequest'[q] = prequest[q]
    BY <1>1, <1>3 DEF GateTypeOK
  <1>8. GateTypeOK'
    <2>1. opa' \in [Policies -> Texts \cup {"absent"}] /\ outOfStep' \subseteq Policies
      BY <1>1, <1>5 DEF GateTypeOK
    <2> QED
      BY <1>1, <1>7, <2>1 DEF GateTypeOK, Members, Assignments, policyTables
  <1>9. \A y \in Policies : \A q \in PolicyRequests : Alike(prequest'[q], prequest[q], y)
    BY <1>1, <1>3, <1>4, <1>7 DEF Alike
  <1>10. ASSUME NEW y \in Policies \ outOfStep'
         PROVE  InStep(y)'
    <2>1. InStep(y)
      BY <1>1, <1>10 DEF GateOK
    <2>2. Known(y)' = Known(y) /\ TextOf(y)' = TextOf(y) /\ trial' = trial
      BY <1>1 DEF Known, TextOf, policyTables
    <2>3. opa'[y] = opa[y]
      <3>1. CASE y = p /\ ok
        <4>1. Serves(prequest[r], p)
          BY <1>4, <2>1, <3>1 DEF InStep
        <4>2. opa[p] = TextOf(p) /\ x[2].text = TextOf(p)
          BY <1>1, <1>p, <4>1 DEF Serves
        <4> QED
          BY <1>1, <3>1, <4>2 DEF GateTypeOK
      <3> QED
        BY <1>1, <3>1 DEF GateTypeOK
    <2> QED
      BY <1>9, <2>1, <2>2, <2>3, StaysInStep
  <1>11. VerdictsRight'
    BY <1>1, <1>3, <1>7, VerdictsStay DEF GateOK, policyTables
  <1> QED
    BY <1>1, <1>6, <1>8, <1>10, <1>11 DEF GateOK


LEMMA EvaluateQueryKeeps ==
  ASSUME GateInv, NEW r \in PolicyRequests, NEW x \in Policies \X Policy, NEW ok \in BOOLEAN,
         EvaluateQuery(r, x, ok)
  PROVE  GateInv'
  <1> USE DEF GateInv
  <1>p. PICK p \in Policies : p = x[1]
    OBVIOUS
  <1>v. PICK v \in BOOLEAN : v <=> Verdict(x, ok)
    OBVIOUS
  <1>s. PICK s \in BOOLEAN : s <=> ok /\ p \notin outOfStep
    OBVIOUS
  <1> DEFINE found == [job |-> prequest[r].job, policy |-> p, enforcement |-> x[2].enforcement,
                       passed |-> v, text |-> x[2].text, sound |-> s]
             new == [op |-> "eval", job |-> prequest[r].job, todo |-> prequest[r].todo \ {x},
                     loaded |-> {}, found |-> prequest[r].found \cup {found}]
  <1>1. /\ prequest[r].op = "eval" /\ x \in prequest[r].todo
        /\ prequest' = [prequest EXCEPT ![r] = new]
        /\ UNCHANGED <<policyTables, opa, trial, serving, outOfStep>>
    <2>1. Verdict(x, ok) = v
      BY <1>v DEF Verdict
    <2>2. (ok /\ x[1] \notin outOfStep) = s
      BY <1>p, <1>s
    <2> QED
      BY <1>p, <2>1, <2>2 DEF EvaluateQuery
  <1>2. /\ prequest[r] # Idle
        /\ Touches(prequest[r]) = {y[1] : y \in prequest[r].todo}
        /\ prequest[r] \in [op : {"eval"}, job : PolicyJobs, todo : SUBSET (Policies \X Policy),
                            loaded : SUBSET Policies, found : SUBSET Result]
    BY <1>1, RequestKinds
  <1>3. /\ found \in Result /\ found.text = x[2].text
        /\ (found.passed <=> v) /\ (found.sound <=> s)
    BY <1>2 DEF Result, Policy
  <1> HIDE DEF found
  <1>4. /\ new \in PRequest /\ new.op = "eval" /\ new # Idle
        /\ new.todo = prequest[r].todo \ {x} /\ new.found = prequest[r].found \cup {found}
    BY <1>2, <1>3 DEF PRequest, Idle
  <1>5. Touches(new) = {y[1] : y \in new.todo}
    BY <1>4 DEF Touches
  <1>6. p \in Touches(prequest[r]) /\ Touches(new) \subseteq Touches(prequest[r])
        /\ \A y \in Policies \ {p} : y \in Touches(prequest[r]) => y \in Touches(new)
    BY <1>1, <1>2, <1>4, <1>5, <1>p
  <1>7. serving
    BY <1>2, BusyServes
  <1> HIDE DEF new
  <1>8. /\ prequest' \in [PolicyRequests -> PRequest \cup {Idle}] /\ prequest'[r] = new
        /\ \A q \in PolicyRequests \ {r} : prequest'[q] = prequest[q]
    BY <1>1, <1>4 DEF GateTypeOK
  <1>9. GateTypeOK'
    BY <1>1, <1>8 DEF GateTypeOK, Members, Assignments, policyTables
  <1>10. \A y \in Policies : TextOf(y)' = TextOf(y) /\ Known(y)' = Known(y)
    BY <1>1 DEF TextOf, Known, policyTables
  <1>11. ASSUME p \notin outOfStep
         PROVE  /\ x[2].text = TextOf(p) /\ opa[p] = TextOf(p) /\ trial[p] = "absent"
                /\ \A q \in PolicyRequests \ {r} : p \notin Touches(prequest[q])
    <2>1. InStep(p)
      BY <1>11 DEF GateOK
    <2>2. Serves(prequest[r], p)
      BY <1>6, <2>1 DEF InStep
    <2>3. x[2].text = TextOf(p) /\ opa[p] = TextOf(p) /\ trial[p] = "absent"
      BY <1>1, <1>p, <2>2 DEF Serves
    <2> QED
      BY <1>6, <2>1, <2>3 DEF InStep
  <1>12. ASSUME NEW y \in Policies \ outOfStep'
         PROVE  InStep(y)'
    <2>1. InStep(y)
      BY <1>1, <1>12 DEF GateOK
    <2>2. CASE y \in Touches(prequest[r]) /\ y \notin Touches(new)
      <3>1. y = p
        BY <1>6, <2>2
      <3>2. opa'[p] = TextOf(p)' /\ trial'[p] = "absent"
        BY <1>1, <1>10, <1>11, <1>12, <3>1
      <3>3. \A q \in PolicyRequests : p \notin Touches(prequest'[q])
        BY <1>1, <1>8, <1>11, <1>12, <2>2, <3>1
      <3> QED
        BY <3>1, <3>2, <3>3, NoRequest
    <2>3. CASE y \in Touches(prequest[r]) <=> y \in Touches(new)
      <3>1. \A q \in PolicyRequests : Alike(prequest'[q], prequest[q], y)
        BY <1>1, <1>4, <1>8, <2>3 DEF Alike
      <3> QED
        BY <1>1, <1>10, <2>1, <3>1, StaysInStep
    <2> QED
      BY <1>6, <2>2, <2>3
  <1>13. Right(found)
    <2> SUFFICES ASSUME s
                 PROVE  v <=> x[2].text = "clean"
      BY <1>3 DEF Right
    <2>1. ok /\ x[2].text = opa[p] /\ trial[p] = "absent"
      BY <1>11, <1>s
    <2>2. v <=> "violating" \notin {opa[p], trial[p]}
      BY <1>p, <1>v, <2>1 DEF Verdict, Answer
    <2>3. x[2].text \in Texts
      BY DEF Policy
    <2> QED
      BY <2>1, <2>2, <2>3 DEF Texts
  <1>14. VerdictsRight'
    <2>1. \A y \in results' : Right(y)
      BY <1>1 DEF GateOK, VerdictsRight, policyTables
    <2>2. \A y \in prequest'[r].found : Right(y)
      BY <1>1, <1>4, <1>8, <1>13 DEF GateOK, VerdictsRight
    <2> QED
      BY <1>8, <2>1, <2>2 DEF GateOK, VerdictsRight, Right
  <1> QED
    BY <1>1, <1>7, <1>9, <1>12, <1>14 DEF GateOK

LEMMA EvaluateCommitKeeps ==
  ASSUME GateInv, NEW r \in PolicyRequests, EvaluateCommit(r)
  PROVE  GateInv'
  <1> USE DEF GateInv
  <1>1. /\ prequest[r].op = "eval" /\ prequest[r].todo = {}
        /\ results' \subseteq results \cup prequest[r].found
        /\ Over(r)
        /\ UNCHANGED <<policy, policySets, member, assigned, opa, trial, serving, outOfStep>>
    BY DEF EvaluateCommit
  <1>2. prequest[r] # Idle /\ Touches(prequest[r]) = {} /\ prequest[r].found \subseteq Result
    BY <1>1, RequestKinds
  <1>3. serving
    BY <1>2, BusyServes
  <1>4. /\ prequest' \in [PolicyRequests -> PRequest \cup {Idle}]
        /\ prequest'[r].op = "idle"
        /\ \A q \in PolicyRequests \ {r} : prequest'[q] = prequest[q]
        /\ \A x \in Policies : \A q \in PolicyRequests : Alike(prequest'[q], prequest[q], x)
    BY <1>1, <1>2, IsOver
  <1>5. GateTypeOK'
    BY <1>1, <1>2, <1>4 DEF GateTypeOK, Members, Assignments
  <1>6. \A x \in Policies : TextOf(x)' = TextOf(x) /\ Known(x)' = Known(x)
    BY <1>1 DEF TextOf, Known
  <1>7. \A x \in Policies \ outOfStep' : InStep(x)'
    BY <1>1, <1>4, <1>6, StaysInStep DEF GateOK
  <1>8. VerdictsRight'
    <2>1. \A x \in results' : Right(x)
      BY <1>1 DEF GateOK, VerdictsRight
    <2> QED
      BY <1>4, <2>1 DEF GateOK, VerdictsRight, Right
  <1> QED
    BY <1>1, <1>3, <1>5, <1>7, <1>8 DEF GateOK


\* What the start finds or seeds are rows of the table, and their members.
LEMMA SeedsAreRows ==
  ASSUME GateTypeOK
  PROVE  /\ SeedStarters \in [Policies -> Policy \cup {NoPolicy}]
         /\ SeedStarters = policy
              \/ \A p \in Policies : ~Known(p) /\ (p \in Starters => SeedStarters[p] # NoPolicy)
  <1> DEFINE seed == [text |-> "violating", enforcement |-> "advisory"]
  <1>1. seed \in Policy /\ seed # NoPolicy
    BY EnforcementAssumption, NoPolicyIsNone DEF Policy, Texts
  <1> HIDE DEF seed
  <1>2. SeedStarters = IF Seeding /\ StarterSet \notin policySets
                       THEN [p \in Policies |-> IF p \in Starters THEN seed ELSE NoPolicy]
                       ELSE policy
    BY DEF SeedStarters, seed, NoPolicy
  <1>3. CASE Seeding /\ StarterSet \notin policySets
    <2>1. SeedStarters = [p \in Policies |-> IF p \in Starters THEN seed ELSE NoPolicy]
      BY <1>2, <1>3
    <2> QED
      BY <1>1, <1>3, <2>1 DEF Seeding
  <1>4. CASE ~(Seeding /\ StarterSet \notin policySets)
    BY <1>2, <1>4 DEF GateTypeOK
  <1> QED
    BY <1>3, <1>4

LEMMA StartupKeeps ==
  ASSUME GateInv, NEW failing \in SUBSET Policies, Startup(failing)
  PROVE  GateInv'
  <1> USE DEF GateInv
  <1>p. PICK rows \in [Policies -> Policy \cup {NoPolicy}] : rows = SeedStarters
    BY SeedsAreRows
  <1>l. PICK loaded \in SUBSET Policies : loaded = {p \in Policies : rows[p] # NoPolicy} \ failing
    OBVIOUS
  <1>1. /\ ~serving /\ serving' = TRUE /\ policy' = rows
        /\ policySets' = IF rows = policy THEN policySets ELSE policySets \cup {StarterSet}
        /\ member' = IF rows = policy THEN member ELSE {StarterSet} \X Starters
        /\ opa' = [p \in Policies |-> IF p \in loaded THEN rows[p].text ELSE opa[p]]
        /\ outOfStep' = (outOfStep \ {p \in loaded : trial[p] = "absent"}) \cup failing
        /\ UNCHANGED <<assigned, results, trial, prequest>>
    BY <1>p, <1>l DEF Startup
  <1>2. \A p \in loaded : rows[p] \in Policy /\ rows[p].text \in Texts
    BY <1>l DEF Policy
  <1>3. rows = policy \/ \A p \in Policies : ~Known(p) /\ (p \in Starters => rows[p] # NoPolicy)
    BY <1>p, SeedsAreRows
  <1>4. GateTypeOK'
    <2>1. policySets' \in SUBSET PolicySets /\ assigned' \in Assignments'
      BY <1>1, StarterAssumption DEF GateTypeOK, Assignments
    <2>2. member' \in Members'
      BY <1>1, <1>3, StarterAssumption DEF GateTypeOK, Members
    <2>3. opa' \in [Policies -> Texts \cup {"absent"}] /\ outOfStep' \subseteq Policies
      BY <1>1, <1>2 DEF GateTypeOK
    <2> QED
      BY <1>1, <2>1, <2>2, <2>3 DEF GateTypeOK
  <1>5. \A r \in PolicyRequests : prequest[r] = Idle /\ prequest'[r] = Idle
    BY <1>1 DEF GateOK
  <1>6. \A p \in Policies : \A r \in PolicyRequests : p \notin Touches(prequest'[r])
    BY <1>5 DEF Touches
  <1>7. ASSUME NEW p \in Policies \ outOfStep'
        PROVE  InStep(p)'
    <2>1. CASE p \in loaded
      <3>1. trial[p] = "absent"
        <4>1. CASE p \notin outOfStep
          BY <1>5, <4>1 DEF GateOK, InStep, Touched, Touches
        <4>2. CASE p \in outOfStep
          BY <1>1, <1>7, <4>2
        <4> QED
          BY <4>1, <4>2
      <3>2. opa'[p] = TextOf(p)'
        BY <1>1, <1>l, <2>1 DEF TextOf, Known
      <3> QED
        BY <1>1, <1>6, <3>1, <3>2, NoRequest
    <2>2. CASE p \notin loaded
      <3>1. p \notin outOfStep /\ rows[p] = NoPolicy
        BY <1>1, <1>7, <1>l, <2>2
      <3>2. opa[p] = TextOf(p) /\ trial[p] = "absent"
        BY <1>5, <3>1 DEF GateOK, InStep, Touched, Touches
      <3>3. ~Known(p) /\ ~Known(p)'
        BY <1>1, <1>3, <3>1 DEF Known
      <3>4. opa'[p] = TextOf(p)' /\ trial'[p] = "absent"
        BY <1>1, <2>2, <3>2, <3>3 DEF TextOf
      <3> QED
        BY <1>6, <3>4, NoRequest
    <2> QED
      BY <2>1, <2>2
  <1>8. VerdictsRight'
    BY <1>1, VerdictsStay DEF GateOK
  <1> QED
    BY <1>1, <1>4, <1>7, <1>8 DEF GateOK

LEMMA ServerStopsKeeps ==
  ASSUME GateInv, PolicyServerStops
  PROVE  GateInv'
  <1> USE DEF GateInv
  <1>1. /\ serving' = FALSE
        /\ outOfStep' = outOfStep \cup {p \in Policies : Touched(p)}
        /\ prequest' = [r \in PolicyRequests |-> Idle]
        /\ UNCHANGED <<policyTables, opa, trial>>
    BY DEF PolicyServerStops
  <1>2. GateTypeOK'
    BY <1>1 DEF GateTypeOK, Members, Assignments, policyTables
  <1>3. \A p \in Policies : \A r \in PolicyRequests : p \notin Touches(prequest'[r])
    BY <1>1 DEF Touches
  <1>4. ASSUME NEW p \in Policies \ outOfStep'
        PROVE  InStep(p)'
    <2>1. opa[p] = TextOf(p) /\ trial[p] = "absent"
      BY <1>1, <1>4 DEF GateOK, InStep
    <2>2. opa'[p] = TextOf(p)' /\ trial'[p] = "absent"
      BY <1>1, <2>1 DEF TextOf, Known, policyTables
    <2> QED
      BY <1>3, <2>2, NoRequest
  <1>5. VerdictsRight'
    BY <1>1, VerdictsStay DEF GateOK, policyTables, Idle
  <1> QED
    BY <1>1, <1>2, <1>4, <1>5 DEF GateOK

LEMMA OPARestartsKeeps ==
  ASSUME GateInv, OPARestarts
  PROVE  GateInv'
  <1> USE DEF GateInv
  <1>1. /\ opa' = [p \in Policies |-> "absent"] /\ trial' = [p \in Policies |-> "absent"]
        /\ outOfStep' = Policies
        /\ UNCHANGED <<policyTables, prequest, serving>>
    BY DEF OPARestarts
  <1>2. GateTypeOK'
    BY <1>1 DEF GateTypeOK, Members, Assignments, policyTables
  <1>3. VerdictsRight'
    BY <1>1, VerdictsStay DEF GateOK, policyTables
  <1> QED
    BY <1>1, <1>2, <1>3 DEF GateOK

-----------------------------------------------------------------------------
(***************************************************************************)
(* The theorems.                                                           *)
(***************************************************************************)
\* The invariant holds of the empty tables and every action keeps it.
THEOREM GateInvariance == PolicySpec => []GateInv
  <1>1. PolicyInit => GateInv
    <2> SUFFICES ASSUME PolicyInit
                 PROVE  GateInv
      OBVIOUS
    <2>1. GateTypeOK
      BY DEF PolicyInit, GateTypeOK, Members, Assignments
    <2>2. \A r \in PolicyRequests : prequest[r] = Idle /\ Touches(prequest[r]) = {}
                                      /\ prequest[r].op = "idle"
      BY DEF PolicyInit, Touches, Idle
    <2>3. \A p \in Policies : InStep(p)
      BY <2>2 DEF PolicyInit, InStep, Touched, TextOf, Known
    <2>4. VerdictsRight
      BY <2>2 DEF PolicyInit, VerdictsRight
    <2> QED
      BY <2>1, <2>2, <2>3, <2>4 DEF GateInv, GateOK
  <1>2. GateInv /\ [PolicyNext]_policyVars => GateInv'
    <2> SUFFICES ASSUME GateInv, [PolicyNext]_policyVars
                 PROVE  GateInv'
      OBVIOUS
    <2>1. CASE \E r \in PolicyRequests, p \in Policies, t \in Texts, e \in Enforcements :
                 CreatePolicy(r, p, t, e) \/ UpdatePolicyText(r, p, t, e)
      BY <2>1, CreateOrUpdateKeeps
    <2>2. CASE \E p \in Policies, e \in Enforcements : UpdatePolicyRow(p, e)
      BY <2>2, UpdateRowKeeps
    <2>3. CASE \E r \in PolicyRequests, p \in Policies : DeletePolicy(r, p) \/ TestPolicy(r, p)
      BY <2>3, DeleteKeeps, TestKeeps
    <2>4. CASE \E r \in PolicyRequests, ok \in BOOLEAN :
                 LoadOrRemove(r, ok) \/ TestLoad(r, ok) \/ TestRemove(r, ok)
      BY <2>4, LoadOrRemoveKeeps, TestLoadKeeps, TestRemoveKeeps
    <2>5. CASE \E s \in PolicySets :
                 \/ CreatePolicySet(s) \/ DeletePolicySet(s)
                 \/ \E p \in Policies : AddPolicyToSet(s, p) \/ RemovePolicyFromSet(s, p)
                 \/ \E W \in SUBSET PolicyWorkspaces : AssignPolicySet(s, W)
                 \/ \E w \in PolicyWorkspaces : UnassignPolicySet(s, w)
      BY <2>5, PolicySetsKeep
    <2>6. CASE \E r \in PolicyRequests, j \in PolicyJobs, w \in PolicyWorkspaces :
                 EvaluatePlan(r, j, w)
      BY <2>6, EvaluatePlanKeeps
    <2>7. CASE \E r \in PolicyRequests, x \in Policies \X Policy, ok \in BOOLEAN :
                 EvaluateLoad(r, x, ok) \/ EvaluateQuery(r, x, ok)
      BY <2>7, EvaluateLoadKeeps, EvaluateQueryKeeps
    <2>8. CASE \E r \in PolicyRequests : EvaluateCommit(r)
      BY <2>8, EvaluateCommitKeeps
    <2>9. CASE \E failing \in SUBSET Policies : Startup(failing)
      BY <2>9, StartupKeeps
    <2>10. CASE PolicyServerStops
      BY <2>10, ServerStopsKeeps
    <2>11. CASE OPARestarts
      BY <2>11, OPARestartsKeeps
    <2>12. CASE UNCHANGED policyVars
      <3>1. UNCHANGED <<policy, policySets, member, assigned, results, opa, trial, prequest,
                        serving, outOfStep>>
        BY <2>12 DEF policyVars, policyTables
      <3>2. GateTypeOK'
        BY <3>1 DEF GateInv, GateTypeOK, Members, Assignments
      <3>3. \A x \in Policies : TextOf(x)' = TextOf(x) /\ Known(x)' = Known(x)
        BY <3>1 DEF TextOf, Known
      <3>4. \A x \in Policies : \A q \in PolicyRequests : Alike(prequest'[q], prequest[q], x)
        BY <3>1 DEF Alike
      <3>5. \A x \in Policies \ outOfStep' : InStep(x)'
        BY <3>1, <3>3, <3>4, StaysInStep DEF GateInv, GateOK
      <3>6. VerdictsRight'
        BY <3>1, VerdictsStay DEF GateInv, GateOK
      <3> QED
        BY <3>1, <3>2, <3>5, <3>6 DEF GateInv, GateOK
    <2> QED
      BY <2>1, <2>2, <2>3, <2>4, <2>5, <2>6, <2>7, <2>8, <2>9, <2>10, <2>11, <2>12 DEF PolicyNext
  <1> QED
    BY <1>1, <1>2, PTL DEF PolicySpec

\* The tables, the modules of OPA and the requests under way are always of
\* their types: in particular no member or assignment refers to a policy or a
\* set without a row.
THEOREM GateTypesHold == PolicySpec => []PolicyTypeOK
  <1>1. GateInv => PolicyTypeOK
    BY DEF GateInv, GateTypeOK, PolicyTypeOK
  <1> QED
    BY <1>1, GateInvariance, PTL

\* Of a policy whose requests are over, never overlapped and never failed, OPA
\* has the text the database has (load_policy_to_opa, remove_policy_from_opa).
THEOREM OPAFollowsDatabaseAlways == PolicySpec => []OPAFollowsDatabase
  <1>1. GateInv => OPAFollowsDatabase
    BY DEF GateInv, GateOK, InStep, TextOf, OPAFollowsDatabase
  <1> QED
    BY <1>1, GateInvariance, PTL

\* A result on record is the verdict of the text its evaluation read, and a
\* violating mandatory one shuts the gate (evaluate_plan, check_can_apply).
THEOREM VerdictIsOfTextAlways == PolicySpec => []VerdictIsOfText
  <1>1. GateInv => VerdictIsOfText
    <2> SUFFICES ASSUME GateInv, NEW x \in results, x.sound
                 PROVE  /\ x.passed = (x.text = "clean")
                        /\ x.text = "violating" /\ x.enforcement # "advisory" => ~CanApply(x.job)
      BY DEF VerdictIsOfText
    <2>1. x.passed \in BOOLEAN /\ x.enforcement \in Enforcements
      BY DEF GateInv, GateTypeOK, Result
    <2>2. x.passed <=> x.text = "clean"
      BY DEF GateInv, GateOK, VerdictsRight, Right
    <2>3. ASSUME x.text = "violating", x.enforcement # "advisory"
          PROVE  ~CanApply(x.job)
      <3>1. ~x.passed /\ x.enforcement \in {"soft-mandatory", "hard-mandatory"}
        BY <2>1, <2>2, <2>3, EnforcementAssumption
      <3> QED
        BY <3>1 DEF CanApply
    <2> QED
      BY <2>1, <2>2, <2>3
  <1> QED
    BY <1>1, GateInvariance, PTL

-----------------------------------------------------------------------------
(***************************************************************************)
(* The run of both.  A behaviour in which one of the parts moves is one of *)
(* each, so that what is proved of a part holds of it.                     *)
(***************************************************************************)
THEOREM PartsAsAlone == FairSpec => VCSSpec /\ PolicySpec
  <1>1. Init => VCSInit /\ PolicyInit
    BY DEF Init
  <1>2. [Next]_vars => [VCSNext]_vcsVars /\ [PolicyNext]_policyVars
    BY DEF Next, vars, VCSPart, PolicyPart
  <1> QED
    BY <1>1, <1>2, PTL DEF FairSpec, VCSSpec, PolicySpec

\* The tables, tasks, modules of OPA and requests of both parts are always of
\* their types.
THEOREM PartsTypesHold == FairSpec => []TypeOK
  <1>1. VCSTypeOK /\ PolicyTypeOK => TypeOK
    BY DEF TypeOK
  <1> QED
    BY <1>1, PartsAsAlone, VCSTypesHold, GateTypesHold, PTL
=============================================================================

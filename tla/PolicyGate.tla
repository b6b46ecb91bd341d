----------------------------- MODULE PolicyGate -----------------------------
(***************************************************************************)
(* Policies: the tables of policies, sets, members, assignments and check  *)
(* results, the copies of the policies that OPA evaluates, and the gate    *)
(* (api/routes/policy-routes.py, core/policy-evaluator.py).                *)
(*                                                                         *)
(* A policy's Rego text is what the gate sees of it: "clean" finds no      *)
(* violation in a plan, "violating" finds one.  OPA keeps modules by the   *)
(* policy's identifier and answers queries by the package, which the       *)
(* module a test loads shares with the policy's own: a query sees the      *)
(* rules of both.  A query that fails, or finds no module, is no violation.*)
(*                                                                         *)
(* The SELECTs at the start of a request are one action with it.  Nothing  *)
(* in the repository calls evaluate_plan and check_can_apply, and nothing  *)
(* sets policy_override: evaluations are requests like the others here,    *)
(* and the gate has no override.                                           *)
(***************************************************************************)
EXTENDS Naturals, FiniteSets

CONSTANTS
  Policies, PolicySets, PolicyWorkspaces, PolicyJobs,
  PolicyRequests,   \* requests that are served at a time
  Starters,         \* policies/*.rego
  StarterSet,       \* the set named "Starter"
  Enforcements,     \* "advisory", "soft-mandatory", "hard-mandatory"
  MaxResults,       \* bound: check results on record
  OPAFaults         \* "opa": a call fails; "opa_restart"; "server_restart"

ASSUME StarterAssumption == Starters \subseteq Policies /\ StarterSet \in PolicySets
ASSUME EnforcementAssumption ==
  /\ Enforcements \subseteq {"advisory", "soft-mandatory", "hard-mandatory"}
  /\ "advisory" \in Enforcements
ASSUME MaxResultsAssumption == MaxResults \in Nat

VARIABLES
  policy,     \* table policies
  policySets, \* table policy_sets
  member,     \* table policy_set_members
  assigned,   \* table policy_set_assignments
  results,    \* table policy_check_results
  opa,        \* OPA: the module of each policy
  trial,      \* OPA: the module a test of it has loaded
  prequest,   \* the requests between their first transaction and their end
  serving,    \* the server has started up
  outOfStep   \* history: policies whose requests overlapped or failed

policyTables == <<policy, policySets, member, assigned, results>>
policyVars == <<policyTables, opa, trial, prequest, serving, outOfStep>>

Texts == {"clean", "violating"}
Policy == [text : Texts, enforcement : Enforcements]
NoPolicy == [text |-> "none", enforcement |-> "none"]
Result == [ job : PolicyJobs, policy : Policies, enforcement : Enforcements,
            passed : BOOLEAN, text : Texts, sound : BOOLEAN ]
\* An evaluation holds the policies it has read and has yet to load or query
\* and the results so far; the others a module to load or to remove.
PRequest ==
  [op : {"load", "remove", "test", "test_remove"}, policy : Policies, text : Texts]
    \cup [op : {"eval"}, job : PolicyJobs, todo : SUBSET (Policies \X Policy),
          loaded : SUBSET Policies, found : SUBSET Result]
Idle == [op |-> "idle"]

\* The rows the tables of members and of assignments may hold: their foreign
\* keys, and each pair once.
Members == SUBSET (policySets \X {p \in Policies : policy[p] # NoPolicy})
Assignments == SUBSET (policySets \X PolicyWorkspaces)

PolicyTypeOK ==
  /\ policy \in [Policies -> Policy \cup {NoPolicy}]
  /\ policySets \in SUBSET PolicySets
  /\ member \in Members
  /\ assigned \in Assignments
  /\ results \subseteq Result
  /\ opa \in [Policies -> Texts \cup {"absent"}]
  /\ trial \in [Policies -> Texts \cup {"absent"}]
  /\ \A r \in PolicyRequests : prequest[r] = Idle \/ prequest[r] \in PRequest
  /\ serving \in BOOLEAN
  /\ outOfStep \subseteq Policies

PolicyInit ==
  /\ policy = [p \in Policies |-> NoPolicy]
  /\ policySets = {}
  /\ member = {}
  /\ assigned = {}
  /\ results = {}
  /\ opa = [p \in Policies |-> "absent"]
  /\ trial = [p \in Policies |-> "absent"]
  /\ prequest = [r \in PolicyRequests |-> Idle]
  /\ serving = FALSE
  /\ outOfStep = {}

-----------------------------------------------------------------------------
Known(p) == policy[p] # NoPolicy
\* The policies a request still has business with.
Touches(q) == IF q = Idle THEN {}
              ELSE IF q.op = "eval" THEN {x[1] : x \in q.todo} ELSE {q.policy}
Touched(p) == \E r \in PolicyRequests : p \in Touches(prequest[r])

\* The tables of a policy change; its request goes on to OPA.
Goes(r, op, p, t) ==
  /\ prequest[r] = Idle /\ serving
  /\ prequest' = [prequest EXCEPT ![r] = [op |-> op, policy |-> p, text |-> t]]
  /\ outOfStep' = IF Touched(p) THEN outOfStep \cup {p} ELSE outOfStep
Over(r) == prequest' = [prequest EXCEPT ![r] = Idle]

-----------------------------------------------------------------------------
(***************************************************************************)
(* Policies.                                                               *)
(***************************************************************************)
\* POST /policies: identifiers are new, so that what OPA may have left of
\* another policy is not this one's.
CreatePolicy(r, p, t, e) ==
  /\ ~Known(p) /\ opa[p] = "absent" /\ trial[p] = "absent" /\ ~Touched(p)
  /\ policy' = [policy EXCEPT ![p] = [text |-> t, enforcement |-> e]]
  /\ Goes(r, "load", p, t)
  /\ UNCHANGED <<policySets, member, assigned, results, opa, trial, serving>>

\* PUT /policies/{id} with a new text is loaded into OPA after the commit ...
UpdatePolicyText(r, p, t, e) ==
  /\ Known(p) /\ policy[p].text # t
  /\ policy' = [policy EXCEPT ![p] = [text |-> t, enforcement |-> e]]
  /\ Goes(r, "load", p, t)
  /\ UNCHANGED <<policySets, member, assigned, results, opa, trial, serving>>
\* ... and with the old text only changes the row.
UpdatePolicyRow(p, e) ==
  /\ serving /\ Known(p) /\ policy[p].enforcement # e
  /\ policy' = [policy EXCEPT ![p].enforcement = e]
  /\ UNCHANGED <<policySets, member, assigned, results, opa, trial, prequest, serving, outOfStep>>

\* DELETE /policies/{id}: the database deletes its memberships and its check
\* results with it (ON DELETE CASCADE).
DeletePolicy(r, p) ==
  /\ Known(p)
  /\ policy' = [policy EXCEPT ![p] = NoPolicy]
  /\ member' = {m \in member : m[2] # p}
  /\ results' = {x \in results : x.policy # p}
  /\ Goes(r, "remove", p, policy[p].text)
  /\ UNCHANGED <<policySets, assigned, opa, trial, serving>>

\* Mutant: a deleted policy stays in OPA.
LoadOrKeep(r, ok) ==
  LET q == prequest[r] IN
  /\ q.op \in {"load", "remove"}
  /\ ok \/ "opa" \in OPAFaults
  /\ opa' = IF ok /\ q.op = "load" THEN [opa EXCEPT ![q.policy] = q.text] ELSE opa
  /\ outOfStep' = IF ok THEN outOfStep ELSE outOfStep \cup {q.policy}
  /\ Over(r)
  /\ UNCHANGED <<policyTables, trial, serving>>

\* load_policy_to_opa, remove_policy_from_opa: what fails is logged and left.
LoadOrRemove(r, ok) ==
  LET q == prequest[r] IN
  /\ q.op \in {"load", "remove"}
  /\ ok \/ "opa" \in OPAFaults
  /\ opa' = IF ok THEN [opa EXCEPT ![q.policy] = IF q.op = "load" THEN q.text ELSE "absent"]
            ELSE opa
  /\ outOfStep' = IF ok THEN outOfStep ELSE outOfStep \cup {q.policy}
  /\ Over(r)
  /\ UNCHANGED <<policyTables, trial, serving>>

\* POST /policies/{id}/test: load the text under a name of its own, query,
\* remove it.
TestPolicy(r, p) ==
  /\ Known(p)
  /\ Goes(r, "test", p, policy[p].text)
  /\ UNCHANGED <<policyTables, opa, trial, serving>>
TestLoad(r, ok) ==
  LET q == prequest[r] IN
  /\ q.op = "test"
  /\ ok \/ "opa" \in OPAFaults
  /\ trial' = IF ok THEN [trial EXCEPT ![q.policy] = q.text] ELSE trial
  /\ prequest' = [prequest EXCEPT ![r].op = "test_remove"]
  /\ UNCHANGED <<policyTables, opa, serving, outOfStep>>
TestRemove(r, ok) ==
  LET q == prequest[r] IN
  /\ q.op = "test_remove"
  /\ ok \/ "opa" \in OPAFaults
  /\ trial' = IF ok THEN [trial EXCEPT ![q.policy] = "absent"] ELSE trial
  /\ outOfStep' = IF trial'[q.policy] # "absent" THEN outOfStep \cup {q.policy} ELSE outOfStep
  /\ Over(r)
  /\ UNCHANGED <<policyTables, opa, serving>>

-----------------------------------------------------------------------------
(***************************************************************************)
(* Policy sets: one transaction each.                                      *)
(***************************************************************************)
RowsOnly == serving /\ UNCHANGED <<policy, results, opa, trial, prequest, serving, outOfStep>>

CreatePolicySet(s) ==
  /\ s \notin policySets
  /\ policySets' = policySets \cup {s}
  /\ UNCHANGED <<member, assigned>> /\ RowsOnly
\* Mutant: the row of the set goes and those that refer to it stay.
DeleteSetRow(s) ==
  /\ s \in policySets
  /\ policySets' = policySets \ {s}
  /\ UNCHANGED <<member, assigned>> /\ RowsOnly
\* DELETE /policy-sets/{id}: members and assignments have relationships that do
\* not cascade, so that the ORM blanks their references instead of leaving
\* them to the database; those may not be blank, and the request fails.
DeletePolicySet(s) ==
  /\ s \in policySets
  /\ \A m \in member : m[1] # s
  /\ \A a \in assigned : a[1] # s
  /\ policySets' = policySets \ {s}
  /\ UNCHANGED <<member, assigned>> /\ RowsOnly
AddPolicyToSet(s, p) ==
  /\ s \in policySets /\ Known(p) /\ <<s, p>> \notin member
  /\ member' = member \cup {<<s, p>>}
  /\ UNCHANGED <<policySets, assigned>> /\ RowsOnly
RemovePolicyFromSet(s, p) ==
  /\ <<s, p>> \in member
  /\ member' = member \ {<<s, p>>}
  /\ UNCHANGED <<policySets, assigned>> /\ RowsOnly
\* A request names workspaces; none of them can be the null of "org-wide".
AssignPolicySet(s, W) ==
  /\ s \in policySets
  /\ assigned' = assigned \cup ({s} \X W)
  /\ UNCHANGED <<policySets, member>> /\ RowsOnly
UnassignPolicySet(s, w) ==
  /\ <<s, w>> \in assigned
  /\ assigned' = assigned \ {<<s, w>>}
  /\ UNCHANGED <<policySets, member>> /\ RowsOnly

-----------------------------------------------------------------------------
(***************************************************************************)
(* evaluate_plan and check_can_apply.                                      *)
(***************************************************************************)
PoliciesOf(w) ==
  {p \in Policies : \E s \in policySets : <<s, w>> \in assigned /\ <<s, p>> \in member}

\* What the evaluations under way have found so far or will find (for the bound).
Evaluations == {r \in PolicyRequests : prequest[r].op = "eval"}
Found == UNION {prequest[r].found : r \in Evaluations}
Todo == UNION {prequest[r].todo : r \in Evaluations}

EvaluatePlan(r, j, w) ==
  /\ prequest[r] = Idle /\ serving
  /\ PoliciesOf(w) # {}
  /\ Cardinality(results \cup Found) + Cardinality(Todo) + Cardinality(PoliciesOf(w)) <= MaxResults
  /\ prequest' = [prequest EXCEPT ![r] =
       [op |-> "eval", job |-> j, todo |-> {<<p, policy[p]>> : p \in PoliciesOf(w)},
        loaded |-> {}, found |-> {}]]
  /\ outOfStep' = outOfStep \cup {p \in PoliciesOf(w) : Touched(p)}
  /\ UNCHANGED <<policyTables, opa, trial, serving>>

\* One policy at a time: load what has been read ...
EvaluateLoad(r, x, ok) ==
  LET q == prequest[r] IN
  /\ q.op = "eval" /\ x \in q.todo /\ q.loaded = {}
  /\ ok \/ "opa" \in OPAFaults
  /\ opa' = IF ok THEN [opa EXCEPT ![x[1]] = x[2].text] ELSE opa
  /\ outOfStep' = IF ok THEN outOfStep ELSE outOfStep \cup {x[1]}
  /\ prequest' = [prequest EXCEPT ![r].loaded = {x[1]}]
  /\ UNCHANGED <<policyTables, trial, serving>>

Answer(p) == "violating" \in {opa[p], trial[p]}
\* Mutant: every answer is taken as passed.
LenientVerdict(x, ok) == ok
\* No violations in the answer; a query that fails has none.
Verdict(x, ok) == IF ok THEN ~Answer(x[1]) ELSE TRUE

\* ... and query it.
EvaluateQuery(r, x, ok) ==
  LET q == prequest[r] IN
  /\ q.op = "eval" /\ x \in q.todo /\ q.loaded = {x[1]}
  /\ ok \/ "opa" \in OPAFaults
  /\ prequest' = [prequest EXCEPT ![r] =
       [op |-> "eval", job |-> q.job, todo |-> q.todo \ {x}, loaded |-> {},
        found |-> q.found \cup
          {[job |-> q.job, policy |-> x[1], enforcement |-> x[2].enforcement,
            passed |-> Verdict(x, ok), text |-> x[2].text,
            sound |-> ok /\ x[1] \notin outOfStep]}]]
  /\ UNCHANGED <<policyTables, opa, trial, serving, outOfStep>>

\* One transaction records all results; one of a policy deleted meanwhile
\* violates its foreign key and none is recorded.
EvaluateCommit(r) ==
  LET q == prequest[r] IN
  /\ q.op = "eval" /\ q.todo = {}
  /\ results' = IF \A x \in q.found : Known(x.policy) THEN results \cup q.found ELSE results
  /\ Over(r)
  /\ UNCHANGED <<policy, policySets, member, assigned, opa, trial, serving, outOfStep>>

\* check_can_apply.
CanApply(j) ==
  ~ \E x \in results : /\ x.job = j /\ ~x.passed
                       /\ x.enforcement \in {"soft-mandatory", "hard-mandatory"}

-----------------------------------------------------------------------------
(***************************************************************************)
(* Starting up: seed_starter_policies, when there is no policy, and then   *)
(* sync_policies_to_opa, before any request is served.  A set of that name *)
(* that is still there fails the transaction, and the start goes on        *)
(* without the synchronisation.                                            *)
(***************************************************************************)
Seeding == \A p \in Policies : ~Known(p)
SeedStarters == IF Seeding /\ StarterSet \notin policySets
                THEN [p \in Policies |-> IF p \in Starters
                                         THEN [text |-> "violating", enforcement |-> "advisory"]
                                         ELSE NoPolicy]
                ELSE policy
Startup(failing) ==
  LET rows == SeedStarters
      loaded == {p \in Policies : rows[p] # NoPolicy} \ failing
  IN /\ ~serving
     /\ failing = {} \/ "opa" \in OPAFaults
     /\ policy' = rows
     /\ policySets' = IF rows = policy THEN policySets ELSE policySets \cup {StarterSet}
     /\ member' = IF rows = policy THEN member ELSE {StarterSet} \X Starters
     /\ opa' = [p \in Policies |-> IF p \in loaded THEN rows[p].text ELSE opa[p]]
     /\ outOfStep' = (outOfStep \ {p \in loaded : trial[p] = "absent"}) \cup failing
     /\ serving' = TRUE
     /\ UNCHANGED <<assigned, results, trial, prequest>>

PolicyServerStops ==
  /\ "server_restart" \in OPAFaults /\ serving
  /\ serving' = FALSE
  /\ outOfStep' = outOfStep \cup {p \in Policies : Touched(p)}
  /\ prequest' = [r \in PolicyRequests |-> Idle]
  /\ UNCHANGED <<policyTables, opa, trial>>

\* OPA keeps its modules in memory, and nobody tells the server.
OPARestarts ==
  /\ "opa_restart" \in OPAFaults
  /\ \E p \in Policies : opa[p] # "absent" \/ trial[p] # "absent"
  /\ opa' = [p \in Policies |-> "absent"]
  /\ trial' = [p \in Policies |-> "absent"]
  /\ outOfStep' = Policies
  /\ UNCHANGED <<policyTables, prequest, serving>>

PolicyNext ==
  \/ \E r \in PolicyRequests, p \in Policies, t \in Texts, e \in Enforcements :
       CreatePolicy(r, p, t, e) \/ UpdatePolicyText(r, p, t, e)
  \/ \E p \in Policies, e \in Enforcements : UpdatePolicyRow(p, e)
  \/ \E r \in PolicyRequests, p \in Policies : DeletePolicy(r, p) \/ TestPolicy(r, p)
  \/ \E r \in PolicyRequests, ok \in BOOLEAN :
       LoadOrRemove(r, ok) \/ TestLoad(r, ok) \/ TestRemove(r, ok)
  \/ \E s \in PolicySets : CreatePolicySet(s) \/ DeletePolicySet(s)
  \/ \E s \in PolicySets, p \in Policies : AddPolicyToSet(s, p) \/ RemovePolicyFromSet(s, p)
  \/ \E s \in PolicySets, W \in SUBSET PolicyWorkspaces : AssignPolicySet(s, W)
  \/ \E s \in PolicySets, w \in PolicyWorkspaces : UnassignPolicySet(s, w)
  \/ \E r \in PolicyRequests, j \in PolicyJobs, w \in PolicyWorkspaces : EvaluatePlan(r, j, w)
  \/ \E r \in PolicyRequests, x \in Policies \X Policy, ok \in BOOLEAN :
       EvaluateLoad(r, x, ok) \/ EvaluateQuery(r, x, ok)
  \/ \E r \in PolicyRequests : EvaluateCommit(r)
  \/ \E failing \in SUBSET Policies : Startup(failing)
  \/ PolicyServerStops
  \/ OPARestarts

PolicySpec == PolicyInit /\ [][PolicyNext]_policyVars

-----------------------------------------------------------------------------
(***************************************************************************)
(* Properties.                                                             *)
(***************************************************************************)
\* OPA has of every policy the text the database has, and nothing of a policy
\* that is gone, once its requests are over: unless a call of OPA failed, OPA
\* or the server stopped in between, or two requests on it overlapped.
OPAFollowsDatabase ==
  \A p \in Policies \ outOfStep :
    serving /\ ~Touched(p) =>
      /\ opa[p] = IF Known(p) THEN policy[p].text ELSE "absent"
      /\ trial[p] = "absent"

\* A check result is the verdict of the text the evaluation read, so that the
\* gate is shut for a violating mandatory one: unless OPA failed it, or another
\* request on the policy overlapped.
VerdictIsOfText ==
  \A x \in results :
    x.sound => /\ x.passed = (x.text = "clean")
               /\ x.text = "violating" /\ x.enforcement # "advisory" => ~CanApply(x.job)
=============================================================================

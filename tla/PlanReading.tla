----------------------------- MODULE PlanReading -----------------------------
(***************************************************************************)
(* What the server reads out of a plan of terraform without asking an AI:  *)
(* the summary, the risk and the cost of the changes                       *)
(* (core/plan-analysis-helpers.py, core/cost-estimator.py) and whether the *)
(* infrastructure has drifted (core/drift-detector.py).                    *)
(*                                                                         *)
(* A plan is a set of changes, one for each address (deposed objects,      *)
(* which share an address, are left out).  The actions of a change are a   *)
(* set: their order, which says whether a replacement creates or deletes   *)
(* first, is never looked at.                                              *)
(***************************************************************************)
EXTENDS Integers, Sequences, FiniteSets, FiniteSetsExt

CONSTANTS
  Addresses, Types,
  DataLossTypes, SecurityTypes, DowntimeTypes,  \* the types that raise a flag
  Signal(_),      \* a type's monthly cost in the analysis of a plan, in dollars
  Price(_)        \* its monthly cost in the estimate, in cents

\* The actions that terraform plans for a resource.
ActionSets ==
  {{"no-op"}, {"read"}, {"create"}, {"update"}, {"delete"}, {"create", "delete"}}
Change == [address : Addresses, type : Types, actions : ActionSets]

\* A plan has at most one change for an address.
IsPlan(changes) ==
  changes \subseteq Change /\ \A c, d \in changes : c.address = d.address => c = d

-----------------------------------------------------------------------------
(***************************************************************************)
(* extract_plan_summary                                                    *)
(***************************************************************************)
Idle(c) == c.actions \in {{"no-op"}, {"read"}}
Replaces(c) == {"create", "delete"} \subseteq c.actions

Replacements(changes) == {c \in changes : ~Idle(c) /\ Replaces(c)}
Creates(changes)  == {c \in changes : ~Idle(c) /\ ~Replaces(c) /\ "create" \in c.actions}
Updates(changes)  == {c \in changes \ Creates(changes) : ~Idle(c) /\ ~Replaces(c) /\ "update" \in c.actions}
Destroys(changes) ==
  {c \in changes \ (Creates(changes) \cup Updates(changes)) :
     ~Idle(c) /\ ~Replaces(c) /\ "delete" \in c.actions}

TotalChanges(changes) ==
  Cardinality(Replacements(changes)) + Cardinality(Creates(changes))
    + Cardinality(Updates(changes)) + Cardinality(Destroys(changes))

\* The total counts every change that is one, and counts it once.
TotalIsRight(changes) == TotalChanges(changes) = Cardinality({c \in changes : ~Idle(c)})

-----------------------------------------------------------------------------
(***************************************************************************)
(* assess_risk                                                             *)
(***************************************************************************)
FlagTypes == {"data_loss", "security", "downtime"}
Raises(c, flag) ==
  CASE flag = "data_loss" -> "delete" \in c.actions /\ c.type \in DataLossTypes
    [] flag = "security"  -> c.actions \cap {"create", "update"} # {} /\ c.type \in SecurityTypes
    [] flag = "downtime"  -> "delete" \in c.actions /\ c.type \in DowntimeTypes

Flags(changes) == {flag \in FlagTypes : \E c \in changes : Raises(c, flag)}

\* low, medium, high, critical
RiskLevel(changes) ==
  LET flags == Flags(changes) IN
  IF "data_loss" \in flags THEN IF flags = {"data_loss"} THEN 2 ELSE 3
  ELSE IF flags # {} THEN 1 ELSE 0

-----------------------------------------------------------------------------
(***************************************************************************)
(* estimate_cost_impact, and estimate_from_plan of the cost estimator      *)
(***************************************************************************)
Delta(changes) ==
  LET added == {c \in changes : "create" \in c.actions /\ "delete" \notin c.actions}
      gone  == {c \in changes : "delete" \in c.actions /\ "create" \notin c.actions}
      Cost(c) == Signal(c.type) IN
  MapThenSumSet(Cost, added) - MapThenSumSet(Cost, gone)

\* A change of at most five dollars is none.
Direction(changes) ==
  IF Delta(changes) > 5 THEN "increase" ELSE IF Delta(changes) < -5 THEN "decrease" ELSE "neutral"

\* The estimate counts what is created, also where it replaces something.
Estimate(changes) ==
  LET Cost(c) == Price(c.type) IN
  MapThenSumSet(Cost, {c \in changes : "create" \in c.actions})
WithinBudget(changes, budget) == Estimate(changes) <= budget

\* The plan that undoes a plan costs the opposite.
Undone(changes) ==
  LET Undo(as) == CASE as = {"create"} -> {"delete"} [] as = {"delete"} -> {"create"} [] OTHER -> as IN
  {[c EXCEPT !.actions = Undo(@)] : c \in changes}
CostIsSymmetric(changes) ==
  /\ Delta(Undone(changes)) = -Delta(changes)
  /\ Direction(changes) = "increase" <=> Direction(Undone(changes)) = "decrease"
\* What fits the budget fits it without any of its changes.
BudgetIsMonotone(changes, budget) ==
  WithinBudget(changes, budget) => \A part \in SUBSET changes : WithinBudget(part, budget)

-----------------------------------------------------------------------------
(***************************************************************************)
(* DriftDetector                                                           *)
(***************************************************************************)
\* A line of terraform's output has changes, or none that can be read (its
\* resource_drift counts as a line before that of its resource_changes); the
\* report has the first for each address.
Drifting(lines, i) == {c \in lines[i] : c.actions # {"no-op"}}
Drifted(lines) ==
  UNION {{c \in Drifting(lines, i) : \A j \in 1..i - 1 : \A d \in Drifting(lines, j) : d.address # c.address} :
           i \in DOMAIN lines}

\* check_drift, from the exit code and the output of plan -detailed-exitcode.
Report(there, code, lines) ==
  IF ~there \/ (code = 1 /\ lines = <<>>) THEN [drift |-> FALSE, error |-> TRUE, resources |-> {}]
  ELSE [drift |-> code = 2 \/ Drifted(lines) # {}, error |-> FALSE, resources |-> Drifted(lines)]

\* A report lists every address that has drifted once, and says so.
ReportIsRight(lines) ==
  LET report == Report(TRUE, 0, lines) IN
  /\ IsPlan(report.resources)
  /\ {c.address : c \in report.resources} = {c.address : c \in UNION {Drifting(lines, i) : i \in DOMAIN lines}}
  /\ report.drift <=> report.resources # {}
=============================================================================

---------------------------- MODULE MCPlanReading ----------------------------
(***************************************************************************)
(* The functions of PlanReading against what they promise, for all plans   *)
(* of two resources and all outputs of two lines.  The types are one for   *)
(* each flag, and one that raises none and costs too little to count.      *)
(***************************************************************************)
EXTENDS PlanReading

MCTypes == {"aws_db_instance", "aws_instance", "aws_security_group", "aws_lambda_function"}
MCSignal(t) == CASE t = "aws_db_instance" -> 50 [] t = "aws_instance" -> 30 [] t = "aws_security_group" -> 0
                 [] t = "aws_lambda_function" -> 2
MCPrice(t) == 100 * MCSignal(t)

Pairs == {changes \in {{c, d} : c, d \in Change} : IsPlan(changes)} \cup {{}}

\* A change of a plan is counted in just one of the summary's four numbers.
ASSUME SummaryAssumption == \A changes \in Pairs : TotalIsRight(changes)

\* The risk of a plan is at least that of each of its changes, and two that
\* are of medium or high risk may be critical together.
ASSUME RiskAssumption ==
  \A changes \in Pairs : \A c \in changes : RiskLevel({c}) <= RiskLevel(changes)

\* What a plan adds to the cost, the plan that undoes it takes away, and a
\* budget that is kept by a plan is kept by each part of it.
ASSUME CostAssumption ==
  \A changes \in Pairs : CostIsSymmetric(changes) /\ BudgetIsMonotone(changes, 3000)

\* Whatever the lines of the output repeat, an address that has drifted is in
\* the report once, and no other is.
ASSUME DriftAssumption ==
  LET Lines == {changes \in Pairs : \A c \in changes : c.type = "aws_instance"} IN
  \A first, second \in Lines : ReportIsRight(<<first, second>>)
=============================================================================

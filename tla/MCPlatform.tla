----------------------------- MODULE MCPlatform -----------------------------
(***************************************************************************)
(* The four parts of Platform in one run of TLC.  What is a matter of      *)
(* functions is checked in assumptions before the run begins: what the     *)
(* server reads out of a plan (MCPlanReading), the commands, the templates *)
(* and the command line (MCTools), the AI's services, the lessons and the  *)
(* code that is composed (MCServices).                                     *)
(***************************************************************************)
EXTENDS Platform, MCSystemConfig, MCPlanReading, MCTools, MCServices, TLC

MCInDirectory(f, d) == d = "net" /\ f = "net/vpc.tf"
MCTopFiles == <<"main.tf">>

\* A percentage that is rounded passes just when the exact one does: one that
\* is below 70 by half a point or less would need more than 20 questions.
ASSUME PassingAssumption ==
  \A total \in 1..20 : \A correct \in 0..total :
    Percentage(correct, total) >= PassingScore <=> correct * 100 >= PassingScore * total

\* The requests and users of a part are alike.  Each of these sets has two
\* elements, and those of a row are swapped together, which is as good as all
\* the permutations for a part that has one set of each row, and much faster.
Swap(pairs) == [x \in UNION pairs |-> CHOOSE y \in UNION pairs : {x, y} \in pairs]
Row1 == {Emails, Edits, KBRequests}
Row2 == {OrgNames, Sessions, BoardRequests}
Symmetry == Permutations(Registrations) \cup {Swap(Row1), Swap(Row2)}
=============================================================================

------------------------------ MODULE Platform ------------------------------
(***************************************************************************)
(* Four parts of the platform that share no state, beside one another:     *)
(* accounts and organisations, the files of the workspaces, the            *)
(* configuration, and the knowledge base.  In a behaviour one of them      *)
(* moves, so that TLC explores each in full and not their product.         *)
(***************************************************************************)
EXTENDS Access, WorkspaceFiles, Learning, SystemConfig

VARIABLE part   \* the component that moves
vars == <<part, accessVars, wsVars, configVars, learningVars>>

TypeOK == AccessTypeOK /\ WorkspaceTypeOK /\ ConfigTypeOK /\ LearningTypeOK

Init ==
  /\ part \in {"access", "files", "config", "learning"}
  /\ AccessInit /\ WorkspaceInit /\ ConfigInit /\ LearningInit
  /\ part # "config" => container = NothingSet

AccessPart ==
  part = "access" /\ AccessNext /\ UNCHANGED <<part, wsVars, configVars, learningVars>>
FilesPart ==
  part = "files" /\ WorkspaceNext /\ UNCHANGED <<part, accessVars, configVars, learningVars>>
ConfigPart ==
  part = "config" /\ ConfigNext /\ UNCHANGED <<part, accessVars, wsVars, learningVars>>
LearningPart ==
  part = "learning" /\ LearningNext /\ UNCHANGED <<part, accessVars, wsVars, configVars>>
Next == AccessPart \/ FilesPart \/ ConfigPart \/ LearningPart
Spec == Init /\ [][Next]_vars
=============================================================================

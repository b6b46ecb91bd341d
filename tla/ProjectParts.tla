---------------------------- MODULE ProjectParts ----------------------------
(***************************************************************************)
(* The catalogue of projects and the executions of one of them beside one  *)
(* another.  The two share no state that the other reads: in a behaviour   *)
(* one of them moves, so that TLC explores each and not their product.     *)
(***************************************************************************)
EXTENDS ProjectExecution, ProjectCatalogue

VARIABLE part   \* the component that moves
vars == <<part, projVars, catalogueVars>>

TypeOK == ProjTypeOK /\ CatalogueTypeOK

Init == part \in {"execution", "catalogue"} /\ ProjInit /\ CatalogueInit
ExecutionPart == part = "execution" /\ ProjNext /\ UNCHANGED <<part, catalogueVars>>
CataloguePart == part = "catalogue" /\ CatalogueNext /\ UNCHANGED <<part, projVars>>
Next == ExecutionPart \/ CataloguePart
Spec == Init /\ [][Next]_vars
=============================================================================

---------------------------- MODULE MCVCSPolicy ----------------------------
(***************************************************************************)
(* GitHub runs and policies in one run of TLC.  The two share no state, so *)
(* that a behaviour of both is a behaviour of each: TLC explores them one  *)
(* at a time, the other standing at its initial state.                     *)
(***************************************************************************)
EXTENDS VCSRuns, PolicyGate

VARIABLE part   \* the component that moves
vars == <<part, vcsVars, policyVars>>

TypeOK == VCSTypeOK /\ PolicyTypeOK

Init == part \in {"vcs", "policy"} /\ VCSInit /\ PolicyInit
VCSPart == part = "vcs" /\ VCSNext /\ UNCHANGED <<part, policyVars>>
PolicyPart == part = "policy" /\ PolicyNext /\ UNCHANGED <<part, vcsVars>>
Next == VCSPart \/ PolicyPart
FairSpec == Init /\ [][Next]_vars /\ VCSFairness
=============================================================================

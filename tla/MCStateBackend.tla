-------------------------- MODULE MCStateBackend --------------------------
(* StateBackend for TLC.  Rows and lock identifiers are numbers, so that     *)
(* NewRow and NewId are the least ones that nothing carries; clients and     *)
(* handler slots are interchangeable.                                        *)
EXTENDS StateBackend, TLC

Symmetry == Permutations(Clients) \cup Permutations(Writes)
=============================================================================

----------------------------- MODULE MCProjects -----------------------------
(***************************************************************************)
(* ProjectParts in a run of TLC.  The assumptions compare the algorithms   *)
(* of DependencyOrder with what they are to compute, for all the graphs of *)
(* up to three modules.                                                    *)
(***************************************************************************)
EXTENDS ProjectParts, TLC

\* Every name may be a module's, or one that no module has.
ASSUME OrderAssumption ==
  \A S \in SUBSET {"a", "b", "c"} :
    \A depends \in [S -> [S -> {0, 1}]] : OrderIsRight(depends)
ASSUME RepeatedNamesAssumption ==
  \A S \in SUBSET {"a", "b"} :
    \A depends \in [S -> [{"a", "b"} -> 0..2]] :
      Resolvable(depends) <=> ValidConfig(depends)
\* compose_project warns of what parse_project_yaml refuses.
ASSUME WarningsAssumption ==
  \A S \in SUBSET {"a", "b"} :
    \A depends \in [S -> [{"a", "b"} -> {0, 1}]] :
      StackWarnings(depends) = {} <=> ValidConfig(depends)

\* A configuration of the modules S with the dependencies E; blank, one
\* module, two of which the second needs the first, two that need each other.
Depending(S, E) ==
  [ blank |-> FALSE,
    depends |-> [m \in S |-> [d \in Modules |-> IF <<m, d>> \in E THEN 1 ELSE 0]] ]
MCConfigs ==
  { NoConfig, Depending({"network"}, {}),
    Depending({"network", "app"}, {<<"app", "network">>}),
    Depending({"network", "app"}, {<<"app", "network">>, <<"network", "app">>}) }
MCOrgs == {NoOrg, "acme"}

Symmetry == Permutations(ProjRequests) \cup Permutations(CatalogueRequests)
=============================================================================

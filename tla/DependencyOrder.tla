-------------------------- MODULE DependencyOrder --------------------------
(***************************************************************************)
(* The order of a project's modules (core/dependency-resolver.py), the     *)
(* validation of a configuration (core/project-config-parser.py) and the   *)
(* warnings of a stack (core/stack-composer.py).                           *)
(*                                                                         *)
(* depends[m][d] is how often module m names d in its depends_on: a name   *)
(* may be repeated, and it may be that of no module.                       *)
(***************************************************************************)
EXTENDS Naturals, FiniteSets

DependsOn(depends, m) == {d \in DOMAIN depends[m] : depends[m][d] > 0}
UnknownDependency(depends) ==
  \E m \in DOMAIN depends : DependsOn(depends, m) \ DOMAIN depends # {}

-----------------------------------------------------------------------------
(***************************************************************************)
(* Kahn's algorithm, a layer at a time.  An edge counts as often as it is  *)
(* repeated, both in the in-degree and when its source is done.            *)
(***************************************************************************)
Edges(depends, m, sources) ==
  UNION {{d} \X (1..depends[m][d]) : d \in sources \cap DOMAIN depends[m]}
EdgesFrom(depends, m, sources) == Cardinality(Edges(depends, m, sources))
InDegree(depends) ==
  [m \in DOMAIN depends |-> EdgesFrom(depends, m, DOMAIN depends)]

\* The queue and the in-degrees before the first round, and after a round.
FirstRound(depends) ==
  [ queue |-> {m \in DOMAIN depends : InDegree(depends)[m] = 0},
    degree |-> InDegree(depends) ]
NextRound(depends, before) ==
  LET left == [m \in DOMAIN depends |->
                 before.degree[m] - EdgesFrom(depends, m, before.queue)]
  IN [ queue |-> {m \in DOMAIN depends : before.degree[m] > 0 /\ left[m] = 0},
       degree |-> left ]
Rounds(depends) ==
  LET round[n \in 0..Cardinality(DOMAIN depends)] ==
        IF n = 0 THEN FirstRound(depends) ELSE NextRound(depends, round[n - 1])
  IN round

\* The number of layers: the round that finds the queue empty.
Depth(depends) ==
  CHOOSE n \in DOMAIN Rounds(depends) :
    /\ Rounds(depends)[n].queue = {}
    /\ \A k \in 0..n - 1 : Rounds(depends)[k].queue # {}
HasCycle(depends) ==
  \E m \in DOMAIN depends : Rounds(depends)[Depth(depends)].degree[m] > 0

\* resolve_execution_order raises, or returns the layers.
Resolvable(depends) == ~UnknownDependency(depends) /\ ~HasCycle(depends)
Layers(depends) == [n \in 1..Depth(depends) |-> Rounds(depends)[n - 1].queue]

-----------------------------------------------------------------------------
(***************************************************************************)
(* The depth-first searches of the parser and of the composer: a visit     *)
(* meets a module that is on the stack.  A module that has been visited    *)
(* without meeting one is not visited again, which changes no answer.      *)
(***************************************************************************)
MeetsStack(depends) ==
  LET visit[s \in SUBSET DOMAIN depends, m \in DOMAIN depends] ==
        \/ m \in s
        \/ \E d \in DependsOn(depends, m) \cap DOMAIN depends : visit[s \cup {m}, d]
  IN \E m \in DOMAIN depends : visit[{}, m]

\* parse_project_yaml accepts the modules of a configuration.
ValidConfig(depends) == ~UnknownDependency(depends) /\ ~MeetsStack(depends)
\* compose_project only warns.
StackWarnings(depends) ==
  (IF UnknownDependency(depends) THEN {"undefined"} ELSE {})
    \cup (IF MeetsStack(depends) THEN {"circular"} ELSE {})

-----------------------------------------------------------------------------
(***************************************************************************)
(* What they are to compute: an order that puts every module one layer     *)
(* after the last of its dependencies, if there is one.                    *)
(***************************************************************************)
ReachableIn(depends) ==
  LET names == DOMAIN depends
      within[n \in 0..Cardinality(names)] ==
        IF n = 0 THEN {e \in names \X names : e[2] \in DependsOn(depends, e[1])}
        ELSE within[n - 1] \cup
               { e \in names \X names :
                   \E k \in names : <<e[1], k>> \in within[n - 1] /\ <<k, e[2]>> \in within[n - 1] }
  IN within[Cardinality(names)]
Acyclic(depends) == \A m \in DOMAIN depends : <<m, m>> \notin ReachableIn(depends)

LayersAreRight(depends) ==
  LET layers == Layers(depends)
      level(m) == CHOOSE n \in DOMAIN layers : m \in layers[n]
  IN /\ \A m \in DOMAIN depends : \E n \in DOMAIN layers : m \in layers[n]
     /\ \A i, j \in DOMAIN layers : i # j => layers[i] \cap layers[j] = {}
     /\ \A m \in DOMAIN depends : \A d \in DependsOn(depends, m) : level(d) < level(m)
     /\ \A m \in DOMAIN depends :
          level(m) > 1 => \E d \in DependsOn(depends, m) : level(d) = level(m) - 1

OrderIsRight(depends) ==
  /\ HasCycle(depends) <=> ~Acyclic(depends)
  /\ MeetsStack(depends) <=> ~Acyclic(depends)
  /\ Resolvable(depends) <=> ValidConfig(depends)
  /\ Resolvable(depends) => LayersAreRight(depends)
=============================================================================

---------------------- MODULE ProjectExecutionProofs ----------------------
(***************************************************************************)
(* Proofs about the executions of a project, for any finite set of         *)
(* modules, any configurations of them and any number of requests, and     *)
(* about the order in which an execution runs its modules: Kahn's          *)
(* algorithm puts every module in a layer after those it depends on.       *)
(***************************************************************************)
EXTENDS ProjectParts, FiniteSetTheorems, WellFoundedInduction, TLAPS

(***************************************************************************)
(* Induction.  The provers cannot instantiate a theorem that takes a       *)
(* predicate; what follows argues by the least counterexample instead.     *)
(***************************************************************************)
\* A set of numbers has a least one: the intervals that end in its numbers
\* are finite sets, and one of them is contained in no other.
LEMMA LeastNumber ==
  ASSUME NEW T \in SUBSET Nat, T # {}
  PROVE  \E n \in T : \A k \in T : n <= k
  <1> DEFINE UpTo == {0..n : n \in T}
  <1>1. UpTo \subseteq FiniteSubsetsOf(Nat) /\ UpTo # {}
    <2>1. \A n \in T : IsFiniteSet(0..n) /\ 0..n \in SUBSET Nat
      BY FS_Interval
    <2> QED
      BY <2>1 DEF FiniteSubsetsOf
  <1> HIDE DEF UpTo
  <1>2. PICK x \in UpTo : \A y \in UpTo : <<y, x>> \notin StrictSubsetOrdering(Nat)
    BY <1>1, WFMin, FS_StrictSubsetOrderingWellFounded
  <1>3. PICK n \in T : x = 0..n
    BY DEF UpTo
  <1>4. ASSUME NEW k \in T, k < n
        PROVE  FALSE
    <2>1. 0..k \in UpTo /\ 0..k \subseteq x /\ 0..k # x
      BY <1>3, <1>4 DEF UpTo
    <2> QED
      BY <1>1, <1>2, <2>1 DEF StrictSubsetOrdering, FiniteSubsetsOf
  <1> QED
    BY <1>4

-----------------------------------------------------------------------------
(***************************************************************************)
(* The order of the modules.                                               *)
(***************************************************************************)
\* Finitely many modules, that name finitely many others, each so often.
Countable(depends) ==
  /\ IsFiniteSet(DOMAIN depends)
  /\ \A m \in DOMAIN depends :
       IsFiniteSet(DOMAIN depends[m]) /\ \A d \in DOMAIN depends[m] : depends[m][d] \in Nat

\* The edges of a module can be counted.
LEMMA EdgesFinite ==
  ASSUME NEW depends, Countable(depends), NEW m \in DOMAIN depends, NEW S
  PROVE  IsFiniteSet(Edges(depends, m, S)) /\ EdgesFrom(depends, m, S) \in Nat
  <1> DEFINE D == S \cap DOMAIN depends[m]
             f == [d \in D |-> {d} \X (1..depends[m][d])]
             B == {{d} \X (1..depends[m][d]) : d \in D}
  <1>1. IsFiniteSet(D)
    BY FS_Intersection DEF Countable
  <1>2. \A d \in D : IsFiniteSet({d} \X (1..depends[m][d]))
    <2> SUFFICES ASSUME NEW d \in D
                 PROVE  IsFiniteSet({d} \X (1..depends[m][d]))
      OBVIOUS
    <2>1. depends[m][d] \in Nat
      BY DEF Countable
    <2>2. IsFiniteSet({d})
      BY FS_Singleton
    <2>3. IsFiniteSet(1..depends[m][d])
      BY <2>1, FS_Interval
    <2> QED
      BY <2>2, <2>3, FS_Product
  <1>3. f \in Surjection(D, B)
    BY DEF Surjection
  <1>4. IsFiniteSet(B)
    BY <1>1, <1>3, FS_Surjection
  <1>5. \A T \in B : IsFiniteSet(T)
    BY <1>2
  <1>6. Edges(depends, m, S) = UNION B
    BY DEF Edges
  <1>7. IsFiniteSet(Edges(depends, m, S))
    BY <1>4, <1>5, <1>6, FS_UNION
  <1> QED
    BY <1>7, FS_CardinalityType DEF EdgesFrom

\* The edges from two sets of modules that share none add up ...
LEMMA EdgesAddUp ==
  ASSUME NEW depends, Countable(depends), NEW m \in DOMAIN depends, NEW S, NEW T, S \cap T = {}
  PROVE  EdgesFrom(depends, m, S \cup T) = EdgesFrom(depends, m, S) + EdgesFrom(depends, m, T)
  <1>1. Edges(depends, m, S \cup T) = Edges(depends, m, S) \cup Edges(depends, m, T)
    BY DEF Edges
  <1>2. Edges(depends, m, S) \cap Edges(depends, m, T) = {}
    <2>1. \A e \in Edges(depends, m, S) : e[1] \in S
      BY DEF Edges
    <2>2. \A e \in Edges(depends, m, T) : e[1] \in T
      BY DEF Edges
    <2> QED
      BY <2>1, <2>2
  <1>3. /\ IsFiniteSet(Edges(depends, m, S)) /\ IsFiniteSet(Edges(depends, m, T))
        /\ EdgesFrom(depends, m, S) \in Nat /\ EdgesFrom(depends, m, T) \in Nat
    BY EdgesFinite
  <1>4. Cardinality(Edges(depends, m, S) \cap Edges(depends, m, T)) = 0
    BY <1>2, FS_EmptySet
  <1>5. Cardinality(Edges(depends, m, S) \cup Edges(depends, m, T)) =
          EdgesFrom(depends, m, S) + EdgesFrom(depends, m, T)
            - Cardinality(Edges(depends, m, S) \cap Edges(depends, m, T))
    BY <1>3, FS_Union DEF EdgesFrom
  <1>6. EdgesFrom(depends, m, S \cup T) =
          EdgesFrom(depends, m, S) + EdgesFrom(depends, m, T) - 0
    BY <1>1, <1>4, <1>5 DEF EdgesFrom
  <1> QED
    BY <1>3, <1>6

\* ... those from more modules are no fewer ...
LEMMA EdgesGrow ==
  ASSUME NEW depends, Countable(depends), NEW m \in DOMAIN depends, NEW S, NEW T, S \subseteq T
  PROVE  EdgesFrom(depends, m, S) <= EdgesFrom(depends, m, T)
  <1>1. Edges(depends, m, S) \subseteq Edges(depends, m, T)
    BY DEF Edges
  <1> QED
    BY <1>1, EdgesFinite, FS_Subset DEF EdgesFrom

\* ... and a module without any depends on none of them.
LEMMA NoEdges ==
  ASSUME NEW depends, Countable(depends), NEW m \in DOMAIN depends, NEW S,
         EdgesFrom(depends, m, S) = 0
  PROVE  \A d \in S : d \notin DependsOn(depends, m)
  <1> SUFFICES ASSUME NEW d \in S, d \in DependsOn(depends, m)
               PROVE  FALSE
    OBVIOUS
  <1>1. Edges(depends, m, S) = {}
    BY EdgesFinite, FS_EmptySet DEF EdgesFrom
  <1>2. d \in S \cap DOMAIN depends[m] /\ 1 \in 1..depends[m][d]
    BY DEF DependsOn, Countable
  <1>3. <<d, 1>> \in {d} \X (1..depends[m][d])
    BY <1>2
  <1>4. <<d, 1>> \in Edges(depends, m, S)
    BY <1>2, <1>3 DEF Edges
  <1> QED
    BY <1>1, <1>4


\* The rounds are the ones their recursion describes: some function satisfies
\* it, or there would be a first round up to which none does.
LEMMA RoundsUnfold ==
  ASSUME NEW depends, NEW N \in Nat, Cardinality(DOMAIN depends) = N
  PROVE  Rounds(depends) =
           [n \in 0..N |-> IF n = 0 THEN FirstRound(depends)
                           ELSE NextRound(depends, Rounds(depends)[n - 1])]
  <1> DEFINE Is(f, k) == f = [n \in 0..k |-> IF n = 0 THEN FirstRound(depends)
                                             ELSE NextRound(depends, f[n - 1])]
             T == {k \in 0..N : ~ \E f : Is(f, k)}
  <1>1. T = {}
    <2> SUFFICES ASSUME T # {}
                 PROVE  FALSE
      OBVIOUS
    <2>0. T \in SUBSET Nat
      OBVIOUS
    <2>1. PICK k \in T : \A i \in T : k <= i
      <3> HIDE DEF T
      <3> QED
        BY <2>0, LeastNumber
    <2>2. CASE k = 0
      <3> DEFINE f == [n \in 0..0 |-> FirstRound(depends)]
      <3>1. Is(f, 0)
        OBVIOUS
      <3> QED
        BY <2>1, <2>2, <3>1
    <2>3. CASE k > 0
      <3>1. k \in 1..N /\ k - 1 \in 0..N /\ k - 1 \notin T
        BY <2>1, <2>3
      <3>2. PICK g : Is(g, k - 1)
        BY <3>1
      <3> DEFINE f == [n \in 0..k |-> IF n = k THEN NextRound(depends, g[k - 1]) ELSE g[n]]
      <3>3. \A n \in 0..k - 1 :
              /\ f[n] = g[n]
              /\ g[n] = IF n = 0 THEN FirstRound(depends) ELSE NextRound(depends, g[n - 1])
        BY <3>1, <3>2
      <3>4. \A n \in 0..k :
              f[n] = IF n = 0 THEN FirstRound(depends) ELSE NextRound(depends, f[n - 1])
        <4> SUFFICES ASSUME NEW n \in 0..k
                     PROVE  f[n] = IF n = 0 THEN FirstRound(depends)
                                   ELSE NextRound(depends, f[n - 1])
          OBVIOUS
        <4>1. CASE n = k
          <5>1. k - 1 \in 0..k - 1 /\ n # 0
            BY <3>1, <4>1
          <5> QED
            BY <3>3, <4>1, <5>1
        <4>2. CASE n # k
          <5>1. n \in 0..k - 1 /\ (n # 0 => n - 1 \in 0..k - 1)
            BY <3>1, <4>2
          <5> QED
            BY <3>3, <5>1
        <4> QED
          BY <4>1, <4>2
      <3>5. Is(f, k)
        BY <3>4
      <3> QED
        BY <2>1, <3>5
    <2> QED
      BY <2>1, <2>2, <2>3
  <1>2. \E f : Is(f, N)
    BY <1>1
  <1>3. Rounds(depends) = CHOOSE f : Is(f, N)
    BY DEF Rounds
  <1> HIDE DEF Is
  <1>4. Is(Rounds(depends), N)
    BY <1>2, <1>3
  <1> QED
    BY <1>4 DEF Is


\* The modules that were in the queue before the n-th round.
Done(depends, n) == UNION {Rounds(depends)[k].queue : k \in 0..n - 1}
\* Before the n-th round a module's degree counts the edges from the modules
\* that have not been in the queue, and those in the queue have none.
Kahn(depends, n) ==
  /\ Rounds(depends)[n].queue \subseteq DOMAIN depends
  /\ \A m \in DOMAIN depends :
       Rounds(depends)[n].degree[m] = EdgesFrom(depends, m, DOMAIN depends \ Done(depends, n))
  /\ \A m \in Rounds(depends)[n].queue :
       Rounds(depends)[n].degree[m] = 0 /\ m \notin Done(depends, n)

LEMMA DoneGrows ==
  ASSUME NEW depends, NEW n \in Nat, NEW k \in 0..n
  PROVE  /\ Done(depends, 0) = {}
         /\ Done(depends, k) \subseteq Done(depends, n)
         /\ Done(depends, n + 1) = Done(depends, n) \cup Rounds(depends)[n].queue
         /\ \A m \in Done(depends, n) : \E i \in 0..n - 1 : m \in Rounds(depends)[i].queue
  <1>1. 0..0 - 1 = {} /\ 0..k - 1 \subseteq 0..n - 1 /\ 0..(n + 1) - 1 = (0..n - 1) \cup {n}
    OBVIOUS
  <1> QED
    BY <1>1 DEF Done

LEMMA KahnHolds ==
  ASSUME NEW depends, Countable(depends), NEW N \in Nat, Cardinality(DOMAIN depends) = N
  PROVE  \A n \in 0..N : Kahn(depends, n)
  <1> DEFINE names == DOMAIN depends
             R(n) == Rounds(depends)[n]
             T == {n \in 0..N : ~Kahn(depends, n)}
  <1>0. T \in SUBSET Nat
    OBVIOUS
  <1> SUFFICES ASSUME T # {}
               PROVE  FALSE
    OBVIOUS
  <1>1. PICK n \in T : \A k \in T : n <= k
    <2> HIDE DEF T
    <2> QED
      BY <1>0, LeastNumber
  <1>2. \A i \in 0..N : R(i) = IF i = 0 THEN FirstRound(depends) ELSE NextRound(depends, R(i - 1))
    <2>1. Rounds(depends) = [i \in 0..N |-> IF i = 0 THEN FirstRound(depends)
                                            ELSE NextRound(depends, Rounds(depends)[i - 1])]
      BY RoundsUnfold
    <2> QED
      BY <2>1
  <1>3. CASE n = 0
    <2>1. R(0) = FirstRound(depends)
      BY <1>2, <1>3
    <2>2. names \ Done(depends, 0) = names
      BY DoneGrows
    <2>3. \A m \in names : R(0).degree[m] = EdgesFrom(depends, m, names)
      BY <2>1 DEF FirstRound, InDegree
    <2>4. R(0).queue = {m \in names : R(0).degree[m] = 0}
      BY <2>1 DEF FirstRound
    <2>5. Kahn(depends, 0)
      BY <2>2, <2>3, <2>4 DEF Kahn, Done
    <2> QED
      BY <1>1, <1>3, <2>5
  <1>4. CASE n > 0
    <2>p. PICK p \in 0..N : p = n - 1
      BY <1>1, <1>4
    <2>1. n \in 0..N /\ n = p + 1 /\ \A i \in 0..p : Kahn(depends, i)
      BY <1>1, <1>4, <2>p
    <2>2. R(n) = NextRound(depends, R(p))
      BY <1>2, <1>4, <2>1, <2>p
    <2>3. /\ Kahn(depends, p)
          /\ Done(depends, n) = Done(depends, p) \cup R(p).queue
          /\ Done(depends, p) \cap R(p).queue = {}
          /\ R(p).queue \subseteq names
      <3>1. Kahn(depends, p)
        BY <2>1
      <3> QED
        BY <2>1, <3>1, DoneGrows DEF Kahn
    <2>4. \A m \in names : R(n).degree[m] = R(p).degree[m] - EdgesFrom(depends, m, R(p).queue)
      BY <2>2 DEF NextRound
    <2>5. R(n).queue = {m \in names : R(p).degree[m] > 0 /\ R(n).degree[m] = 0}
      BY <2>2 DEF NextRound
    <2>6. \A m \in names :
            R(n).degree[m] = EdgesFrom(depends, m, names \ Done(depends, n))
      <3> SUFFICES ASSUME NEW m \in names
                   PROVE  R(n).degree[m] = EdgesFrom(depends, m, names \ Done(depends, n))
        OBVIOUS
      <3>1. names \ Done(depends, p) = (names \ Done(depends, n)) \cup R(p).queue
            /\ (names \ Done(depends, n)) \cap R(p).queue = {}
        BY <2>3
      <3>2. EdgesFrom(depends, m, names \ Done(depends, p)) =
              EdgesFrom(depends, m, names \ Done(depends, n)) + EdgesFrom(depends, m, R(p).queue)
        BY <3>1, EdgesAddUp
      <3>3. R(p).degree[m] = EdgesFrom(depends, m, names \ Done(depends, p))
        BY <2>3 DEF Kahn
      <3>4. /\ EdgesFrom(depends, m, names \ Done(depends, n)) \in Nat
            /\ EdgesFrom(depends, m, R(p).queue) \in Nat
        BY EdgesFinite
      <3> QED
        BY <2>4, <3>2, <3>3, <3>4
    <2>7. \A m \in R(n).queue : m \notin Done(depends, n)
      <3> SUFFICES ASSUME NEW m \in R(n).queue, m \in Done(depends, n)
                   PROVE  FALSE
        OBVIOUS
      <3>1. m \in names /\ R(p).degree[m] > 0
        BY <2>5
      <3>2. PICK i \in 0..p : m \in R(i).queue
        BY <2>1, DoneGrows
      <3>3. R(i).degree[m] = 0 /\ R(i).degree[m] = EdgesFrom(depends, m, names \ Done(depends, i))
        BY <2>1, <3>1, <3>2 DEF Kahn
      <3>4. names \ Done(depends, p) \subseteq names \ Done(depends, i)
        BY DoneGrows
      <3>5. EdgesFrom(depends, m, names \ Done(depends, p)) <= 0
        BY <3>1, <3>3, <3>4, EdgesGrow
      <3>6. R(p).degree[m] = EdgesFrom(depends, m, names \ Done(depends, p))
        BY <2>3, <3>1 DEF Kahn
      <3>7. EdgesFrom(depends, m, names \ Done(depends, p)) \in Nat
        BY <3>1, EdgesFinite
      <3> QED
        BY <3>1, <3>5, <3>6, <3>7
    <2>8. Kahn(depends, n)
      BY <2>5, <2>6, <2>7 DEF Kahn
    <2> QED
      BY <1>1, <2>8
  <1> QED
    BY <1>1, <1>3, <1>4


\* The rounds end: no more queues can hold modules than there are modules.
LEMMA DepthIsARound ==
  ASSUME NEW depends, Countable(depends), NEW N \in Nat, Cardinality(DOMAIN depends) = N
  PROVE  /\ Depth(depends) \in 0..N
         /\ Rounds(depends)[Depth(depends)].queue = {}
         /\ \A k \in 0..Depth(depends) - 1 : Rounds(depends)[k].queue # {}
  <1> DEFINE queue(n) == Rounds(depends)[n].queue
             Empty == {n \in 0..N : queue(n) = {}}
  <1>1. \A n \in 0..N : Kahn(depends, n)
    BY KahnHolds
  <1>2. Empty # {}
    <2> SUFFICES ASSUME \A n \in 0..N : queue(n) # {}
                 PROVE  FALSE
      OBVIOUS
    <2> DEFINE f == [n \in 0..N |-> CHOOSE m \in DOMAIN depends : m \in queue(n)]
    <2>1. \A n \in 0..N : f[n] \in DOMAIN depends /\ f[n] \in queue(n)
      BY <1>1 DEF Kahn
    <2> HIDE DEF f
    <2>2. \A n, k \in 0..N : k < n => f[k] # f[n]
      <3> SUFFICES ASSUME NEW n \in 0..N, NEW k \in 0..N, k < n
                   PROVE  f[k] # f[n]
        OBVIOUS
      <3>1. k \in 0..n - 1
        OBVIOUS
      <3>2. f[k] \in Done(depends, n)
        BY <2>1, <3>1 DEF Done
      <3>3. f[n] \notin Done(depends, n)
        BY <1>1, <2>1 DEF Kahn
      <3> QED
        BY <3>2, <3>3
    <2>3. f \in [0..N -> DOMAIN depends] /\ \A n, k \in 0..N : f[n] = f[k] => n = k
      <3>1. f \in [0..N -> DOMAIN depends]
        BY <2>1 DEF f
      <3>2. \A n, k \in 0..N : n = k \/ n < k \/ k < n
        OBVIOUS
      <3> QED
        BY <2>2, <3>1, <3>2
    <2>4. f \in Injection(0..N, DOMAIN depends)
      BY <2>3 DEF Injection, IsInjective
    <2>5. Cardinality(0..N) <= N
      BY <2>4, FS_Injection DEF Countable
    <2>6. Cardinality(0..N) = N + 1
      BY FS_Interval
    <2> QED
      BY <2>5, <2>6
  <1>3. Empty \in SUBSET Nat
    OBVIOUS
  <1>4. PICK n \in Empty : \A k \in Empty : n <= k
    <2> HIDE DEF Empty
    <2> QED
      BY <1>2, <1>3, LeastNumber
  <1>5. DOMAIN Rounds(depends) = 0..N
    <2>1. Rounds(depends) = [i \in 0..N |-> IF i = 0 THEN FirstRound(depends)
                                            ELSE NextRound(depends, Rounds(depends)[i - 1])]
      BY RoundsUnfold
    <2> QED
      BY <2>1
  <1>6. n \in DOMAIN Rounds(depends) /\ queue(n) = {} /\ \A k \in 0..n - 1 : queue(k) # {}
    BY <1>4, <1>5
  <1> QED
    BY <1>5, <1>6 DEF Depth

\* The layers of an order (resolve_execution_order): no module is in two of
\* them, and what a module depends on is in layers before its own ...
THEOREM LayersAreInOrder ==
  ASSUME NEW depends, Countable(depends), ~UnknownDependency(depends)
  PROVE  /\ Depth(depends) \in Nat
         /\ \A n \in DOMAIN Layers(depends) : Layers(depends)[n] \subseteq DOMAIN depends
         /\ \A n, k \in DOMAIN Layers(depends) :
              k < n => Layers(depends)[k] \cap Layers(depends)[n] = {}
         /\ \A n \in DOMAIN Layers(depends) : \A m \in Layers(depends)[n] :
              \A d \in DependsOn(depends, m) : \E k \in 1..n - 1 : d \in Layers(depends)[k]
  <1>n. PICK N \in Nat : N = Cardinality(DOMAIN depends)
    BY FS_CardinalityType DEF Countable
  <1>d. PICK D \in 0..N : D = Depth(depends)
    BY <1>n, DepthIsARound
  <1>1. \A n \in 0..N : Kahn(depends, n)
    BY <1>n, KahnHolds
  <1>2. DOMAIN Layers(depends) = 1..D /\ \A n \in 1..D : Layers(depends)[n] = Rounds(depends)[n - 1].queue
    BY <1>d DEF Layers
  <1>3. \A n \in 1..D : n - 1 \in 0..N /\ Layers(depends)[n] \subseteq DOMAIN depends
    <2>1. \A n \in 1..D : n - 1 \in 0..N
      OBVIOUS
    <2> QED
      BY <1>1, <1>2, <2>1 DEF Kahn
  <1>4. ASSUME NEW n \in 1..D, NEW k \in 1..D, k < n
        PROVE  Layers(depends)[k] \cap Layers(depends)[n] = {}
    <2>1. k - 1 \in 0..(n - 1) - 1
      BY <1>4
    <2>2. Layers(depends)[k] \subseteq Done(depends, n - 1)
      BY <1>2, <2>1 DEF Done
    <2> QED
      BY <1>1, <1>2, <1>3, <2>2 DEF Kahn
  <1>5. ASSUME NEW n \in 1..D, NEW m \in Layers(depends)[n], NEW d \in DependsOn(depends, m)
        PROVE  \E k \in 1..n - 1 : d \in Layers(depends)[k]
    <2>1. m \in DOMAIN depends /\ d \in DOMAIN depends
      BY <1>3 DEF UnknownDependency
    <2>p. PICK p \in 0..N : p = n - 1
      BY <1>3
    <2>2. Rounds(depends)[p].degree[m] = EdgesFrom(depends, m, DOMAIN depends \ Done(depends, p))
          /\ Rounds(depends)[p].degree[m] = 0
      BY <1>1, <1>2, <2>1, <2>p DEF Kahn
    <2>3. d \notin DOMAIN depends \ Done(depends, p)
      BY <2>1, <2>2, NoEdges
    <2>4. PICK i \in 0..p - 1 : d \in Rounds(depends)[i].queue
      BY <2>1, <2>3, DoneGrows
    <2>5. i + 1 \in 1..n - 1 /\ (i + 1) - 1 = i /\ i + 1 \in 1..D
      BY <2>p, <2>4
    <2>6. d \in Layers(depends)[i + 1]
      BY <1>2, <2>4, <2>5
    <2> QED
      BY <2>5, <2>6
  <1> QED
    BY <1>d, <1>2, <1>3, <1>4, <1>5


\* A module without edges left has been in a queue, when the rounds are over.
LEMMA FreeModulesAreDone ==
  ASSUME NEW depends, Countable(depends), NEW N \in Nat, Cardinality(DOMAIN depends) = N,
         NEW D \in 0..N, D = Depth(depends), NEW m \in DOMAIN depends,
         Rounds(depends)[D].degree[m] = 0
  PROVE  m \in Done(depends, D)
  <1> DEFINE degree(n) == Rounds(depends)[n].degree[m]
             T == {n \in 0..D : degree(n) = 0}
  <1>0. T \in SUBSET Nat /\ D \in T
    OBVIOUS
  <1>1. PICK n \in T : \A k \in T : n <= k
    <2> HIDE DEF T
    <2> QED
      BY <1>0, LeastNumber
  <1>2. Rounds(depends) = [i \in 0..N |-> IF i = 0 THEN FirstRound(depends)
                                          ELSE NextRound(depends, Rounds(depends)[i - 1])]
    BY RoundsUnfold
  <1>3. CASE n = 0
    <2>1. Rounds(depends)[0] = FirstRound(depends)
      BY <1>2
    <2>2. m \in Rounds(depends)[0].queue
      BY <1>1, <1>3, <2>1 DEF FirstRound
    <2> QED
      BY <1>3, <2>2, DepthIsARound DEF Done
  <1>4. CASE n > 0
    <2>p. PICK p \in 0..N : p = n - 1
      BY <1>1, <1>4
    <2>1. n \in 0..N /\ n # 0
      BY <1>1, <1>4
    <2>2. Rounds(depends)[n] = NextRound(depends, Rounds(depends)[p])
      BY <1>2, <2>1, <2>p
    <2>3. degree(p) \in Nat
      <3>1. degree(p) = EdgesFrom(depends, m, DOMAIN depends \ Done(depends, p))
        BY KahnHolds DEF Kahn
      <3> QED
        BY <3>1, EdgesFinite
    <2>4. degree(p) # 0
      BY <1>1, <1>4, <2>p
    <2>5. degree(p) > 0 /\ degree(n) = 0
      BY <1>1, <2>3, <2>4
    <2>6. m \in Rounds(depends)[n].queue
      BY <2>2, <2>5 DEF NextRound
    <2>7. n # D
      BY <2>6, DepthIsARound
    <2>8. n \in 0..D - 1
      BY <1>1, <2>7
    <2> QED
      BY <2>6, <2>8 DEF Done
  <1> QED
    BY <1>1, <1>3, <1>4

\* ... and, when there is an order, every module is in one of them.
THEOREM EveryModuleHasALayer ==
  ASSUME NEW depends, Countable(depends), ~HasCycle(depends), NEW m \in DOMAIN depends
  PROVE  \E n \in DOMAIN Layers(depends) : m \in Layers(depends)[n]
  <1>n. PICK N \in Nat : N = Cardinality(DOMAIN depends)
    BY FS_CardinalityType DEF Countable
  <1>d. PICK D \in 0..N : D = Depth(depends)
    BY <1>n, DepthIsARound
  <1>1. Rounds(depends)[D].degree[m] = 0
    <2>1. Rounds(depends)[D].degree[m] = EdgesFrom(depends, m, DOMAIN depends \ Done(depends, D))
      BY <1>n, KahnHolds DEF Kahn
    <2>2. EdgesFrom(depends, m, DOMAIN depends \ Done(depends, D)) \in Nat
      BY EdgesFinite
    <2>3. ~(Rounds(depends)[D].degree[m] > 0)
      BY <1>d DEF HasCycle
    <2> QED
      BY <2>1, <2>2, <2>3
  <1>2. m \in Done(depends, D)
    BY <1>n, <1>d, <1>1, FreeModulesAreDone
  <1>3. PICK k \in 0..D - 1 : m \in Rounds(depends)[k].queue
    BY <1>2 DEF Done
  <1>4. k + 1 \in 1..D /\ (k + 1) - 1 = k
    BY <1>3
  <1>5. k + 1 \in DOMAIN Layers(depends) /\ Layers(depends)[k + 1] = Rounds(depends)[k].queue
    BY <1>d, <1>4 DEF Layers
  <1> QED
    BY <1>3, <1>5

\* Kahn's algorithm finds a cycle exactly when there is one: modules of which
\* each depends on one of them.
THEOREM CyclesAreFound ==
  ASSUME NEW depends, Countable(depends), ~UnknownDependency(depends)
  PROVE  HasCycle(depends) <=>
           \E S \in SUBSET DOMAIN depends :
             S # {} /\ \A m \in S : DependsOn(depends, m) \cap S # {}
  <1>n. PICK N \in Nat : N = Cardinality(DOMAIN depends)
    BY FS_CardinalityType DEF Countable
  <1>d. PICK D \in 0..N : D = Depth(depends)
    BY <1>n, DepthIsARound
  <1> DEFINE degree(m) == Rounds(depends)[D].degree[m]
             left == DOMAIN depends \ Done(depends, D)
  <1>1. \A m \in DOMAIN depends :
          degree(m) = EdgesFrom(depends, m, left) /\ degree(m) \in Nat
    <2>1. \A m \in DOMAIN depends : degree(m) = EdgesFrom(depends, m, left)
      BY <1>n, KahnHolds DEF Kahn
    <2> QED
      BY <2>1, EdgesFinite
  <1>2. ASSUME HasCycle(depends)
        PROVE  \E S \in SUBSET DOMAIN depends :
                 S # {} /\ \A m \in S : DependsOn(depends, m) \cap S # {}
    <2> DEFINE S == {m \in DOMAIN depends : degree(m) > 0}
    <2>1. S # {}
      BY <1>2, <1>d DEF HasCycle
    <2>2. ASSUME NEW m \in S
          PROVE  DependsOn(depends, m) \cap S # {}
      <3>1. Edges(depends, m, left) # {}
        <4>1. Cardinality(Edges(depends, m, left)) # 0
          BY <1>1 DEF EdgesFrom
        <4> QED
          BY <4>1, FS_EmptySet
      <3>2. PICK d \in left \cap DOMAIN depends[m] : {d} \X (1..depends[m][d]) # {}
        BY <3>1 DEF Edges
      <3>3. depends[m][d] \in Nat /\ 1..depends[m][d] # {}
        BY <3>2 DEF Countable
      <3>4. d \in DependsOn(depends, m)
        BY <3>2, <3>3 DEF DependsOn
      <3>5. degree(d) # 0
        BY <1>n, <1>d, <3>2, FreeModulesAreDone
      <3>6. d \in S
        BY <1>1, <3>2, <3>5
      <3> QED
        BY <3>4, <3>6
    <2> QED
      BY <2>1, <2>2
  <1>3. ASSUME NEW S \in SUBSET DOMAIN depends, S # {},
               \A m \in S : DependsOn(depends, m) \cap S # {}, ~HasCycle(depends)
        PROVE  FALSE
    <2> DEFINE T == {n \in DOMAIN Layers(depends) : Layers(depends)[n] \cap S # {}}
    <2>1. DOMAIN Layers(depends) = 1..D
      BY <1>d DEF Layers
    <2>2. T \in SUBSET Nat
      BY <2>1
    <2>3. T # {}
      BY <1>3, EveryModuleHasALayer
    <2>4. PICK n \in T : \A k \in T : n <= k
      <3> HIDE DEF T
      <3> QED
        BY <2>2, <2>3, LeastNumber
    <2>5. PICK m \in S : m \in Layers(depends)[n]
      BY <2>4
    <2>6. PICK d \in S : d \in DependsOn(depends, m)
      BY <1>3
    <2>7. PICK k \in 1..n - 1 : d \in Layers(depends)[k]
      BY <2>4, <2>5, <2>6, LayersAreInOrder
    <2>8. k \in T
      BY <2>1, <2>4, <2>6, <2>7
    <2> QED
      BY <2>1, <2>4, <2>7, <2>8
  <1> QED
    BY <1>2, <1>3


-----------------------------------------------------------------------------
(***************************************************************************)
(* The inductive invariant.  The rows that a request has loaded are never  *)
(* deleted; an execution runs and writes only its targets, which it has    *)
(* loaded, and they have an order.                                         *)
(***************************************************************************)
Requests == Update \cup Execution \cup {NoRequest}

ProjTypes ==
  /\ created \in BOOLEAN
  /\ config \in Configs \cup {NoConfig}
  /\ mods \in [Modules -> ModuleRow \cup {NoModule}]
  /\ projreq \in [ProjRequests -> Requests]
  /\ projServed \in 0..MaxProjServed
  /\ stale \subseteq Modules
  /\ configStale \in BOOLEAN

\* Every module that q depends on has been tried before the one it runs.
TriedFirst(q) ==
  (q.targets = DOMAIN q.seen /\ q.running # Nothing) =>
    \A d \in DependsOn(DependsOf(q.seen), q.running) : q.wrote[d] # "no"

ExecutionOK(q) ==
  /\ q.targets \subseteq DOMAIN q.seen
  /\ \A m \in Modules : q.wrote[m] # "no" => m \in q.targets
  /\ q.running \in q.targets \cup {Nothing}
  /\ Resolvable(DependsOf(q.seen))
  /\ TriedFirst(q)

RequestOK(q) ==
  /\ Executing(q) => ExecutionOK(q)
  /\ q # NoRequest => \A m \in DOMAIN q.seen : mods[m] # NoModule

ProjInv ==
  /\ ProjTypes
  /\ ~created => \A r \in ProjRequests : projreq[r] = NoRequest
  /\ \A r \in ProjRequests : RequestOK(projreq[r])
  /\ StatusMatchesLastRun
  /\ ModulesFollowConfig

-----------------------------------------------------------------------------
\* The three kinds of requests are told apart by what they do.
LEMMA RequestKinds ==
  ASSUME NEW q \in Requests
  PROVE  /\ Executing(q) => q \in Execution /\ q # NoRequest /\ q.op # "update"
         /\ q.op = "update" => q \in Update /\ q # NoRequest /\ ~Executing(q)
  BY DEF Requests, Update, Execution, NoRequest, Executing, Operations

\* What a request has loaded is about modules, and their dependencies can be
\* counted.
LEMMA LoadedIsCountable ==
  ASSUME NEW seen \in Loaded
  PROVE  /\ DOMAIN seen \in SUBSET Modules
         /\ \A m \in DOMAIN seen : seen[m] \in [status : ModuleStatus, depends : [Modules -> {0, 1}]]
         /\ DOMAIN DependsOf(seen) = DOMAIN seen
         /\ Countable(DependsOf(seen))
  <1>1. PICK S \in SUBSET Modules : seen \in [S -> [status : ModuleStatus, depends : [Modules -> {0, 1}]]]
    BY DEF Loaded
  <1>2. DOMAIN seen = S
    BY <1>1
  <1>3. DOMAIN DependsOf(seen) = S /\ \A m \in S : DependsOf(seen)[m] \in [Modules -> {0, 1}]
    BY <1>1 DEF DependsOf
  <1>4. IsFiniteSet(Modules) /\ IsFiniteSet(S)
    BY ModulesAssumption, FS_Subset
  <1>5. \A m \in S : IsFiniteSet(DOMAIN DependsOf(seen)[m])
                       /\ \A d \in DOMAIN DependsOf(seen)[m] : DependsOf(seen)[m][d] \in Nat
    BY <1>3, <1>4
  <1> QED
    BY <1>1, <1>2, <1>3, <1>4, <1>5 DEF Countable

\* The rows of the active modules are what a request loads.
LEMMA LoadLoads ==
  ASSUME ProjTypes
  PROVE  /\ Load \in Loaded /\ DOMAIN Load = Active(mods) /\ Active(mods) \subseteq Modules
         /\ \A m \in Active(mods) : mods[m] \in ModuleRow /\ mods[m] # NoModule
  <1>1. \A m \in Active(mods) : mods[m] \in ModuleRow /\ mods[m] # NoModule
    BY DEF ProjTypes, Active, NoModule
  <1>2. Active(mods) \in SUBSET Modules
    BY DEF Active
  <1>3. Load \in [Active(mods) -> [status : ModuleStatus, depends : [Modules -> {0, 1}]]]
    BY <1>1 DEF Load, ModuleRow
  <1>4. Load \in Loaded
    BY <1>2, <1>3 DEF Loaded
  <1> QED
    BY <1>1, <1>2, <1>3, <1>4

\* A row of the table is no missing row.
LEMMA RowsAreRows ==
  ASSUME NEW row \in ModuleRow
  PROVE  row # NoModule /\ row.status # "absent"
  BY DEF ModuleRow, ModuleStatus, NoModule

\* The row of a new module of a configuration.
LEMMA NewRows ==
  ASSUME NEW c \in Configs, NEW m \in DOMAIN c.depends
  PROVE  /\ m \in Modules /\ NewModule(c, m) \in ModuleRow
         /\ NewModule(c, m).status = "pending" /\ NewModule(c, m).run = NoRun
  BY ConfigAssumption DEF NewModule, ModuleRow, ModuleStatus, LastRun


\* The loads of requests are of modules.
LEMMA SeenAreModules ==
  ASSUME NEW q \in Requests, q # NoRequest
  PROVE  q.seen \in Loaded /\ DOMAIN q.seen \in SUBSET Modules
  <1>1. q.seen \in Loaded
    BY DEF Requests, Update, Execution
  <1> QED
    BY <1>1, LoadedIsCountable

\* A request that goes on leaves the others as they are.
LEMMA OthersKeep ==
  ASSUME ProjInv, NEW r \in ProjRequests, NEW q \in Requests,
         projreq' = [projreq EXCEPT ![r] = q], RequestOK(q)',
         \A m \in Modules : mods[m] # NoModule => mods'[m] # NoModule
  PROVE  /\ projreq' \in [ProjRequests -> Requests]
         /\ \A s \in ProjRequests : RequestOK(projreq[s])'
  <1>1. projreq' \in [ProjRequests -> Requests] /\ projreq'[r] = q
        /\ \A s \in ProjRequests \ {r} : projreq'[s] = projreq[s]
    BY DEF ProjInv, ProjTypes
  <1>2. RequestOK(projreq[r])'
    BY <1>1 DEF RequestOK
  <1>3. ASSUME NEW s \in ProjRequests \ {r}
        PROVE  RequestOK(projreq[s])'
    <2>1. projreq[s] \in Requests /\ RequestOK(projreq[s])
      BY DEF ProjInv, ProjTypes
    <2>2. projreq[s] # NoRequest => DOMAIN projreq[s].seen \in SUBSET Modules
      BY <2>1, SeenAreModules
    <2> QED
      BY <1>1, <2>1, <2>2 DEF RequestOK
  <1> QED
    BY <1>1, <1>2, <1>3

\* The properties of the rows are kept by what leaves the rows alone.
LEMMA RowsKeep ==
  ASSUME ProjInv, UNCHANGED <<created, config, mods, stale, configStale>>
  PROVE  (StatusMatchesLastRun /\ ModulesFollowConfig)'
  BY DEF ProjInv, StatusMatchesLastRun, ModulesFollowConfig, Active

LEMMA NoRequestIsOK ==
  ASSUME TRUE
  PROVE  NoRequest \in Requests /\ RequestOK(NoRequest)'
  BY DEF RequestOK, NoRequest, Executing, Operations, Requests

LEMMA CreateProjectKeeps ==
  ASSUME ProjInv, NEW c \in Configs, NEW w \in BOOLEAN, CreateProject(c, w)
  PROVE  ProjInv'
  <1>1. /\ ~created /\ created' = TRUE /\ config' = c
        /\ mods' = [m \in Modules |-> IF m \in DOMAIN c.depends THEN NewModule(c, m) ELSE NoModule]
        /\ UNCHANGED <<projreq, projServed, stale, configStale>>
    BY DEF CreateProject
  <1>2. DOMAIN c.depends \subseteq Modules
    BY ConfigAssumption
  <1>3. \A m \in Modules :
          mods'[m] = IF m \in DOMAIN c.depends THEN NewModule(c, m) ELSE NoModule
    BY <1>1
  <1>4. mods' \in [Modules -> ModuleRow \cup {NoModule}]
    BY <1>1, NewRows
  <1>5. NoModule.run = NoRun /\ NoModule.status = "absent"
    BY DEF NoModule
  <1>6. StatusMatchesLastRun'
    BY <1>3, <1>5, NewRows DEF StatusMatchesLastRun
  <1>7. Active(mods') = DOMAIN c.depends
    BY <1>2, <1>3, <1>5, NewRows DEF Active
  <1>8. ModulesFollowConfig'
    BY <1>1, <1>7 DEF ModulesFollowConfig
  <1>9. \A r \in ProjRequests : RequestOK(projreq[r])'
    <2> SUFFICES ASSUME NEW r \in ProjRequests
                 PROVE  RequestOK(projreq[r])'
      OBVIOUS
    <2>1. projreq'[r] = NoRequest
      BY <1>1 DEF ProjInv
    <2> QED
      BY <2>1 DEF RequestOK, NoRequest, Executing, Operations
  <1> QED
    BY <1>1, <1>4, <1>6, <1>8, <1>9 DEF ProjInv, ProjTypes


LEMMA UpdateLoadKeeps ==
  ASSUME ProjInv, NEW r \in ProjRequests, NEW c \in Configs, UpdateLoad(r, c)
  PROVE  ProjInv'
  <1>q. PICK q : q = [op |-> "update", config |-> c, was |-> config, seen |-> Load]
    OBVIOUS
  <1>1. /\ created /\ projServed < MaxProjServed /\ projServed' = projServed + 1
        /\ projreq' = [projreq EXCEPT ![r] = q]
        /\ UNCHANGED <<created, config, mods, stale, configStale>>
    BY <1>q DEF UpdateLoad, Arrives
  <1>2. q \in Update /\ q.op = "update" /\ q.seen = Load
    BY <1>q, LoadLoads DEF Update, ProjInv, ProjTypes
  <1>3. \A m \in DOMAIN q.seen : mods[m] # NoModule
    BY <1>2, LoadLoads DEF ProjInv
  <1>4. q \in Requests /\ RequestOK(q)'
    BY <1>1, <1>2, <1>3 DEF Requests, RequestOK, Executing, Operations
  <1>5. projreq' \in [ProjRequests -> Requests] /\ \A s \in ProjRequests : RequestOK(projreq[s])'
    BY <1>1, <1>4, OthersKeep
  <1>6. projServed' \in 0..MaxProjServed
    BY <1>1, MaxProjServedAssumption DEF ProjInv, ProjTypes
  <1> QED
    BY <1>1, <1>5, <1>6, RowsKeep DEF ProjInv, ProjTypes

LEMMA UpdateFailsOrAbortsKeeps ==
  ASSUME ProjInv, NEW r \in ProjRequests, UpdateFails(r) \/ ExecuteAborts(r)
  PROVE  ProjInv'
  <1>1. /\ projreq' = [projreq EXCEPT ![r] = NoRequest]
        /\ UNCHANGED <<created, config, mods, projServed, stale, configStale>>
    BY DEF UpdateFails, ExecuteAborts
  <1>2. projreq' \in [ProjRequests -> Requests] /\ \A s \in ProjRequests : RequestOK(projreq[s])'
    BY <1>1, NoRequestIsOK, OthersKeep
  <1>3. ~created' => \A s \in ProjRequests : projreq'[s] = NoRequest
    BY <1>1 DEF ProjInv, ProjTypes
  <1> QED
    BY <1>1, <1>2, <1>3, RowsKeep DEF ProjInv, ProjTypes

\* What the synchronisation makes of a row: it stays a row, it tells of the
\* same last run and has its status unless it is new or removed, and it is
\* active exactly when the configuration has it - of the rows that were loaded.
LEMMA SyncedRows ==
  ASSUME ProjTypes, NEW q \in Update, ~NameTaken(q), NEW m \in Modules,
         m \in DOMAIN q.seen => mods[m] # NoModule
  PROVE  /\ Synced(q, m) \in ModuleRow \cup {NoModule}
         /\ mods[m] # NoModule => Synced(q, m) # NoModule
         /\ \/ Synced(q, m).run = NoRun
            \/ Synced(q, m).status = "removed"
            \/ Synced(q, m).run = mods[m].run /\ Synced(q, m).status = mods[m].status
         /\ DOMAIN q.seen = Active(mods) =>
              (Synced(q, m).status \notin {"absent", "removed"} <=> m \in DOMAIN q.config.depends)
  <1>1. q.config \in Configs /\ mods[m] \in ModuleRow \cup {NoModule}
    BY DEF Update, ProjTypes
  <1>2. CASE m \in DOMAIN q.config.depends /\ m \in DOMAIN q.seen
    <2>p. PICK x : x = Flushed(q.config.depends[m], q.seen[m].depends, mods[m].depends)
      OBVIOUS
    <2>1. mods[m] \in ModuleRow
      BY <1>1, <1>2
    <2>2. q.config.depends[m] \in [Modules -> {0, 1}] /\ x \in [Modules -> {0, 1}]
      BY <1>1, <1>2, <2>1, <2>p, ConfigAssumption DEF Flushed, ModuleRow
    <2> DEFINE new == [mods[m] EXCEPT !.depends = x]
    <2>3. new \in ModuleRow /\ new.run = mods[m].run /\ new.status = mods[m].status
      BY <2>1, <2>2 DEF ModuleRow
    <2>4. Synced(q, m) = new
      BY <1>2, <2>p DEF Synced
    <2> HIDE DEF new
    <2> QED
      BY <1>2, <2>3, <2>4, RowsAreRows DEF Active
  <1>3. CASE m \in DOMAIN q.config.depends /\ m \notin DOMAIN q.seen
    <2>1. Synced(q, m) = NewModule(q.config, m) /\ mods[m] = NoModule
      BY <1>3 DEF Synced, NameTaken
    <2> QED
      BY <1>1, <1>3, <2>1, NewRows
  <1>4. CASE m \notin DOMAIN q.config.depends /\ m \in DOMAIN q.seen
    <2> DEFINE new == [mods[m] EXCEPT !.status = "removed"]
    <2>1. mods[m] \in ModuleRow
      BY <1>1, <1>4
    <2>2. new \in ModuleRow /\ new.status = "removed"
      BY <2>1 DEF ModuleRow, ModuleStatus
    <2>3. Synced(q, m) = new
      BY <1>4 DEF Synced
    <2> HIDE DEF new
    <2> QED
      BY <1>4, <2>2, <2>3, RowsAreRows
  <1>5. CASE m \notin DOMAIN q.config.depends /\ m \notin DOMAIN q.seen
    <2>1. Synced(q, m) = mods[m]
      BY <1>5 DEF Synced
    <2> QED
      BY <1>1, <1>5, <2>1 DEF Active
  <1> QED
    BY <1>2, <1>3, <1>4, <1>5

LEMMA UpdateCommitKeeps ==
  ASSUME ProjInv, NEW r \in ProjRequests, UpdateCommit(r)
  PROVE  ProjInv'
  <1>0. projreq[r] \in Requests /\ projreq[r].op = "update" /\ RequestOK(projreq[r])
    BY DEF UpdateCommit, ProjInv, ProjTypes
  <1>q. PICK q \in Update : q = projreq[r]
    BY <1>0, RequestKinds
  <1>1. /\ ~NameTaken(q)
        /\ config' = Flushed(q.config, q.was, config)
        /\ mods' = [m \in Modules |-> IF q.config.blank THEN mods[m] ELSE Synced(q, m)]
        /\ configStale' = IF q.config.blank THEN configStale
                          ELSE Active(mods) # DOMAIN q.seen \/ config # q.was
        /\ projreq' = [projreq EXCEPT ![r] = NoRequest]
        /\ UNCHANGED <<created, projServed, stale>>
    BY <1>q DEF UpdateCommit
  <1>2. /\ q # NoRequest /\ \A m \in DOMAIN q.seen : mods[m] # NoModule
        /\ q.config \in Configs /\ q.config.blank \in BOOLEAN
        /\ DOMAIN q.seen \subseteq Modules /\ DOMAIN q.config.depends \subseteq Modules
    <2>1. q # NoRequest /\ q \in Requests
      BY <1>0, <1>q, RequestKinds
    <2>2. q.config \in Configs
      BY DEF Update
    <2> QED
      BY <1>0, <1>q, <2>1, <2>2, SeenAreModules, ConfigAssumption DEF RequestOK
  <1>3. \A m \in Modules : mods'[m] = IF q.config.blank THEN mods[m] ELSE Synced(q, m)
    BY <1>1
  <1>s. \A m \in Modules :
          /\ Synced(q, m) \in ModuleRow \cup {NoModule}
          /\ mods[m] # NoModule => Synced(q, m) # NoModule
          /\ \/ Synced(q, m).run = NoRun
             \/ Synced(q, m).status = "removed"
             \/ Synced(q, m).run = mods[m].run /\ Synced(q, m).status = mods[m].status
          /\ DOMAIN q.seen = Active(mods) =>
               (Synced(q, m).status \notin {"absent", "removed"} <=> m \in DOMAIN q.config.depends)
    BY <1>1, <1>2, SyncedRows DEF ProjInv
  <1>4. mods' \in [Modules -> ModuleRow \cup {NoModule}]
    <2>1. \A m \in Modules : mods[m] \in ModuleRow \cup {NoModule}
      BY DEF ProjInv, ProjTypes
    <2> QED
      BY <1>1, <1>s, <2>1
  <1>5. \A m \in Modules : mods[m] # NoModule => mods'[m] # NoModule
    BY <1>3, <1>s
  <1>6. projreq' \in [ProjRequests -> Requests] /\ \A s \in ProjRequests : RequestOK(projreq[s])'
    BY <1>1, <1>5, NoRequestIsOK, OthersKeep
  <1>7. config' \in Configs \cup {NoConfig} /\ configStale' \in BOOLEAN
    BY <1>1, <1>2 DEF Flushed, ProjInv, ProjTypes
  <1>8. StatusMatchesLastRun'
    BY <1>1, <1>3, <1>s DEF ProjInv, StatusMatchesLastRun
  <1>9. ModulesFollowConfig'
    <2> SUFFICES ASSUME created, ~config'.blank, ~configStale'
                 PROVE  Active(mods') = DOMAIN config'.depends
      BY <1>1 DEF ModulesFollowConfig
    <2>1. CASE q.config.blank
      <3>1. config' = config /\ ~configStale
        BY <1>1, <2>1 DEF Flushed
      <3>2. Active(mods) = DOMAIN config.depends
        BY <3>1 DEF ProjInv, ModulesFollowConfig
      <3>3. Active(mods') = Active(mods)
        BY <1>3, <2>1 DEF Active
      <3> QED
        BY <3>1, <3>2, <3>3
    <2>2. CASE ~q.config.blank
      <3>1. config' = q.config /\ DOMAIN q.seen = Active(mods)
        BY <1>1, <2>2 DEF Flushed
      <3>2. \A m \in Modules : mods'[m].status \notin {"absent", "removed"}
                                 <=> m \in DOMAIN q.config.depends
        BY <1>3, <1>s, <2>2, <3>1
      <3> QED
        BY <1>2, <3>1, <3>2 DEF Active
    <2> QED
      BY <2>1, <2>2
  <1>10. ~created' => \A s \in ProjRequests : projreq'[s] = NoRequest
    BY <1>1 DEF ProjInv, ProjTypes
  <1> QED
    BY <1>1, <1>4, <1>6, <1>7, <1>8, <1>9, <1>10 DEF ProjInv, ProjTypes


LEMMA ExecuteLoadKeeps ==
  ASSUME ProjInv, NEW r \in ProjRequests, NEW op \in Operations, NEW targets \in SUBSET Modules,
         ExecuteLoad(r, op, targets)
  PROVE  ProjInv'
  <1>q. PICK q : q = [ op |-> op, seen |-> Load, targets |-> targets \cap Active(mods),
                       running |-> Nothing, wrote |-> [m \in Modules |-> "no"] ]
    OBVIOUS
  <1>1. /\ created /\ projServed < MaxProjServed /\ projServed' = projServed + 1
        /\ projreq' = [projreq EXCEPT ![r] = q]
        /\ Resolvable(DependsOf(Load))
        /\ UNCHANGED <<created, config, mods, stale, configStale>>
    BY <1>q DEF ExecuteLoad, Arrives
  <1>2. /\ q \in Execution /\ q.op = op /\ q.seen = Load /\ q.running = Nothing
        /\ q.targets \subseteq Active(mods) /\ \A m \in Modules : q.wrote[m] = "no"
    BY <1>q, LoadLoads DEF Execution, ProjInv
  <1>3. DOMAIN q.seen = Active(mods) /\ \A m \in DOMAIN q.seen : mods[m] # NoModule
    BY <1>2, LoadLoads DEF ProjInv
  <1>4. ExecutionOK(q)
    BY <1>1, <1>2, <1>3 DEF ExecutionOK, TriedFirst
  <1>5. q \in Requests /\ RequestOK(q)'
    BY <1>1, <1>2, <1>3, <1>4 DEF Requests, RequestOK
  <1>6. projreq' \in [ProjRequests -> Requests] /\ \A s \in ProjRequests : RequestOK(projreq[s])'
    BY <1>1, <1>5, OthersKeep
  <1>7. projServed' \in 0..MaxProjServed
    BY <1>1, MaxProjServedAssumption DEF ProjInv, ProjTypes
  <1> QED
    BY <1>1, <1>6, <1>7, RowsKeep DEF ProjInv, ProjTypes

\* What may run next is due, and when all modules are to run everything it
\* depends on has been tried.
LEMMA ReadyIsDue ==
  ASSUME NEW q \in Execution, ExecutionOK(q), NEW m \in Ready(q)
  PROVE  /\ m \in q.targets
         /\ q.targets = DOMAIN q.seen =>
              \A d \in DependsOn(DependsOf(q.seen), m) : q.wrote[d] # "no"
  <1> DEFINE depends == DependsOf(q.seen)
             layers == Layers(depends)
  <1>1. q.seen \in Loaded /\ q.targets \subseteq Modules
    BY DEF Execution
  <1>2. /\ DOMAIN depends = DOMAIN q.seen /\ Countable(depends)
        /\ ~UnknownDependency(depends)
    BY <1>1, LoadedIsCountable DEF ExecutionOK, Resolvable
  <1>3. PICK n \in DOMAIN layers :
          m \in layers[n] \cap Due(q) /\ \A i \in 1..n - 1 : layers[i] \cap Due(q) = {}
    BY DEF Ready
  <1>4. m \in q.targets
    BY <1>3 DEF Due
  <1>5. ASSUME q.targets = DOMAIN q.seen, NEW d \in DependsOn(depends, m)
        PROVE  q.wrote[d] # "no"
    <2>1. PICK i \in 1..n - 1 : d \in layers[i]
      BY <1>2, <1>3, LayersAreInOrder
    <2>2. d \notin Due(q)
      BY <1>3, <2>1
    <2>3. d \in DOMAIN depends
      BY <1>2, <1>3, LayersAreInOrder DEF UnknownDependency
    <2> QED
      BY <1>2, <1>5, <2>2, <2>3 DEF Due
  <1> QED
    BY <1>4, <1>5

LEMMA RunModuleKeeps ==
  ASSUME ProjInv, NEW r \in ProjRequests, NEW m \in Modules, RunModule(r, m)
  PROVE  ProjInv'
  <1>0. projreq[r] \in Requests /\ Executing(projreq[r]) /\ RequestOK(projreq[r])
    BY DEF RunModule, ProjInv, ProjTypes
  <1>q. PICK q \in Execution : q = projreq[r]
    BY <1>0, RequestKinds
  <1>n. PICK new : new = [q EXCEPT !.running = m]
    OBVIOUS
  <1>1. /\ Executing(q) /\ m \in Ready(q)
        /\ projreq' = [projreq EXCEPT ![r] = new]
        /\ UNCHANGED <<created, config, mods, projServed, stale, configStale>>
    BY <1>q, <1>n DEF RunModule
  <1>2. /\ new \in Execution /\ new.op = q.op /\ new.seen = q.seen /\ new.targets = q.targets
        /\ new.running = m /\ new.wrote = q.wrote
    BY <1>n DEF Execution
  <1>3. ExecutionOK(q) /\ q # NoRequest /\ \A x \in DOMAIN q.seen : mods[x] # NoModule
    BY <1>0, <1>q, RequestKinds DEF RequestOK
  <1>4. ExecutionOK(new)
    BY <1>1, <1>2, <1>3, ReadyIsDue DEF ExecutionOK, TriedFirst
  <1>5. new \in Requests /\ RequestOK(new)'
    BY <1>1, <1>2, <1>3, <1>4 DEF Requests, RequestOK
  <1>6. projreq' \in [ProjRequests -> Requests] /\ \A s \in ProjRequests : RequestOK(projreq[s])'
    BY <1>1, <1>5, OthersKeep
  <1>7. created
    BY <1>0, <1>3, <1>q DEF ProjInv
  <1> QED
    BY <1>1, <1>6, <1>7, RowsKeep DEF ProjInv, ProjTypes

LEMMA ModuleEndsKeeps ==
  ASSUME ProjInv, NEW r \in ProjRequests, NEW ended \in {"ok", "failed"}, ModuleEnds(r, ended)
  PROVE  ProjInv'
  <1>0. projreq[r] \in Requests /\ Executing(projreq[r]) /\ RequestOK(projreq[r])
    BY DEF ModuleEnds, ProjInv, ProjTypes
  <1>q. PICK q \in Execution : q = projreq[r]
    BY <1>0, RequestKinds
  <1>n. PICK new : new = [q EXCEPT !.wrote[q.running] = ended, !.running = Nothing]
    OBVIOUS
  <1>1. /\ Executing(q) /\ q.running # Nothing
        /\ projreq' = [projreq EXCEPT ![r] = new]
        /\ UNCHANGED <<created, config, mods, projServed, stale, configStale>>
    BY <1>q, <1>n DEF ModuleEnds
  <1>m. PICK m \in Modules : m = q.running
    BY <1>1 DEF Execution
  <1>2. /\ new \in Execution /\ new.op = q.op /\ new.seen = q.seen /\ new.targets = q.targets
        /\ new.running = Nothing /\ new.wrote = [q.wrote EXCEPT ![m] = ended]
    BY <1>n, <1>m DEF Execution
  <1>3. ExecutionOK(q) /\ q # NoRequest /\ \A x \in DOMAIN q.seen : mods[x] # NoModule
    BY <1>0, <1>q, RequestKinds DEF RequestOK
  <1>4. m \in q.targets
    BY <1>1, <1>3, <1>m DEF ExecutionOK
  <1>5. \A x \in Modules : new.wrote[x] # "no" => x \in new.targets
    <2>1. q.wrote \in [Modules -> {"no", "ok", "failed"}]
      BY DEF Execution
    <2> QED
      BY <1>2, <1>3, <1>4, <2>1 DEF ExecutionOK
  <1>6. ExecutionOK(new)
    BY <1>2, <1>3, <1>5 DEF ExecutionOK, TriedFirst
  <1>7. new \in Requests /\ RequestOK(new)'
    BY <1>1, <1>2, <1>3, <1>6 DEF Requests, RequestOK
  <1>8. projreq' \in [ProjRequests -> Requests] /\ \A s \in ProjRequests : RequestOK(projreq[s])'
    BY <1>1, <1>7, OthersKeep
  <1>9. created
    BY <1>0, <1>3, <1>q DEF ProjInv
  <1> QED
    BY <1>1, <1>8, <1>9, RowsKeep DEF ProjInv, ProjTypes

\* The row an execution leaves: its status tells how the run ended, unless the
\* status had changed since it was loaded.
LEMMA WrittenRows ==
  ASSUME ProjTypes, NEW q \in Execution, NEW m \in Modules, mods[m] # NoModule, q.wrote[m] # "no"
  PROVE  /\ Written(q, m) \in ModuleRow
         /\ Written(q, m).run.op = q.op /\ (Written(q, m).run.ok <=> q.wrote[m] = "ok")
         /\ mods[m].status = q.seen[m].status =>
              Written(q, m).status = StatusAfter(q.op, q.wrote[m])
  <1>1. mods[m] \in ModuleRow /\ q.op \in Operations
    BY DEF ProjTypes, Execution
  <1>b. PICK b \in BOOLEAN : b <=> q.wrote[m] = "ok"
    OBVIOUS
  <1>x. PICK run : run = [op |-> q.op, ok |-> b]
    OBVIOUS
  <1>s. PICK s : s = Flushed(StatusAfter(q.op, q.wrote[m]), q.seen[m].status, mods[m].status)
    OBVIOUS
  <1>2. run \in LastRun /\ run.op = q.op /\ (run.ok <=> b)
    BY <1>1, <1>x DEF LastRun
  <1>3. s \in ModuleStatus
    BY <1>1, <1>s DEF Flushed, StatusAfter, ModuleRow, ModuleStatus
  <1> DEFINE one == [mods[m] EXCEPT !.run = run]
             two == [one EXCEPT !.status = s]
  <1>4. one \in ModuleRow /\ one.run = run /\ one.status = mods[m].status
    BY <1>1, <1>2 DEF ModuleRow
  <1> HIDE DEF one
  <1>5. two \in ModuleRow /\ two.run = run /\ two.status = s
    BY <1>3, <1>4 DEF ModuleRow
  <1>6. Written(q, m) = two
    <2>1. [op |-> q.op, ok |-> q.wrote[m] = "ok"] = run
      <3>1. (q.wrote[m] = "ok") = b
        BY <1>b
      <3> QED
        BY <1>x, <3>1
    <2>2. Written(q, m) = [mods[m] EXCEPT !.run = run, !.status = s]
      BY <1>s, <2>1 DEF Written
    <2> QED
      BY <2>2 DEF one
  <1> HIDE DEF two
  <1> QED
    BY <1>2, <1>5, <1>6, <1>b, <1>s DEF Flushed


LEMMA ExecuteCommitKeeps ==
  ASSUME ProjInv, NEW r \in ProjRequests, ExecuteCommit(r)
  PROVE  ProjInv'
  <1>0. projreq[r] \in Requests /\ Executing(projreq[r]) /\ RequestOK(projreq[r])
    BY DEF ExecuteCommit, ProjInv, ProjTypes
  <1>q. PICK q \in Execution : q = projreq[r]
    BY <1>0, RequestKinds
  <1>r. PICK rows \in SUBSET Modules : rows = {m \in Modules : q.wrote[m] # "no"}
    OBVIOUS
  <1>w. PICK written : written = [m \in Modules |-> IF m \in rows THEN Written(q, m) ELSE mods[m]]
    OBVIOUS
  <1>1. /\ mods' = written
        /\ stale' = (stale \ rows) \cup {m \in rows : mods[m].status # q.seen[m].status}
        /\ configStale' = (configStale \/ Active(written) # Active(mods))
        /\ projreq' = [projreq EXCEPT ![r] = NoRequest]
        /\ UNCHANGED <<created, config, projServed>>
    BY <1>q, <1>r, <1>w DEF ExecuteCommit
  <1>2. q # NoRequest /\ ExecutionOK(q) /\ \A m \in DOMAIN q.seen : mods[m] # NoModule
    BY <1>0, <1>q, RequestKinds DEF RequestOK
  <1>3. \A m \in rows : q.wrote[m] \in {"ok", "failed"} /\ mods[m] # NoModule
    BY <1>2, <1>r DEF ExecutionOK, Execution
  <1>4. \A m \in Modules : mods'[m] = IF m \in rows THEN Written(q, m) ELSE mods[m]
    BY <1>1, <1>w
  <1>5. \A m \in rows :
          /\ Written(q, m) \in ModuleRow /\ Written(q, m) # NoModule
          /\ Written(q, m).run.op = q.op /\ (Written(q, m).run.ok <=> q.wrote[m] = "ok")
          /\ mods[m].status = q.seen[m].status =>
               Written(q, m).status = StatusAfter(q.op, q.wrote[m])
    BY <1>3, WrittenRows, RowsAreRows DEF ProjInv
  <1>6. mods' \in [Modules -> ModuleRow \cup {NoModule}]
    <2>1. \A m \in Modules : mods[m] \in ModuleRow \cup {NoModule}
      BY DEF ProjInv, ProjTypes
    <2> QED
      BY <1>1, <1>w, <1>5, <2>1
  <1>7. \A m \in Modules : mods[m] # NoModule => mods'[m] # NoModule
    BY <1>4, <1>5
  <1>8. projreq' \in [ProjRequests -> Requests] /\ \A s \in ProjRequests : RequestOK(projreq[s])'
    BY <1>1, <1>7, NoRequestIsOK, OthersKeep
  <1>9. stale' \subseteq Modules
    BY <1>1 DEF ProjInv, ProjTypes
  <1>10. StatusMatchesLastRun'
    <2> SUFFICES ASSUME NEW m \in Modules, mods'[m].run # NoRun, mods'[m].status # "removed",
                        m \notin stale'
                 PROVE  /\ mods'[m].status = "failed" <=> ~mods'[m].run.ok
                        /\ mods'[m].status = "planned" => mods'[m].run.op = "plan"
                        /\ mods'[m].status = "applied" => mods'[m].run.op = "apply"
      BY DEF StatusMatchesLastRun
    <2>1. CASE m \in rows
      <3>1. mods'[m].status = StatusAfter(q.op, q.wrote[m])
        BY <1>1, <1>4, <1>5, <2>1
      <3>2. mods'[m].run.op = q.op /\ (mods'[m].run.ok <=> q.wrote[m] = "ok")
        BY <1>4, <1>5, <2>1
      <3>3. q.op \in {"plan", "apply"} /\ q.wrote[m] \in {"ok", "failed"}
        BY <1>3, <2>1 DEF Execution, Operations
      <3> QED
        BY <3>1, <3>2, <3>3 DEF StatusAfter
    <2>2. CASE m \notin rows
      <3>1. mods'[m] = mods[m] /\ m \notin stale
        BY <1>1, <1>4, <2>2
      <3> QED
        BY <3>1 DEF ProjInv, StatusMatchesLastRun
    <2> QED
      BY <2>1, <2>2
  <1>11. ModulesFollowConfig'
    BY <1>1 DEF ProjInv, ModulesFollowConfig
  <1>12. configStale' \in BOOLEAN /\ created
    BY <1>0, <1>1, <1>2, <1>q DEF ProjInv, ProjTypes
  <1> QED
    BY <1>1, <1>6, <1>8, <1>9, <1>10, <1>11, <1>12 DEF ProjInv, ProjTypes

-----------------------------------------------------------------------------
(***************************************************************************)
(* The theorems.                                                           *)
(***************************************************************************)
\* The invariant holds of a project that does not exist yet and every action
\* keeps it.
THEOREM ProjInvariance == ProjSpec => []ProjInv
  <1>1. ProjInit => ProjInv
    <2> SUFFICES ASSUME ProjInit
                 PROVE  ProjInv
      OBVIOUS
    <2>1. ProjTypes
      <3>1. mods \in [Modules -> ModuleRow \cup {NoModule}] /\ projreq \in [ProjRequests -> Requests]
        BY DEF ProjInit, Requests
      <3>2. projServed \in 0..MaxProjServed
        BY MaxProjServedAssumption DEF ProjInit
      <3> QED
        BY <3>1, <3>2 DEF ProjInit, ProjTypes
    <2>2. \A r \in ProjRequests : RequestOK(projreq[r])
      BY DEF ProjInit, RequestOK, Executing, Operations, NoRequest
    <2>3. StatusMatchesLastRun /\ ModulesFollowConfig
      BY DEF ProjInit, StatusMatchesLastRun, ModulesFollowConfig, NoModule
    <2> QED
      BY <2>1, <2>2, <2>3 DEF ProjInv, ProjInit
  <1>2. ProjInv /\ [ProjNext]_projVars => ProjInv'
    <2> SUFFICES ASSUME ProjInv, [ProjNext]_projVars
                 PROVE  ProjInv'
      OBVIOUS
    <2>1. CASE \E c \in Configs, w \in BOOLEAN : CreateProject(c, w)
      BY <2>1, CreateProjectKeeps
    <2>2. ASSUME NEW r \in ProjRequests,
                 \/ \E c \in Configs : UpdateLoad(r, c)
                 \/ UpdateCommit(r) \/ UpdateFails(r)
                 \/ \E op \in Operations, targets \in SUBSET Modules : ExecuteLoad(r, op, targets)
                 \/ \E m \in Modules : RunModule(r, m)
                 \/ \E ended \in {"ok", "failed"} : ModuleEnds(r, ended)
                 \/ ExecuteCommit(r) \/ ExecuteAborts(r)
          PROVE  ProjInv'
      BY <2>2, UpdateLoadKeeps, UpdateCommitKeeps, UpdateFailsOrAbortsKeeps, ExecuteLoadKeeps,
         RunModuleKeeps, ModuleEndsKeeps, ExecuteCommitKeeps
    <2>3. CASE UNCHANGED projVars
      <3>1. UNCHANGED <<created, config, mods, projreq, projServed, stale, configStale>>
        BY <2>3 DEF projVars
      <3>2. \A r \in ProjRequests : RequestOK(projreq[r])'
        BY <3>1 DEF ProjInv, RequestOK
      <3> QED
        BY <3>1, <3>2, RowsKeep DEF ProjInv, ProjTypes
    <2> QED
      BY <2>1, <2>2, <2>3 DEF ProjNext
  <1> QED
    BY <1>1, <1>2, PTL DEF ProjSpec

\* The rows of the project, its configuration and the requests under way are
\* always of their types.
THEOREM ProjTypesHold == ProjSpec => []ProjTypeOK
  <1>1. ProjInv => ProjTypeOK
    BY DEF ProjInv, ProjTypes, ProjTypeOK, Requests
  <1> QED
    BY <1>1, ProjInvariance, PTL

\* An execution of a whole project runs a module only after everything it
\* depends on, for every graph of dependencies (execute_project,
\* resolve_execution_order).
THEOREM DependenciesFirstAlways == ProjSpec => []DependenciesFirst
  <1>1. ProjInv => DependenciesFirst
    BY DEF ProjInv, RequestOK, ExecutionOK, TriedFirst, DependenciesFirst
  <1> QED
    BY <1>1, ProjInvariance, PTL

\* The status of a module and its last run agree (execute_module).
THEOREM StatusMatchesLastRunAlways == ProjSpec => []StatusMatchesLastRun
  <1>1. ProjInv => StatusMatchesLastRun
    BY DEF ProjInv
  <1> QED
    BY <1>1, ProjInvariance, PTL

\* The active modules are those of the configuration (_sync_modules).
THEOREM ModulesFollowConfigAlways == ProjSpec => []ModulesFollowConfig
  <1>1. ProjInv => ModulesFollowConfig
    BY DEF ProjInv
  <1> QED
    BY <1>1, ProjInvariance, PTL

\* An execution never gets stuck between two modules: while any of those it
\* is to run is due, one may be run.
THEOREM ExecutionAdvancesAlways == ProjSpec => []ExecutionAdvances
  <1>1. ASSUME ProjInv, NEW r \in ProjRequests, Executing(projreq[r]), Due(projreq[r]) # {}
        PROVE  Ready(projreq[r]) # {}
    <2>0. projreq[r] \in Requests /\ RequestOK(projreq[r])
      BY <1>1 DEF ProjInv, ProjTypes
    <2>q. PICK q \in Execution : q = projreq[r]
      BY <1>1, <2>0, RequestKinds
    <2> DEFINE depends == DependsOf(q.seen)
               layers == Layers(depends)
               T == {n \in DOMAIN layers : layers[n] \cap Due(q) # {}}
    <2>1. ExecutionOK(q) /\ q.seen \in Loaded
      BY <1>1, <2>0, <2>q DEF RequestOK, Execution
    <2>2. /\ DOMAIN depends = DOMAIN q.seen /\ Countable(depends)
          /\ ~UnknownDependency(depends) /\ ~HasCycle(depends)
      BY <2>1, LoadedIsCountable DEF ExecutionOK, Resolvable
    <2>3. Due(q) # {} /\ Due(q) \subseteq DOMAIN depends
      BY <1>1, <2>q, <2>1, <2>2 DEF Due, ExecutionOK
    <2>4. DOMAIN layers = 1..Depth(depends) /\ Depth(depends) \in Nat
      BY <2>2, LayersAreInOrder DEF Layers
    <2>5. T \in SUBSET Nat /\ T # {}
      BY <2>2, <2>3, <2>4, EveryModuleHasALayer
    <2>6. PICK n \in T : \A k \in T : n <= k
      <3> HIDE DEF T
      <3> QED
        BY <2>5, LeastNumber
    <2>7. \A i \in 1..n - 1 : layers[i] \cap Due(q) = {}
      BY <2>4, <2>6
    <2>8. Ready(q) # {}
      BY <2>6, <2>7 DEF Ready
    <2> QED
      BY <2>8, <2>q
  <1>2. ProjInv => ExecutionAdvances
    BY <1>1 DEF ExecutionAdvances
  <1> QED
    BY <1>2, ProjInvariance, PTL

-----------------------------------------------------------------------------
(***************************************************************************)
(* The catalogue of projects.  Its types say that names are unique in an   *)
(* organisation, and that members and credentials are of projects there    *)
(* are; they are inductive as they stand.                                  *)
(***************************************************************************)
NamesAreFree ==
  \A p \in ProjectIds : projects[p] # NoProject => NameIsFree(p, projects[p].name, projects[p].org)

\* A project there is none of is no project.
LEMMA NoProjectIsNone == \A row \in Project : row # NoProject
  BY DEF Project, NoProject, ProjectStatus

\* Where a row gets a name that is free, the others keep theirs.
LEMMA NamesStayFree ==
  ASSUME CatalogueTypeOK, NEW p \in ProjectIds, NEW row \in Project,
         projects' = [projects EXCEPT ![p] = row],
         NameIsFree(p, row.name, row.org)
  PROVE  NamesAreFree'
  <1>1. projects \in [ProjectIds -> Project \cup {NoProject}] /\ NamesAreFree
    BY DEF CatalogueTypeOK, NamesAreFree
  <1>2. projects'[p] = row /\ \A q \in ProjectIds \ {p} : projects'[q] = projects[q]
    BY <1>1
  <1>3. NameIsFree(p, row.name, row.org)'
    BY <1>2 DEF NameIsFree
  <1>4. ASSUME NEW q \in ProjectIds, q # p, projects[q] # NoProject
        PROVE  NameIsFree(q, projects[q].name, projects[q].org)'
    <2>1. NameIsFree(q, projects[q].name, projects[q].org)
      BY <1>1, <1>4 DEF NamesAreFree
    <2>2. projects[q].org = NoOrg \/ ~(row.name = projects[q].name /\ row.org = projects[q].org)
      BY <1>4 DEF NameIsFree
    <2> QED
      BY <1>2, <1>4, <2>1, <2>2 DEF NameIsFree
  <1> QED
    BY <1>2, <1>3, <1>4 DEF NamesAreFree

\* A row that is written leaves members and credentials of projects there are.
LEMMA RowWritten ==
  ASSUME CatalogueTypeOK, NEW p \in ProjectIds, NEW row \in Project,
         projects' = [projects EXCEPT ![p] = row],
         NameIsFree(p, row.name, row.org),
         projMembers' \subseteq projMembers \cup {p} \X ProjectUsers,
         credentials' = credentials,
         creating' \in [CatalogueRequests -> Creation \cup {NotCreating}]
  PROVE  CatalogueTypeOK'
  <1>1. projects' \in [ProjectIds -> Project \cup {NoProject}]
    BY DEF CatalogueTypeOK
  <1>2. \A q \in ProjectIds : projects[q] # NoProject \/ q = p => projects'[q] # NoProject
    BY NoProjectIsNone DEF CatalogueTypeOK
  <1>3. projMembers' \in ProjectMembers' /\ credentials' \in ProjectCredentials'
    BY <1>2 DEF CatalogueTypeOK, ProjectMembers, ProjectCredentials
  <1>4. NamesAreFree'
    BY NamesStayFree
  <1> QED
    BY <1>1, <1>3, <1>4 DEF CatalogueTypeOK, NamesAreFree

\* Projects that stay as they are.
LEMMA RowsStay ==
  ASSUME CatalogueTypeOK, UNCHANGED projects,
         projMembers' \in ProjectMembers, credentials' \in ProjectCredentials,
         creating' \in [CatalogueRequests -> Creation \cup {NotCreating}]
  PROVE  CatalogueTypeOK'
  BY DEF CatalogueTypeOK, ProjectMembers, ProjectCredentials, NameIsFree

\* A project that is new has a free name, and its creator for a member.
LEMMA InsertKeeps ==
  ASSUME CatalogueTypeOK, NEW p \in ProjectIds, NEW u \in ProjectUsers,
         NEW name \in ProjectNames, NEW org \in Orgs, Insert(p, u, name, org),
         credentials' = credentials,
         creating' \in [CatalogueRequests -> Creation \cup {NotCreating}]
  PROVE  CatalogueTypeOK'
  <1> DEFINE row == [name |-> name, org |-> org, status |-> "draft"]
  <1>1. row \in Project /\ row.name = name /\ row.org = org
    BY DEF Project, ProjectStatus
  <1>2. projects' = [projects EXCEPT ![p] = row] /\ NameIsFree(p, name, org)
        /\ projMembers' \subseteq projMembers \cup {p} \X ProjectUsers
    BY DEF Insert
  <1> HIDE DEF row
  <1> QED
    BY <1>1, <1>2, RowWritten

\* A member's request about a project finds its row.
LEMMA UsedIsProject ==
  ASSUME CatalogueTypeOK, NEW p \in ProjectIds, NEW u, MayUse(u, p)
  PROVE  projects[p] \in Project
  BY DEF MayUse, CatalogueTypeOK

LEMMA CatalogueStep == CatalogueTypeOK /\ [CatalogueNext]_catalogueVars => CatalogueTypeOK'
  <1> SUFFICES ASSUME CatalogueTypeOK, [CatalogueNext]_catalogueVars PROVE CatalogueTypeOK'
    OBVIOUS
  <1>1. /\ projects \in [ProjectIds -> Project \cup {NoProject}]
        /\ projMembers \in ProjectMembers /\ credentials \in ProjectCredentials
        /\ creating \in [CatalogueRequests -> Creation \cup {NotCreating}] /\ NamesAreFree
    BY DEF CatalogueTypeOK, NamesAreFree
  <1>2. ASSUME NEW r \in CatalogueRequests, NEW u \in ProjectUsers, NEW name \in ProjectNames,
               NEW org \in Orgs, CreateCheck(r, u, name, org)
        PROVE  CatalogueTypeOK'
    <2>1. [user |-> u, name |-> name, org |-> org] \in Creation
      BY DEF Creation
    <2> QED
      BY <1>1, <1>2, <2>1, RowsStay DEF CreateCheck
  <1>3. ASSUME NEW r \in CatalogueRequests, NEW p \in ProjectIds, CreateInsert(r, p)
        PROVE  CatalogueTypeOK'
    <2>1. /\ creating[r].user \in ProjectUsers /\ creating[r].name \in ProjectNames
          /\ creating[r].org \in Orgs
      BY <1>1, <1>3 DEF CreateInsert, Creation
    <2>2. creating' \in [CatalogueRequests -> Creation \cup {NotCreating}]
      BY <1>1, <1>3 DEF CreateInsert
    <2> QED
      BY <1>3, <2>1, <2>2, InsertKeeps DEF CreateInsert
  <1>4. ASSUME NEW r \in CatalogueRequests, CreateFails(r) PROVE CatalogueTypeOK'
    BY <1>1, <1>4, RowsStay DEF CreateFails
  <1>5. ASSUME NEW p \in ProjectIds, NEW u \in ProjectUsers, NEW name \in ProjectNames, NEW org \in Orgs,
               CreateUnchecked(p, u, name, org)
        PROVE  CatalogueTypeOK'
    BY <1>1, <1>5, InsertKeeps DEF CreateUnchecked
  <1>6. ASSUME NEW p \in ProjectIds, NEW u \in ProjectUsers, NEW name \in ProjectNames,
               NEW status \in ProjectStatus, UpdateProject(p, u, name, status)
        PROVE  CatalogueTypeOK'
    <2> DEFINE row == [projects[p] EXCEPT !.name = name, !.status = status]
    <2>1. projects[p] \in Project
      BY <1>6, UsedIsProject DEF UpdateProject
    <2>2. row \in Project /\ row.name = name /\ row.org = projects[p].org
      BY <2>1 DEF Project
    <2>3. projects' = [projects EXCEPT ![p] = row]
      BY <1>1, <1>6, <2>1 DEF UpdateProject, Project
    <2> HIDE DEF row
    <2> QED
      BY <1>1, <1>6, <2>2, <2>3, RowWritten DEF UpdateProject
  <1>7. ASSUME NEW p \in ProjectIds, NEW u \in ProjectUsers, ArchiveProject(p, u)
        PROVE  CatalogueTypeOK'
    <2> DEFINE row == [projects[p] EXCEPT !.status = "archived"]
    <2>1. projects[p] \in Project
      BY <1>7, UsedIsProject DEF ArchiveProject
    <2>2. row \in Project /\ row.name = projects[p].name /\ row.org = projects[p].org
      BY <2>1 DEF Project, ProjectStatus
    <2>3. projects' = [projects EXCEPT ![p] = row]
      BY <1>7 DEF ArchiveProject
    <2>4. NameIsFree(p, projects[p].name, projects[p].org)
      BY <1>1, <1>7 DEF ArchiveProject, MayUse, NamesAreFree
    <2> HIDE DEF row
    <2> QED
      BY <1>1, <1>7, <2>2, <2>3, <2>4, RowWritten DEF ArchiveProject
  <1>8. ASSUME NEW p \in ProjectIds, NEW u \in ProjectUsers, NEW target \in ProjectUsers,
               RemoveMember(p, u, target)
        PROVE  CatalogueTypeOK'
    BY <1>1, <1>8, RowsStay DEF RemoveMember, ProjectMembers
  <1>9. ASSUME NEW p \in ProjectIds, NEW u \in ProjectUsers, NEW provider \in Providers,
               AddCredential(p, u, provider)
        PROVE  CatalogueTypeOK'
    BY <1>1, <1>9, RowsStay DEF AddCredential, MayUse, ProjectCredentials
  <1>10. CASE UNCHANGED catalogueVars
    BY <1>1, <1>10, RowsStay DEF catalogueVars
  <1> QED
    BY <1>2, <1>3, <1>4, <1>5, <1>6, <1>7, <1>8, <1>9, <1>10 DEF CatalogueNext

\* The catalogue's tables are always of their types: no two projects of an
\* organisation have one name, whoever creates, renames or archives them at a
\* time, and no member or credential is of a project there is not.
THEOREM CatalogueTypesHold == CatalogueSpec => []CatalogueTypeOK
  <1>1. CatalogueInit => CatalogueTypeOK
    BY DEF CatalogueInit, CatalogueTypeOK, ProjectMembers, ProjectCredentials
  <1> QED
    BY <1>1, CatalogueStep, PTL DEF CatalogueSpec

-----------------------------------------------------------------------------
(***************************************************************************)
(* The run of both: a behaviour in which one of them moves is one of each, *)
(* so that what is proved of one holds of it.                              *)
(***************************************************************************)
THEOREM PartsAsAlone == Spec => ProjSpec /\ CatalogueSpec
  <1>1. Init => ProjInit /\ CatalogueInit
    BY DEF Init
  <1>2. [Next]_vars => [ProjNext]_projVars /\ [CatalogueNext]_catalogueVars
    BY DEF Next, vars, ExecutionPart, CataloguePart
  <1> QED
    BY <1>1, <1>2, PTL DEF Spec, ProjSpec, CatalogueSpec

\* The rows and requests of both parts are always of their types.
THEOREM PartsTypesHold == Spec => []TypeOK
  <1>1. ProjTypeOK /\ CatalogueTypeOK => TypeOK
    BY DEF TypeOK
  <1> QED
    BY <1>1, PartsAsAlone, ProjTypesHold, CatalogueTypesHold, PTL
=============================================================================

---------------------------- MODULE DeliveryLife ----------------------------
(***************************************************************************)
(* What the server promises of the events GitHub delivers: each is handled *)
(* once, at most MaxRuns runs go on at a time, and every event ends        *)
(* reported, dropped because nobody is connected for it, or lost when a    *)
(* step of it fails or the server restarts - and that is its end.          *)
(***************************************************************************)
EXTENDS Naturals, FiniteSets

CONSTANTS Deliveries, MaxRuns

VARIABLES
  stage,     \* how far the server has come with each delivery
  handled    \* how often it has begun to handle it

vars == <<stage, handled>>

UnderWay == {d \in Deliveries : stage[d] \in {"accepted", "waiting", "running"}}

Init ==
  /\ stage = [d \in Deliveries |-> "new"]
  /\ handled = [d \in Deliveries |-> 0]

Goes(d, from, to) ==
  /\ stage[d] = from
  /\ stage' = [stage EXCEPT ![d] = to]

\* The server begins to handle d, if it is an event that it handles at all.
Accept(d) ==
  /\ Goes(d, "new", "accepted") \/ Goes(d, "new", "dropped")
  /\ handled' = [handled EXCEPT ![d] = 1]

\* Nobody is connected for d, or somebody is and d waits for its run.
Drop(d) == Goes(d, "accepted", "dropped") /\ UNCHANGED handled
Wait(d) == Goes(d, "accepted", "waiting") /\ UNCHANGED handled

Run(d) ==
  /\ Cardinality({x \in Deliveries : stage[x] = "running"}) < MaxRuns
  /\ Goes(d, "waiting", "running")
  /\ UNCHANGED handled

Report(d) == Goes(d, "running", "reported") /\ UNCHANGED handled

\* A step of d fails, or the server restarts and everything under way is lost.
Lose(d) ==
  /\ d \in UnderWay
  /\ stage' = [stage EXCEPT ![d] = "lost"]
  /\ UNCHANGED handled
LoseAll ==
  /\ stage' = [d \in Deliveries |-> IF d \in UnderWay THEN "lost" ELSE stage[d]]
  /\ UNCHANGED handled

Next ==
  \/ \E d \in Deliveries : Accept(d) \/ Drop(d) \/ Wait(d) \/ Run(d) \/ Report(d) \/ Lose(d)
  \/ LoseAll

Spec == Init /\ [][Next]_vars
=============================================================================

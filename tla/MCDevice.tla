------------------------------- MODULE MCDevice -------------------------------
(* Instances of Device for TLC: a factory image, two healthy versions       *)
(* published under one moving tag, a version that fails its check, and an   *)
(* application of which a second config replaces the first.                 *)
EXTENDS Device

CONSTANTS factory, good, newer, broken, nFactory, nGood, nBroken, tag

MCImage == {factory, good, newer, broken}
MCName == {nFactory, nGood, nBroken, tag}
MCNamesOf ==
  [i \in MCImage |-> CASE i = factory -> {nFactory}
                        [] i = good    -> {nGood, tag}
                        [] i = newer   -> {tag}
                        [] i = broken  -> {nBroken}]
MCUnhealthy == {broken}

MCConfig == {"web1", "web2"}
MCApplication == [c \in MCConfig |-> "web"]
MCReference == [c \in MCConfig |-> IF c = "web1" THEN 1 ELSE 2]
MCStripped == [c \in MCConfig |-> 1]

(* The OS loop by itself; then both loops.                                  *)
Alone == [names |-> MCName, assignments |-> 3, faults |-> 2,
          apps |-> FALSE, appAssignments |-> 0, appFaults |-> 0]
Both == [names |-> {nFactory, nGood, nBroken}, assignments |-> 1, faults |-> 0,
         apps |-> TRUE, appAssignments |-> 1, appFaults |-> 0]
MCBudgets ==
  { Alone,
    [Both EXCEPT !.assignments = 2],
    [Both EXCEPT !.appAssignments = 2],
    [Both EXCEPT !.faults = 1],
    [Both EXCEPT !.appFaults = 1] }
===============================================================================

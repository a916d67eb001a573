---------------------------- MODULE MCResources ----------------------------
(* Instances of Resources for TLC: a participant with a publisher, its      *)
(* writer and the writer's topic.  The objects have generated ids, which    *)
(* clients use as well.                                                     *)
EXTENDS Resources, TLC

Names == {"p", "t", "b", "w"}

KindOf ==
    [r \in Names |-> CASE r = "p" -> "participant" [] r = "t" -> "topic"
                       [] r = "b" -> "group" [] r = "w" -> "endpoint"]
ParentOf ==
    [r \in Names |-> CASE r = "p" -> None [] r = "w" -> "b" [] OTHER -> "p"]
WithTopic == [r \in Names |-> IF r = "w" THEN "t" ELSE None]
OwnId == [r \in Names |-> r]

Symmetry == Permutations(Session) \cup Permutations(Buffer)
============================================================================

------------------------------ MODULE MCQueues ------------------------------
(***************************************************************************)
(* Instances of Queues for TLC: a1 and a2 are agent jobs, the others       *)
(* interactive.                                                            *)
(***************************************************************************)
EXTENDS Queues, TLC

CONSTANTS a1, a2, i1, i2, i3, i4

Agents == {a1, a2}

MCClassOf ==
    [j \in Jobs |-> IF j \in Agents THEN "agent" ELSE "interactive"]

ShortWait == [class \in Classes |-> 1]

\* Jobs of one class are interchangeable until they are admitted.
SameClass ==
    Permutations(Jobs \intersect Agents) \union Permutations(Jobs \ Agents)
=============================================================================

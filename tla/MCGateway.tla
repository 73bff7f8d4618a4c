----------------------------- MODULE MCGateway -----------------------------
(***************************************************************************)
(* Instances of Gateway for TLC: one agent owner and one interactive       *)
(* owner.  Requests a1, a2, a3 are the agent's, i1 and i2 the interactive  *)
(* client's.                                                               *)
(***************************************************************************)
EXTENDS Gateway, TLC

CONSTANTS a1, a2, a3, i1, i2, agentBudget, interactiveBudget

Agents == {a1, a2, a3}

MCBudgets == {agentBudget, interactiveBudget}
MCBudgetOf ==
    [r \in Requests |-> IF r \in Agents THEN agentBudget ELSE interactiveBudget]
MCBudgetClass ==
    (agentBudget :> "agent") @@ (interactiveBudget :> "interactive")

\* Each owner has one slot at first; the agent may have two after a resize.
TightLimit == (agentBudget :> 1) @@ (interactiveBudget :> 1)

\* Agents wait longer, as in the defaults of QueueSettings.
ShortWait == [class \in Classes |-> 1]
AgentsWaitLonger == [class \in Classes |-> IF class = "agent" THEN 2 ELSE 1]

\* Requests of one owner are interchangeable.
SameOwner ==
    Permutations(Requests \intersect Agents)
        \union Permutations(Requests \ Agents)
=============================================================================

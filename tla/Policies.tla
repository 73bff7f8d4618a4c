------------------------------ MODULE Policies ------------------------------
(***************************************************************************)
(* A policy document, and what its readers make of it: the JSON schema,    *)
(* validate_policy and discover of the Python package, and the gate and    *)
(* the route table of the Rust dispatcher.  Each was written on its own.   *)
(* A document is a record; a field that is absent or of another type is    *)
(* NoNumber or NoText.  A path is an identifier, too, as the dispatcher    *)
(* keeps it: without its slash.                                            *)
(***************************************************************************)
EXTENDS Integers, Sequences

CONSTANTS
    Identifiers,    \* Texts of letters, digits, - and _.
    Empty, Odd,     \* No text at all, and one with other characters.
    NoText, Absent

ASSUME PoliciesAssumption ==
    /\ {Empty, Odd, NoText, Absent} \intersect Identifiers = {}
    /\ Absent \notin {Odd, Empty, NoText}
    /\ NoText \notin {"text", "plain"}

Texts == Identifiers \union {Empty, Odd}
Schemas == {"plain", "external", "invalid", NoText}

NoNumber == -1

Nonempty(x) == x \in Identifiers \union {Odd}
Classes == {"agent", "interactive"}

\* What every reader bounds alike: ceilings, and milliseconds between refreshes
\* and of waiting.
Slots == 1 .. 1000
LongestRefresh == 60000
RefreshTimes == 100 .. LongestRefresh
LongestWait == 3600000
WaitTimes == 1 .. LongestWait

DistinctNames(operations) ==
    \A i, j \in DOMAIN operations :
        operations[i].name = operations[j].name => i = j

\* validate_operation.  A schema is "plain", refers to another document, is
\* no JSON schema, or is no object (NoText).
UsableOperation(op) ==
    /\ Nonempty(op.name)
    /\ op.description # NoText
    /\ op.method = "POST"
    /\ op.path \in Identifiers
    /\ op.input_schema = "plain"

\* validate_policy, without a previous policy.
UsablePolicy(p) ==
    /\ p.version = 3
    /\ Nonempty(p.principal_id)
    /\ p.client_class \in Classes
    /\ p.scope = "principal"
    /\ p.max_outstanding \in Slots
    /\ p.policy_revision >= 1
    /\ p.refresh_after_ms \in RefreshTimes
    /\ p.outstanding >= 0
    /\ p.service_id = Absent \/ Nonempty(p.service_id)
    /\ \A i \in DOMAIN p.operations : UsableOperation(p.operations[i])
    /\ DistinctNames(p.operations)

\* What it asks of a policy that follows another.
Continues(p, previous) ==
    /\ p.principal_id = previous.principal_id
    /\ p.client_class = previous.client_class
    /\ p.service_id = previous.service_id
    /\ p.policy_revision >= previous.policy_revision
    /\ p.policy_revision = previous.policy_revision =>
        p.max_outstanding = previous.max_outstanding

\* discover.
Discoverable(p) ==
    /\ p.version = 3
    /\ Nonempty(p.principal_id)
    /\ p.client_class \in Classes
    /\ p.scope = "principal"
    /\ p.max_outstanding >= 1
    /\ \A i \in DOMAIN p.operations : UsableOperation(p.operations[i])
    /\ DistinctNames(p.operations)

\* policy.schema.json and operation.schema.json.
Conforms(p) ==
    /\ p.version = 3
    /\ p.service_id \in {Absent} \union Identifiers
    /\ Nonempty(p.principal_id)
    /\ p.client_class \in Classes
    /\ p.policy_revision >= 1
    /\ p.refresh_after_ms \in RefreshTimes
    /\ p.outstanding >= 0
    /\ p.scope = "principal"
    /\ p.max_outstanding \in Slots
    /\ p.max_wait_ms \in WaitTimes
    /\ \A i \in DOMAIN p.operations : LET op == p.operations[i] IN
        /\ op.name \in Identifiers
        /\ op.description # NoText
        /\ op.method = "POST"
        /\ op.path \in Identifiers
        /\ op.input_schema # NoText

\* validate_contract of a policy: the schema, and what a client checks.
ValidContract(p) == Conforms(p) /\ UsablePolicy(p)

\* Gate::apply of load/control.rs, with the types its fields must have.
GateAccepts(p) ==
    /\ p.version = 3
    /\ p.client_class = "agent"
    /\ Nonempty(p.principal_id)
    /\ p.scope = "principal"
    /\ p.max_outstanding \in Slots
    /\ p.policy_revision >= 1
    /\ p.refresh_after_ms \in RefreshTimes
    /\ p.outstanding >= 0

\* The aliases add_routes adds: an operation goes by its name and by its path.
Aliases(operations) ==
    UNION {{<<operations[i].name, operations[i].path>>,
            <<operations[i].path, operations[i].path>>} : i \in DOMAIN operations}

Unambiguous(routes) == \A x, y \in routes : x[1] = y[1] => x[2] = y[2]

\* The descriptors add_routes takes into a table, service_id being text.
RoutesAccept(p, routes) ==
    /\ p.service_id # NoText /\ p.service_id # Empty
    /\ \A i \in DOMAIN p.operations : LET op == p.operations[i] IN
        /\ op.name \in Identifiers
        /\ op.method = "POST"
        /\ op.path \in Identifiers
    /\ DistinctNames(p.operations)
    /\ Unambiguous(routes \union Aliases(p.operations))
=============================================================================

----------------------------- MODULE Discovery ------------------------------
(***************************************************************************)
(* From a manifest to its clients: the gateway that parses it and serves a *)
(* policy to each token, the administrator who changes ceilings, restarts, *)
(* and the two kinds of adaptive clients, an AsyncClient per token and a   *)
(* dispatcher that starts with several tokens and then polls with the      *)
(* first.  A client has one request under way at a time and compares the   *)
(* answer with what it knows, so asking and applying are one step; calls,  *)
(* slots and late answers are those of Gate, Dispatcher and SdkClient.     *)
(***************************************************************************)
EXTENDS Policies, FiniteSets

CONSTANTS
    Manifests,      \* What the service may be configured with,
    Successors,     \* and what may take its place, besides itself.
    Reserved,       \* Paths of the gateway itself.
    Tokens,
    DispatcherTokens,   \* A sequence of tokens.
    Ceilings,       \* What the administrator asks for.
    MaxRevision, MaxStarts  \* Bounds of updates and starts.

ASSUME DiscoveryAssumption ==
    /\ Successors \subseteq Manifests
    /\ \A m \in Manifests :
        /\ m.service_id \in Texts
        /\ m.operations \in
            Seq([name : Texts, path : Texts, input_schema : Schemas])
        /\ m.credentials \in
            [Tokens -> [principal_id : Texts, client_class : Classes,
                        operations : SUBSET Texts, max_outstanding : Nat]]
    /\ Reserved \subseteq Identifiers
    /\ DispatcherTokens \in Seq(Tokens)
    /\ DispatcherTokens # <<>>
    /\ Ceilings \subseteq Nat
    /\ MaxRevision \in Nat \ {0}
    /\ MaxStarts \in Nat \ {0}

VARIABLES
    manifest,       \* The service that runs,
    starts,         \* counted,
    budget,         \* and its owners' ceilings.
    known, ready,   \* The clients' policies; Absent before the first.
    dispatcher

vars == <<manifest, starts, budget, known, ready, dispatcher>>
serviceVars == <<manifest, starts, budget>>
sdkVars == <<known, ready>>

BudgetOf(m, t) ==
    <<m.credentials[t].principal_id, m.credentials[t].client_class>>
BudgetsOf(m) == {BudgetOf(m, t) : t \in Tokens}

Names(m) == {m.operations[i].name : i \in DOMAIN m.operations}

\* Service::parse, Service::native with Operation::new, and identities.
Parses(m) ==
    /\ m.format_version = 1
    /\ m.service_id \in Identifiers
    /\ m.operations # <<>>
    /\ DistinctNames(m.operations)
    /\ \A i, j \in DOMAIN m.operations :
        /\ m.operations[i].name \in Identifiers
        /\ m.operations[i].path \in Identifiers \ Reserved
        /\ m.operations[i].path = m.operations[j].path => i = j
        /\ m.operations[i].input_schema # NoText
    /\ \A t, u \in Tokens : LET c == m.credentials[t] IN
        /\ c.principal_id # Empty
        /\ c.max_outstanding \in Slots
        /\ c.operations \subseteq Names(m)
        /\ BudgetOf(m, t) = BudgetOf(m, u) =>
            c.max_outstanding = m.credentials[u].max_outstanding

Budgets(m) ==
    [b \in BudgetsOf(m) |->
        [maximum |-> m.credentials[CHOOSE t \in Tokens : BudgetOf(m, t) = b]
                        .max_outstanding,
         revision |-> 1]]

\* Operation::descriptor of those a token may call, each at its place in the
\* manifest; a mapped operation's schema is plain, a native one's the
\* application's.
Descriptors(m, t) ==
    [i \in {i \in DOMAIN m.operations :
                m.operations[i].name \in m.credentials[t].operations} |->
        [name |-> m.operations[i].name,
         description |-> "text",
         method |-> "POST",
         path |-> m.operations[i].path,
         input_schema |-> m.operations[i].input_schema]]

\* What an administrator is told: a service that takes another's place has
\* other routes, for whoever stays connected, only with another service_id
\* ("Restart the dispatcher after changing routes or identity").
ASSUME OneRouteTable ==
    \A m \in Manifests, n \in Successors :
        m.service_id = n.service_id =>
            \A t \in Tokens :
                Aliases(Descriptors(m, t)) = Aliases(Descriptors(n, t))

\* agent_policy.
Document(t) ==
    LET c == manifest.credentials[t]
    IN  [version |-> 3,
         service_id |-> manifest.service_id,
         principal_id |-> c.principal_id,
         client_class |-> c.client_class,
         scope |-> "principal",
         max_outstanding |-> budget[BudgetOf(manifest, t)].maximum,
         policy_revision |-> budget[BudgetOf(manifest, t)].revision,
         refresh_after_ms |-> 1000,
         outstanding |-> 0,
         max_wait_ms |-> 10000,
         operations |-> Descriptors(manifest, t)]

NoGate ==
    [principal_id |-> Absent, policy_revision |-> 0, max_outstanding |-> 0]

TypeOK ==
    /\ manifest \in Manifests
    /\ starts \in 1 .. MaxStarts
    /\ budget \in [BudgetsOf(manifest) ->
                    [maximum : Slots, revision : 1 .. MaxRevision]]
    /\ \A t \in Tokens : ready[t] => UsablePolicy(known[t])
    /\ dispatcher.phase \in {"starting", "running", "refused", "unreachable"}
    /\ dispatcher.ready => dispatcher.gate.max_outstanding \in Slots

Init ==
    /\ manifest \in {m \in Manifests : Parses(m)}
    /\ starts = 1
    /\ budget = Budgets(manifest)
    /\ known = [t \in Tokens |-> Absent]
    /\ ready = [t \in Tokens |-> FALSE]
    /\ dispatcher = [phase |-> "starting", next |-> 1, routes |-> {},
                     service_id |-> Absent, gate |-> NoGate, ready |-> FALSE,
                     asked |-> 0]
-----------------------------------------------------------------------------
(* The service.                                                            *)

\* Mutant: any ceiling is set.
UpdateLimitsUnchecked(b, n) ==
    /\ b \in BudgetsOf(manifest)
    /\ b[2] = "agent"
    /\ n # budget[b].maximum
    /\ budget[b].revision < MaxRevision
    /\ budget' = [budget EXCEPT ![b] =
                    [maximum |-> n, revision |-> @.revision + 1]]
    /\ UNCHANGED <<manifest, starts, sdkVars, dispatcher>>

\* PATCH /admin/principals/{id}/limits; the same ceiling changes nothing.
UpdateLimits(b, n) ==
    /\ b \in BudgetsOf(manifest)
    /\ b[2] = "agent"
    /\ n \in Slots
    /\ n # budget[b].maximum
    /\ budget[b].revision < MaxRevision
    /\ budget' = [budget EXCEPT ![b] =
                    [maximum |-> n, revision |-> @.revision + 1]]
    /\ UNCHANGED <<manifest, starts, sdkVars, dispatcher>>

\* The process is started again, with the same or with another manifest.
Restart ==
    /\ starts < MaxStarts
    /\ starts' = starts + 1
    /\ manifest' \in {manifest} \union {m \in Successors : Parses(m)}
    /\ budget' = Budgets(manifest')
    /\ UNCHANGED <<sdkVars, dispatcher>>
-----------------------------------------------------------------------------
(* Clients.                                                                *)

SdkAccepts(t) ==
    /\ UsablePolicy(Document(t))
    /\ known[t] = Absent \/ Continues(Document(t), known[t])

\* AsyncClient.refresh: a policy is applied whole, or the client pauses.
Refresh(t) ==
    /\ IF SdkAccepts(t)
       THEN /\ known' = [known EXCEPT ![t] = Document(t)]
            /\ ready' = [ready EXCEPT ![t] = TRUE]
       ELSE /\ ready' = [ready EXCEPT ![t] = FALSE]
            /\ UNCHANGED known
    /\ UNCHANGED <<serviceVars, dispatcher>>

GateContinues(p) ==
    LET gate == dispatcher.gate IN
    /\ gate.principal_id = Absent \/ p.principal_id = gate.principal_id
    /\ p.policy_revision >= gate.policy_revision
    /\ p.policy_revision = gate.policy_revision =>
        p.max_outstanding = gate.max_outstanding

Applied(p) ==
    [principal_id |-> p.principal_id, policy_revision |-> p.policy_revision,
     max_outstanding |-> p.max_outstanding]

\* Mutant: each token's routes are judged by themselves.
InitializeApart(p) ==
    /\ dispatcher.next = 1 \/ p.service_id = dispatcher.service_id
    /\ RoutesAccept(p, {})
    /\ GateAccepts(p)
    /\ GateContinues(p)

InitializeAccepts(p) ==
    /\ dispatcher.next = 1 \/ p.service_id = dispatcher.service_id
    /\ RoutesAccept(p, dispatcher.routes)
    /\ GateAccepts(p)
    /\ GateContinues(p)

\* Dispatcher::initialize, for the next token.
Initialize ==
    LET p == Document(DispatcherTokens[dispatcher.next])
        last == dispatcher.next = Len(DispatcherTokens)
    IN
    /\ dispatcher.phase = "starting"
    /\ IF InitializeAccepts(p)
       THEN dispatcher' =
            [phase |-> IF last THEN "running" ELSE "starting",
             next |-> IF last THEN dispatcher.next ELSE dispatcher.next + 1,
             routes |-> dispatcher.routes \union Aliases(p.operations),
             service_id |-> p.service_id,
             gate |-> Applied(p),
             ready |-> TRUE,
             asked |-> starts]
       ELSE dispatcher' = [dispatcher EXCEPT !.phase = "refused",
                                             !.ready = FALSE]
    /\ UNCHANGED <<serviceVars, sdkVars>>

\* Mutant: the service is not compared.
PollAccepts(p) == GateAccepts(p) /\ GateContinues(p)

DispatcherAccepts(p) ==
    /\ p.service_id = dispatcher.service_id
    /\ GateAccepts(p)
    /\ GateContinues(p)

\* Dispatcher::poll, with the first token.
Poll ==
    LET p == Document(DispatcherTokens[1]) IN
    /\ dispatcher.phase = "running"
    /\ dispatcher' = IF DispatcherAccepts(p)
                     THEN [dispatcher EXCEPT !.gate = Applied(p),
                                             !.ready = TRUE, !.asked = starts]
                     ELSE [dispatcher EXCEPT !.ready = FALSE]
    /\ UNCHANGED <<serviceVars, sdkVars>>

\* A request fails, or the service is down.
Unanswered ==
    /\ \/ \E t \in Tokens :
            /\ ready' = [ready EXCEPT ![t] = FALSE]
            /\ UNCHANGED dispatcher
       \/ /\ dispatcher.phase \in {"starting", "running"}
          /\ dispatcher' = [dispatcher EXCEPT
                    !.ready = FALSE,
                    !.phase = IF @ = "running" THEN @ ELSE "unreachable"]
          /\ UNCHANGED ready
    /\ UNCHANGED <<serviceVars, known>>

Next ==
    \/ \E b \in BudgetsOf(manifest), n \in Ceilings : UpdateLimits(b, n)
    \/ Restart
    \/ \E t \in Tokens : Refresh(t)
    \/ Initialize
    \/ Poll
    \/ Unanswered

Spec == Init /\ [][Next]_vars
-----------------------------------------------------------------------------
(* Properties.                                                             *)

PlainFor(t) ==
    \A i \in DOMAIN Document(t).operations :
        Document(t).operations[i].input_schema = "plain"

\* One operation that some of the tokens see is called what another's path is.
Confusable(tokens) ==
    LET seen == UNION {DOMAIN Descriptors(manifest, t) : t \in tokens}
    IN  \E i, j \in seen :
            i # j /\ manifest.operations[i].name = manifest.operations[j].path

\* What a started gateway serves its own clients need not take, but whatever the
\* administrator does, each has one reason to refuse it, and the schema none:
\* the SDK refuses a policy, whole, for a native operation whose schema it
\* cannot use; the gate an interactive token's; and add_routes, whatever tokens
\* came before, one with a name that is another operation's path.  Everything
\* else that a reader asks, Service::parse and update_limits have seen to.
ServedIsAccepted ==
    \A t \in Tokens : LET p == Document(t) IN
        /\ Conforms(p)
        /\ ValidContract(p) <=> PlainFor(t)
        /\ Discoverable(p) <=> PlainFor(t)
        /\ GateAccepts(p) <=> p.client_class = "agent"
        /\ \A others \in SUBSET (Tokens \ {t}) :
            LET routes ==
                UNION {Aliases(Descriptors(manifest, u)) : u \in others}
            IN  RoutesAccept(p, routes) <=> ~Confusable(others \union {t})

\* A dispatcher that has heard of the present service and is ready sends every
\* operation, by the name its token discovers, to that operation and nowhere
\* else, although its tokens see different operations and another service may
\* have taken the origin over.
RoutesRight ==
    dispatcher.phase = "running" /\ dispatcher.ready
                                 /\ dispatcher.asked = starts =>
        \A i \in DOMAIN DispatcherTokens :
            LET p == Document(DispatcherTokens[i]) IN
            \A k \in DOMAIN p.operations :
                {r[2] : r \in {r \in dispatcher.routes :
                                r[1] = p.operations[k].name}} =
                    {p.operations[k].path}

\* The two implementations of the adaptive client agree: of the policies of a
\* gateway, one that knows what the other knows accepts what the other does,
\* through changed ceilings, restarts and other services at the same origin.
Agree ==
    LET t == DispatcherTokens[1] IN
    /\ dispatcher.phase = "running"
    /\ known[t] # Absent
    /\ known[t].service_id = dispatcher.service_id
    /\ known[t].client_class = "agent"
    /\ Applied(known[t]) = dispatcher.gate
    /\ PlainFor(t)
    /\ Document(t).client_class = "agent"
    => (SdkAccepts(t) <=> DispatcherAccepts(Document(t)))
=============================================================================

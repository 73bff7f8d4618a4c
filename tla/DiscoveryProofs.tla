-------------------------- MODULE DiscoveryProofs --------------------------
(***************************************************************************)
(* Proofs about Discovery, for any manifests, tokens and ceilings: what a  *)
(* gateway serves is accepted, a ready dispatcher sends every operation to *)
(* where it belongs, and the two adaptive clients agree.                   *)
(***************************************************************************)
EXTENDS Discovery, TLAPS

-----------------------------------------------------------------------------
(* What a service serves.                                                  *)

\* The service that runs was started, and its ceilings and revisions are the
\* ones an administrator may reach.
Serves ==
    /\ manifest \in Manifests
    /\ Parses(manifest)
    /\ starts \in 1 .. MaxStarts
    /\ budget \in [BudgetsOf(manifest) ->
                    [maximum : Slots, revision : 1 .. MaxRevision]]


\* What the gateway fills in is within the bounds.
LEMMA Bounds ==
    /\ \A n \in Slots : n \in Nat /\ n >= 1
    /\ 1000 \in RefreshTimes
    /\ 10000 \in WaitTimes
<1>1. \A n \in Slots : n \in Nat /\ n >= 1
    BY DEF Slots
<1>2. LongestRefresh \in Nat /\ 1000 <= LongestRefresh
    BY DEF LongestRefresh
<1>3. LongestWait \in Nat /\ 10000 <= LongestWait
    BY DEF LongestWait
<1> QED
    BY <1>1, <1>2, <1>3 DEF RefreshTimes, WaitTimes

\* A document is made of the manifest, its token and the present budget.
LEMMA DocumentFields ==
    ASSUME Serves, NEW t \in Tokens
    PROVE  /\ Document(t).version = 3
           /\ Document(t).service_id = manifest.service_id
           /\ manifest.service_id \in Identifiers
           /\ Document(t).principal_id = manifest.credentials[t].principal_id
           /\ Nonempty(Document(t).principal_id)
           /\ Document(t).principal_id \in Texts
           /\ Document(t).client_class \in Classes
           /\ Document(t).scope = "principal"
           /\ Document(t).max_outstanding \in Slots
           /\ Document(t).policy_revision \in 1 .. MaxRevision
           /\ Document(t).refresh_after_ms = 1000
           /\ Document(t).outstanding = 0
           /\ Document(t).max_wait_ms = 10000
           /\ Document(t).operations = Descriptors(manifest, t)
<1>1. BudgetOf(manifest, t) \in BudgetsOf(manifest)
    BY DEF BudgetsOf
<1>2. budget[BudgetOf(manifest, t)] \in
        [maximum : Slots, revision : 1 .. MaxRevision]
    BY <1>1 DEF Serves
<1>3. /\ manifest.credentials[t].principal_id \in Texts \ {Empty}
      /\ manifest.credentials[t].client_class \in Classes
      /\ manifest.service_id \in Identifiers
    BY DiscoveryAssumption DEF DiscoveryAssumption, Serves, Parses
<1> QED
    BY <1>2, <1>3 DEF Document, Nonempty, Texts

\* The operations of a document are those of the manifest the token may call.
LEMMA Described ==
    ASSUME Serves, NEW t \in Tokens, NEW i \in DOMAIN Descriptors(manifest, t)
    PROVE  /\ i \in DOMAIN manifest.operations
           /\ Descriptors(manifest, t)[i].name = manifest.operations[i].name
           /\ Descriptors(manifest, t)[i].path = manifest.operations[i].path
           /\ Descriptors(manifest, t)[i].description = "text"
           /\ Descriptors(manifest, t)[i].method = "POST"
           /\ Descriptors(manifest, t)[i].name \in Identifiers
           /\ Descriptors(manifest, t)[i].path \in Identifiers
           /\ Descriptors(manifest, t)[i].input_schema # NoText
BY DEF Descriptors, Serves, Parses

\* They have different names.
LEMMA DescribedOnce ==
    ASSUME Serves, NEW t \in Tokens
    PROVE  DistinctNames(Descriptors(manifest, t))
<1> SUFFICES ASSUME NEW i \in DOMAIN Descriptors(manifest, t),
                    NEW j \in DOMAIN Descriptors(manifest, t),
                    Descriptors(manifest, t)[i].name
                        = Descriptors(manifest, t)[j].name
             PROVE  i = j
    BY DEF DistinctNames
<1>1. DistinctNames(manifest.operations)
    BY DEF Serves, Parses
<1> QED
    BY <1>1, Described DEF DistinctNames

\* The routes of the operations that some tokens see.
RoutesOf(tokens) == UNION {Aliases(Descriptors(manifest, u)) : u \in tokens}

\* add_routes takes the routes of several tokens together unless one name has
\* to stand for two operations.
LEMMA AmbiguousMeansConfusable ==
    ASSUME Serves, NEW tokens \in SUBSET Tokens
    PROVE  Unambiguous(RoutesOf(tokens)) <=> ~Confusable(tokens)
<1> DEFINE operations == manifest.operations
           Seen(t) == DOMAIN Descriptors(manifest, t)
<1>1. \A t \in tokens : \A i \in Seen(t) :
        /\ i \in DOMAIN operations
        /\ Descriptors(manifest, t)[i].name = operations[i].name
        /\ Descriptors(manifest, t)[i].path = operations[i].path
    BY Described
<1>2. \A r : r \in RoutesOf(tokens) <=>
        \E t \in tokens : \E i \in Seen(t) :
            r = <<operations[i].name, operations[i].path>>
            \/ r = <<operations[i].path, operations[i].path>>
    BY <1>1 DEF RoutesOf, Aliases
<1>3. \A i, j \in DOMAIN operations :
        /\ operations[i].name = operations[j].name => i = j
        /\ operations[i].path = operations[j].path => i = j
    BY DEF Serves, Parses, DistinctNames
<1>4. ASSUME Unambiguous(RoutesOf(tokens)) PROVE ~Confusable(tokens)
    <2> SUFFICES ASSUME NEW t \in tokens, NEW u \in tokens,
                        NEW i \in Seen(t), NEW j \in Seen(u),
                        i # j, operations[i].name = operations[j].path
                 PROVE  FALSE
        BY DEF Confusable
    <2>1. /\ <<operations[i].name, operations[i].path>> \in RoutesOf(tokens)
          /\ <<operations[j].path, operations[j].path>> \in RoutesOf(tokens)
        BY <1>2
    <2>2. operations[i].path = operations[j].path
        BY <1>4, <2>1 DEF Unambiguous
    <2> QED
        BY <1>1, <1>3, <2>2
<1>5. ASSUME ~Confusable(tokens) PROVE Unambiguous(RoutesOf(tokens))
    <2> SUFFICES ASSUME NEW x \in RoutesOf(tokens), NEW y \in RoutesOf(tokens),
                        x[1] = y[1]
                 PROVE  x[2] = y[2]
        BY DEF Unambiguous
    <2>1. PICK t \in tokens : \E i \in Seen(t) :
            x = <<operations[i].name, operations[i].path>>
            \/ x = <<operations[i].path, operations[i].path>>
        BY <1>2
    <2>2. PICK i \in Seen(t) :
            x = <<operations[i].name, operations[i].path>>
            \/ x = <<operations[i].path, operations[i].path>>
        BY <2>1
    <2>3. PICK u \in tokens : \E j \in Seen(u) :
            y = <<operations[j].name, operations[j].path>>
            \/ y = <<operations[j].path, operations[j].path>>
        BY <1>2
    <2>4. PICK j \in Seen(u) :
            y = <<operations[j].name, operations[j].path>>
            \/ y = <<operations[j].path, operations[j].path>>
        BY <2>3
    <2>5. i \in DOMAIN operations /\ j \in DOMAIN operations
        BY <1>1
    <2>6. /\ operations[i].name = operations[j].path => i = j
          /\ operations[j].name = operations[i].path => i = j
        BY <1>5 DEF Confusable
    <2>7. i = j
        BY <1>3, <2>2, <2>4, <2>5, <2>6
    <2> QED
        BY <2>2, <2>4, <2>7
<1> QED
    BY <1>4, <1>5

\* What each reader makes of any document that is served.
LEMMA Accepted ==
    ASSUME Serves, NEW t \in Tokens
    PROVE  /\ Conforms(Document(t))
           /\ UsablePolicy(Document(t)) <=> PlainFor(t)
           /\ Discoverable(Document(t)) <=> PlainFor(t)
           /\ GateAccepts(Document(t)) <=> Document(t).client_class = "agent"
           /\ \A routes : RoutesAccept(Document(t), routes) <=>
                Unambiguous(routes \union Aliases(Document(t).operations))
<1> DEFINE p == Document(t)
<1>1. /\ p.version = 3
      /\ p.service_id \in Identifiers
      /\ Nonempty(p.principal_id)
      /\ p.client_class \in Classes
      /\ p.scope = "principal"
      /\ p.max_outstanding \in Slots
      /\ p.policy_revision \in Nat \ {0}
      /\ p.refresh_after_ms = 1000 /\ p.outstanding = 0 /\ p.max_wait_ms = 10000
    BY DocumentFields, DiscoveryAssumption DEF DiscoveryAssumption
<1>2. \A i \in DOMAIN p.operations :
        /\ p.operations[i].name \in Identifiers
        /\ p.operations[i].description = "text"
        /\ p.operations[i].method = "POST"
        /\ p.operations[i].path \in Identifiers
        /\ p.operations[i].input_schema # NoText
    BY DocumentFields, Described
<1>3. DistinctNames(p.operations)
    BY DocumentFields, DescribedOnce
<1>4. NoText # "text" /\ {NoText, Empty} \intersect Identifiers = {}
    BY PoliciesAssumption DEF PoliciesAssumption
<1>5. PlainFor(t) <=>
        \A i \in DOMAIN p.operations : p.operations[i].input_schema = "plain"
    BY DEF PlainFor
<1> HIDE DEF p
<1>6. /\ p.policy_revision >= 1 /\ p.outstanding >= 0
      /\ p.refresh_after_ms \in RefreshTimes
      /\ p.max_wait_ms \in WaitTimes
      /\ p.max_outstanding >= 1
    BY <1>1, Bounds
<1>7. Conforms(p)
    <2>1. \A i \in DOMAIN p.operations :
            /\ p.operations[i].description # NoText
            /\ p.operations[i].input_schema # NoText
        BY <1>2, <1>4
    <2> QED
        BY <1>1, <1>2, <1>6, <2>1 DEF Conforms
<1>8. \A routes : RoutesAccept(p, routes) <=>
        Unambiguous(routes \union Aliases(p.operations))
    BY <1>1, <1>2, <1>3, <1>4 DEF RoutesAccept
<1>9. GateAccepts(p) <=> p.client_class = "agent"
    BY <1>1, <1>6 DEF GateAccepts
<1>10. PlainFor(t) <=>
        \A i \in DOMAIN p.operations : UsableOperation(p.operations[i])
    BY <1>2, <1>4, <1>5 DEF UsableOperation, Nonempty
<1>11. UsablePolicy(p) <=> PlainFor(t)
    <2>1. Nonempty(p.service_id)
        BY <1>1 DEF Nonempty
    <2> QED
        BY <1>1, <1>3, <1>6, <1>10, <2>1 DEF UsablePolicy
<1>12. Discoverable(p) <=> PlainFor(t)
    BY <1>1, <1>3, <1>6, <1>10 DEF Discoverable
<1> QED
    BY <1>7, <1>8, <1>9, <1>11, <1>12 DEF p

\* A manifest that parses gives every budget a ceiling and its first revision.
LEMMA FirstBudgets ==
    ASSUME NEW m \in Manifests, Parses(m)
    PROVE  Budgets(m) \in [BudgetsOf(m) ->
                            [maximum : Slots, revision : 1 .. MaxRevision]]
<1> DEFINE Holder(b) == CHOOSE t \in Tokens : BudgetOf(m, t) = b
<1>1. ASSUME NEW b \in BudgetsOf(m)
      PROVE  m.credentials[Holder(b)].max_outstanding \in Slots
    <2>1. Holder(b) \in Tokens
        BY DEF BudgetsOf
    <2>2. \A t \in Tokens : m.credentials[t].max_outstanding \in Slots
        BY DEF Parses
    <2> QED
        BY <2>1, <2>2
<1>2. 1 \in 1 .. MaxRevision
    BY DiscoveryAssumption DEF DiscoveryAssumption
<1>3. Budgets(m) =
        [b \in BudgetsOf(m) |->
            [maximum |-> m.credentials[Holder(b)].max_outstanding, revision |-> 1]]
    BY DEF Budgets
<1> HIDE DEF Holder
<1> QED
    BY <1>1, <1>2, <1>3

-----------------------------------------------------------------------------
(* Clients.                                                                *)

\* An SDK client keeps usable policies only.
KeepsUsable ==
    /\ ready \in [Tokens -> BOOLEAN]
    /\ DOMAIN known = Tokens
    /\ \A t \in Tokens : ready[t] \/ known[t] # Absent => UsablePolicy(known[t])

Gates ==
    [principal_id : Texts \union {Absent}, policy_revision : Nat,
     max_outstanding : Nat]

Dispatchers ==
    [phase : {"starting", "running", "refused", "unreachable"},
     next : 1 .. Len(DispatcherTokens),
     routes : SUBSET (Texts \X Texts),
     service_id : Texts \union {Absent},
     gate : Gates,
     ready : BOOLEAN,
     asked : 0 .. starts]

\* What a dispatcher is, and that it is ready after a gate accepted.
DispatcherTyped ==
    /\ dispatcher \in Dispatchers
    /\ dispatcher.phase = "running" => dispatcher.next = Len(DispatcherTokens)
    /\ dispatcher.ready => dispatcher.gate.max_outstanding \in Slots

\* A ready dispatcher that asked the present service knows it by its name.
KnowsService ==
    dispatcher.ready /\ dispatcher.asked = starts =>
        dispatcher.service_id = manifest.service_id

\* The tokens whose routes the dispatcher has.
Initialized ==
    {i \in 1 .. Len(DispatcherTokens) :
        i < dispatcher.next \/ dispatcher.phase = "running"}

\* Those routes are in its table, whichever service of that name runs or will.
RoutesKept ==
    /\ Unambiguous(dispatcher.routes)
    /\ \A m \in {manifest} \union Successors, i \in Initialized :
        m.service_id = dispatcher.service_id =>
            Aliases(Descriptors(m, DispatcherTokens[i])) \subseteq dispatcher.routes

\* The inductive invariant, which RoutesKept extends.
DiscoveryInv == Serves /\ KeepsUsable /\ DispatcherTyped /\ KnowsService

\* Steps of the service.
LEMMA ServesStep == Serves /\ [Next]_vars => Serves'
<1> SUFFICES ASSUME Serves, [Next]_vars PROVE Serves'
    OBVIOUS
<1>1. ASSUME NEW b \in BudgetsOf(manifest), NEW n \in Ceilings, UpdateLimits(b, n)
      PROVE  Serves'
    <2>1. budget[b] \in [maximum : Slots, revision : 1 .. MaxRevision]
        BY DEF Serves
    <2>2. [maximum |-> n, revision |-> budget[b].revision + 1]
            \in [maximum : Slots, revision : 1 .. MaxRevision]
        BY <1>1, <2>1, DiscoveryAssumption DEF UpdateLimits, DiscoveryAssumption
    <2> QED
        BY <1>1, <2>2 DEF UpdateLimits, Serves
<1>2. ASSUME Restart PROVE Serves'
    <2>1. manifest' \in Manifests /\ Parses(manifest')
        BY <1>2, DiscoveryAssumption DEF Restart, Serves, DiscoveryAssumption
    <2>2. budget' \in [BudgetsOf(manifest') ->
                        [maximum : Slots, revision : 1 .. MaxRevision]]
        BY <1>2, <2>1, FirstBudgets DEF Restart
    <2>3. starts' \in 1 .. MaxStarts
        BY <1>2, DiscoveryAssumption DEF Restart, Serves, DiscoveryAssumption
    <2> QED
        BY <2>1, <2>2, <2>3 DEF Serves
<1>3. ASSUME \/ \E t \in Tokens : Refresh(t)
             \/ Initialize \/ Poll \/ Unanswered \/ UNCHANGED vars
      PROVE  Serves'
    <2>1. UNCHANGED serviceVars
        BY <1>3 DEF Refresh, Initialize, Poll, Unanswered, vars, serviceVars
    <2> QED
        BY <2>1 DEF serviceVars, Serves
<1> QED
    BY <1>1, <1>2, <1>3 DEF Next

\* Steps of the SDK's clients.
LEMMA KeepsUsableStep == Serves /\ KeepsUsable /\ [Next]_vars => KeepsUsable'
<1> SUFFICES ASSUME KeepsUsable, [Next]_vars PROVE KeepsUsable'
    OBVIOUS
<1>1. ASSUME NEW t \in Tokens, Refresh(t) PROVE KeepsUsable'
    <2>1. CASE SdkAccepts(t)
        BY <1>1, <2>1 DEF Refresh, SdkAccepts, KeepsUsable
    <2>2. CASE ~SdkAccepts(t)
        BY <1>1, <2>2 DEF Refresh, KeepsUsable
    <2> QED
        BY <2>1, <2>2
<1>2. ASSUME Unanswered PROVE KeepsUsable'
    BY <1>2 DEF Unanswered, KeepsUsable
<1>3. ASSUME \/ \E b \in BudgetsOf(manifest), n \in Ceilings : UpdateLimits(b, n)
             \/ Restart \/ Initialize \/ Poll \/ UNCHANGED vars
      PROVE  KeepsUsable'
    BY <1>3 DEF UpdateLimits, Restart, Initialize, Poll, vars, sdkVars, KeepsUsable
<1> QED
    BY <1>1, <1>2, <1>3 DEF Next

\* A token the dispatcher starts with.
LEMMA ItsTokens ==
    /\ Len(DispatcherTokens) \in Nat \ {0}
    /\ \A i \in 1 .. Len(DispatcherTokens) : DispatcherTokens[i] \in Tokens
BY DiscoveryAssumption DEF DiscoveryAssumption

\* The routes of a document are between names.
LEMMA NamedRoutes ==
    ASSUME Serves, NEW t \in Tokens
    PROVE  Aliases(Descriptors(manifest, t)) \in SUBSET (Texts \X Texts)
BY Described DEF Aliases, Texts

\* What the gate keeps of a document.
LEMMA GateOf ==
    ASSUME Serves, NEW t \in Tokens
    PROVE  Applied(Document(t)) \in Gates
<1>1. /\ Document(t).principal_id \in Texts
      /\ Document(t).policy_revision \in 1 .. MaxRevision
      /\ Document(t).max_outstanding \in Slots
    BY DocumentFields
<1>2. MaxRevision \in Nat
    BY DiscoveryAssumption DEF DiscoveryAssumption
<1>3. Document(t).policy_revision \in Nat /\ Document(t).max_outstanding \in Nat
    BY <1>1, <1>2, Bounds
<1> QED
    BY <1>1, <1>3 DEF Applied, Gates

\* Steps that leave the dispatcher alone, but for a restarted service.
DispatcherStays ==
    /\ dispatcher' = dispatcher
    /\ \/ starts' = starts /\ manifest' = manifest
       \/ starts' = starts + 1 /\ manifest' \in {manifest} \union Successors

\* Steps in which it hears nothing new: it is refused, or gets no answer.
DispatcherPauses ==
    /\ UNCHANGED serviceVars
    /\ \E phase \in {dispatcher.phase, "refused", "unreachable"} :
        dispatcher' = [dispatcher EXCEPT !.phase = phase, !.ready = FALSE]

\* Initialize, when it accepts the document of the next token.
Registers ==
    LET p == Document(DispatcherTokens[dispatcher.next])
        last == dispatcher.next = Len(DispatcherTokens)
    IN  /\ UNCHANGED serviceVars
        /\ dispatcher.phase = "starting"
        /\ InitializeAccepts(p)
        /\ dispatcher' =
            [phase |-> IF last THEN "running" ELSE "starting",
             next |-> IF last THEN dispatcher.next ELSE dispatcher.next + 1,
             routes |-> dispatcher.routes \union Aliases(p.operations),
             service_id |-> p.service_id,
             gate |-> Applied(p), ready |-> TRUE, asked |-> starts]

\* Poll, when it accepts.
Polls ==
    LET p == Document(DispatcherTokens[1])
    IN  /\ UNCHANGED serviceVars
        /\ dispatcher.phase = "running"
        /\ p.service_id = dispatcher.service_id
        /\ GateAccepts(p)
        /\ dispatcher' = [dispatcher EXCEPT !.gate = Applied(p),
                                            !.ready = TRUE, !.asked = starts]

\* Every step does one of these to the dispatcher.
LEMMA DispatcherSteps ==
    ASSUME DispatcherTyped, [Next]_vars
    PROVE  DispatcherStays \/ DispatcherPauses \/ Registers \/ Polls
<1>1. ASSUME Initialize PROVE DispatcherPauses \/ Registers
    BY <1>1 DEF Initialize, DispatcherPauses, Registers
<1>2. ASSUME Poll PROVE DispatcherPauses \/ Polls
    <2>1. dispatcher.phase = "running"
        BY <1>2 DEF Poll
    <2>2. [dispatcher EXCEPT !.ready = FALSE]
            = [dispatcher EXCEPT !.phase = dispatcher.phase, !.ready = FALSE]
        BY DEF DispatcherTyped, Dispatchers
    <2> QED
        BY <1>2, <2>1, <2>2 DEF Poll, DispatcherAccepts, DispatcherPauses, Polls
<1>3. ASSUME Unanswered PROVE DispatcherPauses \/ DispatcherStays
    BY <1>3 DEF Unanswered, DispatcherPauses, DispatcherStays, serviceVars
<1>4. ASSUME \/ \E b \in BudgetsOf(manifest), n \in Ceilings : UpdateLimits(b, n)
             \/ Restart
             \/ \E t \in Tokens : Refresh(t)
             \/ UNCHANGED vars
      PROVE  DispatcherStays
    BY <1>4 DEF UpdateLimits, Restart, Refresh, vars, serviceVars, DispatcherStays
<1> QED
    BY <1>1, <1>2, <1>3, <1>4 DEF Next

\* The dispatcher keeps its types.
LEMMA DispatcherTypedStep ==
    Serves /\ DispatcherTyped /\ [Next]_vars => DispatcherTyped'
<1> SUFFICES ASSUME Serves, DispatcherTyped, [Next]_vars PROVE DispatcherTyped'
    OBVIOUS
<1>1. starts \in Nat
    BY DiscoveryAssumption DEF Serves, DiscoveryAssumption
<1>2. CASE DispatcherStays
    BY <1>1, <1>2 DEF DispatcherStays, DispatcherTyped, Dispatchers
<1>3. CASE DispatcherPauses
    <2>1. PICK phase \in {dispatcher.phase, "refused", "unreachable"} :
            dispatcher' = [dispatcher EXCEPT !.phase = phase, !.ready = FALSE]
        BY <1>3 DEF DispatcherPauses
    <2>2. UNCHANGED starts
        BY <1>3 DEF DispatcherPauses, serviceVars
    <2>3. dispatcher' \in Dispatchers
        BY <2>1 DEF DispatcherTyped, Dispatchers
    <2>4. dispatcher'.phase = "running" => phase = dispatcher.phase
        BY <2>1 DEF DispatcherTyped, Dispatchers
    <2>5. ~dispatcher'.ready /\ dispatcher'.next = dispatcher.next
        BY <2>1 DEF DispatcherTyped, Dispatchers
    <2> QED
        BY <2>1, <2>2, <2>3, <2>4, <2>5 DEF DispatcherTyped, Dispatchers
<1>4. CASE Registers
    <2> DEFINE p == Document(DispatcherTokens[dispatcher.next])
    <2>1. DispatcherTokens[dispatcher.next] \in Tokens
        BY ItsTokens DEF DispatcherTyped, Dispatchers
    <2>2. /\ Aliases(p.operations) \in SUBSET (Texts \X Texts)
          /\ p.service_id \in Texts
        BY <2>1, DocumentFields, NamedRoutes DEF Texts
    <2>3. Applied(p) \in Gates /\ Applied(p).max_outstanding \in Slots
        BY <2>1, GateOf, DocumentFields DEF Applied
    <2> HIDE DEF p
    <2>4. dispatcher' \in Dispatchers
        BY <1>1, <1>4, <2>2, <2>3, ItsTokens
        DEF Registers, DispatcherTyped, Dispatchers, p
    <2>5. /\ dispatcher'.gate = Applied(p) /\ starts' = starts
          /\ dispatcher'.phase = "running"
                => dispatcher'.next = Len(DispatcherTokens)
        BY <1>4 DEF Registers, serviceVars, p
    <2> QED
        BY <2>3, <2>4, <2>5 DEF DispatcherTyped, Dispatchers
<1>5. CASE Polls
    <2> DEFINE p == Document(DispatcherTokens[1])
    <2>1. DispatcherTokens[1] \in Tokens
        BY ItsTokens
    <2>2. Applied(p) \in Gates /\ Applied(p).max_outstanding \in Slots
        BY <2>1, GateOf, DocumentFields DEF Applied
    <2> HIDE DEF p
    <2>3. /\ dispatcher' = [dispatcher EXCEPT !.gate = Applied(p),
                                              !.ready = TRUE, !.asked = starts]
          /\ starts' = starts
        BY <1>5 DEF Polls, serviceVars, p
    <2>4. dispatcher' \in Dispatchers
        <3>1. starts \in 0 .. starts
            BY <1>1
        <3> QED
            BY <2>2, <2>3, <3>1 DEF DispatcherTyped, Dispatchers
    <2>5. /\ dispatcher'.phase = dispatcher.phase
          /\ dispatcher'.next = dispatcher.next
          /\ dispatcher'.gate = Applied(p)
        BY <2>3 DEF DispatcherTyped, Dispatchers
    <2> QED
        BY <2>2, <2>3, <2>4, <2>5 DEF DispatcherTyped, Dispatchers
<1> QED
    BY <1>2, <1>3, <1>4, <1>5, DispatcherSteps

\* What it heard of the present service bears its name.
LEMMA KnowsServiceStep ==
    Serves /\ DispatcherTyped /\ KnowsService /\ [Next]_vars => KnowsService'
<1> SUFFICES ASSUME Serves, DispatcherTyped, KnowsService, [Next]_vars
             PROVE  KnowsService'
    OBVIOUS
<1>1. starts \in Nat /\ dispatcher.asked \in 0 .. starts
    BY DiscoveryAssumption
    DEF Serves, DispatcherTyped, Dispatchers, DiscoveryAssumption
<1>2. CASE DispatcherStays
    BY <1>1, <1>2 DEF DispatcherStays, KnowsService
<1>3. CASE DispatcherPauses
    BY <1>3 DEF DispatcherPauses, KnowsService, DispatcherTyped, Dispatchers
<1>4. CASE Registers
    <2>1. DispatcherTokens[dispatcher.next] \in Tokens
        BY ItsTokens DEF DispatcherTyped, Dispatchers
    <2> QED
        BY <1>4, <2>1, DocumentFields DEF Registers, serviceVars, KnowsService
<1>5. CASE Polls
    <2>1. DispatcherTokens[1] \in Tokens
        BY ItsTokens
    <2>2. dispatcher'.service_id = dispatcher.service_id
        BY <1>5 DEF Polls, DispatcherTyped, Dispatchers
    <2> QED
        BY <1>5, <2>1, <2>2, DocumentFields DEF Polls, serviceVars, KnowsService
<1> QED
    BY <1>2, <1>3, <1>4, <1>5, DispatcherSteps

\* The table has the routes of every token so far and stays without ambiguity.
LEMMA RoutesKeptStep ==
    Serves /\ DispatcherTyped /\ RoutesKept /\ [Next]_vars => RoutesKept'
<1> SUFFICES ASSUME Serves, DispatcherTyped, RoutesKept, [Next]_vars
             PROVE  RoutesKept'
    OBVIOUS
<1>1. CASE DispatcherStays
    BY <1>1 DEF DispatcherStays, RoutesKept, Initialized
<1>2. CASE DispatcherPauses
    <2>1. /\ manifest' = manifest
          /\ dispatcher'.routes = dispatcher.routes
          /\ dispatcher'.service_id = dispatcher.service_id
          /\ dispatcher'.next = dispatcher.next
          /\ dispatcher'.phase = "running" => dispatcher.phase = "running"
        BY <1>2 DEF DispatcherPauses, DispatcherTyped, Dispatchers, serviceVars
    <2>2. Initialized' \subseteq Initialized
        BY <2>1 DEF Initialized
    <2> QED
        BY <2>1, <2>2 DEF RoutesKept
<1>3. CASE Polls
    <2>1. /\ manifest' = manifest
          /\ dispatcher'.routes = dispatcher.routes
          /\ dispatcher'.service_id = dispatcher.service_id
          /\ dispatcher'.next = dispatcher.next
          /\ dispatcher'.phase = dispatcher.phase
        BY <1>3 DEF Polls, DispatcherTyped, Dispatchers, serviceVars
    <2>2. Initialized' = Initialized
        BY <2>1 DEF Initialized
    <2> QED
        BY <2>1, <2>2 DEF RoutesKept
<1>4. CASE Registers
    <2> DEFINE t == DispatcherTokens[dispatcher.next]
    <2>1. t \in Tokens /\ dispatcher.next \in 1 .. Len(DispatcherTokens)
        BY ItsTokens DEF DispatcherTyped, Dispatchers
    <2>2. /\ Document(t).operations = Descriptors(manifest, t)
          /\ Document(t).service_id = manifest.service_id
        BY <2>1, DocumentFields
    <2>3. /\ manifest' = manifest
          /\ dispatcher'.routes
                = dispatcher.routes \union Aliases(Descriptors(manifest, t))
          /\ Unambiguous(dispatcher'.routes)
          /\ dispatcher'.service_id = manifest.service_id
          /\ dispatcher.next = 1 \/ manifest.service_id = dispatcher.service_id
        BY <1>4, <2>2
        DEF Registers, InitializeAccepts, RoutesAccept, serviceVars
    <2>4. \A i \in Initialized' : i = dispatcher.next
                                  \/ (i \in Initialized /\ dispatcher.next # 1)
        <3>1. Initialized' = {i \in 1 .. Len(DispatcherTokens) :
                                i < dispatcher.next \/ i = dispatcher.next}
            <4>1. CASE dispatcher.next = Len(DispatcherTokens)
                BY <1>4, <2>1, <4>1, ItsTokens DEF Registers, Initialized
            <4>2. CASE dispatcher.next # Len(DispatcherTokens)
                BY <1>4, <2>1, <4>2, ItsTokens DEF Registers, Initialized
            <4> QED
                BY <4>1, <4>2
        <3> QED
            BY <2>1, <3>1, ItsTokens DEF Initialized
    <2> SUFFICES ASSUME NEW m \in {manifest} \union Successors,
                        NEW i \in Initialized',
                        m.service_id = manifest.service_id
                 PROVE  Aliases(Descriptors(m, DispatcherTokens[i]))
                            \subseteq dispatcher'.routes
        BY <2>3 DEF RoutesKept
    <2>5. CASE i = dispatcher.next
        <3>1. Aliases(Descriptors(m, t)) = Aliases(Descriptors(manifest, t))
            BY <2>1, OneRouteTable DEF OneRouteTable, Serves
        <3> QED
            BY <2>3, <2>5, <3>1
    <2>6. CASE i \in Initialized /\ dispatcher.next # 1
        BY <2>3, <2>6 DEF RoutesKept
    <2> QED
        BY <2>4, <2>5, <2>6
<1> QED
    BY <1>1, <1>2, <1>3, <1>4, DispatcherSteps

-----------------------------------------------------------------------------
(* Results.                                                                *)

\* The dispatcher has not asked yet, and no client knows a policy.
LEMMA DiscoveryInit == Init => DiscoveryInv /\ RoutesKept
<1> SUFFICES ASSUME Init PROVE DiscoveryInv /\ RoutesKept
    OBVIOUS
<1>1. /\ manifest \in Manifests /\ Parses(manifest)
      /\ starts = 1 /\ budget = Budgets(manifest)
    BY DEF Init
<1>2. Serves
    <2>1. 1 \in 1 .. MaxStarts
        BY DiscoveryAssumption DEF DiscoveryAssumption
    <2> QED
        BY <1>1, <2>1, FirstBudgets DEF Serves
<1>3. KeepsUsable
    BY DEF Init, KeepsUsable
<1>4. /\ dispatcher.phase = "starting" /\ dispatcher.next = 1
      /\ dispatcher.routes = {} /\ ~dispatcher.ready
      /\ dispatcher \in Dispatchers
    <2>1. NoGate \in Gates
        BY DEF NoGate, Gates
    <2>2. 1 \in 1 .. Len(DispatcherTokens) /\ 0 \in 0 .. starts
        BY <1>1, ItsTokens
    <2> QED
        BY <2>1, <2>2 DEF Init, Dispatchers
<1>5. DispatcherTyped /\ KnowsService
    BY <1>4 DEF DispatcherTyped, KnowsService
<1>6. Initialized = {}
    BY <1>4 DEF Initialized
<1>7. RoutesKept
    BY <1>4, <1>6 DEF RoutesKept, Unambiguous
<1> QED
    BY <1>2, <1>3, <1>5, <1>7 DEF DiscoveryInv

LEMMA DiscoveryStep == DiscoveryInv /\ [Next]_vars => DiscoveryInv'
BY ServesStep, KeepsUsableStep, DispatcherTypedStep, KnowsServiceStep
    DEF DiscoveryInv

LEMMA DiscoveryInvariant == Spec => []DiscoveryInv
BY DiscoveryInit, DiscoveryStep, PTL DEF Spec

\* This, and what follows from it, rests on OneRouteTable (RoutesKeptStep).
LEMMA RoutesInvariant == Spec => []RoutesKept
<1>1. DiscoveryInv /\ RoutesKept /\ [Next]_vars => RoutesKept'
    BY RoutesKeptStep DEF DiscoveryInv
<1> QED
    BY <1>1, DiscoveryInit, DiscoveryInvariant, PTL DEF Spec

\* Manifest, ceilings, policies and dispatcher keep their types.
THEOREM TypeCorrect == Spec => []TypeOK
<1>1. DiscoveryInv => TypeOK
    BY DEF DiscoveryInv, Serves, KeepsUsable, DispatcherTyped, Dispatchers, TypeOK
<1> QED
    BY <1>1, DiscoveryInvariant, PTL

\* Service::parse, update_limits and agent_policy against the schema, the SDK,
\* Gate::apply and add_routes: whichever manifest starts the gateway, whatever
\* ceilings are set and whatever tokens a dispatcher has asked before, a reader
\* refuses a served policy for its one reason and accepts it otherwise.
THEOREM PoliciesAccepted == Spec => []ServedIsAccepted
<1>1. ASSUME Serves, NEW t \in Tokens, NEW others \in SUBSET (Tokens \ {t})
      PROVE  RoutesAccept(Document(t), RoutesOf(others))
                <=> ~Confusable(others \union {t})
    <2>1. RoutesOf(others) \union Aliases(Document(t).operations)
            = RoutesOf(others \union {t})
        BY <1>1, DocumentFields DEF RoutesOf
    <2>2. Unambiguous(RoutesOf(others \union {t}))
            <=> ~Confusable(others \union {t})
        BY <1>1, AmbiguousMeansConfusable
    <2> QED
        BY <1>1, <2>1, <2>2, Accepted
<1>2. Serves => ServedIsAccepted
    BY <1>1, Accepted DEF ServedIsAccepted, ValidContract, RoutesOf
<1> QED
    BY <1>2, DiscoveryInvariant, PTL DEF DiscoveryInv

\* Dispatcher::initialize and poll: a name that a token discovers leads to its
\* operation only, for any tokens, restarts and other services.
THEOREM RoutesCorrect == Spec => []RoutesRight
<1>1. ASSUME DiscoveryInv, RoutesKept PROVE RoutesRight
    <2> SUFFICES ASSUME dispatcher.phase = "running", dispatcher.ready,
                        dispatcher.asked = starts,
                        NEW i \in DOMAIN DispatcherTokens,
                        NEW k \in DOMAIN Document(DispatcherTokens[i]).operations
                 PROVE  LET op == Document(DispatcherTokens[i]).operations[k]
                        IN  {r[2] : r \in {r \in dispatcher.routes :
                                            r[1] = op.name}} = {op.path}
        BY DEF RoutesRight
    <2> DEFINE operations == Descriptors(manifest, DispatcherTokens[i])
    <2>1. i \in 1 .. Len(DispatcherTokens) /\ DispatcherTokens[i] \in Tokens
        BY ItsTokens, DiscoveryAssumption DEF DiscoveryAssumption
    <2>2. Document(DispatcherTokens[i]).operations = operations
        BY <1>1, <2>1, DocumentFields DEF DiscoveryInv
    <2>3. Aliases(operations) \subseteq dispatcher.routes
        BY <1>1, <2>1 DEF DiscoveryInv, RoutesKept, KnowsService, Initialized
    <2>4. <<operations[k].name, operations[k].path>> \in dispatcher.routes
        BY <2>2, <2>3 DEF Aliases
    <2>5. Unambiguous(dispatcher.routes)
        BY <1>1 DEF DiscoveryInv, RoutesKept
    <2> HIDE DEF operations
    <2> QED
        BY <2>2, <2>4, <2>5 DEF Unambiguous
<1> QED
    BY <1>1, DiscoveryInvariant, RoutesInvariant, PTL

\* validate_policy and Gate::apply, written in two languages: an SDK client and
\* a dispatcher in the same state judge the next policy alike.
THEOREM ClientsAgree == Spec => []Agree
<1>1. ASSUME DiscoveryInv PROVE Agree
    <2> DEFINE t == DispatcherTokens[1]
    <2> SUFFICES ASSUME known[t] # Absent,
                        known[t].service_id = dispatcher.service_id,
                        known[t].client_class = "agent",
                        Applied(known[t]) = dispatcher.gate,
                        PlainFor(t),
                        Document(t).client_class = "agent"
                 PROVE  SdkAccepts(t) <=> DispatcherAccepts(Document(t))
        BY DEF Agree
    <2>1. t \in Tokens
        BY ItsTokens
    <2>2. UsablePolicy(Document(t)) /\ GateAccepts(Document(t))
        BY <1>1, <2>1, Accepted DEF DiscoveryInv
    <2>3. known[t].principal_id # Absent
        <3>1. UsablePolicy(known[t])
            BY <1>1, <2>1 DEF DiscoveryInv, KeepsUsable
        <3>2. Nonempty(known[t].principal_id)
            BY <3>1 DEF UsablePolicy
        <3> QED
            BY <3>2, PoliciesAssumption DEF Nonempty, PoliciesAssumption
    <2>4. /\ dispatcher.gate.principal_id = known[t].principal_id
          /\ dispatcher.gate.policy_revision = known[t].policy_revision
          /\ dispatcher.gate.max_outstanding = known[t].max_outstanding
        BY DEF Applied
    <2> DEFINE p == Document(t)
    <2> HIDE DEF p
    <2>5. GateContinues(p) /\ p.service_id = dispatcher.service_id
            /\ p.client_class = "agent"
            <=> Continues(p, known[t])
        BY <2>3, <2>4 DEF GateContinues, Continues
    <2> USE DEF p
    <2> QED
        BY <2>2, <2>5 DEF SdkAccepts, DispatcherAccepts
<1> QED
    BY <1>1, DiscoveryInvariant, PTL
=============================================================================

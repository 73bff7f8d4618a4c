------------------------- MODULE AdmissionContract -------------------------
(***************************************************************************)
(* What the gateway promises its callers, with no queue, scheduler or      *)
(* clock: a request holds a slot of its owner's budget from admission to   *)
(* the end of its execution, a slot is only given while the budget has     *)
(* room, work that started never hears "not_started", and whoever hears a  *)
(* verdict no longer holds a slot.  Gateway implements this specification. *)
(***************************************************************************)
EXTENDS Naturals, FiniteSets

CONSTANTS
    Requests,   \* The requests, each sent once.
    Budgets,    \* One budget per (owner, class).
    BudgetOf,   \* The budget each request draws on.
    Resizable,  \* The budgets an administrator may resize.
    InitialLimit,
    Limits      \* The ceilings an administrator may set.

VARIABLES
    held,       \* Requests that own a slot.
    started,    \* Requests handed to an executor, ever.
    verdict,    \* What each caller was told about execution.
    limit       \* The ceiling of each budget.

vars == <<held, started, verdict, limit>>

Verdicts == {"none", "not_started", "completed", "unknown"}

HeldOf(b) == {r \in held : BudgetOf[r] = b}

TypeOK ==
    /\ held \subseteq Requests
    /\ started \subseteq Requests
    /\ verdict \in [Requests -> Verdicts]
    /\ limit \in [Budgets -> Nat \ {0}]

Init ==
    /\ held = {}
    /\ started = {}
    /\ verdict = [r \in Requests |-> "none"]
    /\ limit = InitialLimit

Told(requests, what) ==
    [r \in Requests |-> IF r \in requests THEN what ELSE verdict[r]]

\* Requests that may still hear "not_started" once those in gone lost their
\* slot: they never started, hold no slot and have no verdict.
Dismissible(gone) ==
    {r \in Requests \ started : r \notin held \ gone /\ verdict[r] = "none"}

\* Waiting work is dropped and unstarted callers hear so.  Work whose caller
\* left is dropped without a word.
Dismiss ==
    \E gone \in SUBSET (held \ started) :
        \E told \in SUBSET Dismissible(gone) :
            /\ held' = held \ gone
            /\ verdict' = Told(told, "not_started")
            /\ UNCHANGED <<started, limit>>

\* Dropping stale work and admitting new work is one step: the room that the
\* first makes is available to the second.
Admit(r) ==
    /\ r \notin held \union started
    /\ verdict[r] = "none"
    /\ \E gone \in SUBSET (held \ started) :
        /\ Cardinality(HeldOf(BudgetOf[r]) \ gone) < limit[BudgetOf[r]]
        /\ held' = (held \ gone) \union {r}
        /\ \E told \in SUBSET (Dismissible(gone) \ {r}) :
            verdict' = Told(told, "not_started")
    /\ UNCHANGED <<started, limit>>

Start(r) ==
    /\ r \in held \ started
    /\ started' = started \union {r}
    /\ UNCHANGED <<held, verdict, limit>>

Free(r) ==
    /\ r \in held \intersect started
    /\ held' = held \ {r}
    /\ UNCHANGED <<started, verdict, limit>>

\* Nobody hears about an execution that still holds its slot.
Answer(r) ==
    /\ r \in started \ held
    /\ verdict[r] = "none"
    /\ \E what \in {"completed", "unknown"} : verdict' = Told({r}, what)
    /\ UNCHANGED <<held, started, limit>>

\* An execution that dies gives its slot back; its caller can only learn that
\* the outcome is unknown.
Lose(r) ==
    /\ r \in held \intersect started
    /\ held' = held \ {r}
    /\ verdict' \in {verdict, Told({r}, "unknown")}
    /\ UNCHANGED <<started, limit>>

\* Lowering a ceiling takes no slot away.
Resize(b) ==
    /\ b \in Resizable
    /\ \E maximum \in Limits : limit' = [limit EXCEPT ![b] = maximum]
    /\ UNCHANGED <<held, started, verdict>>

Next ==
    \/ Dismiss
    \/ \E r \in Requests :
        Admit(r) \/ Start(r) \/ Free(r) \/ Answer(r) \/ Lose(r)
    \/ \E b \in Budgets : Resize(b)

Spec == Init /\ [][Next]_vars
=============================================================================

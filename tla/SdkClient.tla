----------------------------- MODULE SdkClient ------------------------------
(***************************************************************************)
(* AsyncClient of python/ai_protocol/client.py: calls that share a gate,   *)
(* the refreshes that set the gate, entering and closing, on one event     *)
(* loop.  No section under the client's condition contains an await except *)
(* wait itself, so taking the condition never suspends and every stretch   *)
(* between two awaits is one action.  An attempt is a request to a gateway *)
(* of which nothing is assumed but AdmissionContract, over a network that  *)
(* loses replies; with a dispatcher (shared) it is the one job handed to   *)
(* it, whose verdict is as good (Dispatcher!NotStartedIsTrue).             *)
(***************************************************************************)
EXTENDS Naturals, FiniteSets

CONSTANTS
    Callers,        \* One call each.
    Openers,        \* Tasks that enter the client, each then its poller.
    Refreshers,     \* Tasks that call refresh.
    NoRefresher,
    MaxAttempts,    \* 5 in the code.
    MaxRevision,    \* Bounds the changes of the owner's budget
    Limits,         \* and these are its ceilings.
    InitialLimit

ASSUME SdkClientAssumption ==
    /\ IsFiniteSet(Callers)
    /\ Openers \intersect Refreshers = {}
    /\ NoRefresher \notin Openers
    /\ MaxAttempts \in Nat \ {0}
    /\ MaxRevision \in Nat \ {0}
    /\ Limits \subseteq Nat \ {0}
    /\ InitialLimit \in Limits

VARIABLES
    shared,     \* Whether the client was made with a dispatcher's socket.
    phase,      \* Where each call is,
    number,     \* at which attempt,
    mayHaveExecuted,
    told,       \* and what its caller has heard.
    policy, active, ready, closed,  \* The gate.
    task,       \* Where each refreshing task is,
    snapshot,   \* the answer that is on its way to it,
    refresher, cancelled,   \* the poller aclose knows, those it cancels.
    sent,       \* Attempts that were sent.
    revision,
    held, started, verdict, limit   \* The gateway.

callVars == <<phase, number, mayHaveExecuted, told>>
gateVars == <<policy, active, ready, closed>>
taskVars == <<task, snapshot, refresher, cancelled>>
gatewayVars == <<revision, held, started, verdict, limit>>
vars == <<shared, callVars, gateVars, taskVars, sent, gatewayVars>>

Attempts == Callers \X (1 .. MaxAttempts)
Tasks == Openers \union Refreshers

Gateway == INSTANCE AdmissionContract
    WITH Requests <- Attempts, Budgets <- {"owner"},
         BudgetOf <- [a \in Attempts |-> "owner"], Resizable <- {"owner"},
         InitialLimit <- [b \in {"owner"} |-> InitialLimit]

NoPolicy == [revision |-> 0, maximum |-> 0]
Policies == [revision : 1 .. MaxRevision, maximum : Limits] \union {NoPolicy}

\* Calls that own a permit.
Holding == {c \in Callers : phase[c] = "sent" /\ ~shared}

Asking(f) == task[f] \in {"entering", "refreshing"}

TypeOK ==
    /\ shared \in BOOLEAN
    /\ phase \in [Callers -> {"new", "asleep", "woken", "connecting", "sent",
                              "backoff", "ended"}]
    /\ number \in [Callers -> 0 .. MaxAttempts]
    /\ mayHaveExecuted \in [Callers -> BOOLEAN]
    /\ told \in [Callers -> {"none", "completed", "not_started", "unknown",
                             "cancelled", "error"}]
    /\ policy \in Policies
    /\ active = Cardinality(Holding)
    /\ ready \in BOOLEAN
    /\ closed \in BOOLEAN
    /\ task \in [Tasks -> {"out", "entering", "idle", "refreshing", "ended"}]
    /\ snapshot \in [Tasks -> Policies]
    /\ refresher \in Openers \union {NoRefresher}
    /\ cancelled \subseteq Openers
    /\ sent \subseteq Attempts
    /\ revision \in 1 .. MaxRevision
    /\ Gateway!TypeOK

Init ==
    /\ shared \in BOOLEAN
    /\ phase = [c \in Callers |-> "new"]
    /\ number = [c \in Callers |-> 0]
    /\ mayHaveExecuted = [c \in Callers |-> FALSE]
    /\ told = [c \in Callers |-> "none"]
    /\ policy = NoPolicy
    /\ active = 0
    /\ ready = FALSE
    /\ closed = FALSE
    /\ task = [f \in Tasks |-> IF f \in Openers THEN "out" ELSE "idle"]
    /\ snapshot = [f \in Tasks |-> NoPolicy]
    /\ refresher = NoRefresher
    /\ cancelled = {}
    /\ sent = {}
    /\ revision = 1
    /\ Gateway!Init
-----------------------------------------------------------------------------
(* Calls.                                                                  *)

\* notify_all.
Notified(p) == [c \in Callers |-> IF p[c] = "asleep" THEN "woken" ELSE p[c]]

HasRoom == ready /\ (shared \/ active < policy.maximum)

\* Somebody has entered the client: it has a policy, or at least a poller.
Entered == policy # NoPolicy \/ refresher # NoRefresher

\* A call looks at the gate when it begins, after a sleep and when it was
\* woken.
Looks(c) ==
    /\ phase[c] \in {"new", "backoff", "woken"}
    /\ phase[c] = "new" => Entered
    /\ number' = [number EXCEPT ![c] = IF phase[c] = "woken" THEN @ ELSE @ + 1]

\* Mutant: the permit comes back, but nobody is told.
LeavesQuietly(c, p) ==
    /\ phase' = [phase EXCEPT ![c] = p]
    /\ active' = IF c \in Holding THEN active - 1 ELSE active

\* What a call holds is given back on every way out of the attempt.
Leaves(c, p) ==
    LET left == [phase EXCEPT ![c] = p]
    IN  IF c \in Holding
        THEN phase' = Notified(left) /\ active' = active - 1
        ELSE phase' = left /\ UNCHANGED active

Concludes(c, what) ==
    /\ Leaves(c, "ended")
    /\ told' = [told EXCEPT ![c] = what]

CallOutside(c) ==
    /\ phase[c] = "new"
    /\ ~Entered
    /\ Concludes(c, "error")
    /\ UNCHANGED <<shared, number, mayHaveExecuted, policy, ready, closed,
                   taskVars, sent, gatewayVars>>

\* client_closed.
Refuse(c) ==
    /\ Looks(c)
    /\ closed
    /\ Concludes(c, "not_started")
    /\ UNCHANGED <<shared, mayHaveExecuted, policy, ready, closed, taskVars,
                   sent, gatewayVars>>

\* The policy has no such operation, or the parameters do not fit it: then a
\* permit was taken and is given back at once, which wakes the others.
Reject(c) ==
    /\ Looks(c)
    /\ ~closed
    /\ HasRoom
    /\ phase' \in {[phase EXCEPT ![c] = "ended"],
                   Notified([phase EXCEPT ![c] = "ended"])}
    /\ told' = [told EXCEPT ![c] = "not_started"]
    /\ UNCHANGED <<shared, mayHaveExecuted, gateVars, taskVars, sent,
                   gatewayVars>>

Wait(c) ==
    /\ Looks(c)
    /\ ~closed
    /\ ~HasRoom
    /\ phase' = [phase EXCEPT ![c] = "asleep"]
    /\ UNCHANGED <<shared, mayHaveExecuted, told, gateVars, taskVars, sent,
                   gatewayVars>>

Send(c) ==
    /\ Looks(c)
    /\ ~closed
    /\ HasRoom
    /\ mayHaveExecuted' = [mayHaveExecuted EXCEPT ![c] = TRUE]
    /\ IF shared
       THEN /\ phase' = [phase EXCEPT ![c] = "connecting"]
            /\ UNCHANGED <<active, sent>>
       ELSE /\ phase' = [phase EXCEPT ![c] = "sent"]
            /\ active' = active + 1
            /\ sent' = sent \union {<<c, number'[c]>>}
    /\ UNCHANGED <<shared, told, policy, ready, closed, taskVars,
                   gatewayVars>>

\* The job is written to the dispatcher's socket.
Connect(c) ==
    /\ phase[c] = "connecting"
    /\ phase' = [phase EXCEPT ![c] = "sent"]
    /\ sent' = sent \union {<<c, number[c]>>}
    /\ UNCHANGED <<shared, number, mayHaveExecuted, told, gateVars, taskVars,
                   gatewayVars>>

\* invalid_dispatch_request, task_deadline, dispatcher_unavailable.
ConnectFails(c) ==
    /\ phase[c] = "connecting"
    /\ Concludes(c, "not_started")
    /\ UNCHANGED <<shared, number, mayHaveExecuted, policy, ready, closed,
                   taskVars, sent, gatewayVars>>

\* The gateway's word as a response.  A body may be no JSON.
Statuses(execution) ==
    CASE execution = "completed"   -> {"completed", "unreadable"}
      [] execution = "not_started" -> {"retryable", "refused"}
      [] execution = "unknown"     -> {"unknown"}
      [] OTHER                     -> {}

\* Nothing comes in time, or a dispatcher's frame is incomplete, invalid or
\* contradicts itself.
NoReply == {"lost"}

\* A response arrives, or the exchange fails.
Receives(c, what) ==
    /\ phase[c] = "sent"
    /\ what \in Statuses(verdict[<<c, number[c]>>]) \union NoReply

\* Mutant: any error of the gateway is taken for a refusal.
KnownIfAnswered(what) == what \in {"retryable", "refused", "unknown"}

\* The responses that say that nothing was executed.
Known(what) == what \in {"retryable", "refused"}

\* Mutant: a server error is retried.
RetriesErrors(what) == what \in {"retryable", "unknown"}

SafeToRetry(what) == what = "retryable"

\* number < 5, and Retry-After is shorter than what is left of the deadline.
Backoff(c) ==
    /\ ~shared
    /\ \E what \in {"retryable", "refused", "unknown"} :
        /\ Receives(c, what)
        /\ SafeToRetry(what)
        /\ mayHaveExecuted' = [mayHaveExecuted EXCEPT ![c] = ~Known(what)]
    /\ number[c] < MaxAttempts
    /\ Leaves(c, "backoff")
    /\ UNCHANGED <<shared, number, told, policy, ready, closed, taskVars,
                   sent, gatewayVars>>

Return(c) ==
    /\ Receives(c, "completed")
    /\ Concludes(c, "completed")
    /\ UNCHANGED <<shared, number, mayHaveExecuted, policy, ready, closed,
                   taskVars, sent, gatewayVars>>

\* Any other response may end the call, a retryable one too: it was the last
\* attempt, Retry-After is too long, or a dispatcher said so.
Fail(c) ==
    /\ \E what \in {"retryable", "refused", "unknown", "unreadable", "lost"} :
        /\ Receives(c, what)
        /\ mayHaveExecuted' = [mayHaveExecuted EXCEPT ![c] = ~Known(what)]
        /\ Concludes(c, IF Known(what) THEN "not_started" ELSE "unknown")
    /\ UNCHANGED <<shared, number, policy, ready, closed, taskVars, sent,
                   gatewayVars>>

\* Mutant: the permit is given back after a response only.
TimeoutHolding(c) ==
    /\ phase[c] # "ended"
    /\ phase[c] = "new" => Entered
    /\ phase' = [phase EXCEPT ![c] = "ended"]
    /\ told' = [told EXCEPT ![c] =
                    IF mayHaveExecuted[c] THEN "unknown" ELSE "not_started"]
    /\ UNCHANGED <<shared, number, mayHaveExecuted, gateVars, taskVars, sent,
                   gatewayVars>>

\* The one deadline of the call passes, or had passed when it began.
Timeout(c) ==
    /\ phase[c] # "ended"
    /\ phase[c] = "new" => Entered
    /\ Concludes(c, IF mayHaveExecuted[c] THEN "unknown" ELSE "not_started")
    /\ UNCHANGED <<shared, number, mayHaveExecuted, policy, ready, closed,
                   taskVars, sent, gatewayVars>>

\* The owner of the call cancels it.
Cancel(c) ==
    /\ phase[c] \notin {"new", "ended"}
    /\ Concludes(c, "cancelled")
    /\ UNCHANGED <<shared, number, mayHaveExecuted, policy, ready, closed,
                   taskVars, sent, gatewayVars>>

Proceeds(c) ==
    \/ Refuse(c) \/ Reject(c) \/ Wait(c) \/ Send(c)
    \/ Connect(c) \/ ConnectFails(c)
    \/ Backoff(c) \/ Return(c) \/ Fail(c)
-----------------------------------------------------------------------------
(* Refreshes.                                                              *)

\* The tasks that get no further because aclose cancels them.
Runs(f) == f \notin cancelled

Enter(o) ==
    /\ task[o] = "out"
    /\ ~closed
    /\ refresher = NoRefresher
    /\ task' = [task EXCEPT ![o] = "entering"]
    /\ UNCHANGED <<shared, callVars, gateVars, snapshot, refresher,
                   cancelled, sent, gatewayVars>>

\* Mutant: the poller does not try again after a failure.
AskWhileReady(f) ==
    /\ Runs(f)
    /\ task[f] = "idle"
    /\ ~closed
    /\ f \in Openers => ready
    /\ task' = [task EXCEPT ![f] = "refreshing"]
    /\ UNCHANGED <<shared, callVars, gateVars, snapshot, refresher,
                   cancelled, sent, gatewayVars>>

\* refresh, called by the poller after its delay or by anybody.  On a closed
\* client it only raises.
Ask(f) ==
    /\ Runs(f)
    /\ task[f] = "idle"
    /\ ~closed
    /\ task' = [task EXCEPT ![f] = "refreshing"]
    /\ UNCHANGED <<shared, callVars, gateVars, snapshot, refresher,
                   cancelled, sent, gatewayVars>>

\* The gateway reads revision and ceiling together.
Current == [revision |-> revision, maximum |-> limit["owner"]]

Answer(f) ==
    /\ Asking(f)
    /\ snapshot[f] = NoPolicy
    /\ snapshot' = [snapshot EXCEPT ![f] = Current]
    /\ UNCHANGED <<shared, callVars, gateVars, task, refresher, cancelled,
                   sent, gatewayVars>>

\* Mutant: revisions are not compared.
ConsistentIfSame(new, old) ==
    new.revision = old.revision => new.maximum = old.maximum

\* validate_policy; previous is falsy before the first policy.
Consistent(new, old) ==
    \/ old = NoPolicy
    \/ /\ new.revision >= old.revision
       /\ new.revision = old.revision => new.maximum = old.maximum

\* The task is done with this refresh.
Rests(f) ==
    /\ task' = [task EXCEPT ![f] = "idle"]
    /\ snapshot' = [snapshot EXCEPT ![f] = NoPolicy]

\* Mutant: a closed client takes a policy.
ApplyAlways(f) ==
    /\ Runs(f)
    /\ Asking(f)
    /\ snapshot[f] # NoPolicy
    /\ Consistent(snapshot[f], policy)
    /\ policy' = snapshot[f]
    /\ ready' = TRUE
    /\ phase' = Notified(phase)
    /\ Rests(f)
    /\ refresher' = IF task[f] = "entering" THEN f ELSE refresher
    /\ UNCHANGED <<shared, number, mayHaveExecuted, told, active, closed,
                   cancelled, sent, gatewayVars>>

\* The answer is judged against the policy of now.  Whoever was entering goes
\* on to start the poller, without another look at the client.
Apply(f) ==
    /\ Runs(f)
    /\ Asking(f)
    /\ snapshot[f] # NoPolicy
    /\ Consistent(snapshot[f], policy)
    /\ IF closed
       THEN UNCHANGED <<phase, policy, ready>>
       ELSE /\ policy' = snapshot[f]
            /\ ready' = TRUE
            /\ phase' = Notified(phase)
    /\ Rests(f)
    /\ refresher' = IF task[f] = "entering" THEN f ELSE refresher
    /\ UNCHANGED <<shared, number, mayHaveExecuted, told, active, closed,
                   cancelled, sent, gatewayVars>>

\* A timeout, an HTTP error, an answer that is invalid or inconsistent, or the
\* task is cancelled: new attempts are paused.
Pause(f) ==
    /\ Runs(f)
    /\ task[f] = "refreshing"
    /\ ready' = FALSE
    /\ phase' = Notified(phase)
    /\ Rests(f)
    /\ UNCHANGED <<shared, number, mayHaveExecuted, told, policy, active,
                   closed, refresher, cancelled, sent, gatewayVars>>

\* aclose up to its first await.  Then the transport is closed, and what is in
\* flight fails, if it is not answered first.
Shut ==
    /\ closed' = TRUE
    /\ ready' = FALSE
    /\ phase' = Notified(phase)
    /\ cancelled' = cancelled \union ({refresher} \ {NoRefresher})

Close ==
    /\ Shut
    /\ UNCHANGED <<shared, number, mayHaveExecuted, told, policy, active,
                   task, snapshot, refresher, sent, gatewayVars>>

\* Who cannot enter closes the client.
EnterFails(o) ==
    /\ task[o] = "entering"
    /\ Shut
    /\ task' = [task EXCEPT ![o] = "ended"]
    /\ snapshot' = [snapshot EXCEPT ![o] = NoPolicy]
    /\ UNCHANGED <<shared, number, mayHaveExecuted, told, policy, active,
                   refresher, sent, gatewayVars>>

\* The poller gets its CancelledError, which pauses the gate if it was in a
\* refresh, and aclose, which waits for it, goes on.
PollerCancelled(o) ==
    /\ o \in cancelled
    /\ IF task[o] = "refreshing"
       THEN ready' = FALSE /\ phase' = Notified(phase)
       ELSE UNCHANGED <<ready, phase>>
    /\ task' = [task EXCEPT ![o] = "ended"]
    /\ snapshot' = [snapshot EXCEPT ![o] = NoPolicy]
    /\ refresher' = NoRefresher
    /\ cancelled' = cancelled \ {o}
    /\ UNCHANGED <<shared, number, mayHaveExecuted, told, policy, active,
                   closed, sent, gatewayVars>>
-----------------------------------------------------------------------------
(* The gateway.                                                            *)

\* It does what its contract allows with the attempts it was sent, also when
\* nobody waits for the response any more.
GatewayStep ==
    /\ Gateway!Next
    /\ held' \subseteq sent
    /\ \A a \in Attempts \ sent : verdict'[a] = verdict[a]
    /\ UNCHANGED <<shared, callVars, gateVars, taskVars, sent, limit,
                   revision>>

\* A PATCH of the administrator; the same ceiling is no change.
SetLimit ==
    /\ revision < MaxRevision
    /\ Gateway!Resize("owner")
    /\ limit' # limit
    /\ revision' = revision + 1
    /\ UNCHANGED <<shared, callVars, gateVars, taskVars, sent>>

\* Revisions begin again, with the ceiling of a new configuration.  Work that
\* dies with the process is lost to its callers by Gateway!Next.
Restart ==
    /\ revision > 1
    /\ revision' = 1
    /\ Gateway!Resize("owner")
    /\ UNCHANGED <<shared, callVars, gateVars, taskVars, sent>>

Next ==
    \/ \E c \in Callers :
        CallOutside(c) \/ Proceeds(c) \/ Timeout(c) \/ Cancel(c)
    \/ \E o \in Openers : Enter(o) \/ EnterFails(o) \/ PollerCancelled(o)
    \/ \E f \in Tasks : Ask(f) \/ Answer(f) \/ Apply(f) \/ Pause(f)
    \/ Close
    \/ GatewayStep \/ SetLimit \/ Restart

Spec == Init /\ [][Next]_vars

\* Ready tasks run, a cancelled one hears of it and an exchange ends within
\* its timeout (30 s; 2 s for a refresh).  The network does not lose every
\* refresh of a poller.  The gateway owes nothing and no deadline need ever
\* pass.
Fairness ==
    /\ \A c \in Callers : WF_vars(Proceeds(c))
    /\ \A o \in Openers :
        /\ WF_vars(Ask(o))
        /\ SF_vars(Answer(o))
        /\ SF_vars(Apply(o))
        /\ WF_vars(Pause(o))
        /\ WF_vars(PollerCancelled(o))

FairSpec == Spec /\ Fairness
-----------------------------------------------------------------------------
(* Properties.                                                             *)

\* Nobody sleeps through a change: a call that waits for a notification has
\* nothing it could do, although permits come back on every way out and a
\* woken call may find the room taken again.
NoMissedWakeup ==
    \A c \in Callers : phase[c] = "asleep" => ~closed /\ ~HasRoom

\* End to end, a call that raises with "not_started" is never executed, also
\* when the deadline cuts in anywhere or the client is closed between two
\* attempts.
NotStartedIsTrue ==
    \A c \in Callers :
        told[c] = "not_started" => \A a \in started : a[1] # c

\* End to end, no call is executed twice, although attempts are repeated.
ExecutedOnce == \A a, b \in started : a[1] = b[1] => a = b

\* "Validate ... continuity": refreshes that overtake each other never take
\* the policy back, not even to another ceiling of the same revision.
PolicyAdvances ==
    [][/\ policy'.revision >= policy.revision
       /\ policy'.revision = policy.revision =>
            policy'.maximum = policy.maximum]_vars

UnderWay(c) == phase[c] \in {"connecting", "sent"}

\* "Stop new attempts": whoever was in the middle of something when the client
\* was closed, from then on no attempt begins and no policy is applied.
ClosedIsQuiet ==
    [][closed =>
        /\ ~ready'
        /\ policy' = policy
        /\ \A c \in Callers : UnderWay(c)' => UnderWay(c)]_vars

\* Under a gate that stays open no call waits for ever, even if no deadline
\* ever passes and the gateway answers nothing.
WaitersServed ==
    <>[]ready =>
        \A c \in Callers :
            phase[c] = "asleep" ~> phase[c] \notin {"asleep", "woken"}

\* "Recovery": a client that was paused by a late, lost or older answer opens
\* again, as long as the gateway's policy does not fall behind its own.
Recovers ==
    <>[]Consistent(Current, policy) =>
        \A o \in Openers : refresher = o ~> ready \/ closed
=============================================================================

------------------------------ MODULE Gateway ------------------------------
(***************************************************************************)
(* The gateway process: owner budgets (src/budget.rs), the two admission   *)
(* queues (src/queue.rs), the HTTP handlers that enqueue, the scheduler    *)
(* task and the executors it spawns (src/lib.rs), and closing, draining    *)
(* and dropping the gateway (src/gateway.rs).                              *)
(*                                                                         *)
(* Handlers, the scheduler and the executors run in parallel.  One step    *)
(* here is one critical section under the queue lock, except that the      *)
(* scheduler's own critical section, during which time passes, callers     *)
(* leave and executors finish, is split at every selection.  A waiting     *)
(* class is the set of its queued jobs, served in admission order: Queues, *)
(* which has the deques, and this module implement the same WaitingLine.   *)
(***************************************************************************)
EXTENDS Selection, Integers, FiniteSets

CONSTANTS
    Requests,       \* The submissions, each made at most once.
    Budgets,        \* One budget per (owner, class).
    BudgetOf,       \* The budget of each request's identity.
    BudgetClass,    \* The class of each budget.
    InitialLimit,   \* The configured ceiling of each budget.
    Limits,         \* The ceilings an administrator sets.
    MaxRevision,    \* Bound: no resize once a budget has this revision.
    ExecutionLimit, \* Executors at a time.
    QueueCapacity,  \* Waiting jobs per class.
    MaxWait,        \* Clock ticks a job of each class may wait.
    Mode,           \* The scheduler mode.
    Outcomes        \* How an execution may end: completed, execution_failed.

ASSUME GatewayAssumption ==
    /\ IsFiniteSet(Requests)
    /\ BudgetOf \in [Requests -> Budgets]
    /\ BudgetClass \in [Budgets -> Classes]
    /\ InitialLimit \in [Budgets -> Nat \ {0}]
    /\ Limits \subseteq Nat \ {0}
    /\ MaxRevision \in Nat
    /\ ExecutionLimit \in Nat \ {0}
    /\ QueueCapacity \in Nat \ {0}
    /\ MaxWait \in [Classes -> Nat \ {0}]
    /\ Mode \in Modes
    /\ Outcomes \subseteq {"completed", "execution_failed"}

VARIABLES
    maximum,        \* Per budget, the ceiling.
    outstanding,    \* Per budget, the slots in use.
    revision,       \* Per budget, how often the ceiling changed.
    job,            \* Where the job of each request is.
    ticket,         \* Of a waiting job, its admission number and the ticks
                    \* left until its deadline.
    nextOrder,
    streak,         \* interactive_streak.
    competing,      \* Both classes were waiting when the selected job was.
    sched,          \* Where the scheduler task is.
    tasks,          \* The scheduler's JoinSet: spawned and not yet reaped.
    active,         \* The counter of running executors.
    timer,          \* Ticks until the armed deadline fires.
    notified,       \* The stored wake-up of the Notify.
    call,           \* Where the caller of each request is.
    reply,          \* What was sent to each caller.
    started,        \* History: the requests handed to an executor.
    closing,        \* Admission is closed.
    owner,          \* The Gateway value: serving, or dropped.
    cleanup,        \* A spawned reject_pending waits for the lock.
    rejectOnce      \* The planned test rejection is still due.

budgetVars == <<maximum, outstanding, revision>>
queueVars == <<job, ticket, nextOrder, streak>>
schedVars == <<competing, sched, tasks, active, timer>>
callVars == <<call, reply, started>>
ownerVars == <<closing, owner, cleanup, rejectOnce>>
vars == <<budgetVars, queueVars, schedVars, notified, callVars, ownerVars>>

JobStates == {"absent", "queued", "selected", "running", "released", "gone"}

NotStarted == {"test_rejection", "gateway_closed", "budget_exhausted",
               "queue_full", "queue_timeout"}
Unknown == {"execution_failed", "internal_error"}
Replies == NotStarted \union Unknown \union {"none", "completed"}

NoTimer == -1
NoTicket == [order |-> 0, left |-> 0]

ClassOf(r) == BudgetClass[BudgetOf[r]]

Of(b) == {r \in Requests : BudgetOf[r] = b}
OfClass(class) == {r \in Requests : ClassOf(r) = class}

Queued == {r \in Requests : job[r] = "queued"}
Running == {r \in Requests : job[r] = "running"}

\* The jobs that own a Permit.
Holding == {r \in Requests : job[r] \in {"queued", "selected", "running"}}

Cancelled(r) == call[r] = "cancelled"

\* Only the scheduler keeps the queue lock from one step to the next.
LockFree == sched \notin {"fill", "handoff", "exit"}

Finished == {r \in tasks : job[r] = "gone"}

TypeOK ==
    /\ maximum \in [Budgets -> Nat \ {0}]
    /\ outstanding \in [Budgets -> Nat]
    /\ revision \in [Budgets -> Nat]
    /\ job \in [Requests -> JobStates]
    /\ ticket \in [Requests -> [order : Nat, left : Nat]]
    /\ nextOrder \in Nat
    /\ streak \in 0 .. StreakLimit
    /\ competing \in BOOLEAN
    /\ sched \in {"lock", "fill", "handoff", "exit", "select", "stopped",
                  "aborted"}
    /\ tasks \subseteq Requests
    /\ active \in Nat
    /\ timer \in Nat \union {NoTimer}
    /\ notified \in BOOLEAN
    /\ call \in [Requests ->
                    {"idle", "posting", "awaiting", "answered", "cancelled"}]
    /\ reply \in [Requests -> Replies]
    /\ started \subseteq Requests
    /\ closing \in BOOLEAN
    /\ owner \in {"serving", "dropped"}
    /\ cleanup \in BOOLEAN
    /\ rejectOnce \in BOOLEAN

Init ==
    /\ maximum = InitialLimit
    /\ outstanding = [b \in Budgets |-> 0]
    /\ revision = [b \in Budgets |-> 1]
    /\ job = [r \in Requests |-> "absent"]
    /\ ticket = [r \in Requests |-> NoTicket]
    /\ nextOrder = 0
    /\ streak = 0
    /\ competing = FALSE
    /\ sched = "lock"
    /\ tasks = {}
    /\ active = 0
    /\ timer = NoTimer
    /\ notified = FALSE
    /\ call = [r \in Requests |-> "idle"]
    /\ reply = [r \in Requests |-> "none"]
    /\ started = {}
    /\ closing = FALSE
    /\ owner = "serving"
    /\ cleanup = FALSE
    /\ rejectOnce \in BOOLEAN

-----------------------------------------------------------------------------
(* Dropping waiting work.                                                  *)

\* The caller left, or the deadline passed.
Stale(r) == Cancelled(r) \/ ticket[r].left = 0

\* Jobs that maintain removes.
Swept == {r \in Queued : Stale(r)}

Removed(gone) ==
    [r \in Requests |-> IF r \in gone THEN "gone" ELSE job[r]]

Forgotten(gone) ==
    [r \in Requests |-> IF r \in gone THEN NoTicket ELSE ticket[r]]

\* Every removed job drops its Permit.
\* Mutant: a job whose caller left is dropped without its Permit.
FreedUnlessCancelled(gone) ==
    [b \in Budgets |-> outstanding[b]
        - Cardinality({r \in gone \intersect Of(b) : ~Cancelled(r)})]
Freed(gone) ==
    [b \in Budgets |-> outstanding[b] - Cardinality(gone \intersect Of(b))]

\* A caller that left receives nothing.
Sent(gone, what) ==
    [r \in Requests |->
        IF r \in gone /\ ~Cancelled(r) THEN what ELSE reply[r]]

\* The whole of Queues::maintain.
Maintain ==
    /\ job' = Removed(Swept)
    /\ ticket' = Forgotten(Swept)
    /\ outstanding' = Freed(Swept)
    /\ reply' = Sent(Swept, "queue_timeout")

-----------------------------------------------------------------------------
(* The HTTP handler: enqueue.                                              *)

\* The request passed the test rejection and holds the queue lock.
Enqueues(r) ==
    /\ call[r] = "idle"
    /\ ~(ClassOf(r) = "agent" /\ rejectOnce)
    /\ LockFree

\* The first agent request is turned away before it touches any queue.
RejectTest(r) ==
    /\ call[r] = "idle"
    /\ ClassOf(r) = "agent" /\ rejectOnce
    /\ rejectOnce' = FALSE
    /\ call' = [call EXCEPT ![r] = "answered"]
    /\ reply' = [reply EXCEPT ![r] = "test_rejection"]
    /\ UNCHANGED <<budgetVars, queueVars, schedVars, notified, started,
                   closing, owner, cleanup>>

RejectClosed(r) ==
    /\ Enqueues(r)
    /\ closing
    /\ call' = [call EXCEPT ![r] = "answered"]
    /\ reply' = [reply EXCEPT ![r] = "gateway_closed"]
    /\ UNCHANGED <<budgetVars, queueVars, schedVars, notified, started,
                   ownerVars>>

\* Room in the budget and in the class queue is judged after maintain.
\* Mutants: it is judged before; one job too many is admitted.
ExhaustedBefore(r) == outstanding[BudgetOf[r]] >= maximum[BudgetOf[r]]
ExhaustedLate(r) == Freed(Swept)[BudgetOf[r]] > maximum[BudgetOf[r]]
BudgetExhausted(r) == Freed(Swept)[BudgetOf[r]] >= maximum[BudgetOf[r]]

QueueFull(r) ==
    Cardinality((Queued \ Swept) \intersect OfClass(ClassOf(r)))
        >= QueueCapacity

RejectBudget(r) ==
    /\ Enqueues(r)
    /\ ~closing
    /\ BudgetExhausted(r)
    /\ job' = Removed(Swept)
    /\ ticket' = Forgotten(Swept)
    /\ outstanding' = Freed(Swept)
    /\ reply' = [Sent(Swept, "queue_timeout") EXCEPT ![r] = "budget_exhausted"]
    /\ call' = [call EXCEPT ![r] = "answered"]
    /\ UNCHANGED <<maximum, revision, nextOrder, streak,
                   schedVars, notified, started, ownerVars>>

\* The slot and the admission number were already taken; the slot is given
\* back as the handler returns, the number is not.
RejectFull(r) ==
    /\ Enqueues(r)
    /\ ~closing
    /\ ~BudgetExhausted(r)
    /\ QueueFull(r)
    /\ nextOrder' = nextOrder + 1
    /\ job' = Removed(Swept)
    /\ ticket' = Forgotten(Swept)
    /\ outstanding' = Freed(Swept)
    /\ reply' = [Sent(Swept, "queue_timeout") EXCEPT ![r] = "queue_full"]
    /\ call' = [call EXCEPT ![r] = "answered"]
    /\ UNCHANGED <<maximum, revision, streak, schedVars,
                   notified, started, ownerVars>>

Admit(r) ==
    /\ Enqueues(r)
    /\ ~closing
    /\ ~BudgetExhausted(r)
    /\ ~QueueFull(r)
    /\ job' = [Removed(Swept) EXCEPT ![r] = "queued"]
    /\ outstanding' = [Freed(Swept) EXCEPT ![BudgetOf[r]] = @ + 1]
    /\ reply' = Sent(Swept, "queue_timeout")
    /\ ticket' = [Forgotten(Swept) EXCEPT ![r] =
                    [order |-> nextOrder, left |-> MaxWait[ClassOf(r)]]]
    /\ nextOrder' = nextOrder + 1
    /\ call' = [call EXCEPT ![r] = "posting"]
    /\ UNCHANGED <<maximum, revision, streak, schedVars, notified, started,
                   ownerVars>>

\* Mutant: the handler forgets to wake the scheduler.
NotifyNobody(r) ==
    /\ call[r] = "posting"
    /\ call' = [call EXCEPT ![r] = "awaiting"]
    /\ UNCHANGED <<budgetVars, queueVars, schedVars, notified, reply, started,
                   ownerVars>>

\* The lock is released before the scheduler is woken.
NotifyAdmission(r) ==
    /\ call[r] = "posting"
    /\ notified' = TRUE
    /\ call' = [call EXCEPT ![r] = "awaiting"]
    /\ UNCHANGED <<budgetVars, queueVars, schedVars, reply, started,
                   ownerVars>>

Receive(r) ==
    /\ call[r] = "awaiting"
    /\ reply[r] # "none"
    /\ call' = [call EXCEPT ![r] = "answered"]
    /\ UNCHANGED <<budgetVars, queueVars, schedVars, notified, reply, started,
                   ownerVars>>

\* The client disconnects and the handler, with its receiver, is dropped.
Cancel(r) ==
    /\ call[r] = "awaiting"
    /\ call' = [call EXCEPT ![r] = "cancelled"]
    /\ UNCHANGED <<budgetVars, queueVars, schedVars, notified, reply, started,
                   ownerVars>>

-----------------------------------------------------------------------------
(* The scheduler task: run_scheduler.                                      *)

SchedLock ==
    /\ sched = "lock"
    /\ sched' = "fill"
    /\ Maintain
    /\ UNCHANGED <<maximum, revision, nextOrder, streak,
                   competing, tasks, active, timer, notified, call, started,
                   ownerVars>>

Orders(jobs) == {ticket[r].order : r \in jobs}

\* pop_next up to the removal of the front job: maintain at a fresh instant,
\* then the choice of a class.
Pop ==
    LET waiting == Queued \ Swept
        interactive == waiting \intersect OfClass("interactive")
        agents == waiting \intersect OfClass("agent")
        chosen == IF PicksInteractive(Mode, streak, Orders(interactive),
                                      Orders(agents))
                  THEN interactive ELSE agents
    IN  /\ sched = "fill"
        /\ Cardinality(tasks) < ExecutionLimit
        /\ \E r \in chosen :
            /\ \A q \in chosen : ticket[r].order <= ticket[q].order
            /\ job' = [Removed(Swept) EXCEPT ![r] = "selected"]
        /\ ticket' = Forgotten(Swept)
        /\ outstanding' = Freed(Swept)
        /\ reply' = Sent(Swept, "queue_timeout")
        /\ competing' = (interactive # {} /\ agents # {})
        /\ sched' = "handoff"
        /\ UNCHANGED <<maximum, revision, nextOrder, streak,
                       tasks, active, timer, notified, call, started,
                       ownerVars>>

\* pop_next on two empty deques.
PopNothing ==
    /\ sched = "fill"
    /\ Cardinality(tasks) < ExecutionLimit
    /\ Queued \ Swept = {}
    /\ Maintain
    /\ streak' = 0
    /\ sched' = "exit"
    /\ UNCHANGED <<maximum, revision, nextOrder, competing,
                   tasks, active, timer, notified, call, started, ownerVars>>

FillDone ==
    /\ sched = "fill"
    /\ Cardinality(tasks) >= ExecutionLimit
    /\ sched' = "exit"
    /\ UNCHANGED <<budgetVars, queueVars, competing, tasks, active, timer,
                   notified, callVars, ownerVars>>

\* The selected job's caller left, or its deadline passed, since maintain.
Discard(r) ==
    /\ sched = "handoff"
    /\ job[r] = "selected"
    /\ Stale(r)
    /\ job' = Removed({r})
    /\ ticket' = Forgotten({r})
    /\ outstanding' = Freed({r})
    /\ reply' = Sent({r}, "queue_timeout")
    /\ sched' = "fill"
    /\ UNCHANGED <<maximum, revision, nextOrder, streak,
                   competing, tasks, active, timer, notified, call, started,
                   ownerVars>>

\* The last deadline check and the spawn, with no await between them.
Handoff(r) ==
    /\ sched = "handoff"
    /\ job[r] = "selected"
    /\ ~Stale(r)
    /\ job' = [job EXCEPT ![r] = "running"]
    /\ ticket' = Forgotten({r})
    /\ streak' = NextStreak(Mode, streak, competing, ClassOf(r))
    /\ tasks' = tasks \union {r}
    /\ active' = active + 1
    /\ started' = started \union {r}
    /\ sched' = "fill"
    /\ UNCHANGED <<budgetVars, nextOrder, competing, timer,
                   notified, call, reply, ownerVars>>

\* Mutant: the scheduler does not wait for its executors.
DrainedQueues == closing /\ Queued = {}
Drained == closing /\ tasks = {} /\ Queued = {}

\* The scheduler returns once a closed gateway is empty.
SchedStop ==
    /\ sched = "exit"
    /\ Drained
    /\ sched' = "stopped"
    /\ UNCHANGED <<budgetVars, queueVars, competing, tasks, active, timer,
                   notified, callVars, ownerVars>>

\* The least of the jobs' deadlines.
EarliestDeadline(jobs) ==
    IF jobs = {}
    THEN {NoTimer}
    ELSE {ticket[r].left :
            r \in {q \in jobs :
                    \A p \in jobs : ticket[q].left <= ticket[p].left}}

\* Mutant: the deadlines of waiting agents are forgotten.
NextInteractiveDeadline ==
    EarliestDeadline(Queued \intersect OfClass("interactive"))
NextDeadline == EarliestDeadline(Queued)

\* It sleeps until a notification, a finished executor or the next deadline.
SchedSleep ==
    /\ sched = "exit"
    /\ ~Drained
    /\ timer' \in NextDeadline
    /\ sched' = "select"
    /\ UNCHANGED <<budgetVars, queueVars, competing, tasks, active, notified,
                   callVars, ownerVars>>

\* The branch that wins the select cancels the other two.  Then the finished
\* executors are reaped, and only then the lock is awaited.
Wakes ==
    /\ sched = "select"
    /\ tasks' = tasks \ Finished
    /\ timer' = NoTimer
    /\ sched' = "lock"
    /\ UNCHANGED <<budgetVars, queueVars, competing, active, callVars,
                   ownerVars>>

WakeNotified == Wakes /\ notified /\ notified' = FALSE
WakeJoined == Wakes /\ Finished # {} /\ notified' = notified
WakeTimer == Wakes /\ timer = 0 /\ notified' = notified

\* An aborted task ends where it awaits.  Its JoinSet goes with it, which
\* aborts the executors.
SchedAbort ==
    /\ owner = "dropped"
    /\ sched \in {"lock", "select"}
    /\ sched' = "aborted"
    /\ tasks' = {}
    /\ timer' = NoTimer
    /\ UNCHANGED <<budgetVars, queueVars, competing, active, notified,
                   callVars, ownerVars>>

Scheduler ==
    \/ SchedLock
    \/ Pop \/ PopNothing \/ FillDone
    \/ \E r \in Requests : Discard(r) \/ Handoff(r)
    \/ SchedStop \/ SchedSleep
    \/ WakeNotified \/ WakeJoined \/ WakeTimer
    \/ SchedAbort

-----------------------------------------------------------------------------
(* The executors: one spawned task per selected job.                       *)

\* The execution ended, normally or by its timeout; the slot is returned
\* before the caller hears.
Release(r) ==
    /\ job[r] = "running"
    /\ job' = [job EXCEPT ![r] = "released"]
    /\ outstanding' = Freed({r})
    /\ active' = active - 1
    /\ UNCHANGED <<maximum, revision, ticket, nextOrder, streak,
                   competing, sched, tasks, timer, notified, callVars,
                   ownerVars>>

Answer(r) ==
    /\ job[r] = "released"
    /\ job' = [job EXCEPT ![r] = "gone"]
    /\ \E what \in Outcomes : reply' = Sent({r}, what)
    /\ UNCHANGED <<budgetVars, ticket, nextOrder, streak, schedVars, notified,
                   call, started, ownerVars>>

\* The task panics, or is aborted with the scheduler: its permit is dropped,
\* and the caller finds the reply channel closed.
Unwind(r) ==
    /\ job[r] = "running"
    /\ job' = Removed({r})
    /\ outstanding' = Freed({r})
    /\ active' = active - 1
    /\ reply' = Sent({r}, "internal_error")
    /\ UNCHANGED <<maximum, revision, ticket, nextOrder, streak,
                   competing, sched, tasks, timer, notified, call, started,
                   ownerVars>>

-----------------------------------------------------------------------------
(* Administration, closing and dropping.                                   *)

\* set_maximum, through the admin route or set_agent_limit.
SetLimit(b) ==
    /\ BudgetClass[b] = "agent"
    /\ revision[b] < MaxRevision
    /\ \E limit \in Limits \ {maximum[b]} :
        maximum' = [maximum EXCEPT ![b] = limit]
    /\ revision' = [revision EXCEPT ![b] = @ + 1]
    /\ UNCHANGED <<outstanding, queueVars, schedVars, notified, callVars,
                   ownerVars>>

\* Mutant: closing does not wake the scheduler.
CloseQuietly ==
    /\ owner = "serving"
    /\ LockFree
    /\ closing' = TRUE
    /\ UNCHANGED <<budgetVars, queueVars, schedVars, notified, callVars, owner,
                   cleanup, rejectOnce>>

Close ==
    /\ owner = "serving"
    /\ LockFree
    /\ closing' = TRUE
    /\ notified' = TRUE
    /\ UNCHANGED <<budgetVars, queueVars, schedVars, callVars, owner, cleanup,
                   rejectOnce>>

\* Mutant: running work is told it was rejected.
RejectRunning ==
    /\ job' = Removed(Holding)
    /\ ticket' = Forgotten(Holding)
    /\ outstanding' = Freed(Holding)
    /\ reply' = Sent(Holding, "gateway_closed")
RejectPending ==
    /\ job' = Removed(Queued)
    /\ ticket' = Forgotten(Queued)
    /\ outstanding' = Freed(Queued)
    /\ reply' = Sent(Queued, "gateway_closed")

\* Drop without waiting: if the lock is taken, by the scheduler or for a
\* moment by a handler, the pending jobs are left to a spawned task.
\* Mutant: nobody comes back for the pending jobs.
DropAndForget ==
    /\ owner = "serving"
    /\ owner' = "dropped"
    /\ closing' = TRUE
    /\ UNCHANGED <<budgetVars, queueVars, schedVars, notified, callVars,
                   cleanup, rejectOnce>>

DropLocked ==
    /\ owner = "serving"
    /\ owner' = "dropped"
    /\ closing' = TRUE
    /\ cleanup' = TRUE
    /\ UNCHANGED <<budgetVars, queueVars, schedVars, notified, callVars,
                   rejectOnce>>

DropUnlocked ==
    /\ owner = "serving"
    /\ LockFree
    /\ owner' = "dropped"
    /\ closing' = TRUE
    /\ RejectPending
    /\ UNCHANGED <<maximum, revision, nextOrder, streak,
                   schedVars, notified, call, started, cleanup, rejectOnce>>

CleanUp ==
    /\ cleanup
    /\ LockFree
    /\ cleanup' = FALSE
    /\ RejectPending
    /\ UNCHANGED <<maximum, revision, nextOrder, streak,
                   schedVars, notified, call, started, closing, owner,
                   rejectOnce>>

-----------------------------------------------------------------------------

\* Time passes for every deadline and for the armed timer alike.
Tick ==
    /\ timer > 0 \/ \E r \in Requests : ticket[r].left > 0
    /\ ticket' = [r \in Requests |->
                    IF ticket[r].left > 0
                    THEN [ticket[r] EXCEPT !.left = @ - 1]
                    ELSE ticket[r]]
    /\ timer' = IF timer > 0 THEN timer - 1 ELSE timer
    /\ UNCHANGED <<budgetVars, job, nextOrder, streak, competing, sched, tasks,
                   active, notified, callVars, ownerVars>>

Handler(r) ==
    \/ RejectTest(r) \/ RejectClosed(r) \/ RejectBudget(r) \/ RejectFull(r)
    \/ Admit(r) \/ NotifyAdmission(r) \/ Receive(r) \/ Cancel(r)

Executor(r) == Release(r) \/ Unwind(r) \/ Answer(r)

Next ==
    \/ \E r \in Requests : Handler(r) \/ Executor(r)
    \/ Scheduler
    \/ \E b \in Budgets : SetLimit(b)
    \/ Close \/ DropLocked \/ DropUnlocked \/ CleanUp
    \/ Tick

Spec == Init /\ [][Next]_vars

\* The runtime polls every ready task and time passes.  An execution ends
\* because execution_timeout bounds it.  Nobody has to submit, leave, resize,
\* close or drop, and nothing makes a task panic.
Fairness ==
    /\ WF_vars(Scheduler)
    /\ \A r \in Requests :
        /\ WF_vars(NotifyAdmission(r))
        /\ WF_vars(Receive(r))
        /\ WF_vars(Executor(r))
    /\ WF_vars(CleanUp)
    /\ WF_vars(Tick)

FairSpec == Spec /\ Fairness
-----------------------------------------------------------------------------
(* Safety.                                                                 *)

\* A permit is owned by exactly one job: the counter of each budget is the
\* number of its jobs in the queues, at handoff and in executors, whatever
\* path (expiry, cancellation, full queue, completion, panic, drop) ended the
\* others.  Permit::drop and Active::drop cannot underflow.
BudgetAccounting ==
    /\ \A b \in Budgets :
        outstanding[b] = Cardinality(Holding \intersect Of(b))
    /\ active = Cardinality(Running)

\* A caller that heard "not_started" will never see its work executed, and one
\* that heard an outcome had it executed.  Clients retry on the strength of
\* this.
ExecutionCertainty ==
    \A r \in Requests :
        /\ reply[r] \in NotStarted => r \notin started
        /\ reply[r] \in Unknown \union {"completed"} => r \in started

\* A caller that hears anything no longer occupies a slot of its budget, so a
\* request sent in response to the answer is not turned away on its account.
SlotFreedBeforeReply ==
    \A r \in Requests : reply[r] # "none" => r \notin Holding

\* While the scheduler sleeps, every waiting job will wake it: its handler
\* has yet to notify, or a notification is stored, or all executors are busy
\* and the armed timer fires no later than the job's deadline.
NoLostWakeup ==
    sched = "select" =>
        \A r \in Queued :
            \/ call[r] = "posting" \/ notified
            \/ /\ Cardinality(tasks) = ExecutionLimit
               /\ timer \in 0 .. ticket[r].left

\* Neither executors nor a waiting class outgrow their configured limits, not
\* even while an aborted scheduler's executors are still unwinding.
Bounded ==
    /\ Cardinality(Running) <= ExecutionLimit
    /\ \A class \in Classes :
        Cardinality(Queued \intersect OfClass(class)) <= QueueCapacity

\* A scheduler that returned left no work behind and none can arrive.
StoppedIsDrained ==
    sched = "stopped" =>
        /\ closing
        /\ \A r \in Requests : job[r] \in {"absent", "gone"}

\* Once a dropped gateway has rejected its pending jobs, a router that
\* outlives it cannot strand another one in the queues.
DroppedStaysEmpty == owner = "dropped" /\ ~cleanup => Queued = {}

Replied(r, what) == reply[r] = "none" /\ reply'[r] = what

\* A waiting job that nobody wants any more or that is too late never takes
\* a slot from a request: 429 means that live work fills the budget, or the
\* class's queue.
Live ==
    {r \in Holding :
        job[r] = "queued" => ~Cancelled(r) /\ ticket[r].left > 0}

RejectionsJustified ==
    [][\A r \in Requests :
        /\ Replied(r, "budget_exhausted") =>
            Cardinality(Live \intersect Of(BudgetOf[r]))
                >= maximum[BudgetOf[r]]
        /\ Replied(r, "queue_full") =>
            Cardinality(Live \intersect Queued \intersect OfClass(ClassOf(r)))
                >= QueueCapacity]_vars

\* Work starts before its deadline and while its caller waits, though the
\* clock and the caller move between maintain and the handoff.
NoStaleStart ==
    [][\A r \in started' \ started :
        job[r] = "selected" /\ ticket[r].left > 0 /\ ~Cancelled(r)]_vars

-----------------------------------------------------------------------------
(* Liveness, under FairSpec.                                               *)

\* Every admitted caller that stays is answered, by a result, an expiry, or
\* the closing or dropping of the gateway.
AdmittedAnswered ==
    \A r \in Requests :
        call[r] = "posting" ~> call[r] \in {"answered", "cancelled"}

\* Closing drains: the scheduler returns unless the gateway is dropped first.
ClosedStops == closing ~> sched = "stopped" \/ owner = "dropped"

\* Dropping the gateway returns every slot, though routers remain.
DroppedReleasesAll == owner = "dropped" ~> [](Holding = {})

-----------------------------------------------------------------------------
(* The gateway implements what it promises.                                *)

VerdictOf(what) ==
    CASE what = "none" -> "none"
      [] what = "completed" -> "completed"
      [] what \in NotStarted -> "not_started"
      [] what \in Unknown -> "unknown"

Contract == INSTANCE AdmissionContract WITH
    Resizable <- {b \in Budgets : BudgetClass[b] = "agent"},
    held <- Holding,
    started <- started,
    verdict <- [r \in Requests |-> VerdictOf(reply[r])],
    limit <- maximum

\* Every step of handlers, scheduler, executors and owner is a step of the
\* admission contract or invisible to it.
ImplementsContract == Contract!Spec

-----------------------------------------------------------------------------
(* The queue of the gateway is the line that Queues implements.            *)

\* A job that found its queue full is gone; one that never got as far as the
\* queues is new for ever.
PlaceOf(r) ==
    CASE r \in started -> "started"
      [] job[r] = "queued" -> "waiting"
      [] job[r] = "selected" -> "selected"
      [] job[r] = "absent" /\ reply[r] # "queue_full" -> "new"
      [] OTHER -> "gone"

LinePlace == [r \in Requests |-> PlaceOf(r)]

Earlier ==
    {pair \in Queued \X Queued :
        ticket[pair[1]].order < ticket[pair[2]].order}

Spoilt == {r \in Requests : job[r] \in {"queued", "selected"} /\ Stale(r)}

Line == INSTANCE WaitingLine WITH
    Jobs <- Requests,
    JobClass <- [r \in Requests |-> ClassOf(r)],
    mode <- Mode,
    place <- LinePlace,
    before <- Earlier,
    stale <- Spoilt,
    contested <- competing

\* Every handler, sweep and selection of the gateway moves the line in a way
\* that the deques of src/queue.rs can.
ImplementsLine == Line!Spec
=============================================================================

----------------------------- MODULE Dispatcher -----------------------------
(***************************************************************************)
(* The local dispatcher (src/bin/dispatcher.rs) with its retry loop        *)
(* (src/bin/load/retry.rs) and its clients (src/bin/client/dispatch.rs).   *)
(* Each attempt of a job is a request to a gateway of which nothing is     *)
(* assumed but AdmissionContract, over a network that loses replies.  The  *)
(* gate is taken for granted: an acquisition or a drop is one step here    *)
(* (Gate splits it), and a refresh brings some policy of the gateway, or   *)
(* fails.                                                                  *)
(***************************************************************************)
EXTENDS Naturals, Sequences, FiniteSets

CONSTANTS
    Jobs,
    MaxAttempts,    \* 5 in the code.
    Capacity,       \* Connections, and attempts in the queue.
    Limits,         \* The ceilings of the owner's budget at the gateway,
    InitialLimit    \* of which discovery told this one.

ASSUME DispatcherAssumption ==
    /\ IsFiniteSet(Jobs)
    /\ MaxAttempts \in Nat \ {0}
    /\ Capacity \in Nat \ {0}
    /\ Limits \subseteq Nat \ {0}
    /\ InitialLimit \in Limits

VARIABLES
    phase,      \* Where each connection is in job and its retry loop.
    number,     \* The attempt its loop is at.
    answer,     \* What that attempt's reply channel carries.
    progress,
    queue,
    executor, current,      \* The consumer of the queue, the attempt it has.
    active, ready, maximum, \* The gate.
    http,       \* How far the task of each attempt is.
    response,   \* What send returned for each attempt.
    late,       \* Jobs whose deadline has passed.
    told,       \* The execution that each client concludes.
    main,
    held, started, verdict, limit   \* The gateway.

connectionVars == <<phase, number, answer, progress>>
executorVars == <<queue, executor, current>>
gateVars == <<active, ready, maximum>>
httpVars == <<http, response>>
gatewayVars == <<held, started, verdict, limit>>
vars == <<connectionVars, executorVars, gateVars, httpVars, late, told, main,
          gatewayVars>>

Attempts == Jobs \X (1 .. MaxAttempts)
NoAttempt == <<>>

Gateway == INSTANCE AdmissionContract
    WITH Requests <- Attempts, Budgets <- {"owner"},
         BudgetOf <- [a \in Attempts |-> "owner"], Resizable <- {"owner"},
         InitialLimit <- [b \in {"owner"} |-> InitialLimit]

Executions == {"none", "completed", "not_started", "unknown"}
Answers == {"none", "completed", "retryable", "refused", "unknown", "error"}

\* Attempts whose task owns a permit.
Holding == {a \in Attempts : http[a] \in {"sent", "arrived"}}

TypeOK ==
    /\ phase \in [Jobs -> {"new", "submit", "waiting", "backoff", "ended"}]
    /\ number \in [Jobs -> 0 .. MaxAttempts]
    /\ answer \in [Jobs -> Answers]
    /\ progress \in [Jobs -> [mayHaveExecuted : BOOLEAN, closed : BOOLEAN]]
    /\ queue \in Seq(Attempts)
    /\ Len(queue) <= Capacity
    /\ executor \in {"recv", "select", "granted", "checked", "draining",
                    "ended"}
    /\ current \in Attempts \union {NoAttempt}
    /\ active = Cardinality(Holding)
                + IF executor \in {"granted", "checked"} THEN 1 ELSE 0
    /\ ready \in BOOLEAN
    /\ maximum \in Limits
    /\ http \in [Attempts -> {"none", "sent", "arrived", "released", "done"}]
    /\ response \in [Attempts -> Answers]
    /\ late \subseteq Jobs
    /\ told \in [Jobs -> Executions]
    /\ main \in {"serving", "aborting", "stopping", "drained", "exited"}
    /\ Gateway!TypeOK

\* After initialize: the gate has the policy that discovery gave.
Init ==
    /\ phase = [j \in Jobs |-> "new"]
    /\ number = [j \in Jobs |-> 0]
    /\ answer = [j \in Jobs |-> "none"]
    /\ progress = [j \in Jobs |-> [mayHaveExecuted |-> FALSE,
                                   closed |-> FALSE]]
    /\ queue = <<>>
    /\ executor = "recv"
    /\ current = NoAttempt
    /\ active = 0
    /\ ready = TRUE
    /\ maximum = InitialLimit
    /\ http = [a \in Attempts |-> "none"]
    /\ response = [a \in Attempts |-> "none"]
    /\ late = {}
    /\ told = [j \in Jobs |-> "none"]
    /\ main = "serving"
    /\ Gateway!Init

\* A process that dies earlier is one that takes no more steps: it keeps
\* nothing, and its clients cannot tell.
Alive == main # "exited"

\* Mutant: gate.stop is forgotten.
StoppedNever == FALSE

Stopped == main \in {"stopping", "drained"}

InJob(j) == phase[j] \in {"submit", "waiting", "backoff"}

\* The receiver of an attempt's reply channel lives as long as the job waits
\* for that attempt.
Awaited(a) == phase[a[1]] = "waiting" /\ number[a[1]] = a[2]

\* The reply channels of the attempts are given what, or dropped.
Answered(attempts, what) ==
    answer' = [j \in Jobs |->
                IF \E a \in attempts : a[1] = j /\ Awaited(a)
                THEN what ELSE answer[j]]

-----------------------------------------------------------------------------
(* The clients.                                                            *)

\* What a client makes of a reply, which may be lost, late, cut or too large
\* for a frame.
Lost(what) == {what, "unknown"}

\* A client that has not concluded yet does so from this reply.
Hears(j, what) ==
    IF told[j] = "none"
    THEN \E w \in Lost(what) : told' = [told EXCEPT ![j] = w]
    ELSE UNCHANGED told

\* A client does not wait any longer, and leaves.
Leave(j) ==
    /\ InJob(j)
    /\ told[j] = "none"
    /\ told' = [told EXCEPT ![j] = "unknown"]
    /\ UNCHANGED <<connectionVars, executorVars, gateVars, httpVars, late,
                   main, gatewayVars>>
-----------------------------------------------------------------------------
(* Connections.                                                            *)

Connect(j) ==
    /\ Alive
    /\ main = "serving"
    /\ phase[j] = "new"
    /\ Cardinality({q \in Jobs : InJob(q)}) < Capacity
    /\ phase' = [phase EXCEPT ![j] = "submit"]
    /\ number' = [number EXCEPT ![j] = 1]
    /\ UNCHANGED <<answer, progress, executorVars, gateVars, httpVars,
                   late, told, main, gatewayVars>>

\* No connection, or no job for it: too many connections, a late or an
\* invalid request.
Reject(j) ==
    /\ phase[j] = "new"
    /\ phase' = [phase EXCEPT ![j] = "ended"]
    /\ Hears(j, "not_started")
    /\ UNCHANGED <<number, answer, progress, executorVars, gateVars, httpVars,
                   late, main, gatewayVars>>

\* The attempt is queued; without a receiver the send fails.
Submit(j) ==
    /\ Alive
    /\ phase[j] = "submit"
    /\ \/ /\ executor # "ended"
          /\ Len(queue) < Capacity
          /\ queue' = Append(queue, <<j, number[j]>>)
          /\ answer' = [answer EXCEPT ![j] = "none"]
       \/ /\ executor = "ended"
          /\ answer' = [answer EXCEPT ![j] = "error"]
          /\ UNCHANGED queue
    /\ phase' = [phase EXCEPT ![j] = "waiting"]
    /\ UNCHANGED <<number, progress, executor, current, gateVars,
                   httpVars, late, told, main, gatewayVars>>

\* Mutant: every failed attempt is retried.
RetriesAll(what) == what # "completed"

\* safe_to_retry.
SafeToRetry(what) == what = "retryable"

Backoff(j) ==
    /\ Alive
    /\ phase[j] = "waiting"
    /\ answer[j] # "none"
    /\ SafeToRetry(answer[j])
    /\ number[j] < MaxAttempts
    /\ phase' = [phase EXCEPT ![j] = "backoff"]
    /\ answer' = [answer EXCEPT ![j] = "none"]
    /\ UNCHANGED <<number, progress, executorVars, gateVars,
                   httpVars, late, told, main, gatewayVars>>

Retry(j) ==
    /\ Alive
    /\ phase[j] = "backoff"
    /\ phase' = [phase EXCEPT ![j] = "submit"]
    /\ number' = [number EXCEPT ![j] = @ + 1]
    /\ UNCHANGED <<answer, progress, executorVars, gateVars, httpVars,
                   late, told, main, gatewayVars>>

\* The connection ends: failure or the drop of Cancellation closes progress.
End(j, what) ==
    /\ phase' = [phase EXCEPT ![j] = "ended"]
    /\ progress' = [progress EXCEPT ![j].closed = TRUE]
    /\ answer' = [answer EXCEPT ![j] = "none"]
    /\ Hears(j, what)
    /\ UNCHANGED <<number, executorVars, gateVars, httpVars, late, main,
                   gatewayVars>>

Failure(j) ==
    IF progress[j].mayHaveExecuted THEN "unknown" ELSE "not_started"

Complete(j) ==
    /\ Alive
    /\ phase[j] = "waiting"
    /\ answer[j] = "completed"
    /\ End(j, "completed")

\* What may not be retried, the last attempt, or a Retry-After of days.
Fail(j) ==
    /\ Alive
    /\ phase[j] = "waiting"
    /\ answer[j] \notin {"none", "completed"}
    /\ End(j, Failure(j))

Deadline(j) ==
    /\ Alive
    /\ InJob(j)
    /\ j \in late
    /\ End(j, Failure(j))

Disconnect(j) ==
    /\ Alive
    /\ InJob(j)
    /\ told[j] # "none"
    /\ End(j, "unknown")

\* serve is dropped and its JoinSet aborts the connections, each at its next
\* await.
Abort(j) ==
    /\ Alive
    /\ main # "serving"
    /\ InJob(j)
    /\ End(j, "unknown")

-----------------------------------------------------------------------------
(* execute: the single consumer.                                           *)

Recv ==
    /\ Alive
    /\ executor = "recv"
    /\ queue # <<>>
    /\ current' = Head(queue)
    /\ queue' = Tail(queue)
    /\ executor' = "select"
    /\ UNCHANGED <<connectionVars, gateVars, httpVars, late, told, main,
                   gatewayVars>>

Skip ==
    /\ Alive
    /\ executor = "select"
    /\ ~Awaited(current)
    /\ executor' = "recv"
    /\ current' = NoAttempt
    /\ UNCHANGED <<connectionVars, queue, gateVars, httpVars, late, told, main,
                   gatewayVars>>

SkipLate ==
    /\ Alive
    /\ executor = "select"
    /\ Awaited(current)
    /\ current[1] \in late
    /\ Answered({current}, "error")
    /\ executor' = "recv"
    /\ current' = NoAttempt
    /\ UNCHANGED <<phase, number, progress, queue, gateVars, httpVars,
                   late, told, main, gatewayVars>>

Acquire ==
    /\ Alive
    /\ executor = "select"
    /\ Awaited(current)
    /\ current[1] \notin late
    /\ ~Stopped
    /\ ready
    /\ active < maximum
    /\ active' = active + 1
    /\ executor' = "granted"
    /\ UNCHANGED <<connectionVars, queue, current, ready, maximum, httpVars,
                   late, told, main, gatewayVars>>

\* The gate is stopped: the loop ends and this attempt's channel is dropped.
Break ==
    /\ Alive
    /\ executor = "select"
    /\ Awaited(current)
    /\ current[1] \notin late
    /\ Stopped
    /\ Answered({current}, "error")
    /\ executor' = "draining"
    /\ current' = NoAttempt
    /\ UNCHANGED <<phase, number, progress, queue, gateVars, httpVars,
                   late, told, main, gatewayVars>>

\* When the running tasks have ended the queue is dropped.
Finish ==
    /\ Alive
    /\ executor = "draining"
    /\ \A a \in Attempts : http[a] \in {"none", "done"}
    /\ Answered({queue[i] : i \in 1 .. Len(queue)}, "error")
    /\ queue' = <<>>
    /\ executor' = "ended"
    /\ UNCHANGED <<phase, number, progress, current, gateVars, httpVars,
                   late, told, main, gatewayVars>>

\* The receiver is still there, but may leave before the next step.
CheckReceiver ==
    /\ Alive
    /\ executor = "granted"
    /\ Awaited(current)
    /\ executor' = "checked"
    /\ UNCHANGED <<connectionVars, queue, current, gateVars, httpVars, late,
                   told, main, gatewayVars>>

\* Mutant: only the deadline is looked at.
MayBeginInTime(j) == j \notin late

\* Progress::begin.
MayBegin(j) == ~progress[j].closed /\ j \notin late

Begin ==
    LET j == current[1]
    IN  /\ Alive
        /\ executor = "checked"
        /\ MayBegin(j)
        /\ progress' = [progress EXCEPT ![j].mayHaveExecuted = TRUE]
        /\ http' = [http EXCEPT ![current] = "sent"]
        /\ executor' = "recv"
        /\ current' = NoAttempt
        /\ UNCHANGED <<phase, number, answer, queue, gateVars, response,
                       late, told, main, gatewayVars>>

\* Mutant: the permit is forgotten.
CannotBeginForgetting ==
    /\ Alive
    /\ \/ executor = "granted" /\ ~Awaited(current)
       \/ executor = "checked" /\ ~MayBegin(current[1])
    /\ Answered({current}, "error")
    /\ executor' = "recv"
    /\ current' = NoAttempt
    /\ UNCHANGED <<phase, number, progress, queue, gateVars, httpVars,
                   late, told, main, gatewayVars>>

\* The permit is dropped with the iteration.
CannotBegin ==
    /\ Alive
    /\ \/ executor = "granted" /\ ~Awaited(current)
       \/ executor = "checked" /\ ~MayBegin(current[1])
    /\ Answered({current}, "error")
    /\ active' = active - 1
    /\ executor' = "recv"
    /\ current' = NoAttempt
    /\ UNCHANGED <<phase, number, progress, queue, ready, maximum,
                   httpVars, late, told, main, gatewayVars>>

Executor ==
    \/ Recv \/ Skip \/ SkipLate \/ Acquire \/ Break \/ Finish
    \/ CheckReceiver \/ Begin \/ CannotBegin
-----------------------------------------------------------------------------
(* The task of an attempt.                                                 *)

\* The gateway's word as an HTTP status: success, 429 or queue_timeout, other
\* refusals, other errors.
Statuses(execution) ==
    CASE execution = "completed"   -> {"completed"}
      [] execution = "not_started" -> {"retryable", "refused"}
      [] execution = "unknown"     -> {"unknown"}
      [] OTHER                     -> {}

\* Mutant: any answer of the gateway is taken for a refusal.
NotStartedIfAnswered(what) == what \notin {"completed", "error"}

NotStarted(what) == what \in {"retryable", "refused"}

\* send returns a response, or the exchange failed: a timeout, a lost request
\* or a lost response.  A refusal takes mayHaveExecuted back.
Arrive(a) ==
    /\ Alive
    /\ http[a] = "sent"
    /\ \E what \in Statuses(verdict[a]) \union {"error"} :
        /\ response' = [response EXCEPT ![a] = what]
        /\ progress' = IF NotStarted(what)
                       THEN [progress EXCEPT ![a[1]].mayHaveExecuted = FALSE]
                       ELSE progress
    /\ http' = [http EXCEPT ![a] = "arrived"]
    /\ UNCHANGED <<phase, number, answer, executorVars, gateVars, late,
                   told, main, gatewayVars>>

DropPermit(a) ==
    /\ Alive
    /\ http[a] = "arrived"
    /\ active' = active - 1
    /\ http' = [http EXCEPT ![a] = "released"]
    /\ UNCHANGED <<connectionVars, executorVars, ready, maximum, response,
                   late, told, main, gatewayVars>>

Deliver(a) ==
    /\ Alive
    /\ http[a] = "released"
    /\ Answered({a}, response[a])
    /\ http' = [http EXCEPT ![a] = "done"]
    /\ response' = [response EXCEPT ![a] = "none"]
    /\ UNCHANGED <<phase, number, progress, executorVars, gateVars,
                   late, told, main, gatewayVars>>

Task(a) == Arrive(a) \/ DropPermit(a) \/ Deliver(a)
-----------------------------------------------------------------------------
(* The policy, the process, time.                                          *)

Refresh ==
    /\ main = "serving"
    /\ \/ ready' = TRUE /\ maximum' \in Limits
       \/ ready' = FALSE /\ UNCHANGED maximum
    /\ UNCHANGED <<connectionVars, executorVars, active, httpVars, late, told,
                   main, gatewayVars>>

\* ctrl_c: serve is dropped and the poller aborted.
Interrupt ==
    /\ main = "serving"
    /\ main' = "aborting"
    /\ UNCHANGED <<connectionVars, executorVars, gateVars, httpVars, late,
                   told, gatewayVars>>

StopGate ==
    /\ main = "aborting"
    /\ main' = "stopping"
    /\ UNCHANGED <<connectionVars, executorVars, gateVars, httpVars, late,
                   told, gatewayVars>>

SeeDrained ==
    /\ main = "stopping"
    /\ active = 0
    /\ main' = "drained"
    /\ UNCHANGED <<connectionVars, executorVars, gateVars, httpVars, late,
                   told, gatewayVars>>

\* The executor is aborted and the process ends.
Exit ==
    /\ main = "drained"
    /\ main' = "exited"
    /\ UNCHANGED <<connectionVars, executorVars, gateVars, httpVars, late,
                   told, gatewayVars>>

\* A deadline matters while the job runs: one that has passed before is a
\* Reject, and one that passes afterwards changes nothing.
Expire(j) ==
    /\ InJob(j)
    /\ j \notin late
    /\ late' = late \union {j}
    /\ UNCHANGED <<connectionVars, executorVars, gateVars, httpVars, told,
                   main, gatewayVars>>

\* The gateway does what its contract allows with what was sent to it, also
\* when nobody waits for the response any more.
GatewayStep ==
    LET Unsent == {a \in Attempts : http[a] = "none"}
    IN  /\ Gateway!Next
        /\ held' \intersect Unsent = {}
        /\ \A a \in Unsent : verdict'[a] = verdict[a]
        /\ UNCHANGED <<connectionVars, executorVars, gateVars, httpVars, late,
                       told, main>>

Next ==
    \/ \E j \in Jobs :
        \/ Connect(j) \/ Reject(j) \/ Submit(j) \/ Backoff(j) \/ Retry(j)
        \/ Complete(j) \/ Fail(j) \/ Deadline(j) \/ Disconnect(j) \/ Abort(j)
        \/ Leave(j) \/ Expire(j)
    \/ Executor
    \/ \E a \in Attempts : Task(a)
    \/ Refresh \/ Interrupt \/ StopGate \/ SeeDrained \/ Exit
    \/ GatewayStep

Spec == Init /\ [][Next]_vars

\* Ready tasks are polled and every exchange ends by the HTTP timeout.  The
\* gateway owes nothing, and no deadline need ever pass.
Fairness ==
    /\ WF_vars(\E j \in Jobs : Backoff(j) \/ Complete(j) \/ Fail(j))
    /\ WF_vars(Executor)
    /\ WF_vars(\E a \in Attempts : Task(a))
    /\ WF_vars(StopGate \/ SeeDrained \/ Exit)

FairSpec == Spec /\ Fairness
-----------------------------------------------------------------------------
(* Properties.                                                             *)

\* End to end, "not_started" is true and stays true: whatever was lost, late,
\* retried or cancelled, no attempt of the job is ever executed.
NotStartedIsTrue ==
    \A j \in Jobs :
        told[j] = "not_started" => \A a \in started : a[1] # j

\* End to end, no job is executed twice, although attempts are repeated.
ExecutedOnce == \A a, b \in started : a[1] = b[1] => a = b

\* "This lock linearizes cancellation/deadline reporting with dispatch": once
\* a connection has ended no attempt of it is sent.
NothingSentAfterEnd ==
    [][\A a \in Attempts :
        http[a] = "none" /\ http'[a] # "none" => phase[a[1]] # "ended"]_vars

\* "wait for started HTTP to finish": once main has seen no active attempt
\* none appears before it aborts the executor, which goes on meanwhile.
ExitsDrained ==
    main \in {"drained", "exited"} =>
        Holding = {} /\ executor \notin {"granted", "checked"}

\* Under a gate that stays ready no attempt waits for ever, even if no
\* deadline ever passes: the one consumer does not get stuck behind attempts
\* that were given up, and every permit comes back.
AttemptsAnswered ==
    <>[]ready => <>[](Alive => \A j \in Jobs : phase[j] # "waiting")
=============================================================================

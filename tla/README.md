# A TLA+ development of the AI protocol gateway

The program is an HTTP gateway that stands between autonomous agents (and
interactive clients) and the service that does their work.  It gives every
owner a *budget* of outstanding requests, keeps two bounded admission queues,
hands waiting jobs to a limited number of executors, and tells every caller
whether its work has been executed: `completed`, `not_started`, or `unknown`.
Clients retry exactly when they hear `not_started`, so that word must be true.
Local clients may share one *dispatcher* process, and a Python SDK follows the
same contract.  What a client may call it *discovers* as a policy document of
the gateway.  Beside them the repository has programs with a concurrency of
their own: the release procedure, the operations check and the demonstration of
dynamic limits.

Paths are relative to the repository's root unless they start with `tla/`.

## 1. The system

### 1.1 The gateway process (Rust, `src/`)

| Part | State | Operations | Must hold |
|---|---|---|---|
| Owner budgets, `src/budget.rs` | per (owner, class): ceiling, slots in use, revision, under one mutex | `try_acquire_observed`, `Permit::drop`, `set_maximum`, `snapshot` | the slots in use are exactly the permits alive; a lowered ceiling revokes nothing and admits nothing until there is room |
| Admission queues, `src/queue.rs` | two deques of jobs, admission counter, `interactive_streak`, under one async mutex | `maintain` (expire and drop abandoned jobs), `push`, `pop_next`, `reject_pending`, `next_deadline` | nothing lost or kept twice; admission order; no late or abandoned job starts; bounded overtaking |
| Enqueue handler, `src/lib.rs` `enqueue` | one per HTTP request: waits for its reply channel | reject, admit, notify, receive, disconnect | rejections are justified; an admitted caller is answered |
| Scheduler and executors, `src/lib.rs` `run_scheduler` | a task with a `JoinSet` of executors; a stored notification; an armed deadline | lock, fill, sleep until notification, finished executor or deadline; execute, release, reply | no lost wake-up; at most `execution_limit` executors; the slot is returned before the reply |
| Gateway life cycle, `src/gateway.rs`, `src/main.rs` | `closing`, the scheduler's handle, the owner value | `close`, `shutdown`, `Drop` | closing drains and ends; dropping gives every slot back, even when the lock is taken |
| Upstream call, `src/lib.rs` `call_upstream` | none | one bounded HTTP exchange | every failure is reported as `unknown` |
| Process, `src/main.rs` | where `run` is, the server, the signal handlers, the grace deadline | announce, poll server and signals, close, stop accepting, drain, exit | success means drained; a signalled process ends |
| Service manifest, identities, `src/service.rs`, `src/operation.rs`, `src/gateway.rs` | immutable after start | validation, the policy of a token | what it serves its clients accept; identities of one owner share one budget |
| Telemetry, `src/telemetry.rs` | counter of active executors | samples, trace records | the counter follows the executors |

The handlers, the scheduler, the executors, administrators and the value that
owns the gateway run in parallel on tokio.  They meet in the queue lock, the
budget mutexes, the reply channels, one `Notify` and the atomic `closing`.

### 1.2 The clients

| Part | State | Operations | Must hold |
|---|---|---|---|
| Gate, `src/bin/load/control.rs` | policy revision and ceiling, active attempts, ready, stopped | `apply`, `pause`, `stop`, `acquire`, drop of an `Attempt` | never more attempts than the ceiling at acquisition; a waiter is not left asleep; revisions never go back |
| Retry loop, `src/bin/load/retry.rs` | attempt number | at most five attempts, waiting `Retry-After` | no retry of what may have executed |
| Dispatcher, `src/bin/dispatcher.rs` | a bounded attempt queue, one consumer, the gate, per-job `Progress` | connection, job, execute, poll | cancellation, deadline and dispatch race for one job and one wins; a report of `not_started` is true |
| Dispatcher clients, `src/bin/client/`, `python/ai_protocol/dispatcher.py` | one framed exchange | call | a lost exchange is `unknown` |
| Python SDK, `python/ai_protocol/client.py` | the policy, `_active`, `_ready`, `_closed` under an `asyncio.Condition`; a poller | `__aenter__`, `refresh`, `_acquire`, `call`, `aclose` | as the gate and the retry loop; a closed client stays quiet |
| Synchronous SDK, `python/ai_protocol/protocol.py` | one deadline and an attempt number | `discover`, `execute` | a result is of the caller's own executed work; it always ends |
| Validators, `policy.schema.json`, `validate_policy`, `discover`, `Gate::apply`, `add_routes` | none; each was written on its own | judge a document, or a successor of one | of what the gateway serves, each refuses only what it has to; clients in the same state judge a successor alike |

### 1.3 Programs beside the service

| Part | State | Operations | Must hold |
|---|---|---|---|
| Release procedure, `scripts/release.py`, `.github/workflows/release.yml` | a run's source and artifact; the GitHub release; two registries | validate, prepare, publish (check, compare, attach, package, upload, poll, edit the notes) | bytes of one bundle everywhere; a run that failed anywhere can be completed |
| Operations check, `scripts/check_operations.py` | an upstream it can hold, the process it interrupts | submit, wait, signal, release, judge | fails only for the reason it tests |
| Dynamic demonstration, `examples/dynamic_demo.py` with `src/bin/load.rs` | an event queue, a semaphore; the client's gate and tasks | lower and raise a limit, wait for events, assert | its assertions hold in every schedule; no wait needs its deadline |

The other examples, the benchmarks and the packaging scripts are sequential
programs (section 6).

### 1.4 What is hard

Every hazard is listed with its line in `PROJECT.json`.  The themes:

* *Races for one job.*  Expiry, cancellation, handoff, `reject_pending` and
  abort all want the same job; a caller must hear one story.
* *Order of two effects.*  A slot is returned and a caller is told, in this
  order, everywhere; the other order makes an immediate retry fail.
* *State used after the lock.*  The deadline to sleep until is computed under
  the lock and used after it.  `closing` is read under it.
* *Abrupt ends.*  A dropped gateway aborts its scheduler wherever it awaits,
  cannot wait for the lock, and leaves routers alive that may still enqueue.
* *Rotation in place.*  `maintain` pops and pushes every job of each deque.
* *Fairness across the stale.*  The streak of `pop_next` is written after
  jobs were skipped, and `competing` is read before.
* *Answers out of order.*  Policy refreshes overlap, fail late or meet a
  restarted gateway; the last one to arrive need not be the newest.
* *A deadline at any await.*  A Python call may end at every `await`, and must
  still say the truth about all its attempts and give its place back.
* *Two languages, five validators.*  The document one writes, the others read.
* *Commands that cannot be undone.*  A registry takes a version once; a release
  that stopped half-way must be completed with the same bytes.

## 2. The modules

| Module | Models | Kind |
|---|---|---|
| `tla/Selection.tla` | which class `pop_next` serves and how the streak moves | operators shared by the next two |
| `tla/Queues.tla` | the deques of `src/queue.rs`, job by job | component |
| `tla/Gateway.tla` | budgets, queues as sets, handlers, scheduler, executors, life cycle | the composed gateway process |
| `tla/AdmissionContract.tla` | what callers may rely on | abstract specification |
| `tla/WaitingLine.tla` | what the admission queues promise: one line of jobs | abstract specification |
| `tla/GatewayProofs.tla` | types, accounts, truthful replies, limits, wake-ups, stopping and dropping, starts and refusals of `Gateway`; that it implements `AdmissionContract` and `WaitingLine` | proofs |
| `tla/QueuesProofs.tla` | types, overtaking, no loss and order of `Queues`; that it implements `WaitingLine` | proofs |
| `tla/GateProofs.tla`, `tla/ReleaseProofs.tla` | what `Gate` and `Release` promise | proofs |
| `tla/DispatcherProofs.tla`, `tla/SdkClientProofs.tla` | what `Dispatcher`, and `SdkClient` and `SyncClient`, promise over any gateway that keeps `AdmissionContract` | proofs |
| `tla/DiscoveryProofs.tla`, `tla/ProcessProofs.tla` | what `Discovery` and `Process` promise, and that `Process` stays within `AdmissionContract`; the assertions of `DynamicDemo` | proofs |
| `tla/Gate.tla` | the clients' gate, `src/bin/load/control.rs`, with the poller and the end of the dispatcher's `main` | component |
| `tla/Dispatcher.tla` | the dispatcher, its retry loop and its clients, over `AdmissionContract` | component composed with the gateway's contract |
| `tla/SdkClient.tla` | `AsyncClient` with its callers, refreshes and closing, over `AdmissionContract` | component composed with the gateway's contract |
| `tla/SyncClient.tla` | the synchronous `execute` against one deadline, over `AdmissionContract` | component composed with the gateway's contract |
| `tla/Policies.tla` | a policy document and the five programs that judge it | operators |
| `tla/Discovery.tla` | manifest, served policies, administrator, restarts, SDK and dispatcher at one origin | composed, with the operators of `Policies` |
| `tla/Process.tla` | the process around the gateway, and the script that checks its end, over `AdmissionContract` | component composed with the gateway's contract |
| `tla/Release.tla` | the release workflow's runs, GitHub and the registries | component |
| `tla/DynamicDemo.tla` | the demonstration's script, its catalog and the load client, over `AdmissionContract` | component composed with the gateway's contract |
| `tla/MC*.tla` | instances | model checking |

### 2.1 Gateway

| In the model | In the code |
|---|---|
| `maximum`, `outstanding`, `revision` | `BudgetState` of each budget |
| `job[r]` | where the `Job` value of request `r` is: nowhere yet, in a deque, out of it in `pop_next`, owned by an executor, replied to after its permit was dropped, gone |
| `ticket[r]` | `Job::order` and the time left until `Job::deadline()` |
| `sched` | the scheduler task: waiting for the lock (`lock`), at the head of the fill loop (`fill`), owning a selected job (`handoff`), past the loop (`exit`), in `select!` (`select`), returned, aborted |
| `tasks`, `active` | the `JoinSet`, including finished tasks it has not yet reaped; the telemetry counter |
| `timer`, `notified` | the `sleep_until` branch, the permit stored in `Notify` |
| `call[r]`, `reply[r]` | the handler: not arrived, between unlocking and `notify_one`, awaiting, returned, dropped; what its channel carries |
| `owner`, `cleanup` | the `Gateway` value and the task `Drop` spawns when `try_lock` fails |

One action is one critical section under the queue lock or one step of a task
between two awaits.  Four choices matter:

* `maintain` is one step here.  Nobody else can touch the deques while it
  runs, and what others do meanwhile (disconnect, let time pass) either comes
  before its look at a job or is seen by the next look.  `Queues` splits it.
* Each wake-up of the scheduler goes on to reap the `JoinSet` (`Wakes`) before it
  waits for the lock, as `lib.rs:648`–`650` do.
* The scheduler keeps the lock from `SchedLock` to `SchedStop` or
  `SchedSleep`, but is split at each selection, because callers leave, time
  passes and executors finish between `maintain`, the recheck and the spawn.
* An executor is split between dropping the permit and replying (`Release`,
  `Answer`).  The drop of `active` goes with the permit's, and the end of the
  task with the reply: nothing reads between them.  A task that panics or is
  aborted (`Unwind`) drops what it captured in order of capture, the permit
  before the reply channel, so nobody sees the intermediate state, and is
  one step.

A handler, a metrics request or the sampler may hold the lock for a moment
that is a step here, so `Drop` may find it taken at any time: `DropLocked`
has no guard on the lock.  Each request of `Requests` is made at most once; a
retry is another request.  An administrator's resize is bounded by
`MaxRevision`, everything else is finite because requests are.

### 2.2 Queues

The deques are sequences.  A scan of `maintain` (`StartScan`, `Rotate`,
`NextDeque`, `EndScan`) fixes its instant (`scan.late`) when it starts and
then takes one job per step, while callers leave and the clock goes on.
`pop_next` is a loop: scan, `Choose`, and then `Handoff` or `SkipStale`.
`pc` tells what the holder of the lock does next.  Executors are not modelled:
after each handoff the scheduler may fill another or unlock.  `passed` is a
history variable, used by `BoundedOvertaking` only.

*WaitingLine.*  `Queues` and `Gateway` look at `src/queue.rs` from two sides:
the one has the deques and their scans, without handlers, slots or executors,
the other has sets ordered by admission number, with a scan in one step.  Both
implement `WaitingLine`, which has neither: jobs in pairs, the earlier one
first; late and unwanted jobs may drop out; a job joins at the end if its class
has room, or is turned away if it has none; the scheduler selects a job whose
turn it is (`IsNext`), and then starts it, or skips it if it has become late or
unwanted; the streak counts contested starts.  Who may be next, what a skipped
selection costs and when the streak is forgotten are thus said once, and what
one module shows of them holds in the other.

| `WaitingLine` | `Queues` | `Gateway` |
|---|---|---|
| `place` | `fate`, without the arrivals under way | where the job is, `started` and the refusal `queue_full` |
| `before` | waiting jobs by `order` | queued jobs by `ticket[r].order` |
| `stale` | callers that left, deadlines that passed | `Stale` |
| `contested` | `competing` | `competing` |

A scan of `Queues` drops its jobs one by one (`Rotate` is `Drop`), a sweep of
`Gateway` all at once, with the admission, refusal, selection or rest that
follows it in the same critical section; the line allows both.

### 2.3 AdmissionContract

Slots, starts, verdicts and ceilings; no queue, clock or scheduler.  A slot is
given only while the budget has room after dropping waiting work; started work
is never told `not_started`; nobody hears anything while holding a slot;
lowering a ceiling takes nothing away.  `Gateway` maps `held` to the requests
whose job owns a permit, and each reply to its verdict.

### 2.4 Gate

| In the model | In the code |
|---|---|
| `revision`, `maximum`, `active`, `ready`, `stopped` | `State`, under the mutex |
| `unseen` | the receivers of the watch channel whose `changed()` returns at once |
| `worker[w]` | a caller of `acquire`: about to look at the state, having looked in vain, in `changed()`, with an attempt not announced yet, with an attempt, with its drop not announced yet, refused |
| `poller`, `fetched` | `poll`: asleep, with a response, between the change and `send_replace` |
| `main` | the last lines of the dispatcher's `run` |
| `server` | the budget as discovery reports it, resized by administrators, set back to revision 1 by a restart of the gateway |

The mutex is released before `send_replace`, so a change and its notice are
two steps, and others act in between; `acquire` itself is split where it
releases the mutex and where it sleeps.  A worker stands for any caller of
`acquire`; the dispatcher has one, the load generator many.  After the gateway
restarts the gate pauses until revisions catch up, which is documented
(`docs/compatibility.md`: it fails closed on revision regression); hence no
property says that a paused gate opens again.

### 2.5 Dispatcher

| In the model | In the code |
|---|---|
| `phase[j]`, `number[j]`, `answer[j]` | the future of `job` inside `retry::run`: sending an attempt, awaiting its `oneshot`, sleeping before the next; the number in the loop; the content of the channel |
| `progress[j]` | `ProgressState`; its counter of attempts is only reported |
| `queue`, `executor`, `current` | the bounded channel, `execute`, the attempt it has received |
| `http[a]`, `response[a]` | the task of an attempt: exchange under way, response at hand and permit held, permit dropped, replied |
| `active`, `ready`, `maximum` | the gate, with acquisition and drop as one step each |
| `late`, `told[j]` | deadlines that have passed; what `submit` returned to the client |
| `main` | `run`: serving, poller aborted, gate stopped, gate seen drained, returned |
| `held`, `started`, `verdict`, `limit` | the gateway, as `AdmissionContract` |

Each attempt is one request of the contract.  The gateway acts on an attempt
once it was sent, even when nobody waits for it any more.  `Statuses` is the
HTTP status that stands for a verdict; any exchange may fail instead, whatever
the gateway did.  The executor is split at the check of the receiver, the lock
of `begin` and the spawn, because connections run in other threads.  A job is
dropped and its `Progress` closed in one step: an executor that looks in
between finds the receiver gone and gives up, as it does afterwards, or passed
that check before and then begins, as it could have before the drop.  A
client's reading of its reply is part of the step that ends the connection; it
may get lost there, and clients may leave at any time.  A connection's place is
given back when its job ends, up to a second before the code does: a refused
connection is possible at any time.  A process that dies is one that takes no
further step, and `Spec` allows it at any point.

### 2.6 SdkClient

| In the model | In the code |
|---|---|
| `shared` | whether the client was made with `dispatcher_socket` |
| `phase[c]`, `number[c]` | the coroutine of a call: not begun, in `condition.wait()`, notified, in `open_unix_connection`, in an exchange, in the sleep before a retry, ended; the number of `call`'s loop |
| `mayHaveExecuted[c]`, `told[c]` | the local of that name; what the caller got |
| `policy`, `active`, `ready`, `closed` | `_policy` (its revision and ceiling), `_active`, `_ready`, `_closed` |
| `task[f]`, `snapshot[f]` | where a task that enters, polls or calls `refresh` is; the answer on its way to it |
| `refresher`, `cancelled` | `_refresher`; the pollers `aclose` has cancelled that have not run since |

Everything runs on one event loop, and no section under the condition awaits
anything but `wait`, so a lock is never waited for and one action is what runs
between two awaits that suspend.  A permit returns with `notify_all` on every way
out of an attempt (`Leaves`).  A task that `aclose` cancels takes no step but
`PollerCancelled`.  A call with an invalid operation or parameters has no
attempt and may have taken and returned a permit (`Reject`).  With a dispatcher,
an attempt is the one job handed to it, and its verdict is as good as the
gateway's by `Dispatcher!NotStartedIsTrue`.

### 2.7 SyncClient

`phase[c]`, `attempt[c]` are the loop of `execute`; `left[c]` the seconds
before `deadline`, `nap[c]` what remains of `time.sleep`.  `Tick` comes at any
moment, so a response or the end of a sleep may find the deadline passed.  The
attempts are requests of `AdmissionContract`.

### 2.8 Policies and Discovery

A document is a record whose fields are model values where only their kind
matters: an identifier, a text with other characters (`Odd`), an empty or missing one.  An
input schema is plain, refers to another document, is no JSON schema, or no
object.  The bounds all readers share (`Slots`, `RefreshTimes`, `WaitTimes`) are named once.  `Conforms` is the JSON schema, `UsablePolicy` and `Continues` are `validate_policy`
without and with a previous policy, `Discoverable` is `discover`, `GateAccepts`
and `RoutesAccept` are the Rust readers, the latter `add_routes` with all its
refusals, into the table of the tokens before.

`Discovery` starts a service for every manifest that `Parses`, and
`Document(t)` is what `agent_policy` answers to a token, with the `Descriptors` of
the operations it may call, each at its place in the manifest.  `UpdateLimits` and
`Restart`, with the same manifest or another service at the same origin, change
it under the clients: an SDK client per token (`known`, `ready`) and a
dispatcher (`dispatcher`: the token `initialize` asks next, routes, identity of
the service, gate; `asked` is a history variable, the start of the service it
heard last).  Each client has one request under way, so asking and judging are one step.

### 2.9 Process

`main` is where `run` of `main.rs` is; `accepting` and `handling` say whether
`select!` has polled the server and the signals.  `connection[r]` is an HTTP
exchange: still being sent, received, answered, left by its client or broken by the
end of the process.  `Expire` is the grace timeout.  `script` is where
`check_operations.py` is, `graceful` whether it lets go of its upstream in
time, `expired` a history variable: some deadline has passed, so a failure of
the check would be its own.  Of the gateway `AdmissionContract` is
assumed, and that `shutdown` returns when no slot is held (`Gateway!StoppedIsDrained`).

### 2.10 Release

`pc[r]` is where a run of the workflow is: between jobs (`Idle`) or at a step
of one; `commit`, `bundle`, `existing`, `missing` are its outputs, artifact and
locals.  `asset` maps each file of the GitHub release to the build it came
from, `registry` each package to the build that was uploaded, `shown` to what
the indexes admit to.  Two builds of a commit make the same crate but other
Python archives (`Same`), as timestamps differ.  `Fail` may come at any step,
and `Attach`, `Upload`, `PublishCrate` and `EditNotes` may have had their
effect and fail nevertheless.  `Publish` starts the publication job, or the job that failed again.

### 2.11 DynamicDemo

The script (`script`, the wait it is in), its reader's `events`, the
semaphore `permits` that holds the catalog, the load client's `main`, tasks,
gate and poller, and the gateway as `AdmissionContract`, with the revision that
discovery reports.  `expired` says that some timeout has passed.  Retries of
tasks that were not started are `Dispatcher`'s; here such an answer is an error
of the task, which the script would notice.

## 3. What is checked

All bounds are CONSTANTs in the `.cfg` files.

| Run | Instance | Shows |
|---|---|---|
| `gateway_safety` | two agent requests and an interactive one, one executor, one place per queue, agent ceiling 1 or 2 with one resize, deadline after one tick, weighted | accounts, truthful replies, no lost wake-up, drained stop, justified rejections; `Gateway` implements `AdmissionContract` |
| `gateway_liveness` | one agent and one interactive request, one executor, one place, waits of 2 and 1 ticks | admitted callers are answered, closing ends, dropping returns every slot |
| `queues` | one agent and four interactive jobs, three places, both modes | nothing lost, bounded overtaking; `Queues` implements `WaitingLine`, and so starts its jobs in order |
| `gate` | two workers, ceilings 1 and 2, three revisions, restarts of the gateway | no missed change, a drained gate stays drained, a stopped gate drains |
| `dispatcher` | two jobs of two attempts, one place, ceiling 1 | `not_started` is true end to end, nothing executes twice, nothing is sent for a job that ended, the exit leaves nothing running, attempts do not wait for ever |
| `sdk_calls` | two calls of two attempts, ceiling 1, an opener, with and without dispatcher | no missed wake-up, `not_started` is true end to end, waiters are served |
| `sdk_refreshes` | a poller and another refresher, one call, two revisions with ceilings 1 and 2, restarts | policies advance, a closed client is quiet, a paused one recovers |
| `sync` | two calls of three attempts in three seconds, `Retry-After` 0 to 3, ceiling 1 | a result is real, calls end, a sleep leaves time for the attempt after it |
| `release` | two runs, two commits, anything published by hand before | one bundle, assets first, truthful notes, completion |
| `discovery` | every manifest of at most two operations and two credentials over small vocabularies, ceilings 0 to 1001, two revisions, a restart with the same or three other services | each reader refuses what is served for its one reason only, routes are right, SDK and gate agree |
| `process` | the script's request and two others | success is drained, the check is sound, a signalled process ends |
| `demo` | three tasks, ceilings 2 and 1 | assertions hold, no wait needs its deadline, only a batch that is done ends a wait in vain |

The planned test rejection (`reject_once`) is a setting; every run of `Gateway`
starts both with and without it, as `queues` does with both modes.

*Why the bounds suffice for the interesting cases.*  Two requests on a budget
of one compete for its slot, and one of them can be waiting, selected, running,
expired or abandoned while the other is judged.  The third belongs to the other
class, so that selection, the timer and the executor are contended.  One
executor makes "all busy" reachable, in which the deadline timer is the only
thing that wakes the scheduler for a waiting job; two make overlapping
executions and reaping reachable.  One tick separates "in time" from "late" at
every point of the scheduler's critical section.  Four interactive jobs exceed
the streak limit of three while an agent job waits.  The interactive half of
`BoundedOvertaking` (at most one agent job goes before a waiting interactive
one) would need several agents and a spent streak, six jobs; this instance
exercises the agents' half, and `OvertakingBounded` proves both.

Two workers at a gate whose ceiling falls from 2 to 1 give a gate above its
ceiling with somebody waiting; three revisions, a gateway that is ahead of,
level with and behind the client.  Two attempts of a job (`MaxAttempts`, 5 in
the code) are what a repetition and its mistaken omission need, as the loop
treats all but the last alike; `sync` has a middle one, too.  In `dispatcher` the second job can only be served
when the first one's place and permit are back, and so it is with the two calls
of `sdk_calls`.  Two refreshes overlap in any order with one revision between
them, and a restart makes the older number the newer policy.  Two runs of a
release differ in build and, the tag being free, in commit; the second one finds whatever the
first has left.  A ceiling of 1001 and one of 0 are beyond the limits of
manifest, administrator and readers, 3 is none of the manifests'.  Three tasks
of the demonstration are one more than its higher limit, so that a place is
taken again while the ceiling is low; a queue of one unread event delays every
later one.

*Symmetry* (requests of one class are interchangeable) is used in
`gateway_safety` and `queues`, which have no temporal formulas but step
properties and the two abstract specifications, never for liveness; the
formulas treat requests alike.

*Deadlock.*  `CHECK_DEADLOCK FALSE` everywhere: once the finitely many requests
are spent and nobody closes the gateway, the service really is idle; calls
end, scripts and runs are done, and manifests come to a last revision.  That
nothing waits in vain is what `NoLostWakeup`, `NoMissedChange`,
`NoMissedWakeup` and the liveness properties say.

*Fairness of the clients.*  Ready tasks are polled; an exchange ends because the
HTTP client times out after 30 s.  Nothing obliges a policy refresh to succeed
(`AttemptsAnswered` assumes a gate that stays ready), a gateway to answer, a
deadline to pass or a user to interrupt.  For `WaitersServed` the premise is a
client that stays ready, for `Recovers` a gateway whose policy does not stay
behind the client's (after a restart a client pauses until revisions catch up,
as `docs/compatibility.md` and `docs/protocol.md` say); a poller's
requests are not all lost, hence strong fairness of `Answer` and `Apply`.
`SyncClient` needs time to pass, `Process` its own task and timer: no client
and no upstream is fair there.  A release is started again as often as
it takes, which is the maintainer's part (strong fairness, since one run at a
time goes on); `Completes` says that this suffices once steps fail only where
they cannot succeed.  In `DynamicDemo` all five actors run, and `Exit`,
which waits for the poller's next await, is met again and again.

*Fairness* (`Gateway!Fairness`).  The runtime polls every ready task, hence
weak fairness of the scheduler, of each handler's next step and of the spawned
clean-up.  Time passes.  An executor ends because `execution_timeout` bounds
it (a native handler that never returns is outside this assumption, as the
documentation of `shutdown` says).  Nothing forces a client to submit or
leave, an administrator to resize, an owner to close or drop, or a task to
panic.  Weak fairness of the scheduler suffices although handlers compete for
its lock, because each of them holds it for one bounded section and tokio's
mutex is first come, first served; the requests being finite, that is all
the model needs.

Every property has a mutant, a plausible slip in the code that makes it fail
in its own run: a permit lost with an abandoned job, a reply sent before the
permit is dropped, a wake-up forgotten, a deadline computed over one deque,
a rotation one short.  They are defined next to what they mutate and listed in
`PROJECT.json`.

## 4. What is proved

Every theorem holds for all values of the constants that the named assumption
of its component allows, and rests on nothing else, but for `RoutesCorrect`,
which has a premise from the documentation besides.  The assumptions say what the code
presupposes: finitely many actors, limits that are positive as the
configuration demands, actors that are told apart.

### The gateway

`GatewayProofs`: the theorems about `Gateway` hold for any number of requests,
owners, executors and places, any waits and ceilings and both modes, from `GatewayAssumption`;
those about `Queues` (`QueuesProofs`), for any jobs, capacity and waits, from
`QueuesAssumption`.

* `TypeCorrect`, `SlotsAccounted`: types and accounts.  The inductive
  invariant `CoreInv` adds three facts to `TypeOK` and `BudgetAccounting`: one
  job at most is selected, and only at `handoff` (so a handoff frees or fills
  exactly one slot); the streak is below its limit when both classes compete
  for a selected interactive job (so `NextStreak` stays in type); and a
  request not yet made has no job (so admitting it adds a slot).  The lemmas
  before it say what dropping the permits of a set of jobs does to the
  counters, with the cardinality theorems of the library.
* `Certainty`, `SlotFirst`: `ExecutionCertainty` and `SlotFreedBeforeReply`,
  from `CertaintyInv`: for each request, where its job is decides whether it
  was started and that it has not been answered, and its answer agrees with
  the history.
* `LimitsKept`: `Bounded`.  The `JoinSet` is what `run_scheduler` looks at, so
  `LimitInv` relates it to the executors: while the scheduler lives every
  executor is in `tasks`, `tasks` never exceeds the limit and has room at
  `handoff`, and the fill loop ends with nothing waiting or no room.  An abort
  empties `tasks` while executors still unwind; `Bounded` itself must then
  carry the bound on its own, because nothing starts any more.
* `WakeupsKept`: `NoLostWakeup`.  Each waiting job of a sleeping scheduler is
  watched by its handler's `notify_one` to come, by a stored notification, or,
  when all executors are busy, by a timer that is not later than its deadline.
  The delicate step is falling asleep: by `LimitInv` nothing waits or no
  executor is free, and then `NextDeadline` is no later than any deadline.
* `StopsDrained`, `DropsEmpty`: the ends of a gateway, from `EndInv`.  After
  `closing` nothing is admitted, so whoever empties the queues last leaves them
  empty: the scheduler on its way out, `Drop`, or the task it spawned.
* `StartsFresh`, `RefusalsJustified`: the two step properties, action by
  action, from the types and accounts.
* `Refines`: `Spec => ImplementsContract`.  A removal of waiting jobs maps to
  one dismissal in the contract with the verdict `not_started`, whoever removes
  them; the refusal or admission that follows `maintain` in the same critical
  section maps to the same step; the scheduler's own steps are stutters.  It
  needs `CoreInv` (slots are counted exactly) and `CertaintyInv` (who is
  dismissed has neither started nor been answered).
* `ServesTheLine`: `Spec => ImplementsLine`, from the same two invariants and
  `LineNumbered` (numbers in the queues are below the counter, so whoever is
  admitted is last).  `LineThinned` says once what the removal of a set of jobs
  is in the line.  `PopLine` is the heart: the least number of the chosen class
  (`FirstIsLeast`, by well-foundedness) belongs to the job whose turn it is.
* `QueueTypes`: `ShapeInv` adds that a deque holds its own class only, that a
  scan is no longer than its deque, that at most one job is selected, only at
  the handoff, and that under competition the streak chose it.  This is
  what keeps `interactive_streak`, which no code bounds, within three.
* `OvertakingBounded`: `BoundedOvertaking`.  `OvertakingInv`: what a waiting
  agent has seen go is at most the streak; a waiting interactive job has seen
  at most one agent go, and if so the streak is zero; `competing` is true
  whenever a job of the other class still waits at the handoff (`Contested`),
  since a waiting job is in its deque (`WaitingQueued`).  The streak survives
  skipped selections, and is reset without a handoff only when nobody waits.
* `NothingLost`: `NoJobLost`.  Neither "who waits is in its deque" nor "who is
  in a deque waits" survives a rotation unless the deque holds each job once,
  and that follows from the order: `OrderInv` says that admission numbers are
  distinct and below the counter (`Numbered`), and that a deque rises in them
  except where a scan has cut it (`DequesOrdered`): what is not yet looked at
  comes first, then what was put back, all of it older (`Rotated`).
  `RotationOrdered` shows that a step of a scan keeps this, whether it drops
  its job or puts it back.
* `OrderServed`: `ServedInOrder`.  `SelectedFirst`: who is selected was
  admitted before everybody of its class who waits, and in FIFO mode before
  everybody.  It holds when `Choose` takes the front of an ordered deque, in
  which no scan is under way, and later arrivals have greater numbers.
* `DequesAreALine`: `Spec => ImplementsLine`, from `ShapeInv`, `OrderInv` and
  `LineInv` (who has left was admitted; who is late for a scan is late for
  good).  The jobs of a class that wait are as many as its deque is long
  (`DequeCounts`), because a deque holds each job once, so that `push` refuses
  exactly when the line has no room.  With `ServesTheLine`, the two views of the
  deques are one for any number of jobs.

### The clients

`Refines` says that the gateway keeps `AdmissionContract`, and the theorems
about `Dispatcher`, `SdkClient` and `SyncClient` assume no more of it:
`ContractSteps` (for `SyncClient`, `SyncContract`) is all they use of its steps
(who heard a verdict holds nothing and never hears another; what was refused
has not started; only who holds a slot starts).  Together they carry
`not_started` from the queue lock to the caller.

* `DispatcherProofs!RefusalsTrue`, `ExecutedAtMostOnce`: `NotStartedIsTrue`
  and `ExecutedOnce`, from `DispatcherAssumption`, for any number of jobs,
  attempts and places.  The invariant speaks of a job (`JobInv`: unless its
  progress says that it may have executed, all it sent was refused), of an
  attempt (`AttemptInv`: those before the job's present one were refused, and
  only the present one can be in flight, unanswered, unless the job has
  ended) and of an attempt that may still be sent (`ComingInv`: it is no later
  than its job and nothing has answered it).  That a late refusal may take
  `may_have_executed` back needs all three: no other attempt is out.
* `DispatcherProofs!SilentAfterEnd`: `NothingSentAfterEnd`.  `CheckedInv`: an
  attempt whose receiver was seen is still awaited or its progress is closed.
* `DispatcherProofs!DrainedAtExit`: `ExitsDrained`, from the types: `active`
  counts the attempts with a permit and the one about to begin
  (`DispatcherProofs!TypeCorrect`), so zero means neither.
* `SdkClientProofs!RefusalsTrue`, `ExecutedAtMostOnce`: the same promises of
  `AsyncClient`, with and without a dispatcher, from `SdkClientAssumption`.
  `CallInv` ties what a call remembers (`mayHaveExecuted`, its attempt, what it
  told) to what became of everything it sent.  `ExecutedOnce` of `SdkClient`
  is proved and in no run.
* `SdkClientProofs!WakeupsKept`: `NoMissedWakeup`.  Room only appears by a step
  that notifies (`LeavesPlaces`, `RefreshFrame`), and a sender that takes the
  room takes it from nobody who sleeps.
* `SdkClientProofs!PoliciesForward`, `QuietAfterClose`: `PolicyAdvances` and
  `ClosedIsQuiet`, from the types and from `GateInv` (a closed client is not
  ready).
* `SdkClientProofs!ResultsReal`: `ResultIsReal` of `SyncClient`, whose callers,
  attempts and gateway are those of `SdkClient` there (`Sync`), for any number
  of callers, attempts and seconds and any `Retry-After`.  `EarlierRefused`
  says that all attempts before a caller's present one, and the present one of
  a caller that sleeps, were refused; without the sleeper the step that wakes
  it would not keep it.
* `SdkClientProofs!SleepersInTime`: `NapsFit`, the safety half of `CallsEnd`:
  sleep and deadline are counted down together, and the sleep was the shorter.
* `GateProofs!ChangesNoticed`: `NoMissedChange`, from `GateAssumption`.
  `WakeInv`: whoever has looked at the state in vain, worker or main, still has
  the right picture, or its receiver has an unseen change, or somebody is about
  to announce one; it covers the worker between its look and its sleep.
* `GateProofs!StaysDrained`: `DrainedForGood`.  From `stop` on the gate is
  stopped, so nobody is admitted, and what was admitted is counted (`EndInv`
  and `GateProofs!TypeCorrect`).

### Discovery

`DiscoveryProofs`, from `PoliciesAssumption` and `DiscoveryAssumption`: any
vocabulary, manifests, tokens (any sequence of them for the dispatcher),
ceilings, revisions and restarts.

* `PoliciesAccepted`: `ServedIsAccepted`, which says exactly what each reader
  refuses of what is served.  `Accepted` goes through the readers one by one; it
  needs of the state only `Serves`: the manifest that runs was parsed, and
  each ceiling is within `Slots` and its revision positive, which
  `UpdateLimits` and `Restart` keep.  `AmbiguousMeansConfusable` is the
  remaining reason of `add_routes`: its table is ambiguous when, and only when,
  an operation that some token sees has the name that is another's path; this
  needs that names, and paths, of a parsed manifest are distinct.
* `RoutesCorrect`: `RoutesRight`.  `RoutesKept`: the table is unambiguous, and
  has the routes of every token asked so far, of the service that runs and of
  any that may follow it under the same name.  Uniqueness in the table and
  presence of each route together leave one route for each name.
  `KnowsService`: a ready dispatcher that heard of the present start knows the
  service by its name.  This theorem alone rests on `OneRouteTable`, the
  premise of section 6, too.
* `ClientsAgree`: `Agree`.  What the two ask of a document by itself, those of
  an agent with plain schemas pass (`Accepted`), so the two can only differ in
  how they compare it with what they know: `Continues` and `GateContinues`.
  Those are the same when the SDK client's policy names its owner, which it does
  because it is one the client could use (`KeepsUsable`).
* `TypeCorrect`: types, with those of the dispatcher (`DispatcherTyped`).

`DiscoveryInv` is the inductive invariant of all but `RoutesCorrect`, which adds
`RoutesKept` to it.

### The process

`ProcessProofs`, from `ProcessAssumption`: any finite set of requests.
`ProcessInv` is the inductive invariant.

* `Drains`: `SuccessDrains`.  While the server accepts nothing is broken
  (`BrokenAtEnd`), it stops only when no exchange is in flight
  (`ServedBeforeStopping`), and `main` exits with success only when no slot is
  held (`LeavesNothing`); work whose caller left is covered by the last alone.
* `FailuresExplained`: `CheckIsSound`.  `ScriptKnows`: until a deadline passes,
  the script's request has been started when it sends the signal, keeps its
  slot until the upstream lets go and is answered by nothing but a result
  (unless the signal killed the process); of a check that passes nothing is said;
  `RequestOrder` ties each connection to what the gateway holds and has said.
* `AssumesTheContract`: `Spec => Gateway!Spec`.  `Process` restricts its
  gateway by what the process does to it; that it never lets it do more than
  the contract allows is an implementation like `Refines`.

### The demonstration

`ProcessProofs!DemoSound`: `AssertionsHold`, from `DynamicDemoAssumption` (the
lower limit is at least one and below the other) for any finite batch of tasks,
any depth of the client's output and of the catalog's semaphore.  It says that
the script fails only if some timeout has passed, and gives up only then or when
the client has ended after its whole batch: a batch may be done between two
polls, and the state a wait is for is then never reported ("Load client ended
unexpectedly", `dynamic_demo.py:116`).  So the rest of the invariant
(`DemoIInv`) is claimed of states in which no timeout has passed and the script goes on
(`Undisturbed`); `TimeoutsCount` says that such states are never come back to.
The five actors and the gateway are tied together by where the script is:

* `StageInv`: the script's place decides the server's revision and limit, and
  whether the catalog answers at all.
* `ClientInv`: the client's revision and the one its poller holds are never
  ahead of the server's, each with that revision's limit, and never go back.
* `WorkInv`: the client sends no more than the higher limit; while the lower
  one holds, either all it has out had started before, or there is room.  By
  `RoomForAll` the gateway then refuses nothing, so no task fails
  (`LoadInv`); by `FullHouse` all places are taken, and stay taken, when the
  script lowers the limit.
* `Output`: what any unread event may say, however late it is read: one of the
  second revision written before the catalog answers shows every place taken,
  and the end of the batch is without errors; the output ends only after it.

### The release

`ReleaseProofs!BundleKept`, `AssetsFirst`, `NotesHold`: `OneBundle`,
`AttachedFirst` and `NotesTruthful`, from `ReleaseAssumption`, for any number
of runs, commits and reports and anything that was published before.
`OneAtATime` is what the workflow's concurrency group gives.  `Provenance`
says that all files come from runs that have begun, from the source each was
started for; `AllReached` what a run at each step of the publication can rely
on, although earlier runs ended anywhere: after the comparison the release's
files are its own bundle's, before the notes are written the indexes show both
packages.  "The same bytes" is an equivalence that no later step disturbs
(`SameKept`), because a run's source is settled when it begins.

## 5. What is only model-checked

Liveness and fairness (out of the prover's reach), in all components.  Every
safety property of a run is proved.  Two more are proved and in no run of their
own: `ServedInOrder` of `Queues`, which the line implies, and `ImplementsLine`
of `Gateway`, which TLC found to hold on the instance of `gateway_safety`.
The inductive invariants were checked by TLC on the instances of the runs
before they were proved.

## 6. What is not modelled, and what the models leave open

*Code without a guarantee.*  Some interleavings are in the models and no
property excludes them, because the code does not:

* Two tasks may enter an `AsyncClient` at once, although entering twice is
  meant to be refused: the guard is read before an await (`client.py:120`) and
  `_refresher` is set after it (`client.py:127`), so both succeed, the first
  poller is forgotten and `aclose` never cancels it.
* `aclose` while a task is in `__aenter__` finds no poller to cancel; the one
  that is created afterwards goes on, asleep or refused, for it can do nothing
  to a closed client (`ClosedIsQuiet`).
* The notes of a release are read and written back (`release.py:196`–`212`):
  an edit of the maintainer in between is lost.  `Release` leaves the text out.
* Between "Server started" and the first poll of the signal handlers
  (`main.rs:66`–`70`) a signal ends the process without a drain; `Process` has
  this state (`killed`), and `CheckIsSound` excepts it.

*Premises from the documentation.*  `RoutesRight`: one `service_id` means one set of
routes (`OneRouteTable`): who changes routes or identity has to restart the
dispatcher (`docs/service-integration.md:94`), and nothing in the code notices
who does not.

*Manifests a client refuses.*  `Service::parse` accepts some services that one
of the program's own clients does not take, and says nothing of it: with an
operation whose name is another one's path, as `a` at `/b` beside `b` at `/c`,
`add_routes` refuses to start a dispatcher for tokens that see both
(`dispatcher.rs:161`–`168`), while the SDK works; with a native operation whose schema the SDK cannot use, the SDK refuses
the whole policy, while the dispatcher works.  No document promises otherwise.
`ServedIsAccepted` states both refusals (`Confusable`, `PlainFor`) and that
there is no other.

*Left out for good.*  HTTP parsing and routing, TLS, JSON schema evaluation,
framing of the dispatcher's socket, formats of traces and metrics, environment
parsing (sequential validation without shared state); the measurements of the
load generators and the benchmark programs; the conformance tool beyond
`validate_contract`; `queue_demo`, `service_integration_demo`, `quickstart` and
`check_rust_library`, which start processes one after the other and compare
what they print, and whose only concurrency is that of the modules above.  A
server that fails by itself (`main.rs:68`) and the start-up in
`Gateway::start` hold nothing another part sees.  The admission counter is
unbounded here (`checked_add` on 64 bits panics after 2^64 admissions).

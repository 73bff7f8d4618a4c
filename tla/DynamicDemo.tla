---------------------------- MODULE DynamicDemo ----------------------------
(***************************************************************************)
(* The demonstration of dynamic limits (examples/dynamic_demo.py): a       *)
(* script lowers and raises the limit of an owner while the load client    *)
(* (src/bin/load.rs) works through a batch, and asserts what it reads of   *)
(* both.  The script, the catalog it holds, the reader of the client's     *)
(* output, the client's tasks and its poller run beside each other.        *)
(* Of the gateway AdmissionContract is assumed.                            *)
(***************************************************************************)
EXTENDS Naturals, Sequences, FiniteSets

CONSTANTS
    Tasks,          \* 60 in the code.
    High, Low,      \* 5 and 2 in the code.
    MaxEvents,      \* Bound: policy events that nobody has read,
    MaxPermits      \* and completions that nobody has used.

ASSUME DynamicDemoAssumption ==
    /\ IsFiniteSet(Tasks)
    /\ Low \in Nat \ {0} /\ High \in Nat /\ Low < High
    /\ MaxEvents \in Nat \ {0} /\ MaxPermits \in Nat \ {0}

VARIABLES
    script,         \* What main waits for.
    events,         \* The client's output, as the reader's queue has it.
    pacing, permits,    \* paced_completion, and the semaphore it releases.
    load, phase,    \* The client's main, and each task.
    revision, maximum, ready,   \* The client's gate.
    poller, fetched,
    expired,        \* A timeout has passed somewhere.
    serverRevision, held, started, verdict, limit   \* The gateway.

scriptVars == <<script, events, pacing>>
gateVars == <<revision, maximum, ready>>
pollerVars == <<poller, fetched>>
gatewayVars == <<held, started, verdict, limit>>
vars == <<scriptVars, permits, load, phase, gateVars, pollerVars, expired,
          serverRevision, gatewayVars>>

Gateway == INSTANCE AdmissionContract
    WITH Requests <- Tasks, Budgets <- {"owner"},
         BudgetOf <- [t \in Tasks |-> "owner"], Resizable <- {"owner"},
         InitialLimit <- [b \in {"owner"} |-> High], Limits <- {High, Low}

Ended == {"passed", "failed", "gave_up"}
\* A task has its permit from before it sends until it has the response.
Active == {t \in Tasks : phase[t] = "sent"}
Concluded == {t \in Tasks : phase[t] \in {"done", "error"}}

TypeOK ==
    /\ script \in {"boots", "fills", "reduces", "sees", "lowers", "raises",
                   "recovers", "completes", "joins", "asks"} \union Ended
    /\ Len(events) <= MaxEvents + 2
    /\ \A i \in DOMAIN events : events[i].event \in {"policy", "completed", "exited"}
    /\ pacing \in BOOLEAN /\ permits \in 0 .. MaxPermits
    /\ load \in {"absent", "runs", "exits", "succeeded", "stopped"}
    /\ phase \in [Tasks -> {"waits", "sent", "done", "error"}]
    /\ revision \in 0 .. serverRevision /\ maximum \in {0, Low, High}
    /\ ready \in BOOLEAN /\ expired \in BOOLEAN
    /\ poller \in {"sleeps", "fetched", "reports"}
    /\ serverRevision \in 1 .. 3
    /\ Gateway!TypeOK
    /\ ~expired => held \subseteq Active

Init ==
    /\ script = "boots" /\ events = <<>>
    /\ pacing = FALSE /\ permits = 0
    /\ load = "absent" /\ phase = [t \in Tasks |-> "waits"]
    /\ revision = 0 /\ maximum = 0 /\ ready = FALSE
    /\ poller = "sleeps" /\ fetched = [revision |-> 0, limit |-> 0, outstanding |-> 0]
    /\ expired = FALSE
    /\ serverRevision = 1
    /\ Gateway!Init
-----------------------------------------------------------------------------
(* The load client.                                                        *)

Emit(event) == events' = Append(events, event)

CanAcquire == ready /\ Cardinality(Active) < maximum

Acquire(t) ==
    /\ load = "runs"
    /\ phase[t] = "waits"
    /\ CanAcquire
    /\ phase' = [phase EXCEPT ![t] = "sent"]
    /\ UNCHANGED <<scriptVars, permits, load, gateVars, pollerVars, expired,
                   serverRevision, gatewayVars>>

\* Dispatcher models the retries of what was not started, which do not occur
\* here before a timeout.
Conclude(t) ==
    /\ load = "runs"
    /\ phase[t] = "sent"
    /\ verdict[t] # "none"
    /\ phase' = [phase EXCEPT
                    ![t] = IF verdict[t] = "completed" THEN "done" ELSE "error"]
    /\ UNCHANGED <<scriptVars, permits, load, gateVars, pollerVars, expired,
                   serverRevision, gatewayVars>>

\* The request's timeout: what becomes of it in the gateway, nobody knows.
TimeOut(t) ==
    /\ load = "runs"
    /\ phase[t] = "sent"
    /\ phase' = [phase EXCEPT ![t] = "error"]
    /\ expired' = TRUE
    /\ UNCHANGED <<scriptVars, permits, load, gateVars, pollerVars,
                   serverRevision, gatewayVars>>

Fetch ==
    /\ load \in {"runs", "exits"}
    /\ poller = "sleeps"
    /\ Len(events) < MaxEvents
    /\ poller' = "fetched"
    /\ fetched' = [revision |-> serverRevision, limit |-> limit["owner"],
                   outstanding |-> Cardinality(held)]
    /\ UNCHANGED <<scriptVars, permits, load, phase, gateVars, expired,
                   serverRevision, gatewayVars>>

\* The gate pauses.  Nobody waits for the event of that.
FetchFails ==
    /\ load \in {"runs", "exits"}
    /\ poller = "sleeps"
    /\ ~expired
    /\ ready' = FALSE
    /\ expired' = TRUE
    /\ UNCHANGED <<scriptVars, permits, load, phase, revision, maximum, pollerVars,
                   serverRevision, gatewayVars>>

Apply ==
    /\ load \in {"runs", "exits"}
    /\ poller = "fetched"
    /\ revision' = fetched.revision
    /\ maximum' = fetched.limit
    /\ ready' = TRUE
    /\ poller' = "reports"
    /\ UNCHANGED <<scriptVars, permits, load, phase, fetched, expired,
                   serverRevision, gatewayVars>>

\* What the client holds is read after the policy was applied.
Report ==
    /\ poller = "reports"
    /\ Emit([event |-> "policy", revision |-> revision, limit |-> maximum,
             active |-> Cardinality(Active), outstanding |-> fetched.outstanding])
    /\ poller' = "sleeps"
    /\ UNCHANGED <<script, pacing, permits, load, phase, gateVars, fetched,
                   expired, serverRevision, gatewayVars>>

Errors == {t \in Tasks : phase[t] = "error"}

Complete ==
    /\ load = "runs"
    /\ Concluded = Tasks
    /\ Emit([event |-> "completed", successful |-> Cardinality(Tasks \ Errors),
             errors |-> Cardinality(Errors)])
    /\ load' = "exits"
    /\ UNCHANGED <<script, pacing, permits, phase, gateVars, pollerVars, expired,
                   serverRevision, gatewayVars>>

\* The poller is aborted where it awaits.
Exit ==
    /\ poller # "reports"
    /\ load = "exits"
    /\ load' = IF Errors = {} THEN "succeeded" ELSE "stopped"
    /\ Emit([event |-> "exited"])
    /\ UNCHANGED <<script, pacing, permits, phase, gateVars, pollerVars, expired,
                   serverRevision, gatewayVars>>

\* "Workload deadline exceeded": its tasks and their requests end with it.
LoadExpires ==
    /\ poller # "reports"
    /\ load = "runs"
    /\ load' = "stopped"
    /\ expired' = TRUE
    /\ Emit([event |-> "exited"])
    /\ UNCHANGED <<script, pacing, permits, phase, gateVars, pollerVars,
                   serverRevision, gatewayVars>>

Poller == Fetch \/ Apply \/ Report
-----------------------------------------------------------------------------
(* The gateway and the catalog.                                            *)

Waiting(t) == phase[t] = "sent" /\ t \notin held \union started /\ verdict[t] = "none"

Admit(t) ==
    /\ Waiting(t)
    /\ \/ /\ Gateway!Admit(t)
          /\ held' = held \union {t}
          /\ verdict' = verdict
       \/ /\ Cardinality(held) >= limit["owner"]
          /\ verdict' = [verdict EXCEPT ![t] = "not_started"]
          /\ UNCHANGED <<held, started, limit>>
    /\ UNCHANGED <<permits, expired>>

\* Mutant: the catalog does not wait.
CompletesFreely(t) == Gateway!Free(t) /\ permits' = permits

\* do_GET: the catalog answers when it has a permit.
Completes(t) ==
    /\ permits > 0
    /\ permits' = permits - 1
    /\ Gateway!Free(t)

Execute(t) ==
    /\ \/ Gateway!Start(t) /\ UNCHANGED permits
       \/ Completes(t)
       \/ Gateway!Answer(t) /\ verdict'[t] = "completed" /\ UNCHANGED permits
    /\ UNCHANGED expired

\* Waiting in the queue, or for a permit, takes too long.
Overrun(t) ==
    /\ \/ Gateway!Lose(t) /\ verdict'[t] = "unknown"
       \/ /\ t \in held \ started
          /\ held' = held \ {t}
          /\ verdict' = [verdict EXCEPT ![t] = "not_started"]
          /\ UNCHANGED <<started, limit>>
    /\ expired' = TRUE
    /\ UNCHANGED <<scriptVars, permits, load, phase, gateVars, pollerVars,
                   serverRevision>>

GatewayStep(t) ==
    /\ Admit(t) \/ Execute(t)
    /\ UNCHANGED <<scriptVars, load, phase, gateVars, pollerVars, serverRevision>>

\* paced_completion.
Pace ==
    /\ pacing
    /\ permits < MaxPermits
    /\ permits' = permits + 1
    /\ UNCHANGED <<scriptVars, load, phase, gateVars, pollerVars, expired,
                   serverRevision, gatewayVars>>
-----------------------------------------------------------------------------
(* main.                                                                   *)

\* The gateway answers, the client is started; five requests are in the
\* catalog.
Boot ==
    /\ \/ script = "boots" /\ script' = "fills" /\ load' = "runs"
       \/ /\ script = "fills" /\ script' = "reduces"
          /\ Cardinality(started) >= High
          /\ UNCHANGED load
    /\ UNCHANGED <<events, pacing, permits, phase, gateVars, pollerVars, expired,
                   serverRevision, gatewayVars>>

\* change.
Change ==
    /\ script \in {"reduces", "raises"}
    /\ limit' = [limit EXCEPT !["owner"] = IF script = "reduces" THEN Low ELSE High]
    /\ serverRevision' = serverRevision + 1
    /\ script' = CASE script = "reduces" /\ Cardinality(held) = High
                                         /\ serverRevision' = 2 -> "sees"
                   [] script = "raises" /\ serverRevision' = 3 -> "recovers"
                   [] OTHER -> "failed"
    /\ UNCHANGED <<events, pacing, permits, load, phase, gateVars, pollerVars,
                   expired, held, started, verdict>>

Wanted(e) ==
    \/ script = "sees" /\ e.event = "policy" /\ e.revision = 2
    \/ script = "lowers" /\ e.event = "policy" /\ e.limit = Low
                         /\ e.active = Low /\ e.outstanding <= Low
    \/ script = "recovers" /\ e.event = "policy" /\ e.revision = 3 /\ e.active = High
    \/ script = "completes" /\ e.event = "completed"

Asserted(e) ==
    CASE script = "sees" -> e.active = High /\ e.limit = Low
      [] script = "completes" -> e.successful = Cardinality(Tasks) /\ e.errors = 0
      [] OTHER -> TRUE

AfterWait == [sees |-> "lowers", lowers |-> "raises", recovers |-> "completes",
              completes |-> "joins"]

\* Mutant: the end of the client's output is not noticed.
WaitOnly ==
    /\ script \in DOMAIN AfterWait
    /\ events # <<>>
    /\ events' = Tail(events)
    /\ script' = IF ~Wanted(Head(events)) THEN script
                 ELSE IF Asserted(Head(events)) THEN AfterWait[script]
                 ELSE "failed"
    /\ pacing' = (pacing \/ script' = "lowers")
    /\ UNCHANGED <<permits, load, phase, gateVars, pollerVars, expired,
                   serverRevision, gatewayVars>>

\* wait_event, and what is asserted of the event.
WaitEvent ==
    /\ script \in DOMAIN AfterWait
    /\ events # <<>>
    /\ events' = Tail(events)
    /\ script' = IF Head(events).event = "exited" THEN "gave_up"
                 ELSE IF ~Wanted(Head(events)) THEN script
                 ELSE IF Asserted(Head(events)) THEN AfterWait[script]
                 ELSE "failed"
    /\ pacing' = (pacing \/ script' = "lowers")
    /\ UNCHANGED <<permits, load, phase, gateVars, pollerVars, expired,
                   serverRevision, gatewayVars>>

\* load.wait, and the policy at the end.
Finish ==
    /\ \/ /\ script = "joins"
          /\ load \in {"succeeded", "stopped"}
          /\ script' = IF load = "succeeded" THEN "asks" ELSE "failed"
       \/ /\ script = "asks"
          /\ script' = IF held = {} THEN "passed" ELSE "failed"
    /\ UNCHANGED <<events, pacing, permits, load, phase, gateVars, pollerVars,
                   expired, serverRevision, gatewayVars>>

\* A deadline of the script's own, that of a request among them; a change that
\* has no answer may have been made or not, like all that becomes of the others.
GiveUp ==
    /\ script \notin Ended
    /\ script' = "gave_up"
    /\ expired' = TRUE
    /\ UNCHANGED <<events, pacing, permits, load, phase, gateVars, pollerVars,
                   serverRevision, gatewayVars>>

Main == Boot \/ Change \/ WaitEvent \/ Finish

\* What becomes of the others when the script has ended, and stops them, is
\* left open.
Next ==
    \/ Main \/ GiveUp
    \/ Poller \/ FetchFails
    \/ Complete \/ Exit \/ LoadExpires
    \/ \E t \in Tasks :
        \/ Acquire(t) \/ Conclude(t) \/ TimeOut(t)
        \/ GatewayStep(t) \/ Overrun(t)
    \/ Pace

Spec == Init /\ [][Next]_vars

\* Threads, tasks and processes run; no timeout has to pass.  The abort of the
\* poller takes effect at its next await, which it reaches again and again.
FairSpec ==
    /\ Spec
    /\ WF_vars(Main)
    /\ WF_vars(Poller)
    /\ WF_vars(Complete)
    /\ SF_vars(Exit)
    /\ WF_vars(Pace)
    /\ \A t \in Tasks :
        /\ WF_vars(Acquire(t) \/ Conclude(t))
        /\ WF_vars(GatewayStep(t))
-----------------------------------------------------------------------------
(* Properties.                                                             *)

\* "Hold the first five catalog requests until both server and client see 2":
\* without a timeout, no schedule of the five actors breaks an assertion of the
\* demonstration, and in one case only does it end without having passed: the
\* client worked through its whole batch, without an error, before any poll of
\* it showed what the script waits for ("Load client ended unexpectedly").
AssertionsHold ==
    ~expired =>
        /\ script # "failed"
        /\ script = "gave_up" => load = "succeeded"

\* No wait of the script depends on its deadline: unless something times out,
\* the client reaches the state that is waited for, or its output ends.
EndsInTime == <>(script \in Ended \/ expired)
=============================================================================

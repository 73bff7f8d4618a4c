-------------------------------- MODULE Gate --------------------------------
(***************************************************************************)
(* The client's gate (src/bin/load/control.rs): it admits an attempt only  *)
(* under the ceiling of the newest policy.  Around it are what shares it:  *)
(* workers that acquire and drop attempts, the poller that applies or      *)
(* pauses, and the end of the dispatcher's main, which stops the gate and  *)
(* waits until no attempt is active.  A change of the state and the        *)
(* notification of the watch channel are two steps, as the mutex is        *)
(* released in between.                                                    *)
(***************************************************************************)
EXTENDS Naturals, FiniteSets

CONSTANTS
    Workers,
    Main,
    Ceilings,       \* The ceilings an administrator may set.
    LastRevision    \* Bound: the revisions of one run of the gateway.

ASSUME GateAssumption ==
    /\ IsFiniteSet(Workers)
    /\ Main \notin Workers
    /\ Ceilings \subseteq Nat \ {0}
    /\ LastRevision \in Nat \ {0}

VARIABLES
    revision, maximum, active, ready, stopped,  \* State, under the mutex.
    worker,     \* Where each worker is in acquire, or what it got of it.
    unseen,     \* Receivers whose changed() returns at once.
    poller,
    fetched,    \* What the poller's request brings, NoPolicy if it failed.
    main,
    server      \* The budget that the gateway's discovery reports.

stateVars == <<revision, maximum, active, ready, stopped>>
vars == <<revision, maximum, active, ready, stopped, worker, unseen, poller,
          fetched, main, server>>

Policies == [revision : 1 .. LastRevision, maximum : Ceilings]
NoPolicy == [revision |-> 0, maximum |-> 0]

\* An attempt exists from the increment of active to the decrement.
Attempts == {w \in Workers : worker[w] \in {"acquired", "holding"}}

TypeOK ==
    /\ revision \in 0 .. LastRevision
    /\ maximum \in Ceilings \union {0}
    /\ active = Cardinality(Attempts)
    /\ ready \in BOOLEAN
    /\ stopped \in BOOLEAN
    /\ worker \in [Workers -> {"idle", "check", "declined", "waiting",
                               "acquired", "holding", "dropped", "refused"}]
    /\ unseen \subseteq Workers \union {Main}
    /\ poller \in {"sleep", "fetched", "publish", "aborted"}
    /\ fetched \in Policies \union {NoPolicy}
    /\ main \in {"serving", "aborted", "publish", "subscribe", "check",
                 "waiting", "drained"}
    /\ server \in Policies

Init ==
    /\ revision = 0
    /\ maximum = 0
    /\ active = 0
    /\ ready = FALSE
    /\ stopped = FALSE
    /\ worker = [w \in Workers |-> "idle"]
    /\ unseen = {}
    /\ poller = "sleep"
    /\ fetched = NoPolicy
    /\ main = "serving"
    /\ server \in {policy \in Policies : policy.revision = 1}

\* send_replace: every receiver has a value that it has not seen.
Publish == unseen' = Workers \union {Main}

-----------------------------------------------------------------------------
(* acquire, and the drop of an Attempt.                                    *)

Subscribe(w) ==
    /\ worker[w] = "idle"
    /\ unseen' = unseen \ {w}
    /\ worker' = [worker EXCEPT ![w] = "check"]
    /\ UNCHANGED <<stateVars, poller, fetched, main, server>>

CanAcquire == ready /\ active < maximum

\* Mutant: a stopped gate still admits.
AcquireStopped(w) ==
    /\ worker[w] = "check"
    /\ CanAcquire
    /\ active' = active + 1
    /\ worker' = [worker EXCEPT ![w] = "acquired"]
    /\ UNCHANGED <<revision, maximum, ready, stopped, unseen, poller, fetched,
                   main, server>>

Acquire(w) ==
    /\ worker[w] = "check"
    /\ ~stopped
    /\ CanAcquire
    /\ active' = active + 1
    /\ worker' = [worker EXCEPT ![w] = "acquired"]
    /\ UNCHANGED <<revision, maximum, ready, stopped, unseen, poller, fetched,
                   main, server>>

Refuse(w) ==
    /\ worker[w] = "check"
    /\ stopped
    /\ worker' = [worker EXCEPT ![w] = "refused"]
    /\ UNCHANGED <<stateVars, unseen, poller, fetched, main, server>>

\* The state does not allow an attempt; the mutex is released.
Decline(w) ==
    /\ worker[w] = "check"
    /\ ~stopped
    /\ ~CanAcquire
    /\ worker' = [worker EXCEPT ![w] = "declined"]
    /\ UNCHANGED <<stateVars, unseen, poller, fetched, main, server>>

\* Mutant: the receiver is made where it waits, after the state was checked.
WaitSubscribing(w) ==
    /\ worker[w] = "declined"
    /\ unseen' = unseen \ {w}
    /\ worker' = [worker EXCEPT ![w] = "waiting"]
    /\ UNCHANGED <<stateVars, poller, fetched, main, server>>

Wait(w) ==
    /\ worker[w] = "declined"
    /\ worker' = [worker EXCEPT ![w] = "waiting"]
    /\ UNCHANGED <<stateVars, unseen, poller, fetched, main, server>>

Wake(w) ==
    /\ worker[w] = "waiting"
    /\ w \in unseen
    /\ unseen' = unseen \ {w}
    /\ worker' = [worker EXCEPT ![w] = "check"]
    /\ UNCHANGED <<stateVars, poller, fetched, main, server>>

\* The caller of acquire gives up while it waits.
GiveUp(w) ==
    /\ worker[w] = "waiting"
    /\ worker' = [worker EXCEPT ![w] = "idle"]
    /\ UNCHANGED <<stateVars, unseen, poller, fetched, main, server>>

AnnounceAcquired(w) ==
    /\ worker[w] = "acquired"
    /\ Publish
    /\ worker' = [worker EXCEPT ![w] = "holding"]
    /\ UNCHANGED <<stateVars, poller, fetched, main, server>>

Drop(w) ==
    /\ worker[w] = "holding"
    /\ active' = active - 1
    /\ worker' = [worker EXCEPT ![w] = "dropped"]
    /\ UNCHANGED <<revision, maximum, ready, stopped, unseen, poller, fetched,
                   main, server>>

\* Mutant: the drop of an attempt tells nobody.
AnnounceNothing(w) ==
    /\ worker[w] = "dropped"
    /\ worker' = [worker EXCEPT ![w] = "idle"]
    /\ UNCHANGED <<stateVars, unseen, poller, fetched, main, server>>

AnnounceDropped(w) ==
    /\ worker[w] = "dropped"
    /\ Publish
    /\ worker' = [worker EXCEPT ![w] = "idle"]
    /\ UNCHANGED <<stateVars, poller, fetched, main, server>>

-----------------------------------------------------------------------------
(* The poller: apply or pause.                                             *)

\* The policy is read now and arrives later, or not at all.
Fetch ==
    /\ poller = "sleep"
    /\ fetched' \in {server, NoPolicy}
    /\ poller' = "fetched"
    /\ UNCHANGED <<stateVars, worker, unseen, main, server>>

Consistent(policy) ==
    /\ policy # NoPolicy
    /\ policy.revision >= revision
    /\ policy.revision = revision => policy.maximum = maximum

Apply ==
    /\ poller = "fetched"
    /\ Consistent(fetched)
    /\ revision' = fetched.revision
    /\ maximum' = fetched.maximum
    /\ ready' = TRUE
    /\ poller' = "publish"
    /\ UNCHANGED <<active, stopped, worker, unseen, fetched, main, server>>

Pause ==
    /\ poller = "fetched"
    /\ ~Consistent(fetched)
    /\ ready' = FALSE
    /\ poller' = "publish"
    /\ UNCHANGED <<revision, maximum, active, stopped, worker, unseen,
                   fetched, main, server>>

AnnouncePolicy ==
    /\ poller = "publish"
    /\ Publish
    /\ poller' = "sleep"
    /\ UNCHANGED <<stateVars, worker, fetched, main, server>>

-----------------------------------------------------------------------------
(* The end of main.                                                        *)

\* The poller ends where it awaits, never between a change and its notice.
AbortPoller ==
    /\ main = "serving"
    /\ poller \in {"sleep", "fetched"}
    /\ poller' = "aborted"
    /\ main' = "aborted"
    /\ UNCHANGED <<stateVars, worker, unseen, fetched, server>>

Stop ==
    /\ main = "aborted"
    /\ stopped' = TRUE
    /\ main' = "publish"
    /\ UNCHANGED <<revision, maximum, active, ready, worker, unseen, poller,
                   fetched, server>>

AnnounceStop ==
    /\ main = "publish"
    /\ Publish
    /\ main' = "subscribe"
    /\ UNCHANGED <<stateVars, worker, poller, fetched, server>>

SubscribeMain ==
    /\ main = "subscribe"
    /\ unseen' = unseen \ {Main}
    /\ main' = "check"
    /\ UNCHANGED <<stateVars, worker, poller, fetched, server>>

CheckDrained ==
    /\ main = "check"
    /\ main' = IF active = 0 THEN "drained" ELSE "waiting"
    /\ UNCHANGED <<stateVars, worker, unseen, poller, fetched, server>>

WakeMain ==
    /\ main = "waiting"
    /\ Main \in unseen
    /\ unseen' = unseen \ {Main}
    /\ main' = "check"
    /\ UNCHANGED <<stateVars, worker, poller, fetched, server>>

-----------------------------------------------------------------------------
(* The gateway, as discovery shows it: an administrator sets a ceiling, or *)
(* the process starts again with its first revision.                       *)

SetCeiling ==
    /\ server.revision < LastRevision
    /\ server' \in {policy \in Policies :
                        policy.revision = server.revision + 1}
    /\ UNCHANGED <<stateVars, worker, unseen, poller, fetched, main>>

Restart ==
    /\ server' \in {policy \in Policies : policy.revision = 1}
    /\ UNCHANGED <<stateVars, worker, unseen, poller, fetched, main>>

Worker(w) ==
    \/ Acquire(w) \/ Refuse(w) \/ Decline(w) \/ Wait(w) \/ Wake(w)
    \/ AnnounceAcquired(w) \/ Drop(w) \/ AnnounceDropped(w)

Stopping == Stop \/ AnnounceStop \/ SubscribeMain \/ CheckDrained \/ WakeMain

Next ==
    \/ \E w \in Workers : Subscribe(w) \/ Worker(w) \/ GiveUp(w)
    \/ Fetch \/ Apply \/ Pause \/ AnnouncePolicy
    \/ AbortPoller \/ Stopping
    \/ SetCeiling \/ Restart

Spec == Init /\ [][Next]_vars

\* The runtime polls ready tasks and every exchange ends by its timeout, so
\* that attempts are dropped.  Nothing forces anybody to acquire, an exchange
\* with the server to succeed, or the process to be interrupted.
Fairness ==
    /\ \A w \in Workers : WF_vars(Worker(w))
    /\ WF_vars(Apply \/ Pause)
    /\ WF_vars(AnnouncePolicy)
    /\ WF_vars(Stopping)

FairSpec == Spec /\ Fairness
-----------------------------------------------------------------------------
(* Properties.                                                             *)

\* Somebody is between a change of the state and send_replace.
Announcing ==
    \/ \E w \in Workers : worker[w] \in {"acquired", "dropped"}
    \/ poller = "publish"
    \/ main = "publish"

\* "Subscribe before checking state so a resize/release cannot be missed": no
\* worker sleeps while it could acquire or should be refused, and main does
\* not sleep when the last attempt is gone, unless a notice is on its way.
NoMissedChange ==
    /\ \A w \in Workers :
        /\ worker[w] = "waiting"
        /\ CanAcquire \/ stopped
        => w \in unseen \/ Announcing
    /\ main = "waiting" /\ active = 0 => Main \in unseen \/ Announcing

\* Once main has seen the gate drained, nobody can start another attempt.
DrainedForGood == main = "drained" => Attempts = {} /\ stopped

\* The dispatcher ends: main, which sleeps on the same channel as everybody,
\* hears of the last attempt that is dropped from a stopped gate.
StopDrains == stopped ~> main = "drained"
=============================================================================

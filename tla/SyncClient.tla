----------------------------- MODULE SyncClient -----------------------------
(***************************************************************************)
(* execute of python/ai_protocol/protocol.py: the synchronous callers of   *)
(* an owner, each with five attempts and one deadline, against a gateway   *)
(* of which only AdmissionContract is assumed.  Time passes in seconds and *)
(* while a caller computes, too.                                           *)
(***************************************************************************)
EXTENDS Naturals, FiniteSets

CONSTANTS
    Callers,
    MaxAttempts,    \* 5 in the code.
    TaskTimeout,    \* Seconds; 120 by default.
    RetryAfter,     \* What the header may say; 1 if it says nothing.
    Limits, InitialLimit

ASSUME SyncClientAssumption ==
    /\ IsFiniteSet(Callers)
    /\ MaxAttempts \in Nat \ {0}
    /\ TaskTimeout \in Nat
    /\ RetryAfter \subseteq Nat
    /\ RetryAfter # {}
    /\ Limits \subseteq Nat \ {0}
    /\ InitialLimit \in Limits

VARIABLES
    phase, attempt,
    left,       \* Until the deadline; 0 when it has passed.
    nap,        \* What is left of a sleep.
    outcome,    \* What execute returned or raised.
    held, started, verdict, limit   \* The gateway.

callVars == <<phase, attempt, left, nap, outcome>>
gatewayVars == <<held, started, verdict, limit>>
vars == <<callVars, gatewayVars>>

Attempts == Callers \X (1 .. MaxAttempts)

Gateway == INSTANCE AdmissionContract
    WITH Requests <- Attempts, Budgets <- {"owner"},
         BudgetOf <- [a \in Attempts |-> "owner"], Resizable <- {"owner"},
         InitialLimit <- [b \in {"owner"} |-> InitialLimit]

\* Attempts that are or were on the wire.
Sent ==
    {a \in Attempts : \/ a[2] < attempt[a[1]]
                      \/ a[2] = attempt[a[1]] /\ phase[a[1]] # "ready"}

TypeOK ==
    /\ phase \in [Callers -> {"ready", "sent", "asleep", "ended"}]
    /\ attempt \in [Callers -> 1 .. MaxAttempts]
    /\ left \in [Callers -> 0 .. TaskTimeout]
    /\ nap \in [Callers -> Nat]
    /\ outcome \in [Callers -> {"none", "result", "timeout", "error"}]
    /\ Gateway!TypeOK

\* The operation and the parameters are valid.
Init ==
    /\ phase = [c \in Callers |-> "ready"]
    /\ attempt = [c \in Callers |-> 1]
    /\ left = [c \in Callers |-> TaskTimeout]
    /\ nap = [c \in Callers |-> 0]
    /\ outcome = [c \in Callers |-> "none"]
    /\ Gateway!Init

Ends(c, what) ==
    /\ phase' = [phase EXCEPT ![c] = "ended"]
    /\ outcome' = [outcome EXCEPT ![c] = what]
    /\ UNCHANGED <<attempt, left, nap, gatewayVars>>

Late(c) == left[c] = 0

GiveUp(c) ==
    /\ phase[c] = "ready"
    /\ Late(c)
    /\ Ends(c, "timeout")

Send(c) ==
    /\ phase[c] = "ready"
    /\ ~Late(c)
    /\ phase' = [phase EXCEPT ![c] = "sent"]
    /\ UNCHANGED <<attempt, left, nap, outcome, gatewayVars>>

\* The gateway's word as a response; a result may be no JSON.
Statuses(execution) ==
    CASE execution = "completed"   -> {"result", "error"}
      [] execution = "not_started" -> {"retryable", "error"}
      [] execution = "unknown"     -> {"error"}
      [] OTHER                     -> {}

Responds(c, what) ==
    /\ phase[c] = "sent"
    /\ what \in Statuses(verdict[<<c, attempt[c]>>])

\* Mutant: any response that is no result is worth another attempt.
RetriesErrors(what) == what # "result"

SafeToRetry(what) == what = "retryable"

\* Mutant: the request has no timeout.
FailsOnceAnswered(c) ==
    /\ phase[c] = "sent"
    /\ verdict[<<c, attempt[c]>>] # "none"
    /\ Ends(c, "error")

\* The transport fails, of its timeout or otherwise: never a retry.
TransportFails(c) ==
    /\ phase[c] = "sent"
    /\ Ends(c, "error")

\* The response came too late, whatever it says.
RespondLate(c) ==
    /\ \E what \in {"result", "retryable", "error"} : Responds(c, what)
    /\ Late(c)
    /\ Ends(c, "timeout")

Fits(c, seconds) == seconds < left[c]

Nap(c) ==
    /\ \E what \in {"retryable", "error"} :
        Responds(c, what) /\ SafeToRetry(what)
    /\ ~Late(c)
    /\ attempt[c] < MaxAttempts
    /\ \E seconds \in RetryAfter :
        /\ Fits(c, seconds)
        /\ nap' = [nap EXCEPT ![c] = seconds]
    /\ phase' = [phase EXCEPT ![c] = "asleep"]
    /\ UNCHANGED <<attempt, left, outcome, gatewayVars>>

RetryTooLate(c) ==
    /\ Responds(c, "retryable")
    /\ ~Late(c)
    /\ attempt[c] < MaxAttempts
    /\ \E seconds \in RetryAfter : ~Fits(c, seconds)
    /\ Ends(c, "timeout")

Conclude(c) ==
    /\ ~Late(c)
    /\ \E what \in {"result", "retryable", "error"} :
        /\ Responds(c, what)
        /\ what = "retryable" => attempt[c] = MaxAttempts
        /\ Ends(c, IF what = "result" THEN "result" ELSE "error")

Wake(c) ==
    /\ phase[c] = "asleep"
    /\ nap[c] = 0
    /\ phase' = [phase EXCEPT ![c] = "ready"]
    /\ attempt' = [attempt EXCEPT ![c] = @ + 1]
    /\ UNCHANGED <<left, nap, outcome, gatewayVars>>

Execute(c) ==
    \/ GiveUp(c) \/ Send(c)
    \/ TransportFails(c) \/ RespondLate(c)
    \/ Nap(c) \/ RetryTooLate(c) \/ Conclude(c) \/ Wake(c)

Less(n) == IF n = 0 THEN 0 ELSE n - 1

Tick ==
    /\ left' = [c \in Callers |->
                    IF phase[c] = "ended" THEN left[c] ELSE Less(left[c])]
    /\ nap' = [c \in Callers |-> Less(nap[c])]
    /\ UNCHANGED <<phase, attempt, outcome, gatewayVars>>

GatewayStep ==
    /\ Gateway!Next
    /\ held' \subseteq Sent
    /\ \A a \in Attempts \ Sent : verdict'[a] = verdict[a]
    /\ UNCHANGED callVars

Next == (\E c \in Callers : Execute(c)) \/ Tick \/ GatewayStep

Spec == Init /\ [][Next]_vars

\* Callers run, time passes and every exchange ends within its timeout.
FairSpec == Spec /\ (\A c \in Callers : WF_vars(Execute(c))) /\ WF_vars(Tick)
-----------------------------------------------------------------------------
(* Properties.                                                             *)

\* A result is the caller's own: an attempt of it, and the last one, was
\* executed to the end, and nothing was refused or unknown in between.
ResultIsReal ==
    \A c \in Callers :
        outcome[c] = "result" =>
            /\ verdict[<<c, attempt[c]>>] = "completed"
            /\ \A a \in Attempts :
                a[1] = c /\ a[2] < attempt[c] => verdict[a] = "not_started"

\* A sleep ends before its caller's deadline, however late it started.
NapsFit == \A c \in Callers : nap[c] > 0 => nap[c] < left[c]

\* Every call ends, even if the gateway never answers, and it does not sleep
\* through its deadline: who waits for another attempt has time for it left.
CallsEnd == (\A c \in Callers : <>(phase[c] = "ended")) /\ []NapsFit
=============================================================================

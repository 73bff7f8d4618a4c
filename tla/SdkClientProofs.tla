-------------------------- MODULE SdkClientProofs ---------------------------
(***************************************************************************)
(* Proofs about the two Python clients: SdkClient, with and without a      *)
(* dispatcher, for any number of calls, attempts, openers, refreshers,     *)
(* ceilings and revisions, and SyncClient, for any number of callers,      *)
(* attempts and seconds.                                                   *)
(***************************************************************************)
EXTENDS SdkClient, FiniteSetTheorems, TLAPS

\* The synchronous client, of the same callers against the same gateway; its
\* own constants and variables are these.
CONSTANTS TaskTimeout, RetryAfter
VARIABLES syncPhase, attempt, timeLeft, nap, outcome

Sync == INSTANCE SyncClient WITH phase <- syncPhase, left <- timeLeft

-----------------------------------------------------------------------------
(* The gateway, by its contract.                                           *)

\* Who heard a verdict holds nothing; of "not_started", has never been started.
ContractInv ==
    \A a \in Attempts :
        /\ verdict[a] # "none" => a \notin held
        /\ verdict[a] = "not_started" => a \notin started

\* What a step of the contract keeps: types, what was heard, and where starts
\* come from.
ContractKept ==
    /\ held' \subseteq Attempts /\ started' \subseteq Attempts
    /\ verdict' \in [Attempts -> Gateway!Verdicts]
    /\ ContractInv'
    /\ started' \subseteq started \union held
    /\ \A a \in Attempts : verdict[a] # "none" => verdict'[a] = verdict[a]

LEMMA ContractSteps ==
    ASSUME Gateway!TypeOK, ContractInv, Gateway!Next
    PROVE  ContractKept
<1>1. CASE Gateway!Dismiss
    BY <1>1 DEF Gateway!Dismiss, Gateway!Dismissible, Gateway!Told,
                Gateway!TypeOK, Gateway!Verdicts, ContractInv, ContractKept
<1>2. ASSUME NEW r \in Attempts, Gateway!Admit(r)
      PROVE  ContractKept
    BY <1>2 DEF Gateway!Admit, Gateway!Dismissible, Gateway!Told,
                Gateway!TypeOK, Gateway!Verdicts, ContractInv, ContractKept
<1>3. ASSUME NEW r \in Attempts,
             \/ Gateway!Start(r) \/ Gateway!Free(r)
             \/ Gateway!Answer(r) \/ Gateway!Lose(r)
      PROVE  ContractKept
    BY <1>3 DEF Gateway!Start, Gateway!Free, Gateway!Answer,
                Gateway!Lose, Gateway!Told, Gateway!TypeOK,
                Gateway!Verdicts, ContractInv, ContractKept
<1>4. ASSUME NEW b, Gateway!Resize(b)
      PROVE  UNCHANGED <<held, started, verdict>>
    BY <1>4 DEF Gateway!Resize
<1>5. CASE \E b \in {"owner"} : Gateway!Resize(b)
    BY <1>4, <1>5 DEF Gateway!TypeOK, ContractInv, ContractKept
<1> QED
    BY <1>1, <1>2, <1>3, <1>5 DEF Gateway!Next
-----------------------------------------------------------------------------
(* The places of attempts.                                                 *)

\* Calls that own a permit are finitely many.
LEMMA FiniteHolding ==
    IsFiniteSet(Holding) /\ Cardinality(Holding) \in Nat
BY FS_Subset, FS_CardinalityType, SdkClientAssumption
    DEF SdkClientAssumption, Holding

\* A notification moves sleepers only.
LEMMA NotifiedPlaces ==
    ASSUME NEW p
    PROVE  \A c \in Callers :
            /\ Notified(p)[c] # "asleep"
            /\ p[c] # "asleep" => Notified(p)[c] = p[c]
            /\ p[c] = "asleep" => Notified(p)[c] = "woken"
BY DEF Notified

Phases == {"new", "asleep", "woken", "connecting", "sent", "backoff", "ended"}

\* What Leaves does to the others and to the count: a call goes where no
\* permit is held, and its permit comes back.
LEMMA LeavesPlaces ==
    ASSUME shared \in BOOLEAN, shared' = shared, phase \in [Callers -> Phases],
           active = Cardinality(Holding),
           NEW c \in Callers, NEW p \in {"backoff", "ended"}, Leaves(c, p)
    PROVE  /\ phase' \in [Callers -> Phases]
           /\ phase'[c] = p
           /\ \A d \in Callers \ {c} :
                \/ phase'[d] = phase[d]
                \/ phase[d] = "asleep" /\ phase'[d] = "woken"
           /\ active' = Cardinality(Holding')
           /\ active' # active => \A d \in Callers : phase'[d] # "asleep"
<1> DEFINE left == [phase EXCEPT ![c] = p]
<1>1. CASE c \in Holding
    <2>1. phase' = Notified(left) /\ active' = active - 1
        BY <1>1 DEF Leaves
    <2>2. /\ phase' \in [Callers -> Phases] /\ phase'[c] = p
          /\ \A d \in Callers \ {c} :
                \/ phase'[d] = phase[d]
                \/ phase[d] = "asleep" /\ phase'[d] = "woken"
          /\ \A d \in Callers : phase'[d] # "asleep"
        BY <2>1 DEF Notified, Phases
    <2>3. Holding' = Holding \ {c}
        BY <2>2 DEF Holding
    <2>4. Cardinality(Holding \ {c}) = Cardinality(Holding) - 1
        BY <1>1, FiniteHolding, FS_RemoveElement
    <2> QED
        BY <2>1, <2>2, <2>3, <2>4
<1>2. CASE c \notin Holding
    <2>1. phase' = left /\ active' = active
        BY <1>2 DEF Leaves
    <2>2. Holding' = Holding
        BY <1>2, <2>1 DEF Holding
    <2> QED
        BY <2>1, <2>2 DEF Phases
<1> QED
    BY <1>1, <1>2

\* What a step of a call does to the others, to the count and to sleepers.
Kept(d) ==
    \/ phase'[d] = phase[d]
    \/ phase[d] = "asleep" /\ phase'[d] = "woken"

CallAction(c) == CallOutside(c) \/ Proceeds(c) \/ Timeout(c) \/ Cancel(c)

LEMMA CallPlaces ==
    ASSUME TypeOK, NoMissedWakeup, NEW c \in Callers, CallAction(c),
           phase[c] = "connecting" => shared
    PROVE  /\ shared' = shared
           /\ phase' \in [Callers -> Phases]
           /\ \A d \in Callers \ {c} : Kept(d)
           /\ active' = Cardinality(Holding')
           /\ NoMissedWakeup'
<1>1. ASSUME NEW p \in {"backoff", "ended"}, Leaves(c, p),
             UNCHANGED <<shared, policy, ready, closed>>
      PROVE  /\ shared' = shared
             /\ phase' \in [Callers -> Phases]
             /\ \A d \in Callers \ {c} : Kept(d)
             /\ active' = Cardinality(Holding')
             /\ NoMissedWakeup'
    <2>1. shared' = shared /\ shared \in BOOLEAN /\ phase \in [Callers -> Phases]
          /\ active = Cardinality(Holding)
        BY <1>1 DEF TypeOK, Phases
    <2>2. /\ phase' \in [Callers -> Phases]
          /\ phase'[c] = p
          /\ \A d \in Callers \ {c} :
                \/ phase'[d] = phase[d]
                \/ phase[d] = "asleep" /\ phase'[d] = "woken"
          /\ active' = Cardinality(Holding')
          /\ active' # active => \A d \in Callers : phase'[d] # "asleep"
        BY <1>1, <2>1, LeavesPlaces
    <2>3. \A d \in Callers : phase'[d] = "asleep" => phase[d] = "asleep"
        BY <2>2
    <2>4. NoMissedWakeup'
        BY <1>1, <2>2, <2>3 DEF NoMissedWakeup, HasRoom
    <2> QED
        BY <2>1, <2>2, <2>4 DEF Kept
<1>2. CASE Timeout(c) \/ Cancel(c) \/ CallOutside(c) \/ Refuse(c)
           \/ ConnectFails(c) \/ Backoff(c) \/ Return(c) \/ Fail(c)
    BY <1>1, <1>2 DEF Timeout, Cancel, CallOutside, Refuse, ConnectFails,
                Backoff, Return, Fail, Concludes
<1>3. CASE Reject(c)
    <2>1. /\ phase[c] \in {"new", "backoff", "woken"}
          /\ UNCHANGED <<shared, active, policy, ready, closed>>
          /\ phase' = [phase EXCEPT ![c] = "ended"]
                \/ phase' = Notified([phase EXCEPT ![c] = "ended"])
        BY <1>3 DEF Reject, Looks, gateVars
    <2>2. /\ phase' \in [Callers -> Phases] /\ phase'[c] = "ended"
          /\ \A d \in Callers \ {c} : Kept(d)
        BY <2>1 DEF TypeOK, Phases, Notified, Kept
    <2>3. Holding' = Holding
        BY <2>1, <2>2 DEF Holding, Kept
    <2> QED
        BY <2>1, <2>2, <2>3 DEF TypeOK, NoMissedWakeup, HasRoom, Kept
<1>4. CASE Wait(c)
    <2>1. /\ phase[c] \in {"new", "backoff", "woken"} /\ ~closed /\ ~HasRoom
          /\ UNCHANGED <<shared, active, policy, ready, closed>>
          /\ phase' = [phase EXCEPT ![c] = "asleep"]
        BY <1>4 DEF Wait, Looks, gateVars
    <2>2. Holding' = Holding
        BY <2>1 DEF Holding, TypeOK
    <2> QED
        BY <2>1, <2>2 DEF TypeOK, Phases, Kept, NoMissedWakeup, HasRoom
<1>5. CASE Connect(c)
    <2>1. /\ phase[c] = "connecting"
          /\ UNCHANGED <<shared, active, policy, ready, closed>>
          /\ phase' = [phase EXCEPT ![c] = "sent"]
        BY <1>5 DEF Connect, gateVars
    <2>2. Holding' = Holding
        BY <2>1 DEF Holding
    <2> QED
        BY <2>1, <2>2 DEF TypeOK, Phases, Kept, NoMissedWakeup, HasRoom
<1>6. CASE Send(c)
    <2>1. /\ phase[c] \in {"new", "backoff", "woken"}
          /\ UNCHANGED <<shared, policy, ready, closed>>
        BY <1>6 DEF Send, Looks
    <2>2. CASE shared
        <3>1. phase' = [phase EXCEPT ![c] = "connecting"] /\ active' = active
            BY <1>6, <2>2 DEF Send
        <3>2. Holding' = Holding
            BY <2>1, <2>2 DEF Holding
        <3> QED
            BY <2>1, <3>1, <3>2 DEF TypeOK, Phases, Kept, NoMissedWakeup, HasRoom
    <2>3. CASE ~shared
        <3>1. phase' = [phase EXCEPT ![c] = "sent"] /\ active' = active + 1
            BY <1>6, <2>3 DEF Send
        <3>2. Holding' = Holding \union {c} /\ c \notin Holding
            BY <2>1, <2>3, <3>1 DEF Holding, TypeOK
        <3>3. Cardinality(Holding \union {c}) = Cardinality(Holding) + 1
            BY <3>2, FiniteHolding, FS_AddElement
        <3>4. \A d \in Callers : phase'[d] # "asleep"
            BY <1>6, <3>1 DEF Send, TypeOK, NoMissedWakeup
        <3> QED
            BY <2>1, <3>1, <3>2, <3>3, <3>4
                DEF TypeOK, Phases, Kept, NoMissedWakeup
    <2> QED
        BY <2>2, <2>3
<1> QED
    BY <1>2, <1>3, <1>4, <1>5, <1>6 DEF CallAction, Proceeds
-----------------------------------------------------------------------------
(* What is true of a call.                                                 *)

\* All it sent was refused.
Refused(c) ==
    \A n \in 1 .. MaxAttempts :
        <<c, n>> \in sent => verdict[<<c, n>>] = "not_started"

\* Where it can be at which attempt; whatever it sent before this attempt was
\* refused, and if this one is not on its way, or known to be refused, all was.
CallInv(c) ==
    /\ phase[c] = "new" => number[c] = 0
    /\ phase[c] \in {"asleep", "woken", "connecting", "sent", "backoff"} =>
        number[c] \in 1 .. MaxAttempts
    /\ phase[c] = "backoff" => number[c] < MaxAttempts
    /\ phase[c] = "connecting" => shared
    /\ phase[c] \in {"connecting", "sent"} => mayHaveExecuted[c]
    /\ told[c] # "none" => phase[c] = "ended"
    /\ \A n \in 1 .. MaxAttempts :
        <<c, n>> \in sent /\ n # number[c] => verdict[<<c, n>>] = "not_started"
    /\ \/ phase[c] \in {"new", "asleep", "woken", "backoff", "connecting"}
       \/ ~mayHaveExecuted[c]
       \/ told[c] = "not_started"
       => Refused(c)

\* What one call has sent is not touched by another.
SentKept(d) == \A n \in 1 .. MaxAttempts : <<d, n>> \in sent' <=> <<d, n>> \in sent

RefusalsKept ==
    \A a \in Attempts : verdict[a] = "not_started" => verdict'[a] = "not_started"

LEMMA OthersKept ==
    ASSUME NEW d \in Callers, CallInv(d), Kept(d), SentKept(d), RefusalsKept,
           shared' = shared, number'[d] = number[d], told'[d] = told[d],
           mayHaveExecuted'[d] = mayHaveExecuted[d]
    PROVE  CallInv(d)'
BY DEF CallInv, Refused, Kept, SentKept, RefusalsKept, Attempts

Tolds == {"none", "completed", "not_started", "unknown", "cancelled", "error"}

\* What a call knows after a step of its own.
LEMMA CallWords ==
    ASSUME TypeOK, NEW c \in Callers, CallInv(c), CallAction(c)
    PROVE  /\ number' \in [Callers -> 0 .. MaxAttempts]
           /\ mayHaveExecuted' \in [Callers -> BOOLEAN]
           /\ told' \in [Callers -> Tolds]
           /\ sent \subseteq sent' /\ sent' \subseteq Attempts
           /\ CallInv(c)'
           /\ \A d \in Callers \ {c} :
                /\ SentKept(d)
                /\ UNCHANGED <<number[d], told[d], mayHaveExecuted[d]>>
           /\ UNCHANGED <<policy, ready, closed, taskVars, gatewayVars>>
<1> DEFINE Goal ==
            /\ number' \in [Callers -> 0 .. MaxAttempts]
            /\ mayHaveExecuted' \in [Callers -> BOOLEAN]
            /\ told' \in [Callers -> Tolds]
            /\ sent \subseteq sent' /\ sent' \subseteq Attempts
            /\ CallInv(c)'
            /\ \A d \in Callers \ {c} :
                /\ SentKept(d)
                /\ UNCHANGED <<number[d], told[d], mayHaveExecuted[d]>>
            /\ UNCHANGED <<policy, ready, closed, taskVars, gatewayVars>>
<1>1. ASSUME NEW p \in {"backoff", "ended"}, Leaves(c, p) PROVE phase'[c] = p
    <2>1. shared \in BOOLEAN /\ phase \in [Callers -> Phases]
        BY DEF TypeOK, Phases
    <2> QED
        BY <1>1, <2>1 DEF Leaves, Notified
\* The end of a call.
<1>2. ASSUME NEW what \in Tolds \ {"none"}, Concludes(c, what),
             what = "not_started" => Refused(c),
             UNCHANGED <<shared, sent, policy, ready, closed, taskVars, gatewayVars>>,
             number' \in [Callers -> 0 .. MaxAttempts],
             mayHaveExecuted' \in [Callers -> BOOLEAN],
             number'[c] = number[c] \/ Refused(c),
             mayHaveExecuted'[c] \/ Refused(c),
             \A d \in Callers \ {c} :
                UNCHANGED <<number[d], mayHaveExecuted[d]>>
      PROVE  Goal
    <2>1. phase'[c] = "ended" /\ told' = [told EXCEPT ![c] = what]
        BY <1>1, <1>2 DEF Concludes
    <2>2. CallInv(c)'
        BY <1>2, <2>1 DEF CallInv, Refused, TypeOK, gatewayVars, Tolds
    <2> QED
        BY <1>2, <2>1, <2>2 DEF TypeOK, Tolds, SentKept
<1>3. CASE Looks(c) /\ (Refuse(c) \/ Reject(c) \/ Wait(c) \/ Send(c))
    <2>1. /\ number' \in [Callers -> 0 .. MaxAttempts]
          /\ \A d \in Callers \ {c} : number'[d] = number[d]
          /\ number'[c] \in 1 .. MaxAttempts
        BY <1>3, SdkClientAssumption DEF Looks, CallInv, TypeOK, SdkClientAssumption
    <2>2. Refused(c) /\ told[c] = "none" /\ phase[c] \in {"new", "backoff", "woken"}
        BY <1>3 DEF Looks, CallInv
    <2>3. CASE Refuse(c)
        BY <1>2, <2>1, <2>2, <2>3 DEF Refuse, TypeOK, Tolds
    <2>4. CASE Reject(c)
        <3>1. phase'[c] = "ended" /\ told' = [told EXCEPT ![c] = "not_started"]
              /\ UNCHANGED <<shared, mayHaveExecuted, policy, ready, closed,
                             taskVars, sent, gatewayVars>>
            BY <2>4 DEF Reject, TypeOK, Notified, gateVars
        <3>2. CallInv(c)'
            BY <2>1, <2>2, <3>1 DEF CallInv, Refused, TypeOK, gatewayVars
        <3> QED
            BY <2>1, <3>1, <3>2 DEF TypeOK, Tolds, SentKept
    <2>5. CASE Wait(c)
        <3>1. phase'[c] = "asleep"
              /\ UNCHANGED <<shared, told, mayHaveExecuted, policy, ready,
                             closed, taskVars, sent, gatewayVars>>
            BY <2>5 DEF Wait, TypeOK, gateVars
        <3>2. CallInv(c)'
            BY <2>1, <2>2, <3>1 DEF CallInv, Refused, TypeOK, gatewayVars
        <3> QED
            BY <2>1, <3>1, <3>2 DEF TypeOK, Tolds, SentKept
    <2>6. CASE Send(c)
        <3>1. /\ UNCHANGED <<shared, told, policy, ready, closed, taskVars,
                             gatewayVars>>
              /\ mayHaveExecuted' = [mayHaveExecuted EXCEPT ![c] = TRUE]
            BY <2>6 DEF Send
        <3>2. CASE shared
            <4>1. phase'[c] = "connecting" /\ sent' = sent
                BY <2>6, <3>2 DEF Send, TypeOK
            <4>2. CallInv(c)'
                BY <2>1, <2>2, <3>1, <3>2, <4>1
                    DEF CallInv, Refused, TypeOK, gatewayVars
            <4> QED
                BY <2>1, <3>1, <4>1, <4>2 DEF TypeOK, Tolds, SentKept
        <3>3. CASE ~shared
            <4>1. phase'[c] = "sent" /\ sent' = sent \union {<<c, number'[c]>>}
                BY <2>6, <3>3 DEF Send, TypeOK
            <4>2. CallInv(c)'
                BY <2>1, <2>2, <3>1, <3>3, <4>1
                    DEF CallInv, Refused, TypeOK, gatewayVars
            <4> QED
                BY <2>1, <3>1, <4>1, <4>2 DEF TypeOK, Tolds, SentKept, Attempts
        <3> QED
            BY <3>2, <3>3
    <2> QED
        BY <1>3, <2>3, <2>4, <2>5, <2>6
<1>4. CASE Connect(c)
    <2>1. /\ phase[c] = "connecting" /\ phase'[c] = "sent"
          /\ sent' = sent \union {<<c, number[c]>>}
          /\ UNCHANGED <<shared, number, told, mayHaveExecuted, policy, ready,
                         closed, taskVars, gatewayVars>>
        BY <1>4 DEF Connect, TypeOK, gateVars
    <2>2. CallInv(c)'
        BY <2>1 DEF CallInv, Refused, TypeOK, gatewayVars
    <2> QED
        BY <2>1, <2>2 DEF TypeOK, Tolds, SentKept, Attempts, CallInv
<1>5. ASSUME NEW what \in {"retryable", "refused"}, Receives(c, what)
      PROVE  Refused(c)
    <2>1. phase[c] = "sent" /\ number[c] \in 1 .. MaxAttempts
        BY <1>5 DEF Receives, CallInv
    <2>2. verdict[<<c, number[c]>>] \in Gateway!Verdicts
        BY <2>1 DEF TypeOK, Gateway!TypeOK, Attempts
    <2>3. verdict[<<c, number[c]>>] = "not_started"
        BY <1>5, <2>2 DEF Receives, Statuses, NoReply, Gateway!Verdicts
    <2> QED
        BY <2>3 DEF CallInv, Refused
<1>6. CASE Backoff(c)
    <2>1. /\ phase'[c] = "backoff" /\ number[c] < MaxAttempts
          /\ UNCHANGED <<shared, number, told, policy, ready, closed, taskVars,
                         sent, gatewayVars>>
        BY <1>1, <1>6 DEF Backoff
    <2>2. PICK what \in {"retryable", "refused", "unknown"} :
            /\ Receives(c, what)
            /\ SafeToRetry(what)
            /\ mayHaveExecuted' = [mayHaveExecuted EXCEPT ![c] = ~Known(what)]
        BY <1>6 DEF Backoff
    <2>3. Refused(c) /\ phase[c] = "sent"
        BY <1>5, <2>2 DEF SafeToRetry, Receives
    <2>4. CallInv(c)'
        BY <2>1, <2>3 DEF CallInv, Refused, gatewayVars
    <2> QED
        BY <2>1, <2>2, <2>4 DEF TypeOK, Tolds, SentKept, Known
<1>7. CASE Fail(c)
    <2>1. PICK what \in {"retryable", "refused", "unknown", "unreadable", "lost"} :
            /\ Receives(c, what)
            /\ mayHaveExecuted' = [mayHaveExecuted EXCEPT ![c] = ~Known(what)]
            /\ Concludes(c, IF Known(what) THEN "not_started" ELSE "unknown")
        BY <1>7 DEF Fail
    <2>2. UNCHANGED <<shared, number, policy, ready, closed, sent, taskVars,
                      gatewayVars>>
        BY <1>7 DEF Fail
    <2>3. CASE Known(what)
        BY <1>2, <1>5, <2>1, <2>2, <2>3 DEF Known, TypeOK, Tolds
    <2>4. CASE ~Known(what)
        BY <1>2, <2>1, <2>2, <2>4 DEF TypeOK, Tolds
    <2> QED
        BY <2>3, <2>4
<1>8. CASE CallOutside(c) \/ ConnectFails(c) \/ Return(c) \/ Timeout(c) \/ Cancel(c)
    <2>1. UNCHANGED <<shared, sent, policy, ready, closed, taskVars, gatewayVars,
                      number, mayHaveExecuted>>
        BY <1>8 DEF CallOutside, ConnectFails, Return, Timeout, Cancel
    <2>2. ASSUME NEW what \in Tolds \ {"none"}, Concludes(c, what),
                 what = "not_started" => Refused(c)
          PROVE  Goal
        BY <1>2, <2>1, <2>2 DEF TypeOK, CallInv
    <2> QED
        BY <1>8, <2>2
            DEF CallOutside, ConnectFails, Return, Timeout, Cancel, CallInv, Tolds
<1> QED
    BY <1>3, <1>4, <1>6, <1>7, <1>8 DEF CallAction, Proceeds, Refuse, Reject, Wait, Send
-----------------------------------------------------------------------------
(* Refreshes.                                                              *)

\* Only who opens the client enters it, a closed one is not open, and the
\* gateway's ceiling is one it may have.
GateInv ==
    /\ \A f \in Tasks : task[f] = "entering" => f \in Openers
    /\ closed => ~ready
    /\ limit["owner"] \in Limits

RefreshAction ==
    \/ \E o \in Openers : Enter(o) \/ EnterFails(o) \/ PollerCancelled(o)
    \/ \E f \in Tasks : Ask(f) \/ Answer(f) \/ Apply(f) \/ Pause(f)
    \/ Close

\* To calls, a refresh at most notifies; a gate that changes notifies.
LEMMA RefreshFrame ==
    ASSUME RefreshAction
    PROVE  /\ UNCHANGED <<shared, number, mayHaveExecuted, told, active, sent,
                          gatewayVars>>
           /\ \/ phase' = Notified(phase)
              \/ UNCHANGED <<phase, policy, ready, closed>>
<1>1. ASSUME NEW o, Enter(o) \/ EnterFails(o) \/ PollerCancelled(o)
      PROVE  /\ UNCHANGED <<shared, number, mayHaveExecuted, told, active, sent,
                            gatewayVars>>
             /\ \/ phase' = Notified(phase)
                \/ UNCHANGED <<phase, policy, ready, closed>>
    BY <1>1 DEF Enter, EnterFails, PollerCancelled, Shut, callVars, gateVars
<1>2. ASSUME NEW f, Ask(f) \/ Answer(f) \/ Apply(f) \/ Pause(f)
      PROVE  /\ UNCHANGED <<shared, number, mayHaveExecuted, told, active, sent,
                            gatewayVars>>
             /\ \/ phase' = Notified(phase)
                \/ UNCHANGED <<phase, policy, ready, closed>>
    BY <1>2 DEF Ask, Answer, Apply, Pause, callVars, gateVars
<1>3. CASE Close
    BY <1>3 DEF Close, Shut
<1> QED
    BY <1>1, <1>2, <1>3 DEF RefreshAction

\* Types of the gate and of the tasks.
GateTypes ==
    /\ policy \in Policies
    /\ ready \in BOOLEAN
    /\ closed \in BOOLEAN
    /\ task \in [Tasks -> {"out", "entering", "idle", "refreshing", "ended"}]
    /\ snapshot \in [Tasks -> Policies]
    /\ refresher \in Openers \union {NoRefresher}
    /\ cancelled \subseteq Openers

LEMMA RefreshTypes ==
    ASSUME TypeOK, GateInv, RefreshAction
    PROVE  GateTypes' /\ GateInv'
<1>1. GateTypes /\ Openers \subseteq Tasks /\ NoPolicy \in Policies
    BY DEF TypeOK, GateTypes, Tasks, Policies
<1>2. UNCHANGED limit
    BY RefreshFrame DEF gatewayVars
<1>3. ASSUME NEW o \in Openers, Enter(o)
      PROVE  GateTypes' /\ GateInv'
    BY <1>1, <1>2, <1>3 DEF Enter, GateTypes, GateInv, gateVars
<1>4. ASSUME NEW o \in Openers, EnterFails(o)
      PROVE  GateTypes' /\ GateInv'
    BY <1>1, <1>2, <1>4 DEF EnterFails, Shut, GateTypes, GateInv
<1>5. ASSUME NEW o \in Openers, PollerCancelled(o)
      PROVE  GateTypes' /\ GateInv'
    BY <1>1, <1>2, <1>5 DEF PollerCancelled, GateTypes, GateInv
<1>6. ASSUME NEW f \in Tasks, Ask(f) \/ Pause(f)
      PROVE  GateTypes' /\ GateInv'
    <2>1. CASE Ask(f)
        BY <1>1, <1>2, <2>1 DEF Ask, GateTypes, GateInv, gateVars
    <2>2. CASE Pause(f)
        BY <1>1, <1>2, <2>2 DEF Pause, Rests, GateTypes, GateInv
    <2> QED
        BY <1>6, <2>1, <2>2
<1>7. ASSUME NEW f \in Tasks, Answer(f)
      PROVE  GateTypes' /\ GateInv'
    <2>1. Current \in Policies
        BY DEF Current, Policies, TypeOK, GateInv
    <2> QED
        BY <1>1, <1>2, <1>7, <2>1 DEF Answer, GateTypes, GateInv, gateVars
<1>8. ASSUME NEW f \in Tasks, Apply(f)
      PROVE  GateTypes' /\ GateInv'
    BY <1>1, <1>2, <1>8 DEF Apply, Rests, GateTypes, GateInv
<1>9. CASE Close
    BY <1>1, <1>2, <1>9 DEF Close, Shut, GateTypes, GateInv
<1> QED
    BY <1>3, <1>4, <1>5, <1>6, <1>7, <1>8, <1>9 DEF RefreshAction

\* A policy only replaces one it continues, and none on a closed client.
LEMMA RefreshPolicy ==
    ASSUME TypeOK, GateInv, RefreshAction
    PROVE  /\ policy'.revision >= policy.revision
           /\ policy'.revision = policy.revision =>
                policy'.maximum = policy.maximum
           /\ closed => closed' /\ policy' = policy
<1>1. policy.revision \in Nat
    BY SdkClientAssumption DEF TypeOK, Policies, NoPolicy, SdkClientAssumption
<1>2. ASSUME NEW f \in Tasks, Apply(f), ~closed
      PROVE  /\ policy'.revision >= policy.revision
             /\ policy'.revision = policy.revision =>
                    policy'.maximum = policy.maximum
    <2>1. /\ policy' = snapshot[f] /\ snapshot[f] \in Policies \ {NoPolicy}
          /\ Consistent(snapshot[f], policy)
        BY <1>2 DEF Apply, TypeOK
    <2>2. snapshot[f].revision \in Nat \ {0}
        BY <2>1, SdkClientAssumption DEF Policies, SdkClientAssumption
    <2> QED
        BY <1>1, <2>1, <2>2 DEF Consistent, NoPolicy
<1>3. ASSUME NEW f \in Tasks, Apply(f), closed
      PROVE  policy' = policy /\ closed'
    BY <1>3 DEF Apply
<1>4. ASSUME NEW o, Enter(o) \/ EnterFails(o) \/ PollerCancelled(o)
      PROVE  policy' = policy /\ (closed => closed')
    BY <1>4 DEF Enter, EnterFails, PollerCancelled, Shut, gateVars
<1>5. ASSUME NEW f, Ask(f) \/ Answer(f) \/ Pause(f)
      PROVE  policy' = policy /\ (closed => closed')
    BY <1>5 DEF Ask, Answer, Pause, gateVars
<1>6. CASE Close
    BY <1>1, <1>6 DEF Close, Shut
<1>7. ASSUME NEW f \in Tasks, Apply(f) PROVE closed' = closed
    BY <1>7 DEF Apply
<1> QED
    BY <1>1, <1>2, <1>3, <1>4, <1>5, <1>6, <1>7 DEF RefreshAction, TypeOK
-----------------------------------------------------------------------------
(* The invariant.                                                          *)

\* What was not sent, the gateway does not know.
Unsent ==
    /\ held \union started \subseteq sent
    /\ \A a \in Attempts \ sent : verdict[a] = "none"

IInv ==
    /\ TypeOK
    /\ GateInv
    /\ ContractInv
    /\ Unsent
    /\ NoMissedWakeup
    /\ \A c \in Callers : CallInv(c)

LEMMA InitInv == Init => IInv
<1> SUFFICES ASSUME Init PROVE IInv
    OBVIOUS
<1>1. Holding = {}
    BY DEF Init, Holding
<1>2. Gateway!TypeOK /\ ContractInv /\ Unsent
    BY SdkClientAssumption
        DEF Init, Gateway!Init, Gateway!TypeOK, Gateway!Verdicts, ContractInv,
            Unsent, SdkClientAssumption
<1>3. TypeOK
    <2>1. active = Cardinality(Holding)
        BY <1>1, FS_EmptySet DEF Init
    <2>2. NoPolicy \in Policies /\ 0 \in 0 .. MaxAttempts /\ 1 \in 1 .. MaxRevision
        BY SdkClientAssumption DEF Policies, SdkClientAssumption
    <2>3. snapshot \in [Tasks -> Policies]
        BY <2>2 DEF Init
    <2>4. task \in [Tasks -> {"out", "entering", "idle", "refreshing", "ended"}]
        BY DEF Init
    <2> QED
        BY <1>2, <2>1, <2>2, <2>3, <2>4 DEF Init, TypeOK
<1>4. GateInv
    BY SdkClientAssumption DEF Init, GateInv, Gateway!Init, SdkClientAssumption
<1>5. NoMissedWakeup /\ \A c \in Callers : CallInv(c)
    BY DEF Init, NoMissedWakeup, CallInv, Refused
<1> QED
    BY <1>2, <1>3, <1>4, <1>5 DEF IInv

\* A call.
LEMMA CallStep ==
    ASSUME IInv, NEW c \in Callers, CallAction(c)
    PROVE  IInv'
<1>1. /\ shared' = shared
      /\ phase' \in [Callers -> Phases]
      /\ \A d \in Callers \ {c} : Kept(d)
      /\ active' = Cardinality(Holding')
      /\ NoMissedWakeup'
    BY CallPlaces DEF IInv, CallInv
<1>2. /\ number' \in [Callers -> 0 .. MaxAttempts]
      /\ mayHaveExecuted' \in [Callers -> BOOLEAN]
      /\ told' \in [Callers -> Tolds]
      /\ sent \subseteq sent' /\ sent' \subseteq Attempts
      /\ CallInv(c)'
      /\ \A d \in Callers \ {c} :
            /\ SentKept(d)
            /\ UNCHANGED <<number[d], told[d], mayHaveExecuted[d]>>
      /\ UNCHANGED <<policy, ready, closed, taskVars, gatewayVars>>
    BY CallWords DEF IInv
<1>3. TypeOK'
    BY <1>1, <1>2 DEF IInv, TypeOK, Tolds, Phases, taskVars, gatewayVars,
        Gateway!TypeOK
<1>4. GateInv' /\ ContractInv' /\ Unsent'
    BY <1>2 DEF IInv, GateInv, ContractInv, Unsent, taskVars, gatewayVars
<1>5. RefusalsKept
    BY <1>2 DEF RefusalsKept, gatewayVars
<1>6. ASSUME NEW d \in Callers \ {c} PROVE CallInv(d)'
    BY <1>1, <1>2, <1>5, OthersKept DEF IInv
<1> QED
    BY <1>1, <1>2, <1>3, <1>4, <1>6 DEF IInv

\* A refresh.
LEMMA RefreshStep ==
    ASSUME IInv, RefreshAction
    PROVE  IInv'
<1>1. /\ UNCHANGED <<shared, number, mayHaveExecuted, told, active, sent,
                     gatewayVars>>
      /\ \/ phase' = Notified(phase)
         \/ UNCHANGED <<phase, policy, ready, closed>>
    BY RefreshFrame
<1>2. phase' \in [Callers -> Phases] /\ \A d \in Callers : Kept(d)
    BY <1>1 DEF IInv, TypeOK, Phases, Notified, Kept
<1>3. Holding' = Holding
    BY <1>1, <1>2 DEF Holding, Kept
<1>4. GateTypes' /\ GateInv'
    BY RefreshTypes DEF IInv
<1>5. TypeOK'
    BY <1>1, <1>2, <1>3, <1>4
        DEF IInv, TypeOK, GateTypes, Phases, gatewayVars, Gateway!TypeOK
<1>6. ContractInv' /\ Unsent'
    BY <1>1 DEF IInv, ContractInv, Unsent, gatewayVars
<1>7. NoMissedWakeup'
    BY <1>1 DEF IInv, NoMissedWakeup, HasRoom, Notified
<1>8. ASSUME NEW d \in Callers PROVE CallInv(d)'
    <2>1. SentKept(d) /\ RefusalsKept
        BY <1>1 DEF SentKept, RefusalsKept, gatewayVars
    <2> QED
        BY <1>1, <1>2, <2>1, OthersKept DEF IInv
<1> QED
    BY <1>4, <1>5, <1>6, <1>7, <1>8 DEF IInv

\* The gateway.
LEMMA GatewayKeeps ==
    ASSUME IInv, GatewayStep \/ SetLimit \/ Restart
    PROVE  IInv'
<1>1. /\ UNCHANGED <<shared, callVars, gateVars, taskVars, sent>>
      /\ revision' \in 1 .. MaxRevision
    BY SdkClientAssumption
        DEF GatewayStep, SetLimit, Restart, IInv, TypeOK, SdkClientAssumption
<1>2. /\ held' \subseteq Attempts /\ started' \subseteq Attempts
      /\ verdict' \in [Attempts -> Gateway!Verdicts]
      /\ ContractInv' /\ Unsent' /\ RefusalsKept
    <2>1. CASE GatewayStep
        <3>1. /\ held' \subseteq Attempts /\ started' \subseteq Attempts
              /\ verdict' \in [Attempts -> Gateway!Verdicts]
              /\ ContractInv'
              /\ started' \subseteq started \union held
              /\ \A a \in Attempts :
                    verdict[a] = "not_started" => verdict'[a] = "not_started"
            BY <2>1, ContractSteps DEF GatewayStep, IInv, TypeOK, ContractKept
        <3>2. Unsent'
            BY <1>1, <2>1, <3>1 DEF GatewayStep, Unsent, IInv
        <3> QED
            BY <3>1, <3>2 DEF RefusalsKept
    <2>2. CASE SetLimit \/ Restart
        <3>1. UNCHANGED <<held, started, verdict>>
            BY <2>2 DEF SetLimit, Restart, Gateway!Resize
        <3> QED
            BY <1>1, <3>1 DEF IInv, TypeOK, Gateway!TypeOK, ContractInv, Unsent,
                RefusalsKept
    <2> QED
        BY <2>1, <2>2
<1>3. limit' \in [{"owner"} -> Nat \ {0}] /\ limit'["owner"] \in Limits
    <2>1. limit \in [{"owner"} -> Nat \ {0}] /\ limit["owner"] \in Limits
        BY DEF IInv, TypeOK, Gateway!TypeOK, GateInv
    <2>2. CASE GatewayStep
        BY <2>1, <2>2 DEF GatewayStep
    <2>3. CASE SetLimit \/ Restart
        <3>1. PICK maximum \in Limits : limit' = [limit EXCEPT !["owner"] = maximum]
            BY <2>3 DEF SetLimit, Restart, Gateway!Resize
        <3> QED
            BY <2>1, <3>1, SdkClientAssumption DEF SdkClientAssumption
    <2> QED
        BY <2>2, <2>3
<1>4. Holding' = Holding
    BY <1>1 DEF Holding, callVars
<1>5. TypeOK' /\ GateInv' /\ NoMissedWakeup'
    BY <1>1, <1>2, <1>3, <1>4
        DEF IInv, TypeOK, Gateway!TypeOK, GateInv, NoMissedWakeup, HasRoom,
            callVars, gateVars, taskVars
<1>6. ASSUME NEW d \in Callers PROVE CallInv(d)'
    BY <1>1, <1>2, OthersKept DEF IInv, Kept, SentKept, callVars
<1> QED
    BY <1>2, <1>5, <1>6 DEF IInv

LEMMA Steps ==
    Next => \/ \E c \in Callers : CallAction(c)
            \/ RefreshAction
            \/ GatewayStep \/ SetLimit \/ Restart
BY DEF Next, CallAction, RefreshAction

LEMMA NextInv == IInv /\ [Next]_vars => IInv'
<1> SUFFICES ASSUME IInv, [Next]_vars PROVE IInv'
    OBVIOUS
<1>1. CASE UNCHANGED vars
    <2>1. Holding' = Holding
        BY <1>1 DEF vars, callVars, Holding
    <2> QED
        BY <1>1, <2>1
            DEF IInv, TypeOK, Gateway!TypeOK, GateInv, ContractInv, Unsent,
                NoMissedWakeup, HasRoom, CallInv, Refused,
                vars, callVars, gateVars, taskVars, gatewayVars
<1> QED
    BY <1>1, Steps, CallStep, RefreshStep, GatewayKeeps

LEMMA Invariance == Spec => []IInv
BY InitInv, NextInv, PTL DEF Spec
-----------------------------------------------------------------------------
(* The theorems.                                                           *)

\* A permit is counted for exactly the calls that own one, and everything
\* keeps its type.
THEOREM TypeCorrect == Spec => []TypeOK
<1>1. IInv => TypeOK
    BY DEF IInv
<1> QED
    BY Invariance, <1>1, PTL

\* NoMissedWakeup: whoever waits for a notification has nothing it could do.
THEOREM WakeupsKept == Spec => []NoMissedWakeup
<1>1. IInv => NoMissedWakeup
    BY DEF IInv
<1> QED
    BY Invariance, <1>1, PTL

\* NotStartedIsTrue: a call that raises with "not_started" is never executed.
THEOREM RefusalsTrue == Spec => []NotStartedIsTrue
<1>1. IInv => NotStartedIsTrue
    <2> SUFFICES ASSUME IInv, NEW c \in Callers, told[c] = "not_started",
                        NEW a \in started, a[1] = c
                 PROVE  FALSE
        BY DEF NotStartedIsTrue
    <2>1. a \in Attempts /\ a \in sent /\ a = <<c, a[2]>> /\ a[2] \in 1 .. MaxAttempts
        BY DEF IInv, TypeOK, Gateway!TypeOK, Unsent, Attempts
    <2>2. verdict[a] = "not_started"
        BY <2>1 DEF IInv, CallInv, Refused
    <2> QED
        BY <2>1, <2>2 DEF IInv, ContractInv
<1> QED
    BY Invariance, <1>1, PTL

\* ExecutedOnce: a call that repeats its attempts is executed once at most,
\* because all it sent before was refused.
THEOREM ExecutedAtMostOnce == Spec => []ExecutedOnce
<1>1. IInv => ExecutedOnce
    <2> SUFFICES ASSUME IInv, NEW a \in started, NEW b \in started,
                        a[1] = b[1], a # b
                 PROVE  FALSE
        BY DEF ExecutedOnce
    <2>1. PICK c \in Callers, n \in 1 .. MaxAttempts, m \in 1 .. MaxAttempts :
            a = <<c, n>> /\ b = <<c, m>> /\ n # m
        BY DEF IInv, TypeOK, Gateway!TypeOK, Attempts
    <2>2. a \in sent /\ b \in sent /\ a \in Attempts /\ b \in Attempts
        BY DEF IInv, TypeOK, Unsent
    <2>3. verdict[a] = "not_started" \/ verdict[b] = "not_started"
        BY <2>1, <2>2 DEF IInv, CallInv
    <2> QED
        BY <2>2, <2>3 DEF IInv, ContractInv
<1> QED
    BY Invariance, <1>1, PTL

\* PolicyAdvances: refreshes that overtake each other never take the policy
\* back.
THEOREM PoliciesForward == Spec => PolicyAdvances
<1> DEFINE Forward ==
        /\ policy'.revision >= policy.revision
        /\ policy'.revision = policy.revision => policy'.maximum = policy.maximum
<1>1. IInv /\ [Next]_vars => [Forward]_vars
    <2> SUFFICES ASSUME IInv, Next PROVE Forward
        BY DEF vars
    <2>1. CASE RefreshAction
        BY <2>1, RefreshPolicy DEF IInv
    <2>2. ASSUME policy' = policy PROVE Forward
        <3>1. policy.revision \in Nat
            BY SdkClientAssumption
                DEF IInv, TypeOK, Policies, NoPolicy, SdkClientAssumption
        <3> QED
            BY <2>2, <3>1
    <2>3. ASSUME NEW c \in Callers, CallAction(c) PROVE Forward
        BY <2>2, <2>3, CallWords DEF IInv
    <2>4. CASE GatewayStep \/ SetLimit \/ Restart
        BY <2>2, <2>4 DEF GatewayStep, SetLimit, Restart, gateVars
    <2> QED
        BY <2>1, <2>3, <2>4, Steps
<1> QED
    BY Invariance, <1>1, PTL DEF Spec, PolicyAdvances

\* ClosedIsQuiet: after the client was closed it does not open again, its
\* policy stays and no attempt begins.
THEOREM QuietAfterClose == Spec => ClosedIsQuiet
<1> DEFINE Quiet ==
        closed =>
            /\ ~ready'
            /\ policy' = policy
            /\ \A c \in Callers : UnderWay(c)' => UnderWay(c)
<1>1. IInv /\ [Next]_vars => [Quiet]_vars
    <2> SUFFICES ASSUME IInv, Next, closed PROVE Quiet
        BY DEF vars
    <2>1. IInv'
        BY NextInv
    <2>2. CASE RefreshAction
        <3>1. closed' /\ policy' = policy
            BY <2>2, RefreshPolicy DEF IInv
        <3>2. \A c \in Callers : UnderWay(c)' => UnderWay(c)
            BY <2>2, RefreshFrame DEF Notified, UnderWay, IInv, TypeOK
        <3> QED
            BY <2>1, <3>1, <3>2 DEF IInv, GateInv
    <2>3. ASSUME NEW c \in Callers, CallAction(c) PROVE Quiet
        <3>1. policy' = policy /\ closed' = closed
            BY <2>3, CallWords DEF IInv
        <3>2. \A d \in Callers \ {c} : Kept(d)
            BY <2>3, CallPlaces DEF IInv, CallInv
        <3>3. ~Send(c)
            BY DEF Send
        <3>4. UnderWay(c)' => UnderWay(c)
            <4>1. CASE Timeout(c) \/ Cancel(c) \/ CallOutside(c) \/ Refuse(c)
                       \/ ConnectFails(c) \/ Backoff(c) \/ Return(c) \/ Fail(c)
                BY <4>1 DEF Timeout, Cancel, CallOutside, Refuse, ConnectFails,
                    Backoff, Return, Fail, Concludes, Leaves, Notified, UnderWay,
                    IInv, TypeOK
            <4>2. CASE Reject(c) \/ Wait(c) \/ Connect(c)
                BY <4>2 DEF Reject, Wait, Connect, Notified, UnderWay, IInv, TypeOK
            <4> QED
                BY <2>3, <3>3, <4>1, <4>2 DEF CallAction, Proceeds
        <3>5. \A d \in Callers \ {c} : UnderWay(d)' => UnderWay(d)
            BY <3>2 DEF Kept, UnderWay
        <3> QED
            BY <2>1, <3>1, <3>4, <3>5 DEF IInv, GateInv
    <2>4. CASE GatewayStep \/ SetLimit \/ Restart
        BY <2>4 DEF GatewayStep, SetLimit, Restart, gateVars, callVars, UnderWay,
            IInv, GateInv
    <2> QED
        BY <2>2, <2>3, <2>4, Steps
<1> QED
    BY Invariance, <1>1, PTL DEF Spec, ClosedIsQuiet
-----------------------------------------------------------------------------
(* The synchronous client (SyncClient).                                    *)

\* The earlier attempts of a caller, and the one it sleeps after, were refused.
EarlierRefused ==
    \A c \in Callers, i \in 1 .. MaxAttempts :
        i < attempt[c] \/ (i = attempt[c] /\ syncPhase[c] = "asleep") =>
            verdict[<<c, i>>] = "not_started"

\* Who has a result has ended, after an attempt that was completed.
ResultsEnd ==
    \A c \in Callers :
        outcome[c] = "result" =>
            /\ syncPhase[c] = "ended"
            /\ verdict[<<c, attempt[c]>>] = "completed"

\* Nobody sleeps after the last attempt.
SleepersRetry ==
    \A c \in Callers : syncPhase[c] = "asleep" => attempt[c] < MaxAttempts

\* The inductive invariant of the synchronous client.
SyncInv ==
    /\ syncPhase \in [Callers -> {"ready", "sent", "asleep", "ended"}]
    /\ attempt \in [Callers -> 1 .. MaxAttempts]
    /\ outcome \in [Callers -> {"none", "result", "timeout", "error"}]
    /\ Gateway!TypeOK
    /\ ContractInv
    /\ EarlierRefused
    /\ SleepersRetry
    /\ ResultsEnd

LEMMA SyncInit == Sync!Init => SyncInv
BY SdkClientAssumption
    DEF SdkClientAssumption, Sync!Init, Sync!Gateway!Init, Sync!Attempts, Attempts,
        SyncInv, Gateway!TypeOK, Gateway!Verdicts, ContractInv, EarlierRefused,
        SleepersRetry, ResultsEnd

\* A caller that ends has a result only of a completed attempt.
LEMMA SyncEnds ==
    ASSUME SyncInv, NEW c \in Callers,
           NEW what \in {"result", "timeout", "error"}, Sync!Ends(c, what),
           what = "result" => verdict[<<c, attempt[c]>>] = "completed"
    PROVE  SyncInv'
<1>1. /\ syncPhase' = [syncPhase EXCEPT ![c] = "ended"]
      /\ outcome' = [outcome EXCEPT ![c] = what]
      /\ UNCHANGED <<attempt, held, started, verdict, limit>>
    BY DEF Sync!Ends, Sync!gatewayVars
<1>2. EarlierRefused'
    BY <1>1 DEF SyncInv, EarlierRefused
<1>3. ResultsEnd'
    BY <1>1 DEF SyncInv, ResultsEnd
<1> QED
    BY <1>1, <1>2, <1>3 DEF SyncInv, Gateway!TypeOK, ContractInv, SleepersRetry

\* What a response says is what the gateway told.
LEMMA SyncResponse ==
    ASSUME SyncInv, NEW c \in Callers, NEW what, Sync!Responds(c, what)
    PROVE  /\ syncPhase[c] = "sent"
           /\ what = "result" => verdict[<<c, attempt[c]>>] = "completed"
           /\ what = "retryable" => verdict[<<c, attempt[c]>>] = "not_started"
BY DEF Sync!Responds, Sync!Statuses

LEMMA SyncStep ==
    ASSUME SyncInv, NEW c \in Callers, Sync!Execute(c)
    PROVE  SyncInv'
<1>1. CASE Sync!GiveUp(c) \/ Sync!TransportFails(c) \/ Sync!RetryTooLate(c)
           \/ Sync!RespondLate(c)
    BY <1>1, SyncEnds
        DEF Sync!GiveUp, Sync!TransportFails, Sync!RetryTooLate, Sync!RespondLate
<1>2. CASE Sync!Conclude(c)
    <2>1. PICK what \in {"result", "retryable", "error"} :
            /\ Sync!Responds(c, what)
            /\ Sync!Ends(c, IF what = "result" THEN "result" ELSE "error")
        BY <1>2 DEF Sync!Conclude
    <2>2. CASE what = "result"
        BY <2>1, <2>2, SyncResponse, SyncEnds
    <2>3. CASE what # "result"
        BY <2>1, <2>3, SyncEnds
    <2> QED
        BY <2>2, <2>3
<1>3. CASE Sync!Send(c)
    BY <1>3 DEF Sync!Send, Sync!gatewayVars, SyncInv, Gateway!TypeOK, ContractInv,
        EarlierRefused, SleepersRetry, ResultsEnd
<1>4. CASE Sync!Nap(c)
    <2>1. verdict[<<c, attempt[c]>>] = "not_started"
        BY <1>4, SyncResponse DEF Sync!Nap, Sync!SafeToRetry
    <2>2. /\ syncPhase[c] = "sent"
          /\ syncPhase' = [syncPhase EXCEPT ![c] = "asleep"]
          /\ attempt[c] < MaxAttempts
          /\ UNCHANGED <<attempt, outcome, held, started, verdict, limit>>
        BY <1>4 DEF Sync!Nap, Sync!Responds, Sync!gatewayVars
    <2>3. EarlierRefused'
        BY <2>1, <2>2 DEF SyncInv, EarlierRefused
    <2>4. ResultsEnd'
        BY <2>2 DEF SyncInv, ResultsEnd
    <2> QED
        BY <2>2, <2>3, <2>4
            DEF SyncInv, Gateway!TypeOK, ContractInv, SleepersRetry
<1>5. CASE Sync!Wake(c)
    <2>1. /\ syncPhase[c] = "asleep"
          /\ syncPhase' = [syncPhase EXCEPT ![c] = "ready"]
          /\ attempt' = [attempt EXCEPT ![c] = @ + 1]
          /\ UNCHANGED <<outcome, held, started, verdict, limit>>
        BY <1>5 DEF Sync!Wake, Sync!gatewayVars
    <2>2. attempt' \in [Callers -> 1 .. MaxAttempts] /\ SleepersRetry'
        BY <2>1, SdkClientAssumption
            DEF SdkClientAssumption, SyncInv, SleepersRetry
    <2>3. EarlierRefused'
        <3> SUFFICES ASSUME NEW d \in Callers, NEW i \in 1 .. MaxAttempts,
                            i < attempt'[d]
                                \/ (i = attempt'[d] /\ syncPhase'[d] = "asleep")
                     PROVE  verdict[<<d, i>>] = "not_started"
            BY <2>1 DEF EarlierRefused
        <3>1. CASE d = c
            BY <2>1, <3>1, SdkClientAssumption
                DEF SyncInv, EarlierRefused, SdkClientAssumption
        <3>2. CASE d # c
            BY <2>1, <3>2 DEF SyncInv, EarlierRefused
        <3> QED
            BY <3>1, <3>2
    <2>4. ResultsEnd'
        BY <2>1 DEF SyncInv, ResultsEnd
    <2> QED
        BY <2>1, <2>2, <2>3, <2>4 DEF SyncInv, Gateway!TypeOK, ContractInv
<1> QED
    BY <1>1, <1>2, <1>3, <1>4, <1>5 DEF Sync!Execute

\* What a step of this client's gateway keeps is the same.
LEMMA SyncContract ==
    ASSUME Gateway!TypeOK, ContractInv, Sync!Gateway!Next
    PROVE  ContractKept
<1>1. CASE Sync!Gateway!Dismiss
    BY <1>1 DEF Sync!Gateway!Dismiss, Sync!Gateway!Dismissible, Sync!Gateway!Told,
                Gateway!TypeOK, Gateway!Verdicts, ContractInv, ContractKept, Sync!Attempts, Attempts
<1>2. ASSUME NEW r \in Attempts, Sync!Gateway!Admit(r)
      PROVE  ContractKept
    BY <1>2 DEF Sync!Gateway!Admit, Sync!Gateway!Dismissible, Sync!Gateway!Told,
                Gateway!TypeOK, Gateway!Verdicts, ContractInv, ContractKept, Sync!Attempts, Attempts
<1>3. ASSUME NEW r \in Attempts,
             \/ Sync!Gateway!Start(r) \/ Sync!Gateway!Free(r)
             \/ Sync!Gateway!Answer(r) \/ Sync!Gateway!Lose(r)
      PROVE  ContractKept
    BY <1>3 DEF Sync!Gateway!Start, Sync!Gateway!Free, Sync!Gateway!Answer,
                Sync!Gateway!Lose, Sync!Gateway!Told, Gateway!TypeOK,
                Gateway!Verdicts, ContractInv, ContractKept, Sync!Attempts, Attempts
<1>4. ASSUME NEW b, Sync!Gateway!Resize(b)
      PROVE  UNCHANGED <<held, started, verdict>>
    BY <1>4 DEF Sync!Gateway!Resize
<1>5. CASE \E b \in {"owner"} : Sync!Gateway!Resize(b)
    BY <1>4, <1>5 DEF Gateway!TypeOK, ContractInv, ContractKept
<1> QED
    BY <1>1, <1>2, <1>3, <1>5 DEF Sync!Gateway!Next, Sync!Attempts, Attempts

LEMMA SyncGateway ==
    ASSUME SyncInv, Sync!GatewayStep
    PROVE  SyncInv'
<1>1. Sync!Gateway!Next /\ UNCHANGED <<syncPhase, attempt, outcome>>
    BY DEF Sync!GatewayStep, Sync!callVars
<1>2. limit' \in [{"owner"} -> Nat \ {0}]
    <2>1. Gateway!TypeOK
        BY DEF SyncInv
    <2>2. ASSUME NEW b \in {"owner"}, Sync!Gateway!Resize(b)
          PROVE  limit' \in [{"owner"} -> Nat \ {0}]
        BY <2>1, <2>2, SdkClientAssumption
            DEF SdkClientAssumption, Sync!Gateway!Resize, Gateway!TypeOK
    <2>3. CASE UNCHANGED limit
        BY <2>1, <2>3 DEF Gateway!TypeOK
    <2> QED
        BY <1>1, <2>2, <2>3
            DEF Sync!Gateway!Next, Sync!Gateway!Dismiss, Sync!Gateway!Admit,
                Sync!Gateway!Start, Sync!Gateway!Free, Sync!Gateway!Answer,
                Sync!Gateway!Lose
<1>3. /\ held' \subseteq Attempts /\ started' \subseteq Attempts
      /\ verdict' \in [Attempts -> Gateway!Verdicts]
      /\ ContractInv'
      /\ \A a \in Attempts : verdict[a] # "none" => verdict'[a] = verdict[a]
    BY <1>1, SyncContract DEF SyncInv, ContractKept
<1>4. EarlierRefused' /\ SleepersRetry'
    BY <1>1, <1>3 DEF SyncInv, EarlierRefused, SleepersRetry, Attempts
<1>5. ResultsEnd'
    BY <1>1, <1>3 DEF SyncInv, ResultsEnd, Attempts
<1> QED
    BY <1>1, <1>2, <1>3, <1>4, <1>5 DEF SyncInv, Gateway!TypeOK

\* A result that execute of the synchronous client returns is of its caller's
\* last attempt, which was completed, after attempts that never started.
THEOREM ResultsReal == Sync!Spec => []Sync!ResultIsReal
<1>1. Sync!Init => SyncInv
    BY SyncInit
<1>2. SyncInv /\ [Sync!Next]_Sync!vars => SyncInv'
    <2> SUFFICES ASSUME SyncInv, [Sync!Next]_Sync!vars PROVE SyncInv'
        OBVIOUS
    <2>1. CASE UNCHANGED Sync!vars \/ Sync!Tick
        <3>1. UNCHANGED <<syncPhase, attempt, outcome, held, started, verdict, limit>>
            BY <2>1 DEF Sync!vars, Sync!callVars, Sync!gatewayVars, Sync!Tick
        <3> QED
            BY <3>1 DEF SyncInv, Gateway!TypeOK, ContractInv, EarlierRefused,
                SleepersRetry, ResultsEnd
    <2> QED
        BY <2>1, SyncStep, SyncGateway DEF Sync!Next
<1>3. SyncInv => Sync!ResultIsReal
    BY DEF SyncInv, Sync!ResultIsReal, Sync!Attempts, Attempts, EarlierRefused,
        ResultsEnd
<1> QED
    BY <1>1, <1>2, <1>3, PTL DEF Sync!Spec

\* Deadlines and sleeps are counted down together.
NapInv ==
    /\ nap \in [Callers -> Nat]
    /\ timeLeft \in [Callers -> Nat]
    /\ Sync!NapsFit

\* Who sleeps before another attempt of execute has time left for it, for any
\* deadline and any Retry-After.
THEOREM SleepersInTime ==
    TaskTimeout \in Nat /\ RetryAfter \subseteq Nat =>
        (Sync!Spec => []Sync!NapsFit)
<1> SUFFICES ASSUME TaskTimeout \in Nat, RetryAfter \subseteq Nat
             PROVE  Sync!Spec => []Sync!NapsFit
    OBVIOUS
<1>1. Sync!Init => NapInv
    BY DEF Sync!Init, NapInv, Sync!NapsFit
<1>2. NapInv /\ [Sync!Next]_Sync!vars => NapInv'
    <2> SUFFICES ASSUME NapInv, [Sync!Next]_Sync!vars PROVE NapInv'
        OBVIOUS
    <2>1. ASSUME NEW c \in Callers, Sync!Nap(c) PROVE NapInv'
        <3>1. PICK seconds \in RetryAfter :
                Sync!Fits(c, seconds) /\ nap' = [nap EXCEPT ![c] = seconds]
            BY <2>1 DEF Sync!Nap
        <3>2. timeLeft' = timeLeft
            BY <2>1 DEF Sync!Nap
        <3> QED
            BY <3>1, <3>2 DEF NapInv, Sync!NapsFit, Sync!Fits
    <2>2. ASSUME NEW c \in Callers, Sync!Execute(c), ~Sync!Nap(c)
          PROVE  UNCHANGED <<nap, timeLeft>>
        BY <2>2
        DEF Sync!Execute, Sync!GiveUp, Sync!Send, Sync!TransportFails,
            Sync!RespondLate, Sync!RetryTooLate, Sync!Conclude, Sync!Wake,
            Sync!Ends
    <2>3. CASE Sync!Tick
        <3>1. ASSUME NEW n \in Nat
              PROVE  /\ Sync!Less(n) \in Nat
                     /\ n > 0 => Sync!Less(n) = n - 1
                     /\ Sync!Less(n) > 0 => n > 0
            BY DEF Sync!Less
        <3>2. /\ nap' = [c \in Callers |-> Sync!Less(nap[c])]
              /\ timeLeft' = [c \in Callers |->
                    IF syncPhase[c] = "ended" THEN timeLeft[c]
                                              ELSE Sync!Less(timeLeft[c])]
            BY <2>3 DEF Sync!Tick
        <3>3. nap' \in [Callers -> Nat] /\ timeLeft' \in [Callers -> Nat]
            BY <3>1, <3>2 DEF NapInv
        <3>4. ASSUME NEW c \in Callers, nap'[c] > 0 PROVE nap'[c] < timeLeft'[c]
            <4>1. /\ nap'[c] = Sync!Less(nap[c])
                  /\ timeLeft'[c] \in {timeLeft[c], Sync!Less(timeLeft[c])}
                  /\ nap[c] \in Nat /\ timeLeft[c] \in Nat
                BY <3>2 DEF NapInv
            <4>2. nap[c] > 0 /\ nap'[c] = nap[c] - 1
                BY <3>1, <3>4, <4>1
            <4>3. nap[c] < timeLeft[c]
                BY <4>2 DEF NapInv, Sync!NapsFit
            <4>4. Sync!Less(timeLeft[c]) = timeLeft[c] - 1
                BY <3>1, <4>1, <4>3
            <4> QED
                BY <4>1, <4>2, <4>3, <4>4
        <3> QED
            BY <3>3, <3>4 DEF NapInv, Sync!NapsFit
    <2>4. CASE Sync!GatewayStep \/ UNCHANGED Sync!vars
        BY <2>4 DEF Sync!GatewayStep, Sync!vars, Sync!callVars, NapInv, Sync!NapsFit
    <2>5. ASSUME UNCHANGED <<nap, timeLeft>> PROVE NapInv'
        BY <2>5 DEF NapInv, Sync!NapsFit
    <2> QED
        BY <2>1, <2>2, <2>3, <2>4, <2>5 DEF Sync!Next
<1>3. NapInv => Sync!NapsFit
    BY DEF NapInv
<1> QED
    BY <1>1, <1>2, <1>3, PTL DEF Sync!Spec
=============================================================================

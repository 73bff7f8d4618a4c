-------------------------- MODULE DispatcherProofs --------------------------
(***************************************************************************)
(* Proofs about Dispatcher, for any number of jobs, attempts and places,   *)
(* and any ceilings of the gateway.                                        *)
(***************************************************************************)
EXTENDS Dispatcher, FiniteSetTheorems, TLAPS

-----------------------------------------------------------------------------
(* The gateway, by its contract.                                           *)

\* Who was told "not_started" holds nothing and has never been started.
ContractInv ==
    \A a \in Attempts : verdict[a] = "not_started" => a \notin held \union started

RefusalsKept ==
    \A a \in Attempts : verdict[a] = "not_started" => verdict'[a] = "not_started"

\* What a step of the contract keeps: types, that word, and where starts come
\* from.
LEMMA ContractSteps ==
    ASSUME Gateway!TypeOK, ContractInv, Gateway!Next
    PROVE  /\ Gateway!TypeOK'
           /\ ContractInv'
           /\ started' \subseteq started \union held
           /\ RefusalsKept
<1> DEFINE Goal == /\ Gateway!TypeOK'
                   /\ ContractInv'
                   /\ started' \subseteq started \union held
                   /\ RefusalsKept
<1>1. CASE Gateway!Dismiss
    BY <1>1 DEF Gateway!Dismiss, Gateway!Dismissible, Gateway!Told,
        Gateway!TypeOK, Gateway!Verdicts, ContractInv, RefusalsKept
<1>2. ASSUME NEW r \in Attempts, Gateway!Admit(r) PROVE Goal
    BY <1>2 DEF Gateway!Admit, Gateway!Dismissible, Gateway!Told,
        Gateway!TypeOK, Gateway!Verdicts, ContractInv, RefusalsKept
<1>3. ASSUME NEW r \in Attempts,
             \/ Gateway!Start(r) \/ Gateway!Free(r)
             \/ Gateway!Answer(r) \/ Gateway!Lose(r)
      PROVE  Goal
    BY <1>3 DEF Gateway!Start, Gateway!Free, Gateway!Answer, Gateway!Lose,
        Gateway!Told, Gateway!TypeOK, Gateway!Verdicts, ContractInv, RefusalsKept
<1>4. ASSUME NEW b \in {"owner"}, Gateway!Resize(b) PROVE Goal
    <2>1. /\ \E most \in Limits : limit' = [limit EXCEPT ![b] = most]
          /\ UNCHANGED <<held, started, verdict>>
        BY <1>4 DEF Gateway!Resize
    <2> QED
        BY <2>1, DispatcherAssumption
            DEF Gateway!TypeOK, ContractInv, RefusalsKept, DispatcherAssumption
<1> QED
    BY <1>1, <1>2, <1>3, <1>4 DEF Gateway!Next
-----------------------------------------------------------------------------
(* The invariant.                                                          *)

\* The executor has an attempt.
Executing == executor \in {"select", "granted", "checked"}

Queued == {queue[i] : i \in 1 .. Len(queue)}

\* Attempts that may still be sent.
Coming == Queued \union (IF Executing THEN {current} ELSE {})

\* No attempt is queued twice.
QueueInv ==
    /\ Executing => current \in Attempts \ Queued
    /\ \A i, k \in 1 .. Len(queue) : queue[i] = queue[k] => i = k

\* An attempt that may still be sent was not sent, is no later than its job,
\* and if its job waits for it, nothing has answered it.
ComingInv(a) ==
    /\ http[a] = "none"
    /\ a[2] <= number[a[1]]
    /\ phase[a[1]] = "submit" => a[2] < number[a[1]]
    /\ Awaited(a) => answer[a[1]] = "none"

\* All a job sent was refused.
Refused(j) ==
    \A n \in 1 .. MaxAttempts :
        http[<<j, n>>] # "none" => verdict[<<j, n>>] = "not_started"

\* Where a job can be, what its answer and its progress stand for.
JobInv(j) ==
    /\ phase[j] = "new" => number[j] = 0
    /\ InJob(j) => number[j] \in 1 .. MaxAttempts
    /\ phase[j] = "backoff" => number[j] < MaxAttempts
    /\ phase[j] = "ended" => progress[j].closed \/ number[j] = 0
    /\ phase[j] = "waiting" /\ answer[j] = "retryable" =>
        verdict[<<j, number[j]>>] = "not_started"
    /\ told[j] = "not_started" => phase[j] = "ended"
    /\ \/ ~progress[j].mayHaveExecuted
       \/ told[j] = "not_started"
       \/ phase[j] \in {"new", "submit", "backoff"}
       => Refused(j)

InFlight(a) == http[a] \in {"sent", "arrived", "released"}

\* What an attempt has to do with the gateway and with its job: those before
\* the job's were refused, and in flight is only the one it waits for, unless
\* it has ended.
AttemptInv(a) ==
    /\ http[a] = "none" => a \notin held \union started /\ verdict[a] = "none"
    /\ http[a] # "none" =>
        /\ a[2] <= number[a[1]]
        /\ phase[a[1]] = "submit" => a[2] < number[a[1]]
        /\ a[2] < number[a[1]] \/ phase[a[1]] = "backoff" =>
            verdict[a] = "not_started"
    /\ InFlight(a) =>
        /\ a[2] = number[a[1]]
        /\ \/ phase[a[1]] = "ended"
           \/ Awaited(a) /\ answer[a[1]] = "none"
    /\ http[a] # "sent" /\ InFlight(a) /\ response[a] \in {"retryable", "refused"} =>
        verdict[a] = "not_started"

\* Whoever was seen waiting since may only have ended.
CheckedInv ==
    executor = "checked" => progress[current[1]].closed \/ Awaited(current)

Words ==
    /\ \A a \in Coming : ComingInv(a)
    /\ \A j \in Jobs : JobInv(j)
    /\ \A a \in Attempts : AttemptInv(a)
    /\ CheckedInv

IInv == TypeOK /\ QueueInv /\ Words /\ ContractInv /\ ExitsDrained
-----------------------------------------------------------------------------
(* Sets and sequences.                                                     *)

\* Attempts are pairs.
LEMMA Pairs ==
    /\ \A a \in Attempts : a[1] \in Jobs /\ a[2] \in 1 .. MaxAttempts
                           /\ a = <<a[1], a[2]>>
    /\ \A j \in Jobs, n \in 1 .. MaxAttempts : <<j, n>> \in Attempts
BY DEF Attempts

LEMMA FiniteHolding ==
    IsFiniteSet(Holding) /\ Cardinality(Holding) \in Nat
<1>1. IsFiniteSet(Attempts)
    <2>1. IsFiniteSet(1 .. MaxAttempts)
        BY FS_Interval, DispatcherAssumption DEF DispatcherAssumption
    <2> QED
        BY <2>1, FS_Product, DispatcherAssumption DEF Attempts, DispatcherAssumption
<1> QED
    BY <1>1, FS_Subset, FS_CardinalityType DEF Holding

\* Queued attempts are attempts.
LEMMA ComingAttempts ==
    ASSUME TypeOK, QueueInv
    PROVE  Coming \subseteq Attempts
BY DEF TypeOK, QueueInv, Coming, Queued

\* At first.
LEMMA InitInv == Init => IInv
<1> SUFFICES ASSUME Init PROVE IInv
    OBVIOUS
<1>1. Holding = {} /\ Coming = {} /\ Queued = {}
    BY DEF Init, Holding, Coming, Queued, Executing
<1>2. TypeOK
    BY <1>1, FS_EmptySet, DispatcherAssumption
        DEF Init, Gateway!Init, TypeOK, Gateway!TypeOK, Gateway!Verdicts,
            Answers, Executions, DispatcherAssumption
<1>3. QueueInv /\ CheckedInv /\ ExitsDrained
    BY <1>1 DEF Init, QueueInv, CheckedInv, ExitsDrained, Executing
<1>4. \A j \in Jobs : JobInv(j)
    BY Pairs DEF Init, JobInv, InJob, Refused
<1>5. ContractInv /\ \A a \in Attempts : AttemptInv(a)
    BY DEF Init, Gateway!Init, AttemptInv, InFlight, ContractInv
<1> QED
    BY <1>1, <1>2, <1>3, <1>4, <1>5 DEF IInv, Words
-----------------------------------------------------------------------------
(* Clients and connections.                                                *)

\* Steps that leave the executor, the gate, the tasks and the gateway alone.
OfAClient ==
    UNCHANGED <<executor, current, gateVars, httpVars, main, gatewayVars>>

\* They keep what is said of those.
LEMMA ClientFrame ==
    ASSUME IInv, OfAClient, UNCHANGED queue
    PROVE  /\ QueueInv' /\ ContractInv' /\ ExitsDrained'
           /\ Coming' = Coming /\ Coming \subseteq Attempts
           /\ Gateway!TypeOK'
           /\ active' = Cardinality(Holding')
                + IF executor' \in {"granted", "checked"} THEN 1 ELSE 0
<1>1. Holding' = Holding
    BY DEF OfAClient, Holding, httpVars
<1>2. Coming \subseteq Attempts
    BY ComingAttempts DEF IInv
<1> QED
    BY <1>1, <1>2
        DEF OfAClient, IInv, TypeOK, Gateway!TypeOK, QueueInv, ContractInv,
            ExitsDrained, Coming, Queued, Executing, gateVars, httpVars,
            gatewayVars

LEMMA LeaveStep ==
    ASSUME IInv, NEW j \in Jobs, Leave(j) PROVE IInv'
<1>1. OfAClient /\ UNCHANGED <<phase, number, answer, progress, queue, late>>
    BY DEF Leave, OfAClient, connectionVars, executorVars
<1>2. told' = [told EXCEPT ![j] = "unknown"]
    BY DEF Leave
<1>3. TypeOK'
    BY <1>1, <1>2, ClientFrame
        DEF IInv, TypeOK, OfAClient, Executions, gateVars, httpVars
<1>4. Words'
    BY <1>1, <1>2, ClientFrame
        DEF IInv, TypeOK, Words, ComingInv, JobInv, Refused, InJob, AttemptInv,
            CheckedInv, InFlight, Awaited, OfAClient, httpVars, gatewayVars
<1> QED
    BY <1>1, <1>3, <1>4, ClientFrame DEF IInv

LEMMA ExpireStep ==
    ASSUME IInv, NEW j \in Jobs, Expire(j) PROVE IInv'
<1>1. OfAClient
      /\ UNCHANGED <<phase, number, answer, progress, queue, told>>
    BY DEF Expire, OfAClient, connectionVars, executorVars
<1>2. late' = late \union {j}
    BY DEF Expire
<1>3. TypeOK'
    BY <1>1, <1>2, ClientFrame
        DEF IInv, TypeOK, OfAClient, Executions, gateVars, httpVars
<1>4. Words'
    BY <1>1, <1>2, ClientFrame
        DEF IInv, TypeOK, Words, ComingInv, JobInv, Refused, InJob, AttemptInv,
            CheckedInv, InFlight, Awaited, OfAClient, httpVars, gatewayVars
<1> QED
    BY <1>1, <1>3, <1>4, ClientFrame DEF IInv

\* A job gets its first attempt, or its next after a refusal: it is later than
\* all that were queued or sent.
LEMMA NextAttemptStep ==
    ASSUME IInv, NEW j \in Jobs, Connect(j) \/ Retry(j) PROVE IInv'
<1>1. /\ OfAClient /\ UNCHANGED <<answer, progress, queue, late, told>>
      /\ phase' = [phase EXCEPT ![j] = "submit"]
    BY DEF Connect, Retry, OfAClient, executorVars
<1>2. /\ number' = [number EXCEPT ![j] = number[j] + 1]
      /\ phase[j] \in {"new", "backoff"} /\ number[j] + 1 \in 1 .. MaxAttempts
      /\ phase[j] = "new" => number[j] = 0
    <2>1. /\ number \in [Jobs -> 0 .. MaxAttempts]
          /\ phase[j] = "new" => number[j] = 0
          /\ phase[j] = "backoff" => number[j] < MaxAttempts
        BY DEF IInv, TypeOK, Words, JobInv
    <2>2. CASE Connect(j)
        BY <2>1, <2>2, DispatcherAssumption DEF Connect, DispatcherAssumption
    <2>3. CASE Retry(j)
        BY <2>1, <2>3, DispatcherAssumption DEF Retry, DispatcherAssumption
    <2> QED
        BY <2>2, <2>3
<1>3. TypeOK'
    BY <1>1, <1>2, ClientFrame
        DEF IInv, TypeOK, OfAClient, Executions, gateVars, httpVars
<1>4. ASSUME NEW a \in Coming PROVE ComingInv(a)'
    <2>1. ComingInv(a) /\ a \in Attempts
        BY ClientFrame, <1>1 DEF IInv, Words
    <2> QED
        BY <1>1, <1>2, <2>1, Pairs
            DEF ComingInv, IInv, TypeOK, Awaited, OfAClient, httpVars
<1>5. ASSUME NEW a \in Attempts PROVE AttemptInv(a)'
    <2>1. AttemptInv(a)
        BY DEF IInv, Words
    <2> QED
        BY <1>1, <1>2, <2>1, Pairs
            DEF AttemptInv, IInv, TypeOK, Awaited, InFlight, OfAClient, httpVars,
                gatewayVars
<1>6. ASSUME NEW i \in Jobs PROVE JobInv(i)'
    <2>1. JobInv(i)
        BY DEF IInv, Words
    <2> QED
        BY <1>1, <1>2, <2>1
            DEF JobInv, IInv, TypeOK, InJob, Refused, OfAClient, httpVars,
                gatewayVars
<1>7. CheckedInv'
    BY <1>1, <1>2, Pairs
        DEF IInv, Words, CheckedInv, Awaited, TypeOK, QueueInv, Executing, OfAClient
<1> QED
    BY <1>1, <1>3, <1>4, <1>5, <1>6, <1>7, ClientFrame DEF IInv, Words

\* A job or a client that is turned away at once.
LEMMA RejectStep ==
    ASSUME IInv, NEW j \in Jobs, Reject(j) PROVE IInv'
<1>1. /\ OfAClient
      /\ UNCHANGED <<number, answer, progress, queue, late>>
      /\ phase' = [phase EXCEPT ![j] = "ended"] /\ phase[j] = "new"
    BY DEF Reject, OfAClient, executorVars
<1>2. \/ told' = told
      \/ \E w \in {"unknown", "not_started"} : told' = [told EXCEPT ![j] = w]
    BY DEF Reject, Hears, Lost
<1>3. TypeOK'
    BY <1>1, <1>2, ClientFrame
        DEF IInv, TypeOK, OfAClient, Executions, gateVars, httpVars
<1>4. ASSUME NEW a \in Coming PROVE ComingInv(a)'
    <2>1. ComingInv(a) /\ a \in Attempts
        BY ClientFrame, <1>1 DEF IInv, Words
    <2> QED
        BY <1>1, <2>1, Pairs
            DEF ComingInv, IInv, TypeOK, Awaited, OfAClient, httpVars
<1>5. ASSUME NEW a \in Attempts PROVE AttemptInv(a)'
    <2>1. AttemptInv(a)
        BY DEF IInv, Words
    <2> QED
        BY <1>1, <2>1, Pairs
            DEF AttemptInv, IInv, TypeOK, Awaited, InFlight, OfAClient, httpVars,
                gatewayVars
<1>6. ASSUME NEW i \in Jobs PROVE JobInv(i)'
    <2>1. JobInv(i)
        BY DEF IInv, Words
    <2> QED
        BY <1>1, <1>2, <2>1
            DEF JobInv, IInv, TypeOK, InJob, Refused, OfAClient, httpVars,
                gatewayVars
<1>7. CheckedInv'
    BY <1>1, Pairs
        DEF IInv, Words, CheckedInv, Awaited, TypeOK, QueueInv, Executing, OfAClient
<1> QED
    BY <1>1, <1>3, <1>4, <1>5, <1>6, <1>7, ClientFrame DEF IInv, Words

\* A job ends: nothing of it can be sent any more.
LEMMA EndStep ==
    ASSUME IInv, NEW j \in Jobs, InJob(j),
           NEW what \in {"completed", "unknown", "not_started"}, End(j, what),
           what = "not_started" => ~progress[j].mayHaveExecuted
    PROVE  IInv'
<1>1. /\ OfAClient
      /\ UNCHANGED <<number, queue, late>>
      /\ phase' = [phase EXCEPT ![j] = "ended"]
      /\ progress' = [progress EXCEPT ![j].closed = TRUE]
      /\ answer' = [answer EXCEPT ![j] = "none"]
    BY DEF End, OfAClient, executorVars
<1>2. \/ told' = told
      \/ told' = [told EXCEPT ![j] = what]
      \/ told' = [told EXCEPT ![j] = "unknown"]
    BY DEF End, Hears, Lost
<1>3. TypeOK'
    <2>1. told' \in [Jobs -> Executions]
        BY <1>2 DEF IInv, TypeOK, Executions
    <2>2. /\ progress' \in [Jobs -> [mayHaveExecuted : BOOLEAN, closed : BOOLEAN]]
          /\ answer' \in [Jobs -> Answers]
        BY <1>1 DEF IInv, TypeOK, Answers
    <2> QED
        BY <1>1, <2>1, <2>2, ClientFrame
            DEF IInv, TypeOK, OfAClient, gateVars, httpVars
<1>4. ASSUME NEW a \in Coming PROVE ComingInv(a)'
    <2>1. ComingInv(a) /\ a \in Attempts
        BY ClientFrame, <1>1 DEF IInv, Words
    <2> QED
        BY <1>1, <2>1, Pairs
            DEF ComingInv, IInv, TypeOK, Awaited, OfAClient, httpVars
<1>5. ASSUME NEW a \in Attempts PROVE AttemptInv(a)'
    <2>1. AttemptInv(a)
        BY DEF IInv, Words
    <2> QED
        BY <1>1, <2>1, Pairs
            DEF AttemptInv, IInv, TypeOK, Awaited, InFlight, OfAClient, httpVars,
                gatewayVars
<1>6. ASSUME NEW i \in Jobs PROVE JobInv(i)'
    <2>1. JobInv(i) /\ JobInv(j)
        BY DEF IInv, Words
    <2> QED
        BY <1>1, <1>2, <2>1
            DEF JobInv, IInv, TypeOK, InJob, Refused, OfAClient, httpVars,
                gatewayVars
<1>7. CheckedInv'
    BY <1>1, Pairs
        DEF IInv, Words, CheckedInv, Awaited, TypeOK, QueueInv, Executing, OfAClient
<1> QED
    BY <1>1, <1>3, <1>4, <1>5, <1>6, <1>7, ClientFrame DEF IInv, Words

LEMMA EndsStep ==
    ASSUME IInv, NEW j \in Jobs,
           Complete(j) \/ Fail(j) \/ Deadline(j) \/ Disconnect(j) \/ Abort(j)
    PROVE  IInv'
<1>1. CASE Complete(j) \/ Disconnect(j) \/ Abort(j)
    BY <1>1, EndStep DEF Complete, Disconnect, Abort, InJob
<1>2. CASE Fail(j) \/ Deadline(j)
    BY <1>2, EndStep DEF Fail, Deadline, Failure, InJob
<1> QED
    BY <1>1, <1>2

LEMMA BackoffStep ==
    ASSUME IInv, NEW j \in Jobs, Backoff(j) PROVE IInv'
<1>1. /\ OfAClient
      /\ UNCHANGED <<number, progress, queue, late, told>>
      /\ phase[j] = "waiting" /\ answer[j] = "retryable"
      /\ number[j] < MaxAttempts
      /\ phase' = [phase EXCEPT ![j] = "backoff"]
      /\ answer' = [answer EXCEPT ![j] = "none"]
    BY DEF Backoff, SafeToRetry, OfAClient, executorVars
<1>2. verdict[<<j, number[j]>>] = "not_started" /\ number[j] \in 1 .. MaxAttempts
    BY <1>1 DEF IInv, Words, JobInv, InJob
<1>3. TypeOK'
    BY <1>1, ClientFrame
        DEF IInv, TypeOK, OfAClient, Executions, Answers, gateVars, httpVars
<1>4. ASSUME NEW a \in Coming PROVE ComingInv(a)'
    <2>1. ComingInv(a) /\ a \in Attempts
        BY ClientFrame, <1>1 DEF IInv, Words
    <2> QED
        BY <1>1, <2>1, Pairs
            DEF ComingInv, IInv, TypeOK, Awaited, OfAClient, httpVars
<1>5. ASSUME NEW a \in Attempts PROVE AttemptInv(a)'
    <2>1. AttemptInv(a)
        BY DEF IInv, Words
    <2>2. ASSUME a[1] = j, http[a] # "none" PROVE verdict[a] = "not_started"
        <3>1. a = <<j, a[2]>> /\ a[2] \in 1 .. MaxAttempts /\ a[2] <= number[j]
            BY <2>1, <2>2, Pairs DEF AttemptInv
        <3>2. CASE a[2] = number[j]
            BY <1>2, <3>1, <3>2
        <3>3. CASE a[2] # number[j]
            <4>1. a[2] < number[j]
                BY <1>2, <3>1, <3>3, DispatcherAssumption DEF DispatcherAssumption
            <4> QED
                BY <2>1, <2>2, <4>1 DEF AttemptInv
        <3> QED
            BY <3>2, <3>3
    <2> QED
        BY <1>1, <2>1, <2>2, Pairs
            DEF AttemptInv, IInv, TypeOK, Awaited, InFlight, OfAClient, httpVars,
                gatewayVars
<1>6. ASSUME NEW i \in Jobs PROVE JobInv(i)'
    <2>1. JobInv(i)
        BY DEF IInv, Words
    <2>2. ASSUME NEW n \in 1 .. MaxAttempts, http[<<j, n>>] # "none"
          PROVE  verdict[<<j, n>>] = "not_started"
        <3>1. AttemptInv(<<j, n>>)
            BY Pairs DEF IInv, Words
        <3>2. n <= number[j] /\ (n < number[j] => verdict[<<j, n>>] = "not_started")
            BY <2>2, <3>1 DEF AttemptInv
        <3>3. n < number[j] \/ n = number[j]
            BY <1>2, <3>2, DispatcherAssumption DEF DispatcherAssumption
        <3> QED
            BY <1>2, <3>2, <3>3
    <2> QED
        BY <1>1, <1>2, <2>1, <2>2
            DEF JobInv, IInv, TypeOK, InJob, Refused, OfAClient, httpVars,
                gatewayVars
<1>7. CheckedInv'
    <2>1. executor = "checked" =>
            \/ progress[current[1]].closed
            \/ Awaited(current) /\ answer[current[1]] = "none"
        BY DEF IInv, Words, CheckedInv, ComingInv, Coming, Executing
    <2> QED
        BY <1>1, <2>1, Pairs DEF CheckedInv, Awaited, OfAClient, IInv, TypeOK
<1> QED
    BY <1>1, <1>3, <1>4, <1>5, <1>6, <1>7, ClientFrame DEF IInv, Words

\* An attempt is queued, or there is no queue any more.
LEMMA SubmitStep ==
    ASSUME IInv, NEW j \in Jobs, Submit(j) PROVE IInv'
<1> DEFINE b == <<j, number[j]>>
<1>1. /\ OfAClient
      /\ UNCHANGED <<number, progress, late, told>>
      /\ phase[j] = "submit"
      /\ phase' = [phase EXCEPT ![j] = "waiting"]
      /\ \E what \in {"none", "error"} : answer' = [answer EXCEPT ![j] = what]
    BY DEF Submit, OfAClient
<1>2. b \in Attempts /\ b \notin Coming /\ http[b] = "none"
    <2>1. b \in Attempts
        BY <1>1, Pairs DEF IInv, Words, JobInv, InJob
    <2>2. AttemptInv(b) /\ (b \in Coming => ComingInv(b))
        BY <2>1 DEF IInv, Words
    <2> QED
        BY <1>1, <2>1, <2>2 DEF AttemptInv, ComingInv, IInv, TypeOK
<1>3. \/ /\ queue' = Append(queue, b) /\ Len(queue) < Capacity
         /\ answer' = [answer EXCEPT ![j] = "none"]
      \/ UNCHANGED queue
    BY DEF Submit
<1>4. /\ queue' \in Seq(Attempts) /\ Len(queue') <= Capacity
      /\ Coming' \subseteq Coming \union {b}
      /\ QueueInv'
      /\ b \in Coming' => answer'[j] = "none"
    <2>1. CASE UNCHANGED queue
        BY <1>1, <1>2, <2>1
            DEF IInv, TypeOK, QueueInv, OfAClient, Coming, Queued, Executing
    <2>2. CASE /\ queue' = Append(queue, b) /\ Len(queue) < Capacity
               /\ answer' = [answer EXCEPT ![j] = "none"]
        <3>1. /\ queue \in Seq(Attempts) /\ Len(queue) \in Nat
              /\ queue' \in Seq(Attempts) /\ Len(queue') = Len(queue) + 1
              /\ queue'[Len(queue) + 1] = b
              /\ \A i \in 1 .. Len(queue) : queue'[i] = queue[i]
            BY <1>2, <2>2 DEF IInv, TypeOK
        <3>2. Queued' = Queued \union {b} /\ b \notin Queued
            <4>1. Queued' = {queue'[i] : i \in 1 .. (Len(queue) + 1)}
                BY <3>1 DEF Queued
            <4>2. \A i \in 1 .. (Len(queue) + 1) :
                    i \in 1 .. Len(queue) \/ i = Len(queue) + 1
                BY <3>1
            <4>3. /\ \A i \in 1 .. Len(queue) : i \in 1 .. (Len(queue) + 1)
                  /\ Len(queue) + 1 \in 1 .. (Len(queue) + 1)
                BY <3>1
            <4>4. Queued' \subseteq Queued \union {b}
                BY <3>1, <4>1, <4>2 DEF Queued
            <4>5. Queued \union {b} \subseteq Queued'
                BY <3>1, <4>1, <4>3 DEF Queued
            <4> QED
                BY <1>2, <4>4, <4>5 DEF Coming
        <3>3. Coming' = Coming \union {b}
            BY <1>1, <3>2 DEF Coming, OfAClient, Executing
        <3>4. (Executing => current \in Attempts \ Queued)'
            BY <1>1, <1>2, <3>2 DEF IInv, QueueInv, OfAClient, Executing, Coming
        <3>5. \A i \in 1 .. Len(queue) : queue[i] # b
            BY <3>2 DEF Queued
        <3>6. \A i, k \in 1 .. Len(queue') : queue'[i] = queue'[k] => i = k
            BY <3>1, <3>5 DEF IInv, QueueInv
        <3>7. Len(queue') <= Capacity
            BY <2>2, <3>1, DispatcherAssumption DEF DispatcherAssumption
        <3>8. answer'[j] = "none"
            BY <2>2 DEF IInv, TypeOK
        <3> QED
            BY <3>1, <3>3, <3>4, <3>6, <3>7, <3>8 DEF QueueInv
    <2> QED
        BY <1>3, <2>1, <2>2
<1>5. TypeOK' /\ ContractInv' /\ ExitsDrained'
    <2>1. Holding' = Holding
        BY <1>1 DEF OfAClient, Holding, httpVars
    <2> QED
        BY <1>1, <1>4, <2>1
            DEF IInv, TypeOK, Gateway!TypeOK, OfAClient, Executions, Answers,
                gateVars, httpVars, gatewayVars, ContractInv, ExitsDrained
<1>6. ASSUME NEW a \in Coming' PROVE ComingInv(a)'
    <2>1. CASE a = b
        BY <1>1, <1>2, <1>4, <2>1 DEF ComingInv, IInv, TypeOK, OfAClient, httpVars
    <2>2. CASE a \in Coming
        <3>1. ComingInv(a) /\ a \in Attempts
            BY <2>2, ComingAttempts DEF IInv, Words
        <3> QED
            BY <1>1, <3>1, Pairs
                DEF ComingInv, IInv, TypeOK, Awaited, OfAClient, httpVars
    <2> QED
        BY <1>4, <2>1, <2>2
<1>7. ASSUME NEW a \in Attempts PROVE AttemptInv(a)'
    <2>1. AttemptInv(a)
        BY DEF IInv, Words
    <2> QED
        BY <1>1, <2>1, Pairs
            DEF AttemptInv, IInv, TypeOK, Awaited, InFlight, OfAClient, httpVars,
                gatewayVars
<1>8. ASSUME NEW i \in Jobs PROVE JobInv(i)'
    <2>1. JobInv(i)
        BY DEF IInv, Words
    <2> QED
        BY <1>1, <2>1
            DEF JobInv, IInv, TypeOK, InJob, Refused, OfAClient, httpVars,
                gatewayVars
<1>9. CheckedInv'
    BY <1>1, Pairs
        DEF IInv, Words, CheckedInv, Awaited, TypeOK, QueueInv, Executing, OfAClient
<1> QED
    BY <1>4, <1>5, <1>6, <1>7, <1>8, <1>9 DEF IInv, Words
-----------------------------------------------------------------------------
(* The executor.                                                           *)

\* Attempts that the executor gives up are answered with an error; the words
\* about all others stay true.
LEMMA GivingUp ==
    ASSUME IInv, NEW S \in SUBSET Coming, Coming' \subseteq Coming \ S,
           answer' \in [Jobs -> Answers],
           \A j \in Jobs :
                \/ answer'[j] = answer[j]
                \/ /\ answer'[j] = "error"
                   /\ \E a \in S : a[1] = j /\ Awaited(a),
           UNCHANGED <<phase, number, progress, httpVars, told, gatewayVars>>
    PROVE  /\ \A a \in Coming' : ComingInv(a)'
           /\ \A j \in Jobs : JobInv(j)'
           /\ \A a \in Attempts : AttemptInv(a)'
           /\ ContractInv' /\ Gateway!TypeOK'
<1>1. Coming \subseteq Attempts
    BY ComingAttempts DEF IInv
<1>2. ASSUME NEW a \in Attempts, Awaited(a), answer'[a[1]] # answer[a[1]]
      PROVE  a \in S
    BY <1>1, <1>2, Pairs DEF Awaited
<1>3. ASSUME NEW a \in Coming' PROVE ComingInv(a)'
    <2>1. a \in Coming \ S /\ a \in Attempts /\ ComingInv(a)
        BY <1>1 DEF IInv, Words
    <2> QED
        BY <1>2, <2>1, Pairs DEF ComingInv, Awaited, httpVars
<1>4. ASSUME NEW a \in Attempts PROVE AttemptInv(a)'
    <2>1. AttemptInv(a) /\ (a \in S => http[a] = "none")
        BY DEF IInv, Words, ComingInv
    <2> QED
        BY <1>2, <2>1, Pairs
            DEF AttemptInv, Awaited, InFlight, httpVars, gatewayVars
<1>5. ASSUME NEW j \in Jobs PROVE JobInv(j)'
    <2>1. JobInv(j)
        BY DEF IInv, Words
    <2> QED
        BY <2>1 DEF JobInv, Refused, InJob, httpVars, gatewayVars
<1>6. ContractInv' /\ Gateway!TypeOK'
    BY DEF IInv, TypeOK, ContractInv, Gateway!TypeOK, gatewayVars
<1> QED
    BY <1>3, <1>4, <1>5, <1>6

\* The other types, when the executor changes hands, permits or the queue.
LEMMA ExecutorTypes ==
    ASSUME IInv, Gateway!TypeOK',
           queue' \in Seq(Attempts), Len(queue') <= Capacity,
           executor' \in {"recv", "select", "granted", "checked", "draining",
                          "ended"},
           current' \in Attempts \union {NoAttempt},
           answer' \in [Jobs -> Answers],
           UNCHANGED <<phase, number, progress, httpVars, told, late, main,
                       ready, maximum>>,
           active' = Cardinality(Holding)
                + IF executor' \in {"granted", "checked"} THEN 1 ELSE 0
    PROVE  TypeOK' /\ Holding' = Holding
<1>1. Holding' = Holding
    BY DEF Holding, httpVars
<1> QED
    BY <1>1 DEF IInv, TypeOK, httpVars

LEMMA RecvStep == IInv /\ Recv => IInv'
<1> SUFFICES ASSUME IInv, Recv PROVE IInv'
    OBVIOUS
<1>1. /\ executor = "recv" /\ executor' = "select" /\ queue # <<>>
      /\ current' = Head(queue) /\ queue' = Tail(queue)
      /\ UNCHANGED <<phase, number, answer, progress, active, ready, maximum,
                     httpVars, late, told, main, gatewayVars>>
    BY DEF Recv, connectionVars, gateVars
<1>2. /\ queue \in Seq(Attempts) /\ Len(queue) \in Nat \ {0}
      /\ Len(queue) <= Capacity
    BY <1>1 DEF IInv, TypeOK
<1>3. /\ queue' \in Seq(Attempts) /\ Len(queue') = Len(queue) - 1
      /\ current' = queue[1] /\ current' \in Attempts
      /\ \A i \in 1 .. Len(queue') : queue'[i] = queue[i + 1]
    BY <1>1, <1>2
<1>4. \A i \in 1 .. Len(queue') : i + 1 \in 1 .. Len(queue) /\ i + 1 # 1
    BY <1>2, <1>3
<1>5. Queued' \subseteq Queued /\ current' \in Queued \ Queued'
    <2>1. 1 \in 1 .. Len(queue)
        BY <1>2
    <2> QED
        BY <1>3, <1>4, <2>1 DEF Queued, IInv, QueueInv
<1>6. QueueInv'
    <2>1. ASSUME NEW i \in 1 .. Len(queue'), NEW k \in 1 .. Len(queue'),
                 queue'[i] = queue'[k]
          PROVE  i = k
        <3>1. i + 1 = k + 1
            BY <1>3, <1>4, <2>1 DEF IInv, QueueInv
        <3> QED
            BY <1>2, <1>3, <3>1
    <2> QED
        BY <1>3, <1>5, <2>1 DEF QueueInv
<1>7. Coming' \subseteq Coming
    BY <1>1, <1>5 DEF Coming, Executing
<1>8. /\ \A a \in Coming' : ComingInv(a)'
      /\ \A j \in Jobs : JobInv(j)'
      /\ \A a \in Attempts : AttemptInv(a)'
      /\ ContractInv' /\ Gateway!TypeOK'
    <2>1. answer' \in [Jobs -> Answers] /\ {} \in SUBSET Coming
        BY <1>1 DEF IInv, TypeOK
    <2> QED
        BY <1>1, <1>7, <2>1, GivingUp
<1>9. TypeOK' /\ Holding' = Holding
    <2>1. /\ Len(queue') <= Capacity /\ answer' \in [Jobs -> Answers]
          /\ active' = Cardinality(Holding) + 0
        BY <1>1, <1>2, <1>3, DispatcherAssumption
            DEF IInv, TypeOK, DispatcherAssumption
    <2> QED
        BY <1>1, <1>3, <1>8, <2>1, ExecutorTypes
<1> QED
    BY <1>1, <1>6, <1>8, <1>9 DEF IInv, Words, CheckedInv, ExitsDrained

\* The executor keeps its attempt.
LEMMA HoldOnStep == IInv /\ (Acquire \/ CheckReceiver) => IInv'
<1> SUFFICES ASSUME IInv, Acquire \/ CheckReceiver PROVE IInv'
    OBVIOUS
<1>1. /\ UNCHANGED <<phase, number, answer, progress, queue, current, ready,
                     maximum, httpVars, late, told, main, gatewayVars>>
      /\ Executing /\ Executing' /\ executor' \in {"granted", "checked"}
      /\ executor' = "checked" => Awaited(current)
      /\ main \notin {"drained", "exited"}
    BY DEF Acquire, CheckReceiver, connectionVars, gateVars, Executing, Alive,
        Stopped, IInv, ExitsDrained
<1>2. QueueInv' /\ Coming' = Coming
    BY <1>1 DEF IInv, QueueInv, Coming, Queued
<1>3. active' = Cardinality(Holding) + 1
    BY FiniteHolding DEF Acquire, CheckReceiver, IInv, TypeOK, gateVars
<1>4. answer' \in [Jobs -> Answers] /\ {} \in SUBSET Coming
    BY <1>1 DEF IInv, TypeOK
<1>5. /\ \A a \in Coming' : ComingInv(a)'
      /\ \A j \in Jobs : JobInv(j)'
      /\ \A a \in Attempts : AttemptInv(a)'
      /\ ContractInv' /\ Gateway!TypeOK'
    BY <1>1, <1>2, <1>4, GivingUp
<1>6. TypeOK'
    <2>1. /\ queue' \in Seq(Attempts) /\ Len(queue') <= Capacity
          /\ current' \in Attempts \union {NoAttempt}
        BY <1>1 DEF IInv, TypeOK
    <2> QED
        BY <1>1, <1>3, <1>4, <1>5, <2>1, ExecutorTypes
<1>7. CheckedInv'
    BY <1>1 DEF CheckedInv, Awaited
<1> QED
    BY <1>1, <1>2, <1>5, <1>6, <1>7 DEF IInv, Words, ExitsDrained

\* The executor is done with its attempt without having sent it.
LEMMA LetGoStep == IInv /\ (Skip \/ SkipLate \/ Break \/ CannotBegin) => IInv'
<1> SUFFICES ASSUME IInv, Skip \/ SkipLate \/ Break \/ CannotBegin PROVE IInv'
    OBVIOUS
<1>1. /\ UNCHANGED <<phase, number, progress, queue, ready, maximum, httpVars,
                     late, told, main, gatewayVars>>
      /\ Executing /\ executor' \in {"recv", "draining"} /\ current' = NoAttempt
      /\ answer' = answer \/ Answered({current}, "error")
    BY DEF Skip, SkipLate, Break, CannotBegin, connectionVars, gateVars, Executing
<1>2. /\ answer' \in [Jobs -> Answers]
      /\ \A j \in Jobs :
            \/ answer'[j] = answer[j]
            \/ /\ answer'[j] = "error"
               /\ \E a \in {current} : a[1] = j /\ Awaited(a)
    BY <1>1 DEF Answered, IInv, TypeOK, Answers
<1>3. QueueInv' /\ Coming' = Coming \ {current} /\ {current} \in SUBSET Coming
    BY <1>1 DEF IInv, QueueInv, Coming, Queued, Executing
<1>4. active' = Cardinality(Holding) + 0
    <2>1. CASE Skip \/ SkipLate \/ Break
        BY <2>1 DEF Skip, SkipLate, Break, IInv, TypeOK, gateVars
    <2>2. CASE CannotBegin
        BY <2>2, FiniteHolding DEF CannotBegin, IInv, TypeOK
    <2> QED
        BY <2>1, <2>2
<1>5. /\ \A a \in Coming' : ComingInv(a)'
      /\ \A j \in Jobs : JobInv(j)'
      /\ \A a \in Attempts : AttemptInv(a)'
      /\ ContractInv' /\ Gateway!TypeOK'
    BY <1>1, <1>2, <1>3, GivingUp
<1>6. TypeOK' /\ Holding' = Holding
    <2>1. queue' \in Seq(Attempts) /\ Len(queue') <= Capacity
        BY <1>1 DEF IInv, TypeOK
    <2> QED
        BY <1>1, <1>2, <1>4, <1>5, <2>1, ExecutorTypes
<1> QED
    BY <1>1, <1>3, <1>5, <1>6 DEF IInv, Words, CheckedInv, ExitsDrained

LEMMA FinishStep == IInv /\ Finish => IInv'
<1> SUFFICES ASSUME IInv, Finish PROVE IInv'
    OBVIOUS
<1>1. /\ UNCHANGED <<phase, number, progress, current, active, ready, maximum,
                     httpVars, late, told, main, gatewayVars>>
      /\ executor = "draining" /\ executor' = "ended" /\ queue' = <<>>
      /\ Answered(Queued, "error")
    BY DEF Finish, gateVars, Queued
<1>2. /\ answer' \in [Jobs -> Answers]
      /\ \A j \in Jobs :
            \/ answer'[j] = answer[j]
            \/ /\ answer'[j] = "error"
               /\ \E a \in Queued : a[1] = j /\ Awaited(a)
    BY <1>1 DEF Answered, IInv, TypeOK, Answers
<1>3. QueueInv' /\ Coming' = {} /\ Queued \in SUBSET Coming
    BY <1>1 DEF QueueInv, Coming, Queued, Executing
<1>4. /\ \A a \in Coming' : ComingInv(a)'
      /\ \A j \in Jobs : JobInv(j)'
      /\ \A a \in Attempts : AttemptInv(a)'
      /\ ContractInv' /\ Gateway!TypeOK'
    BY <1>1, <1>2, <1>3, GivingUp
<1>5. TypeOK' /\ Holding' = Holding
    <2>1. /\ queue' \in Seq(Attempts) /\ Len(queue') <= Capacity
          /\ active' = Cardinality(Holding) + 0
          /\ current' \in Attempts \union {NoAttempt}
        BY <1>1, DispatcherAssumption DEF IInv, TypeOK, DispatcherAssumption
    <2> QED
        BY <1>1, <1>2, <1>4, <2>1, ExecutorTypes
<1> QED
    BY <1>1, <1>3, <1>4, <1>5 DEF IInv, Words, CheckedInv, ExitsDrained

\* An attempt is sent: its job is waiting for it, as it was when the receiver
\* was looked at, because its progress is not closed.
LEMMA BeginStep == IInv /\ Begin => IInv'
<1> SUFFICES ASSUME IInv, Begin PROVE IInv'
    OBVIOUS
<1> DEFINE j == current[1]
<1>1. /\ UNCHANGED <<phase, number, answer, queue, active, ready, maximum,
                     response, late, told, main, gatewayVars>>
      /\ executor = "checked" /\ ~progress[j].closed
      /\ progress' = [progress EXCEPT ![j].mayHaveExecuted = TRUE]
      /\ http' = [http EXCEPT ![current] = "sent"]
      /\ executor' = "recv" /\ current' = NoAttempt
    BY DEF Begin, MayBegin, gateVars
<1>2. current \in Attempts \ Queued /\ current \in Coming
    BY <1>1 DEF IInv, QueueInv, Executing, Coming
<1>3. /\ j \in Jobs /\ Awaited(current) /\ answer[j] = "none"
      /\ http[current] = "none"
    BY <1>1, <1>2, Pairs DEF IInv, Words, CheckedInv, ComingInv
<1>4. QueueInv' /\ Coming' = Queued
    BY <1>1 DEF IInv, QueueInv, Coming, Queued, Executing
<1>5. TypeOK' /\ ContractInv'
    <2>1. Holding' = Holding \union {current} /\ current \notin Holding
        BY <1>1, <1>2, <1>3 DEF Holding, IInv, TypeOK
    <2>2. Cardinality(Holding') = Cardinality(Holding) + 1
        BY <2>1, FiniteHolding, FS_AddElement
    <2>3. active' = Cardinality(Holding') + 0
        BY <1>1, <2>2, FiniteHolding DEF IInv, TypeOK
    <2>4. /\ progress' \in [Jobs -> [mayHaveExecuted : BOOLEAN, closed : BOOLEAN]]
          /\ http' \in [Attempts -> {"none", "sent", "arrived", "released", "done"}]
        BY <1>1, <1>2, <1>3 DEF IInv, TypeOK
    <2> QED
        BY <1>1, <2>3, <2>4
            DEF IInv, TypeOK, Gateway!TypeOK, gatewayVars, ContractInv
<1>6. ASSUME NEW a \in Coming' PROVE ComingInv(a)'
    <2>1. ComingInv(a) /\ a # current /\ a \in Attempts
        BY <1>2, <1>4, ComingAttempts DEF Coming, IInv, Words
    <2> QED
        BY <1>1, <2>1 DEF ComingInv, Awaited, IInv, TypeOK
<1>7. ASSUME NEW i \in Jobs PROVE JobInv(i)'
    <2>1. JobInv(i)
        BY DEF IInv, Words
    <2>2. CASE i = j
        BY <1>1, <1>3, <2>1, <2>2
            DEF JobInv, InJob, Awaited, gatewayVars, IInv, TypeOK
    <2>3. CASE i # j
        <3>1. \A n \in 1 .. MaxAttempts : http'[<<i, n>>] = http[<<i, n>>]
            BY <1>1, <1>2, <2>3, Pairs DEF IInv, TypeOK
        <3> QED
            BY <1>1, <1>3, <2>1, <2>3, <3>1
                DEF JobInv, InJob, Refused, gatewayVars, IInv, TypeOK
    <2> QED
        BY <2>2, <2>3
<1>8. ASSUME NEW a \in Attempts PROVE AttemptInv(a)'
    <2>1. AttemptInv(a)
        BY DEF IInv, Words
    <2>2. CASE a = current
        BY <1>1, <1>2, <1>3, <2>2, Pairs, DispatcherAssumption
            DEF AttemptInv, Awaited, InFlight, gatewayVars, IInv, TypeOK,
                DispatcherAssumption
    <2>3. CASE a # current
        BY <1>1, <2>1, <2>3
            DEF AttemptInv, Awaited, InFlight, gatewayVars, IInv, TypeOK
    <2> QED
        BY <2>2, <2>3
<1> QED
    BY <1>1, <1>4, <1>5, <1>6, <1>7, <1>8
        DEF IInv, Words, CheckedInv, ExitsDrained
-----------------------------------------------------------------------------
(* The tasks of attempts.                                                  *)

\* They leave the executor and its queue alone.
LEMMA TaskFrame ==
    ASSUME IInv, UNCHANGED <<executor, current, queue, gatewayVars>>
    PROVE  /\ QueueInv' /\ ContractInv' /\ Gateway!TypeOK'
           /\ Coming' = Coming /\ Coming \subseteq Attempts
BY ComingAttempts
    DEF IInv, TypeOK, Gateway!TypeOK, QueueInv, ContractInv, Coming, Queued,
        Executing, gatewayVars

\* A refusal takes mayHaveExecuted back, and is right to: all that was sent
\* before was refused, too.
LEMMA ArriveStep ==
    ASSUME IInv, NEW a \in Attempts, Arrive(a) PROVE IInv'
<1> DEFINE j == a[1]
<1>1. /\ UNCHANGED <<phase, number, answer, queue, executor, current, active,
                     ready, maximum, late, told, main, gatewayVars>>
      /\ http[a] = "sent" /\ http' = [http EXCEPT ![a] = "arrived"]
    BY DEF Arrive, executorVars, gateVars
<1>2. PICK what \in Statuses(verdict[a]) \union {"error"} :
        /\ response' = [response EXCEPT ![a] = what]
        /\ progress' = IF NotStarted(what)
                       THEN [progress EXCEPT ![j].mayHaveExecuted = FALSE]
                       ELSE progress
    BY DEF Arrive
<1>3. /\ what \in Answers
      /\ NotStarted(what) => verdict[a] = "not_started"
    <2>1. verdict[a] \in Gateway!Verdicts
        BY DEF IInv, TypeOK, Gateway!TypeOK
    <2> QED
        BY <2>1 DEF Statuses, NotStarted, Answers, Gateway!Verdicts
<1>4. j \in Jobs /\ AttemptInv(a) /\ a[2] = number[j] /\ a = <<j, number[j]>>
    BY <1>1, Pairs DEF IInv, Words, AttemptInv, InFlight
<1>5. NotStarted(what) => Refused(j)
    <2> SUFFICES ASSUME NotStarted(what), NEW n \in 1 .. MaxAttempts,
                        http[<<j, n>>] # "none"
                 PROVE  verdict[<<j, n>>] = "not_started"
        BY DEF Refused
    <2>1. AttemptInv(<<j, n>>)
        BY <1>4, Pairs DEF IInv, Words
    <2>2. n <= number[j] /\ (n < number[j] => verdict[<<j, n>>] = "not_started")
        BY <2>1 DEF AttemptInv
    <2>3. n < number[j] \/ n = number[j]
        BY <1>4, <2>2, Pairs, DispatcherAssumption DEF DispatcherAssumption
    <2> QED
        BY <1>3, <1>4, <2>2, <2>3
<1>6. TypeOK'
    <2>1. Holding' = Holding
        BY <1>1 DEF Holding, IInv, TypeOK
    <2>2. progress' \in [Jobs -> [mayHaveExecuted : BOOLEAN, closed : BOOLEAN]]
        BY <1>2, <1>4 DEF IInv, TypeOK
    <2>3. /\ http' \in [Attempts -> {"none", "sent", "arrived", "released", "done"}]
          /\ response' \in [Attempts -> Answers]
        BY <1>1, <1>2, <1>3 DEF IInv, TypeOK
    <2> QED
        BY <1>1, <2>1, <2>2, <2>3, TaskFrame DEF IInv, TypeOK
<1>7. \A i \in Jobs :
        /\ progress'[i].closed = progress[i].closed
        /\ \/ progress'[i].mayHaveExecuted = progress[i].mayHaveExecuted
           \/ i = j /\ Refused(j)
    BY <1>2, <1>4, <1>5 DEF IInv, TypeOK
<1>8. ASSUME NEW b \in Coming' PROVE ComingInv(b)'
    <2>1. ComingInv(b) /\ b # a
        BY <1>1, TaskFrame DEF IInv, Words, ComingInv
    <2> QED
        BY <1>1, <2>1, TaskFrame DEF ComingInv, Awaited, IInv, TypeOK
<1>9. ASSUME NEW i \in Jobs PROVE JobInv(i)'
    <2>1. JobInv(i)
        BY DEF IInv, Words
    <2>2. Refused(i) => Refused(i)'
        BY <1>1, Pairs DEF Refused, IInv, TypeOK, gatewayVars
    <2> QED
        BY <1>1, <1>7, <2>1, <2>2 DEF JobInv, InJob, gatewayVars
<1>10. ASSUME NEW b \in Attempts PROVE AttemptInv(b)'
    <2>1. AttemptInv(b)
        BY DEF IInv, Words
    <2>2. CASE b = a
        BY <1>1, <1>2, <1>3, <2>1, <2>2
            DEF AttemptInv, Awaited, InFlight, gatewayVars, NotStarted, IInv, TypeOK
    <2>3. CASE b # a
        BY <1>1, <1>2, <2>1, <2>3
            DEF AttemptInv, Awaited, InFlight, gatewayVars, IInv, TypeOK
    <2> QED
        BY <2>2, <2>3
<1>11. CheckedInv' /\ ExitsDrained'
    <2>1. Holding' = Holding
        BY <1>1 DEF Holding, IInv, TypeOK
    <2>2. CheckedInv'
        BY <1>1, <1>7, Pairs
            DEF IInv, Words, CheckedInv, Awaited, QueueInv, Executing
    <2> QED
        BY <1>1, <2>1, <2>2 DEF IInv, ExitsDrained
<1> QED
    BY <1>1, <1>6, <1>8, <1>9, <1>10, <1>11, TaskFrame DEF IInv, Words

LEMMA DropPermitStep ==
    ASSUME IInv, NEW a \in Attempts, DropPermit(a) PROVE IInv'
<1>1. /\ UNCHANGED <<phase, number, answer, progress, queue, executor, current,
                     ready, maximum, response, late, told, main, gatewayVars>>
      /\ http[a] = "arrived" /\ http' = [http EXCEPT ![a] = "released"]
      /\ active' = active - 1
    BY DEF DropPermit, executorVars, connectionVars
<1>2. Holding' = Holding \ {a} /\ a \in Holding
    BY <1>1 DEF Holding, IInv, TypeOK
<1>3. TypeOK'
    <2>1. Cardinality(Holding') = Cardinality(Holding) - 1
        BY <1>2, FiniteHolding, FS_RemoveElement
    <2>2. http' \in [Attempts -> {"none", "sent", "arrived", "released", "done"}]
        BY <1>1 DEF IInv, TypeOK
    <2>3. active' = Cardinality(Holding')
                + IF executor' \in {"granted", "checked"} THEN 1 ELSE 0
        BY <1>1, <2>1, FiniteHolding DEF IInv, TypeOK
    <2> QED
        BY <1>1, <2>2, <2>3, TaskFrame DEF IInv, TypeOK
<1>4. ASSUME NEW b \in Coming' PROVE ComingInv(b)'
    <2>1. ComingInv(b) /\ b # a
        BY <1>1, TaskFrame DEF IInv, Words, ComingInv
    <2> QED
        BY <1>1, <2>1, TaskFrame DEF ComingInv, Awaited, IInv, TypeOK
<1>5. ASSUME NEW i \in Jobs PROVE JobInv(i)'
    <2>1. JobInv(i)
        BY DEF IInv, Words
    <2>2. Refused(i) => Refused(i)'
        BY <1>1, Pairs DEF Refused, IInv, TypeOK, gatewayVars
    <2> QED
        BY <1>1, <2>1, <2>2 DEF JobInv, InJob, gatewayVars
<1>6. ASSUME NEW b \in Attempts PROVE AttemptInv(b)'
    <2>1. AttemptInv(b)
        BY DEF IInv, Words
    <2> QED
        BY <1>1, <2>1
            DEF AttemptInv, Awaited, InFlight, gatewayVars, IInv, TypeOK
<1>7. CheckedInv' /\ ExitsDrained'
    BY <1>1, <1>2 DEF IInv, Words, CheckedInv, Awaited, ExitsDrained
<1> QED
    BY <1>1, <1>3, <1>4, <1>5, <1>6, <1>7, TaskFrame DEF IInv, Words

\* The job that waits for the attempt, if any, gets what the gateway said.
LEMMA DeliverStep ==
    ASSUME IInv, NEW a \in Attempts, Deliver(a) PROVE IInv'
<1>1. /\ UNCHANGED <<phase, number, progress, queue, executor, current, active,
                     ready, maximum, late, told, main, gatewayVars>>
      /\ http[a] = "released" /\ http' = [http EXCEPT ![a] = "done"]
      /\ response' = [response EXCEPT ![a] = "none"]
      /\ Answered({a}, response[a])
    BY DEF Deliver, executorVars, gateVars
<1>2. \A j \in Jobs :
        \/ answer'[j] = answer[j]
        \/ j = a[1] /\ Awaited(a) /\ answer'[j] = response[a]
    BY <1>1 DEF Answered
<1>3. AttemptInv(a)
    BY DEF IInv, Words
<1>4. TypeOK' /\ Holding' = Holding
    <2>1. Holding' = Holding
        BY <1>1 DEF Holding, IInv, TypeOK
    <2>2. /\ http' \in [Attempts -> {"none", "sent", "arrived", "released", "done"}]
          /\ response' \in [Attempts -> Answers]
          /\ answer' \in [Jobs -> Answers]
        BY <1>1 DEF IInv, TypeOK, Answers, Answered
    <2> QED
        BY <1>1, <2>1, <2>2, TaskFrame DEF IInv, TypeOK
<1>5. ASSUME NEW b \in Attempts, b # a, Awaited(b)
      PROVE  answer'[b[1]] = answer[b[1]]
    BY <1>2, <1>5, Pairs DEF Awaited
<1>6. ASSUME NEW b \in Coming' PROVE ComingInv(b)'
    <2>1. ComingInv(b) /\ b # a
        BY <1>1, TaskFrame DEF IInv, Words, ComingInv
    <2> QED
        BY <1>1, <1>5, <2>1, TaskFrame DEF ComingInv, Awaited, IInv, TypeOK
<1>7. ASSUME NEW i \in Jobs PROVE JobInv(i)'
    <2>1. JobInv(i)
        BY DEF IInv, Words
    <2>2. Refused(i) => Refused(i)'
        BY <1>1, Pairs DEF Refused, IInv, TypeOK, gatewayVars
    <2>3. CASE answer'[i] = answer[i]
        BY <1>1, <2>1, <2>2, <2>3 DEF JobInv, InJob, gatewayVars
    <2>4. CASE i = a[1] /\ Awaited(a) /\ answer'[i] = response[a]
        <3>1. a = <<i, number[i]>> /\ number'[i] = number[i]
            BY <1>1, <2>4, Pairs DEF Awaited
        <3>2. answer'[i] = "retryable" => verdict'[<<i, number'[i]>>] = "not_started"
            BY <1>1, <1>3, <2>4, <3>1 DEF AttemptInv, InFlight, gatewayVars
        <3> QED
            BY <1>1, <2>1, <2>2, <3>2 DEF JobInv, InJob, gatewayVars
    <2> QED
        BY <1>2, <2>3, <2>4
<1>8. ASSUME NEW b \in Attempts PROVE AttemptInv(b)'
    <2>1. AttemptInv(b)
        BY DEF IInv, Words
    <2>2. CASE b = a
        BY <1>1, <2>1, <2>2
            DEF AttemptInv, Awaited, InFlight, gatewayVars, IInv, TypeOK
    <2>3. CASE b # a
        BY <1>1, <1>5, <2>1, <2>3
            DEF AttemptInv, Awaited, InFlight, gatewayVars, IInv, TypeOK
    <2> QED
        BY <2>2, <2>3
<1>9. CheckedInv' /\ ExitsDrained'
    BY <1>1, <1>4 DEF IInv, Words, CheckedInv, Awaited, ExitsDrained
<1> QED
    BY <1>1, <1>4, <1>6, <1>7, <1>8, <1>9, TaskFrame DEF IInv, Words
-----------------------------------------------------------------------------
(* The process, the policy and the gateway.                                *)

\* They keep what is said of jobs and attempts.
LEMMA ProcessFrame ==
    ASSUME IInv, UNCHANGED <<connectionVars, executorVars, active, httpVars,
                             late, told, gatewayVars>>
    PROVE  /\ QueueInv' /\ Words' /\ ContractInv' /\ Holding' = Holding
           /\ maximum' \in Limits /\ ready' \in BOOLEAN
              /\ main' \in {"serving", "aborting", "stopping", "drained", "exited"}
              => TypeOK'
<1>1. Coming' = Coming
    BY DEF executorVars, Coming, Queued, Executing
<1>2. Words'
    BY <1>1 DEF IInv, Words, ComingInv, JobInv, AttemptInv, CheckedInv, Refused,
        InJob, InFlight, Awaited, connectionVars, executorVars, httpVars,
        gatewayVars
<1>3. QueueInv' /\ ContractInv' /\ Holding' = Holding
    BY DEF IInv, QueueInv, Queued, Executing, executorVars, ContractInv, Holding,
        httpVars, gatewayVars
<1> QED
    BY <1>2, <1>3
        DEF IInv, TypeOK, Gateway!TypeOK, connectionVars, executorVars, httpVars,
            gatewayVars

\* Main sees no active attempt: none is running and none is about to begin.
LEMMA SeeDrainedStep == IInv /\ SeeDrained => IInv'
<1> SUFFICES ASSUME IInv, SeeDrained PROVE IInv'
    OBVIOUS
<1>1. /\ UNCHANGED <<connectionVars, executorVars, active, httpVars, late, told,
                     gatewayVars>>
      /\ main' = "drained" /\ active = 0 /\ ready' = ready /\ maximum' = maximum
    BY DEF SeeDrained, gateVars
<1>2. Cardinality(Holding) = 0 /\ executor \notin {"granted", "checked"}
    BY <1>1, FiniteHolding DEF IInv, TypeOK
<1>3. Holding = {}
    BY <1>2, FiniteHolding, FS_EmptySet
<1> QED
    BY <1>1, <1>2, <1>3, ProcessFrame
        DEF IInv, TypeOK, ExitsDrained, executorVars

LEMMA ProcessStep ==
    IInv /\ (Refresh \/ Interrupt \/ StopGate \/ Exit) => IInv'
<1> SUFFICES ASSUME IInv, Refresh \/ Interrupt \/ StopGate \/ Exit PROVE IInv'
    OBVIOUS
<1>1. /\ UNCHANGED <<connectionVars, executorVars, active, httpVars, late, told,
                     gatewayVars>>
      /\ ready' \in BOOLEAN /\ maximum' \in Limits
      /\ main' \in {"serving", "aborting", "stopping", "drained", "exited"}
      /\ main' \in {"drained", "exited"} => main \in {"drained", "exited"}
    BY DEF Refresh, Interrupt, StopGate, Exit, gateVars, IInv, TypeOK
<1> QED
    BY <1>1, ProcessFrame DEF IInv, ExitsDrained, executorVars

LEMMA GatewayKeeps == IInv /\ GatewayStep => IInv'
<1> SUFFICES ASSUME IInv, GatewayStep PROVE IInv'
    OBVIOUS
<1>1. /\ UNCHANGED <<connectionVars, executorVars, gateVars, httpVars, late,
                     told, main>>
      /\ \A a \in Attempts : http[a] = "none" =>
            a \notin held' /\ verdict'[a] = verdict[a]
      /\ Gateway!Next
    BY DEF GatewayStep
<1>2. /\ Gateway!TypeOK' /\ ContractInv' /\ RefusalsKept
      /\ started' \subseteq started \union held
    BY <1>1, ContractSteps DEF IInv, TypeOK
<1>3. /\ Coming' = Coming /\ Holding' = Holding /\ Coming \subseteq Attempts
      /\ QueueInv' /\ ExitsDrained' /\ CheckedInv'
    BY <1>1, ComingAttempts
        DEF IInv, Words, QueueInv, Coming, Queued, Executing, Holding,
            ExitsDrained, CheckedInv, Awaited, connectionVars, executorVars,
            httpVars
<1>4. TypeOK'
    BY <1>1, <1>2, <1>3
        DEF IInv, TypeOK, connectionVars, executorVars, gateVars, httpVars
<1>5. ASSUME NEW a \in Coming' PROVE ComingInv(a)'
    BY <1>1, <1>3
        DEF IInv, Words, ComingInv, Awaited, connectionVars, httpVars
<1>6. ASSUME NEW j \in Jobs PROVE JobInv(j)'
    <2>1. JobInv(j)
        BY DEF IInv, Words
    <2> QED
        BY <1>1, <1>2, <2>1, Pairs
            DEF JobInv, Refused, InJob, RefusalsKept, connectionVars, httpVars
<1>7. ASSUME NEW a \in Attempts PROVE AttemptInv(a)'
    <2>1. AttemptInv(a)
        BY DEF IInv, Words
    <2> QED
        BY <1>1, <1>2, <2>1
            DEF AttemptInv, InFlight, Awaited, RefusalsKept, connectionVars,
                httpVars
<1> QED
    BY <1>2, <1>3, <1>4, <1>5, <1>6, <1>7 DEF IInv, Words

LEMMA StutterStep == IInv /\ UNCHANGED vars => IInv'
<1> SUFFICES ASSUME IInv, UNCHANGED vars PROVE IInv'
    OBVIOUS
<1>1. /\ UNCHANGED <<connectionVars, executorVars, active, httpVars, late, told,
                     gatewayVars>>
      /\ ready' = ready /\ maximum' = maximum /\ main' = main
    BY DEF vars, gateVars
<1> QED
    BY <1>1, ProcessFrame DEF IInv, TypeOK, ExitsDrained, executorVars

LEMMA NextInv == IInv /\ [Next]_vars => IInv'
<1> SUFFICES ASSUME IInv, [Next]_vars PROVE IInv'
    OBVIOUS
<1>1. ASSUME NEW j \in Jobs,
             \/ Connect(j) \/ Reject(j) \/ Submit(j) \/ Backoff(j) \/ Retry(j)
             \/ Complete(j) \/ Fail(j) \/ Deadline(j) \/ Disconnect(j) \/ Abort(j)
             \/ Leave(j) \/ Expire(j)
      PROVE  IInv'
    BY <1>1, NextAttemptStep, RejectStep, SubmitStep, BackoffStep, EndsStep,
        LeaveStep, ExpireStep
<1>2. CASE Executor
    BY <1>2, RecvStep, HoldOnStep, LetGoStep, FinishStep, BeginStep DEF Executor
<1>3. ASSUME NEW a \in Attempts, Task(a) PROVE IInv'
    BY <1>3, ArriveStep, DropPermitStep, DeliverStep DEF Task
<1>4. CASE Refresh \/ Interrupt \/ StopGate \/ SeeDrained \/ Exit \/ GatewayStep
    BY <1>4, ProcessStep, SeeDrainedStep, GatewayKeeps
<1> QED
    BY <1>1, <1>2, <1>3, <1>4, StutterStep DEF Next

LEMMA Invariance == Spec => []IInv
BY InitInv, NextInv, PTL DEF Spec
-----------------------------------------------------------------------------
(* The theorems.                                                           *)

\* The gate counts exactly the attempts that own a permit and the one that is
\* about to begin, and everything keeps its type.
THEOREM TypeCorrect == Spec => []TypeOK
<1>1. IInv => TypeOK
    BY DEF IInv
<1> QED
    BY Invariance, <1>1, PTL

\* NotStartedIsTrue: no attempt of a job whose client hears "not_started" is
\* ever executed.
THEOREM RefusalsTrue == Spec => []NotStartedIsTrue
<1>1. IInv => NotStartedIsTrue
    <2> SUFFICES ASSUME IInv, NEW j \in Jobs, told[j] = "not_started",
                        NEW a \in started, a[1] = j
                 PROVE  FALSE
        BY DEF NotStartedIsTrue
    <2>1. a \in Attempts /\ a = <<j, a[2]>> /\ a[2] \in 1 .. MaxAttempts
        BY Pairs DEF IInv, TypeOK, Gateway!TypeOK
    <2>2. Refused(j) /\ http[a] # "none"
        BY <2>1 DEF IInv, Words, JobInv, AttemptInv
    <2> QED
        BY <2>1, <2>2 DEF Refused, IInv, ContractInv
<1> QED
    BY Invariance, <1>1, PTL

\* ExecutedOnce: a job that repeats its attempts is executed once at most,
\* because all it sent before was refused.
THEOREM ExecutedAtMostOnce == Spec => []ExecutedOnce
<1>1. ASSUME IInv, NEW a \in started, NEW b \in started, a[1] = b[1], a[2] < b[2]
      PROVE  FALSE
    <2>1. a \in Attempts /\ b \in Attempts
        BY <1>1 DEF IInv, TypeOK, Gateway!TypeOK
    <2>2. AttemptInv(a) /\ AttemptInv(b)
        BY <1>1, <2>1 DEF IInv, Words
    <2>3. http[a] # "none" /\ b[2] <= number[a[1]]
        BY <1>1, <2>2 DEF AttemptInv
    <2>4. number[a[1]] \in Nat /\ a[2] \in Nat /\ b[2] \in Nat
        BY <1>1, <2>1, Pairs, DispatcherAssumption
            DEF IInv, TypeOK, DispatcherAssumption
    <2>5. a[2] < number[a[1]]
        BY <1>1, <2>3, <2>4
    <2> QED
        BY <1>1, <2>1, <2>2, <2>3, <2>5 DEF AttemptInv, IInv, ContractInv
<1>2. IInv => ExecutedOnce
    <2> SUFFICES ASSUME IInv, NEW a \in started, NEW b \in started,
                        a[1] = b[1], a # b
                 PROVE  FALSE
        BY DEF ExecutedOnce
    <2>1. a \in Attempts /\ b \in Attempts
        BY DEF IInv, TypeOK, Gateway!TypeOK
    <2>2. a[2] # b[2] /\ a[2] \in Nat /\ b[2] \in Nat
        BY <2>1, Pairs, DispatcherAssumption DEF DispatcherAssumption
    <2>3. a[2] < b[2] \/ b[2] < a[2]
        BY <2>2
    <2> QED
        BY <1>1, <2>3
<1> QED
    BY Invariance, <1>2, PTL

\* ExitsDrained: once main has seen no active attempt none appears.
THEOREM DrainedAtExit == Spec => []ExitsDrained
<1>1. IInv => ExitsDrained
    BY DEF IInv
<1> QED
    BY Invariance, <1>1, PTL

\* NothingSentAfterEnd: an attempt begins only while its job waits for it,
\* although the job is looked at two steps earlier.
THEOREM SilentAfterEnd == Spec => NothingSentAfterEnd
<1> DEFINE Silent ==
        \A a \in Attempts :
            http[a] = "none" /\ http'[a] # "none" => phase[a[1]] # "ended"
<1>1. IInv /\ [Next]_vars => [Silent]_vars
    <2> SUFFICES ASSUME IInv, Next PROVE Silent
        OBVIOUS
    <2>1. CASE Begin
        <3>1. Awaited(current)
            BY <2>1 DEF Begin, MayBegin, IInv, Words, CheckedInv
        <3> QED
            BY <2>1, <3>1 DEF Begin, Awaited, IInv, TypeOK
    <2>2. ASSUME NEW b \in Attempts, Task(b) PROVE Silent
        BY <2>2 DEF Task, Arrive, DropPermit, Deliver, IInv, TypeOK
    <2>3. ASSUME UNCHANGED http PROVE Silent
        BY <2>3
    <2>4. ASSUME NEW j \in Jobs,
                 \/ Connect(j) \/ Reject(j) \/ Submit(j) \/ Backoff(j)
                 \/ Retry(j) \/ Complete(j) \/ Fail(j) \/ Deadline(j)
                 \/ Disconnect(j) \/ Abort(j) \/ Leave(j) \/ Expire(j)
          PROVE  UNCHANGED http
        BY <2>4 DEF Connect, Reject, Submit, Backoff, Retry, Complete, Fail,
            Deadline, Disconnect, Abort, End, Leave, Expire, httpVars
    <2>5. ASSUME Executor, ~Begin PROVE UNCHANGED http
        BY <2>5 DEF Executor, Recv, Skip, SkipLate, Acquire, Break, Finish,
            CheckReceiver, CannotBegin, httpVars
    <2>6. ASSUME Refresh \/ Interrupt \/ StopGate \/ SeeDrained \/ Exit
                 \/ GatewayStep
          PROVE  UNCHANGED http
        BY <2>6 DEF Refresh, Interrupt, StopGate, SeeDrained, Exit, GatewayStep,
            httpVars
    <2> QED
        BY <2>1, <2>2, <2>3, <2>4, <2>5, <2>6 DEF Next
<1> QED
    BY Invariance, <1>1, PTL DEF Spec, NothingSentAfterEnd
=============================================================================

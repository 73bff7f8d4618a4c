----------------------------- MODULE GateProofs -----------------------------
(***************************************************************************)
(* Proofs about Gate, for any number of workers, any ceilings and any      *)
(* number of revisions and restarts of the gateway.                        *)
(***************************************************************************)
EXTENDS Gate, FiniteSetTheorems, TLAPS

-----------------------------------------------------------------------------
(* The counter of attempts.                                                *)

\* Workers that hold an attempt are finitely many.
LEMMA FiniteAttempts ==
    /\ IsFiniteSet(Attempts)
    /\ Cardinality(Attempts) \in Nat
    /\ Cardinality(Attempts) = 0 <=> Attempts = {}
BY FS_Subset, FS_CardinalityType, FS_EmptySet, GateAssumption
    DEF GateAssumption, Attempts

\* A step of a worker outside of an attempt to another such place.
LEMMA AttemptsKept ==
    ASSUME TypeOK, NEW w \in Workers, NEW place,
           worker' = [worker EXCEPT ![w] = place],
           worker[w] \in {"acquired", "holding"}
                <=> place \in {"acquired", "holding"}
    PROVE  Attempts' = Attempts
BY DEF Attempts, TypeOK

\* One worker's attempt begins.
LEMMA AttemptAdded ==
    ASSUME TypeOK, NEW w \in Workers, w \notin Attempts,
           worker' = [worker EXCEPT ![w] = "acquired"]
    PROVE  /\ Attempts' = Attempts \union {w}
           /\ Cardinality(Attempts') = Cardinality(Attempts) + 1
<1>1. Attempts' = Attempts \union {w}
    BY DEF Attempts, TypeOK
<1> QED
    BY <1>1, FiniteAttempts, FS_AddElement

\* One worker's attempt is dropped.
LEMMA AttemptRemoved ==
    ASSUME TypeOK, NEW w \in Workers, w \in Attempts,
           worker' = [worker EXCEPT ![w] = "dropped"]
    PROVE  /\ Attempts' = Attempts \ {w}
           /\ Cardinality(Attempts') = Cardinality(Attempts) - 1
<1>1. Attempts' = Attempts \ {w}
    BY DEF Attempts, TypeOK
<1> QED
    BY <1>1, FiniteAttempts, FS_RemoveElement
-----------------------------------------------------------------------------
(* Types.                                                                  *)

\* A worker's step leaves the types correct.
LEMMA WorkerTypes ==
    ASSUME TypeOK, NEW w \in Workers, Subscribe(w) \/ Worker(w) \/ GiveUp(w)
    PROVE  TypeOK'
<1>2. CASE Acquire(w)
    <2>1. w \notin Attempts
        BY <1>2 DEF Acquire, Attempts
    <2>2. active' = Cardinality(Attempts')
        BY <1>2, <2>1, AttemptAdded DEF Acquire, TypeOK
    <2> QED
        BY <1>2, <2>2 DEF Acquire, TypeOK, Policies
<1>3. CASE Drop(w)
    <2>1. w \in Attempts
        BY <1>3 DEF Drop, Attempts
    <2>2. active' = Cardinality(Attempts')
        BY <1>3, <2>1, AttemptRemoved DEF Drop, TypeOK
    <2> QED
        BY <1>3, <2>2 DEF Drop, TypeOK, Policies
<1>4. CASE Subscribe(w) \/ Refuse(w) \/ Decline(w) \/ Wait(w) \/ Wake(w)
            \/ GiveUp(w) \/ AnnounceAcquired(w) \/ AnnounceDropped(w)
    <2>1. Attempts' = Attempts
        BY <1>4, AttemptsKept
            DEF Subscribe, Refuse, Decline, Wait, Wake, GiveUp,
                AnnounceAcquired, AnnounceDropped
    <2> QED
        BY <1>4, <2>1
            DEF Subscribe, Refuse, Decline, Wait, Wake, GiveUp,
                AnnounceAcquired, AnnounceDropped, Publish, TypeOK, stateVars,
                Policies
<1> QED
    BY <1>2, <1>3, <1>4 DEF Worker

\* Every other step, too.
LEMMA OtherTypes ==
    ASSUME TypeOK,
           \/ Fetch \/ Apply \/ Pause \/ AnnouncePolicy
           \/ AbortPoller \/ Stopping
           \/ SetCeiling \/ Restart
           \/ UNCHANGED vars
    PROVE  TypeOK'
<1>1. Attempts' = Attempts
    BY DEF Fetch, Apply, Pause, AnnouncePolicy, AbortPoller, Stopping, Stop,
           AnnounceStop, SubscribeMain, CheckDrained, WakeMain, SetCeiling,
           Restart, vars, Attempts
<1>2. CASE Fetch
    BY <1>1, <1>2 DEF Fetch, TypeOK, stateVars
<1>3. CASE Apply
    BY <1>1, <1>3 DEF Apply, Consistent, TypeOK, Policies
<1>4. CASE Pause \/ AnnouncePolicy \/ AbortPoller
    BY <1>1, <1>4 DEF Pause, AnnouncePolicy, AbortPoller, Publish, TypeOK,
                      stateVars
<1>5. CASE Stopping
    BY <1>1, <1>5 DEF Stopping, Stop, AnnounceStop, SubscribeMain,
                      CheckDrained, WakeMain, Publish, TypeOK, stateVars
<1>6. CASE SetCeiling \/ Restart
    BY <1>1, <1>6 DEF SetCeiling, Restart, TypeOK, stateVars
<1>7. CASE UNCHANGED vars
    BY <1>1, <1>7 DEF vars, TypeOK
<1> QED
    BY <1>2, <1>3, <1>4, <1>5, <1>6, <1>7

\* Types are correct at first.
LEMMA InitTypes == Init => TypeOK
<1> SUFFICES ASSUME Init PROVE TypeOK
    OBVIOUS
<1>1. Attempts = {} /\ Cardinality(Attempts) = 0
    BY FS_EmptySet DEF Init, Attempts
<1>2. revision \in 0 .. LastRevision
    BY GateAssumption DEF Init, GateAssumption
<1> QED
    BY <1>1, <1>2 DEF Init, TypeOK

\* TypeOK: the counter of State is the number of Attempt values alive, on
\* whatever way they begin and end.
THEOREM TypeCorrect == Spec => []TypeOK
<1>1. TypeOK /\ [Next]_vars => TypeOK'
    BY WorkerTypes, OtherTypes DEF Next
<1> QED
    BY InitTypes, <1>1, PTL DEF Spec
-----------------------------------------------------------------------------
(* Wake-ups.                                                               *)

\* A worker that has looked at the state and not found it as it wanted still
\* has the right picture, or will be told.
WorkerInformed ==
    \A w \in Workers :
        /\ worker[w] \in {"declined", "waiting"}
        /\ CanAcquire \/ stopped
        => w \in unseen \/ Announcing

\* And so has main.
MainInformed == main = "waiting" /\ active = 0 => Main \in unseen \/ Announcing

WakeInv == WorkerInformed /\ MainInformed

\* A change that is being announced makes nobody wrong.
LEMMA AnnouncedInformed == Announcing' => WakeInv'
BY DEF WakeInv, WorkerInformed, MainInformed

\* Nor does an announcement.
LEMMA PublishInforms == Publish /\ TypeOK => WakeInv'
BY DEF Publish, WakeInv, WorkerInformed, MainInformed

\* A step that leaves the state, and what is announced, alone leaves those
\* informed who keep their receivers as they are.
LEMMA WorkerWakes ==
    ASSUME TypeOK, WakeInv, NEW w \in Workers,
           Subscribe(w) \/ Worker(w) \/ GiveUp(w)
    PROVE  WakeInv'
<1>1. CASE AnnounceAcquired(w) \/ AnnounceDropped(w)
    BY <1>1, PublishInforms DEF AnnounceAcquired, AnnounceDropped
<1>2. CASE Acquire(w)
    <2>1. Announcing'
        BY <1>2 DEF Acquire, Announcing, TypeOK
    <2> QED
        BY <2>1, AnnouncedInformed
<1>3. CASE Drop(w)
    <2>1. Announcing'
        BY <1>3 DEF Drop, Announcing, TypeOK
    <2> QED
        BY <2>1, AnnouncedInformed
<1>4. CASE Subscribe(w) \/ Refuse(w) \/ Decline(w) \/ Wait(w) \/ Wake(w)
            \/ GiveUp(w)
    <2>1. /\ CanAcquire' <=> CanAcquire
          /\ stopped' = stopped /\ active' = active /\ main' = main
        BY <1>4 DEF Subscribe, Refuse, Decline, Wait, Wake, GiveUp, stateVars,
                    CanAcquire
    <2>2. Announcing' <=> Announcing
        BY <1>4 DEF Subscribe, Refuse, Decline, Wait, Wake, GiveUp, Announcing,
                    TypeOK
    <2>3. \A v \in Workers \union {Main} : v # w => (v \in unseen' <=> v \in unseen)
        BY <1>4 DEF Subscribe, Refuse, Decline, Wait, Wake, GiveUp
    <2>4. Main # w
        BY GateAssumption DEF GateAssumption
    <2>5. MainInformed'
        BY <2>1, <2>2, <2>3, <2>4 DEF WakeInv, MainInformed
    <2>6. ASSUME NEW v \in Workers, worker'[v] \in {"declined", "waiting"},
                 CanAcquire \/ stopped
          PROVE  v \in unseen' \/ Announcing'
        <3>1. CASE v # w
            <4>1. worker'[v] = worker[v]
                BY <1>4, <3>1 DEF Subscribe, Refuse, Decline, Wait, Wake,
                                  GiveUp, TypeOK
            <4> QED
                BY <2>2, <2>3, <2>6, <3>1, <4>1 DEF WakeInv, WorkerInformed
        <3>2. CASE v = w
            <4>1. CASE Wait(w)
                BY <2>2, <2>6, <3>2, <4>1 DEF Wait, WakeInv, WorkerInformed
            <4>2. CASE ~Wait(w)
                BY <1>4, <2>6, <3>2, <4>2
                    DEF Subscribe, Refuse, Decline, Wake, GiveUp, TypeOK
            <4> QED
                BY <4>1, <4>2
        <3> QED
            BY <3>1, <3>2
    <2> QED
        BY <2>1, <2>5, <2>6 DEF WakeInv, WorkerInformed
<1> QED
    BY <1>1, <1>2, <1>3, <1>4 DEF Worker

\* The poller, the end of main and the gateway.
LEMMA OtherWakes ==
    ASSUME TypeOK, WakeInv,
           \/ Fetch \/ Apply \/ Pause \/ AnnouncePolicy
           \/ AbortPoller \/ Stopping
           \/ SetCeiling \/ Restart
           \/ UNCHANGED vars
    PROVE  WakeInv'
<1>1. CASE AnnouncePolicy \/ AnnounceStop
    BY <1>1, PublishInforms DEF AnnouncePolicy, AnnounceStop
<1>2. CASE Apply \/ Pause \/ Stop
    <2>1. Announcing'
        BY <1>2 DEF Apply, Pause, Stop, Announcing
    <2> QED
        BY <2>1, AnnouncedInformed
<1>3. CASE Fetch \/ AbortPoller \/ SetCeiling \/ Restart \/ UNCHANGED vars
    BY <1>3 DEF Fetch, AbortPoller, SetCeiling, Restart, vars, stateVars,
                WakeInv, WorkerInformed, MainInformed, Announcing, CanAcquire
<1>4. CASE SubscribeMain \/ CheckDrained \/ WakeMain
    <2>1. \A w \in Workers : w \in unseen' <=> w \in unseen
        BY <1>4, GateAssumption
            DEF SubscribeMain, CheckDrained, WakeMain, GateAssumption
    <2>2. Announcing' <=> Announcing
        BY <1>4 DEF SubscribeMain, CheckDrained, WakeMain, Announcing
    <2>3. WorkerInformed'
        BY <1>4, <2>1, <2>2
            DEF SubscribeMain, CheckDrained, WakeMain, stateVars, CanAcquire,
                WakeInv, WorkerInformed
    <2>4. MainInformed'
        BY <1>4 DEF SubscribeMain, CheckDrained, WakeMain, stateVars,
                    MainInformed
    <2> QED
        BY <2>3, <2>4 DEF WakeInv
<1> QED
    BY <1>1, <1>2, <1>3, <1>4 DEF Stopping

\* NoMissedChange: acquire subscribes before it looks, and every change is
\* announced after it was made, so nobody sleeps on what has changed.
THEOREM ChangesNoticed == Spec => []NoMissedChange
<1>1. Init => WakeInv
    BY DEF Init, WakeInv, WorkerInformed, MainInformed
<1>2. TypeOK /\ WakeInv /\ [Next]_vars => WakeInv'
    BY WorkerWakes, OtherWakes DEF Next
<1>3. WakeInv => NoMissedChange
    BY DEF WakeInv, WorkerInformed, MainInformed, NoMissedChange
<1> QED
    BY TypeCorrect, <1>1, <1>2, <1>3, PTL DEF Spec
-----------------------------------------------------------------------------
(* The end.                                                                *)

\* From stop on the gate is stopped; what main has seen drained is empty.
EndInv ==
    /\ main \in {"publish", "subscribe", "check", "waiting", "drained"} => stopped
    /\ main = "drained" => active = 0

\* DrainedForGood: active = 0 is final in a stopped gate, so that the
\* dispatcher may end when it has seen it.
THEOREM StaysDrained == Spec => []DrainedForGood
<1>1. Init => EndInv
    BY DEF Init, EndInv
<1>2. ASSUME TypeOK, EndInv, [Next]_vars
      PROVE  EndInv'
    <2>1. ASSUME NEW w \in Workers, Subscribe(w) \/ Worker(w) \/ GiveUp(w)
          PROVE  EndInv'
        <3>1. CASE Drop(w)
            <4>1. w \in Attempts
                BY <3>1 DEF Drop, Attempts
            <4>2. active # 0
                BY <1>2, <4>1, FiniteAttempts DEF TypeOK
            <4> QED
                BY <1>2, <3>1, <4>2 DEF Drop, EndInv
        <3>2. CASE Acquire(w)
            BY <1>2, <3>2 DEF Acquire, EndInv
        <3> QED
            BY <1>2, <2>1, <3>1, <3>2
                DEF Subscribe, Worker, Refuse, Decline, Wait, Wake, GiveUp,
                    AnnounceAcquired, AnnounceDropped, stateVars, EndInv
    <2>2. CASE Stopping
        BY <1>2, <2>2 DEF Stopping, Stop, AnnounceStop, SubscribeMain, CheckDrained,
                    WakeMain, stateVars, EndInv
    <2>3. CASE \/ Fetch \/ Apply \/ Pause \/ AnnouncePolicy \/ AbortPoller
               \/ SetCeiling \/ Restart \/ UNCHANGED vars
        BY <1>2, <2>3 DEF Fetch, Apply, Pause, AnnouncePolicy, AbortPoller,
                    SetCeiling, Restart, vars, stateVars, EndInv
    <2> QED
        BY <1>2, <2>1, <2>2, <2>3 DEF Next
<1>3. TypeOK /\ EndInv => DrainedForGood
    BY FiniteAttempts DEF TypeOK, EndInv, DrainedForGood
<1> QED
    BY TypeCorrect, <1>1, <1>2, <1>3, PTL DEF Spec
=============================================================================
